---------------------------- MODULE MCWsonParser ----------------------------
(***************************************************************************)
(* Documents for WsonParser: between them every type of value, at the top, *)
(* in an array, as the value of a key, before and after another one.       *)
(***************************************************************************)
EXTENDS WsonParser, SequencesExt

(* A node and what it is made of. *)
RECURSIVE Parts(_)
Parts(node) ==
  {node} \cup UNION {Parts(node.items[j].val) : j \in DOMAIN node.items}

(* Its bytes, after the header item by item. *)
RECURSIVE EncodeUpTo(_, _)
EncodeUpTo(node, n) ==
  Header(node) \o FlattenSeq([j \in 1..(n - 1) |->
    LET val == node.items[j].val
    IN  KeyPart(node, j) \o EncodeUpTo(val, Len(val.items) + 1)])

Leaf(tag, bytes) == [tag |-> tag, payload |-> bytes, items |-> <<>>]
Array(vals) ==
  [tag |-> ArrayType, payload |-> <<>>,
   items |-> [i \in DOMAIN vals |-> [key |-> <<>>, val |-> vals[i]]]]
Map(items) == [tag |-> MapType, payload |-> <<>>, items |-> items]
Item(key, val) == [key |-> key, val |-> val]

Null   == Leaf(NullType, <<>>)
True   == Leaf(BooleanTrue, <<>>)
False  == Leaf(BooleanFalse, <<>>)
Whole    == Leaf(IntType, VarUint(Zig(-65)))
Long   == Leaf(LongType, <<0, 0, 0, 0, 0, 0, 0, 5>>)
Double == Leaf(DoubleType, <<64, 20, 0, 0, 0, 0, 0, 0>>)
Float  == Leaf(FloatType, <<63, 128, 0, 0>>)
Text   == Leaf(StringType, <<53, 0, 54, 0>>)
Bytes8 == Leaf(Uint8String, <<53>>)
Empty  == Leaf(StringType, <<>>)
Big    == Leaf(BigIntType, <<55, 0>>)
Price  == Leaf(BigDecimalType, <<55, 0>>)

k == <<107, 0>>

(* Documents that both parsers can skip. *)
Plain ==
  {Text, Long,
   Array(<<Whole, Map(<<Item(k, Double), Item(<<>>, Text)>>), Null>>),
   Map(<<Item(k, Array(<<>>)), Item(k, Array(<<Big, True>>))>>),
   Array(<<Bytes8, False, Map(<<>>), Price, Empty>>)}

Floats == {Float, Array(<<Float, Whole>>), Map(<<Item(k, Array(<<Null, Float>>)), Item(k, Text)>>)}

Texts == {Array(<<Text, Whole>>)}

Numbers == {IntType, FloatType, DoubleType, LongType}
Others == {NullType, BooleanTrue, BooleanFalse, MapType, ArrayType}

PlainAsNumber == Numbers \cup Others
AllAsNumber   == Numbers \cup Others \cup Sized

PlainAndFloats == Plain \cup Floats

AllNodes == UNION {Parts(Root(tree)) : tree \in Documents}
AllWritten ==
  [node \in AllNodes |-> [n \in 1..(Len(node.items) + 1) |-> EncodeUpTo(node, n)]]

(* The hypothesis of the theorems holds of the parser of c/ with all of    *)
(* these documents, if its client reads no string as a number.             *)
ASSUME ReadingAssumption ==
  Documents = PlainAndFloats => ReadsWhatIsWritten
=============================================================================
