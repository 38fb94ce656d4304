-------------------------- MODULE WsonParser_proofs --------------------------
(***************************************************************************)
(* The cursor of the parser and the tree, for every set of documents, any  *)
(* sizes up to MaxUint and any depth of containers.                        *)
(*                                                                         *)
(* The argument goes from bytes to the walk:                               *)
(*  - Sits: some code lies in the document from a position on.  If that of *)
(*    a node does, so does that of each of its parts, and the reading and  *)
(*    skipping operators end where the part ends (LeafSits, ContentSits,   *)
(*    ContainerSits, KeySits).                                             *)
(*  - Placing: frames stand for nodes, each at its place in the document;  *)
(*    kept on the way to the next item, into one and out of one.           *)
(*  - ClientAt: the position is that of the item, of its tag or behind it. *)
(*  - Inv: ClientAt for the client and for the calls running on top of it. *)
(***************************************************************************)
EXTENDS WsonParser, CommonLemmas, SequenceTheorems

(* The bytes of code lie in whole from p on. *)
Sits(whole, code, p) ==
  /\ p + Len(code) <= Len(whole)
  /\ \A j \in 1..Len(code) : whole[p + j] = code[j]

LEMMA SitsParts ==
  ASSUME NEW whole, Len(whole) \in Nat, NEW a \in Seq(Byte), NEW b \in Seq(Byte),
         NEW p \in Nat, Sits(whole, a \o b, p)
  PROVE  Sits(whole, a, p) /\ Sits(whole, b, p + Len(a))
<1> DEFINE c == a \o b
<1>1. /\ Len(a) \in Nat /\ Len(b) \in Nat /\ Len(c) = Len(a) + Len(b)
      /\ \A j \in 1..Len(a) : c[j] = a[j]
      /\ \A j \in 1..Len(b) : c[Len(a) + j] = b[j]
  OBVIOUS
<1>2. p + Len(c) <= Len(whole) /\ \A j \in 1..Len(c) : whole[p + j] = c[j]
  BY DEF Sits
<1> HIDE DEF c
<1>3. Sits(whole, a, p)
  BY <1>1, <1>2 DEF Sits
<1>4. ASSUME NEW j \in 1..Len(b) PROVE whole[(p + Len(a)) + j] = b[j]
  <2>1. Len(a) + j \in 1..Len(c) BY <1>1
  <2>2. p + (Len(a) + j) = (p + Len(a)) + j BY <1>1
  <2>3. whole[p + (Len(a) + j)] = c[Len(a) + j] BY <2>1, <1>2
  <2> QED BY <2>2, <2>3, <1>1
<1>5. Sits(whole, b, p + Len(a))
  BY <1>1, <1>2, <1>4 DEF Sits
<1> QED BY <1>3, <1>5

(* Two and three sequences one after the other. *)
LEMMA TwoParts ==
  ASSUME NEW a \in Seq(Byte), NEW b \in Seq(Byte)
  PROVE  /\ a \o b \in Seq(Byte) /\ Len(a \o b) = Len(a) + Len(b)
         /\ Len(a) \in Nat /\ Len(b) \in Nat
         /\ \A j \in 1..Len(a) : (a \o b)[j] = a[j]
         /\ Sits(a \o b, a, 0)
<1> DEFINE c == a \o b
<1>1. /\ Len(a) \in Nat /\ Len(b) \in Nat /\ Len(c) = Len(a) + Len(b)
      /\ c \in Seq(Byte)
      /\ \A j \in 1..Len(a) : c[j] = a[j]
  OBVIOUS
<1> HIDE DEF c
<1>2. Sits(c, a, 0)
  BY <1>1 DEF Sits
<1> QED BY <1>1, <1>2 DEF c

LEMMA ThreeParts ==
  ASSUME NEW a \in Seq(Byte), NEW b \in Seq(Byte), NEW c \in Seq(Byte)
  PROVE  /\ a \o b \o c = a \o (b \o c)
         /\ b \o c \in Seq(Byte) /\ Len(b \o c) = Len(b) + Len(c)
         /\ Len(a \o b \o c) = Len(a) + Len(b) + Len(c)
         /\ Sits(a \o b \o c, a, 0)
<1>1. a \o b \o c = a \o (b \o c)
  OBVIOUS
<1>2. b \o c \in Seq(Byte) /\ Len(b \o c) = Len(b) + Len(c)
  OBVIOUS
<1>3. Sits(a \o (b \o c), a, 0) /\ Len(a \o (b \o c)) = Len(a) + Len(b \o c)
  BY <1>2, TwoParts
<1>4. Len(a) \in Nat /\ Len(b) \in Nat /\ Len(c) \in Nat
  OBVIOUS
<1>5. Len(a \o (b \o c)) = Len(a) + Len(b) + Len(c)
  BY <1>2, <1>3, <1>4
<1> QED BY <1>1, <1>2, <1>3, <1>5

LEMMA ThreeSit ==
  ASSUME NEW whole, Len(whole) \in Nat, NEW a \in Seq(Byte), NEW b \in Seq(Byte),
         NEW c \in Seq(Byte), NEW p \in Nat, Sits(whole, a \o b \o c, p)
  PROVE  /\ Sits(whole, b, p + Len(a))
         /\ Sits(whole, c, (p + Len(a)) + Len(b))
         /\ Len(a \o b \o c) = Len(a) + Len(b) + Len(c)
<1>1. b \o c \in Seq(Byte) /\ Sits(whole, a \o (b \o c), p)
  BY ThreeParts
<1>2. Sits(whole, b \o c, p + Len(a))
  BY <1>1, SitsParts
<1>3. p + Len(a) \in Nat
  BY LenProperties
<1>4. Sits(whole, b, p + Len(a)) /\ Sits(whole, c, (p + Len(a)) + Len(b))
  BY <1>2, <1>3, SitsParts
<1> QED BY <1>4, ThreeParts

(* A part of what sits somewhere. *)
LEMMA SitsInside ==
  ASSUME NEW whole, Len(whole) \in Nat, NEW a \in Seq(Byte), NEW b \in Seq(Byte),
         NEW p \in Nat, NEW q \in Nat, Sits(whole, a, p), Sits(a, b, q)
  PROVE  Sits(whole, b, p + q)
<1>1. Len(a) \in Nat /\ Len(b) \in Nat
  OBVIOUS
<1>2. (p + q) + Len(b) <= Len(whole)
  BY <1>1 DEF Sits
<1>3. ASSUME NEW j \in 1..Len(b) PROVE whole[(p + q) + j] = b[j]
  <2>1. q + j \in 1..Len(a) BY <1>1 DEF Sits
  <2>2. a[q + j] = b[j] BY DEF Sits
  <2>3. whole[p + (q + j)] = a[q + j] BY <2>1 DEF Sits
  <2>4. p + (q + j) = (p + q) + j BY <1>1
  <2> QED BY <2>2, <2>3, <2>4
<1> QED BY <1>2, <1>3 DEF Sits

-----------------------------------------------------------------------------
(* Nodes and their encoding.                                               *)

LEMMA NodeTypes ==
  ASSUME NEW node \in Nodes
  PROVE  /\ WellMade(node)
         /\ node.payload \in Seq(Byte) /\ node.items \in Seq([key : Seq(Byte), val : Nodes])
         /\ Len(node.items) \in Uint /\ Len(node.payload) \in Uint
         /\ Encode(node) \in Seq(Byte)
         /\ Header(node) \in Seq(Byte)
         /\ \A k \in 1..(Len(node.items) + 1) :
               Written[node][k] \in Seq(Byte) /\ Before(node, k) \in Nat
<1>1. WellMade(node)
  BY DocumentAssumption
<1>2. /\ node.payload \in Seq(Byte) /\ node.items \in Seq([key : Seq(Byte), val : Nodes])
      /\ Len(node.items) <= MaxUint /\ Len(node.payload) <= MaxUint
  BY <1>1 DEF WellMade
<1>3. Len(node.items) \in Uint /\ Len(node.payload) \in Uint
  BY <1>2, MaxUintAssumption, LenProperties DEF Uint
<1>4. Written[node] \in [1..(Len(node.items) + 1) -> Seq(Byte)] /\ Written[node][1] = Header(node)
  BY EncodingAssumption
<1>5. Len(node.items) \in Nat
  BY <1>2, LenProperties
<1>6. \A k \in 1..(Len(node.items) + 1) :
         Written[node][k] \in Seq(Byte) /\ Before(node, k) \in Nat
  BY <1>4, LenProperties DEF Before
<1>7. Encode(node) \in Seq(Byte) /\ Header(node) \in Seq(Byte)
  BY <1>4, <1>5 DEF Encode
<1> QED BY <1>1, <1>2, <1>3, <1>6, <1>7

LEMMA ItemTypes ==
  ASSUME NEW node \in Nodes, NEW k \in 1..Len(node.items)
  PROVE  /\ node.items[k].val \in Nodes /\ node.items[k].val.tag # NoType
         /\ node.items[k].key \in Seq(Byte) /\ Len(node.items[k].key) \in Uint
         /\ EncodeKey(node.items[k].key) \in Seq(Byte)
         /\ KeyPart(node, k) \in Seq(Byte) /\ KeyLength(node, k) \in Nat
<1> DEFINE item == node.items[k]
<1>1. WellMade(node) /\ node.items \in Seq([key : Seq(Byte), val : Nodes])
  BY NodeTypes
<1>2. item \in [key : Seq(Byte), val : Nodes]
  BY <1>1, ElementOfSeq
<1>3. Len(item.key) <= MaxUint /\ item.val.tag # NoType
  BY <1>1 DEF WellMade
<1>4. item.key \in Seq(Byte) /\ item.val \in Nodes
  BY <1>2
<1>5. Len(item.key) \in Uint
  BY <1>3, <1>4, MaxUintAssumption, LenProperties DEF Uint
<1>6. EncodeKey(item.key) \in Seq(Byte)
  BY <1>4, <1>5, VarUintBytes, ConcatProperties DEF EncodeKey
<1>7. KeyPart(node, k) \in Seq(Byte)
  BY <1>6 DEF KeyPart
<1> QED BY <1>3, <1>4, <1>5, <1>6, <1>7, LenProperties DEF KeyLength

(* What has been written of a node stays at its beginning.                 *)
LEMMA WrittenGrows ==
  ASSUME NEW node \in Nodes, NEW k \in 1..(Len(node.items) + 1)
  PROVE  Sits(Encode(node), Written[node][k], 0)
<1> DEFINE last == Len(node.items) + 1
           W == Written[node]
           S == {n \in Nat : k + n <= last => Sits(W[k + n], W[k], 0)}
<1>1. last \in Nat /\ k \in Nat /\ k <= last
  BY NodeTypes DEF Uint
<1>2. \A m \in 1..last : W[m] \in Seq(Byte) /\ Len(W[m]) \in Nat
  BY NodeTypes DEF Before
<1>3. 0 \in S
  BY <1>1, <1>2 DEF Sits
<1>4. ASSUME NEW n \in Nat, n \in S PROVE n + 1 \in S
  <2>1. SUFFICES ASSUME k + (n + 1) <= last PROVE Sits(W[k + (n + 1)], W[k], 0)
    OBVIOUS
  <2> DEFINE m == k + n
  <2>2. m \in 1..Len(node.items) /\ m \in 1..last /\ m + 1 \in 1..last /\ k + (n + 1) = m + 1
    BY <1>1, <2>1
  <2>3. Sits(W[m], W[k], 0)
    BY <1>4, <2>1, <1>1
  <2> HIDE DEF m
  <2>4. W[m + 1] = W[m] \o KeyPart(node, m) \o Encode(node.items[m].val)
    BY <2>2, EncodingAssumption
  <2>5. KeyPart(node, m) \in Seq(Byte) /\ Encode(node.items[m].val) \in Seq(Byte)
    BY <2>2, ItemTypes, NodeTypes
  <2>6. W[m] \in Seq(Byte)
    BY <2>2, <1>2
  <2> HIDE DEF W
  <2>9. Sits(W[m + 1], W[m], 0)
    BY <2>4, <2>5, <2>6, ThreeParts
  <2>10. Sits(W[m + 1], W[k], 0 + 0)
    BY <2>9, <2>3, <2>2, <1>2, <1>1, SitsInside
  <2> QED BY <2>10, <2>2
<1>5. last - k \in S
  <2> HIDE DEF S, last
  <2> QED BY <1>1, <1>3, <1>4, Counting
<1>6. k + (last - k) = last
  BY <1>1
<1> QED BY <1>5, <1>6, <1>1 DEF Encode

(* Where the parts of an item lie in its node. *)
LEMMA ItemSits ==
  ASSUME NEW whole, Len(whole) \in Nat, NEW node \in Nodes, NEW p \in Nat,
         NEW k \in 1..Len(node.items), Sits(whole, Encode(node), p)
  PROVE  /\ Sits(whole, KeyPart(node, k), p + Before(node, k))
         /\ Sits(whole, Encode(node.items[k].val), (p + Before(node, k)) + KeyLength(node, k))
         /\ Before(node, k + 1) =
              Before(node, k) + KeyLength(node, k) + Len(Encode(node.items[k].val))
<1> DEFINE val == node.items[k].val
           W == Written[node]
           part == KeyPart(node, k)
<1>1. k \in 1..(Len(node.items) + 1) /\ k + 1 \in 1..(Len(node.items) + 1)
  <2>1. Len(node.items) \in Nat
    BY NodeTypes DEF Uint
  <2> QED BY <2>1
<1>2. /\ W[k] \in Seq(Byte) /\ W[k + 1] \in Seq(Byte) /\ Encode(node) \in Seq(Byte)
      /\ Before(node, k) \in Nat /\ Before(node, k) = Len(W[k]) /\ Before(node, k + 1) = Len(W[k + 1])
  BY <1>1, NodeTypes DEF Before
<1>3. part \in Seq(Byte) /\ Encode(val) \in Seq(Byte) /\ KeyLength(node, k) = Len(part)
  BY ItemTypes, NodeTypes DEF KeyLength
<1>4. W[k + 1] = W[k] \o part \o Encode(val)
  BY EncodingAssumption
<1>5. Sits(Encode(node), W[k + 1], 0)
  BY <1>1, WrittenGrows
<1>6. Sits(whole, W[k + 1], p + 0)
  BY <1>5, <1>2, SitsInside
<1>7. Sits(whole, W[k] \o part \o Encode(val), p)
  BY <1>4, <1>6

<1> HIDE DEF val, W, part
<1>8. W[k] \in Seq(Byte) /\ part \in Seq(Byte) /\ Encode(val) \in Seq(Byte)
  BY <1>2, <1>3
<1>9. Sits(whole, part, p + Len(W[k]))
  BY <1>7, <1>8, ThreeSit
<1>10. Sits(whole, Encode(val), (p + Len(W[k])) + Len(part))
  BY <1>7, <1>8, ThreeSit
<1>11. Len(W[k] \o part \o Encode(val)) = Len(W[k]) + Len(part) + Len(Encode(val))
  BY <1>7, <1>8, ThreeSit
<1> QED BY <1>9, <1>10, <1>11, <1>2, <1>3, <1>4 DEF val, part

-----------------------------------------------------------------------------
(* Reading what lies at the cursor.                                        *)

LEMMA BytesSit ==
  ASSUME Len(data) \in Nat, NEW code \in Seq(Byte), NEW p \in Nat, Sits(data, code, p)
  PROVE  /\ \A i \in 1..Len(code) : At((p + i) - 1) = code[i]
         /\ Bytes(p, Len(code)) = code
         /\ \A n \in Nat : \A i \in 1..n : i <= Len(code) => Bytes(p, n)[i] = code[i]
<1>1. Len(code) \in Nat
  OBVIOUS
<1>2. ASSUME NEW i \in 1..Len(code) PROVE At((p + i) - 1) = code[i]
  <2>1. (p + i) - 1 < Len(data) /\ ((p + i) - 1) + 1 = p + i
    BY <1>1 DEF Sits
  <2>2. data[p + i] = code[i]
    BY DEF Sits
  <2> QED BY <2>1, <2>2 DEF At
<1>3. Bytes(p, Len(code)) = code
  <2>1. Bytes(p, Len(code)) = [i \in 1..Len(code) |-> code[i]]
    BY <1>2 DEF Bytes
  <2>2. code = [i \in 1..Len(code) |-> code[i]]
    OBVIOUS
  <2> QED BY <2>1, <2>2
<1>4. ASSUME NEW n \in Nat, NEW i \in 1..n, i <= Len(code)
      PROVE  Bytes(p, n)[i] = code[i]
  <2>1. i \in 1..Len(code)
    BY <1>1, <1>4
  <2>2. Bytes(p, n)[i] = At((p + i) - 1)
    BY DEF Bytes
  <2> QED BY <1>2, <2>1, <2>2
<1> QED BY <1>2, <1>3, <1>4

LEMMA ByteSits ==
  ASSUME Len(data) \in Nat, NEW byte \in Byte, NEW p \in Nat, Sits(data, <<byte>>, p)
  PROVE  At(p) = byte
<1>1. p < Len(data) /\ data[p + 1] = byte
  BY DEF Sits
<1> QED BY <1>1 DEF At

LEMMA UintSits ==
  ASSUME Len(data) \in Nat, NEW num \in Uint, NEW p \in Nat, Sits(data, VarUint(num), p)
  PROVE  UintAt(p) = num /\ UintEnd(p) = p + Len(VarUint(num))
<1> DEFINE bts == Bytes(p, 5)
<1>1. VarUint(num) \in Seq(Byte) /\ Len(VarUint(num)) = VarSize(num) /\ VarSize(num) \in 1..5
  BY VarUintBytes
<1>2. \A i \in 1..5 : i <= Len(VarUint(num)) => bts[i] = VarUint(num)[i]
  BY <1>1, BytesSit
<1>3. \A i \in 1..VarSize(num) : i \in 1..5 /\ i <= VarSize(num)
  BY <1>1
<1>4. \A i \in 1..VarSize(num) : bts[i] = VarUint(num)[i]
  BY <1>1, <1>2, <1>3
<1>5. ReadSize(bts) = VarSize(num) /\ ReadUint(bts) = num
  BY <1>4, VarUintRoundTrip
<1> QED BY <1>1, <1>5 DEF UintAt, UintEnd

(* Any varint, also of a number that is not read here. *)
LEMMA VarintSits ==
  ASSUME Len(data) \in Nat, NEW code \in Seq(Byte), IsVarint(code), NEW p \in Nat,
         Sits(data, code, p)
  PROVE  UintEnd(p) = p + Len(code)
<1> DEFINE bts == Bytes(p, 5)
           size == Len(code)
<1>1. size \in 1..5 /\ \A i \in 1..size : code[i] >= 128 <=> i < size
  BY DEF IsVarint
<1>2. \A i \in 1..5 : i <= size => bts[i] = code[i]
  BY BytesSit
<1>3. \A i \in 1..size : code[i] \in Byte
  OBVIOUS
<1> HIDE DEF bts, size
<1>4. \A i \in 1..size : i \in 1..5 /\ i <= size
  BY <1>1
<1>5. \A i \in 1..size : bts[i] \in Byte /\ (bts[i] >= 128 <=> i < size)
  BY <1>1, <1>2, <1>3, <1>4
<1> DEFINE Q(k) == (\A i \in 1..(k - 1) : bts[i] >= 128) /\ (k < 5 => bts[k] < 128)
<1>6. Q(size)
  <2>1. \A i \in 1..(size - 1) : i \in 1..size /\ i < size
    BY <1>1
  <2>2. size \in 1..size /\ bts[size] \in Byte /\ ~(bts[size] >= 128)
    BY <1>1, <1>5
  <2>3. \A byte \in Byte : ~(byte >= 128) => byte < 128
    BY DEF Byte
  <2>4. bts[size] < 128
    BY <2>2, <2>3
  <2> QED BY <2>1, <2>4, <1>5
<1>7. ASSUME NEW k \in 1..5, Q(k) PROVE k = size
  <2>1. CASE k < size
    <3>1. k \in 1..size /\ k < 5 BY <1>1, <2>1
    <3>2. bts[k] \in Byte /\ bts[k] >= 128 /\ bts[k] < 128 BY <3>1, <2>1, <1>5, <1>7
    <3>3. \A byte \in Byte : ~(byte >= 128 /\ byte < 128) BY DEF Byte
    <3> QED BY <3>2, <3>3
  <2>2. CASE k > size
    <3>1. size \in 1..(k - 1) /\ size \in 1..size BY <1>1, <2>2
    <3>2. bts[size] >= 128 /\ ~(bts[size] >= 128) BY <3>1, <1>5, <1>7, <1>1
    <3> QED BY <3>2
  <2>3. k \in Int /\ size \in Int
    BY <1>1
  <2> QED BY <2>1, <2>2, <2>3
<1>8. ReadSize(bts) = size
  BY <1>1, <1>6, <1>7 DEF ReadSize
<1> QED BY <1>8 DEF UintEnd, bts, size

(* A string with its length. *)
LEMMA TextSits ==
  ASSUME Len(data) \in Nat, NEW text \in Seq(Byte), Len(text) \in Uint, NEW p \in Nat,
         Sits(data, EncodeKey(text), p)
  PROVE  /\ UintEnd(p) + UintAt(p) = p + Len(EncodeKey(text))
         /\ Bytes(UintEnd(p), UintAt(p)) = text
<1> DEFINE size == VarUint(Len(text))
<1>1. size \in Seq(Byte) /\ Len(size) \in Nat
  BY VarUintBytes
<1>2. Sits(data, size, p) /\ Sits(data, text, p + Len(size))
  BY <1>1, SitsParts DEF EncodeKey
<1>3. UintAt(p) = Len(text) /\ UintEnd(p) = p + Len(size)
  BY <1>2, UintSits
<1>4. p + Len(size) \in Nat
  BY <1>1
<1>5. Bytes(p + Len(size), Len(text)) = text
  BY <1>2, <1>4, BytesSit
<1>6. Len(EncodeKey(text)) = Len(size) + Len(text)
  BY <1>1, TwoParts DEF EncodeKey
<1>7. Len(text) \in Nat
  OBVIOUS
<1> HIDE DEF size
<1>8. UintEnd(p) + UintAt(p) = p + Len(EncodeKey(text))
  BY <1>1, <1>3, <1>6, <1>7
<1> QED BY <1>3, <1>5, <1>8

(* The cases of LeafEnd, WellMade and Header exclude each other. *)
LEMMA LeafEnds ==
  ASSUME NEW tag, NEW p, NEW float
  PROVE  /\ tag \in Sized => LeafEnd(p, tag, float) = UintEnd(p) + UintAt(p)
         /\ tag = IntType => LeafEnd(p, tag, float) = UintEnd(p)
         /\ tag = FloatType => LeafEnd(p, tag, float) = p + float
         /\ tag \in {DoubleType, LongType} => LeafEnd(p, tag, float) = p + 8
         /\ tag \notin Sized \cup {IntType, FloatType, DoubleType, LongType}
              => LeafEnd(p, tag, float) = p
BY SMT DEF LeafEnd, Sized, Containers, NoType, NullType, StringType, Uint8String,
  BooleanTrue, BooleanFalse, IntType, FloatType, DoubleType, LongType, BigIntType,
  BigDecimalType, ArrayType, MapType

LEMMA Payloads ==
  ASSUME NEW node, WellMade(node)
  PROVE  /\ node.tag = IntType => IsVarint(node.payload)
         /\ node.tag = FloatType => Len(node.payload) = 4
         /\ node.tag \in {DoubleType, LongType} => Len(node.payload) = 8
         /\ node.tag \notin Sized \cup {IntType, FloatType, DoubleType, LongType}
              => node.payload = <<>>
<1> DEFINE tag == node.tag
           payload == node.payload
<1>1. (CASE tag = IntType                  -> IsVarint(payload)
         [] tag = FloatType                -> Len(payload) = 4
         [] tag \in {DoubleType, LongType} -> Len(payload) = 8
         [] tag \in Sized                  -> TRUE
         [] OTHER                          -> payload = <<>>)
  BY DEF WellMade
<1> HIDE DEF tag, payload
<1>2. /\ tag = IntType => IsVarint(payload)
      /\ tag = FloatType => Len(payload) = 4
      /\ tag \in {DoubleType, LongType} => Len(payload) = 8
      /\ tag \notin Sized \cup {IntType, FloatType, DoubleType, LongType} => payload = <<>>
  BY SMT, <1>1 DEF Sized, Containers, NoType, NullType, StringType, Uint8String,
  BooleanTrue, BooleanFalse, IntType, FloatType, DoubleType, LongType, BigIntType,
  BigDecimalType, ArrayType, MapType
<1> QED BY <1>2 DEF tag, payload

LEMMA Headers ==
  ASSUME NEW node
  PROVE  /\ node.tag = NoType => Header(node) = <<>>
         /\ node.tag \in Containers =>
              Header(node) = <<node.tag>> \o VarUint(Len(node.items))
         /\ node.tag \notin Containers \cup {NoType} =>
              Header(node) = <<node.tag>> \o
                (IF node.tag \in Sized THEN EncodeKey(node.payload) ELSE node.payload)
<1> DEFINE tag == node.tag
           a == <<tag>> \o VarUint(Len(node.items))
           b == <<tag>> \o EncodeKey(node.payload)
           c == <<tag>> \o node.payload
<1>1. Header(node) = CASE tag = NoType       -> <<>>
                       [] tag \in Containers -> a
                       [] tag \in Sized      -> b
                       [] OTHER              -> c
  BY DEF Header
<1> HIDE DEF tag, a, b, c
<1>2. /\ tag = NoType => Header(node) = <<>>
      /\ tag \in Containers => Header(node) = a
      /\ tag \notin Containers \cup {NoType} => Header(node) = IF tag \in Sized THEN b ELSE c
  BY SMT, <1>1 DEF Sized, Containers, NoType, NullType, StringType, Uint8String,
  BooleanTrue, BooleanFalse, IntType, FloatType, DoubleType, LongType, BigIntType,
  BigDecimalType, ArrayType, MapType
<1> QED BY <1>2 DEF tag, a, b, c

(* What a leaf is written as: its tag and its body. *)
Body(node) ==
  IF node.tag \in Sized THEN EncodeKey(node.payload) ELSE node.payload

LEMMA TagBytes ==
  ASSUME NEW tag \in Tags
  PROVE  tag \in Byte /\ tag # NoType
BY SMT DEF Tags, Sized, Containers, Byte, NoType, NullType, StringType, Uint8String,
  BooleanTrue, BooleanFalse, IntType, FloatType, DoubleType, LongType, BigIntType,
  BigDecimalType, ArrayType, MapType

LEMMA LeafEncoding ==
  ASSUME NEW node \in Nodes, node.tag \notin Containers \cup {NoType}
  PROVE  /\ node.tag \in Byte /\ Body(node) \in Seq(Byte)
         /\ Encode(node) = <<node.tag>> \o Body(node)
<1>1. WellMade(node)
  BY DocumentAssumption
<1>2. node.tag \in Tags /\ node.items = <<>>
  BY <1>1 DEF WellMade
<1>3. node.tag \in Byte
  BY <1>2, TagBytes
<1>4. EncodeKey(node.payload) \in Seq(Byte)
  <2>1. node.payload \in Seq(Byte) /\ Len(node.payload) \in Uint
    BY NodeTypes
  <2>2. VarUint(Len(node.payload)) \in Seq(Byte)
    BY <2>1, VarUintBytes
  <2> QED BY <2>1, <2>2, ConcatProperties DEF EncodeKey
<1>5. Body(node) \in Seq(Byte)
  BY <1>4, NodeTypes DEF Body
<1>6. Encode(node) = Header(node)
  <2>1. Len(node.items) = 0 /\ Len(node.items) + 1 = 1
    BY <1>2
  <2>2. Encode(node) = Written[node][1]
    BY <2>1 DEF Encode
  <2> QED BY <2>2, EncodingAssumption
<1>7. Header(node) = <<node.tag>> \o Body(node)
  <2>1. node.tag # NoType /\ node.tag \notin Containers
    OBVIOUS
  <2> QED BY <2>1, Headers DEF Body
<1> QED BY <1>3, <1>5, <1>6, <1>7

LEMMA LeafSits ==
  ASSUME Len(data) \in Nat, NEW node \in Nodes, node.tag \notin Containers \cup {NoType},
         NEW p \in Nat, Sits(data, Encode(node), p), NEW float,
         node.tag = FloatType => float = 4
  PROVE  /\ At(p) = node.tag
         /\ LeafEnd(p + 1, node.tag, float) = p + Len(Encode(node))
<1> DEFINE tag == node.tag
           body == Body(node)
           q == p + 1
<1>1. tag \in Byte /\ body \in Seq(Byte) /\ Encode(node) = <<tag>> \o body
  BY LeafEncoding
<1>2. <<tag>> \in Seq(Byte) /\ Len(<<tag>>) = 1
  BY <1>1
<1>3. Sits(data, <<tag>>, p) /\ Sits(data, body, p + 1) /\ Len(Encode(node)) = 1 + Len(body)
  <2>1. Sits(data, <<tag>> \o body, p)
    BY <1>1
  <2>2. Sits(data, <<tag>>, p) /\ Sits(data, body, p + Len(<<tag>>))
    BY <1>1, <1>2, <2>1, SitsParts
  <2>3. Len(<<tag>> \o body) = Len(<<tag>>) + Len(body)
    BY <1>1, <1>2, TwoParts
  <2> QED BY <1>1, <1>2, <2>2, <2>3
<1>4. At(p) = tag
  BY <1>1, <1>3, ByteSits
<1>5. WellMade(node) /\ tag \in Tags
  BY DocumentAssumption DEF WellMade
<1>6. q \in Nat /\ Len(body) \in Nat /\ p + Len(Encode(node)) = q + Len(body)
  BY <1>1, <1>3
<1>7. Sits(data, body, q)
  BY <1>3
<1>8. LeafEnd(q, tag, float) = q + Len(body)
  <2> HIDE DEF q
  <2>1. CASE tag \in Sized
    <3>1. body = EncodeKey(node.payload) /\ node.payload \in Seq(Byte) /\ Len(node.payload) \in Uint
      BY <2>1, NodeTypes DEF Body
    <3>2. UintEnd(q) + UintAt(q) = q + Len(body)
      BY <3>1, <1>6, <1>7, TextSits
    <3> QED BY <2>1, <3>2, LeafEnds
  <2>2. CASE tag \notin Sized
    <3>1. body = node.payload
      BY <2>2 DEF Body
    <3>2. CASE tag = IntType
      <4>1. IsVarint(body)
        BY <1>5, <3>1, <3>2, Payloads
      <4>2. UintEnd(q) = q + Len(body)
        BY <4>1, <1>1, <1>6, <1>7, VarintSits
      <4> QED BY <3>2, <4>2, LeafEnds
    <3>3. CASE tag = FloatType
      <4>1. Len(body) = 4 /\ float = 4
        BY <1>5, <3>1, <3>3, Payloads
      <4> QED BY <3>3, <4>1, LeafEnds
    <3>4. CASE tag \in {DoubleType, LongType}
      <4>1. Len(body) = 8
        BY <1>5, <3>1, <3>4, Payloads
      <4> QED BY <3>4, <4>1, LeafEnds
    <3>5. CASE tag \notin {IntType, FloatType, DoubleType, LongType}
      <4>1. node.payload = <<>>
        BY <1>5, <2>2, <3>5, Payloads
      <4>2. Len(body) = 0
        BY <3>1, <4>1
      <4>3. LeafEnd(q, tag, float) = q
        BY <2>2, <3>5, LeafEnds
      <4> QED BY <4>2, <4>3, <1>6
    <3> QED BY <3>2, <3>3, <3>4, <3>5
  <2> QED BY <2>1, <2>2
<1> QED BY <1>4, <1>6, <1>8

(* A leaf is decoded from its own payload. *)
LEMMA ContentSits ==
  ASSUME Len(data) \in Nat, NEW node \in Nodes, node.tag \notin Containers \cup {NoType},
         NEW p \in Nat, Sits(data, Encode(node), p)
  PROVE  Content(p + 1, node.tag) = node.payload
<1> DEFINE tag == node.tag
           body == Body(node)
           q == p + 1
<1>1. tag \in Byte /\ body \in Seq(Byte) /\ Encode(node) = <<tag>> \o body
  BY LeafEncoding
<1>2. <<tag>> \in Seq(Byte) /\ Len(<<tag>>) = 1
  BY <1>1
<1>3. Sits(data, <<tag>> \o body, p)
  BY <1>1
<1>4. Sits(data, body, p + Len(<<tag>>)) /\ Len(<<tag>> \o body) = Len(<<tag>>) + Len(body)
  BY <1>1, <1>2, <1>3, SitsParts, TwoParts
<1>5. Sits(data, body, q) /\ q \in Nat /\ Len(body) \in Nat /\ p + Len(Encode(node)) = q + Len(body)
  BY <1>1, <1>2, <1>4
<1>6. CASE tag \in Sized
  <2>1. body = EncodeKey(node.payload) /\ node.payload \in Seq(Byte) /\ Len(node.payload) \in Uint
    BY <1>6, NodeTypes DEF Body
  <2> HIDE DEF q
  <2>2. Bytes(UintEnd(q), UintAt(q)) = node.payload
    BY <2>1, <1>5, TextSits
  <2> QED BY <1>6, <2>2 DEF Content, q
<1>7. CASE tag \notin Sized
  <2>1. body = node.payload
    BY <1>7 DEF Body
  <2>2. LeafEnd(q, tag, 4) = q + Len(body)
    BY <1>5, LeafSits
  <2> HIDE DEF q
  <2>3. LeafEnd(q, tag, 4) - q = Len(body)
    BY <2>2, <1>5
  <2>4. Bytes(q, Len(body)) = body
    BY <1>1, <1>5, BytesSit
  <2> QED BY <1>7, <2>1, <2>3, <2>4 DEF Content, q
<1> QED BY <1>6, <1>7

(* Behind the tag of a container is its size, behind that its items. *)
LEMMA ContainerSits ==
  ASSUME Len(data) \in Nat, NEW node \in Nodes, node.tag \in Containers,
         NEW p \in Nat, Sits(data, Encode(node), p)
  PROVE  /\ At(p) = node.tag
         /\ UintAt(p + 1) = Len(node.items)
         /\ UintEnd(p + 1) = p + Before(node, 1)
<1> DEFINE tag == node.tag
           size == VarUint(Len(node.items))
<1>1. tag \in Tags /\ tag # NoType
  BY TagBytes DEF Tags
<1>2. tag \in Byte /\ <<tag>> \in Seq(Byte) /\ Len(<<tag>>) = 1
  BY <1>1, TagBytes
<1>3. Len(node.items) \in Uint /\ Len(node.items) \in Nat
  BY NodeTypes DEF Uint
<1>4. size \in Seq(Byte) /\ Len(size) \in Nat
  BY <1>3, VarUintBytes
<1>5. Written[node][1] = <<tag>> \o size
  <2>1. Written[node][1] = Header(node)
    BY EncodingAssumption
  <2> QED BY <2>1, <1>1, Headers
<1>6. 1 \in 1..(Len(node.items) + 1)
  BY <1>3
<1>7. Sits(Encode(node), <<tag>> \o size, 0)
  BY <1>5, <1>6, WrittenGrows
<1>8. <<tag>> \o size \in Seq(Byte) /\ Len(<<tag>> \o size) = Len(<<tag>>) + Len(size)
  BY <1>2, <1>4, TwoParts
<1>9. Sits(data, <<tag>> \o size, p)
  <2>1. Encode(node) \in Seq(Byte) /\ 0 \in Nat /\ p + 0 = p
    BY NodeTypes
  <2>2. Sits(data, <<tag>> \o size, p + 0)
    BY <1>7, <1>8, <2>1, SitsInside
  <2> QED BY <2>1, <2>2
<1>10. Sits(data, <<tag>>, p) /\ Sits(data, size, p + Len(<<tag>>))
  BY <1>9, <1>2, <1>4, SitsParts
<1>11. At(p) = tag
  BY <1>10, <1>2, ByteSits
<1>12. Sits(data, size, p + 1) /\ p + 1 \in Nat
  BY <1>10, <1>2
<1>13. UintAt(p + 1) = Len(node.items) /\ UintEnd(p + 1) = (p + 1) + Len(size)
  BY <1>12, <1>3, UintSits
<1>14. Before(node, 1) = 1 + Len(size)
  BY <1>5, <1>8, <1>2 DEF Before
<1> HIDE DEF size
<1> QED BY <1>11, <1>13, <1>14, <1>4

(* The tag of the k-th item of a node is behind the key, if there is one.  *)
LEMMA KeySits ==
  ASSUME Len(data) \in Nat, NEW node \in Nodes, node.tag = MapType, NEW p \in Nat,
         NEW k \in 1..Len(node.items), Sits(data, Encode(node), p)
  PROVE  LET q == p + Before(node, k)
         IN  /\ UintEnd(q) + UintAt(q) = q + KeyLength(node, k)
             /\ Bytes(UintEnd(q), UintAt(q)) = node.items[k].key
<1> DEFINE q == p + Before(node, k)
           text == node.items[k].key
<1>1. KeyPart(node, k) = EncodeKey(text) /\ KeyLength(node, k) = Len(EncodeKey(text))
  BY DEF KeyPart, KeyLength
<1>2. Sits(data, EncodeKey(text), q)
  BY <1>1, ItemSits
<1>3. text \in Seq(Byte) /\ Len(text) \in Uint
  BY ItemTypes
<1>4. q \in Nat
  <2>1. k \in 1..(Len(node.items) + 1) BY NodeTypes DEF Uint
  <2>2. Before(node, k) \in Nat BY <2>1, NodeTypes
  <2> QED BY <2>2
<1> HIDE DEF q
<1>5. UintEnd(q) + UintAt(q) = q + Len(EncodeKey(text)) /\ Bytes(UintEnd(q), UintAt(q)) = text
  BY <1>2, <1>3, <1>4, TextSits
<1> QED BY <1>1, <1>5 DEF q

-----------------------------------------------------------------------------
(* Frames and the nodes they stand for.                                    *)

FrameSet == [keyed : BOOLEAN, size : Nat, next : Nat]
PlaceSet == [node : Nodes, from : Nat]
RootPlace(tree) == [node |-> Root(tree), from |-> 0]

Stands(f, node) ==
  /\ f.keyed = (node.tag = MapType)
  /\ f.size = Len(node.items)
  /\ f.next \in 1..(f.size + 1)

(* Where the value of the k-th item is of the node at a place. *)
ValuePlace(at, k) ==
  [node |-> at.node.items[k].val,
   from |-> at.from + Before(at.node, k) + KeyLength(at.node, k)]

(* The frames stand for the nodes at these places, each but the first for  *)
(* the item that the frame around it is at.                                *)
Placing(tree, at, frames) ==
  /\ frames \in Seq(FrameSet) /\ frames # <<>>
  /\ at \in Seq(PlaceSet) /\ Len(at) = Len(frames)
  /\ at[1] = RootPlace(tree)
  /\ \A i \in 1..Len(frames) :
        /\ Stands(frames[i], at[i].node)
        /\ Sits(Encode(Root(tree)), Encode(at[i].node), at[i].from)
  /\ \A i \in 1..(Len(frames) - 1) :
        /\ frames[i].next <= frames[i].size
        /\ at[i + 1] = ValuePlace(at[i], frames[i].next)

(* The recursive function of Places is the one that meets its equation.    *)
LEMMA PlacesAre ==
  ASSUME NEW tree, NEW at, NEW frames, Placing(tree, at, frames)
  PROVE  Places(tree, frames) = at
<1> DEFINE n == Len(frames)
           Step(f, i) ==
             IF i = 1 THEN [node |-> Root(tree), from |-> 0]
             ELSE LET p == f[i - 1]
                      k == frames[i - 1].next
                  IN  [node |-> p.node.items[k].val,
                       from |-> p.from + Before(p.node, k) + KeyLength(p.node, k)]
           Meets(f) == f = [i \in 1..n |-> Step(f, i)]
<1>1. n \in Nat /\ n > 0 /\ DOMAIN frames = 1..n /\ DOMAIN at = 1..n /\ at = [i \in 1..n |-> at[i]]
  BY EmptySeq DEF Placing
<1>2. Meets(at)
  <2>1. ASSUME NEW i \in 1..n PROVE at[i] = Step(at, i)
    <3>1. CASE i = 1
      BY <3>1 DEF Placing, RootPlace
    <3>2. CASE i # 1
      <4>1. i - 1 \in 1..(n - 1) /\ (i - 1) + 1 = i
        BY <1>1, <3>2
      <4>2. at[i] = ValuePlace(at[i - 1], frames[i - 1].next)
        BY <4>1 DEF Placing
      <4> QED BY <3>2, <4>2 DEF ValuePlace
    <3> QED BY <3>1, <3>2
  <2>2. at = [i \in 1..n |-> Step(at, i)]
    <3> HIDE DEF Step
    <3> QED BY <1>1, <2>1
  <2> QED BY <2>2
<1>3. ASSUME NEW f, Meets(f) PROVE f = at
  <2> DEFINE S == {m \in Nat : m \in 1..n => f[m] = at[m]}
  <2>1. f = [i \in 1..n |-> f[i]] /\ \A i \in 1..n : f[i] = Step(f, i)
    <3> HIDE DEF Step
    <3> QED BY <1>3
  <2>2. \A i \in 1..n : at[i] = Step(at, i)
    <3> HIDE DEF Step
    <3> QED BY <1>2
  <2>3. 0 \in S
    BY <1>1
  <2>4. ASSUME NEW m \in Nat, m \in S PROVE m + 1 \in S
    <3>1. SUFFICES ASSUME m + 1 \in 1..n PROVE f[m + 1] = at[m + 1]
      OBVIOUS
    <3>2. f[m + 1] = Step(f, m + 1) /\ at[m + 1] = Step(at, m + 1)
      <4> HIDE DEF Step
      <4> QED BY <2>1, <2>2, <3>1
    <3>3. CASE m = 0
      <4>1. Step(f, m + 1) = Step(at, m + 1)
        BY <3>3
      <4> HIDE DEF Step
      <4> QED BY <3>2, <4>1
    <3>4. CASE m # 0
      <4>1. m \in 1..n /\ (m + 1) - 1 = m /\ m + 1 # 1
        BY <1>1, <3>1, <3>4
      <4>2. f[m] = at[m]
        BY <4>1, <2>4
      <4>3. Step(f, m + 1) = Step(at, m + 1)
        BY <4>1, <4>2
      <4> HIDE DEF Step
      <4> QED BY <3>2, <4>3
    <3> QED BY <3>3, <3>4
  <2>5. Nat \subseteq S
    <3> HIDE DEF S
    <3> QED BY <2>3, <2>4, Counting
  <2>6. \A i \in 1..n : f[i] = at[i]
    BY <2>5, <1>1
  <2> QED BY <2>1, <2>6, <1>1
<1>4. Places(tree, frames) = CHOOSE f : Meets(f)
  BY <1>1 DEF Places
<1> HIDE DEF Meets
<1> QED BY <1>2, <1>3, <1>4

-----------------------------------------------------------------------------
(* What the steps of a walk do to frames and places.                       *)

Final(frames) == frames[Len(frames)]

LEMMA PlacingTypes ==
  ASSUME NEW tree, NEW at, NEW frames, Placing(tree, at, frames)
  PROVE  /\ Len(frames) \in Nat \ {0} /\ Len(at) = Len(frames)
         /\ Final(frames) \in FrameSet /\ Final(at) \in PlaceSet
         /\ Final(at).node \in Nodes /\ Final(at).from \in Nat
         /\ Stands(Final(frames), Final(at).node)
         /\ Sits(Encode(Root(tree)), Encode(Final(at).node), Final(at).from)
<1>1. frames \in Seq(FrameSet) /\ frames # <<>> /\ at \in Seq(PlaceSet) /\ Len(at) = Len(frames)
  BY DEF Placing
<1>2. Len(frames) \in Nat \ {0}
  BY <1>1, EmptySeq, LenProperties
<1>3. Len(frames) \in 1..Len(frames)
  BY <1>2
<1>4. Final(frames) \in FrameSet /\ Final(at) \in PlaceSet
  BY <1>1, <1>3, ElementOfSeq DEF Final
<1>5. /\ Stands(Final(frames), Final(at).node)
      /\ Sits(Encode(Root(tree)), Encode(Final(at).node), Final(at).from)
  BY <1>1, <1>3 DEF Placing, Final
<1>6. Final(at).node \in Nodes /\ Final(at).from \in Nat
  BY <1>4 DEF PlaceSet
<1> QED BY <1>1, <1>2, <1>4, <1>5, <1>6

(* On to the next item. *)
LEMMA PlacingBeyond ==
  ASSUME NEW tree, NEW at, NEW frames, Placing(tree, at, frames),
         Final(frames).next <= Final(frames).size
  PROVE  /\ Placing(tree, at, Beyond(frames))
         /\ Len(Beyond(frames)) = Len(frames)
         /\ Final(Beyond(frames)) = [Final(frames) EXCEPT !.next = Final(frames).next + 1]
         /\ \A i \in 1..(Len(frames) - 1) : Beyond(frames)[i] = frames[i]
<1> DEFINE n == Len(frames)
           f == Final(frames)
           g == [f EXCEPT !.next = f.next + 1]
           next == Beyond(frames)
<1>1. frames \in Seq(FrameSet) /\ n \in Nat \ {0} /\ f \in FrameSet /\ Stands(f, Final(at).node)
  BY PlacingTypes DEF Placing
<1>2. g \in FrameSet /\ g.keyed = f.keyed /\ g.size = f.size /\ g.next = f.next + 1
  <2>1. f.keyed \in BOOLEAN /\ f.size \in Nat /\ f.next \in Nat
    BY <1>1 DEF FrameSet
  <2>2. g = [keyed |-> f.keyed, size |-> f.size, next |-> f.next + 1]
    BY <1>1 DEF FrameSet
  <2> QED BY <2>1, <2>2 DEF FrameSet
<1>3. next = [frames EXCEPT ![n] = g]
  BY DEF Beyond, Final
<1> HIDE DEF g
<1>4. next \in Seq(FrameSet) /\ Len(next) = n /\ next[n] = g
      /\ \A i \in 1..(n - 1) : next[i] = frames[i]
  <2>1. n \in 1..n
    BY <1>1
  <2> HIDE DEF n, next
  <2>2. next \in Seq(FrameSet)
    BY <1>1, <1>2, <1>3, <2>1, ExceptSeq DEF n
  <2>3. Len(next) = n
    BY <1>1, <1>2, <1>3, <2>1, ExceptSeq DEF n
  <2>4. \A i \in 1..n : next[i] = IF i = n THEN g ELSE frames[i]
    BY <1>1, <1>2, <1>3, <2>1, ExceptSeq DEF n
  <2>5. \A i \in 1..(n - 1) : i \in 1..n /\ i # n
    BY <1>1
  <2> QED BY <2>1, <2>2, <2>3, <2>4, <2>5
<1>5. Stands(g, Final(at).node)
  <2>1. f.next \in Nat /\ f.size \in Nat /\ f.next <= f.size
    BY <1>1 DEF FrameSet
  <2>2. f.next \in 1..(f.size + 1)
    BY <1>1 DEF Stands
  <2>3. g.next \in 1..(g.size + 1)
    BY <1>2, <2>1, <2>2
  <2> QED BY <1>1, <1>2, <2>3 DEF Stands
<1> HIDE DEF next, f
<1>6. next # <<>>
  BY <1>4, <1>1, EmptySeq
<1>7. ASSUME NEW i \in 1..n
      PROVE  Stands(next[i], at[i].node)
  <2>1. CASE i = n
    BY <1>4, <1>5, <2>1 DEF Final, Placing
  <2>2. CASE i # n
    <3>1. i \in 1..(n - 1) BY <1>1, <2>2
    <3> QED BY <3>1, <1>4 DEF Placing
  <2> QED BY <2>1, <2>2
<1>8. Placing(tree, at, next)
  BY <1>4, <1>6, <1>7 DEF Placing
<1> QED BY <1>4, <1>8 DEF Final, next, g, f

(* Into the item, which is a container. *)
LEMMA PlacingInto ==
  ASSUME NEW tree, NEW at, NEW frames, Placing(tree, at, frames),
         Final(frames).next <= Final(frames).size,
         NEW f \in FrameSet,
         Stands(f, ValuePlace(Final(at), Final(frames).next).node),
         Encode(Root(tree)) \in Seq(Byte)
  PROVE  Placing(tree, Append(at, ValuePlace(Final(at), Final(frames).next)),
                 Append(frames, f))
<1> DEFINE n == Len(frames)
           k == Final(frames).next
           place == ValuePlace(Final(at), k)
           node == Final(at).node
           fs == Append(frames, f)
           as == Append(at, place)
<1>1. /\ frames \in Seq(FrameSet) /\ at \in Seq(PlaceSet) /\ n \in Nat \ {0} /\ Len(at) = n
      /\ node \in Nodes /\ Final(at).from \in Nat
      /\ Stands(Final(frames), node)
      /\ Sits(Encode(Root(tree)), Encode(node), Final(at).from)
      /\ Final(frames) \in FrameSet
  BY PlacingTypes DEF Placing
<1>2. k \in 1..Len(node.items)
  <2>1. k \in 1..(Len(node.items) + 1) /\ k <= Len(node.items)
    BY <1>1 DEF Stands
  <2> QED BY <2>1
<1>3. /\ node.items[k].val \in Nodes
      /\ Before(node, k) \in Nat /\ KeyLength(node, k) \in Nat
  <2>1. k \in 1..(Len(node.items) + 1)
    BY <1>1 DEF Stands
  <2> QED BY <1>1, <1>2, <2>1, ItemTypes, NodeTypes
<1>4. place \in PlaceSet
  BY <1>1, <1>3 DEF PlaceSet, ValuePlace
<1>5. Sits(Encode(Root(tree)), Encode(place.node), place.from)
  <2>1. Len(Encode(Root(tree))) \in Nat
    BY LenProperties
  <2>2. Sits(Encode(Root(tree)), Encode(node.items[k].val),
             (Final(at).from + Before(node, k)) + KeyLength(node, k))
    BY <1>1, <1>2, <2>1, ItemSits
  <2> QED BY <2>2 DEF ValuePlace
<1> HIDE DEF place
<1>6. /\ fs \in Seq(FrameSet) /\ Len(fs) = n + 1 /\ fs[n + 1] = f
      /\ \A i \in 1..n : fs[i] = frames[i]
  BY <1>1, AppendProperties
<1>7. /\ as \in Seq(PlaceSet) /\ Len(as) = n + 1 /\ as[n + 1] = place
      /\ \A i \in 1..n : as[i] = at[i]
  BY <1>1, <1>4, AppendProperties
<1> HIDE DEF fs, as
<1>8. fs # <<>> /\ as[1] = RootPlace(tree)
  <2>1. 1 \in 1..n BY <1>1
  <2>2. as[1] = at[1] BY <1>7, <2>1
  <2> QED BY <1>1, <1>6, <2>2, EmptySeq DEF Placing
<1>9. ASSUME NEW i \in 1..(n + 1)
      PROVE  Stands(fs[i], as[i].node) /\ Sits(Encode(Root(tree)), Encode(as[i].node), as[i].from)
  <2>1. CASE i = n + 1
    BY <2>1, <1>5, <1>6, <1>7 DEF place
  <2>2. CASE i # n + 1
    <3>1. i \in 1..n BY <1>1, <2>2
    <3>2. fs[i] = frames[i] /\ as[i] = at[i] BY <3>1, <1>6, <1>7
    <3> QED BY <3>1, <3>2 DEF Placing
  <2> QED BY <2>1, <2>2
<1>10. ASSUME NEW i \in 1..n
       PROVE  fs[i].next <= fs[i].size /\ as[i + 1] = ValuePlace(as[i], fs[i].next)
  <2>1. fs[i] = frames[i] /\ as[i] = at[i]
    BY <1>6, <1>7
  <2>2. CASE i = n
    BY <2>1, <2>2, <1>7, <1>1 DEF Final, place
  <2>3. CASE i # n
    <3>1. i \in 1..(n - 1) /\ i + 1 \in 1..n BY <1>1, <2>3
    <3>2. as[i + 1] = at[i + 1] BY <3>1, <1>7
    <3> QED BY <2>1, <3>1, <3>2 DEF Placing
  <2> QED BY <2>2, <2>3
<1>11. (n + 1) - 1 = n
  BY <1>1
<1> QED BY <1>6, <1>7, <1>8, <1>9, <1>10, <1>11 DEF Placing, place, fs, as

(* Out of the last one. *)
LEMMA PlacingOuter ==
  ASSUME NEW tree, NEW at, NEW frames, Placing(tree, at, frames), Len(frames) > 1
  PROVE  /\ Placing(tree, Outer(at), Outer(frames))
         /\ Len(Outer(frames)) = Len(frames) - 1
         /\ \A i \in 1..(Len(frames) - 1) : Outer(frames)[i] = frames[i] /\ Outer(at)[i] = at[i]
         /\ Final(Outer(frames)).next <= Final(Outer(frames)).size
         /\ Final(at) = ValuePlace(Final(Outer(at)), Final(Outer(frames)).next)
<1> DEFINE n == Len(frames)
           fs == Outer(frames)
           as == Outer(at)
<1>1. frames \in Seq(FrameSet) /\ at \in Seq(PlaceSet) /\ n \in Nat \ {0} /\ Len(at) = n
  BY PlacingTypes DEF Placing
<1>2. n - 1 \in 1..n /\ n - 1 \in 0..n /\ 1 \in 1..n
  BY <1>1
<1>3. /\ fs \in Seq(FrameSet) /\ Len(fs) = n - 1
      /\ \A i \in 1..(n - 1) : fs[i] = frames[i]
  BY <1>1, <1>2, SubSeqProperties DEF Outer
<1>4. /\ as \in Seq(PlaceSet) /\ Len(as) = n - 1
      /\ \A i \in 1..(n - 1) : as[i] = at[i]
  BY <1>1, <1>2, SubSeqProperties DEF Outer
<1> HIDE DEF fs, as
<1>5. n - 1 \in 1..(n - 1) /\ 1 \in 1..(n - 1) /\ (n - 1) + 1 = n
  BY <1>1
<1>6. \A i \in 1..(n - 1) : i \in 1..n
  BY <1>1
<1>7. \A i \in 1..((n - 1) - 1) : i \in 1..(n - 1) /\ i + 1 \in 1..(n - 1)
  BY <1>1
<1>8. fs # <<>> /\ as[1] = RootPlace(tree)
  <2>1. n - 1 # 0
    BY <1>1
  <2>2. fs # <<>>
    BY <1>3, <2>1, EmptySeq
  <2>3. as[1] = at[1] /\ at[1] = RootPlace(tree)
    BY <1>4, <1>5 DEF Placing
  <2> QED BY <2>2, <2>3
<1>9. Placing(tree, as, fs)
  BY <1>3, <1>4, <1>6, <1>7, <1>8 DEF Placing
<1>10. Final(fs).next <= Final(fs).size /\ Final(at) = ValuePlace(Final(as), Final(fs).next)
  BY <1>1, <1>3, <1>4, <1>5 DEF Final, Placing
<1> QED BY <1>3, <1>4, <1>9, <1>10 DEF fs, as

-----------------------------------------------------------------------------
(* The cursor at the item that the final frame is at.                      *)

ItemPlace(at, frames) == Final(at).from + Before(Final(at).node, Final(frames).next)
TagOffset(at, frames) == ItemPlace(at, frames) + KeyLength(Final(at).node, Final(frames).next)
ItemNode(at, frames)  == Final(at).node.items[Final(frames).next].val

Reading(tree) == tree \in Documents /\ data = Encode(Root(tree))

LEMMA DataTypes ==
  ASSUME NEW tree, Reading(tree)
  PROVE  /\ Root(tree) \in Nodes
         /\ data \in Seq(Byte) /\ Len(data) \in Nat
         /\ data = Encode(Root(tree)) /\ Encode(Root(tree)) \in Seq(Byte)
<1>1. Root(tree) \in Nodes
  BY DocumentAssumption DEF Reading
<1>2. Encode(Root(tree)) \in Seq(Byte) /\ data = Encode(Root(tree))
  BY <1>1, NodeTypes DEF Reading
<1> QED BY <1>1, <1>2, LenProperties

(* The place is within the document, at an item and behind the last one.   *)
LEMMA ItemPlaceTypes ==
  ASSUME NEW tree, Reading(tree), NEW at, NEW frames, Placing(tree, at, frames)
  PROVE  ItemPlace(at, frames) \in 0..Len(data)
<1> DEFINE node == Final(at).node
           k == Final(frames).next
           from == Final(at).from
<1>1. /\ node \in Nodes /\ from \in Nat /\ Stands(Final(frames), node)
      /\ Sits(data, Encode(node), from)
  BY PlacingTypes, DataTypes
<1>2. k \in 1..(Len(node.items) + 1)
  BY <1>1 DEF Stands
<1>3. Sits(Encode(node), Written[node][k], 0)
  BY <1>1, <1>2, WrittenGrows
<1>4. Before(node, k) \in Nat /\ Len(Encode(node)) \in Nat /\ Len(data) \in Nat
  BY <1>1, <1>2, NodeTypes, DataTypes, LenProperties
<1>5. 0 + Before(node, k) <= Len(Encode(node)) /\ from + Len(Encode(node)) <= Len(data)
  BY <1>1, <1>3 DEF Sits, Before
<1> HIDE DEF node, k, from
<1>6. from + Before(node, k) \in 0..Len(data)
  BY <1>1, <1>4, <1>5
<1> QED BY <1>6 DEF ItemPlace, node, k, from

LEMMA ItemProperties ==
  ASSUME NEW tree, Reading(tree), NEW at, NEW frames, Placing(tree, at, frames),
         Final(frames).next <= Final(frames).size
  PROVE  /\ Final(frames).next \in 1..Len(Final(at).node.items)
         /\ ItemNode(at, frames) \in Nodes
         /\ ItemNode(at, frames).tag \in Tags
         /\ ItemPlace(at, frames) \in Nat /\ TagOffset(at, frames) \in Nat
         /\ Sits(data, Encode(ItemNode(at, frames)), TagOffset(at, frames))
         /\ ItemPlace(at, Beyond(frames)) =
              TagOffset(at, frames) + Len(Encode(ItemNode(at, frames)))
         /\ ~Final(frames).keyed => TagOffset(at, frames) = ItemPlace(at, frames)
<1> DEFINE node == Final(at).node
           k == Final(frames).next
           from == Final(at).from
           val == node.items[k].val
<1>1. /\ node \in Nodes /\ from \in Nat /\ Stands(Final(frames), node)
      /\ Sits(data, Encode(node), from)
  BY PlacingTypes, DataTypes
<1>2. Len(node.items) \in Nat
  BY <1>1, NodeTypes DEF Uint
<1>3. k \in 1..Len(node.items) /\ k \in 1..(Len(node.items) + 1) /\ k + 1 \in 1..(Len(node.items) + 1)
  BY <1>1, <1>2 DEF Stands
<1>4. val \in Nodes /\ val.tag # NoType /\ KeyLength(node, k) \in Nat
  BY <1>1, <1>3, ItemTypes
<1>5. val.tag \in Tags
  BY <1>4, DocumentAssumption DEF WellMade
<1>6. Before(node, k) \in Nat /\ Len(data) \in Nat /\ Len(Encode(val)) \in Nat
  BY <1>1, <1>3, <1>4, NodeTypes, DataTypes, LenProperties
<1>7. /\ Sits(data, Encode(val), (from + Before(node, k)) + KeyLength(node, k))
      /\ Before(node, k + 1) = Before(node, k) + KeyLength(node, k) + Len(Encode(val))
  <2> HIDE DEF node, k, from
  <2>1. Sits(data, Encode(val), (from + Before(node, k)) + KeyLength(node, k))
    BY <1>1, <1>3, <1>6, ItemSits
  <2>2. Before(node, k + 1) = Before(node, k) + KeyLength(node, k) + Len(Encode(val))
    BY <1>1, <1>3, <1>6, ItemSits
  <2> QED BY <2>1, <2>2
<1>8. Final(Beyond(frames)).next = k + 1
  <2>1. Final(frames) \in FrameSet
    BY PlacingTypes
  <2>2. Final(Beyond(frames)) = [Final(frames) EXCEPT !.next = Final(frames).next + 1]
    BY PlacingBeyond
  <2> QED BY <2>1, <2>2 DEF FrameSet
<1>9. ~Final(frames).keyed => KeyLength(node, k) = 0
  <2>1. ~Final(frames).keyed => KeyPart(node, k) = <<>>
    BY <1>1 DEF Stands, KeyPart
  <2> QED BY <2>1 DEF KeyLength
<1>10. /\ ItemPlace(at, frames) = from + Before(node, k)
       /\ TagOffset(at, frames) = (from + Before(node, k)) + KeyLength(node, k)
       /\ ItemNode(at, frames) = val
       /\ ItemPlace(at, Beyond(frames)) = from + Before(node, k + 1)
  BY <1>8 DEF ItemPlace, TagOffset, ItemNode
<1> HIDE DEF node, k, from, val
<1>11. ItemPlace(at, frames) \in Nat /\ TagOffset(at, frames) \in Nat
  BY <1>1, <1>4, <1>6, <1>10
<1>12. ItemPlace(at, Beyond(frames)) = TagOffset(at, frames) + Len(Encode(val))
  BY <1>1, <1>4, <1>6, <1>7, <1>10
<1>13. ~Final(frames).keyed => TagOffset(at, frames) = ItemPlace(at, frames)
  BY <1>9, <1>10, <1>1, <1>6
<1> QED BY <1>3, <1>4, <1>5, <1>7, <1>10, <1>11, <1>12, <1>13 DEF node, k

(* The key of the item, *)
LEMMA ItemKey ==
  ASSUME NEW tree, Reading(tree), NEW at, NEW frames, Placing(tree, at, frames),
         Final(frames).next <= Final(frames).size, Final(frames).keyed
  PROVE  /\ UintEnd(ItemPlace(at, frames)) + UintAt(ItemPlace(at, frames)) = TagOffset(at, frames)
         /\ Bytes(UintEnd(ItemPlace(at, frames)), UintAt(ItemPlace(at, frames)))
              = Final(at).node.items[Final(frames).next].key
<1> DEFINE node == Final(at).node
           k == Final(frames).next
           from == Final(at).from
<1>1. /\ node \in Nodes /\ from \in Nat /\ node.tag = MapType
      /\ Sits(data, Encode(node), from) /\ k \in 1..Len(node.items)
      /\ Len(data) \in Nat
  <2>1. Stands(Final(frames), node) /\ node \in Nodes /\ from \in Nat
    BY PlacingTypes
  <2>2. node.tag = MapType
    BY <2>1, Zenon DEF Stands
  <2>3. Sits(Encode(Root(tree)), Encode(node), from)
    BY PlacingTypes
  <2>4. data = Encode(Root(tree)) /\ Len(data) \in Nat
    BY DataTypes
  <2>5. k \in 1..Len(node.items)
    BY ItemProperties
  <2> QED BY <2>1, <2>2, <2>3, <2>4, <2>5
<1>2. LET q == from + Before(node, k)
      IN  /\ UintEnd(q) + UintAt(q) = q + KeyLength(node, k)
          /\ Bytes(UintEnd(q), UintAt(q)) = node.items[k].key
  BY <1>1, KeySits
<1> QED BY <1>2 DEF ItemPlace, TagOffset

(* its tag, *)
LEMMA ItemTag ==
  ASSUME NEW tree, Reading(tree), NEW at, NEW frames, Placing(tree, at, frames),
         Final(frames).next <= Final(frames).size
  PROVE  /\ At(TagOffset(at, frames)) = ItemNode(at, frames).tag
         /\ TagOffset(at, frames) < Len(data)
<1> DEFINE val == ItemNode(at, frames)
           q == TagOffset(at, frames)
<1>1. val \in Nodes /\ val.tag \in Tags /\ q \in Nat /\ Sits(data, Encode(val), q) /\ Len(data) \in Nat
  BY ItemProperties, DataTypes
<1>2. val.tag # NoType /\ val.tag \in Byte
  BY <1>1, TagBytes
<1> HIDE DEF val, q
<1>3. At(q) = val.tag
  <2>1. CASE val.tag \in Containers
    BY <1>1, <2>1, ContainerSits
  <2>2. CASE val.tag \notin Containers
    <3>1. val.tag = FloatType => 4 = 4
      OBVIOUS
    <3>2. val.tag \notin Containers \cup {NoType}
      BY <1>2, <2>2
    <3> QED BY <1>1, <3>1, <3>2, LeafSits
  <2> QED BY <2>1, <2>2
<1>4. q < Len(data)
  <2>1. val.tag # 0
    BY <1>2 DEF NoType
  <2> QED BY <1>3, <2>1 DEF At
<1> QED BY <1>3, <1>4 DEF val, q

(* its end, if it is a leaf, *)
LEMMA ItemEnd ==
  ASSUME NEW tree, Reading(tree), NEW at, NEW frames, Placing(tree, at, frames),
         Final(frames).next <= Final(frames).size,
         ItemNode(at, frames).tag \notin Containers,
         NEW float, ItemNode(at, frames).tag = FloatType => float = 4
  PROVE  LeafEnd(TagOffset(at, frames) + 1, ItemNode(at, frames).tag, float)
           = ItemPlace(at, Beyond(frames))
<1> DEFINE val == ItemNode(at, frames)
           q == TagOffset(at, frames)
<1>1. val \in Nodes /\ val.tag \in Tags /\ q \in Nat /\ Sits(data, Encode(val), q) /\ Len(data) \in Nat
  BY ItemProperties, DataTypes
<1>2. val.tag \notin Containers \cup {NoType}
  BY <1>1, TagBytes
<1> HIDE DEF q
<1>3. LeafEnd(q + 1, val.tag, float) = q + Len(Encode(val))
  BY <1>1, <1>2, LeafSits
<1> QED BY <1>3, ItemProperties DEF q

(* and its first item, if it is a container. *)
LEMMA ItemInto ==
  ASSUME NEW tree, Reading(tree), NEW at, NEW frames, Placing(tree, at, frames),
         Final(frames).next <= Final(frames).size,
         ItemNode(at, frames).tag \in Containers
  PROVE  LET q == TagOffset(at, frames) + 1
             f == Frame(q, ItemNode(at, frames).tag)
             as == Append(at, ValuePlace(Final(at), Final(frames).next))
         IN  /\ Placing(tree, as, Append(frames, f))
             /\ Final(Append(frames, f)) = f
             /\ Final(as).node = ItemNode(at, frames)
             /\ ItemPlace(as, Append(frames, f)) = UintEnd(q)
<1> DEFINE val == ItemNode(at, frames)
           q == TagOffset(at, frames)
           f == Frame(q + 1, val.tag)
           place == ValuePlace(Final(at), Final(frames).next)
           fs == Append(frames, f)
           as == Append(at, place)
<1>1. val \in Nodes /\ val.tag \in Tags /\ q \in Nat /\ Sits(data, Encode(val), q) /\ Len(data) \in Nat
  BY ItemProperties, DataTypes
<1> HIDE DEF q
<1>2. UintAt(q + 1) = Len(val.items) /\ UintEnd(q + 1) = q + Before(val, 1)
  BY <1>1, ContainerSits
<1>3. Len(val.items) \in Nat
  BY <1>1, NodeTypes DEF Uint
<1>4. f = [keyed |-> val.tag = MapType, size |-> Len(val.items), next |-> 1]
  BY <1>2 DEF Frame
<1>5. f \in FrameSet /\ Stands(f, val) /\ f.next = 1
  <2> HIDE DEF f, val
  <2>1. f.keyed = (val.tag = MapType)
    BY <1>4, Zenon
  <2>2. f.size = Len(val.items) /\ f.next = 1
    BY <1>4
  <2>3. 1 \in 1..(f.size + 1)
    BY <1>3, <2>2
  <2>4. Stands(f, val)
    BY <2>1, <2>2, <2>3 DEF Stands
  <2>5. (val.tag = MapType) \in BOOLEAN /\ 1 \in Nat
    OBVIOUS
  <2>6. f \in FrameSet
    BY <1>3, <1>4, <2>5 DEF FrameSet
  <2> QED BY <2>2, <2>4, <2>6
<1>6. place.node = val /\ place.from = q
  BY DEF ValuePlace, ItemNode, TagOffset, ItemPlace, q
<1>7. Encode(Root(tree)) \in Seq(Byte)
  BY DataTypes
<1> HIDE DEF f, val
<1>8. Placing(tree, as, fs)
  <2>1. Stands(f, ValuePlace(Final(at), Final(frames).next).node)
    BY <1>5, <1>6
  <2> HIDE DEF place
  <2> QED BY <1>5, <1>7, <2>1, PlacingInto DEF place
<1> HIDE DEF place
<1>9. Final(fs) = f /\ Final(as) = place
  <2>1. frames \in Seq(FrameSet) /\ at \in Seq(PlaceSet)
    BY DEF Placing
  <2>2. Len(fs) = Len(frames) + 1 /\ fs[Len(frames) + 1] = f
    BY <2>1, <1>5, AppendProperties
  <2>3. as \in Seq(PlaceSet)
    BY <1>8 DEF Placing
  <2>4. Len(as) = Len(at) + 1 /\ as[Len(at) + 1] = place
    BY <2>1
  <2> QED BY <2>2, <2>4 DEF Final
<1>10. ItemPlace(as, fs) = UintEnd(q + 1)
  BY <1>2, <1>5, <1>6, <1>9 DEF ItemPlace
<1> QED BY <1>6, <1>8, <1>9, <1>10 DEF q, f, val, place, fs, as

(* Behind the last item of a container is what follows the container.      *)
LEMMA ItemOut ==
  ASSUME NEW tree, Reading(tree), NEW at, NEW frames, Placing(tree, at, frames),
         Len(frames) > 1, Final(frames).next > Final(frames).size
  PROVE  /\ Placing(tree, Outer(at), Beyond(Outer(frames)))
         /\ ItemPlace(Outer(at), Beyond(Outer(frames))) = ItemPlace(at, frames)
<1> DEFINE fs == Outer(frames)
           as == Outer(at)
           node == Final(at).node
<1>1. /\ Placing(tree, as, fs) /\ Final(fs).next <= Final(fs).size
      /\ Final(at) = ValuePlace(Final(as), Final(fs).next)
  BY PlacingOuter
<1> HIDE DEF fs, as
<1>2. node = ItemNode(as, fs) /\ Final(at).from = TagOffset(as, fs)
  BY <1>1 DEF ValuePlace, ItemNode, TagOffset, ItemPlace
<1>3. ItemPlace(as, Beyond(fs)) = TagOffset(as, fs) + Len(Encode(node))
  <2>1. ItemPlace(as, Beyond(fs)) = TagOffset(as, fs) + Len(Encode(ItemNode(as, fs)))
    BY <1>1, ItemProperties
  <2> QED BY <2>1, <1>2
<1>4. node \in Nodes /\ Stands(Final(frames), node)
  BY PlacingTypes
<1>5. Len(node.items) \in Nat
  BY <1>4, NodeTypes DEF Uint
<1>6. Final(frames).next = Len(node.items) + 1
  BY <1>4, <1>5 DEF Stands
<1>7. Before(node, Final(frames).next) = Len(Encode(node))
  BY <1>6 DEF Before, Encode
<1>8. ItemPlace(at, frames) = Final(at).from + Len(Encode(node))
  BY <1>7 DEF ItemPlace
<1>9. Placing(tree, as, Beyond(fs))
  BY <1>1, PlacingBeyond
<1> QED BY <1>2, <1>3, <1>8, <1>9 DEF fs, as

-----------------------------------------------------------------------------
(* The client, or a loop of the parser, in these frames, with the position *)
(* at the item, behind its key, or behind its tag.                         *)

Standing(tree, at, frames, key, tag, p) ==
  /\ Placing(tree, at, frames)
  /\ key => Final(frames).keyed /\ Final(frames).next <= Final(frames).size
  /\ tag = NoType => p = IF key THEN TagOffset(at, frames) ELSE ItemPlace(at, frames)
  /\ tag # NoType => /\ Final(frames).next <= Final(frames).size
                     /\ Final(frames).keyed => key
                     /\ tag = ItemNode(at, frames).tag
                     /\ p = TagOffset(at, frames) + 1

ClientAt(tree, frames, key, tag, p) == \E at : Standing(tree, at, frames, key, tag, p)
Spot(tree, frames, p) == ClientAt(tree, frames, FALSE, NoType, p)

(* A spot is a place in frames. *)
LEMMA Spots ==
  ASSUME NEW tree, NEW at, NEW frames, Placing(tree, at, frames)
  PROVE  Spot(tree, frames, ItemPlace(at, frames))
<1>1. Standing(tree, at, frames, FALSE, NoType, ItemPlace(at, frames))
  BY DEF Standing
<1> QED BY <1>1 DEF Spot, ClientAt

LEMMA NamedItem ==
  ASSUME NEW tree, Reading(tree), NEW frames, NEW p, Spot(tree, frames, p),
         Final(frames).next <= Final(frames).size, Final(frames).keyed
  PROVE  ClientAt(tree, frames, TRUE, NoType, UintEnd(p) + UintAt(p))
<1>1. PICK at : Standing(tree, at, frames, FALSE, NoType, p)
  BY DEF Spot, ClientAt
<1>2. Placing(tree, at, frames) /\ p = ItemPlace(at, frames)
  BY <1>1 DEF Standing
<1>3. UintEnd(p) + UintAt(p) = TagOffset(at, frames)
  BY <1>2, ItemKey
<1>4. Standing(tree, at, frames, TRUE, NoType, UintEnd(p) + UintAt(p))
  BY <1>2, <1>3 DEF Standing
<1> QED BY <1>4 DEF ClientAt

LEMMA TaggedItem ==
  ASSUME NEW tree, Reading(tree), NEW frames, NEW key \in BOOLEAN, NEW p,
         ClientAt(tree, frames, key, NoType, p),
         Final(frames).next <= Final(frames).size, Final(frames).keyed => key
  PROVE  /\ p \in Nat /\ p < Len(data)
         /\ At(p) # NoType /\ At(p) \in Tags
         /\ ClientAt(tree, frames, key, At(p), p + 1)
<1>1. PICK at : Standing(tree, at, frames, key, NoType, p)
  BY DEF ClientAt
<1>2. Placing(tree, at, frames)
  BY <1>1 DEF Standing
<1>3. p = TagOffset(at, frames)
  <2>1. CASE key
    BY <1>1, <2>1 DEF Standing
  <2>2. CASE ~key
    <3>1. p = ItemPlace(at, frames)
      BY <1>1, <2>2 DEF Standing
    <3>2. ~Final(frames).keyed => TagOffset(at, frames) = ItemPlace(at, frames)
      BY <1>2, ItemProperties
    <3> QED BY <2>2, <3>1, <3>2
  <2> QED BY <2>1, <2>2
<1>4. p \in Nat /\ ItemNode(at, frames).tag \in Tags /\ ItemNode(at, frames) \in Nodes
  BY <1>2, <1>3, ItemProperties
<1>5. At(p) = ItemNode(at, frames).tag /\ p < Len(data)
  BY <1>2, <1>3, ItemTag
<1>6. At(p) # NoType
  BY <1>4, <1>5, TagBytes
<1>7. Standing(tree, at, frames, key, At(p), p + 1)
  BY <1>1, <1>2, <1>3, <1>5, <1>6 DEF Standing
<1> QED BY <1>4, <1>5, <1>6, <1>7 DEF ClientAt

LEMMA UntaggedItem ==
  ASSUME NEW tree, Reading(tree), NEW frames, NEW key \in BOOLEAN, NEW tag, tag # NoType,
         NEW p, ClientAt(tree, frames, key, tag, p)
  PROVE  /\ p \in Nat /\ p > 0 /\ p <= Len(data) /\ At(p - 1) = tag /\ tag \in Tags
         /\ ClientAt(tree, frames, key, NoType, p - 1)
<1>1. PICK at : Standing(tree, at, frames, key, tag, p)
  BY DEF ClientAt
<1>2. /\ Placing(tree, at, frames) /\ Final(frames).next <= Final(frames).size
      /\ tag = ItemNode(at, frames).tag /\ p = TagOffset(at, frames) + 1
      /\ Final(frames).keyed => key
      /\ key => Final(frames).keyed
  BY <1>1 DEF Standing
<1>3. TagOffset(at, frames) \in Nat /\ ItemNode(at, frames).tag \in Tags
  BY <1>2, ItemProperties
<1>4. ~Final(frames).keyed => TagOffset(at, frames) = ItemPlace(at, frames)
  BY <1>2, ItemProperties
<1>5. At(TagOffset(at, frames)) = tag /\ TagOffset(at, frames) < Len(data)
  BY <1>2, ItemTag
<1>6. p - 1 = TagOffset(at, frames) /\ p \in Nat /\ p > 0 /\ p <= Len(data)
  BY <1>2, <1>3, <1>5, DataTypes
<1>7. p - 1 = IF key THEN TagOffset(at, frames) ELSE ItemPlace(at, frames)
  BY <1>2, <1>4, <1>6
<1>8. Standing(tree, at, frames, key, NoType, p - 1)
  BY <1>2, <1>7 DEF Standing
<1> QED BY <1>2, <1>3, <1>5, <1>6, <1>8 DEF ClientAt

LEMMA PassedItem ==
  ASSUME NEW tree, Reading(tree), NEW frames, NEW key, NEW tag, tag # NoType,
         tag \notin Containers, NEW p, ClientAt(tree, frames, key, tag, p),
         NEW float, tag = FloatType => float = 4
  PROVE  Spot(tree, Beyond(frames), LeafEnd(p, tag, float))
<1>1. PICK at : Standing(tree, at, frames, key, tag, p)
  BY DEF ClientAt
<1>2. /\ Placing(tree, at, frames) /\ Final(frames).next <= Final(frames).size
      /\ tag = ItemNode(at, frames).tag /\ p = TagOffset(at, frames) + 1
  BY <1>1 DEF Standing
<1>3. LeafEnd(p, tag, float) = ItemPlace(at, Beyond(frames))
  BY <1>2, ItemEnd
<1>4. Placing(tree, at, Beyond(frames))
  BY <1>2, PlacingBeyond
<1> QED BY <1>3, <1>4, Spots

LEMMA EnteredItem ==
  ASSUME NEW tree, Reading(tree), NEW frames, NEW key, NEW tag, tag \in Containers,
         NEW p, ClientAt(tree, frames, key, tag, p)
  PROVE  /\ Spot(tree, Append(frames, Frame(p, tag)), UintEnd(p))
         /\ Frame(p, tag) \in FrameSet
<1>1. PICK at : Standing(tree, at, frames, key, tag, p)
  BY DEF ClientAt
<1>2. tag # NoType
  BY DEF Containers, MapType, ArrayType, NoType
<1>3. /\ Placing(tree, at, frames) /\ Final(frames).next <= Final(frames).size
      /\ tag = ItemNode(at, frames).tag /\ p = TagOffset(at, frames) + 1
  BY <1>1, <1>2 DEF Standing
<1> DEFINE as == Append(at, ValuePlace(Final(at), Final(frames).next))
           fs == Append(frames, Frame(p, tag))
<1>4. Placing(tree, as, fs) /\ ItemPlace(as, fs) = UintEnd(p) /\ Final(fs) = Frame(p, tag)
  BY <1>3, ItemInto
<1> HIDE DEF as, fs
<1>5. Final(fs) \in FrameSet
  BY <1>4, PlacingTypes
<1>6. Spot(tree, fs, UintEnd(p))
  BY <1>4, Spots
<1> QED BY <1>4, <1>5, <1>6 DEF fs

LEMMA LeftItem ==
  ASSUME NEW tree, Reading(tree), NEW frames, NEW p, Spot(tree, frames, p),
         Len(frames) > 1, Final(frames).next > Final(frames).size
  PROVE  Spot(tree, Beyond(Outer(frames)), p)
<1>1. PICK at : Standing(tree, at, frames, FALSE, NoType, p)
  BY DEF Spot, ClientAt
<1>2. Placing(tree, at, frames) /\ p = ItemPlace(at, frames)
  BY <1>1 DEF Standing
<1>3. /\ Placing(tree, Outer(at), Beyond(Outer(frames)))
      /\ ItemPlace(Outer(at), Beyond(Outer(frames))) = p
  BY <1>2, ItemOut
<1> QED BY <1>3, Spots

(* A loop of the parser at an item: behind the key there is the tag.       *)
LEMMA SpotTag ==
  ASSUME NEW tree, Reading(tree), NEW frames, NEW p, Spot(tree, frames, p),
         Final(frames).next <= Final(frames).size, Final(frames).keyed \in BOOLEAN
  PROVE  LET q == IF Final(frames).keyed THEN UintEnd(p) + UintAt(p) ELSE p
         IN  /\ At(q) # NoType /\ At(q) \in Tags
             /\ ClientAt(tree, frames, Final(frames).keyed, At(q), q + 1)
<1> DEFINE q == IF Final(frames).keyed THEN UintEnd(p) + UintAt(p) ELSE p
           key == Final(frames).keyed
<1>1. ClientAt(tree, frames, key, NoType, q)
  <2>1. CASE key
    <3>1. ClientAt(tree, frames, TRUE, NoType, UintEnd(p) + UintAt(p))
      BY <2>1, NamedItem
    <3>2. key = TRUE BY <2>1
    <3>3. q = UintEnd(p) + UintAt(p) BY <2>1
    <3> QED BY <3>1, <3>2, <3>3
  <2>2. CASE ~key
    <3>1. key = FALSE /\ q = p BY <2>2
    <3> QED BY <3>1 DEF Spot
  <2> QED BY <2>1, <2>2
<1> HIDE DEF q
<1>2. At(q) # NoType /\ At(q) \in Tags /\ ClientAt(tree, frames, key, At(q), q + 1)
  BY <1>1, TaggedItem
<1> QED BY <1>2 DEF q

(* The start, *)
LEMMA AtStart ==
  ASSUME NEW tree, Reading(tree)
  PROVE  /\ Placing(tree, <<RootPlace(tree)>>, Start)
         /\ Spot(tree, Start, 0)
         /\ Start \in Seq(FrameSet) /\ Len(Start) = 1 /\ Final(Start) = Start[1]
         /\ Start[1] = [keyed |-> FALSE, size |-> 1, next |-> 1]
<1> DEFINE root == Root(tree)
           f == [keyed |-> FALSE, size |-> 1, next |-> 1]
           at == <<RootPlace(tree)>>
<1>1. root \in Nodes /\ Encode(root) \in Seq(Byte)
  BY DataTypes
<1>2. root.tag = NoType /\ Len(root.items) = 1
  BY DEF Root
<1>3. f \in FrameSet /\ RootPlace(tree) \in PlaceSet
  BY <1>1 DEF FrameSet, PlaceSet, RootPlace
<1>4. Start = <<f>> /\ Start \in Seq(FrameSet) /\ Len(Start) = 1 /\ Start[1] = f /\ Final(Start) = f
  BY <1>3 DEF Start, Final
<1>5. at \in Seq(PlaceSet) /\ Len(at) = 1 /\ at[1] = RootPlace(tree) /\ Final(at) = at[1]
  BY <1>3 DEF Final
<1>6. Stands(f, root)
  <2>1. (root.tag = MapType) = FALSE
    BY <1>2 DEF NoType, MapType
  <2>2. f.keyed = FALSE /\ f.size = 1 /\ f.next = 1
    OBVIOUS
  <2>3. f.keyed = (root.tag = MapType)
    BY <2>1, <2>2
  <2>4. f.size = Len(root.items) /\ f.next \in 1..(f.size + 1)
    BY <1>2, <2>2
  <2> HIDE DEF f, root
  <2> QED BY <2>3, <2>4 DEF Stands
<1>7. Sits(Encode(root), Encode(root), 0)
  <2>1. Len(Encode(root)) \in Nat
    BY <1>1, LenProperties
  <2> QED BY <2>1 DEF Sits
<1>8. Placing(tree, at, Start)
  <2>1. Start # <<>>
    BY <1>4, EmptySeq
  <2>2. ASSUME NEW i \in 1..Len(Start)
        PROVE  Stands(Start[i], at[i].node) /\ Sits(Encode(root), Encode(at[i].node), at[i].from)
    <3>1. i = 1 BY <1>4
    <3>2. at[1].node = root /\ at[1].from = 0 BY <1>5 DEF RootPlace
    <3> QED BY <3>1, <3>2, <1>4, <1>6, <1>7
  <2>3. 1..(Len(Start) - 1) = {}
    BY <1>4
  <2> HIDE DEF at, f
  <2> QED BY <1>4, <1>5, <2>1, <2>2, <2>3 DEF Placing
<1>9. ItemPlace(at, Start) = 0
  <2>1. Written[root][1] = Header(root)
    BY <1>1, EncodingAssumption
  <2>2. Header(root) = <<>>
    BY <1>2, Headers
  <2>3. Before(root, 1) = 0
    BY <2>1, <2>2 DEF Before
  <2> QED BY <2>3, <1>4, <1>5 DEF ItemPlace, RootPlace
<1>10. Spot(tree, Start, 0)
  BY <1>8, <1>9, Spots
<1> QED BY <1>4, <1>8, <1>10

(* and the end. *)
LEMMA AtEnd ==
  ASSUME NEW tree, Reading(tree), NEW frames, NEW p, Spot(tree, frames, p),
         Len(frames) = 1, Final(frames).next > 1
  PROVE  p = Len(data)
<1>1. PICK at : Standing(tree, at, frames, FALSE, NoType, p)
  BY DEF Spot, ClientAt
<1>2. Placing(tree, at, frames) /\ p = ItemPlace(at, frames)
  BY <1>1 DEF Standing
<1>3. Final(at) = RootPlace(tree) /\ Stands(Final(frames), Final(at).node)
  BY <1>2, PlacingTypes DEF Placing, Final
<1>4. Len(Root(tree).items) = 1 /\ Final(at).node = Root(tree) /\ Final(at).from = 0
  BY <1>3 DEF Root, RootPlace
<1>5. Final(frames).next = 2
  <2>1. Final(frames).size = 1 /\ Final(frames).next \in 1..(Final(frames).size + 1)
    BY <1>3, <1>4 DEF Stands
  <2> QED BY <2>1
<1>6. p = 0 + Len(Encode(Root(tree)))
  BY <1>2, <1>4, <1>5 DEF ItemPlace, Before, Encode
<1> QED BY <1>6, DataTypes

-----------------------------------------------------------------------------
(* Frames of calls on top of others.                                       *)

LEMMA FinalFrame ==
  ASSUME NEW frames \in Seq(FrameSet), frames # <<>>
  PROVE  /\ Len(frames) \in Nat \ {0} /\ Len(frames) \in 1..Len(frames)
         /\ Final(frames) \in FrameSet
         /\ Beyond(frames) \in Seq(FrameSet) /\ Beyond(frames) # <<>>
         /\ Len(Beyond(frames)) = Len(frames)
         /\ Beyond(frames)[Len(frames)] =
              [Final(frames) EXCEPT !.next = Final(frames).next + 1]
         /\ \A i \in 1..Len(frames) : i # Len(frames) => Beyond(frames)[i] = frames[i]
<1> DEFINE n == Len(frames)
           f == Final(frames)
           g == [f EXCEPT !.next = f.next + 1]
           next == Beyond(frames)
<1>1. n \in Nat \ {0}
  BY EmptySeq, LenProperties
<1>2. n \in 1..n
  BY <1>1
<1>3. f \in FrameSet
  BY <1>2, ElementOfSeq DEF Final
<1>4. g \in FrameSet
  BY <1>3 DEF FrameSet
<1>5. next = [frames EXCEPT ![n] = g]
  BY DEF Beyond, Final
<1> HIDE DEF g, next
<1>6. next \in Seq(FrameSet)
  BY <1>2, <1>4, <1>5, ExceptSeq
<1>7. Len(next) = n
  BY <1>2, <1>4, <1>5, ExceptSeq
<1>8. \A i \in 1..n : next[i] = IF i = n THEN g ELSE frames[i]
  BY <1>2, <1>4, <1>5, ExceptSeq
<1>9. next # <<>>
  BY <1>1, <1>6, <1>7, EmptySeq
<1> QED BY <1>1, <1>2, <1>3, <1>6, <1>7, <1>8, <1>9 DEF g, next

LEMMA OuterFrames ==
  ASSUME NEW frames \in Seq(FrameSet), Len(frames) > 1
  PROVE  /\ Outer(frames) \in Seq(FrameSet) /\ Outer(frames) # <<>>
         /\ Len(Outer(frames)) = Len(frames) - 1
         /\ \A i \in 1..(Len(frames) - 1) : Outer(frames)[i] = frames[i]
<1> DEFINE n == Len(frames)
           fs == Outer(frames)
<1>1. n \in Nat
  BY LenProperties
<1>2. n - 1 \in 1..n /\ n - 1 \in 0..n /\ 1 \in 1..n
  BY <1>1
<1>3. /\ fs \in Seq(FrameSet) /\ Len(fs) = n - 1
      /\ \A i \in 1..(n - 1) : fs[i] = frames[i]
  BY <1>1, <1>2, SubSeqProperties DEF Outer
<1> HIDE DEF fs
<1>4. fs # <<>>
  BY <1>2, <1>3, EmptySeq
<1> QED BY <1>3, <1>4 DEF fs

LEMMA Stacked ==
  ASSUME NEW base \in Seq(FrameSet), NEW stack \in Seq(FrameSet)
  PROVE  /\ base \o stack \in Seq(FrameSet)
         /\ Len(base \o stack) = Len(base) + Len(stack)
         /\ Len(base) \in Nat /\ Len(stack) \in Nat
         /\ \A i \in 1..Len(base) : (base \o stack)[i] = base[i]
         /\ \A i \in 1..Len(stack) : (base \o stack)[Len(base) + i] = stack[i]
OBVIOUS

LEMMA StackedFinal ==
  ASSUME NEW base \in Seq(FrameSet), NEW stack \in Seq(FrameSet), stack # <<>>
  PROVE  Final(base \o stack) = Final(stack)
<1>1. Len(stack) \in 1..Len(stack)
  BY FinalFrame
<1> QED BY <1>1, Stacked DEF Final

LEMMA StackedBeyond ==
  ASSUME NEW base \in Seq(FrameSet), NEW stack \in Seq(FrameSet), stack # <<>>
  PROVE  Beyond(base \o stack) = base \o Beyond(stack)
<1> DEFINE whole == base \o stack
           next == Beyond(stack)
           m == Len(base)
           n == Len(stack)
<1>1. m \in Nat /\ n \in Nat \ {0} /\ whole \in Seq(FrameSet) /\ Len(whole) = m + n
  BY Stacked, FinalFrame
<1>2. next \in Seq(FrameSet) /\ Len(next) = n
  BY FinalFrame
<1>3. Final(whole) = Final(stack)
  BY StackedFinal
<1>4. whole # <<>>
  BY <1>1, EmptySeq
<1> DEFINE a == Beyond(whole)
           b == base \o next
<1>5. a \in Seq(FrameSet) /\ Len(a) = m + n
  BY <1>1, <1>4, FinalFrame
<1>6. b \in Seq(FrameSet) /\ Len(b) = m + n
  <2> HIDE DEF next
  <2>1. b \in Seq(FrameSet) /\ Len(b) = Len(base) + Len(next)
    BY <1>2, Stacked
  <2> QED BY <2>1, <1>2
<1>7. ASSUME NEW i \in 1..(m + n) PROVE a[i] = b[i]
  <2>1. CASE i <= m
    <3>1. i \in 1..m /\ i # m + n BY <1>1, <2>1
    <3>2. a[i] = whole[i] BY <1>1, <1>4, <3>1, FinalFrame
    <3>3. whole[i] = base[i] BY <3>1, Stacked
    <3>4. b[i] = base[i] BY <1>2, <3>1, Stacked
    <3> QED BY <3>2, <3>3, <3>4
  <2>2. CASE i > m
    <3>1. PICK j \in 1..n : i = m + j
      <4>1. i - m \in 1..n /\ i = m + (i - m) BY <1>1, <2>2
      <4> QED BY <4>1
    <3>2. b[i] = next[j]
      BY <1>2, <3>1, Stacked
    <3>3. CASE j = n
      <4>1. a[i] = [Final(whole) EXCEPT !.next = Final(whole).next + 1]
        BY <1>1, <1>4, <3>1, <3>3, FinalFrame
      <4>2. next[j] = [Final(stack) EXCEPT !.next = Final(stack).next + 1]
        BY <3>3, FinalFrame
      <4> HIDE DEF a, b
      <4> QED BY <1>3, <3>2, <4>1, <4>2
    <3>4. CASE j # n
      <4>1. i # m + n BY <1>1, <3>1, <3>4
      <4>2. a[i] = whole[i] BY <1>1, <1>4, <4>1, FinalFrame
      <4>3. whole[i] = stack[j] BY <3>1, Stacked
      <4>4. next[j] = stack[j] BY <3>4, FinalFrame
      <4> QED BY <3>2, <4>2, <4>3, <4>4
    <3> QED BY <3>3, <3>4
  <2> HIDE DEF a, b
  <2> QED BY <1>1, <2>1, <2>2
<1> HIDE DEF a, b
<1>8. a = b
  BY <1>1, <1>5, <1>6, <1>7, SeqEqual
<1> QED BY <1>8 DEF a, b

LEMMA StackedAppend ==
  ASSUME NEW base \in Seq(FrameSet), NEW stack \in Seq(FrameSet), NEW f \in FrameSet
  PROVE  /\ Append(base \o stack, f) = base \o Append(stack, f)
         /\ Append(stack, f) \in Seq(FrameSet) /\ Append(stack, f) # <<>>
         /\ Append(base, f) = base \o <<f>>
         /\ <<f>> \in Seq(FrameSet) /\ <<f>> # <<>>
<1>1. Append(base \o stack, f) = base \o Append(stack, f)
  OBVIOUS
<1>2. Append(base, f) = base \o <<f>> /\ <<f>> \in Seq(FrameSet) /\ <<f>> # <<>>
  OBVIOUS
<1>3. Append(stack, f) \in Seq(FrameSet) /\ Append(stack, f) # <<>>
  OBVIOUS
<1> QED BY <1>1, <1>2, <1>3

LEMMA StackedOuter ==
  ASSUME NEW base \in Seq(FrameSet), NEW stack \in Seq(FrameSet), base # <<>>
  PROVE  /\ Len(stack) > 1 => Outer(base \o stack) = base \o Outer(stack)
         /\ Len(stack) = 1 => Outer(base \o stack) = base
<1> DEFINE whole == base \o stack
           m == Len(base)
           n == Len(stack)
<1>1. m \in Nat \ {0} /\ n \in Nat /\ whole \in Seq(FrameSet) /\ Len(whole) = m + n
  BY Stacked, FinalFrame
<1>2. \A i \in 1..m : whole[i] = base[i]
  BY Stacked
<1>3. \A i \in 1..n : whole[m + i] = stack[i]
  BY Stacked
<1> HIDE DEF whole
<1>4. ASSUME n > 1 PROVE Outer(whole) = base \o Outer(stack)
  <2> DEFINE a == Outer(whole)
             b == base \o Outer(stack)
  <2>1. m + n > 1
    BY <1>1, <1>4
  <2>2. a \in Seq(FrameSet) /\ Len(a) = (m + n) - 1
        /\ \A i \in 1..((m + n) - 1) : a[i] = whole[i]
    BY <1>1, <2>1, OuterFrames
  <2>3. Outer(stack) \in Seq(FrameSet) /\ Len(Outer(stack)) = n - 1
        /\ \A i \in 1..(n - 1) : Outer(stack)[i] = stack[i]
    BY <1>1, <1>4, OuterFrames
  <2>4. b \in Seq(FrameSet) /\ Len(b) = m + (n - 1)
        /\ (\A i \in 1..m : b[i] = base[i])
        /\ \A i \in 1..(n - 1) : b[m + i] = Outer(stack)[i]
    <3> DEFINE o == Outer(stack)
    <3>1. o \in Seq(FrameSet) /\ Len(o) = n - 1
      BY <2>3
    <3> HIDE DEF o
    <3>2. /\ base \o o \in Seq(FrameSet) /\ Len(base \o o) = m + Len(o)
          /\ (\A i \in 1..m : (base \o o)[i] = base[i])
          /\ \A i \in 1..Len(o) : (base \o o)[m + i] = o[i]
      BY <3>1, Stacked
    <3> QED BY <3>1, <3>2 DEF o
  <2> HIDE DEF a, b
  <2>5. ASSUME NEW i \in 1..((m + n) - 1) PROVE a[i] = b[i]
    <3>1. CASE i <= m
      <4>1. i \in 1..m BY <1>1, <3>1
      <4> QED BY <4>1, <1>2, <2>2, <2>4
    <3>2. CASE i > m
      <4>1. i - m \in 1..(n - 1) /\ i = m + (i - m) /\ i - m \in 1..n BY <1>1, <3>2
      <4>2. b[i] = stack[i - m] BY <4>1, <2>3, <2>4
      <4>3. whole[i] = stack[i - m] BY <4>1, <1>3
      <4> QED BY <2>2, <4>2, <4>3
    <3> QED BY <1>1, <3>1, <3>2
  <2>6. (m + n) - 1 = m + (n - 1)
    BY <1>1
  <2> QED BY <2>2, <2>4, <2>5, <2>6, SeqEqual DEF a, b
<1>5. ASSUME n = 1 PROVE Outer(whole) = base
  <2> DEFINE a == Outer(whole)
  <2>1. m + n > 1 /\ (m + n) - 1 = m
    BY <1>1, <1>5
  <2>2. a \in Seq(FrameSet) /\ Len(a) = m /\ \A i \in 1..m : a[i] = whole[i]
    BY <1>1, <2>1, OuterFrames
  <2> HIDE DEF a
  <2>3. \A i \in 1..m : a[i] = base[i]
    BY <1>2, <2>2
  <2> QED BY <2>2, <2>3, SeqEqual DEF a
<1> QED BY <1>4, <1>5 DEF whole

-----------------------------------------------------------------------------
(* The invariant: the client is somewhere in the document and the position *)
(* is that place, unless skipValue or toJSONtring are running; then what   *)
(* they are called for lies under the frames of their calls, the position  *)
(* is at the item of the last of them, and the place they return to is the *)
(* client's.  What is saved is a place too.                                *)

Base == IF job.does = "render" THEN Start ELSE open

ClientPlace == IF calls = <<>> THEN position ELSE job.back

CallInv ==
  /\ job.does \in {"string", "skip", "render"}
  /\ Spot(doc, Base \o calls, position)
  /\ job.does # "render" => type # NoType
  /\ job.does = "string" => type \in Containers

SavedInv ==
  saved # <<>> =>
    /\ saved = <<saved[1]>>
    /\ saved[1].named \in BOOLEAN
    /\ ClientAt(doc, saved[1].open, saved[1].named, NoType, saved[1].position)

Inv ==
  /\ Reading(doc)
  /\ named \in BOOLEAN
  /\ ClientAt(doc, open, named, type, ClientPlace)
  /\ calls \in Seq(FrameSet)
  /\ calls # <<>> => CallInv
  /\ SavedInv
  /\ WholeDocument

(* A client is inside of the document, *)
LEMMA ClientInside ==
  ASSUME NEW tree, Reading(tree), NEW frames, NEW key \in BOOLEAN, NEW tag, NEW p,
         ClientAt(tree, frames, key, tag, p)
  PROVE  p \in 0..Len(data)
<1>1. PICK at : Standing(tree, at, frames, key, tag, p)
  BY DEF ClientAt
<1>2. Placing(tree, at, frames)
  BY <1>1 DEF Standing
<1>3. CASE tag = NoType /\ key
  <2>1. p = TagOffset(at, frames) /\ Final(frames).keyed /\ Final(frames).next <= Final(frames).size
    BY <1>1, <1>3 DEF Standing
  <2>2. TagOffset(at, frames) < Len(data) /\ TagOffset(at, frames) \in Nat
    BY <1>2, <2>1, ItemTag, ItemProperties
  <2> QED BY <2>1, <2>2, DataTypes
<1>4. CASE tag = NoType /\ ~key
  <2>1. p = ItemPlace(at, frames)
    BY <1>1, <1>4 DEF Standing
  <2> QED BY <1>2, <2>1, ItemPlaceTypes
<1>5. CASE tag # NoType
  <2>1. p \in Nat /\ p <= Len(data)
    BY <1>5, UntaggedItem
  <2> QED BY <2>1, DataTypes
<1> QED BY <1>3, <1>4, <1>5

(* and in containers it has not read to the end. *)
LEMMA ClientFrames ==
  ASSUME NEW tree, Reading(tree), NEW frames, NEW key \in BOOLEAN, NEW tag, NEW p,
         ClientAt(tree, frames, key, tag, p)
  PROVE  /\ frames \in Seq(FrameSet) /\ frames # <<>>
         /\ Len(frames) \in Nat \ {0}
         /\ Final(frames) \in FrameSet
         /\ \A i \in 1..Len(frames) : IsFrame(frames[i])
         /\ p \in 0..Len(data)
         /\ tag \in Tags \cup {NoType}
         /\ key => Final(frames).keyed /\ Final(frames).next <= Final(frames).size
         /\ tag # NoType => \E node \in Nodes : node.tag = tag
         /\ tag # NoType => Final(frames).next <= Final(frames).size
<1>1. PICK at : Standing(tree, at, frames, key, tag, p)
  BY DEF ClientAt
<1>2. Placing(tree, at, frames)
  BY <1>1 DEF Standing
<1>3. /\ frames \in Seq(FrameSet) /\ frames # <<>>
      /\ Len(frames) \in Nat \ {0} /\ Final(frames) \in FrameSet
  BY <1>2, PlacingTypes DEF Placing
<1>4. ASSUME NEW i \in 1..Len(frames) PROVE IsFrame(frames[i])
  <2>1. frames[i] \in FrameSet
    BY <1>3, ElementOfSeq
  <2>2. Stands(frames[i], at[i].node)
    BY <1>2 DEF Placing
  <2> QED BY <2>1, <2>2 DEF IsFrame, Stands, FrameSet
<1>5. key => Final(frames).keyed /\ Final(frames).next <= Final(frames).size
  BY <1>1 DEF Standing
<1>6. p \in 0..Len(data)
  BY ClientInside
<1>7. CASE tag # NoType
  <2>1. tag \in Tags
    BY <1>7, UntaggedItem
  <2>2. Final(frames).next <= Final(frames).size /\ tag = ItemNode(at, frames).tag
    BY <1>1, <1>7 DEF Standing
  <2>3. ItemNode(at, frames) \in Nodes
    BY <1>2, <2>2, ItemProperties
  <2> QED BY <1>3, <1>4, <1>5, <1>6, <1>7, <2>1, <2>2, <2>3
<1> QED BY <1>3, <1>4, <1>5, <1>6, <1>7

(* Of a tag that has been read. *)
LEMMA ClientTag ==
  ASSUME NEW tree, Reading(tree), NEW frames, NEW key, NEW tag, NEW p,
         ClientAt(tree, frames, key, tag, p), tag # NoType
  PROVE  /\ \E node \in Nodes : node.tag = tag
         /\ Final(frames).next <= Final(frames).size
<1>1. PICK at : Standing(tree, at, frames, key, tag, p)
  BY DEF ClientAt
<1>2. Placing(tree, at, frames) /\ Final(frames).next <= Final(frames).size
      /\ tag = ItemNode(at, frames).tag
  BY <1>1 DEF Standing
<1>3. ItemNode(at, frames) \in Nodes
  BY <1>2, ItemProperties
<1> QED BY <1>2, <1>3

LEMMA Initially == Init => Inv
<1> SUFFICES ASSUME Init PROVE Inv
  OBVIOUS
<1>1. Reading(doc)
  BY DEF Init, Reading
<1>2. ClientAt(doc, open, named, type, ClientPlace)
  <2>1. Spot(doc, Start, 0)
    BY <1>1, AtStart
  <2> QED BY <2>1 DEF Init, ClientPlace, Spot
<1>3. calls = <<>> /\ saved = <<>> /\ rendered = 0 /\ named = FALSE
  BY DEF Init
<1>4. calls \in Seq(FrameSet)
  BY <1>3
<1> QED BY <1>1, <1>2, <1>3, <1>4 DEF Inv, SavedInv, WholeDocument

(* A step that ends with no call of the parser running. *)
LEMMA Settled ==
  ASSUME Inv, doc' = doc, data' = data, calls' = <<>>, named' \in BOOLEAN,
         ClientAt(doc, open', named', type', position'),
         SavedInv', WholeDocument'
  PROVE  Inv'
<1>1. Reading(doc)'
  BY DEF Inv, Reading
<1>2. ClientAt(doc, open, named, type, ClientPlace)'
  <2>1. ClientPlace' = position'
    BY DEF ClientPlace
  <2> QED BY <2>1
<1>3. (calls \in Seq(FrameSet))'
  OBVIOUS
<1> QED BY <1>1, <1>2, <1>3 DEF Inv

LEMMA SavedKept ==
  ASSUME SavedInv, doc' = doc, saved' = saved
  PROVE  SavedInv'
BY DEF SavedInv

LEMMA WholeKept ==
  ASSUME WholeDocument, data' = data, rendered' = rendered
  PROVE  WholeDocument'
BY DEF WholeDocument

(* A value has been passed. *)
LEMMA DoneStep ==
  ASSUME Inv, NEW p, NEW what, Done(p, what), calls' = <<>>, Spot(doc, Beyond(open), p)
  PROVE  Inv'
<1>1. /\ doc' = doc /\ data' = data /\ saved' = saved /\ rendered' = rendered
      /\ open' = Beyond(open) /\ named' = FALSE /\ type' = NoType /\ position' = p
  BY DEF Done
<1>2. ClientAt(doc, open', named', type', position')
  BY <1>1 DEF Spot
<1>3. SavedInv' /\ WholeDocument'
  BY <1>1, SavedKept, WholeKept DEF Inv
<1>4. named' \in BOOLEAN
  BY <1>1
<1> QED BY <1>1, <1>2, <1>3, <1>4, Settled

(* A container is gone through. *)
LEMMA GoStep ==
  ASSUME Inv, calls = <<>>, NEW does \in {"string", "skip", "render"},
         does # "render" => type # NoType, does = "string" => type \in Containers,
         NEW key, NEW tag \in Containers, NEW p,
         ClientAt(doc, IF does = "render" THEN Start ELSE open, key, tag, p),
         GoThrough(p, tag, does)
  PROVE  Inv'
<1> DEFINE base == IF does = "render" THEN Start ELSE open
           f == Frame(p, tag)
<1>1. /\ doc' = doc /\ data' = data /\ saved' = saved /\ rendered' = rendered
      /\ open' = open /\ named' = named /\ type' = type
      /\ position' = UintEnd(p) /\ calls' = <<f>>
      /\ job' = [does |-> does, back |-> position]
  BY DEF GoThrough, client
<1>2. Reading(doc) /\ named \in BOOLEAN
  BY DEF Inv
<1>3. Spot(doc, Append(base, f), UintEnd(p)) /\ f \in FrameSet
  BY <1>2, EnteredItem
<1> HIDE DEF f
<1>4. base \in Seq(FrameSet)
  <2>1. Start \in Seq(FrameSet)
    BY <1>2, AtStart
  <2>2. ClientAt(doc, open, named, type, ClientPlace)
    BY DEF Inv
  <2>3. open \in Seq(FrameSet)
    BY <1>2, <2>2, ClientFrames
  <2> QED BY <2>1, <2>3
<1>5. job'.does = does /\ job'.back = position
  BY <1>1
<1>6. Base' = base
  BY <1>1, <1>5 DEF Base, Start
<1> HIDE DEF base
<1>7. Append(base, f) = base \o <<f>> /\ <<f>> \in Seq(FrameSet) /\ <<f>> # <<>>
  BY <1>3, <1>4, StackedAppend
<1>8. CallInv'
  <2>1. Spot(doc', Base' \o calls', position')
    BY <1>1, <1>3, <1>6, <1>7
  <2> QED BY <1>1, <1>5, <2>1 DEF CallInv
<1>9. ClientPlace' = position /\ ClientPlace = position
  BY <1>1, <1>5, <1>7 DEF ClientPlace
<1>10. ClientAt(doc, open, named, type, ClientPlace)'
  BY <1>1, <1>9 DEF Inv
<1>11. SavedInv' /\ WholeDocument'
  BY <1>1, SavedKept, WholeKept DEF Inv
<1>12. Reading(doc)'
  BY <1>1, <1>2 DEF Reading
<1>13. (calls \in Seq(FrameSet))' /\ (named \in BOOLEAN)'
  BY <1>1, <1>2, <1>7
<1> QED BY <1>8, <1>10, <1>11, <1>12, <1>13 DEF Inv

-----------------------------------------------------------------------------
(* The steps of the client.                                                *)

LEMMA Resting ==
  ASSUME Inv, calls = <<>>
  PROVE  /\ Reading(doc) /\ named \in BOOLEAN
         /\ ClientAt(doc, open, named, type, position)
         /\ Top = Final(open)
         /\ type \in Tags \cup {NoType}
         /\ open \in Seq(FrameSet) /\ Len(open) \in Nat \ {0} /\ Top \in FrameSet
         /\ named => Top.keyed /\ Top.next <= Top.size
         /\ type # NoType => \E node \in Nodes : node.tag = type
         /\ type # NoType => Top.next <= Top.size
<1>1. Reading(doc) /\ named \in BOOLEAN /\ ClientAt(doc, open, named, type, position)
  BY DEF Inv, ClientPlace
<1>2. Top = Final(open)
  BY DEF Top, Final
<1> QED BY <1>1, <1>2, ClientFrames

LEMMA NextTypeStep ==
  ASSUME Inv, calls = <<>>, NextType
  PROVE  Inv' /\ position < Len(data) /\ type' = At(position) /\ type' # NoType
<1>1. /\ doc' = doc /\ data' = data /\ calls' = <<>> /\ saved' = saved /\ rendered' = rendered
      /\ open' = open /\ named' = named
      /\ type = NoType /\ Final(open).next <= Final(open).size
      /\ Final(open).keyed => named
  BY Resting DEF NextType, AtItem, walk
<1>2. /\ position \in Nat /\ position < Len(data)
      /\ At(position) # NoType /\ ClientAt(doc, open, named, At(position), position + 1)
  <2>1. ClientAt(doc, open, named, NoType, position) /\ Reading(doc) /\ named \in BOOLEAN
    BY <1>1, Resting
  <2> QED BY <1>1, <2>1, TaggedItem
<1>3. type' = At(position) /\ position' = position + 1
  BY <1>2 DEF NextType
<1>4. ClientAt(doc, open', named', type', position') /\ named' \in BOOLEAN
  BY <1>1, <1>2, <1>3, Resting
<1>5. SavedInv' /\ WholeDocument'
  BY <1>1, SavedKept, WholeKept DEF Inv
<1>6. Inv'
  BY <1>1, <1>4, <1>5, Settled
<1> QED BY <1>2, <1>3, <1>6

LEMMA BackTypeStep ==
  ASSUME Inv, calls = <<>>, BackType
  PROVE  Inv'
<1>1. /\ doc' = doc /\ data' = data /\ calls' = <<>> /\ saved' = saved /\ rendered' = rendered
      /\ open' = open /\ named' = named /\ type # NoType /\ type' = NoType
  BY DEF BackType, walk
<1>2. /\ position \in Nat /\ position > 0
      /\ ClientAt(doc, open, named, NoType, position - 1)
  BY <1>1, Resting, UntaggedItem
<1>3. position' = position - 1
  BY <1>2 DEF BackType
<1>4. ClientAt(doc, open', named', type', position') /\ named' \in BOOLEAN
  BY <1>1, <1>2, <1>3, Resting
<1>5. SavedInv' /\ WholeDocument'
  BY <1>1, SavedKept, WholeKept DEF Inv
<1> QED BY <1>1, <1>4, <1>5, Settled

LEMMA NextMapKeyStep ==
  ASSUME Inv, calls = <<>>, NextMapKey
  PROVE  Inv'
<1>1. /\ doc' = doc /\ data' = data /\ calls' = <<>> /\ saved' = saved /\ rendered' = rendered
      /\ open' = open /\ named = FALSE /\ named' = TRUE /\ type' = NoType /\ type = NoType
      /\ position' = UintEnd(position) + UintAt(position)
      /\ Final(open).keyed /\ Final(open).next <= Final(open).size
  BY Resting DEF NextMapKey, AtItem, walk
<1>2. Spot(doc, open, position)
  BY <1>1, Resting DEF Spot
<1>3. ClientAt(doc, open', named', type', position') /\ named' \in BOOLEAN
  BY <1>1, <1>2, Resting, NamedItem
<1>4. SavedInv' /\ WholeDocument'
  BY <1>1, SavedKept, WholeKept DEF Inv
<1> QED BY <1>1, <1>3, <1>4, Settled

LEMMA NextSizeStep ==
  ASSUME Inv, calls = <<>>, NextSize
  PROVE  Inv'
<1>1. /\ doc' = doc /\ data' = data /\ calls' = <<>> /\ saved' = saved /\ rendered' = rendered
      /\ open' = Append(open, Frame(position, type)) /\ named' = FALSE /\ type' = NoType
      /\ position' = UintEnd(position) /\ type \in Containers
  BY DEF NextSize, walk
<1>2. Spot(doc, Append(open, Frame(position, type)), UintEnd(position))
  BY <1>1, Resting, EnteredItem
<1>3. ClientAt(doc, open', named', type', position') /\ named' \in BOOLEAN
  BY <1>1, <1>2 DEF Spot
<1>4. SavedInv' /\ WholeDocument'
  BY <1>1, SavedKept, WholeKept DEF Inv
<1> QED BY <1>1, <1>3, <1>4, Settled

LEMMA LeaveStep ==
  ASSUME Inv, calls = <<>>, Leave
  PROVE  Inv' /\ ~named
<1>1. /\ doc' = doc /\ data' = data /\ calls' = <<>> /\ saved' = saved /\ rendered' = rendered
      /\ open' = Beyond(Outer(open)) /\ named' = named /\ type' = NoType /\ type = NoType
      /\ position' = position /\ Len(open) > 1 /\ Final(open).next > Final(open).size
  BY Resting DEF Leave, walk
<1>2. named = FALSE
  <2>1. Final(open).next \in Nat /\ Final(open).size \in Nat
    BY Resting DEF FrameSet
  <2>2. ~(Final(open).next <= Final(open).size)
    BY <1>1, <2>1
  <2> QED BY <2>2, Resting
<1>3. Spot(doc, open, position)
  BY <1>1, <1>2, Resting DEF Spot
<1>4. Spot(doc, Beyond(Outer(open)), position)
  BY <1>1, <1>3, Resting, LeftItem
<1>5. ClientAt(doc, open', named', type', position') /\ named' \in BOOLEAN
  BY <1>1, <1>2, <1>4 DEF Spot
<1>6. SavedInv' /\ WholeDocument'
  BY <1>1, SavedKept, WholeKept DEF Inv
<1>7. Inv'
  BY <1>1, <1>5, <1>6, Settled
<1> QED BY <1>2, <1>7

(* A leaf is read or skipped. *)
LEMMA LeafStep ==
  ASSUME Inv, calls = <<>>, type # NoType, type \notin Containers,
         NEW float, type = FloatType => float = 4,
         NEW what, DoneAtOnce(LeafEnd(position, type, float), what)
  PROVE  Inv'
<1>1. Spot(doc, Beyond(open), LeafEnd(position, type, float))
  BY Resting, PassedItem
<1>2. Done(LeafEnd(position, type, float), what) /\ calls' = <<>>
  BY DEF DoneAtOnce, walk
<1> QED BY <1>1, <1>2, DoneStep

LEMMA SkipValueStep ==
  ASSUME Inv, ReadsWhatIsWritten, calls = <<>>, SkipValue
  PROVE  Inv'
<1>1. type # NoType
  BY DEF SkipValue
<1>2. CASE type \in Containers
  <2>1. GoThrough(position, type, "skip")
    BY <1>2 DEF SkipValue
  <2>2. ClientAt(doc, IF "skip" = "render" THEN Start ELSE open, named, type, position)
    BY Resting
  <2> QED BY <1>1, <1>2, <2>1, <2>2, GoStep
<1>3. CASE type \notin Containers
  <2>1. DoneAtOnce(LeafEnd(position, type, SkippedFloat), Skip)
    BY <1>3 DEF SkipValue
  <2>2. type = FloatType => SkippedFloat = 4
    BY <1>1, Resting DEF ReadsWhatIsWritten
  <2> QED BY <1>1, <1>3, <2>1, <2>2, LeafStep
<1> QED BY <1>2, <1>3

LEMMA NextStringStep ==
  ASSUME Inv, calls = <<>>, NextString
  PROVE  Inv'
<1>1. type # NoType
  BY DEF NextString
<1>2. CASE type \in Containers
  <2>1. At(position - 1) = type
    BY <1>1, Resting, UntaggedItem
  <2>2. GoThrough(position, type, "string")
    BY <1>2, <2>1 DEF NextString
  <2>3. ClientAt(doc, IF "string" = "render" THEN Start ELSE open, named, type, position)
    BY Resting
  <2> QED BY <1>1, <1>2, <2>2, <2>3, GoStep
<1>3. CASE type \notin Containers
  <2>1. DoneAtOnce(LeafEnd(position, type, 4), Value(Content(position, type)))
    BY <1>3 DEF NextString
  <2>2. type = FloatType => 4 = 4
    OBVIOUS
  <2> QED BY <1>1, <1>3, <2>1, <2>2, LeafStep
<1> QED BY <1>2, <1>3

(* What nextNumber does with the values that are read with it. *)
LEMMA NumberCases ==
  ASSUME Inv, ReadsWhatIsWritten, calls = <<>>, NextNumber
  PROVE  /\ type # NoType
         /\ type \in Containers => SkipValue
         /\ type \notin Containers =>
              DoneAtOnce(LeafEnd(position, type, 4), Value(Content(position, type)))
<1>1. type # NoType /\ type \in AsNumber
  BY DEF NextNumber
<1>2. type \notin Sized
  BY <1>1, Resting DEF ReadsWhatIsWritten
<1> DEFINE a == LET size == UintAt(position)
                    from == UintEnd(position) + size
                IN  DoneAtOnce(from + size, Value(Bytes(from, size)))
           b == SkipValue
           c == DoneAtOnce(LeafEnd(position, type, 4), Value(Content(position, type)))
<1>3. (CASE type \in Sized -> a [] type \in Containers -> b [] OTHER -> c)
  BY DEF NextNumber
<1> HIDE DEF a, b, c
<1>4. (type \in Containers => b) /\ (type \notin Containers => c)
  BY <1>2, <1>3
<1> QED BY <1>1, <1>4 DEF b, c

LEMMA NextNumberStep ==
  ASSUME Inv, ReadsWhatIsWritten, calls = <<>>, NextNumber
  PROVE  Inv'
<1>1. type # NoType
  BY NumberCases
<1>2. CASE type \in Containers
  BY <1>2, NumberCases, SkipValueStep
<1>3. CASE type \notin Containers
  <2>1. DoneAtOnce(LeafEnd(position, type, 4), Value(Content(position, type)))
    BY <1>3, NumberCases
  <2>2. type = FloatType => 4 = 4
    OBVIOUS
  <2> QED BY <1>1, <1>3, <2>1, <2>2, LeafStep
<1> QED BY <1>2, <1>3

LEMMA NextBoolStep ==
  ASSUME Inv, ReadsWhatIsWritten, calls = <<>>, NextBool
  PROVE  Inv'
<1>1. CASE type \in {BooleanFalse, NullType}
  <2>1. DoneAtOnce(position, Skip)
    BY <1>1 DEF NextBool
  <2>2. type \notin Containers /\ type # NoType /\ type # FloatType
    BY <1>1 DEF Containers, BooleanFalse, NullType, MapType, ArrayType, NoType, FloatType
  <2>3. LeafEnd(position, type, 4) = position
    BY <1>1, LeafEnds DEF Sized, BooleanFalse, NullType, StringType, Uint8String, BigIntType,
       BigDecimalType, IntType, FloatType, DoubleType, LongType
  <2>4. DoneAtOnce(LeafEnd(position, type, 4), Skip)
    BY <2>1, <2>3
  <2> QED BY <2>2, <2>4, LeafStep
<1>2. CASE type \notin {BooleanFalse, NullType}
  BY <1>2, SkipValueStep DEF NextBool
<1> QED BY <1>1, <1>2

LEMMA ToStringUTF8Step ==
  ASSUME Inv, calls = <<>>, ToStringUTF8
  PROVE  Inv'
<1>1. Reading(doc) /\ Spot(doc, Start, 0) /\ Len(Start) = 1
      /\ Final(Start) = [keyed |-> FALSE, size |-> 1, next |-> 1]
  BY Resting, AtStart
<1>2. At(0) # NoType /\ ClientAt(doc, Start, FALSE, At(0), 0 + 1)
  <2>1. ClientAt(doc, Start, FALSE, NoType, 0) /\ FALSE \in BOOLEAN
    BY <1>1 DEF Spot
  <2>2. Final(Start).next <= Final(Start).size /\ ~Final(Start).keyed
    BY <1>1
  <2> QED BY <1>1, <2>1, <2>2, TaggedItem
<1>3. ClientAt(doc, Start, FALSE, At(0), 1)
  <2>1. 0 + 1 = 1
    OBVIOUS
  <2> QED BY <1>2, <2>1
<1>4. CASE At(0) \in Containers
  <2>1. GoThrough(1, At(0), "render")
    BY <1>4 DEF ToStringUTF8
  <2>2. ClientAt(doc, IF "render" = "render" THEN Start ELSE open, FALSE, At(0), 1)
    BY <1>3
  <2> QED BY <1>4, <2>1, <2>2, GoStep
<1>5. CASE At(0) \notin Containers
  <2>1. /\ doc' = doc /\ data' = data /\ calls' = <<>> /\ saved' = saved
        /\ open' = open /\ named' = named /\ type' = type /\ position' = position
        /\ rendered' = LeafEnd(1, At(0), 4)
    BY <1>5 DEF ToStringUTF8, walk, client
  <2>2. Spot(doc, Beyond(Start), LeafEnd(1, At(0), 4))
    BY <1>1, <1>2, <1>3, <1>5, PassedItem
  <2>3. Len(Beyond(Start)) = 1 /\ Final(Beyond(Start)).next > 1
    BY <1>1 DEF Start, Beyond, Final
  <2>4. rendered' = Len(data)
    BY <1>1, <2>1, <2>2, <2>3, AtEnd
  <2>5. WholeDocument'
    BY <2>1, <2>4 DEF WholeDocument
  <2>6. SavedInv'
    BY <2>1, SavedKept DEF Inv
  <2>7. ClientAt(doc, open', named', type', position') /\ named' \in BOOLEAN
    BY <2>1, Resting
  <2> QED BY <2>1, <2>5, <2>6, <2>7, Settled
<1> QED BY <1>4, <1>5

LEMMA GetStateStep ==
  ASSUME Inv, calls = <<>>, GetState
  PROVE  Inv'
<1>1. /\ doc' = doc /\ data' = data /\ calls' = <<>> /\ rendered' = rendered
      /\ open' = open /\ named' = named /\ type' = type /\ position' = position /\ type = NoType
      /\ saved' = <<[position |-> position, open |-> open, named |-> named]>>
  BY DEF GetState, walk, client
<1>2. SavedInv'
  BY <1>1, Resting DEF SavedInv
<1>3. WholeDocument'
  BY <1>1, WholeKept DEF Inv
<1>4. ClientAt(doc, open', named', type', position') /\ named' \in BOOLEAN
  BY <1>1, Resting
<1> QED BY <1>1, <1>2, <1>3, <1>4, Settled

LEMMA RestoreToStateStep ==
  ASSUME Inv, calls = <<>>, RestoreToState
  PROVE  Inv'
<1>1. /\ doc' = doc /\ data' = data /\ calls' = <<>> /\ saved' = saved /\ rendered' = rendered
      /\ open' = saved[1].open /\ named' = saved[1].named /\ type' = NoType
      /\ position' = saved[1].position /\ saved # <<>>
  BY DEF RestoreToState, walk
<1>2. ClientAt(doc, open', named', type', position') /\ named' \in BOOLEAN
  BY <1>1 DEF Inv, SavedInv
<1>3. SavedInv' /\ WholeDocument'
  BY <1>1, SavedKept, WholeKept DEF Inv
<1> QED BY <1>1, <1>2, <1>3, Settled

LEMMA ResetStateStep ==
  ASSUME Inv, calls = <<>>, ResetState
  PROVE  Inv'
<1>1. /\ doc' = doc /\ data' = data /\ calls' = <<>> /\ saved' = saved /\ rendered' = rendered
      /\ open' = Start /\ named' = FALSE /\ type' = NoType /\ position' = 0
  BY DEF ResetState, walk
<1>2. ClientAt(doc, open', named', type', position') /\ named' \in BOOLEAN
  BY <1>1, Resting, AtStart DEF Spot
<1>3. SavedInv' /\ WholeDocument'
  BY <1>1, SavedKept, WholeKept DEF Inv
<1> QED BY <1>1, <1>2, <1>3, Settled

-----------------------------------------------------------------------------
(* The steps of skipValue and toJSONtring.                                 *)

LEMMA Running ==
  ASSUME Inv, calls # <<>>
  PROVE  /\ Reading(doc) /\ named \in BOOLEAN
         /\ CallInv /\ Spot(doc, Base \o calls, position)
         /\ ClientAt(doc, open, named, type, job.back)
         /\ open \in Seq(FrameSet) /\ open # <<>>
         /\ Base \in Seq(FrameSet) /\ Base # <<>> /\ calls \in Seq(FrameSet)
         /\ Final(Base \o calls) = Current /\ Current \in FrameSet
         /\ type # NoType => Final(open).next <= Final(open).size
<1>1. Reading(doc) /\ named \in BOOLEAN /\ CallInv /\ calls \in Seq(FrameSet)
  BY DEF Inv
<1>2. ClientAt(doc, open, named, type, job.back)
  BY DEF Inv, ClientPlace
<1>3. /\ open \in Seq(FrameSet) /\ open # <<>>
      /\ type # NoType => Final(open).next <= Final(open).size
  <2>1. Reading(doc) /\ named \in BOOLEAN
    BY <1>1
  <2>2. open \in Seq(FrameSet) /\ open # <<>>
    BY <1>2, <2>1, ClientFrames
  <2>3. type # NoType => Final(open).next <= Final(open).size
    BY <1>2, <2>1, ClientTag
  <2> QED BY <2>2, <2>3
<1>4. Start \in Seq(FrameSet) /\ Start # <<>>
  <2>1. Start \in Seq(FrameSet) /\ Len(Start) = 1
    BY <1>1, AtStart
  <2> QED BY <2>1, EmptySeq
<1>5. Base \in Seq(FrameSet) /\ Base # <<>>
  BY <1>3, <1>4 DEF Base
<1>6. Final(Base \o calls) = Final(calls) /\ Final(calls) \in FrameSet
  BY <1>1, <1>5, StackedFinal, FinalFrame
<1>7. Current = Final(calls)
  BY DEF Current, Final
<1>8. Spot(doc, Base \o calls, position)
  BY <1>1 DEF CallInv
<1> QED BY <1>1, <1>2, <1>3, <1>5, <1>6, <1>7, <1>8

LEMMA LoopStep ==
  ASSUME Inv, calls # <<>>,
         UNCHANGED <<doc, data, job, client, saved, heard, rendered>>,
         calls' \in Seq(FrameSet), calls' # <<>>, Spot(doc, Base \o calls', position')
  PROVE  Inv'
<1>1. /\ doc' = doc /\ data' = data /\ saved' = saved /\ rendered' = rendered
      /\ open' = open /\ named' = named /\ type' = type /\ job' = job
  BY DEF client
<1>2. Base' = Base
  BY <1>1 DEF Base, Start
<1>3. CallInv'
  <2>1. Spot(doc', Base' \o calls', position')
    BY <1>1, <1>2
  <2> QED BY <1>1, <2>1, Running DEF CallInv
<1>4. ClientPlace' = job.back
  BY <1>1 DEF ClientPlace
<1>5. ClientAt(doc, open, named, type, ClientPlace)'
  BY <1>1, <1>4, Running
<1>6. SavedInv' /\ WholeDocument'
  BY <1>1, SavedKept, WholeKept DEF Inv
<1>7. Reading(doc)' /\ (named \in BOOLEAN)'
  BY <1>1, Running DEF Reading
<1> QED BY <1>3, <1>5, <1>6, <1>7 DEF Inv

(* Behind the key, if there is one, is the tag of the item. *)
LEMMA TagIsThere ==
  ASSUME Inv, calls # <<>>, Current.next <= Current.size
  PROVE  /\ At(TagPlace) # NoType
         /\ ClientAt(doc, Base \o calls, Current.keyed, At(TagPlace), TagPlace + 1)
         /\ Current.keyed \in BOOLEAN
<1> DEFINE frames == Base \o calls
<1>1. /\ Reading(doc) /\ Spot(doc, frames, position)
      /\ Final(frames) = Current /\ Current \in FrameSet
  BY Running
<1>2. Current.keyed \in BOOLEAN
  BY <1>1 DEF FrameSet
<1> HIDE DEF frames
<1> DEFINE q == IF Final(frames).keyed THEN UintEnd(position) + UintAt(position) ELSE position
<1>3. At(q) # NoType /\ ClientAt(doc, frames, Final(frames).keyed, At(q), q + 1)
  BY <1>1, <1>2, SpotTag
<1>4. q = TagPlace
  BY <1>1 DEF TagPlace
<1> HIDE DEF q
<1> QED BY <1>1, <1>2, <1>3, <1>4 DEF frames

LEMMA PassItemStep ==
  ASSUME Inv, ReadsWhatIsWritten, PassItem
  PROVE  Inv'
<1> DEFINE frames == Base \o calls
           tag == At(TagPlace)
<1>1. /\ calls # <<>> /\ Current.next <= Current.size /\ tag \notin Containers
      /\ position' = LeafEnd(TagPlace + 1, tag, FloatBytes)
      /\ calls' = Beyond(calls)
      /\ UNCHANGED <<doc, data, job, client, saved, heard, rendered>>
  BY DEF PassItem
<1>2. Reading(doc) /\ Base \in Seq(FrameSet) /\ calls \in Seq(FrameSet)
  BY <1>1, Running
<1>3. tag # NoType /\ ClientAt(doc, frames, Current.keyed, tag, TagPlace + 1)
      /\ Current.keyed \in BOOLEAN
  BY <1>1, TagIsThere
<1> HIDE DEF frames, tag
<1>4. tag = FloatType => FloatBytes = 4
  <2> DEFINE key == Current.keyed
  <2>1. Reading(doc) /\ key \in BOOLEAN /\ ClientAt(doc, frames, key, tag, TagPlace + 1)
    BY <1>2, <1>3
  <2> HIDE DEF key
  <2>2. \E node \in Nodes : node.tag = tag
    BY <1>3, <2>1, ClientTag
  <2> QED BY <1>3, <2>2 DEF ReadsWhatIsWritten, FloatBytes
<1>5. Spot(doc, Beyond(frames), LeafEnd(TagPlace + 1, tag, FloatBytes))
  BY <1>1, <1>2, <1>3, <1>4, PassedItem
<1>6. Beyond(frames) = Base \o Beyond(calls)
  BY <1>1, <1>2, StackedBeyond DEF frames
<1>7. Beyond(calls) \in Seq(FrameSet) /\ Beyond(calls) # <<>>
  BY <1>1, <1>2, FinalFrame
<1>8. Spot(doc, Base \o calls', position')
  BY <1>1, <1>5, <1>6
<1> QED BY <1>1, <1>7, <1>8, LoopStep

LEMMA CallItemStep ==
  ASSUME Inv, CallItem
  PROVE  Inv'
<1> DEFINE frames == Base \o calls
           tag == At(TagPlace)
           f == Frame(TagPlace + 1, tag)
<1>1. /\ calls # <<>> /\ Current.next <= Current.size /\ tag \in Containers
      /\ position' = UintEnd(TagPlace + 1)
      /\ calls' = Append(calls, f)
      /\ UNCHANGED <<doc, data, job, client, saved, heard, rendered>>
  BY DEF CallItem
<1>2. Reading(doc) /\ Base \in Seq(FrameSet) /\ calls \in Seq(FrameSet)
  BY <1>1, Running
<1>3. ClientAt(doc, frames, Current.keyed, tag, TagPlace + 1)
  BY <1>1, TagIsThere
<1> HIDE DEF frames, tag
<1>4. Spot(doc, Append(frames, f), UintEnd(TagPlace + 1)) /\ f \in FrameSet
  BY <1>1, <1>2, <1>3, EnteredItem
<1> HIDE DEF f
<1>5. /\ Append(frames, f) = Base \o Append(calls, f)
      /\ Append(calls, f) \in Seq(FrameSet) /\ Append(calls, f) # <<>>
  BY <1>2, <1>4, StackedAppend DEF frames
<1>6. Spot(doc, Base \o calls', position')
  BY <1>1, <1>4, <1>5
<1> QED BY <1>1, <1>5, <1>6, LoopStep

LEMMA ReturnItemStep ==
  ASSUME Inv, ReturnItem
  PROVE  Inv'
<1> DEFINE frames == Base \o calls
           below == Outer(calls)
<1>1. /\ Len(calls) > 1 /\ Current.next > Current.size
      /\ calls' = Beyond(below) /\ position' = position
      /\ UNCHANGED <<doc, data, job, client, saved, heard, rendered>>
  BY DEF ReturnItem
<1>2. calls # <<>>
  BY <1>1, EmptySeq
<1>3. /\ Reading(doc) /\ Base \in Seq(FrameSet) /\ Base # <<>> /\ calls \in Seq(FrameSet)
      /\ Spot(doc, frames, position) /\ Final(frames) = Current
  BY <1>2, Running
<1>4. Len(frames) > 1
  <2>1. Len(frames) = Len(Base) + Len(calls) /\ Len(Base) \in Nat /\ Len(calls) \in Nat
    BY <1>3, Stacked
  <2> QED BY <1>1, <2>1
<1>5. Outer(frames) = Base \o below
  BY <1>1, <1>3, StackedOuter
<1>6. below \in Seq(FrameSet) /\ below # <<>>
  BY <1>1, <1>3, OuterFrames
<1> HIDE DEF frames, below
<1>7. Spot(doc, Beyond(Outer(frames)), position)
  BY <1>1, <1>3, <1>4, LeftItem
<1>8. Beyond(Outer(frames)) = Base \o Beyond(below)
  BY <1>3, <1>5, <1>6, StackedBeyond
<1>9. Beyond(below) \in Seq(FrameSet) /\ Beyond(below) # <<>>
  BY <1>6, FinalFrame
<1>10. Spot(doc, Base \o calls', position')
  BY <1>1, <1>7, <1>8
<1> QED BY <1>1, <1>2, <1>9, <1>10, LoopStep

(* The call of the client returns: what it was called for is behind.       *)
LEMMA Returned ==
  ASSUME Inv, Return
  PROVE  /\ calls # <<>> /\ Spot(doc, Beyond(Base), position)
         /\ Reading(doc) /\ calls' = <<>>
         /\ job.does = "string" => Done(position, Value(<<>>))
         /\ job.does = "skip" => Done(position, Skip)
         /\ job.does = "render" =>
              /\ rendered' = position /\ position' = job.back
              /\ UNCHANGED <<doc, data, client, saved, heard>>
<1>1. Len(calls) = 1 /\ Current.next > Current.size /\ calls' = <<>>
  BY DEF Return
<1>2. calls # <<>>
  <2>1. Len(<<>>) = 0
    OBVIOUS
  <2>2. Len(calls) # 0
    BY <1>1
  <2> QED BY <2>1, <2>2, Zenon
<1>3. /\ Reading(doc) /\ Base \in Seq(FrameSet) /\ Base # <<>> /\ calls \in Seq(FrameSet)
      /\ Spot(doc, Base \o calls, position) /\ Final(Base \o calls) = Current
  BY <1>2, Running
<1>4. Len(Base \o calls) > 1
  <2>1. Len(Base \o calls) = Len(Base) + Len(calls) /\ Len(Base) \in Nat \ {0}
    BY <1>3, Stacked, FinalFrame
  <2> QED BY <1>1, <2>1
<1>5. Outer(Base \o calls) = Base
  BY <1>1, <1>3, StackedOuter
<1>6. Spot(doc, Beyond(Outer(Base \o calls)), position)
  BY <1>1, <1>3, <1>4, LeftItem
<1> DEFINE a == Done(position, Value(<<>>))
           b == Done(position, Skip)
           c == /\ rendered' = position /\ position' = job.back
                /\ UNCHANGED <<doc, data, client, saved, heard>>
<1>7. (CASE job.does = "string" -> a [] job.does = "skip" -> b [] job.does = "render" -> c)
  BY DEF Return
<1> HIDE DEF a, b, c
<1>8. /\ job.does = "string" => a
      /\ job.does = "skip" => b
      /\ job.does = "render" => c
  BY <1>7
<1> QED BY <1>1, <1>2, <1>3, <1>5, <1>6, <1>8 DEF a, b, c

LEMMA ReturnStep ==
  ASSUME Inv, Return
  PROVE  Inv'
<1>1. calls # <<>> /\ Spot(doc, Beyond(Base), position) /\ Reading(doc) /\ calls' = <<>>
  BY Returned
<1>2. CASE job.does = "render"
  <2>1. /\ rendered' = position /\ position' = job.back
        /\ UNCHANGED <<doc, data, client, saved, heard>>
    BY <1>2, Returned
  <2>2. /\ doc' = doc /\ data' = data /\ saved' = saved
        /\ open' = open /\ named' = named /\ type' = type
    BY <2>1 DEF client
  <2>3. Base = Start
    BY <1>2 DEF Base
  <2>4. Len(Beyond(Start)) = 1 /\ Final(Beyond(Start)).next > 1
    BY DEF Start, Beyond, Final
  <2>5. position = Len(data)
    BY <1>1, <2>3, <2>4, AtEnd
  <2>6. WholeDocument'
    BY <2>1, <2>2, <2>5 DEF WholeDocument
  <2>7. SavedInv'
    BY <2>2, SavedKept DEF Inv
  <2>8. ClientAt(doc, open', named', type', position') /\ named' \in BOOLEAN
    BY <1>1, <2>1, <2>2, Running
  <2> QED BY <1>1, <2>2, <2>6, <2>7, <2>8, Settled
<1>3. CASE job.does # "render"
  <2>1. \E what : Done(position, what)
    BY <1>1, <1>3, Returned, Running DEF CallInv
  <2>2. PICK what : Done(position, what)
    BY <2>1
  <2>3. Base = open
    BY <1>3 DEF Base
  <2> QED BY <1>1, <2>2, <2>3, DoneStep
<1> QED BY <1>2, <1>3

-----------------------------------------------------------------------------
(* Every step keeps the invariant. *)
LEMMA Kept ==
  ASSUME ReadsWhatIsWritten, Inv, [Next]_vars
  PROVE  Inv'
<1>1. CASE calls = <<>> /\ ClientCall
  <2>1. CASE NextType       BY <1>1, <2>1, NextTypeStep
  <2>2. CASE BackType       BY <1>1, <2>2, BackTypeStep
  <2>3. CASE NextMapKey     BY <1>1, <2>3, NextMapKeyStep
  <2>4. CASE NextSize       BY <1>1, <2>4, NextSizeStep
  <2>5. CASE Leave          BY <1>1, <2>5, LeaveStep
  <2>6. CASE NextString     BY <1>1, <2>6, NextStringStep
  <2>7. CASE NextNumber     BY <1>1, <2>7, NextNumberStep
  <2>8. CASE NextBool       BY <1>1, <2>8, NextBoolStep
  <2>9. CASE SkipValue      BY <1>1, <2>9, SkipValueStep
  <2>10. CASE ToStringUTF8  BY <1>1, <2>10, ToStringUTF8Step
  <2>11. CASE GetState      BY <1>1, <2>11, GetStateStep
  <2>12. CASE RestoreToState BY <1>1, <2>12, RestoreToStateStep
  <2>13. CASE ResetState    BY <1>1, <2>13, ResetStateStep
  <2> QED BY <1>1, <2>1, <2>2, <2>3, <2>4, <2>5, <2>6, <2>7, <2>8, <2>9, <2>10,
             <2>11, <2>12, <2>13 DEF ClientCall
<1>2. CASE PassItem   BY <1>2, PassItemStep
<1>3. CASE CallItem   BY <1>3, CallItemStep
<1>4. CASE ReturnItem BY <1>4, ReturnItemStep
<1>5. CASE Return     BY <1>5, ReturnStep
<1>6. CASE UNCHANGED vars
  <2>1. /\ doc' = doc /\ data' = data /\ position' = position /\ calls' = calls /\ job' = job
        /\ open' = open /\ named' = named /\ type' = type /\ saved' = saved
        /\ rendered' = rendered
    BY <1>6 DEF vars, walk, client
  <2>2. Reading(doc)' /\ SavedInv' /\ WholeDocument'
    BY <2>1 DEF Inv, Reading, SavedInv, WholeDocument
  <2>3. ClientPlace' = ClientPlace /\ Base' = Base
    BY <2>1 DEF ClientPlace, Base, Start
  <2>4. CallInv' = CallInv
    BY <2>1, <2>3 DEF CallInv
  <2> QED BY <2>1, <2>2, <2>3, <2>4 DEF Inv
<1> QED BY <1>1, <1>2, <1>3, <1>4, <1>5, <1>6 DEF Next

(* The client, and what the parser runs for it, is always at some place of *)
(* the document, and the position is that place.                           *)
THEOREM Invariance == ReadsWhatIsWritten => (Spec => []Inv)
<1> SUFFICES ASSUME ReadsWhatIsWritten PROVE Spec => []Inv
  OBVIOUS
<1>1. Init => Inv
  BY Initially
<1>2. Inv /\ [Next]_vars => Inv'
  BY Kept
<1> QED BY <1>1, <1>2, PTL DEF Spec

LEMMA TypesHold == Inv => TypeOK
<1> SUFFICES ASSUME Inv PROVE TypeOK
  OBVIOUS
<1>1. Reading(doc) /\ named \in BOOLEAN /\ ClientAt(doc, open, named, type, ClientPlace)
  BY DEF Inv
<1>2. rendered \in 0..Len(data)
  <2>1. Len(data) \in Nat
    BY <1>1, DataTypes
  <2> QED BY <2>1 DEF Inv, WholeDocument
<1>3. open \in Seq(FrameSet) /\ \A i \in 1..Len(open) : IsFrame(open[i])
  BY <1>1, ClientFrames
<1>4. \A i \in DOMAIN open : IsFrame(open[i])
  BY <1>3
<1>5. type \in Tags \cup {NoType}
  BY <1>1, ClientFrames
<1>6. CASE calls = <<>>
  <2>1. position \in 0..Len(data)
    <3>1. ClientPlace \in 0..Len(data)
      BY <1>1, ClientInside
    <3> QED BY <1>6, <3>1 DEF ClientPlace
  <2>2. \A i \in DOMAIN calls : IsFrame(calls[i])
    BY <1>6
  <2> QED BY <1>1, <1>2, <1>4, <1>5, <2>1, <2>2 DEF TypeOK
<1>7. CASE calls # <<>>
  <2> DEFINE frames == Base \o calls
             m == Len(Base)
             n == Len(calls)
  <2>1. Spot(doc, frames, position) /\ Base \in Seq(FrameSet) /\ calls \in Seq(FrameSet)
    BY <1>7, Running
  <2>2. /\ Len(frames) = m + n /\ m \in Nat /\ n \in Nat
        /\ \A i \in 1..n : frames[m + i] = calls[i]
    BY <2>1, Stacked
  <2> HIDE DEF frames
  <2>3. ClientAt(doc, frames, FALSE, NoType, position) /\ FALSE \in BOOLEAN
    BY <2>1 DEF Spot
  <2>4. position \in 0..Len(data)
    BY <1>1, <2>3, ClientFrames
  <2>5. \A i \in 1..Len(frames) : IsFrame(frames[i])
    BY <1>1, <2>3, ClientFrames
  <2>6. ASSUME NEW i \in 1..n PROVE IsFrame(calls[i])
    <3>1. m + i \in 1..Len(frames)
      BY <2>2
    <3> QED BY <2>2, <2>5, <3>1
  <2>7. \A i \in DOMAIN calls : IsFrame(calls[i])
    BY <2>1, <2>6
  <2> QED BY <1>1, <1>2, <1>4, <1>5, <2>4, <2>7 DEF TypeOK
<1> QED BY <1>6, <1>7

(* Offset, by what the frames stand for. *)
LEMMA Offsets ==
  ASSUME NEW at, NEW frames, NEW key, Reading(doc), Placing(doc, at, frames)
  PROVE  /\ key => Offset(frames, key) = TagOffset(at, frames)
         /\ ~key => Offset(frames, key) = ItemPlace(at, frames)
<1>1. Places(doc, frames) = at /\ Len(at) = Len(frames)
  BY PlacesAre, PlacingTypes
<1>2. Places(doc, frames)[Len(frames)] = Final(at)
  BY <1>1 DEF Final
<1>3. ItemPlace(at, frames) + 0 = ItemPlace(at, frames)
  BY ItemPlaceTypes, DataTypes
<1> DEFINE place == Final(at).from + Before(Final(at).node, Final(frames).next)
           length == KeyLength(Final(at).node, Final(frames).next)
<1>4. Offset(frames, key) = place + (IF key THEN length ELSE 0)
  BY <1>2 DEF Offset, Final
<1>5. ItemPlace(at, frames) = place /\ TagOffset(at, frames) = place + length
  BY DEF TagOffset, ItemPlace
<1> HIDE DEF place, length
<1>6. CASE key
  BY <1>4, <1>5, <1>6
<1>7. CASE ~key
  BY <1>3, <1>4, <1>5, <1>7
<1> QED BY <1>6, <1>7

LEMMA ClientOffset ==
  ASSUME NEW frames, NEW key \in BOOLEAN, NEW tag, NEW p, Reading(doc),
         ClientAt(doc, frames, key, tag, p)
  PROVE  p = Offset(frames, key) + (IF tag = NoType THEN 0 ELSE 1)
<1>1. PICK at : Standing(doc, at, frames, key, tag, p)
  BY DEF ClientAt
<1>2. Placing(doc, at, frames)
  BY <1>1 DEF Standing
<1>3. /\ key => Offset(frames, key) = TagOffset(at, frames)
      /\ ~key => Offset(frames, key) = ItemPlace(at, frames)
  BY <1>2, Offsets
<1>4. ItemPlace(at, frames) \in Nat
  BY <1>2, ItemPlaceTypes, DataTypes
<1>5. CASE tag = NoType
  <2>1. CASE key
    <3>1. p = TagOffset(at, frames) /\ Final(frames).next <= Final(frames).size
      BY <1>1, <1>5, <2>1 DEF Standing
    <3>2. TagOffset(at, frames) \in Nat
      BY <1>2, <3>1, ItemProperties
    <3>3. Offset(frames, key) = TagOffset(at, frames)
      BY <1>3, <2>1
    <3> QED BY <1>5, <3>1, <3>2, <3>3
  <2>2. CASE ~key
    <3>1. p = ItemPlace(at, frames)
      BY <1>1, <1>5, <2>2 DEF Standing
    <3>2. Offset(frames, key) = ItemPlace(at, frames)
      BY <1>3, <2>2
    <3> QED BY <1>4, <1>5, <3>1, <3>2
  <2> QED BY <2>1, <2>2
<1>6. CASE tag # NoType
  <2>1. /\ Final(frames).next <= Final(frames).size /\ p = TagOffset(at, frames) + 1
        /\ Final(frames).keyed => key
    BY <1>1, <1>6 DEF Standing
  <2>2. /\ ~Final(frames).keyed => TagOffset(at, frames) = ItemPlace(at, frames)
        /\ TagOffset(at, frames) \in Nat
    BY <1>2, <2>1, ItemProperties
  <2>3. Offset(frames, key) = TagOffset(at, frames)
    BY <1>3, <1>4, <2>1, <2>2
  <2> QED BY <1>6, <2>1, <2>3
<1> QED BY <1>5, <1>6

LEMMA AlignedHolds == Inv => Aligned
<1> SUFFICES ASSUME Inv PROVE Aligned
  OBVIOUS
<1>1. Reading(doc) /\ named \in BOOLEAN
  BY DEF Inv
<1>2. CASE calls = <<>>
  <2>1. ClientAt(doc, open, named, type, position)
    BY <1>2, Resting
  <2>2. position = Offset(open, named) + (IF type = NoType THEN 0 ELSE 1)
    BY <1>1, <2>1, ClientOffset
  <2> QED BY <1>2, <2>2 DEF Aligned
<1>3. CASE calls # <<>>
  <2> DEFINE frames == Base \o calls
  <2>1. PICK at : Standing(doc, at, frames, FALSE, NoType, position)
    BY <1>3, Running DEF Spot, ClientAt
  <2>2. Placing(doc, at, frames) /\ position = ItemPlace(at, frames)
    BY <2>1 DEF Standing
  <2> HIDE DEF frames
  <2>3. ~FALSE => Offset(frames, FALSE) = ItemPlace(at, frames)
    BY <1>1, <2>2, Offsets
  <2>4. position = Offset(frames, FALSE)
    BY <2>2, <2>3
  <2>5. CASE job.does = "render"
    <3>1. frames = Start \o calls
      BY <2>5 DEF Base, frames
    <3> QED BY <1>3, <2>4, <2>5, <3>1 DEF Aligned
  <2>6. CASE job.does # "render"
    <3>1. frames = open \o calls
      BY <2>6 DEF Base, frames
    <3> QED BY <1>3, <2>4, <2>6, <3>1 DEF Aligned
  <2> QED BY <2>5, <2>6
<1> QED BY <1>2, <1>3

(* The cursor never leaves the document, whatever legal calls a client     *)
(* makes, and neither it nor the parser's own loops read more items of a   *)
(* container than its size says.                                           *)
THEOREM TypeCorrect == ReadsWhatIsWritten => (Spec => []TypeOK)
<1> SUFFICES ASSUME ReadsWhatIsWritten PROVE Spec => []TypeOK
  OBVIOUS
<1> QED BY Invariance, TypesHold, PTL

(* For every document: the position is always the byte where the item      *)
(* begins that the client, or the loop that is running, is at.             *)
THEOREM AlwaysAligned == ReadsWhatIsWritten => (Spec => []Aligned)
<1> SUFFICES ASSUME ReadsWhatIsWritten PROVE Spec => []Aligned
  OBVIOUS
<1> QED BY Invariance, AlignedHolds, PTL

(* For every document, toStringUTF8 ends at its last byte.                 *)
THEOREM RendersTheWhole == ReadsWhatIsWritten => (Spec => []WholeDocument)
<1> SUFFICES ASSUME ReadsWhatIsWritten PROVE Spec => []WholeDocument
  OBVIOUS
<1>1. Inv => WholeDocument
  BY DEF Inv
<1> QED BY Invariance, <1>1, PTL

-----------------------------------------------------------------------------
(* The walk over the tree that the cursor implements.                      *)

LocatedIn(tree, frames) ==
  [i \in DOMAIN frames |-> [node |-> Places(tree, frames)[i].node, next |-> frames[i].next]]

SavedIn(tree, places) ==
  [i \in DOMAIN places |->
     [open |-> LocatedIn(tree, places[i].open), named |-> places[i].named]]

Pairs(at, frames) ==
  [i \in 1..Len(frames) |-> [node |-> at[i].node, next |-> frames[i].next]]

LEMMA PairsLocated ==
  ASSUME NEW tree, NEW at, NEW frames, Placing(tree, at, frames)
  PROVE  LocatedIn(tree, frames) = Pairs(at, frames)
<1>1. frames \in Seq(FrameSet)
  BY DEF Placing
<1>2. DOMAIN frames = 1..Len(frames)
  BY <1>1
<1> QED BY <1>2, PlacesAre DEF LocatedIn, Pairs

LEMMA PairsOf ==
  ASSUME NEW tree, NEW at, NEW frames, Placing(tree, at, frames)
  PROVE  /\ LocatedIn(tree, frames) = Pairs(at, frames)
         /\ Len(Pairs(at, frames)) = Len(frames) /\ Len(frames) \in Nat \ {0}
         /\ Len(frames) \in 1..Len(frames)
         /\ Pairs(at, frames)[Len(frames)] =
              [node |-> Final(at).node, next |-> Final(frames).next]
<1>1. Len(frames) \in Nat \ {0} /\ Len(at) = Len(frames)
  BY PlacingTypes DEF Placing
<1>2. Len(frames) \in 1..Len(frames)
  BY <1>1
<1>3. Len(Pairs(at, frames)) = Len(frames)
  BY <1>1 DEF Pairs
<1>4. Pairs(at, frames)[Len(frames)] = [node |-> Final(at).node, next |-> Final(frames).next]
  BY <1>1, <1>2 DEF Pairs, Final
<1> QED BY <1>1, <1>2, <1>3, <1>4, PairsLocated

LEMMA PairsBeyond ==
  ASSUME NEW tree, NEW at, NEW frames, Placing(tree, at, frames),
         Final(frames).next <= Final(frames).size
  PROVE  Pairs(at, Beyond(frames)) = Tree!Beyond(Pairs(at, frames))
<1> DEFINE pairs == Pairs(at, frames)
           next == Beyond(frames)
           n == Len(frames)
           a == Pairs(at, next)
           b == [pairs EXCEPT ![Len(pairs)].next = @ + 1]
<1>1. /\ n \in Nat \ {0} /\ Len(pairs) = n /\ n \in 1..n
      /\ pairs[n] = [node |-> Final(at).node, next |-> Final(frames).next]
  BY PairsOf
<1>2. /\ Len(next) = n /\ Final(frames) \in FrameSet
      /\ Final(next) = [Final(frames) EXCEPT !.next = Final(frames).next + 1]
      /\ \A i \in 1..(n - 1) : next[i] = frames[i]
  BY PlacingBeyond, PlacingTypes
<1>3. next[n].next = frames[n].next + 1
  BY <1>2 DEF Final, FrameSet
<1>4. pairs[n].next = frames[n].next
  BY <1>1 DEF Final
<1> HIDE DEF next
<1>5. a = [i \in 1..n |-> [node |-> at[i].node, next |-> next[i].next]]
  BY <1>2 DEF Pairs
<1>6. pairs = [i \in 1..n |-> [node |-> at[i].node, next |-> frames[i].next]]
  BY DEF Pairs
<1>7. b = [pairs EXCEPT ![n] = [pairs[n] EXCEPT !.next = pairs[n].next + 1]]
  BY <1>1
<1> HIDE DEF a, b, pairs
<1>8. DOMAIN b = 1..n
  BY <1>6, <1>7
<1>9. ASSUME NEW i \in 1..n PROVE a[i] = b[i]
  <2>1. CASE i = n
    <3>1. b[n] = [node |-> at[n].node, next |-> frames[n].next + 1]
      BY <1>1, <1>4, <1>6, <1>7
    <3> QED BY <2>1, <3>1, <1>3, <1>5
  <2>2. CASE i # n
    <3>1. next[i] = frames[i]
      BY <1>1, <1>2, <2>2
    <3> QED BY <2>2, <3>1, <1>5, <1>6, <1>7
  <2> QED BY <2>1, <2>2
<1>10. a = b
  <2>1. b = [i \in 1..n |-> b[i]]
    BY <1>7, <1>8
  <2>2. a = [i \in 1..n |-> a[i]]
    BY <1>5
  <2> QED BY <2>1, <2>2, <1>9
<1>11. b = Tree!Beyond(pairs)
  BY DEF b, Tree!Beyond
<1> QED BY <1>10, <1>11 DEF a, pairs, next

LEMMA PairsInto ==
  ASSUME NEW at, NEW frames, Len(frames) \in Nat, Len(at) = Len(frames),
         frames \in Seq(FrameSet), at \in Seq(PlaceSet),
         NEW place \in PlaceSet, NEW f \in FrameSet
  PROVE  Pairs(Append(at, place), Append(frames, f)) =
           Append(Pairs(at, frames), [node |-> place.node, next |-> f.next])
<1> DEFINE n == Len(frames)
           fs == Append(frames, f)
           as == Append(at, place)
           pairs == Pairs(at, frames)
           x == [node |-> place.node, next |-> f.next]
           a == Pairs(as, fs)
           b == Append(pairs, x)
<1>1. Len(fs) = n + 1 /\ fs[n + 1] = f /\ \A i \in 1..n : fs[i] = frames[i]
  OBVIOUS
<1>2. as[n + 1] = place /\ \A i \in 1..n : as[i] = at[i]
  OBVIOUS
<1> HIDE DEF fs, as
<1>3. a = [i \in 1..(n + 1) |-> [node |-> as[i].node, next |-> fs[i].next]]
  BY <1>1 DEF Pairs
<1>4. pairs = [i \in 1..n |-> [node |-> at[i].node, next |-> frames[i].next]]
  BY DEF Pairs
<1> DEFINE PairSet == [node : Nodes, next : Nat]
<1>5. pairs \in Seq(PairSet) /\ Len(pairs) = n /\ x \in PairSet
  <2>1. \A i \in 1..n : at[i] \in PlaceSet /\ frames[i] \in FrameSet
    BY ElementOfSeq
  <2>2. pairs \in [1..n -> PairSet]
    BY <2>1, <1>4 DEF PlaceSet, FrameSet
  <2>3. x \in PairSet
    BY DEF PlaceSet, FrameSet
  <2> HIDE DEF pairs, PairSet, x
  <2> QED BY <2>2, <2>3
<1> HIDE DEF pairs, x, PairSet
<1>6. b = [i \in 1..(n + 1) |-> IF i = n + 1 THEN x ELSE pairs[i]]
  <2>1. b \in Seq(PairSet) /\ Len(b) = n + 1 /\ b[n + 1] = x
    BY <1>5, AppendProperties
  <2>2. \A i \in 1..n : b[i] = pairs[i]
    BY <1>5, AppendProperties
  <2> HIDE DEF b
  <2>3. b = [i \in 1..(n + 1) |-> b[i]]
    BY <2>1
  <2>4. \A i \in 1..(n + 1) : b[i] = IF i = n + 1 THEN x ELSE pairs[i]
    BY <2>1, <2>2
  <2> QED BY <2>3, <2>4
<1> HIDE DEF a, b
<1>7. ASSUME NEW i \in 1..(n + 1) PROVE a[i] = b[i]
  <2>1. CASE i = n + 1
    BY <1>1, <1>2, <1>3, <1>6, <2>1 DEF x
  <2>2. CASE i # n + 1
    <3>1. i \in 1..n BY <2>2
    <3>2. b[i] = pairs[i] BY <1>6, <2>2
    <3>3. pairs[i] = [node |-> at[i].node, next |-> frames[i].next] BY <1>4, <3>1
    <3>4. a[i] = [node |-> as[i].node, next |-> fs[i].next] BY <1>3
    <3>5. as[i] = at[i] /\ fs[i] = frames[i] BY <1>1, <1>2, <3>1
    <3> QED BY <3>2, <3>3, <3>4, <3>5
  <2> QED BY <2>1, <2>2
<1>8. a = [i \in 1..(n + 1) |-> a[i]] /\ b = [i \in 1..(n + 1) |-> b[i]]
  BY <1>3, <1>6
<1>9. a = b
  BY <1>7, <1>8
<1> QED BY <1>9 DEF a, b, fs, as, pairs, x

LEMMA PairsOuter ==
  ASSUME NEW tree, NEW at, NEW frames, Placing(tree, at, frames), Len(frames) > 1
  PROVE  LET pairs == Pairs(at, frames)
         IN  Pairs(Outer(at), Outer(frames)) = SubSeq(pairs, 1, Len(pairs) - 1)
<1> DEFINE n == Len(frames)
           fs == Outer(frames)
           as == Outer(at)
           pairs == Pairs(at, frames)
           a == Pairs(as, fs)
           b == SubSeq(pairs, 1, Len(pairs) - 1)
<1>1. n \in Nat \ {0} /\ Len(pairs) = n
  <2> HIDE DEF n, pairs
  <2>1. Len(frames) \in Nat \ {0}
    BY PlacingTypes
  <2>2. Len(Pairs(at, frames)) = Len(frames)
    BY <2>1 DEF Pairs
  <2> QED BY <2>1, <2>2 DEF n, pairs
<1>2. Len(fs) = n - 1 /\ \A i \in 1..(n - 1) : fs[i] = frames[i] /\ as[i] = at[i]
  <2>1. Len(Outer(frames)) = Len(frames) - 1
    BY PlacingOuter
  <2>2. ASSUME NEW i \in 1..(Len(frames) - 1)
        PROVE  Outer(frames)[i] = frames[i] /\ Outer(at)[i] = at[i]
    <3>1. frames \in Seq(FrameSet) /\ at \in Seq(PlaceSet) /\ Len(at) = n /\ n \in Nat
      BY <1>1 DEF Placing
    <3>2. n - 1 \in 0..n /\ 1 \in 1..n
      BY <1>1
    <3>3. Outer(frames)[i] = frames[i]
      BY <3>1, <3>2, SubSeqProperties DEF Outer
    <3>4. Outer(at)[i] = at[i]
      BY <3>1, <3>2, SubSeqProperties DEF Outer
    <3> QED BY <3>3, <3>4
  <2> QED BY <2>1, <2>2
<1> HIDE DEF fs, as
<1>3. a = [i \in 1..(n - 1) |-> [node |-> as[i].node, next |-> fs[i].next]]
  BY <1>2 DEF Pairs
<1>4. pairs = [i \in 1..n |-> [node |-> at[i].node, next |-> frames[i].next]]
  BY DEF Pairs
<1> HIDE DEF pairs
<1>5. b = [i \in 1..(n - 1) |-> pairs[i]]
  <2>1. b = SubSeq(pairs, 1, n - 1)
    BY <1>1
  <2>2. SubSeq(pairs, 1, n - 1) = [i \in 1..((n - 1) - 1 + 1) |-> pairs[(i + 1) - 1]]
    BY <1>1, <1>4
  <2>3. (n - 1) - 1 + 1 = n - 1 /\ \A i \in 1..(n - 1) : (i + 1) - 1 = i
    BY <1>1
  <2> QED BY <2>1, <2>2, <2>3
<1> HIDE DEF a, b
<1>6. ASSUME NEW i \in 1..(n - 1) PROVE a[i] = b[i]
  <2>1. i \in 1..n BY <1>1
  <2>2. b[i] = pairs[i] BY <1>5
  <2>3. pairs[i] = [node |-> at[i].node, next |-> frames[i].next] BY <1>4, <2>1
  <2>4. a[i] = [node |-> as[i].node, next |-> fs[i].next] BY <1>3
  <2> QED BY <1>2, <2>2, <2>3, <2>4
<1>7. a = [i \in 1..(n - 1) |-> a[i]] /\ b = [i \in 1..(n - 1) |-> b[i]]
  BY <1>3, <1>5
<1>8. a = b
  BY <1>6, <1>7
<1> QED BY <1>8 DEF a, b, fs, as, pairs

LEMMA TreeState ==
  /\ Located(open) = LocatedIn(doc, open)
  /\ [i \in DOMAIN saved |->
        [open |-> Located(saved[i].open), named |-> saved[i].named]] = SavedIn(doc, saved)
  /\ Located(open)' = LocatedIn(doc', open')
  /\ [i \in DOMAIN saved |->
        [open |-> Located(saved[i].open), named |-> saved[i].named]]' = SavedIn(doc', saved')
BY DEF Located, LocatedIn, SavedIn

LEMMA TreeNames ==
  /\ Tree!NoType = NoType /\ Tree!MapType = MapType /\ Tree!Containers = Containers
  /\ \A tree : Tree!Root(tree) = Root(tree)
BY DEF Tree!NoType, NoType, Tree!MapType, MapType, Tree!ArrayType, ArrayType,
       Tree!Containers, Containers, Tree!Root, Root

(* The walk is at the item that the client is at. *)
LEMMA TreeAt ==
  ASSUME NEW at, Placing(doc, at, open)
  PROVE  /\ LocatedIn(doc, open) = Pairs(at, open)
         /\ Tree!Top = [node |-> Final(at).node, next |-> Final(open).next]
         /\ (Tree!Top.node.tag = Tree!MapType) = Final(open).keyed
         /\ Len(Tree!Top.node.items) = Final(open).size
         /\ Tree!Top.next = Final(open).next
         /\ Tree!Item = Final(at).node.items[Final(open).next]
         /\ Tree!Item.val = ItemNode(at, open)
<1>1. /\ LocatedIn(doc, open) = Pairs(at, open)
      /\ Len(Pairs(at, open)) = Len(open)
      /\ Pairs(at, open)[Len(open)] = [node |-> Final(at).node, next |-> Final(open).next]
  BY PairsOf
<1>2. Tree!Top = [node |-> Final(at).node, next |-> Final(open).next]
  BY <1>1, TreeState DEF Tree!Top
<1>3. Stands(Final(open), Final(at).node)
  BY PlacingTypes
<1>4. (Tree!Top.node.tag = Tree!MapType) = Final(open).keyed
  BY <1>2, <1>3, TreeNames DEF Stands
<1>5. Len(Tree!Top.node.items) = Final(open).size /\ Tree!Top.next = Final(open).next
  BY <1>2, <1>3 DEF Stands
<1>6. Tree!Item = Final(at).node.items[Final(open).next]
  BY <1>2 DEF Tree!Item
<1> QED BY <1>1, <1>2, <1>4, <1>5, <1>6 DEF ItemNode

LEMMA TreeKept ==
  /\ doc' = doc /\ open' = open => LocatedIn(doc', open') = LocatedIn(doc, open)
  /\ doc' = doc /\ saved' = saved => SavedIn(doc', saved') = SavedIn(doc, saved)
OBVIOUS

(* A step that the walk does not see. *)
LEMMA TreeStutter ==
  ASSUME doc' = doc, UNCHANGED <<client, saved, heard>>
  PROVE  UNCHANGED Tree!vars
<1>1. LocatedIn(doc', open') = LocatedIn(doc, open) /\ SavedIn(doc', saved') = SavedIn(doc, saved)
  BY TreeKept DEF client
<1> QED BY <1>1, TreeState DEF Tree!vars, client

(* A value is passed. *)
LEMMA TreePass ==
  ASSUME Reading(doc), NEW q, ClientAt(doc, open, named, type, q), type # NoType,
         NEW p, NEW what, Done(p, what)
  PROVE  Tree!Pass(what)
<1>1. PICK at : Standing(doc, at, open, named, type, q)
  BY DEF ClientAt
<1>2. Placing(doc, at, open) /\ Final(open).next <= Final(open).size
  BY <1>1 DEF Standing
<1>3. /\ doc' = doc /\ saved' = saved /\ heard' = what
      /\ open' = Beyond(open) /\ type' = NoType /\ named' = FALSE
  BY DEF Done
<1>4. Placing(doc, at, Beyond(open))
  BY <1>2, PlacingBeyond
<1>5. LocatedIn(doc, Beyond(open)) = Pairs(at, Beyond(open)) /\ LocatedIn(doc, open) = Pairs(at, open)
  BY <1>2, <1>4, PairsLocated
<1>6. Pairs(at, Beyond(open)) = Tree!Beyond(Pairs(at, open))
  BY <1>2, PairsBeyond
<1>7. LocatedIn(doc', open') = Tree!Beyond(Located(open))
  BY <1>3, <1>5, <1>6, TreeState
<1>8. SavedIn(doc', saved') = SavedIn(doc, saved)
  BY <1>3
<1> QED BY <1>3, <1>7, <1>8, TreeState, TreeNames DEF Tree!Pass

LEMMA TreeInitially == Init => Tree!Init
<1> SUFFICES ASSUME Init PROVE Tree!Init
  OBVIOUS
<1>1. Reading(doc) /\ open = Start
  BY DEF Init, Reading
<1> DEFINE at == <<RootPlace(doc)>>
<1>2. Placing(doc, at, Start) /\ Len(Start) = 1 /\ Start[1].next = 1
  BY <1>1, AtStart
<1>3. LocatedIn(doc, Start) = Pairs(at, Start)
  BY <1>2, PairsLocated
<1>4. Pairs(at, Start) = <<[node |-> Root(doc), next |-> 1]>>
  BY <1>2 DEF Pairs, RootPlace
<1>5. SavedIn(doc, <<>>) = <<>>
  BY DEF SavedIn
<1> QED BY <1>1, <1>3, <1>4, <1>5, TreeState, TreeNames DEF Init, Tree!Init, Tree!NoCall

(* The calls that read a leaf, or that skip one. *)
LEMMA TreeLeaf ==
  ASSUME Inv, calls = <<>>, type # NoType, type \notin Containers,
         NEW float, DoneAtOnce(LeafEnd(position, type, float), Value(Content(position, type)))
  PROVE  Tree!Value
<1>1. Reading(doc) /\ ClientAt(doc, open, named, type, position)
  BY Resting
<1>2. Tree!Pass(Value(Content(position, type)))
  BY <1>1, TreePass DEF DoneAtOnce
<1>3. PICK at : Standing(doc, at, open, named, type, position)
  BY <1>1 DEF ClientAt
<1>4. /\ Placing(doc, at, open) /\ Final(open).next <= Final(open).size
      /\ type = ItemNode(at, open).tag /\ position = TagOffset(at, open) + 1
  BY <1>3 DEF Standing
<1> DEFINE node == ItemNode(at, open)
           p == TagOffset(at, open)
<1>5. node \in Nodes /\ p \in Nat /\ Sits(data, Encode(node), p) /\ Len(data) \in Nat
  BY <1>1, <1>4, ItemProperties, DataTypes
<1>6. node.tag \notin Containers \cup {NoType}
  BY <1>4
<1> HIDE DEF node, p
<1>7. Content(p + 1, node.tag) = node.payload
  BY <1>5, <1>6, ContentSits
<1>8. Content(position, type) = Tree!Item.val.payload
  BY <1>4, <1>7, TreeAt DEF node, p
<1> QED BY <1>2, <1>8 DEF Tree!Value, Value

LEMMA TreeSkipped ==
  ASSUME Inv, calls = <<>>, type # NoType, NEW p, DoneAtOnce(p, Skip)
  PROVE  Tree!Skip
BY Resting, TreePass DEF DoneAtOnce, Tree!Skip, Skip

LEMMA TreeGone ==
  ASSUME NEW p, NEW tag, NEW does, GoThrough(p, tag, does)
  PROVE  UNCHANGED Tree!vars
BY TreeStutter DEF GoThrough

LEMMA TreeSkipValue ==
  ASSUME Inv, calls = <<>>, SkipValue
  PROVE  Tree!Skip \/ UNCHANGED Tree!vars
<1>1. CASE type \in Containers
  BY <1>1, TreeGone DEF SkipValue
<1>2. CASE type \notin Containers
  BY <1>2, TreeSkipped DEF SkipValue
<1> QED BY <1>1, <1>2

LEMMA TreeNextString ==
  ASSUME Inv, calls = <<>>, NextString
  PROVE  Tree!Value \/ UNCHANGED Tree!vars
<1>1. CASE type \in Containers
  BY <1>1, TreeGone DEF NextString
<1>2. CASE type \notin Containers
  BY <1>2, TreeLeaf DEF NextString
<1> QED BY <1>1, <1>2

LEMMA TreeNextNumber ==
  ASSUME Inv, ReadsWhatIsWritten, calls = <<>>, NextNumber
  PROVE  Tree!Value \/ Tree!Skip \/ UNCHANGED Tree!vars
<1>1. CASE type \in Containers
  BY <1>1, NumberCases, TreeSkipValue
<1>2. CASE type \notin Containers
  BY <1>2, NumberCases, TreeLeaf
<1> QED BY <1>1, <1>2

LEMMA TreeNextBool ==
  ASSUME Inv, calls = <<>>, NextBool
  PROVE  Tree!Skip \/ UNCHANGED Tree!vars
<1>1. CASE type \in {BooleanFalse, NullType}
  BY <1>1, TreeSkipped DEF NextBool
<1>2. CASE type \notin {BooleanFalse, NullType}
  BY <1>2, TreeSkipValue DEF NextBool
<1> QED BY <1>1, <1>2

LEMMA TreeToString ==
  ASSUME ToStringUTF8
  PROVE  UNCHANGED Tree!vars
<1>1. CASE At(0) \in Containers
  BY <1>1, TreeGone DEF ToStringUTF8
<1>2. CASE At(0) \notin Containers
  <2>1. UNCHANGED <<doc, client, saved, heard>>
    BY <1>2 DEF ToStringUTF8
  <2> QED BY <2>1, TreeStutter
<1> QED BY <1>1, <1>2

LEMMA TreeNextType ==
  ASSUME Inv, calls = <<>>, NextType
  PROVE  Tree!Type
<1>1. /\ doc' = doc /\ open' = open /\ named' = named /\ saved' = saved /\ heard' = heard
      /\ type = NoType /\ Final(open).next <= Final(open).size
      /\ Final(open).keyed => named
  BY Resting DEF NextType, AtItem
<1>2. type' = At(position) /\ type' # NoType
  BY NextTypeStep
<1>3. PICK at : Standing(doc, at, open, named, type, position)
  BY Resting DEF ClientAt
<1>4. Placing(doc, at, open)
  BY <1>3 DEF Standing
<1>5. position = TagOffset(at, open)
  <2>1. CASE named
    BY <1>1, <1>3, <2>1 DEF Standing
  <2>2. CASE ~named
    <3>1. position = ItemPlace(at, open)
      BY <1>1, <1>3, <2>2 DEF Standing
    <3>2. ~Final(open).keyed => TagOffset(at, open) = ItemPlace(at, open)
      BY <1>1, <1>4, Resting, ItemProperties
    <3> QED BY <1>1, <2>2, <3>1, <3>2
  <2> QED BY <2>1, <2>2
<1>6. At(position) = ItemNode(at, open).tag
  BY <1>1, <1>4, <1>5, Resting, ItemTag
<1>7. type' = Tree!Item.val.tag
  BY <1>2, <1>4, <1>6, TreeAt
<1>8. /\ Tree!Top.next <= Len(Tree!Top.node.items)
      /\ Tree!Top.node.tag = Tree!MapType => named
  BY <1>1, <1>4, TreeAt
<1>9. LocatedIn(doc', open') = LocatedIn(doc, open) /\ SavedIn(doc', saved') = SavedIn(doc, saved)
  BY <1>1
<1> QED BY <1>1, <1>7, <1>8, <1>9, TreeState, TreeNames DEF Tree!Type, Tree!AtItem

LEMMA TreeBackType ==
  ASSUME BackType
  PROVE  Tree!Back
<1>1. /\ doc' = doc /\ open' = open /\ named' = named /\ saved' = saved /\ heard' = heard
      /\ type # NoType /\ type' = NoType
  BY DEF BackType
<1>2. LocatedIn(doc', open') = LocatedIn(doc, open) /\ SavedIn(doc', saved') = SavedIn(doc, saved)
  BY <1>1
<1> QED BY <1>1, <1>2, TreeState, TreeNames DEF Tree!Back

LEMMA TreeNextMapKey ==
  ASSUME Inv, calls = <<>>, NextMapKey
  PROVE  Tree!Key
<1>1. /\ doc' = doc /\ open' = open /\ named' = TRUE /\ ~named /\ saved' = saved
      /\ type = NoType /\ type' = NoType
      /\ heard' = [call |-> "key", bytes |-> Bytes(UintEnd(position), UintAt(position))]
      /\ Final(open).keyed /\ Final(open).next <= Final(open).size
  BY Resting DEF NextMapKey, AtItem
<1>2. PICK at : Standing(doc, at, open, named, type, position)
  BY Resting DEF ClientAt
<1>3. Placing(doc, at, open) /\ position = ItemPlace(at, open)
  BY <1>1, <1>2 DEF Standing
<1>4. Bytes(UintEnd(position), UintAt(position)) = Final(at).node.items[Final(open).next].key
  BY <1>1, <1>3, Resting, ItemKey
<1>5. heard' = [call |-> "key", bytes |-> Tree!Item.key]
  BY <1>1, <1>3, <1>4, TreeAt
<1>6. Tree!Top.next <= Len(Tree!Top.node.items) /\ Tree!Top.node.tag = Tree!MapType
  BY <1>1, <1>3, TreeAt
<1>7. LocatedIn(doc', open') = LocatedIn(doc, open) /\ SavedIn(doc', saved') = SavedIn(doc, saved)
  BY <1>1
<1> QED BY <1>1, <1>5, <1>6, <1>7, TreeState, TreeNames DEF Tree!Key, Tree!AtItem

LEMMA TreeNextSize ==
  ASSUME Inv, calls = <<>>, NextSize
  PROVE  Tree!Enter
<1> DEFINE f == Frame(position, type)
<1>1. /\ doc' = doc /\ open' = Append(open, f) /\ named' = FALSE /\ saved' = saved
      /\ type \in Containers /\ type' = NoType /\ heard' = heard
  BY DEF NextSize
<1>2. type # NoType
  BY <1>1 DEF Containers, MapType, ArrayType, NoType
<1>3. PICK at : Standing(doc, at, open, named, type, position)
  BY Resting DEF ClientAt
<1>4. /\ Placing(doc, at, open) /\ Final(open).next <= Final(open).size
      /\ type = ItemNode(at, open).tag /\ position = TagOffset(at, open) + 1
  BY <1>2, <1>3 DEF Standing
<1> DEFINE place == ValuePlace(Final(at), Final(open).next)
           as == Append(at, place)
           fs == Append(open, f)
<1>5. Placing(doc, as, fs) /\ Final(as).node = ItemNode(at, open) /\ Final(fs) = f
  BY <1>1, <1>4, Resting, ItemInto
<1>6. f.next = 1 /\ place.node = ItemNode(at, open)
  BY DEF Frame, ValuePlace, ItemNode
<1>7. /\ Len(open) \in Nat /\ Len(at) = Len(open) /\ open \in Seq(FrameSet) /\ at \in Seq(PlaceSet)
  BY <1>4, PlacingTypes DEF Placing
<1>8. place \in PlaceSet /\ f \in FrameSet
  <2>1. Final(fs) \in FrameSet
    BY <1>5, PlacingTypes
  <2>2. Len(as) = Len(at) + 1 /\ as[Len(at) + 1] = place /\ Len(at) \in Nat
    BY <1>7
  <2>3. as \in Seq(PlaceSet)
    BY <1>5 DEF Placing
  <2>4. Len(at) + 1 \in 1..Len(as)
    BY <2>2
  <2> HIDE DEF as, place
  <2>5. place \in PlaceSet
    BY <2>2, <2>3, <2>4, ElementOfSeq
  <2> QED BY <1>5, <2>1, <2>5
<1> HIDE DEF place, f
<1>9. Pairs(as, fs) = Append(Pairs(at, open), [node |-> ItemNode(at, open), next |-> 1])
  BY <1>6, <1>7, <1>8, PairsInto
<1>10. LocatedIn(doc, fs) = Pairs(as, fs)
  BY <1>5, PairsLocated
<1>11. LocatedIn(doc', open') =
         Append(LocatedIn(doc, open), [node |-> Tree!Item.val, next |-> 1])
  BY <1>1, <1>4, <1>9, <1>10, TreeAt
<1>12. SavedIn(doc', saved') = SavedIn(doc, saved)
  BY <1>1
<1> QED BY <1>1, <1>11, <1>12, TreeState, TreeNames DEF Tree!Enter

LEMMA TreeLeave ==
  ASSUME Inv, calls = <<>>, Leave
  PROVE  Tree!Leave
<1> DEFINE fs == Outer(open)
<1>1. /\ doc' = doc /\ open' = Beyond(fs) /\ named' = named /\ saved' = saved
      /\ type = NoType /\ type' = NoType /\ heard' = heard
      /\ Len(open) > 1 /\ Final(open).next > Final(open).size
  BY Resting DEF Leave
<1>2. PICK at : Standing(doc, at, open, named, type, position)
  BY Resting DEF ClientAt
<1>3. Placing(doc, at, open)
  BY <1>2 DEF Standing
<1> DEFINE as == Outer(at)
<1>4. Placing(doc, as, fs) /\ Final(fs).next <= Final(fs).size
  BY <1>1, <1>3, PlacingOuter
<1>5. Pairs(as, fs) = SubSeq(Pairs(at, open), 1, Len(Pairs(at, open)) - 1)
  BY <1>1, <1>3, PairsOuter
<1> HIDE DEF fs, as
<1>6. LocatedIn(doc, open) = Pairs(at, open) /\ Len(Pairs(at, open)) = Len(open)
  <2>1. LocatedIn(doc, open) = Pairs(at, open)
    BY <1>3, PairsLocated
  <2>2. Len(open) \in Nat
    BY Resting
  <2>3. Len(Pairs(at, open)) = Len(open)
    BY <2>2 DEF Pairs
  <2> QED BY <2>1, <2>3
<1> DEFINE pairs == Pairs(as, fs)
<1>7. Pairs(as, Beyond(fs)) = Tree!Beyond(pairs)
  BY <1>4, PairsBeyond
<1>8. Placing(doc, as, Beyond(fs))
  BY <1>4, PlacingBeyond
<1>9. LocatedIn(doc, Beyond(fs)) = Pairs(as, Beyond(fs))
  BY <1>8, PairsLocated
<1>10. pairs = SubSeq(Located(open), 1, Len(Located(open)) - 1) /\ Len(Located(open)) > 1
  BY <1>1, <1>5, <1>6, TreeState
<1> HIDE DEF pairs
<1>11. LocatedIn(doc', open') = Tree!Beyond(pairs)
  BY <1>1, <1>7, <1>9 DEF pairs
<1>12. SavedIn(doc', saved') = SavedIn(doc, saved)
  BY <1>1
<1>13. Tree!Top.next > Len(Tree!Top.node.items)
  BY <1>1, <1>3, TreeAt
<1> QED BY <1>1, <1>10, <1>11, <1>12, <1>13, TreeState, TreeNames DEF Tree!Leave

LEMMA TreeSaved ==
  ASSUME NEW tree, NEW place
  PROVE  SavedIn(tree, <<place>>) =
           <<[open |-> LocatedIn(tree, place.open), named |-> place.named]>>
BY DEF SavedIn

LEMMA TreeGetState ==
  ASSUME GetState
  PROVE  Tree!Save
<1> DEFINE place == [position |-> position, open |-> open, named |-> named]
<1>1. /\ doc' = doc /\ open' = open /\ named' = named /\ type' = type /\ type = NoType
      /\ heard' = heard /\ saved' = <<place>>
  BY DEF GetState, client
<1>2. place.open = open /\ place.named = named
  OBVIOUS
<1> HIDE DEF place
<1>3. SavedIn(doc', saved') = <<[open |-> LocatedIn(doc, open), named |-> named]>>
  BY <1>1, <1>2, TreeSaved
<1>4. LocatedIn(doc', open') = LocatedIn(doc, open)
  BY <1>1
<1> QED BY <1>1, <1>3, <1>4, TreeState, TreeNames DEF Tree!Save

LEMMA TreeRestoreToState ==
  ASSUME Inv, RestoreToState
  PROVE  Tree!Restore
<1> DEFINE place == saved[1]
<1>1. /\ doc' = doc /\ open' = place.open /\ named' = place.named /\ type' = NoType
      /\ heard' = heard /\ saved' = saved /\ saved # <<>>
  BY DEF RestoreToState
<1>2. saved = <<place>>
  BY <1>1 DEF Inv, SavedInv
<1> HIDE DEF place
<1>3. SavedIn(doc, saved) = <<[open |-> LocatedIn(doc, place.open), named |-> place.named]>>
  BY <1>2, TreeSaved
<1>4. /\ SavedIn(doc, saved) # <<>> /\ SavedIn(doc, saved)[1].named = place.named
      /\ SavedIn(doc, saved)[1].open = LocatedIn(doc, place.open)
  BY <1>3
<1>5. LocatedIn(doc', open') = LocatedIn(doc, place.open) /\ SavedIn(doc', saved') = SavedIn(doc, saved)
  BY <1>1
<1> QED BY <1>1, <1>4, <1>5, TreeState, TreeNames DEF Tree!Restore, Tree!GoTo

LEMMA TreeResetState ==
  ASSUME Inv, calls = <<>>, ResetState
  PROVE  Tree!Reset
<1>1. /\ doc' = doc /\ open' = Start /\ named' = FALSE /\ type' = NoType
      /\ heard' = heard /\ saved' = saved
  BY DEF ResetState
<1> DEFINE at == <<RootPlace(doc)>>
<1>2. Placing(doc, at, Start) /\ Len(Start) = 1 /\ Start[1].next = 1
  BY Resting, AtStart
<1>3. LocatedIn(doc, Start) = Pairs(at, Start)
  BY <1>2, PairsLocated
<1>4. Pairs(at, Start) = <<[node |-> Root(doc), next |-> 1]>>
  BY <1>2 DEF Pairs, RootPlace
<1>5. LocatedIn(doc', open') = <<[node |-> Root(doc), next |-> 1]>>
  BY <1>1, <1>3, <1>4
<1>6. SavedIn(doc', saved') = SavedIn(doc, saved)
  BY <1>1
<1> QED BY <1>1, <1>5, <1>6, TreeState, TreeNames DEF Tree!Reset, Tree!GoTo

(* Only the return to the client is seen of skipValue and toJSONtring. *)
LEMMA TreeReturn ==
  ASSUME Inv, Return
  PROVE  Tree!Value \/ Tree!Skip \/ UNCHANGED Tree!vars
<1>1. /\ calls # <<>>
      /\ job.does = "string" => Done(position, Value(<<>>))
      /\ job.does = "skip" => Done(position, Skip)
      /\ job.does = "render" => UNCHANGED <<doc, client, saved, heard>>
  BY Returned
<1>2. /\ Reading(doc) /\ ClientAt(doc, open, named, type, job.back)
      /\ job.does \in {"string", "skip", "render"}
      /\ job.does # "render" => type # NoType
      /\ job.does = "string" => type \in Containers
  BY <1>1, Running DEF CallInv
<1>3. CASE job.does = "render"
  BY <1>1, <1>3, TreeStutter
<1>4. CASE job.does = "skip"
  <2>1. Tree!Pass(Skip)
    BY <1>1, <1>2, <1>4, TreePass
  <2> QED BY <2>1 DEF Tree!Skip, Skip
<1>5. CASE job.does = "string"
  <2>1. type # NoType /\ type \in Containers
    BY <1>2, <1>5
  <2>2. Tree!Pass(Value(<<>>))
    BY <1>1, <1>2, <1>5, <2>1, TreePass
  <2>3. PICK at : Standing(doc, at, open, named, type, job.back)
    BY <1>2 DEF ClientAt
  <2>4. Placing(doc, at, open) /\ type = ItemNode(at, open).tag /\ Final(open).next <= Final(open).size
    BY <2>1, <2>3 DEF Standing
  <2> DEFINE node == ItemNode(at, open)
  <2>5. node \in Nodes /\ WellMade(node)
    BY <1>2, <2>4, ItemProperties, NodeTypes
  <2>6. node.payload = <<>>
    <3>1. node.tag \notin Sized \cup {IntType, FloatType, DoubleType, LongType}
      BY <2>1, <2>4 DEF Containers, Sized, MapType, ArrayType, StringType, Uint8String,
         BigIntType, BigDecimalType, IntType, FloatType, DoubleType, LongType
    <3> HIDE DEF node
    <3> QED BY <2>5, <3>1, Payloads
  <2>7. Tree!Item.val.payload = <<>>
    BY <2>4, <2>6, TreeAt
  <2> QED BY <2>2, <2>7 DEF Tree!Value, Value
<1> QED BY <1>2, <1>3, <1>4, <1>5

LEMMA TreeSteps ==
  ASSUME ReadsWhatIsWritten, Inv, [Next]_vars
  PROVE  [Tree!Next]_(Tree!vars)
<1>1. CASE calls = <<>> /\ ClientCall
  <2>1. CASE NextType       BY <1>1, <2>1, TreeNextType DEF Tree!Next
  <2>2. CASE BackType       BY <1>1, <2>2, TreeBackType DEF Tree!Next
  <2>3. CASE NextMapKey     BY <1>1, <2>3, TreeNextMapKey DEF Tree!Next
  <2>4. CASE NextSize       BY <1>1, <2>4, TreeNextSize DEF Tree!Next
  <2>5. CASE Leave          BY <1>1, <2>5, TreeLeave DEF Tree!Next
  <2>6. CASE NextString     BY <1>1, <2>6, TreeNextString DEF Tree!Next
  <2>7. CASE NextNumber     BY <1>1, <2>7, TreeNextNumber DEF Tree!Next
  <2>8. CASE NextBool       BY <1>1, <2>8, TreeNextBool DEF Tree!Next
  <2>9. CASE SkipValue      BY <1>1, <2>9, TreeSkipValue DEF Tree!Next
  <2>10. CASE ToStringUTF8  BY <1>1, <2>10, TreeToString
  <2>11. CASE GetState      BY <1>1, <2>11, TreeGetState DEF Tree!Next
  <2>12. CASE RestoreToState BY <1>1, <2>12, TreeRestoreToState DEF Tree!Next
  <2>13. CASE ResetState    BY <1>1, <2>13, TreeResetState DEF Tree!Next
  <2> QED BY <1>1, <2>1, <2>2, <2>3, <2>4, <2>5, <2>6, <2>7, <2>8, <2>9, <2>10,
             <2>11, <2>12, <2>13 DEF ClientCall
<1>2. CASE PassItem \/ CallItem \/ ReturnItem
  <2>1. UNCHANGED <<doc, client, saved, heard>>
    BY <1>2 DEF PassItem, CallItem, ReturnItem
  <2> QED BY <2>1, TreeStutter
<1>3. CASE Return
  BY <1>3, TreeReturn DEF Tree!Next
<1>4. CASE UNCHANGED vars
  BY <1>4, TreeStutter DEF vars
<1> QED BY <1>1, <1>2, <1>3, <1>4 DEF Next

(* The cursor over the bytes of any document implements the walk over its  *)
(* tree: each tag, size, key and value a client gets is that of the item   *)
(* it is at, and going through a container, at any depth, is one step.     *)
THEOREM Refinement == ReadsWhatIsWritten => (Spec => WalksTheTree)
<1> SUFFICES ASSUME ReadsWhatIsWritten PROVE Spec => Tree!Spec
  BY DEF WalksTheTree
<1>1. Init => Tree!Init
  BY TreeInitially
<1>2. Inv /\ [Next]_vars => [Tree!Next]_(Tree!vars)
  BY TreeSteps
<1> QED BY <1>1, <1>2, Invariance, PTL DEF Spec, Tree!Spec
=============================================================================
