---------------------------- MODULE WsonIo_proofs ----------------------------
(***************************************************************************)
(* The C writer, for every choice of the growth parameters, of the sizes   *)
(* of the blocks and of the arguments of the calls.                        *)
(*                                                                         *)
(* The argument has two layers.  Ensure and Store are shown once to keep a *)
(* buffer well formed; every call is a chain of Store(Ensure(b, n), bts)   *)
(* with Len(bts) <= n, and chains compose.                                 *)
(***************************************************************************)
EXTENDS WsonIo, CommonLemmas, SequenceTheorems

(* The inductive invariant, as a predicate on buffers: the block is as     *)
(* long as it says, the position is inside it, and everything below the    *)
(* position has been stored.                                               *)
Good(b) ==
  /\ b = [data |-> b.data, position |-> b.position, length |-> b.length]
  /\ b.length \in Nat
  /\ b.position \in Nat
  /\ b.position <= b.length
  /\ b.data \in [0..(b.length - 1) -> Cell]
  /\ \A i \in 0..(b.position - 1) : b.data[i] \in Byte

Inv == Good(buf)

(* What a call, or a part of one, does to the buffer. *)
Appends(b, c, bts) ==
  /\ Good(c)
  /\ Content(c) = Content(b) \o bts
  /\ c.length = b.length \/ c.length >= 2 * b.length

-----------------------------------------------------------------------------
(* The output of a good buffer is a byte sequence as long as the position. *)
LEMMA ContentProperties ==
  ASSUME NEW b, Good(b)
  PROVE  /\ Content(b) \in Seq(Byte)
         /\ Len(Content(b)) = b.position
         /\ \A i \in 1..b.position : Content(b)[i] = b.data[i - 1]
<1>1. ASSUME NEW i \in 1..b.position
      PROVE  i - 1 \in DOMAIN b.data /\ b.data[i - 1] \in Byte
  BY DEF Good
<1>2. Content(b) = [i \in 1..b.position |-> b.data[i - 1]]
  BY <1>1 DEF Content
<1>3. Content(b) \in [1..b.position -> Byte]
  BY <1>1, <1>2
<1>4. b.position \in Nat BY DEF Good
<1>5. DOMAIN Content(b) = 1..b.position
  BY <1>3
<1>6. Content(b) \in Seq(Byte) /\ Len(Content(b)) = b.position
  <2> DEFINE n == b.position
             s == Content(b)
  <2>1. n \in Nat /\ s \in [1..n -> Byte] BY <1>3, <1>4
  <2> HIDE DEF n, s
  <2>2. s \in Seq(Byte) /\ Len(s) = n BY <2>1
  <2> QED BY <2>2 DEF n, s
<1> QED BY <1>2, <1>6

(* wson_io_buffer_resize makes room for what was asked, whichever branch   *)
(* it takes: below the current length the request may be forgotten only    *)
(* because the position is inside the block.                               *)
LEMMA GrowthSuffices ==
  ASSUME NEW length \in Nat, NEW size \in Nat
  PROVE  /\ Growth(length, size) \in Nat
         /\ Growth(length, size) >= size
         /\ Growth(length, size) >= length
<1>1. /\ SmallLimit \in Nat /\ Slack \in Nat
      /\ LargeFactor \in Nat /\ LargeFactor >= 1
  BY GrowthAssumption
<1>2. length * LargeFactor \in Nat /\ length * LargeFactor >= length
  BY <1>1
<1> QED BY <1>1, <1>2 DEF Growth

(* Making room changes neither the output nor its well-formedness. *)
LEMMA EnsureMakesRoom ==
  ASSUME NEW b, Good(b), NEW size \in Nat
  PROVE  /\ Good(Ensure(b, size))
         /\ Ensure(b, size).position = b.position
         /\ b.position + size <= Ensure(b, size).length
         /\ Content(Ensure(b, size)) = Content(b)
         /\ \/ Ensure(b, size).length = b.length
            \/ Ensure(b, size).length >= 2 * b.length
<1>1. CASE ~(b.length < b.position + size)
  BY <1>1 DEF Ensure, Good
<1>2. CASE b.length < b.position + size
  <2> DEFINE length == b.length + Growth(b.length, size)
             data == [i \in 0..(length - 1) |->
                        IF i < b.length THEN b.data[i] ELSE Junk]
             c == Ensure(b, size)
  <2>1. b.length \in Nat /\ b.position \in Nat /\ b.position <= b.length
    BY DEF Good
  <2>2. /\ length \in Nat /\ length >= b.length + size
        /\ length >= 2 * b.length
    <3>1. /\ Growth(b.length, size) \in Nat
          /\ Growth(b.length, size) >= size
          /\ Growth(b.length, size) >= b.length
      BY <2>1, GrowthSuffices
    <3> QED BY <2>1, <3>1
  <2>3. c = [data |-> data, position |-> b.position, length |-> length]
    <3>1. c = [b EXCEPT !.data = data, !.length = length]
      BY <1>2 DEF Ensure, Resize
    <3>2. b = [data |-> b.data, position |-> b.position, length |-> b.length]
      BY DEF Good
    <3> HIDE DEF length, data, c
    <3> QED BY <3>1, <3>2
  <2>4. data \in [0..(length - 1) -> Cell]
    <3>1. ASSUME NEW i \in 0..(length - 1)
          PROVE  (IF i < b.length THEN b.data[i] ELSE Junk) \in Cell
      <4>1. i < b.length => i \in 0..(b.length - 1)
        BY <2>1, <2>2
      <4> QED BY <4>1 DEF Good, Cell
    <3> QED BY <3>1
  <2>5. \A i \in 0..(b.position - 1) :
           i \in 0..(length - 1) /\ data[i] = b.data[i] /\ b.data[i] \in Byte
    BY <2>1, <2>2 DEF Good
  <2> HIDE DEF length, data, c
  <2>6. Good(c)
    BY <2>1, <2>2, <2>3, <2>4, <2>5 DEF Good
  <2>7. Content(c) = Content(b)
    <3>1. c.position = b.position /\ c.data = data
      BY <2>3
    <3>2. /\ Content(c) \in Seq(Byte) /\ Content(b) \in Seq(Byte)
          /\ Len(Content(c)) = b.position /\ Len(Content(b)) = b.position
      BY <2>6, <3>1, ContentProperties
    <3>3. \A i \in 1..b.position : Content(c)[i] = Content(b)[i]
      <4> TAKE i \in 1..b.position
      <4>1. Content(c)[i] = data[i - 1]
        BY <2>6, <3>1, ContentProperties
      <4>2. Content(b)[i] = b.data[i - 1]
        BY ContentProperties
      <4>3. i - 1 \in 0..(b.position - 1)
        BY <2>1
      <4> QED BY <4>1, <4>2, <4>3, <2>5
    <3> QED BY <3>2, <3>3, SeqEqual
  <2>8. /\ c.position = b.position
        /\ b.position + size <= c.length
        /\ c.length >= 2 * b.length
    BY <2>1, <2>2, <2>3
  <2> QED BY <2>6, <2>7, <2>8 DEF c
<1> QED BY <1>1, <1>2

(* Storing into room that is there appends to the output. *)
LEMMA StoreAppends ==
  ASSUME NEW b, Good(b), NEW bts \in Seq(Byte),
         b.position + Len(bts) <= b.length
  PROVE  /\ Good(Store(b, bts))
         /\ Content(Store(b, bts)) = Content(b) \o bts
         /\ Store(b, bts).length = b.length
<1> DEFINE n == Len(bts)
           position == b.position + n
           data == [i \in DOMAIN b.data |->
                      IF i - b.position + 1 \in 1..n
                      THEN bts[i - b.position + 1] ELSE b.data[i]]
           c == Store(b, bts)
<1>1. /\ b.length \in Nat /\ b.position \in Nat /\ b.position <= b.length
      /\ DOMAIN b.data = 0..(b.length - 1)
  BY DEF Good
<1>2. n \in Nat /\ position \in Nat /\ position <= b.length
  BY <1>1
<1>3. c = [data |-> data, position |-> position, length |-> b.length]
  <2>1. c = [b EXCEPT !.data = data, !.position = position]
    BY DEF Store
  <2>2. b = [data |-> b.data, position |-> b.position, length |-> b.length]
    BY DEF Good
  <2> HIDE DEF position, data, c
  <2> QED BY <2>1, <2>2
<1>4. \A i \in 1..n : bts[i] \in Byte
  BY ElementOfSeq
<1>5. data \in [0..(b.length - 1) -> Cell]
  <2>1. ASSUME NEW i \in 0..(b.length - 1)
        PROVE  (IF i - b.position + 1 \in 1..n
                THEN bts[i - b.position + 1] ELSE b.data[i]) \in Cell
    BY <1>4 DEF Good, Cell
  <2> QED BY <2>1, <1>1
<1>6. \A i \in 0..(position - 1) :
         /\ i \in 0..(b.length - 1)
         /\ data[i] = IF i < b.position THEN b.data[i]
                      ELSE bts[i - b.position + 1]
  <2> TAKE i \in 0..(position - 1)
  <2>1. i \in 0..(b.length - 1)
    BY <1>1, <1>2
  <2>2. i - b.position + 1 \in 1..n <=> ~(i < b.position)
    BY <1>1, <1>2
  <2> QED BY <2>1, <2>2, <1>1
<1>7. \A i \in 0..(position - 1) : data[i] \in Byte
  <2> TAKE i \in 0..(position - 1)
  <2>1. CASE i < b.position
    <3>1. i \in 0..(b.position - 1) BY <2>1, <1>1, <1>2
    <3>2. b.data[i] \in Byte BY <3>1 DEF Good
    <3> QED BY <3>2, <2>1, <1>6
  <2>2. CASE ~(i < b.position)
    <3>1. i - b.position + 1 \in 1..n BY <2>2, <1>1, <1>2
    <3> QED BY <3>1, <2>2, <1>4, <1>6
  <2> QED BY <2>1, <2>2
<1> HIDE DEF n, position, data, c
<1>8. Good(c)
  BY <1>1, <1>2, <1>3, <1>5, <1>7 DEF Good
<1>9. Content(c) = Content(b) \o bts
  <2>1. /\ Content(c) \in Seq(Byte)
        /\ Len(Content(c)) = position
        /\ \A i \in 1..position : Content(c)[i] = data[i - 1]
    BY <1>8, <1>3, ContentProperties
  <2>2. /\ Content(b) \in Seq(Byte)
        /\ Len(Content(b)) = b.position
        /\ \A i \in 1..b.position : Content(b)[i] = b.data[i - 1]
    BY ContentProperties
  <2>3. /\ Content(b) \o bts \in Seq(Byte)
        /\ Len(Content(b) \o bts) = position
        /\ \A i \in 1..position : (Content(b) \o bts)[i] =
              IF i <= b.position THEN Content(b)[i] ELSE bts[i - b.position]
    BY <2>2, ConcatProperties DEF position, n
  <2>4. \A i \in 1..position : Content(c)[i] = (Content(b) \o bts)[i]
    <3> TAKE i \in 1..position
    <3>1. i - 1 \in 0..(position - 1) BY <1>2
    <3>2. Content(c)[i] = IF i - 1 < b.position THEN b.data[i - 1]
                          ELSE bts[(i - 1) - b.position + 1]
      BY <2>1, <3>1, <1>6
    <3>3. (i - 1) - b.position + 1 = i - b.position BY <1>1
    <3>4. i - 1 < b.position <=> i <= b.position BY <1>1
    <3>5. i <= b.position => i \in 1..b.position BY <1>1
    <3> QED BY <3>2, <3>3, <3>4, <3>5, <2>2, <2>3
  <2> QED BY <2>1, <2>3, <2>4, SeqEqual
<1> QED BY <1>8, <1>9, <1>3 DEF c

(* Room for n bytes, then at most n bytes. *)
LEMMA PutAppends ==
  ASSUME NEW b, Good(b), NEW bts \in Seq(Byte), NEW n \in Nat, Len(bts) <= n
  PROVE  Appends(b, Store(Ensure(b, n), bts), bts)
<1> DEFINE c == Ensure(b, n)
<1>1. /\ Good(c) /\ c.position = b.position /\ b.position + n <= c.length
      /\ Content(c) = Content(b)
      /\ c.length = b.length \/ c.length >= 2 * b.length
  BY EnsureMakesRoom
<1> HIDE DEF c
<1>2. c.position + Len(bts) <= c.length
  <2>1. c.position \in Nat /\ c.length \in Nat /\ Len(bts) \in Nat
    BY <1>1 DEF Good
  <2> QED BY <2>1, <1>1
<1>3. /\ Good(Store(c, bts))
      /\ Content(Store(c, bts)) = Content(c) \o bts
      /\ Store(c, bts).length = c.length
  BY <1>1, <1>2, StoreAppends
<1>4. Appends(b, Store(c, bts), bts)
  BY <1>1, <1>3 DEF Appends
<1> QED BY <1>4 DEF c

(* Parts of a call compose. *)
LEMMA AppendsCompose ==
  ASSUME NEW b, NEW c, NEW d, NEW s \in Seq(Byte), NEW t \in Seq(Byte),
         Good(b), Appends(b, c, s), Appends(c, d, t)
  PROVE  Appends(b, d, s \o t)
<1>1. Content(d) = (Content(b) \o s) \o t
  BY DEF Appends
<1>2. Content(b) \in Seq(Byte)
  BY ContentProperties
<1>3. (Content(b) \o s) \o t = Content(b) \o (s \o t)
  BY <1>2, ConcatAssociative
<1>4. b.length \in Nat /\ c.length \in Nat /\ d.length \in Nat
  BY DEF Appends, Good
<1>5. d.length = b.length \/ d.length >= 2 * b.length
  BY <1>4 DEF Appends
<1> QED BY <1>1, <1>3, <1>5 DEF Appends

-----------------------------------------------------------------------------
(* Each part of a call appends its encoding. *)
LEMMA PutsAppend ==
  ASSUME NEW b, Good(b)
  PROVE  /\ \A bt \in Byte : /\ Appends(b, PutByte(b, bt), <<bt>>)
                            /\ Appends(b, PutType(b, bt), <<bt>>)
         /\ \A num \in Uint : Appends(b, PutVarUint(b, num), VarUint(num))
         /\ \A num \in Ints : Appends(b, PutVarInt(b, num), VarUint(Zig(num)))
         /\ \A num \in Longs : Appends(b, PutUint64(b, num), num)
         /\ \A num \in Floats : Appends(b, PutFloat(b, num), num)
         /\ \A src \in Strings : Appends(b, PutBytes(b, src), src)
<1>1. ASSUME NEW bt \in Byte
      PROVE  Appends(b, PutByte(b, bt), <<bt>>) /\ Appends(b, PutType(b, bt), <<bt>>)
  <2>1. <<bt>> \in Seq(Byte) /\ Len(<<bt>>) <= 1 OBVIOUS
  <2>2. Appends(b, Store(Ensure(b, 1), <<bt>>), <<bt>>)
    BY <2>1, PutAppends
  <2> QED BY <2>2 DEF PutByte, PutType
<1>2. ASSUME NEW num \in Uint
      PROVE  Appends(b, PutVarUint(b, num), VarUint(num))
  <2>1. VarUint(num) \in Seq(Byte) /\ Len(VarUint(num)) <= 5
    <3>1. VarUint(num) \in Seq(Byte) /\ Len(VarUint(num)) \in 1..5
      BY VarUintBytes
    <3> DEFINE n == Len(VarUint(num))
    <3>2. n \in 1..5 BY <3>1
    <3> HIDE DEF n
    <3>3. n <= 5 BY <3>2
    <3> QED BY <3>1, <3>3 DEF n
  <2>2. Appends(b, Store(Ensure(b, 5), VarUint(num)), VarUint(num))
    BY <2>1, PutAppends
  <2> QED BY <2>2 DEF PutVarUint
<1>3. ASSUME NEW num \in Ints
      PROVE  Appends(b, PutVarInt(b, num), VarUint(Zig(num)))
  BY <1>2, ArgumentAssumption DEF PutVarInt
<1>4. ASSUME NEW num \in Longs
      PROVE  Appends(b, PutUint64(b, num), num)
  <2>1. num \in Seq(Byte) /\ Len(num) = 8
    BY ArgumentAssumption
  <2>2. Len(num) <= 8
    BY <2>1
  <2> QED BY <2>1, <2>2, PutAppends DEF PutUint64
<1>5. ASSUME NEW num \in Floats
      PROVE  Appends(b, PutFloat(b, num), num)
  <2>1. num \in Seq(Byte) /\ Len(num) = 4
    BY ArgumentAssumption
  <2>2. Len(num) <= 4
    BY <2>1
  <2> QED BY <2>1, <2>2, PutAppends DEF PutFloat
<1>6. ASSUME NEW src \in Strings
      PROVE  Appends(b, PutBytes(b, src), src)
  <2>1. src \in Seq(Byte) /\ Len(src) \in Nat /\ Len(src) <= Len(src)
    BY ArgumentAssumption
  <2> QED BY <2>1, PutAppends DEF PutBytes
<1> QED BY <1>1, <1>2, <1>3, <1>4, <1>5, <1>6

(* The arguments and the tags are bytes. *)
LEMMA Arguments ==
  /\ \A num \in Uints : num \in Uint /\ VarUint(num) \in Seq(Byte)
  /\ \A num \in Ints : VarUint(Zig(num)) \in Seq(Byte)
  /\ \A num \in Longs \cup Floats : num \in Seq(Byte)
  /\ \A src \in Strings : /\ src \in Seq(Byte)
                         /\ Len(src) \in Uint
                         /\ VarUint(Len(src)) \in Seq(Byte)
  /\ {NullType, BooleanTrue, BooleanFalse, IntType, FloatType, DoubleType,
      LongType, StringType, Uint8String, ArrayType, MapType, ExtendType}
        \subseteq Byte
<1>1. \A num \in Uint : VarUint(num) \in Seq(Byte)
  BY VarUintBytes
<1>2. {NullType, BooleanTrue, BooleanFalse, IntType, FloatType, DoubleType,
       LongType, StringType, Uint8String, ArrayType, MapType, ExtendType}
         \subseteq Byte
  BY SMT DEF Byte, NullType, BooleanTrue, BooleanFalse, IntType, FloatType,
     DoubleType, LongType, StringType, Uint8String, ArrayType, MapType,
     ExtendType
<1> QED BY <1>1, <1>2, ArgumentAssumption

(* A tag, then a payload. *)
LEMMA TaggedAppends ==
  ASSUME NEW b, Good(b), NEW tag \in Byte, NEW c, NEW bts \in Seq(Byte),
         Good(PutType(b, tag)) => Appends(PutType(b, tag), c, bts)
  PROVE  Appends(b, c, <<tag>> \o bts)
<1>1. Appends(b, PutType(b, tag), <<tag>>)
  BY PutsAppend
<1>2. Appends(PutType(b, tag), c, bts)
  BY <1>1 DEF Appends
<1>3. <<tag>> \in Seq(Byte)
  OBVIOUS
<1> QED BY <1>1, <1>2, <1>3, AppendsCompose

(* A length, then that many bytes. *)
LEMMA KeyAppends ==
  ASSUME NEW b, Good(b), NEW src \in Strings
  PROVE  Appends(b, PutMapKey(b, src), VarUint(Len(src)) \o src)
<1> DEFINE c == PutVarUint(b, Len(src))
<1>1. Appends(b, c, VarUint(Len(src)))
  BY PutsAppend, Arguments
<1>2. Appends(c, PutBytes(c, src), src)
  BY <1>1, PutsAppend DEF Appends
<1>3. VarUint(Len(src)) \in Seq(Byte) /\ src \in Seq(Byte)
  BY Arguments
<1>4. PutMapKey(b, src) = PutBytes(c, src)
  BY DEF PutMapKey
<1> HIDE DEF c
<1> QED BY <1>1, <1>2, <1>3, <1>4, AppendsCompose

(* Every call appends one complete encoding. *)
LEMMA CallAppends ==
  ASSUME Inv, Call
  PROVE  \E bts \in Encodings : Appends(buf, buf', bts)
<1> USE DEF Inv
<1> DEFINE Goal == \E bts \in Encodings : Appends(buf, buf', bts)
<1>1. CASE WriteByte
  <2>1. PICK bt \in RawBytes : buf' = PutByte(buf, bt)
    BY <1>1 DEF WriteByte
  <2>2. Appends(buf, buf', <<bt>>)
    BY <2>1, PutsAppend, ArgumentAssumption
  <2>3. <<bt>> \in Encodings
    BY DEF Encodings
  <2> QED BY <2>2, <2>3
<1>2. CASE WriteVarUint
  <2>1. PICK num \in Uints : buf' = PutVarUint(buf, num)
    BY <1>2 DEF WriteVarUint
  <2>2. Appends(buf, buf', VarUint(num))
    BY <2>1, PutsAppend, Arguments
  <2>3. VarUint(num) \in Encodings
    BY DEF Encodings, UintEncodings
  <2> QED BY <2>2, <2>3
<1>3. CASE WriteVarInt
  <2>1. PICK num \in Ints : buf' = PutVarInt(buf, num)
    BY <1>3 DEF WriteVarInt
  <2>2. Appends(buf, buf', VarUint(Zig(num)))
    BY <2>1, PutsAppend, Arguments
  <2>3. VarUint(Zig(num)) \in Encodings
    BY DEF Encodings, IntEncodings
  <2> QED BY <2>2, <2>3
<1>4. CASE WriteUint64
  <2>1. PICK num \in Longs : buf' = PutUint64(buf, num)
    BY <1>4 DEF WriteUint64
  <2>2. Appends(buf, buf', num)
    BY <2>1, PutsAppend, Arguments
  <2>3. num \in Encodings
    BY DEF Encodings
  <2> QED BY <2>2, <2>3
<1>5. CASE WriteFloat
  <2>1. PICK num \in Floats : buf' = PutFloat(buf, num)
    BY <1>5 DEF WriteFloat
  <2>2. Appends(buf, buf', num)
    BY <2>1, PutsAppend, Arguments
  <2>3. num \in Encodings
    BY DEF Encodings
  <2> QED BY <2>2, <2>3
<1>6. CASE WriteBytes
  <2>1. PICK src \in Strings : buf' = PutBytes(buf, src)
    BY <1>6 DEF WriteBytes
  <2>2. Appends(buf, buf', src)
    BY <2>1, PutsAppend, Arguments
  <2>3. src \in Encodings
    BY DEF Encodings
  <2> QED BY <2>2, <2>3
<1>7. CASE EnsureSize
  <2>1. PICK size \in Uints : buf' = Ensure(buf, size)
    BY <1>7 DEF EnsureSize
  <2>2. size \in Nat
    BY Arguments DEF Uint
  <2>3. /\ Good(buf') /\ Content(buf') = Content(buf)
        /\ buf'.length = buf.length \/ buf'.length >= 2 * buf.length
    BY <2>1, <2>2, EnsureMakesRoom
  <2>4. Content(buf) \o <<>> = Content(buf)
    BY ContentProperties, ConcatEmptySeq
  <2>5. Appends(buf, buf', <<>>)
    BY <2>3, <2>4 DEF Appends
  <2> QED BY <2>5 DEF Encodings
<1>8. CASE WriteNull
  <2>1. Appends(buf, buf', <<NullType>>)
    BY <1>8, PutsAppend, Arguments DEF WriteNull
  <2> QED BY <2>1 DEF Encodings
<1>9. CASE WriteBoolean
  <2>1. PICK value \in BOOLEAN : buf' = PutBoolean(buf, value)
    BY <1>9 DEF WriteBoolean
  <2> DEFINE bts == IF value THEN <<BooleanTrue>> ELSE <<BooleanFalse>>
  <2>2. bts \in Seq(Byte) /\ Len(bts) <= 2
    <3>1. BooleanTrue \in Byte /\ BooleanFalse \in Byte
      BY Arguments
    <3> QED BY <3>1
  <2>3. Appends(buf, Store(Ensure(buf, 2), bts), bts)
    BY <2>2, PutAppends
  <2>4. Appends(buf, buf', bts)
    BY <2>1, <2>3 DEF PutBoolean
  <2>5. bts \in Encodings
    BY DEF Encodings
  <2> QED BY <2>4, <2>5
<1>10. CASE WriteMapKey
  <2>1. PICK src \in Strings : buf' = PutMapKey(buf, src)
    BY <1>10 DEF WriteMapKey
  <2>2. Appends(buf, buf', VarUint(Len(src)) \o src)
    BY <2>1, KeyAppends
  <2>3. VarUint(Len(src)) \o src \in Encodings
    BY DEF Encodings, KeyEncodings
  <2> QED BY <2>2, <2>3
<1>11. CASE WriteTaggedVarInt
  <2>1. PICK num \in Ints : buf' = PutVarInt(PutType(buf, IntType), num)
    BY <1>11 DEF WriteTaggedVarInt, PutTaggedVarInt
  <2> DEFINE c == PutType(buf, IntType)
  <2>2. VarUint(Zig(num)) \in Seq(Byte)
    BY Arguments
  <2>3. Good(c) => Appends(c, buf', VarUint(Zig(num)))
    BY <2>1, PutsAppend, Arguments
  <2>4. IntType \in Byte
    BY Arguments
  <2>5. Appends(buf, buf', <<IntType>> \o (VarUint(Zig(num))))
    BY <2>2, <2>3, <2>4, TaggedAppends
  <2>6. <<IntType>> \o (VarUint(Zig(num))) \in Encodings
    BY DEF Encodings, Tagged, IntEncodings
  <2> QED BY <2>5, <2>6
<1>12. CASE WriteTaggedLong
  <2>1. PICK num \in Longs : buf' = PutUint64(PutType(buf, LongType), num)
    BY <1>12 DEF WriteTaggedLong, PutTaggedLong
  <2> DEFINE c == PutType(buf, LongType)
  <2>2. num \in Seq(Byte)
    BY Arguments
  <2>3. Good(c) => Appends(c, buf', num)
    BY <2>1, PutsAppend, Arguments
  <2>4. LongType \in Byte
    BY Arguments
  <2>5. Appends(buf, buf', <<LongType>> \o (num))
    BY <2>2, <2>3, <2>4, TaggedAppends
  <2>6. <<LongType>> \o (num) \in Encodings
    BY DEF Encodings, Tagged
  <2> QED BY <2>5, <2>6
<1>13. CASE WriteTaggedDouble
  <2>1. PICK num \in Longs : buf' = PutUint64(PutType(buf, DoubleType), num)
    BY <1>13 DEF WriteTaggedDouble, PutTaggedDouble
  <2> DEFINE c == PutType(buf, DoubleType)
  <2>2. num \in Seq(Byte)
    BY Arguments
  <2>3. Good(c) => Appends(c, buf', num)
    BY <2>1, PutsAppend, Arguments
  <2>4. DoubleType \in Byte
    BY Arguments
  <2>5. Appends(buf, buf', <<DoubleType>> \o (num))
    BY <2>2, <2>3, <2>4, TaggedAppends
  <2>6. <<DoubleType>> \o (num) \in Encodings
    BY DEF Encodings, Tagged
  <2> QED BY <2>5, <2>6
<1>14. CASE WriteTaggedFloat
  <2>1. PICK num \in Floats : buf' = PutFloat(PutType(buf, FloatType), num)
    BY <1>14 DEF WriteTaggedFloat, PutTaggedFloat
  <2> DEFINE c == PutType(buf, FloatType)
  <2>2. num \in Seq(Byte)
    BY Arguments
  <2>3. Good(c) => Appends(c, buf', num)
    BY <2>1, PutsAppend, Arguments
  <2>4. FloatType \in Byte
    BY Arguments
  <2>5. Appends(buf, buf', <<FloatType>> \o (num))
    BY <2>2, <2>3, <2>4, TaggedAppends
  <2>6. <<FloatType>> \o (num) \in Encodings
    BY DEF Encodings, Tagged
  <2> QED BY <2>5, <2>6
<1>15. CASE WriteString
  <2>1. PICK src \in Strings : buf' = PutMapKey(PutType(buf, StringType), src)
    BY <1>15 DEF WriteString, PutString
  <2> DEFINE c == PutType(buf, StringType)
  <2>2. VarUint(Len(src)) \o src \in Seq(Byte)
    BY Arguments, ConcatProperties
  <2>3. Good(c) => Appends(c, buf', VarUint(Len(src)) \o src)
    BY <2>1, KeyAppends, Arguments
  <2>4. StringType \in Byte
    BY Arguments
  <2>5. Appends(buf, buf', <<StringType>> \o (VarUint(Len(src)) \o src))
    BY <2>2, <2>3, <2>4, TaggedAppends
  <2>6. <<StringType>> \o (VarUint(Len(src)) \o src) \in Encodings
    BY DEF Encodings, Tagged, KeyEncodings
  <2> QED BY <2>5, <2>6
<1>16. CASE WriteUint8String
  <2>1. PICK src \in Strings : buf' = PutMapKey(PutType(buf, Uint8String), src)
    BY <1>16 DEF WriteUint8String, PutUint8String
  <2> DEFINE c == PutType(buf, Uint8String)
  <2>2. VarUint(Len(src)) \o src \in Seq(Byte)
    BY Arguments, ConcatProperties
  <2>3. Good(c) => Appends(c, buf', VarUint(Len(src)) \o src)
    BY <2>1, KeyAppends, Arguments
  <2>4. Uint8String \in Byte
    BY Arguments
  <2>5. Appends(buf, buf', <<Uint8String>> \o (VarUint(Len(src)) \o src))
    BY <2>2, <2>3, <2>4, TaggedAppends
  <2>6. <<Uint8String>> \o (VarUint(Len(src)) \o src) \in Encodings
    BY DEF Encodings, Tagged, KeyEncodings
  <2> QED BY <2>5, <2>6
<1>17. CASE WriteExtend
  <2>1. PICK src \in Strings : buf' = PutMapKey(PutType(buf, ExtendType), src)
    BY <1>17 DEF WriteExtend, PutExtend
  <2> DEFINE c == PutType(buf, ExtendType)
  <2>2. VarUint(Len(src)) \o src \in Seq(Byte)
    BY Arguments, ConcatProperties
  <2>3. Good(c) => Appends(c, buf', VarUint(Len(src)) \o src)
    BY <2>1, KeyAppends, Arguments
  <2>4. ExtendType \in Byte
    BY Arguments
  <2>5. Appends(buf, buf', <<ExtendType>> \o (VarUint(Len(src)) \o src))
    BY <2>2, <2>3, <2>4, TaggedAppends
  <2>6. <<ExtendType>> \o (VarUint(Len(src)) \o src) \in Encodings
    BY DEF Encodings, Tagged, KeyEncodings
  <2> QED BY <2>5, <2>6
<1>18. CASE WriteStringLength
  <2>1. PICK num \in Uints : buf' = PutVarUint(PutType(buf, StringType), num)
    BY <1>18 DEF WriteStringLength, PutStringLength
  <2> DEFINE c == PutType(buf, StringType)
  <2>2. VarUint(num) \in Seq(Byte)
    BY Arguments
  <2>3. Good(c) => Appends(c, buf', VarUint(num))
    BY <2>1, PutsAppend, Arguments
  <2>4. StringType \in Byte
    BY Arguments
  <2>5. Appends(buf, buf', <<StringType>> \o (VarUint(num)))
    BY <2>2, <2>3, <2>4, TaggedAppends
  <2>6. <<StringType>> \o (VarUint(num)) \in Encodings
    BY DEF Encodings, Tagged, UintEncodings
  <2> QED BY <2>5, <2>6
<1>19. CASE WriteMap
  <2>1. PICK num \in Uints : buf' = PutVarUint(PutType(buf, MapType), num)
    BY <1>19 DEF WriteMap, PutMap
  <2> DEFINE c == PutType(buf, MapType)
  <2>2. VarUint(num) \in Seq(Byte)
    BY Arguments
  <2>3. Good(c) => Appends(c, buf', VarUint(num))
    BY <2>1, PutsAppend, Arguments
  <2>4. MapType \in Byte
    BY Arguments
  <2>5. Appends(buf, buf', <<MapType>> \o (VarUint(num)))
    BY <2>2, <2>3, <2>4, TaggedAppends
  <2>6. <<MapType>> \o (VarUint(num)) \in Encodings
    BY DEF Encodings, Tagged, UintEncodings
  <2> QED BY <2>5, <2>6
<1>20. CASE WriteArray
  <2>1. PICK num \in Uints : buf' = PutVarUint(PutType(buf, ArrayType), num)
    BY <1>20 DEF WriteArray, PutArray
  <2> DEFINE c == PutType(buf, ArrayType)
  <2>2. VarUint(num) \in Seq(Byte)
    BY Arguments
  <2>3. Good(c) => Appends(c, buf', VarUint(num))
    BY <2>1, PutsAppend, Arguments
  <2>4. ArrayType \in Byte
    BY Arguments
  <2>5. Appends(buf, buf', <<ArrayType>> \o (VarUint(num)))
    BY <2>2, <2>3, <2>4, TaggedAppends
  <2>6. <<ArrayType>> \o (VarUint(num)) \in Encodings
    BY DEF Encodings, Tagged, UintEncodings
  <2> QED BY <2>5, <2>6
<1> QED
  BY <1>1, <1>2, <1>3, <1>4, <1>5, <1>6, <1>7, <1>8, <1>9, <1>10, <1>11, <1>12, <1>13, <1>14, <1>15, <1>16, <1>17, <1>18, <1>19, <1>20 DEF Call

-----------------------------------------------------------------------------
(* A new block of any size is good. *)
LEMMA InitInv == Init => Inv
<1> SUFFICES ASSUME Init PROVE Inv
  OBVIOUS
<1>1. PICK size \in NewSizes : buf = Alloc(size)
  BY DEF Init
<1>2. size \in Nat
  BY GrowthAssumption
<1>3. [i \in 0..(size - 1) |-> Junk] \in [0..(size - 1) -> Cell]
  BY DEF Cell
<1>4. buf = [data |-> [i \in 0..(size - 1) |-> Junk],
             position |-> 0, length |-> size]
  BY <1>1 DEF Alloc
<1> QED BY <1>2, <1>3, <1>4 DEF Inv, Good

(* A step is a call, which appends, or leaves the buffer alone. *)
LEMMA StepAppends ==
  ASSUME Inv, [Next]_buf
  PROVE  UNCHANGED buf \/ \E bts \in Encodings : Appends(buf, buf', bts)
BY CallAppends DEF Next

LEMMA NextInv == Inv /\ [Next]_buf => Inv'
<1> SUFFICES ASSUME Inv, [Next]_buf PROVE Inv'
  OBVIOUS
<1>1. CASE UNCHANGED buf
  BY <1>1 DEF Inv
<1>2. CASE \E bts \in Encodings : Appends(buf, buf', bts)
  BY <1>2 DEF Inv, Appends
<1> QED BY <1>1, <1>2, StepAppends

(* A well-formed buffer, with its position inside the block and nothing    *)
(* uninitialised below it, is all the writer ever has.                     *)
THEOREM Invariance == Spec => []Inv
BY InitInv, NextInv, PTL DEF Spec

(* The buffer is always a record whose cells are the allocated bytes.      *)
THEOREM TypeCorrect == Spec => []TypeOK
<1>1. Inv => TypeOK
  BY DEF Inv, Good, TypeOK
<1> QED BY <1>1, Invariance, PTL

(* No call of the C writer ever stores outside its block, whatever the     *)
(* sizes it is created with and the arguments it is given.                 *)
THEOREM NoOverrun == Spec => []InCapacity
<1>1. Inv => InCapacity
  BY DEF Inv, Good, InCapacity
<1> QED BY <1>1, Invariance, PTL

(* No byte of the output is uninitialised memory.                          *)
THEOREM NoJunk == Spec => []Initialised
<1>1. Inv => Initialised
  BY DEF Inv, Good, Initialised
<1> QED BY <1>1, Invariance, PTL

(* Each reallocation at least doubles the block.                           *)
THEOREM AmortisedGrowth == Spec => Doubling
<1>1. Inv /\ [Next]_buf
        => [buf'.length # buf.length => buf'.length >= 2 * buf.length]_buf
  BY StepAppends DEF Appends
<1> QED BY <1>1, Invariance, PTL DEF Spec, Doubling

(* The buffer implements the append-only log: reallocation is invisible.   *)
THEOREM Refinement == Spec => AppendOnly
<1>1. Init => Log!Init
  <2> SUFFICES ASSUME Init PROVE Content(buf) = <<>>
    BY DEF Log!Init
  <2>1. Good(buf) /\ buf.position = 0
    BY InitInv DEF Init, Inv, Alloc
  <2>2. Content(buf) \in Seq(Byte) /\ Len(Content(buf)) = 0
    BY <2>1, ContentProperties
  <2> QED BY <2>2, EmptySeq
<1>2. Inv /\ [Next]_buf => [Log!Next]_(Content(buf))
  <2> SUFFICES ASSUME Inv, [Next]_buf
               PROVE  \/ Content(buf)' = Content(buf)
                      \/ \E chunk \in Encodings :
                            Content(buf)' = Content(buf) \o chunk
    BY DEF Log!Next, Log!Write
  <2>1. CASE UNCHANGED buf
    BY <2>1 DEF Content
  <2>2. CASE \E bts \in Encodings : Appends(buf, buf', bts)
    <3>1. PICK bts \in Encodings : Appends(buf, buf', bts)
      BY <2>2
    <3>2. Content(buf') = Content(buf) \o bts
      BY <3>1 DEF Appends
    <3>3. Content(buf)' = Content(buf')
      BY DEF Content
    <3> QED BY <3>1, <3>2, <3>3
  <2> QED BY <2>1, <2>2, StepAppends
<1> QED BY <1>1, <1>2, Invariance, PTL DEF Spec, AppendOnly, Log!Spec
=============================================================================
