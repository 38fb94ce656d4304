--------------------------- MODULE Conversions_proofs ---------------------------
(***************************************************************************)
(* The parts of the library where sizes are asked for before the data is   *)
(* looked at, for every value of their constants: io.Output and io.Input,  *)
(* the older C writer, and the texts that the C++ parser converts.         *)
(***************************************************************************)
EXTENDS JavaIo, WsonBuffer, Utf16, CommonLemmas, SequenceTheorems

-----------------------------------------------------------------------------
(***************************************************************************)
(* io.Output under ints that overflow, for every size of int, least        *)
(* capacity, length and number.                                            *)
(*                                                                         *)
(* Between a reservation and the stores it was made for, the invariant is  *)
(* Ready(o, left): `left' more bytes fit into the array, unless position   *)
(* and reservation together are no int.                                    *)
(*                                                                         *)
(* For the numbers it is Sent: the bytes written last are the encoding of  *)
(* the number.  What Input makes of them is then the round trip of varints *)
(* and of four bytes.                                                      *)
(***************************************************************************)

OutputSet ==
  [capacity : 0..MaxInt, position : Nat, asked : 0..MaxInt, thrown : BOOLEAN]

Good(o) ==
  /\ o \in OutputSet
  /\ o.position <= o.capacity
  /\ o.thrown => 2 * (o.position + o.asked) > MaxInt

Ready(o, left) ==
  /\ Good(o)
  /\ ~o.thrown => /\ left <= o.asked
                  /\ o.position + left <= o.capacity \/ o.position + left > MaxInt

(* Arrays are not copied for less than twice their length. *)
Grows(o, p) == p.capacity = o.capacity \/ p.capacity >= 2 * o.capacity

Inv == Good(output)

-----------------------------------------------------------------------------
(* The two ways an int can overflow here. *)
LEMMA AsIntCases ==
  ASSUME NEW num \in Nat, num <= 2 * MaxInt
  PROVE  /\ AsInt(num) \in Int
         /\ num <= MaxInt => AsInt(num) = num
         /\ num > MaxInt => AsInt(num) < 0
BY IntAssumption DEF AsInt

(* The new length covers what is asked for, or is negative. *)
LEMMA GrownSuffices ==
  ASSUME NEW capacity \in 0..MaxInt, NEW min \in 0..MaxInt, capacity < min
  PROVE  /\ Grown(capacity, min) \in Int
         /\ Grown(capacity, min) < 0 => 2 * min > MaxInt
         /\ Grown(capacity, min) >= 0 =>
              /\ min <= Grown(capacity, min)
              /\ Grown(capacity, min) <= MaxInt
              /\ 2 * capacity <= Grown(capacity, min)
<1> DEFINE doubled == AsInt(2 * capacity)
           new == IF doubled < Least THEN Least ELSE doubled
<1>1. /\ doubled \in Int
      /\ 2 * capacity <= MaxInt => doubled = 2 * capacity
      /\ 2 * capacity > MaxInt => doubled < 0
  BY AsIntCases, IntAssumption
<1>2. /\ AsInt(2 * min) \in Int
      /\ 2 * min <= MaxInt => AsInt(2 * min) = 2 * min
      /\ 2 * min > MaxInt => AsInt(2 * min) < 0
  BY AsIntCases, IntAssumption
<1>3. Grown(capacity, min) = IF new < min THEN AsInt(2 * min) ELSE new
  BY DEF Grown
<1> HIDE DEF doubled
<1> QED BY <1>1, <1>2, <1>3, IntAssumption

(* After a reservation its bytes can be stored. *)
LEMMA ReserveReadies ==
  ASSUME NEW o, Good(o), NEW asked \in 0..MaxInt
  PROVE  /\ Ready(ensureCapacity(o, asked), asked)
         /\ Grows(o, ensureCapacity(o, asked))
<1> DEFINE min == AsInt(asked + o.position)
           new == Grown(o.capacity, min)
<1>0. /\ o.capacity \in 0..MaxInt /\ o.position \in Nat
      /\ o.position <= o.capacity /\ MaxInt \in Nat
      /\ o.thrown \in BOOLEAN /\ o.asked \in 0..MaxInt
  BY IntAssumption DEF Good, OutputSet
<1>1. /\ min \in Int
      /\ asked + o.position <= MaxInt => min = asked + o.position
      /\ asked + o.position > MaxInt => min < 0
  BY <1>0, AsIntCases
<1>2. CASE o.thrown
  BY <1>0, <1>2 DEF ensureCapacity, Ready, Grows
<1>3. CASE ~o.thrown /\ min <= o.capacity
  <2>1. ensureCapacity(o, asked) = [o EXCEPT !.asked = asked]
    BY <1>3 DEF ensureCapacity
  <2> HIDE DEF min
  <2> QED BY <1>0, <1>1, <1>3, <2>1 DEF Ready, Good, OutputSet, Grows
<1>4. CASE ~o.thrown /\ min > o.capacity
  <2>1. min = asked + o.position /\ min \in 0..MaxInt
    BY <1>0, <1>1, <1>4
  <2>2. /\ new \in Int
        /\ new < 0 => 2 * min > MaxInt
        /\ new >= 0 => min <= new /\ new <= MaxInt /\ 2 * o.capacity <= new
    BY <1>0, <1>4, <2>1, GrownSuffices
  <2>3. ensureCapacity(o, asked) =
          IF new < 0 THEN [[o EXCEPT !.asked = asked] EXCEPT !.thrown = TRUE]
          ELSE [[o EXCEPT !.asked = asked] EXCEPT !.capacity = new]
    BY <1>0, <1>1, <1>4 DEF ensureCapacity
  <2> HIDE DEF min, new
  <2>4. o \in OutputSet
    BY DEF Good
  <2>5. CASE new < 0
    <3> DEFINE p == [[o EXCEPT !.asked = asked] EXCEPT !.thrown = TRUE]
    <3>1. /\ p \in OutputSet /\ p.capacity = o.capacity
          /\ p.position = o.position /\ p.asked = asked /\ p.thrown
      BY <2>4 DEF OutputSet
    <3>2. ensureCapacity(o, asked) = p
      BY <2>3, <2>5
    <3> HIDE DEF p
    <3> QED BY <1>0, <2>1, <2>2, <2>5, <3>1, <3>2 DEF Ready, Good, Grows
  <2>6. CASE new >= 0
    <3> DEFINE p == [[o EXCEPT !.asked = asked] EXCEPT !.capacity = new]
    <3>1. new \in 0..MaxInt
      BY <1>0, <2>2, <2>6
    <3>2. /\ p \in OutputSet /\ p.capacity = new
          /\ p.position = o.position /\ p.asked = asked /\ p.thrown = o.thrown
      BY <2>4, <3>1 DEF OutputSet
    <3>3. ensureCapacity(o, asked) = p
      BY <2>2, <2>3, <2>6
    <3> HIDE DEF p
    <3> QED BY <1>0, <1>4, <2>1, <2>2, <2>6, <3>2, <3>3 DEF Ready, Good, Grows
  <2> QED BY <2>2, <2>5, <2>6
<1> HIDE DEF min
<1> QED BY <1>0, <1>1, <1>2, <1>3, <1>4

(* A store takes its bytes out of what was reserved. *)
LEMMA StoreKeeps ==
  ASSUME NEW o, NEW left \in Nat, NEW count \in 0..left, Ready(o, left)
  PROVE  /\ Ready(Stored(o, count), left - count)
         /\ Grows(o, Stored(o, count))
<1>0. /\ o.capacity \in 0..MaxInt /\ o.position \in Nat
      /\ o.position <= o.capacity /\ MaxInt \in Nat
      /\ o.thrown \in BOOLEAN /\ o.asked \in 0..MaxInt /\ o \in OutputSet
  BY IntAssumption DEF Ready, Good, OutputSet
<1>1. CASE o.thrown
  BY <1>0, <1>1 DEF Stored, Ready, Grows
<1>2. CASE ~o.thrown /\ o.position + count > o.capacity
  <2>1. Stored(o, count) = [o EXCEPT !.thrown = TRUE]
    BY <1>2 DEF Stored
  <2>2. 2 * (o.position + o.asked) > MaxInt
    BY <1>0, <1>2 DEF Ready
  <2> QED BY <1>0, <1>2, <2>1, <2>2 DEF Ready, Good, OutputSet, Grows
<1>3. CASE ~o.thrown /\ o.position + count <= o.capacity
  <2>1. Stored(o, count) = [o EXCEPT !.position = @ + count]
    BY <1>0, <1>3 DEF Stored
  <2> QED BY <1>0, <1>3, <2>1 DEF Ready, Good, OutputSet, Grows
<1> QED BY <1>0, <1>1, <1>2, <1>3

LEMMA GrowthComposes ==
  ASSUME NEW o, NEW p, NEW q, Good(o), Good(p), Good(q), Grows(o, p), Grows(p, q)
  PROVE  Grows(o, q)
BY IntAssumption DEF Grows, Good, OutputSet

(* A reservation and the two stores that follow it. *)
LEMMA WrittenIsGood ==
  ASSUME Inv, NEW asked \in 0..MaxInt, NEW tag \in Nat, NEW bytes \in Nat,
         tag + bytes <= asked
  PROVE  Good(Written(asked, tag, bytes)) /\ Grows(output, Written(asked, tag, bytes))
<1> DEFINE o1 == ensureCapacity(output, asked)
           o2 == Stored(o1, tag)
           o3 == Stored(o2, bytes)
<1>0. asked \in Nat /\ tag \in 0..asked /\ asked - tag \in Nat /\ bytes \in 0..(asked - tag)
  BY IntAssumption
<1>1. Ready(o1, asked) /\ Grows(output, o1)
  BY ReserveReadies DEF Inv
<1> HIDE DEF o1
<1>2. Ready(o2, asked - tag) /\ Grows(o1, o2)
  BY <1>0, <1>1, StoreKeeps
<1> HIDE DEF o2
<1>3. Ready(o3, asked - tag - bytes) /\ Grows(o2, o3)
  BY <1>0, <1>2, StoreKeeps
<1> HIDE DEF o3
<1>4. Good(output) /\ Good(o1) /\ Good(o2) /\ Good(o3)
  BY <1>1, <1>2, <1>3 DEF Inv, Ready
<1>5. Grows(output, o3)
  BY <1>1, <1>2, <1>3, <1>4, GrowthComposes
<1>6. o3 = Written(asked, tag, bytes)
  BY DEF o1, o2, o3, Written
<1> QED BY <1>4, <1>5, <1>6

(* The varint of a length, or of a number that is written, has at most     *)
(* five bytes.                                                             *)
LEMMA VarSizeBound ==
  /\ \A length \in Lengths :
       /\ VarSize(length) \in 1..5
       /\ VarSize(2 * length) \in 1..5
       /\ VarSize(Zig(length)) \in 1..5
  /\ \A num \in Numbers : VarSize(Zig(num)) \in 1..5
  /\ VarSize(Zig(-1)) \in 1..5
<1>1. ASSUME NEW length \in Lengths
      PROVE  length \in Uint /\ 2 * length \in Uint /\ Zig(length) = 2 * length
  BY IntAssumption, MaxUintAssumption DEF Uint, Zig
<1>2. \A num \in Numbers : Zig(num) \in Uint
  BY IntAssumption
<1>3. Zig(-1) \in Uint
  BY IntAssumption, MaxUintAssumption DEF Uint, Zig
<1> QED BY <1>1, <1>2, <1>3, VarSizeBounds

LEMMA UTF16StringIsGood ==
  ASSUME NEW o, Good(o), NEW length \in Lengths
  PROVE  Good(UTF16String(o, length)) /\ Grows(o, UTF16String(o, length))
<1> DEFINE asked == 2 * length + 8
           count == VarSize(2 * length) + 2 * length
           o1 == ensureCapacity(o, asked)
           o2 == Stored(o1, count)
<1>1. /\ length \in Nat /\ 2 * length + 16 <= MaxInt /\ MaxInt \in Nat
      /\ VarSize(2 * length) \in 1..5
  BY IntAssumption, VarSizeBound
<1>2. asked \in 0..MaxInt /\ asked \in Nat /\ count \in 0..asked
  BY <1>1
<1> HIDE DEF asked, count
<1>3. Ready(o1, asked) /\ Grows(o, o1)
  BY <1>2, ReserveReadies
<1> HIDE DEF o1
<1>4. Ready(o2, asked - count) /\ Grows(o1, o2)
  BY <1>2, <1>3, StoreKeeps
<1> HIDE DEF o2
<1>5. Good(o1) /\ Good(o2)
  BY <1>3, <1>4 DEF Ready
<1>6. Grows(o, o2)
  BY <1>3, <1>4, <1>5, GrowthComposes
<1>7. o2 = UTF16String(o, length)
  BY DEF o2, o1, asked, count, UTF16String
<1> QED BY <1>5, <1>6, <1>7

-----------------------------------------------------------------------------
LEMMA InitEstablishes == Init => Inv
BY IntAssumption DEF Init, Inv, Good, OutputSet

LEMMA StepPreserves == Inv /\ Next => Inv' /\ Grows(output, output')
<1> SUFFICES ASSUME Inv, Next PROVE Good(output') /\ Grows(output, output')
  BY DEF Inv
<1>0. /\ MaxInt \in Nat /\ 16 <= MaxInt
      /\ \A length \in Lengths : length \in Nat /\ 2 * length + 16 <= MaxInt
  BY IntAssumption
<1>1. CASE WriteConstant
  BY <1>0, <1>1, WrittenIsGood DEF WriteConstant
<1>2. CASE WriteHeader
  <2>1. PICK size \in Lengths : output' = Written(8, 1, VarSize(size))
    BY <1>2 DEF WriteHeader
  <2>2. VarSize(size) \in 1..5
    BY VarSizeBound
  <2> QED BY <1>0, <2>1, <2>2, WrittenIsGood
<1>3. CASE WriteInt
  <2>1. PICK num \in Numbers : output' = Written(12, 1, VarSize(Zig(num)))
    BY <1>3 DEF WriteInt
  <2>2. VarSize(Zig(num)) \in 1..5
    BY VarSizeBound
  <2> QED BY <1>0, <2>1, <2>2, WrittenIsGood
<1>4. CASE WriteFloat
  BY <1>0, <1>4, WrittenIsGood DEF WriteFloat
<1>5. CASE WriteLong
  BY <1>0, <1>5, WrittenIsGood DEF WriteLong
<1>6. CASE WriteKey
  BY <1>6, UTF16StringIsGood DEF WriteKey, Inv
<1>7. CASE WriteString
  <2>1. PICK length \in Lengths, asked \in {2, 12} :
          output' = UTF16String(Written(asked, 1, 0), length)
    BY <1>7 DEF WriteString
  <2>2. Good(Written(asked, 1, 0)) /\ Grows(output, Written(asked, 1, 0))
    BY <1>0, WrittenIsGood
  <2>3. Good(output') /\ Grows(Written(asked, 1, 0), output')
    BY <2>1, <2>2, UTF16StringIsGood
  <2> QED BY <2>2, <2>3, GrowthComposes DEF Inv
<1>8. CASE WriteBytes
  <2>1. PICK length \in Lengths : output' = Written(length + 16, 0, length)
    BY <1>8 DEF WriteBytes
  <2> QED BY <1>0, <2>1, WrittenIsGood
<1>9. CASE WriteStringUTF8
  <2>1. CASE output' = Written(8, 0, VarSize(Zig(-1)))
    BY <1>0, <2>1, VarSizeBound, WrittenIsGood
  <2>2. ASSUME NEW length \in Lengths,
               output' = Written(length + 12, 0, VarSize(Zig(length)) + length)
        PROVE  Good(output') /\ Grows(output, output')
    <3>1. /\ length + 12 \in 0..MaxInt
          /\ VarSize(Zig(length)) + length \in Nat
          /\ 0 + (VarSize(Zig(length)) + length) <= length + 12
      BY <1>0, VarSizeBound
    <3> QED BY <2>2, <3>1, WrittenIsGood
  <2> QED BY <1>9, <2>1, <2>2 DEF WriteStringUTF8
<1>10. CASE WriteFixedInt32
  BY <1>0, <1>10, WrittenIsGood DEF WriteFixedInt32
<1> QED
  BY <1>1, <1>2, <1>3, <1>4, <1>5, <1>6, <1>7, <1>8, <1>9, <1>10 DEF Next

LEMMA StutterPreserves == Inv /\ UNCHANGED vars => Inv'
BY DEF Inv, vars

LEMMA Invariance == Spec => []Inv
BY InitEstablishes, StepPreserves, StutterPreserves, PTL DEF Spec

-----------------------------------------------------------------------------
(* The position stays in the array and the capacity an int.                *)
THEOREM TypeCorrect == Spec => []TypeOK
<1>1. Inv => TypeOK
  BY IntAssumption DEF Inv, Good, OutputSet, TypeOK
<1> QED BY <1>1, Invariance, PTL

(* No reservation is too small for the stores after it and no overflow of  *)
(* the growth loses one: a write throws only when the output is beyond     *)
(* half of what an int can address.                                        *)
THEOREM FailuresAreTooLarge == Spec => []FailsOnlyTooLarge
<1>1. Inv => FailsOnlyTooLarge
  BY DEF Inv, Good, FailsOnlyTooLarge
<1> QED BY <1>1, Invariance, PTL

(* Copying is amortised: a new array has at least twice the old length.    *)
THEOREM AmortisedGrowth == Spec => Doubles
<1>1. Inv /\ [Next]_vars =>
        [output'.capacity # output.capacity =>
           output'.capacity >= 2 * output.capacity]_vars
  BY StepPreserves DEF Grows
<1> QED BY <1>1, Invariance, PTL DEF Spec, Doubles

-----------------------------------------------------------------------------
(* Numbers.                                                                *)

(* readUInt stops at the byte the C reader stops at. *)
LEMMA UIntSizeWritten ==
  ASSUME NEW num \in Uint, NEW bts,
         \A i \in 1..VarSize(num) : bts[i] = VarUint(num)[i]
  PROVE  UIntSize(bts) = VarSize(num)
<1> DEFINE size == VarSize(num)
           Q(k) == bts[k] < 128 /\ \A i \in 1..(k - 1) : bts[i] >= 128
<1>1. size \in 1..5
  BY VarSizeBounds
<1>2. /\ \A i \in 1..(size - 1) : bts[i] \in Byte /\ bts[i] >= 128
      /\ bts[size] \in Byte /\ bts[size] < 128
  BY VarUintContinues
<1> HIDE DEF size
<1>3. Q(size)
  BY <1>2
<1>4. ASSUME NEW k \in 1..5, Q(k) PROVE k = size
  <2>1. CASE k < size
    <3>1. k \in 1..(size - 1) BY <1>1, <2>1
    <3> QED BY <3>1, <1>2, <1>4 DEF Byte
  <2>2. CASE k > size
    <3>1. size \in 1..(k - 1) BY <1>1, <2>2
    <3> QED BY <3>1, <1>2, <1>4 DEF Byte
  <2> QED BY <2>1, <2>2, <1>1
<1>5. UIntSize(bts) = CHOOSE k \in 1..5 : Q(k)
  BY DEF UIntSize
<1> HIDE DEF Q
<1>6. (CHOOSE k \in 1..5 : Q(k)) \in 1..5 /\ Q(CHOOSE k \in 1..5 : Q(k))
  BY <1>1, <1>3
<1> QED BY <1>4, <1>5, <1>6 DEF size

LEMMA ReadsUnsigned ==
  ASSUME NEW num \in Uint, NEW bts,
         \A i \in 1..VarSize(num) : bts[i] = VarUint(num)[i]
  PROVE  readUInt(bts) = num /\ ReadUint(bts) = num
<1>1. UIntSize(bts) = VarSize(num) /\ ReadSize(bts) = VarSize(num) /\ ReadUint(bts) = num
  BY UIntSizeWritten, VarUintRoundTrip
<1>2. \A i \in 1..5 : UIntPart(bts, i) = Chunk(bts, i)
  BY <1>1 DEF UIntPart, Chunk
<1>3. readUInt(bts) = ReadUint(bts)
  BY <1>2 DEF readUInt, ReadUint
<1> QED BY <1>1, <1>3

(* The bytes of a number are where they were written, whatever follows.    *)
LEMMA AfterBegins ==
  ASSUME NEW bytes \in Seq(Byte)
  PROVE  \A i \in 1..Len(bytes) : After(bytes)[i] = bytes[i]
BY DEF After

LEMMA ReadsBackUnsigned ==
  ASSUME NEW num \in Uint
  PROVE  /\ readUInt(After(VarUint(num))) = num
         /\ ReadUint(After(VarUint(num))) = num
<1> DEFINE bts == After(VarUint(num))
<1>1. \A i \in 1..VarSize(num) : bts[i] = VarUint(num)[i]
  BY VarUintBytes, AfterBegins
<1> HIDE DEF bts
<1>2. readUInt(bts) = num /\ ReadUint(bts) = num
  BY <1>1, ReadsUnsigned
<1> QED BY <1>2 DEF bts

(* The four bytes of an int, put together as readFloat and readInt do.     *)
LEMMA FixedBytes ==
  ASSUME NEW num \in Int, -2147483648 <= num, num < 2147483648
  PROVE  LET b == Fixed(num)
         IN  /\ \A i \in 1..4 : b[i] \in Byte
             /\ num = 16777216 * Signed(b[1]) + 65536 * b[2] + 256 * b[3] + b[4]
<1> DEFINE q == num \div 256
           r == num \div 65536
           s == num \div 16777216
<1>1. num = 256 * q + (num % 256) BY SMT
<1>2. q = 256 * r + (q % 256)     BY SMT
<1>3. r = 256 * s + (r % 256)     BY SMT
<1>4. s \in -128..127             BY SMT
<1>5. q \in Int /\ r \in Int /\ s \in Int BY SMT
<1>6. /\ Fixed(num)[1] = s % 256 /\ Fixed(num)[2] = r % 256
      /\ Fixed(num)[3] = q % 256 /\ Fixed(num)[4] = num % 256
  BY DEF Fixed
<1> HIDE DEF q, r, s
<1>7. Signed(s % 256) = s
  BY SMT, <1>4 DEF Signed
<1>8. /\ (s % 256) \in Byte /\ (r % 256) \in Byte /\ (q % 256) \in Byte
      /\ (num % 256) \in Byte
  BY SMT, <1>5 DEF Byte
<1>9. num = 16777216 * s + 65536 * (r % 256) + 256 * (q % 256) + (num % 256)
  BY SMT, <1>1, <1>2, <1>3, <1>5
<1>10. \A i \in 1..4 : i = 1 \/ i = 2 \/ i = 3 \/ i = 4
  OBVIOUS
<1> QED BY <1>6, <1>7, <1>8, <1>9, <1>10

(* An int of the application is one of 32 bits. *)
LEMMA NumberBound ==
  ASSUME NEW num \in Numbers
  PROVE  num \in Int /\ -2147483648 <= num /\ num < 2147483648 /\ Zig(num) \in Uint
<1>1. num \in Int /\ Zig(num) \in Uint
  BY IntAssumption
<1>2. Zig(num) < 4294967296
  BY <1>1, UintBound
<1> QED BY <1>1, <1>2 DEF Zig

(* readInt adds bytes that it has not masked: each of the lower three with *)
(* its top bit set takes 256 of its weight from the number.                *)
LEMMA ReadsBackFixed ==
  ASSUME NEW num \in Numbers
  PROVE  /\ readFloatBits(After(Fixed(num))) = num
         /\ (readInt(After(Fixed(num))) = num) <=> (\A i \in 2..4 : Fixed(num)[i] < 128)
<1> DEFINE b == Fixed(num)
           bts == After(b)
<1>1. /\ \A i \in 1..4 : b[i] \in Byte
      /\ num = 16777216 * Signed(b[1]) + 65536 * b[2] + 256 * b[3] + b[4]
  BY NumberBound, FixedBytes
<1>2. b \in Seq(Byte) /\ Len(b) = 4
  <2>1. Len(b) = 4 /\ DOMAIN b = 1..4 /\ b = [i \in 1..4 |-> b[i]]
    BY DEF Fixed
  <2> HIDE DEF b
  <2>2. b \in [1..4 -> Byte]
    BY <1>1, <2>1
  <2> QED BY <2>1, <2>2
<1>3. \A i \in 1..4 : bts[i] = b[i]
  BY <1>2, AfterBegins
<1> HIDE DEF b, bts
<1>4. bts[1] = b[1] /\ bts[2] = b[2] /\ bts[3] = b[3] /\ bts[4] = b[4]
  BY <1>3
<1>5. readFloatBits(bts) = num
  BY <1>1, <1>4 DEF readFloatBits
<1> DEFINE w(i) == IF b[i] < 128 THEN 0 ELSE 256
<1>6. \A i \in 2..4 : b[i] \in Byte /\ Signed(b[i]) = b[i] - w(i)
  BY <1>1 DEF Signed, Byte
<1>7. b[2] \in Int /\ b[3] \in Int /\ b[4] \in Int /\ Signed(b[1]) \in Int
  BY <1>1 DEF Byte, Signed
<1>8. /\ Signed(b[2]) = b[2] - w(2) /\ Signed(b[3]) = b[3] - w(3)
      /\ Signed(b[4]) = b[4] - w(4)
  BY <1>6
<1>9. \A i \in 2..4 : w(i) \in {0, 256} /\ (w(i) = 0 <=> b[i] < 128)
  BY <1>6
<1> HIDE DEF w
<1>10. /\ w(2) \in {0, 256} /\ w(3) \in {0, 256} /\ w(4) \in {0, 256}
       /\ (\A i \in 2..4 : b[i] < 128) <=> w(2) = 0 /\ w(3) = 0 /\ w(4) = 0
  <2>1. \A i \in 2..4 : i = 2 \/ i = 3 \/ i = 4 OBVIOUS
  <2> QED BY <1>9, <2>1
<1>11. readInt(bts) = num - (65536 * w(2) + 256 * w(3) + w(4))
  BY <1>1, <1>4, <1>7, <1>8, <1>10 DEF readInt
<1>12. readInt(bts) = num <=> w(2) = 0 /\ w(3) = 0 /\ w(4) = 0
  BY <1>10, <1>11, NumberBound
<1> QED BY <1>5, <1>10, <1>12 DEF b, bts

(* The number written last, with its bytes. *)
Sent ==
  \/ sent = Nothing
  \/ \E num \in Uint :
       sent = [how |-> "unsigned", num |-> num, bytes |-> VarUint(num)]
  \/ \E num \in Int :
       /\ Zig(num) \in Uint
       /\ sent = [how |-> "signed", num |-> num, bytes |-> VarUint(Zig(num))]
  \/ \E how \in {"bits", "fixed"}, num \in Numbers :
       sent = [how |-> how, num |-> num, bytes |-> Fixed(num)]

LEMMA SentNext == Sent /\ [Next]_vars => Sent'
<1> SUFFICES ASSUME Sent, [Next]_vars PROVE Sent'
  OBVIOUS
<1>1. /\ \A length \in Lengths : length \in Uint /\ length \in Int /\ Zig(length) \in Uint
      /\ -1 \in Int /\ Zig(-1) \in Uint
      /\ \A num \in Numbers : num \in Int /\ Zig(num) \in Uint
  BY IntAssumption, MaxUintAssumption DEF Uint, Zig
<1>2. CASE \/ WriteConstant \/ WriteLong \/ WriteKey \/ WriteString \/ WriteBytes
  BY <1>2 DEF WriteConstant, WriteLong, WriteKey, WriteString, WriteBytes, Sent
<1>3. CASE WriteHeader
  BY <1>1, <1>3 DEF WriteHeader, Sent
<1>4. CASE WriteInt
  BY <1>1, <1>4 DEF WriteInt, Sent
<1>5. CASE WriteFloat
  BY <1>5 DEF WriteFloat, Sent
<1>6. CASE WriteStringUTF8
  BY <1>1, <1>6 DEF WriteStringUTF8, Sent
<1>7. CASE WriteFixedInt32
  BY <1>7 DEF WriteFixedInt32, Sent
<1>8. CASE UNCHANGED vars
  BY <1>8 DEF vars, Sent
<1> QED BY <1>2, <1>3, <1>4, <1>5, <1>6, <1>7, <1>8 DEF Next

LEMMA SentReadsBack == Sent => NumbersReadBack
<1> SUFFICES ASSUME Sent PROVE NumbersReadBack
  OBVIOUS
<1>1. CASE sent = Nothing
  BY <1>1 DEF Nothing, NumbersReadBack
<1>2. ASSUME NEW num \in Uint,
             sent = [how |-> "unsigned", num |-> num, bytes |-> VarUint(num)]
      PROVE  NumbersReadBack
  BY <1>2, ReadsBackUnsigned DEF NumbersReadBack
<1>3. ASSUME NEW num \in Int, Zig(num) \in Uint,
             sent = [how |-> "signed", num |-> num, bytes |-> VarUint(Zig(num))]
      PROVE  NumbersReadBack
  <2>1. /\ readUInt(After(VarUint(Zig(num)))) = Zig(num)
        /\ ReadUint(After(VarUint(Zig(num)))) = Zig(num)
        /\ Zag(Zig(num)) = num
    BY <1>3, ReadsBackUnsigned, ZigZagRoundTrip
  <2> QED BY <1>3, <2>1 DEF NumbersReadBack, readVarInt
<1>4. ASSUME NEW num \in Numbers, NEW how \in {"bits", "fixed"},
             sent = [how |-> how, num |-> num, bytes |-> Fixed(num)]
      PROVE  NumbersReadBack
  BY <1>4, ReadsBackFixed DEF NumbersReadBack
<1> QED BY <1>1, <1>2, <1>3, <1>4 DEF Sent

(* What Output wrote, Input reads: every unsigned and every signed number  *)
(* in its one to five bytes, and a float bit by bit, whatever follows in   *)
(* the stream; but readInt gives back only the numbers none of whose lower *)
(* three bytes has its top bit set.                                        *)
THEOREM NumbersAreReadBack == Spec => []NumbersReadBack
<1>1. Init => Sent
  BY DEF Init, Sent
<1> QED BY <1>1, SentNext, SentReadsBack, PTL DEF Spec

-----------------------------------------------------------------------------
(***************************************************************************)
(* The older C writer under sums that wrap, for every width of its         *)
(* numbers, growth constants and arguments.                                *)
(*                                                                         *)
(* The invariant says nothing of a buffer of which more was needed than    *)
(* the width can count twice (TooLarge), and of the others that position   *)
(* and length are what they would be without a width.                      *)
(***************************************************************************)

TooLarge(b) == 2 * b.most + Slack >= Modulus

BufferSet ==
  [position : Nat, length : 0..(Modulus - 1), most : Nat, outside : BOOLEAN]

InBlock(b) == ~b.outside /\ b.position <= b.length

Proportional(b) ==
  b.length \in NewLengths \/ b.length <= 2 * b.most + 2 * SmallLimit + Slack

GoodBuffer(b) == b \in BufferSet /\ (TooLarge(b) \/ (InBlock(b) /\ Proportional(b)))

(* There is room for `left' more bytes. *)
ReadyBuffer(b, left) == GoodBuffer(b) /\ (TooLarge(b) \/ b.position + left <= b.length)

BufferInv == GoodBuffer(buffer)

-----------------------------------------------------------------------------
LEMMA AsUintType ==
  ASSUME NEW num \in Nat
  PROVE  /\ AsUint(num) \in 0..(Modulus - 1)
         /\ num < Modulus => AsUint(num) = num
<1>1. Modulus \in Nat \ {0}
  BY WidthAssumption
<1> QED BY <1>1 DEF AsUint

(* No new length wraps as long as the buffer is not too large, and it      *)
(* covers what was asked for.                                              *)
LEMMA ResizeSuffices ==
  ASSUME NEW length \in 0..(Modulus - 1), NEW position \in 0..length,
         NEW size \in 0..(Modulus - 1), NEW most \in Nat,
         length < position + size, position + size <= most,
         2 * most + Slack < Modulus
  PROVE  LET new == AsUint(Growth(length, size) + length)
         IN  position + size <= new /\ new <= 2 * most + 2 * SmallLimit + Slack
<1>0. /\ Modulus \in Nat /\ SmallLimit \in Nat /\ Slack \in Nat
      /\ 2 * SmallLimit + 16 <= Modulus
  BY WidthAssumption
<1>1. CASE size < length /\ length < SmallLimit
  <2>1. Growth(length, size) = SmallLimit
    BY <1>1 DEF Growth
  <2>2. SmallLimit + length \in Nat /\ SmallLimit + length < Modulus
    BY <1>0, <1>1
  <2>3. AsUint(SmallLimit + length) = SmallLimit + length
    BY <2>2, AsUintType
  <2> QED BY <1>0, <1>1, <2>1, <2>3
<1>2. CASE size < length /\ ~(length < SmallLimit)
  <2>1. Growth(length, size) = length
    BY <1>2 DEF Growth
  <2>2. length + length \in Nat /\ length + length < Modulus
    BY <1>0
  <2>3. AsUint(length + length) = length + length
    BY <2>2, AsUintType
  <2> QED BY <1>0, <1>2, <2>1, <2>3
<1>3. CASE ~(size < length)
  <2>1. size + Slack \in Nat /\ size + Slack < Modulus
    BY <1>0
  <2>2. Growth(length, size) = size + Slack
    BY <1>3, <2>1, AsUintType DEF Growth
  <2>3. size + Slack + length \in Nat /\ size + Slack + length < Modulus
    BY <1>0, <1>3
  <2>4. AsUint(size + Slack + length) = size + Slack + length
    BY <2>3, AsUintType
  <2> QED BY <1>0, <1>3, <2>2, <2>4
<1> QED BY <1>1, <1>2, <1>3

(* A reservation is noted. *)
LEMMA NotedProperties ==
  ASSUME NEW b \in BufferSet, NEW size \in 0..(Modulus - 1)
  PROVE  /\ Noted(b, size) \in BufferSet
         /\ Noted(b, size).position = b.position
         /\ Noted(b, size).length = b.length
         /\ Noted(b, size).outside = b.outside
         /\ b.most <= Noted(b, size).most
         /\ b.position + size <= Noted(b, size).most
<1>1. /\ b.position \in Nat /\ b.most \in Nat /\ size \in Nat
  BY WidthAssumption DEF BufferSet
<1> QED BY <1>1 DEF Noted, BufferSet

LEMMA ResizeType ==
  ASSUME NEW c \in BufferSet, NEW size \in 0..(Modulus - 1)
  PROVE  /\ msg_buffer_resize(c, size) \in BufferSet
         /\ msg_buffer_resize(c, size).position = c.position
         /\ msg_buffer_resize(c, size).most = c.most
         /\ msg_buffer_resize(c, size).outside = c.outside
         /\ msg_buffer_resize(c, size).length = AsUint(Growth(c.length, size) + c.length)
<1>0. c.length \in Nat /\ size \in Nat /\ SmallLimit \in Nat /\ Slack \in Nat
  BY WidthAssumption DEF BufferSet
<1>1. AsUint(size + Slack) \in Nat
  BY <1>0, AsUintType, WidthAssumption
<1>2. Growth(c.length, size) + c.length \in Nat
  BY <1>0, <1>1 DEF Growth
<1>3. AsUint(Growth(c.length, size) + c.length) \in 0..(Modulus - 1)
  BY <1>2, AsUintType
<1> QED BY <1>3 DEF msg_buffer_resize, BufferSet

(* Whichever sum is compared, afterwards there is room. *)
LEMMA EnsureReadies ==
  ASSUME NEW b, GoodBuffer(b), NEW size \in 0..(Modulus - 1),
         NEW sum \in {b.position + size, AsUint(b.position + size)}
  PROVE  ReadyBuffer(EnsureSum(b, size, sum), size)
<1> DEFINE c == Noted(b, size)
           d == msg_buffer_resize(c, size)
<1>0. /\ Modulus \in Nat /\ SmallLimit \in Nat /\ Slack \in Nat /\ size \in Nat
      /\ b \in BufferSet /\ b.position \in Nat /\ b.most \in Nat
      /\ b.length \in 0..(Modulus - 1) /\ b.outside \in BOOLEAN
  BY WidthAssumption DEF GoodBuffer, BufferSet
<1>1. /\ c \in BufferSet /\ c.position = b.position /\ c.length = b.length
      /\ c.outside = b.outside /\ b.most <= c.most /\ b.position + size <= c.most
      /\ c.most \in Nat
  BY <1>0, NotedProperties DEF BufferSet
<1> HIDE DEF c
<1>2. /\ d \in BufferSet /\ d.position = c.position /\ d.most = c.most
      /\ d.outside = c.outside /\ d.length = AsUint(Growth(c.length, size) + c.length)
  BY <1>1, ResizeType
<1> HIDE DEF d
<1>3. CASE b.outside
  <2>1. EnsureSum(b, size, sum) = b
    BY <1>3 DEF EnsureSum
  <2> QED BY <1>3, <2>1 DEF ReadyBuffer, GoodBuffer, InBlock
<1>4. CASE ~b.outside /\ TooLarge(c)
  <2>1. EnsureSum(b, size, sum) = c \/ EnsureSum(b, size, sum) = d
    BY <1>4 DEF EnsureSum, c, d
  <2>2. TooLarge(d)
    BY <1>2, <1>4 DEF TooLarge
  <2> QED BY <1>1, <1>2, <1>4, <2>1, <2>2 DEF ReadyBuffer, GoodBuffer
<1>5. CASE ~b.outside /\ ~TooLarge(c)
  <2>1. 2 * c.most + Slack < Modulus
    BY <1>0, <1>1, <1>5 DEF TooLarge
  <2>2. ~TooLarge(b) /\ InBlock(b) /\ Proportional(b)
    BY <1>0, <1>1, <2>1 DEF TooLarge, GoodBuffer
  <2>3. sum = b.position + size
    <3>1. b.position + size \in Nat /\ b.position + size < Modulus
      BY <1>0, <1>1, <2>1
    <3> QED BY <3>1, AsUintType
  <2>4. CASE b.length < sum
    <3>1. EnsureSum(b, size, sum) = d
      BY <1>5, <2>4 DEF EnsureSum, c, d
    <3>2. b.position \in 0..b.length
      BY <1>0, <2>2 DEF InBlock
    <3>3. /\ b.position + size <= d.length
          /\ d.length <= 2 * c.most + 2 * SmallLimit + Slack
      BY <1>0, <1>1, <1>2, <2>1, <2>3, <2>4, <3>2, ResizeSuffices
    <3>4. d.length \in Nat /\ b.position <= d.length
      BY <1>0, <1>2, <3>3 DEF BufferSet
    <3> QED BY <1>1, <1>2, <1>5, <3>1, <3>3, <3>4 DEF ReadyBuffer, GoodBuffer, InBlock, Proportional
  <2>5. CASE ~(b.length < sum)
    <3>1. EnsureSum(b, size, sum) = c
      BY <1>5, <2>5 DEF EnsureSum, c
    <3>2. c.position + size <= c.length
      BY <1>0, <1>1, <2>3, <2>5
    <3>3. InBlock(c)
      BY <1>1, <2>2 DEF InBlock
    <3>4. Proportional(c)
      BY <1>0, <1>1, <2>2 DEF Proportional
    <3> QED BY <1>1, <3>1, <3>2, <3>3, <3>4 DEF ReadyBuffer, GoodBuffer
  <2> QED BY <2>4, <2>5
<1> QED BY <1>0, <1>3, <1>4, <1>5

(* A store takes its bytes out of what was reserved. *)
LEMMA BufferStoreKeeps ==
  ASSUME NEW b, NEW left \in Nat, NEW count \in 0..left, ReadyBuffer(b, left)
  PROVE  ReadyBuffer(Store(b, count), left - count)
<1>0. /\ b \in BufferSet /\ b.position \in Nat /\ b.most \in Nat /\ b.length \in Nat
      /\ b.outside \in BOOLEAN /\ count \in Nat
  BY WidthAssumption DEF ReadyBuffer, GoodBuffer, BufferSet
<1>1. CASE b.outside
  <2>1. Store(b, count) = b
    BY <1>1 DEF Store
  <2> QED BY <1>1, <2>1 DEF ReadyBuffer, GoodBuffer, InBlock
<1>2. CASE ~b.outside /\ b.position + count > b.length
  <2> DEFINE c == [b EXCEPT !.outside = TRUE]
  <2>1. Store(b, count) = c
    BY <1>2 DEF Store
  <2>2. TooLarge(b)
    BY <1>0, <1>2 DEF ReadyBuffer
  <2>3. c \in BufferSet /\ c.most = b.most
    BY <1>0 DEF BufferSet
  <2> HIDE DEF c
  <2>4. TooLarge(c)
    BY <2>2, <2>3 DEF TooLarge
  <2> QED BY <2>1, <2>3, <2>4 DEF ReadyBuffer, GoodBuffer
<1>3. CASE ~b.outside /\ b.position + count <= b.length
  <2> DEFINE c == [b EXCEPT !.position = @ + count]
  <2>1. Store(b, count) = c
    BY <1>0, <1>3 DEF Store
  <2>2. /\ c \in BufferSet /\ c.most = b.most /\ c.length = b.length
        /\ c.outside = b.outside /\ c.position = b.position + count
    BY <1>0 DEF BufferSet
  <2> HIDE DEF c
  <2>3. TooLarge(c) <=> TooLarge(b)
    BY <2>2 DEF TooLarge
  <2>4. InBlock(c)
    BY <1>3, <2>2 DEF InBlock
  <2>5. Proportional(c) <=> Proportional(b)
    BY <2>2 DEF Proportional
  <2>6. b.position + left <= b.length => c.position + (left - count) <= c.length
    BY <1>0, <2>2
  <2> QED BY <2>1, <2>2, <2>3, <2>4, <2>5, <2>6 DEF ReadyBuffer, GoodBuffer
<1> QED BY <1>0, <1>1, <1>2, <1>3

-----------------------------------------------------------------------------
LEMMA BytesAreGood ==
  ASSUME NEW b, GoodBuffer(b), NEW reserved \in 0..(Modulus - 1), NEW count \in 0..reserved
  PROVE  GoodBuffer(Bytes(b, reserved, count))
<1>1. reserved \in Nat
  BY WidthAssumption
<1>2. ReadyBuffer(Ensure(b, reserved), reserved)
  BY EnsureReadies DEF Ensure
<1>3. ReadyBuffer(Store(Ensure(b, reserved), count), reserved - count)
  BY <1>1, <1>2, BufferStoreKeeps
<1> QED BY <1>3 DEF Bytes, ReadyBuffer

LEMMA Constants ==
  /\ \A n \in 0..8 : n \in 0..(Modulus - 1)
  /\ PushedLengths \subseteq Uint /\ PushedNumbers \subseteq Uint
BY WidthAssumption

LEMMA TagIsGood ==
  ASSUME NEW b, GoodBuffer(b) PROVE GoodBuffer(Tag(b))
BY BytesAreGood, Constants DEF Tag

LEMMA UintIsGood ==
  ASSUME NEW b, GoodBuffer(b), NEW num \in Uint PROVE GoodBuffer(Uint5(b, num))
<1>1. VarSize(num) \in 0..5
  BY VarSizeBounds
<1>2. 5 \in 0..(Modulus - 1)
  BY Constants
<1>3. GoodBuffer(Bytes(b, 5, VarSize(num)))
  BY <1>1, <1>2, BytesAreGood
<1> QED BY <1>3 DEF Uint5

LEMMA StringIsGood ==
  ASSUME NEW b, GoodBuffer(b), NEW length \in PushedLengths PROVE GoodBuffer(String(b, length))
<1>1. length \in 0..(Modulus - 1) /\ length \in Nat /\ length \in 0..length
  BY WidthAssumption
<1>2. ReadyBuffer(EnsureInt(b, length), length)
  BY <1>1, EnsureReadies DEF EnsureInt
<1>3. ReadyBuffer(Store(EnsureInt(b, length), length), length - length)
  BY <1>1, <1>2, BufferStoreKeeps
<1> QED BY <1>3 DEF String, ReadyBuffer

-----------------------------------------------------------------------------
LEMMA BufferInitEstablishes == wson_buffer_new => BufferInv
BY WidthAssumption DEF wson_buffer_new, BufferInv, GoodBuffer, BufferSet, InBlock, Proportional

LEMMA BufferStepPreserves == BufferInv /\ wson_push => BufferInv'
<1> SUFFICES ASSUME GoodBuffer(buffer), wson_push PROVE GoodBuffer(buffer')
  BY DEF BufferInv
<1>0. GoodBuffer(Tag(buffer))
  BY TagIsGood
<1>1. CASE wson_push_byte
  BY <1>0, <1>1 DEF wson_push_byte
<1>2. CASE wson_push_type_boolean
  BY <1>2, BytesAreGood, Constants DEF wson_push_type_boolean
<1>3. CASE wson_push_uint
  BY <1>3, UintIsGood, Constants DEF wson_push_uint
<1>4. CASE wson_push_ulong
  BY <1>4, BytesAreGood, Constants DEF wson_push_ulong
<1>5. CASE wson_push_float
  BY <1>5, BytesAreGood, Constants DEF wson_push_float
<1>6. CASE wson_push_bytes
  BY <1>6, StringIsGood DEF wson_push_bytes
<1>7. CASE wson_push_type_int
  BY <1>0, <1>7, UintIsGood, Constants DEF wson_push_type_int
<1>8. CASE wson_push_type_long
  BY <1>0, <1>8, BytesAreGood, Constants DEF wson_push_type_long
<1>9. CASE wson_push_type_float
  BY <1>0, <1>9, BytesAreGood, Constants DEF wson_push_type_float
<1>10. CASE wson_push_property
  BY <1>10, UintIsGood, StringIsGood, Constants DEF wson_push_property
<1>11. CASE wson_push_type_string
  BY <1>0, <1>11, UintIsGood, StringIsGood, Constants DEF wson_push_type_string
<1>12. CASE wson_push_ensure_size
  <2>1. PICK size \in Sizes : buffer' = Ensure(buffer, size)
    BY <1>12 DEF wson_push_ensure_size
  <2>2. size \in 0..(Modulus - 1)
    BY WidthAssumption
  <2> QED BY <2>1, <2>2, EnsureReadies DEF Ensure, ReadyBuffer
<1> QED
  BY <1>1, <1>2, <1>3, <1>4, <1>5, <1>6, <1>7, <1>8, <1>9, <1>10, <1>11, <1>12
  DEF wson_push

LEMMA BufferInvariance == WsonBufferSpec => []BufferInv
<1>1. BufferInv /\ UNCHANGED buffer => BufferInv'
  BY DEF BufferInv
<1> QED BY <1>1, BufferInitEstablishes, BufferStepPreserves, PTL DEF WsonBufferSpec

-----------------------------------------------------------------------------
(* No store is outside of the block until twice what was needed, with the  *)
(* slack, is beyond the width of the numbers: msg_buffer_resize and the    *)
(* comparison before it may compute in 32 bits as long as that holds.      *)
THEOREM OutsideIsTooLarge == WsonBufferSpec => []OutsideOnlyTooLarge
<1>1. BufferInv => OutsideOnlyTooLarge
  BY DEF BufferInv, GoodBuffer, InBlock, TooLarge, OutsideOnlyTooLarge
<1> QED BY <1>1, BufferInvariance, PTL

(* A block that grew has at most twice the bytes needed, and a constant.   *)
THEOREM BlockInProportion == WsonBufferSpec => []InProportion
<1>1. BufferInv => InProportion
  <2>1. ASSUME BufferInv, 2 * buffer.most + Slack < Modulus
        PROVE  ~TooLarge(buffer)
    BY <2>1, WidthAssumption DEF BufferInv, GoodBuffer, BufferSet, TooLarge
  <2> QED BY <2>1 DEF BufferInv, GoodBuffer, Proportional, InProportion
<1> QED BY <1>1, BufferInvariance, PTL

-----------------------------------------------------------------------------
(***************************************************************************)
(* Texts of any length under every run of code units, and the buffer that  *)
(* their conversion goes into.                                             *)
(*                                                                         *)
(* The loops of the conversion and of the readers are runs of a round.  A  *)
(* reader is followed from piece to piece of the converting loop w: after  *)
(* n rounds of w it has read exactly what w has put out (OK(n) in the      *)
(* lemmas CharactersReadBack and QuotesReadBack).  The invariant of the    *)
(* specification is ConvertedText.                                         *)
(***************************************************************************)

-----------------------------------------------------------------------------
(* Loops.                                                                  *)

Runs(run, begin, round) ==
  /\ run \in [Nat -> States]
  /\ run[0] = begin
  /\ \A n \in Nat : run[n + 1] = round[run[n]]

LEMMA LoopRuns ==
  ASSUME NEW begin \in States, NEW round \in [States -> States]
  PROVE  Runs(Loop(begin, round), begin, round)
<1> DEFINE Meets(f) == f = [n \in Nat |-> IF n = 0 THEN begin ELSE round[f[n - 1]]]
           step == [p \in Nat \X States |-> round[p[2]]]
           g == Loop(begin, round)
<1>1. g = CHOOSE f : Meets(f)
  BY DEF Loop
<1>2. step \in [Nat \X States -> States]
  OBVIOUS
<1> HIDE DEF step
<1>3. PICK f \in [Nat -> States] : Follows(f, begin, step)
  BY <1>2, Recursion
<1>4. \A n \in Nat : f[n + 1] = round[f[n]]
  BY <1>3 DEF Follows, step
<1>5. \A n \in Nat : f[n] = IF n = 0 THEN begin ELSE round[f[n - 1]]
  <2> TAKE n \in Nat
  <2>1. CASE n = 0 BY <2>1, <1>3 DEF Follows
  <2>2. CASE n # 0
    <3>1. n - 1 \in Nat /\ (n - 1) + 1 = n BY <2>2
    <3> QED BY <3>1, <2>2, <1>4
  <2> QED BY <2>1, <2>2
<1>6. Meets(f)
  BY <1>3, <1>5
<1>7. Meets(g)
  <2> HIDE DEF Meets, g
  <2> QED BY <1>1, <1>6
<1> HIDE DEF g
<1>8. /\ DOMAIN g = Nat /\ g[0] = begin
      /\ \A n \in Nat : g[n + 1] = round[g[n]]
  BY <1>7
<1>9. Nat \subseteq {n \in Nat : g[n] \in States}
  <2> DEFINE P == {n \in Nat : g[n] \in States}
  <2>1. 0 \in P /\ \A n \in Nat : n \in P => n + 1 \in P
    BY <1>8
  <2> HIDE DEF P
  <2>2. Nat \subseteq P
    BY <2>1, Counting
  <2> QED BY <2>2 DEF P
<1>10. g \in [Nat -> States]
  BY <1>7, <1>9
<1> QED BY <1>8, <1>10 DEF Runs, g

(* A loop that does not go on stays where it is. *)
LEMMA LoopRests ==
  ASSUME NEW run, NEW begin, NEW round, Runs(run, begin, round),
         NEW m \in Nat, round[run[m]] = run[m], NEW n \in Nat, m <= n
  PROVE  run[n] = run[m]
<1> DEFINE P == {k \in Nat : run[m + k] = run[m]}
<1>1. 0 \in P
  OBVIOUS
<1>2. ASSUME NEW k \in Nat, k \in P PROVE k + 1 \in P
  <2>1. m + k \in Nat /\ m + (k + 1) = (m + k) + 1 /\ run[m + k] = run[m]
    BY <1>2
  <2> QED BY <2>1 DEF Runs
<1> HIDE DEF P
<1>3. Nat \subseteq P
  BY <1>1, <1>2, Counting
<1>4. n - m \in Nat /\ m + (n - m) = n
  OBVIOUS
<1> QED BY <1>3, <1>4 DEF P

(* One that does moves on with each round. *)
LEMMA LoopMoves ==
  ASSUME NEW run, NEW begin, NEW round, Runs(run, begin, round),
         \A s \in States : round[s] = s \/ round[s].at > s.at,
         NEW n \in Nat
  PROVE  run[n].at > n \/ round[run[n]] = run[n]
<1> DEFINE P == {k \in Nat : run[k].at > k \/ round[run[k]] = run[k]}
<1>1. \A k \in Nat : run[k] \in States /\ run[k].at \in Nat \ {0}
  BY DEF Runs, States
<1>2. 0 \in P
  BY <1>1
<1>3. ASSUME NEW k \in Nat, k \in P PROVE k + 1 \in P
  <2>1. run[k + 1] = round[run[k]] /\ run[k] \in States /\ k + 1 \in Nat
    BY <1>1 DEF Runs
  <2>2. run[k].at \in Nat /\ run[k + 1].at \in Nat
    BY <1>1, <2>1
  <2>3. CASE round[run[k]] = run[k]
    BY <2>1, <2>3
  <2>4. CASE round[run[k]].at > run[k].at /\ run[k].at > k
    <3>1. run[k + 1].at > k + 1
      BY <2>1, <2>2, <2>4
    <3> QED BY <2>1, <3>1
  <2> QED BY <1>3, <2>1, <2>3, <2>4
<1> HIDE DEF P
<1>4. Nat \subseteq P
  BY <1>2, <1>3, Counting
<1> QED BY <1>4 DEF P

-----------------------------------------------------------------------------
(* Characters.                                                             *)

CodePointSet == {c \in Nat : c <= 1114111}

LEMMA PairCodePoint ==
  ASSUME NEW txt \in Seq(Units), NEW i \in 1..Len(txt), Pair(txt, i)
  PROVE  /\ toCodePoint(txt[i], txt[i + 1]) \in CodePointSet
         /\ toCodePoint(txt[i], txt[i + 1]) > 65535
         /\ i + 1 \in 1..Len(txt) /\ isLowSurrogate(txt[i + 1])
<1>1. i + 1 \in 1..Len(txt) /\ txt[i] \in 55296..56319 /\ txt[i + 1] \in 56320..57343
  BY SMT DEF Pair, isHighSurrogate, isLowSurrogate
<1> DEFINE a == txt[i]
           b == txt[i + 1]
<1> HIDE DEF a, b
<1>2. a \in 55296..56319 /\ b \in 56320..57343
  BY <1>1 DEF a, b
<1>3. (a - 55296) * 1024 + (b - 56320) + 65536 \in Nat
  BY SMT, <1>2
<1>4. (a - 55296) * 1024 + (b - 56320) + 65536 > 65535
  BY SMT, <1>2
<1>5. (a - 55296) * 1024 + (b - 56320) + 65536 <= 1114111
  BY SMT, <1>2
<1>6. toCodePoint(a, b) \in CodePointSet /\ toCodePoint(a, b) > 65535
  BY SMT, <1>3, <1>4, <1>5 DEF toCodePoint, CodePointSet
<1> QED BY <1>1, <1>6 DEF a, b, Pair

(* The bytes of a character, by its size. *)
LEMMA TwoBytes ==
  ASSUME NEW c \in Nat, 127 < c, c <= 2047
  PROVE  LET b == 192 + c \div 64
         IN  /\ b \in 192..223 /\ b % 32 = c \div 64
             /\ c = (c \div 64) * 64 + (c % 64)
BY SMT

LEMMA ThreeBytes ==
  ASSUME NEW c \in Nat, 2047 < c, c <= 65535
  PROVE  LET b == 224 + c \div 4096
         IN  /\ b \in 224..239 /\ b % 16 = c \div 4096
             /\ c = (c \div 4096) * 4096 + ((c \div 64) % 64) * 64 + (c % 64)
BY SMT

LEMMA FourBytes ==
  ASSUME NEW c \in Nat, 65535 < c, c <= 1114111
  PROVE  LET b == 240 + c \div 262144
         IN  /\ b \in 240..247 /\ b % 8 = c \div 262144
             /\ c = (c \div 262144) * 262144 + ((c \div 4096) % 64) * 4096
                      + ((c \div 64) % 64) * 64 + (c % 64)
BY SMT

LEMMA TrailByte ==
  ASSUME NEW c \in Nat, NEW w \in Nat \ {0}
  PROVE  /\ Trail(c, w) \in 128..191 /\ Trail(c, w) % 64 = (c \div w) % 64
         /\ c \div 1 = c
<1>1. c \div w \in Nat
  BY SMT
<1> DEFINE q == c \div w
<1> HIDE DEF q
<1>2. 128 + (q % 64) \in 128..191 /\ (128 + (q % 64)) % 64 = q % 64
  BY SMT, <1>1 DEF q
<1>3. c \div 1 = c
  BY SMT
<1> QED BY <1>2, <1>3 DEF Trail, q

(* What a character is converted to. *)
LEMMA Utf8Bytes ==
  ASSUME NEW c \in CodePointSet
  PROVE  /\ Utf8(c) \in Seq(Nat) /\ Len(Utf8(c)) \in 1..4
         /\ (c <= 65535 => Len(Utf8(c)) <= 3)
         /\ (c <= 127 => Utf8(c) = <<c>>)
         /\ (c > 127 => \A k \in 1..Len(Utf8(c)) : Utf8(c)[k] >= 128)
<1>1. c \in Nat /\ c <= 1114111
  BY SMT DEF CodePointSet
<1>2. ASSUME NEW w \in Nat \ {0}
      PROVE  Trail(c, w) \in Nat /\ Trail(c, w) >= 128
  <2>1. Trail(c, w) \in 128..191
    BY <1>1, TrailByte
  <2> QED BY SMT, <2>1
<1>3. CASE c <= 127
  <2>1. Utf8(c) = <<c>>
    BY SMT, <1>1, <1>3 DEF Utf8
  <2> QED BY SMT, <1>1, <1>3, <2>1
<1>4. CASE 127 < c /\ c <= 2047
  <2>1. Utf8(c) = <<192 + c \div 64, Trail(c, 1)>>
    BY SMT, <1>1, <1>4 DEF Utf8
  <2>2. 192 + c \div 64 \in 192..223
    BY SMT, <1>1, <1>4, TwoBytes
  <2> QED BY SMT, <1>1, <1>4, <1>2, <2>1, <2>2
<1>5. CASE 2047 < c /\ c <= 65535
  <2>1. Utf8(c) = <<224 + c \div 4096, Trail(c, 64), Trail(c, 1)>>
    BY SMT, <1>1, <1>5 DEF Utf8
  <2>2. 224 + c \div 4096 \in 224..239
    BY SMT, <1>1, <1>5, ThreeBytes
  <2> QED BY SMT, <1>1, <1>5, <1>2, <2>1, <2>2
<1>6. CASE 65535 < c
  <2>1. Utf8(c) = <<240 + c \div 262144, Trail(c, 4096), Trail(c, 64), Trail(c, 1)>>
    BY SMT, <1>1, <1>6 DEF Utf8
  <2>2. 240 + c \div 262144 \in 240..247
    BY SMT, <1>1, <1>6, FourBytes
  <2> QED BY SMT, <1>1, <1>6, <1>2, <2>1, <2>2
<1> QED BY SMT, <1>1, <1>3, <1>4, <1>5, <1>6

(* A UTF-8 reader takes that for the character. *)
LEMMA Utf8Reads ==
  ASSUME NEW c \in CodePointSet, NEW bts, NEW i \in Nat \ {0},
         \A k \in 1..Len(Utf8(c)) : ByteAt(bts, i + k - 1) = Utf8(c)[k]
  PROVE  /\ Utf8Size(ByteAt(bts, i)) = Len(Utf8(c))
         /\ ReadCodePoint(bts, i) = c
<1>1. c \in Nat /\ c <= 1114111
  BY SMT DEF CodePointSet
<1>2. CASE c <= 127
  <2>1. Utf8(c) = <<c>>
    BY SMT, <1>1, <1>2 DEF Utf8
  <2>2. ByteAt(bts, i) = c
    BY SMT, <2>1
  <2>3. Utf8Size(c) = 1
    BY SMT, <1>1, <1>2 DEF Utf8Size
  <2> QED BY SMT, <2>1, <2>2, <2>3 DEF ReadCodePoint
<1>3. CASE 127 < c /\ c <= 2047
  <2> DEFINE lead == 192 + c \div 64
  <2>1. Utf8(c) = <<lead, Trail(c, 1)>>
    BY SMT, <1>1, <1>3 DEF Utf8
  <2>2. lead \in 192..223 /\ lead % 32 = c \div 64 /\ c = (c \div 64) * 64 + (c % 64)
    BY SMT, <1>1, <1>3, TwoBytes
  <2> HIDE DEF lead
  <2>3. ByteAt(bts, i) = lead /\ ByteAt(bts, i + 1) = Trail(c, 1)
    BY SMT, <2>1
  <2>4. Utf8Size(lead) = 2
    BY SMT, <2>2 DEF Utf8Size
  <2>5. ReadCodePoint(bts, i) = (lead % 32) * 64 + (Trail(c, 1) % 64)
    BY SMT, <2>3, <2>4 DEF ReadCodePoint
  <2>6. Trail(c, 1) % 64 = c % 64
    BY SMT, <1>1, TrailByte
  <2> QED BY SMT, <2>1, <2>2, <2>3, <2>4, <2>5, <2>6
<1>4. CASE 2047 < c /\ c <= 65535
  <2> DEFINE lead == 224 + c \div 4096
  <2>1. Utf8(c) = <<lead, Trail(c, 64), Trail(c, 1)>>
    BY SMT, <1>1, <1>4 DEF Utf8
  <2>2. /\ lead \in 224..239 /\ lead % 16 = c \div 4096
        /\ c = (c \div 4096) * 4096 + ((c \div 64) % 64) * 64 + (c % 64)
    BY SMT, <1>1, <1>4, ThreeBytes
  <2> HIDE DEF lead
  <2>3. /\ ByteAt(bts, i) = lead /\ ByteAt(bts, i + 1) = Trail(c, 64)
        /\ ByteAt(bts, i + 2) = Trail(c, 1)
    BY SMT, <2>1
  <2>4. Utf8Size(lead) = 3
    BY SMT, <2>2 DEF Utf8Size
  <2>5. ReadCodePoint(bts, i) =
          (lead % 16) * 4096 + (Trail(c, 64) % 64) * 64 + (Trail(c, 1) % 64)
    BY SMT, <2>3, <2>4 DEF ReadCodePoint
  <2>6. Trail(c, 1) % 64 = c % 64 /\ Trail(c, 64) % 64 = (c \div 64) % 64
    BY SMT, <1>1, TrailByte
  <2> QED BY SMT, <2>1, <2>2, <2>3, <2>4, <2>5, <2>6
<1>5. CASE 65535 < c
  <2> DEFINE lead == 240 + c \div 262144
  <2>1. Utf8(c) = <<lead, Trail(c, 4096), Trail(c, 64), Trail(c, 1)>>
    BY SMT, <1>1, <1>5 DEF Utf8
  <2>2. /\ lead \in 240..247 /\ lead % 8 = c \div 262144
        /\ c = (c \div 262144) * 262144 + ((c \div 4096) % 64) * 4096
                 + ((c \div 64) % 64) * 64 + (c % 64)
    BY SMT, <1>1, <1>5, FourBytes
  <2> HIDE DEF lead
  <2>3. /\ ByteAt(bts, i) = lead /\ ByteAt(bts, i + 1) = Trail(c, 4096)
        /\ ByteAt(bts, i + 2) = Trail(c, 64) /\ ByteAt(bts, i + 3) = Trail(c, 1)
    BY SMT, <2>1
  <2>4. Utf8Size(lead) = 4
    BY SMT, <2>2 DEF Utf8Size
  <2>5. ReadCodePoint(bts, i) =
          (lead % 8) * 262144 + (Trail(c, 4096) % 64) * 4096
            + (Trail(c, 64) % 64) * 64 + (Trail(c, 1) % 64)
    BY SMT, <2>3, <2>4 DEF ReadCodePoint
  <2>6. /\ Trail(c, 1) % 64 = c % 64 /\ Trail(c, 64) % 64 = (c \div 64) % 64
        /\ Trail(c, 4096) % 64 = (c \div 4096) % 64
    BY SMT, <1>1, TrailByte
  <2> QED BY SMT, <2>1, <2>2, <2>3, <2>4, <2>5, <2>6
<1> QED BY SMT, <1>1, <1>2, <1>3, <1>4, <1>5
-----------------------------------------------------------------------------
(* The conversion, piece by piece.                                         *)

(* The character that begins with unit i, its units and its bytes. *)
Char(txt, i) == IF Pair(txt, i) THEN toCodePoint(txt[i], txt[i + 1]) ELSE txt[i]
Width(txt, i) == IF Pair(txt, i) THEN 2 ELSE 1
Piece(txt, i, quote) ==
  IF quote /\ ~Pair(txt, i) THEN Quoted(txt[i]) ELSE Utf8(Char(txt, i))

LEMMA Few ==
  ASSUME NEW k \in 1..4
  PROVE  k \in Nat /\ 1 <= k /\ k <= 4 /\ k <= 3 * 2
BY SMT

LEMMA UnitIs ==
  ASSUME NEW u \in Units
  PROVE  u \in Nat /\ u <= 65535
BY SMT DEF Units

LEMMA CharIs ==
  ASSUME NEW txt \in Seq(Units), NEW i \in 1..Len(txt)
  PROVE  /\ Char(txt, i) \in CodePointSet
         /\ Width(txt, i) \in {1, 2} /\ i + Width(txt, i) <= Len(txt) + 1
         /\ Pair(txt, i) <=> Width(txt, i) = 2
         /\ ~Pair(txt, i) => Char(txt, i) = txt[i] /\ txt[i] <= 65535
<1>1. CASE Pair(txt, i)
  <2>1. Char(txt, i) = toCodePoint(txt[i], txt[i + 1]) /\ Width(txt, i) = 2
    BY <1>1 DEF Char, Width
  <2>2. Char(txt, i) \in CodePointSet /\ i + 1 \in 1..Len(txt)
    BY <1>1, <2>1, PairCodePoint
  <2> QED BY SMT, <1>1, <2>1, <2>2
<1>2. CASE ~Pair(txt, i)
  <2>1. Char(txt, i) = txt[i] /\ Width(txt, i) = 1
    BY <1>2 DEF Char, Width
  <2>2. txt[i] \in Units
    OBVIOUS
  <2>3. txt[i] \in Nat /\ txt[i] <= 65535
    BY <2>2, UnitIs
  <2>4. txt[i] \in CodePointSet
    BY SMT, <2>3 DEF CodePointSet
  <2> QED BY <1>2, <2>1, <2>3, <2>4
<1> QED BY <1>1, <1>2

LEMMA QuotedIs ==
  ASSUME NEW ch \in CodePointSet
  PROVE  \/ /\ Quoted(ch) = Utf8(ch) /\ ch # Quote /\ ch # Backslash
         \/ /\ ch <= 127
            /\ \E x \in Nat : Quoted(ch) = <<Backslash, x>> /\ Unescaped(x) = ch
<1>0. ch \in Nat
  BY SMT DEF CodePointSet
<1>1. CASE ch \in {Quote, Backslash}
  <2>1. Quoted(ch) = <<Backslash, ch>>
    BY <1>1 DEF Quoted
  <2>2. \A c \in DOMAIN Letter : Letter[c] # ch
    BY SMT, <1>1 DEF Letter, Quote, Backslash
  <2>3. Unescaped(ch) = ch
    BY <2>2 DEF Unescaped
  <2> QED BY SMT, <1>0, <1>1, <2>1, <2>3 DEF Quote, Backslash
<1>2. CASE ch \notin {Quote, Backslash} /\ ch \in DOMAIN Letter
  <2> DEFINE x == Letter[ch]
  <2>1. Quoted(ch) = <<Backslash, x>>
    BY <1>2 DEF Quoted
  <2>2. x \in Nat /\ \A c \in DOMAIN Letter : Letter[c] = x => c = ch
    BY SMT, <1>2 DEF Letter
  <2>3. Unescaped(x) = ch
    BY <1>2, <2>2 DEF Unescaped
  <2>4. ch <= 127
    BY SMT, <1>2 DEF Letter
  <2> QED BY <2>1, <2>2, <2>3, <2>4
<1>3. CASE ch \notin {Quote, Backslash} /\ ch \notin DOMAIN Letter
  BY <1>3 DEF Quoted
<1> QED BY <1>1, <1>2, <1>3

LEMMA PieceIs ==
  ASSUME NEW txt \in Seq(Units), NEW i \in 1..Len(txt), NEW quote \in BOOLEAN
  PROVE  /\ Piece(txt, i, quote) \in Seq(Nat)
         /\ Len(Piece(txt, i, quote)) \in 1..4
         /\ Len(Piece(txt, i, quote)) <= 3 * Width(txt, i)
<1>1. /\ Char(txt, i) \in CodePointSet
      /\ Pair(txt, i) => Width(txt, i) = 2
      /\ ~Pair(txt, i) => Char(txt, i) = txt[i] /\ txt[i] <= 65535 /\ Width(txt, i) = 1
  BY CharIs
<1> DEFINE P == Piece(txt, i, quote)
           U == Utf8(Char(txt, i))
<1>2. U \in Seq(Nat) /\ Len(U) \in 1..4 /\ (Char(txt, i) <= 65535 => Len(U) <= 3)
  BY <1>1, Utf8Bytes
<1>3. CASE P = U
  <2> HIDE DEF P, U
  <2>1. Len(U) <= 3 * Width(txt, i)
    <3>1. CASE Pair(txt, i)
      <4>1. Width(txt, i) = 2
        BY <1>1, <3>1
      <4>2. Len(U) <= 3 * 2
        <5>1. Len(U) \in 1..4
          BY <1>2
        <5> QED BY <5>1, Few
      <4> QED BY <4>1, <4>2
    <3>2. CASE ~Pair(txt, i)
      <4>1. Width(txt, i) = 1 /\ Len(U) <= 3
        BY <1>1, <1>2, <3>2
      <4> QED BY SMT, <4>1
    <3> QED BY <3>1, <3>2
  <2>2. P \in Seq(Nat) /\ Len(P) \in 1..4 /\ Len(P) <= 3 * Width(txt, i)
    BY <1>2, <1>3, <2>1
  <2> QED BY <2>2 DEF P
<1>4. CASE P # U
  <2>1. ~Pair(txt, i) /\ P = Quoted(txt[i])
    BY <1>4 DEF Piece
  <2>2. P # Utf8(txt[i]) /\ txt[i] \in CodePointSet
    BY <1>1, <1>4, <2>1
  <2>3. PICK x \in Nat : P = <<Backslash, x>>
    BY <2>1, <2>2, QuotedIs
  <2>4. P \in Seq(Nat) /\ Len(P) = 2
    BY SMT, <2>3 DEF Backslash
  <2> HIDE DEF P
  <2>5. P \in Seq(Nat) /\ Len(P) \in 1..4 /\ Len(P) <= 3 * Width(txt, i)
    BY SMT, <1>1, <2>1, <2>4
  <2> QED BY <2>5 DEF P
<1> QED BY <1>3, <1>4

LEMMA ConvertRoundIs ==
  ASSUME NEW txt \in Seq(Units), NEW quote \in BOOLEAN
  PROVE  /\ ConvertRound(txt, quote) \in [States -> States]
         /\ \A s \in States :
              ConvertRound(txt, quote)[s] =
                IF s.at > Len(txt) THEN s
                ELSE [at |-> s.at + Width(txt, s.at),
                      out |-> s.out \o Piece(txt, s.at, quote)]
<1> DEFINE G(s) == IF s.at > Len(txt) THEN s
                   ELSE [at |-> s.at + Width(txt, s.at),
                         out |-> s.out \o Piece(txt, s.at, quote)]
           H(s) == LET i == s.at
                   IN  IF i > Len(txt) THEN s
         ELSE IF Pair(txt, i)
         THEN [at |-> i + 2, out |-> s.out \o Utf8(toCodePoint(txt[i], txt[i + 1]))]
         ELSE [at |-> i + 1,
               out |-> s.out \o (IF quote THEN Quoted(txt[i]) ELSE Utf8(txt[i]))]
<1>1. ConvertRound(txt, quote) = [s \in States |-> H(s)]
  BY DEF ConvertRound
<1>2. ASSUME NEW s \in States
      PROVE  H(s) = G(s) /\ G(s) \in States
  <2>1. s.at \in Nat \ {0} /\ s.out \in Seq(Nat)
    BY DEF States
  <2>2. H(s) = G(s)
    BY DEF Piece, Width, Char
  <2>3. CASE s.at > Len(txt)
    BY <2>3
  <2>4. CASE ~(s.at > Len(txt))
    <3> DEFINE i == s.at
               p == s.out
               P == Piece(txt, i, quote)
    <3>1. i \in 1..Len(txt)
      BY SMT, <2>1, <2>4
    <3>2. P \in Seq(Nat) /\ Width(txt, i) \in {1, 2}
      BY <3>1, PieceIs, CharIs
    <3>3. p \o P \in Seq(Nat)
      <4> HIDE DEF P, p
      <4> QED BY SMT, <2>1, <3>2 DEF p
    <3>4. i + Width(txt, i) \in Nat \ {0}
      BY SMT, <3>1, <3>2
    <3> HIDE DEF P, p, i
    <3>5. [at |-> i + Width(txt, i), out |-> p \o P] \in States
      BY <3>3, <3>4 DEF States
    <3>6. [at |-> s.at + Width(txt, s.at), out |-> s.out \o Piece(txt, s.at, quote)] \in States
      BY <3>5 DEF P, p, i
    <3> QED BY <2>2, <2>4, <3>6
  <2> QED BY <2>2, <2>3, <2>4
<1> HIDE DEF G, H
<1>3. ConvertRound(txt, quote) = [s \in States |-> G(s)]
  BY <1>1, <1>2
<1> QED BY <1>2, <1>3 DEF G

(* One loop ends in one state. *)
LEMMA LoopEnds ==
  ASSUME NEW run, NEW begin, NEW round, Runs(run, begin, round),
         NEW m \in Nat, round[run[m]] = run[m], NEW n \in Nat, round[run[n]] = run[n]
  PROVE  run[n] = run[m]
<1>1. CASE m <= n BY <1>1, LoopRests
<1>2. CASE n <= m BY <1>2, LoopRests
<1> QED BY <1>1, <1>2

Before(s, t) == Len(s) <= Len(t) /\ \A k \in 1..Len(s) : t[k] = s[k]

(* The converting loop w. *)
Converts(w, txt, quote) ==
  /\ w[0] = Begin(1)
  /\ \A n \in Nat :
       /\ w[n] \in States
       /\ w[n].at <= Len(txt) + 1
       /\ Len(w[n].out) <= 3 * (w[n].at - 1)
  /\ \A n \in Nat : w[n].at > Len(txt) => w[n + 1] = w[n] /\ w[n] = w[Len(txt)]
  /\ \A n \in Nat :
       w[n].at <= Len(txt) =>
         /\ w[n + 1] = [at |-> w[n].at + Width(txt, w[n].at),
                        out |-> w[n].out \o Piece(txt, w[n].at, quote)]
         /\ Before(w[n].out \o Piece(txt, w[n].at, quote), w[Len(txt)].out)
  /\ w[Len(txt)].at = Len(txt) + 1

LEMMA Converting ==
  ASSUME NEW txt \in Seq(Units), NEW quote \in BOOLEAN
  PROVE  Converts(Loop(Begin(1), ConvertRound(txt, quote)), txt, quote)
<1> DEFINE round == ConvertRound(txt, quote)
           w == Loop(Begin(1), round)
           N == Len(txt)
<1>1. Begin(1) \in States /\ Begin(1).at = 1 /\ Begin(1).out = <<>>
  BY SMT DEF Begin, States
<1>2. /\ round \in [States -> States]
      /\ \A s \in States :
              round[s] =
                IF s.at > N THEN s
                ELSE [at |-> s.at + Width(txt, s.at),
                      out |-> s.out \o Piece(txt, s.at, quote)]
  BY ConvertRoundIs
<1> HIDE DEF round
<1>3. Runs(w, Begin(1), round)
  BY <1>1, <1>2, LoopRuns
<1> HIDE DEF w
<1>4. N \in Nat
  BY DEF N
<1> HIDE DEF N
<1>5. \A n \in Nat : w[n] \in States /\ w[n].at \in Nat \ {0} /\ w[n].out \in Seq(Nat)
  BY <1>3 DEF Runs, States
<1>6. w[0] = Begin(1) /\ \A n \in Nat : w[n + 1] = round[w[n]]
  BY <1>3 DEF Runs
<1>7. ASSUME NEW n \in Nat, w[n].at > N
      PROVE  w[n + 1] = w[n] /\ round[w[n]] = w[n]
  BY <1>2, <1>5, <1>6, <1>7
<1>8. ASSUME NEW n \in Nat, ~(w[n].at > N)
      PROVE  /\ w[n].at \in 1..N
             /\ Width(txt, w[n].at) \in {1, 2} /\ w[n].at + Width(txt, w[n].at) <= N + 1
             /\ Piece(txt, w[n].at, quote) \in Seq(Nat)
             /\ Len(Piece(txt, w[n].at, quote)) <= 3 * Width(txt, w[n].at)
             /\ w[n + 1].at = w[n].at + Width(txt, w[n].at)
             /\ w[n + 1].out = w[n].out \o Piece(txt, w[n].at, quote)
             /\ w[n + 1] = [at |-> w[n].at + Width(txt, w[n].at),
                            out |-> w[n].out \o Piece(txt, w[n].at, quote)]
  <2>1. w[n].at \in 1..Len(txt) /\ w[n].at \in 1..N
    BY SMT, <1>4, <1>5, <1>8 DEF N
  <2>2. /\ Width(txt, w[n].at) \in {1, 2} /\ w[n].at + Width(txt, w[n].at) <= N + 1
        /\ Piece(txt, w[n].at, quote) \in Seq(Nat)
        /\ Len(Piece(txt, w[n].at, quote)) <= 3 * Width(txt, w[n].at)
    BY <2>1, CharIs, PieceIs DEF N
  <2>3. w[n + 1] = [at |-> w[n].at + Width(txt, w[n].at),
                    out |-> w[n].out \o Piece(txt, w[n].at, quote)]
    BY <1>2, <1>5, <1>6, <1>8
  <2>4. /\ w[n + 1].at = w[n].at + Width(txt, w[n].at)
        /\ w[n + 1].out = w[n].out \o Piece(txt, w[n].at, quote)
    <3> DEFINE a == w[n].at + Width(txt, w[n].at)
               b == w[n].out \o Piece(txt, w[n].at, quote)
    <3> HIDE DEF a, b
    <3>1. w[n + 1] = [at |-> a, out |-> b]
      BY <2>3 DEF a, b
    <3>2. w[n + 1].at = a /\ w[n + 1].out = b
      BY <3>1
    <3> QED BY <3>2 DEF a, b
  <2> QED BY <2>1, <2>2, <2>3, <2>4
<1>9. Nat \subseteq {n \in Nat : w[n].at <= N + 1 /\ Len(w[n].out) <= 3 * (w[n].at - 1)}
  <2> DEFINE P == {n \in Nat : w[n].at <= N + 1 /\ Len(w[n].out) <= 3 * (w[n].at - 1)}
  <2>1. 0 \in P
    <3>1. w[0].at = 1 /\ w[0].out = <<>>
      BY <1>1, <1>6
    <3>2. 1 <= N + 1 /\ 0 <= 3 * (1 - 1)
      BY SMT, <1>4
    <3> QED BY <3>1, <3>2
  <2>2. ASSUME NEW n \in Nat, n \in P PROVE n + 1 \in P
    <3>1. CASE w[n].at > N
      BY <1>7, <2>2, <3>1
    <3>2. CASE ~(w[n].at > N)
      <4> DEFINE A == w[n].out
                 B == Piece(txt, w[n].at, quote)
                 a == w[n].at
                 d == Width(txt, w[n].at)
      <4>1. /\ A \in Seq(Nat) /\ B \in Seq(Nat) /\ d \in {1, 2} /\ a + d <= N + 1
            /\ Len(B) <= 3 * d /\ a \in Nat /\ Len(A) <= 3 * (a - 1)
        BY <1>5, <1>8, <2>2, <3>2
      <4>2. w[n + 1].at = a + d /\ w[n + 1].out = A \o B
        BY <1>8, <3>2
      <4> HIDE DEF A, B, a, d
      <4>3. Len(A \o B) = Len(A) + Len(B) /\ Len(A) \in Nat /\ Len(B) \in Nat
        BY SMT, <4>1
      <4>4. Len(A \o B) <= 3 * ((a + d) - 1)
        BY SMT, <4>1, <4>3
      <4> QED BY <4>1, <4>2, <4>4
    <3> QED BY <3>1, <3>2
  <2> HIDE DEF P
  <2>3. Nat \subseteq P
    BY <2>1, <2>2, Counting
  <2> QED BY <2>3 DEF P
<1>10. w[N].at = N + 1 /\ round[w[N]] = w[N]
  <2>1. \A s \in States : round[s] = s \/ round[s].at > s.at
    <3> TAKE s \in States
    <3>1. CASE s.at > N
      BY <1>2, <3>1
    <3>2. CASE ~(s.at > N)
      <4>1. s.at \in 1..N
        BY SMT, <1>4, <3>2 DEF States
      <4>2. Width(txt, s.at) \in {1, 2}
        BY <4>1, CharIs DEF N
      <4>3. round[s].at = s.at + Width(txt, s.at)
        <5>1. round[s] = [at |-> s.at + Width(txt, s.at),
                          out |-> s.out \o Piece(txt, s.at, quote)]
          BY <1>2, <3>2
        <5> QED BY <5>1
      <4> QED BY SMT, <4>1, <4>2, <4>3
    <3> QED BY <3>1, <3>2
  <2>2. w[N].at > N \/ round[w[N]] = w[N]
    BY <1>3, <1>4, <2>1, LoopMoves
  <2>3. w[N].at > N
    <3> SUFFICES ASSUME ~(w[N].at > N), round[w[N]] = w[N] PROVE FALSE
      BY <2>2
    <3>1. /\ w[N + 1].at = w[N].at + Width(txt, w[N].at)
          /\ Width(txt, w[N].at) \in {1, 2} /\ w[N].at \in 1..N
      BY <1>4, <1>8
    <3>2. w[N + 1] = w[N]
      BY <1>4, <1>6
    <3> QED BY SMT, <3>1, <3>2
  <2>4. w[N].at <= N + 1
    BY <1>4, <1>9
  <2> QED BY SMT, <1>4, <1>5, <1>7, <2>3, <2>4
<1>11. ASSUME NEW n \in Nat, w[n].at > N PROVE w[n] = w[N]
  BY <1>3, <1>4, <1>7, <1>10, <1>11, LoopEnds
<1>12. ASSUME NEW n \in Nat
       PROVE  Nat \subseteq {d \in Nat : Before(w[n].out, w[n + d].out)}
  <2> DEFINE P == {d \in Nat : Before(w[n].out, w[n + d].out)}
  <2>1. 0 \in P
    BY <1>5 DEF Before
  <2>2. ASSUME NEW d \in Nat, d \in P PROVE d + 1 \in P
    <3> DEFINE m == n + d
    <3>1. m \in Nat /\ n + (d + 1) = m + 1 /\ Before(w[n].out, w[m].out)
      BY <2>2
    <3> HIDE DEF m
    <3>2. CASE w[m].at > N
      BY <1>7, <3>1, <3>2
    <3>3. CASE ~(w[m].at > N)
      <4> DEFINE A == w[n].out
                 B == w[m].out
                 C == Piece(txt, w[m].at, quote)
      <4>1. /\ A \in Seq(Nat) /\ B \in Seq(Nat) /\ C \in Seq(Nat)
            /\ w[m + 1].out = B \o C /\ Before(A, B)
        BY <1>5, <1>8, <3>1, <3>3
      <4> HIDE DEF A, B, C
      <4>2. Before(A, B \o C)
        BY SMT, <4>1 DEF Before
      <4>3. Before(w[n].out, w[m + 1].out)
        BY <4>1, <4>2 DEF A
      <4> QED BY <3>1, <4>3
    <3> QED BY <3>2, <3>3
  <2> HIDE DEF P
  <2>3. Nat \subseteq P
    BY <2>1, <2>2, Counting
  <2> QED BY <2>3 DEF P
<1>13. ASSUME NEW n \in Nat PROVE Before(w[n].out, w[N].out)
  <2>1. CASE n <= N
    <3>1. N - n \in Nat /\ n + (N - n) = N
      BY SMT, <1>4, <2>1
    <3> QED BY <1>12, <3>1
  <2>2. CASE ~(n <= N)
    <3>1. w[n] = w[N]
      BY SMT, <1>3, <1>4, <1>10, <2>2, LoopRests
    <3> QED BY <1>5, <3>1 DEF Before
  <2> QED BY <2>1, <2>2
<1>14. \A n \in Nat :
       w[n].at <= N =>
         /\ w[n + 1] = [at |-> w[n].at + Width(txt, w[n].at),
                        out |-> w[n].out \o Piece(txt, w[n].at, quote)]
         /\ Before(w[n].out \o Piece(txt, w[n].at, quote), w[N].out)
  <2> SUFFICES ASSUME NEW n \in Nat, w[n].at <= N
               PROVE  /\ w[n + 1] = [at |-> w[n].at + Width(txt, w[n].at),
                        out |-> w[n].out \o Piece(txt, w[n].at, quote)]
                      /\ Before(w[n].out \o Piece(txt, w[n].at, quote), w[N].out)
    OBVIOUS
  <2>1. ~(w[n].at > N)
    BY SMT, <1>4, <1>5
  <2>2. Before(w[n + 1].out, w[N].out)
    BY <1>13
  <2> QED BY <1>8, <2>1, <2>2
<1> QED BY <1>5, <1>6, <1>7, <1>9, <1>10, <1>11, <1>14 DEF Converts, N, w, round

(* The result, and the loop without its rounds. *)
LEMMA ConvertIs ==
  ASSUME NEW txt \in Seq(Units), NEW quote \in BOOLEAN
  PROVE  /\ Convert(txt, quote) \in Seq(Nat)
         /\ Len(Convert(txt, quote)) <= 3 * Len(txt)
<1> DEFINE w == Loop(Begin(1), ConvertRound(txt, quote))
<1>1. Converts(w, txt, quote)
  BY Converting
<1>2. Convert(txt, quote) = w[Len(txt)].out
  BY DEF Convert
<1> HIDE DEF w
<1>3. Len(txt) \in Nat
  OBVIOUS
<1>4. /\ w[Len(txt)] \in States /\ w[Len(txt)].at = Len(txt) + 1
      /\ Len(w[Len(txt)].out) <= 3 * (w[Len(txt)].at - 1)
  BY <1>1, <1>3 DEF Converts
<1>5. w[Len(txt)].out \in Seq(Nat)
  BY <1>4 DEF States
<1>6. Len(w[Len(txt)].out) <= 3 * Len(txt)
  BY SMT, <1>3, <1>4
<1> QED BY <1>2, <1>5, <1>6

-----------------------------------------------------------------------------
(* Reading the characters back.                                            *)

LEMMA LowIsNotHigh ==
  ASSUME NEW u, isLowSurrogate(u)
  PROVE  ~isHighSurrogate(u)
<1>1. u \in Int /\ 56320 <= u
  BY SMT DEF isLowSurrogate
<1>2. ~(u <= 56319)
  BY SMT, <1>1
<1>3. u \in 55296..56319 => u <= 56319
  BY SMT
<1> QED BY SMT, <1>2, <1>3 DEF isHighSurrogate

LEMMA SecondIs ==
  ASSUME NEW txt \in Seq(Units), NEW i \in 1..Len(txt)
  PROVE  /\ Pair(txt, i) <=> i < Len(txt) /\ Second(txt, i + 1)
         /\ CodePointAt(txt, i) = Char(txt, i)
         /\ i + Width(txt, i) <= Len(txt) => ~Second(txt, i + Width(txt, i))
<1>1. i + 1 - 1 = i /\ i + 1 > 1 /\ i + 2 - 1 = i + 1
  BY SMT
<1>2. Pair(txt, i) <=> i < Len(txt) /\ Second(txt, i + 1)
  BY <1>1 DEF Pair, Second
<1>3. CodePointAt(txt, i) = Char(txt, i)
  BY <1>2 DEF CodePointAt, Char
<1>4. CASE Pair(txt, i)
  <2>1. isLowSurrogate(txt[i + 1]) /\ Width(txt, i) = 2
    BY <1>4 DEF Pair, Width
  <2>2. ~isHighSurrogate(txt[i + 1])
    BY <2>1, LowIsNotHigh
  <2> QED BY <1>1, <1>2, <1>3, <2>1, <2>2 DEF Second
<1>5. CASE ~Pair(txt, i)
  <2>1. Width(txt, i) = 1
    BY <1>5 DEF Width
  <2>2. i + 1 <= Len(txt) => i < Len(txt)
    BY SMT
  <2> QED BY <1>2, <1>3, <1>5, <2>1, <2>2
<1> QED BY <1>4, <1>5

LEMMA CodePointRoundIs ==
  ASSUME NEW txt \in Seq(Units)
  PROVE  /\ CodePointRound(txt) \in [States -> States]
         /\ \A s \in States :
              s.at <= Len(txt) =>
                CodePointRound(txt)[s] =
                  [at |-> s.at + 1,
                   out |-> IF Second(txt, s.at) THEN s.out
                           ELSE Append(s.out, CodePointAt(txt, s.at))]
<1> DEFINE G(s) == LET i == s.at
     IN  IF i > Len(txt) THEN s
         ELSE [at |-> i + 1,
               out |-> IF Second(txt, i) THEN s.out
                                         ELSE Append(s.out, CodePointAt(txt, i))]
<1>1. CodePointRound(txt) = [s \in States |-> G(s)]
  BY DEF CodePointRound
<1>2. ASSUME NEW s \in States PROVE G(s) \in States
  <2>1. s.at \in Nat \ {0} /\ s.out \in Seq(Nat)
    BY DEF States
  <2>2. CASE s.at > Len(txt)
    BY <2>2
  <2>3. CASE ~(s.at > Len(txt))
    <3>1. s.at \in 1..Len(txt)
      BY SMT, <2>1, <2>3
    <3>2. CodePointAt(txt, s.at) \in Nat
      <4>1. CodePointAt(txt, s.at) \in CodePointSet
        BY <3>1, SecondIs, CharIs
      <4> QED BY SMT, <4>1 DEF CodePointSet
    <3>3. Append(s.out, CodePointAt(txt, s.at)) \in Seq(Nat) /\ s.at + 1 \in Nat \ {0}
      BY <2>1, <3>2
    <3> QED BY <2>1, <2>3, <3>3 DEF States
  <2> QED BY <2>2, <2>3
<1>3. ASSUME NEW s \in States, s.at <= Len(txt) PROVE ~(s.at > Len(txt))
  BY SMT, <1>3 DEF States
<1> QED BY <1>1, <1>2, <1>3

LEMMA ReadRoundIs ==
  ASSUME NEW bts \in Seq(Nat)
  PROVE  /\ ReadRound(bts) \in [States -> States]
         /\ \A s \in States :
              ReadRound(bts)[s] =
                IF s.at > Len(bts) THEN s
                ELSE [at |-> s.at + Utf8Size(ByteAt(bts, s.at)),
                      out |-> Append(s.out, ReadCodePoint(bts, s.at))]
         /\ \A s \in States : ReadRound(bts)[s] = s \/ ReadRound(bts)[s].at > s.at
<1> DEFINE G(s) == IF s.at > Len(bts) THEN s
                ELSE [at |-> s.at + Utf8Size(ByteAt(bts, s.at)),
                      out |-> Append(s.out, ReadCodePoint(bts, s.at))]
<1>1. ReadRound(bts) = [s \in States |-> G(s)]
  BY DEF ReadRound
<1>2. ASSUME NEW i PROVE ByteAt(bts, i) \in Nat
  BY DEF ByteAt
<1>3. ASSUME NEW b PROVE Utf8Size(b) \in {1, 2, 3, 4}
  BY DEF Utf8Size
<1>4. ASSUME NEW i \in Nat PROVE ReadCodePoint(bts, i) \in Nat
  <2> DEFINE b == ByteAt(bts, i)
             low(k) == ByteAt(bts, i + k) % 64
  <2>1. b \in Nat /\ low(1) \in Nat /\ low(2) \in Nat /\ low(3) \in Nat
    BY SMT, <1>2
  <2>2. ReadCodePoint(bts, i) =
          CASE Utf8Size(b) = 1 -> b
            [] Utf8Size(b) = 2 -> (b % 32) * 64 + low(1)
            [] Utf8Size(b) = 3 -> (b % 16) * 4096 + low(1) * 64 + low(2)
            [] Utf8Size(b) = 4 ->
                 (b % 8) * 262144 + low(1) * 4096 + low(2) * 64 + low(3)
    BY SMT DEF ReadCodePoint
  <2> HIDE DEF b, low
  <2>3. Utf8Size(b) \in {1, 2, 3, 4}
    BY <1>3
  <2>4. (b % 32) * 64 + low(1) \in Nat
    BY SMT, <2>1
  <2>5. (b % 16) * 4096 + low(1) * 64 + low(2) \in Nat
    BY SMT, <2>1
  <2>6. (b % 8) * 262144 + low(1) * 4096 + low(2) * 64 + low(3) \in Nat
    BY SMT, <2>1
  <2> QED BY SMT, <2>1, <2>2, <2>3, <2>4, <2>5, <2>6
<1>5. ASSUME NEW s \in States
      PROVE  G(s) \in States /\ (G(s) = s \/ G(s).at > s.at)
  <2>1. s.at \in Nat \ {0} /\ s.out \in Seq(Nat)
    BY DEF States
  <2> DEFINE a == s.at + Utf8Size(ByteAt(bts, s.at))
             o == Append(s.out, ReadCodePoint(bts, s.at))
  <2>2. a \in Nat \ {0} /\ a > s.at
    BY SMT, <2>1, <1>3
  <2>3. o \in Seq(Nat)
    <3>1. ReadCodePoint(bts, s.at) \in Nat
      BY <2>1, <1>4
    <3> QED BY <2>1, <3>1, AppendProperties
  <2> HIDE DEF a, o
  <2>4. [at |-> a, out |-> o] \in States /\ [at |-> a, out |-> o].at = a
    BY <2>2, <2>3 DEF States
  <2>5. G(s) = IF s.at > Len(bts) THEN s ELSE [at |-> a, out |-> o]
    BY DEF a, o
  <2> HIDE DEF G
  <2> QED BY <2>2, <2>4, <2>5
<1> HIDE DEF G
<1>6. \A s \in States : ReadRound(bts)[s] = G(s)
  BY <1>1
<1>7. ReadRound(bts) \in [States -> States]
  BY <1>1, <1>5
<1>8. \A s \in States : ReadRound(bts)[s] = s \/ ReadRound(bts)[s].at > s.at
  BY <1>5, <1>6
<1> QED BY <1>6, <1>7, <1>8 DEF G

LEMMA CharactersReadBack ==
  ASSUME NEW txt \in Seq(Units)
  PROVE  ReadUtf8(Convert(txt, FALSE)) = CodePoints(txt)
<1> DEFINE N == Len(txt)
           w == Loop(Begin(1), ConvertRound(txt, FALSE))
           F == Convert(txt, FALSE)
           rr == ReadRound(F)
           r == Loop(Begin(1), rr)
           cr == CodePointRound(txt)
           c == Loop(Begin(1), cr)
<1>1. Begin(1) \in States /\ Begin(1).at = 1 /\ Begin(1).out = <<>>
      /\ Begin(1) = [at |-> 1, out |-> <<>>]
  BY SMT DEF Begin, States
<1>2. Converts(w, txt, FALSE) /\ F = w[N].out
  BY Converting DEF Convert
<1>3. F \in Seq(Nat)
  BY ConvertIs
<1>4. ReadUtf8(F) = r[Len(F)].out /\ CodePoints(txt) = c[N].out
  BY DEF ReadUtf8, CodePoints
<1> HIDE DEF w, F
<1>5. /\ rr \in [States -> States]
      /\ \A s \in States :
              rr[s] = IF s.at > Len(F) THEN s
                      ELSE [at |-> s.at + Utf8Size(ByteAt(F, s.at)),
                            out |-> Append(s.out, ReadCodePoint(F, s.at))]
      /\ \A s \in States : rr[s] = s \/ rr[s].at > s.at
  BY <1>3, ReadRoundIs
<1>6. /\ cr \in [States -> States]
      /\ \A s \in States : s.at <= N =>
            cr[s] = [at |-> s.at + 1,
                     out |-> IF Second(txt, s.at) THEN s.out
                             ELSE Append(s.out, CodePointAt(txt, s.at))]
  BY CodePointRoundIs
<1>7. N \in Nat /\ Len(F) \in Nat
  BY <1>3
<1> HIDE DEF rr, cr
<1>8. Runs(r, Begin(1), rr) /\ Runs(c, Begin(1), cr)
  BY <1>1, <1>5, <1>6, LoopRuns
<1> HIDE DEF r, c
<1> DEFINE OK(n) == /\ r[n].at = Len(w[n].out) + 1
                    /\ c[w[n].at - 1] = [at |-> w[n].at, out |-> r[n].out]
                    /\ w[n].at <= N => ~Second(txt, w[n].at)
<1>9. \A n \in Nat : /\ w[n] \in States /\ w[n].at \in Nat \ {0} /\ w[n].out \in Seq(Nat)
                     /\ r[n] \in States /\ r[n].out \in Seq(Nat)
  BY <1>2, <1>8 DEF Converts, Runs, States
<1>10. OK(0)
  <2>1. w[0] = Begin(1) /\ r[0] = Begin(1) /\ c[0] = Begin(1)
    BY <1>2, <1>8 DEF Converts, Runs
  <2>2. r[0].at = Len(w[0].out) + 1 /\ w[0].at = 1 /\ 1 - 1 = 0
    BY <1>1, <2>1
  <2>3. ~Second(txt, 1)
    BY SMT DEF Second
  <2> QED BY <1>1, <2>1, <2>2, <2>3
<1>11. ASSUME NEW n \in Nat, OK(n), w[n].at > N PROVE OK(n + 1)
  <2>1. w[n + 1] = w[n] /\ F = w[n].out
    BY <1>2, <1>11 DEF Converts, N
  <2>2. r[n].at > Len(F)
    BY <1>7, <1>11, <2>1
  <2>3. r[n + 1] = r[n]
    BY <1>5, <1>8, <1>9, <2>2 DEF Runs
  <2> QED BY <1>11, <2>1, <2>3
<1>12. ASSUME NEW n \in Nat, OK(n), ~(w[n].at > N) PROVE OK(n + 1)
  <2> DEFINE i == w[n].at
             p == Len(w[n].out)
             P == Utf8(Char(txt, i))
             d == Width(txt, i)
             o == r[n].out
             ch == Char(txt, i)
  <2>1. i \in 1..N /\ i <= Len(txt) /\ i \in Nat
    BY SMT, <1>7, <1>9, <1>12 DEF N
  <2>2. Piece(txt, i, FALSE) = P
    BY DEF Piece
  <2>3. w[n + 1] = [at |-> i + d, out |-> w[n].out \o P] /\ Before(w[n].out \o P, F)
    BY <1>2, <2>1, <2>2 DEF Converts, N
  <2>4. /\ ch \in CodePointSet /\ d \in {1, 2} /\ i + d <= N + 1
        /\ Pair(txt, i) <=> d = 2
    BY <2>1, CharIs DEF N
  <2>5. /\ Pair(txt, i) <=> i < N /\ Second(txt, i + 1)
        /\ CodePointAt(txt, i) = ch
        /\ i + d <= N => ~Second(txt, i + d)
    BY <2>1, SecondIs DEF N
  <2>6. P \in Seq(Nat) /\ Len(P) \in 1..4
    BY <2>4, Utf8Bytes
  <2>7. w[n].out \in Seq(Nat) /\ p \in Nat
    BY <1>9
  <2>8. w[n + 1].at = i + d /\ w[n + 1].out = w[n].out \o P
    <3> HIDE DEF i, d, P
    <3> QED BY <2>3
  <2>9. Len(w[n + 1].out) = p + Len(P)
    <3> HIDE DEF P
    <3> QED BY <2>6, <2>7, <2>8
  <2>10. p + Len(P) <= Len(F) /\ \A k \in 1..Len(P) : F[p + k] = P[k]
    <3> DEFINE A == w[n].out
    <3>1. A \in Seq(Nat) /\ P \in Seq(Nat) /\ Before(A \o P, F) /\ p = Len(A)
      BY <2>3, <2>6, <2>7
    <3> HIDE DEF A, P, p
    <3>2. /\ Len(A \o P) = p + Len(P) /\ p \in Nat /\ Len(P) \in Nat
          /\ \A k \in 1..Len(P) : (A \o P)[p + k] = P[k] /\ p + k \in 1..(p + Len(P))
      BY SMT, <3>1
    <3> QED BY <3>1, <3>2 DEF Before
  <2>11. r[n].at = p + 1 /\ r[n] = [at |-> p + 1, out |-> o]
    <3>1. r[n].at = p + 1
      BY <1>12
    <3> QED BY <3>1, <1>9 DEF States
  <2> HIDE DEF P, p, o
  <2>12. \A k \in 1..Len(P) : ByteAt(F, p + 1 + k - 1) = P[k]
    <3> TAKE k \in 1..Len(P)
    <3>1. p + 1 + k - 1 = p + k /\ p + k \in 1..Len(F)
      BY SMT, <1>7, <2>6, <2>7, <2>10
    <3> QED BY <2>10, <3>1 DEF ByteAt
  <2>13. Utf8Size(ByteAt(F, p + 1)) = Len(P) /\ ReadCodePoint(F, p + 1) = ch
    <3>1. p + 1 \in Nat \ {0}
      BY SMT, <2>7
    <3> QED BY <2>4, <2>12, <3>1, Utf8Reads DEF P
  <2>14. ~(p + 1 > Len(F))
    <3>1. p \in Nat /\ Len(P) \in Nat /\ 1 <= Len(P) /\ p + Len(P) <= Len(F)
      BY <2>6, <2>7, <2>10, Few
    <3> QED BY SMT, <1>7, <3>1
  <2> HIDE DEF ch, d, i
  <2>15. r[n + 1] = [at |-> p + 1 + Len(P), out |-> Append(o, ch)]
    <3>1. r[n + 1] = rr[r[n]]
      BY <1>8 DEF Runs
    <3>2. r[n].out = o
      BY DEF o
    <3> QED BY <1>5, <1>9, <2>11, <2>13, <2>14, <3>1, <3>2
  <2>16. r[n + 1].at = Len(w[n + 1].out) + 1 /\ r[n + 1].out = Append(o, ch)
    <3>1. r[n + 1].at = p + 1 + Len(P) /\ r[n + 1].out = Append(o, ch)
      BY <2>15
    <3> QED BY SMT, <2>6, <2>7, <2>9, <3>1
  <2>17. i - 1 \in Nat /\ (i - 1) + 1 = i /\ i + 1 \in Nat
    BY SMT, <2>1
  <2>18. c[i - 1] = [at |-> i, out |-> o]
    BY <1>12 DEF i, o
  <2>19. c[i] = [at |-> i + 1, out |-> Append(o, ch)]
    <3>1. c[i] = cr[c[i - 1]] /\ c[i - 1] \in States
      BY <1>8, <2>17 DEF Runs
    <3>2. c[i - 1].at = i /\ c[i - 1].out = o
      BY <2>18
    <3>3. ~Second(txt, i) /\ i <= N
      BY <1>12, <2>1 DEF i, N
    <3> QED BY <1>6, <2>5, <3>1, <3>2, <3>3
  <2>20. c[(i + d) - 1] = [at |-> i + d, out |-> Append(o, ch)]
    <3>1. CASE d = 1
      <4>1. (i + d) - 1 = i /\ i + d = i + 1
        BY SMT, <2>1, <3>1
      <4> QED BY <2>19, <4>1
    <3>2. CASE d = 2
      <4>1. (i + d) - 1 = i + 1 /\ i + d = (i + 1) + 1 /\ i + 1 <= N
        BY SMT, <1>7, <2>1, <2>4, <3>2
      <4>2. c[i + 1] = cr[c[i]] /\ c[i] \in States
        BY <1>8, <2>1 DEF Runs
      <4>3. c[i].at = i + 1 /\ c[i].out = Append(o, ch)
        BY <2>19
      <4>4. Second(txt, i + 1)
        BY <2>4, <2>5, <3>2
      <4>5. cr[c[i]] = [at |-> (i + 1) + 1, out |-> Append(o, ch)]
        BY <1>6, <4>1, <4>2, <4>3, <4>4
      <4> QED BY <4>1, <4>2, <4>5
    <3> QED BY <2>4, <3>1, <3>2
  <2> QED BY <2>5, <2>8, <2>16, <2>20
<1>13. \A n \in Nat : OK(n)
  <2> DEFINE S == {n \in Nat : OK(n)}
  <2> HIDE DEF OK
  <2>1. 0 \in S /\ \A n \in Nat : n \in S => n + 1 \in S
    BY <1>10, <1>11, <1>12
  <2> HIDE DEF S
  <2>2. Nat \subseteq S
    BY <2>1, Counting
  <2> QED BY <2>2 DEF S
<1>14. w[N].at = N + 1 /\ (N + 1) - 1 = N
  BY <1>2, <1>7 DEF Converts, N
<1>15. OK(N)
  BY <1>7, <1>13
<1>16. c[N].out = r[N].out /\ r[N].at > Len(F)
  <2>1. c[N] = [at |-> N + 1, out |-> r[N].out]
    BY <1>14, <1>15
  <2>2. r[N].at = Len(F) + 1
    BY <1>2, <1>15
  <2> QED BY <1>7, <2>1, <2>2
<1>17. rr[r[N]] = r[N] /\ rr[r[Len(F)]] = r[Len(F)]
  <2>1. r[Len(F)].at > Len(F) \/ rr[r[Len(F)]] = r[Len(F)]
    BY <1>5, <1>7, <1>8, LoopMoves
  <2> QED BY <1>5, <1>7, <1>9, <1>16, <2>1
<1>18. r[Len(F)] = r[N]
  BY <1>7, <1>8, <1>17, LoopEnds
<1> QED BY <1>4, <1>16, <1>18 DEF F

-----------------------------------------------------------------------------
(* Reading the JSON string back.                                           *)

LEMMA UnquoteRoundIs ==
  ASSUME NEW bts \in Seq(Nat)
  PROVE  /\ UnquoteRound(bts) \in [States -> States]
         /\ \A s \in States :
              UnquoteRound(bts)[s] =
                IF s.at > Len(bts) \/ ByteAt(bts, s.at) = Quote THEN s
                ELSE IF ByteAt(bts, s.at) = Backslash
                THEN [at |-> s.at + 2,
                      out |-> Append(s.out, Unescaped(ByteAt(bts, s.at + 1)))]
                ELSE [at |-> s.at + 1, out |-> Append(s.out, ByteAt(bts, s.at))]
         /\ \A s \in States : UnquoteRound(bts)[s] = s \/ UnquoteRound(bts)[s].at > s.at
<1> DEFINE G(s) == IF s.at > Len(bts) \/ ByteAt(bts, s.at) = Quote THEN s
                ELSE IF ByteAt(bts, s.at) = Backslash
                THEN [at |-> s.at + 2,
                      out |-> Append(s.out, Unescaped(ByteAt(bts, s.at + 1)))]
                ELSE [at |-> s.at + 1, out |-> Append(s.out, ByteAt(bts, s.at))]
<1>1. UnquoteRound(bts) = [s \in States |-> G(s)]
  BY DEF UnquoteRound
<1>2. ASSUME NEW i PROVE ByteAt(bts, i) \in Nat
  BY DEF ByteAt
<1>3. ASSUME NEW x \in Nat PROVE Unescaped(x) \in Nat
  <2>1. \A c \in DOMAIN Letter : c \in Nat
    BY SMT DEF Letter
  <2> QED BY <2>1 DEF Unescaped
<1>4. ASSUME NEW s \in States
      PROVE  G(s) \in States /\ (G(s) = s \/ G(s).at > s.at)
  <2>1. s.at \in Nat \ {0} /\ s.out \in Seq(Nat)
    BY DEF States
  <2> DEFINE a == s.at + 2
             o == Append(s.out, Unescaped(ByteAt(bts, s.at + 1)))
             b == s.at + 1
             p == Append(s.out, ByteAt(bts, s.at))
  <2>2. a \in Nat \ {0} /\ a > s.at /\ b \in Nat \ {0} /\ b > s.at
    BY SMT, <2>1
  <2>3. o \in Seq(Nat) /\ p \in Seq(Nat)
    <3>1. ByteAt(bts, s.at) \in Nat /\ Unescaped(ByteAt(bts, s.at + 1)) \in Nat
      BY <1>2, <1>3
    <3> QED BY <2>1, <3>1, AppendProperties
  <2>4. G(s) \in {s, [at |-> a, out |-> o], [at |-> b, out |-> p]}
    <3>1. G(s) = IF s.at > Len(bts) \/ ByteAt(bts, s.at) = Quote THEN s
                 ELSE IF ByteAt(bts, s.at) = Backslash
                 THEN [at |-> a, out |-> o] ELSE [at |-> b, out |-> p]
      OBVIOUS
    <3> HIDE DEF a, o, b, p, G
    <3> QED BY <3>1
  <2> HIDE DEF a, o, b, p, G
  <2>5. /\ [at |-> a, out |-> o] \in States /\ [at |-> a, out |-> o].at = a
        /\ [at |-> b, out |-> p] \in States /\ [at |-> b, out |-> p].at = b
    BY <2>2, <2>3 DEF States
  <2> QED BY <2>2, <2>4, <2>5
<1> HIDE DEF G
<1>5. \A s \in States : UnquoteRound(bts)[s] = G(s)
  BY <1>1
<1>6. UnquoteRound(bts) \in [States -> States]
  BY <1>1, <1>4
<1>7. \A s \in States : UnquoteRound(bts)[s] = s \/ UnquoteRound(bts)[s].at > s.at
  BY <1>4, <1>5
<1> QED BY <1>5, <1>6, <1>7 DEF G

LEMMA AppendAtEnd ==
  ASSUME NEW s \in Seq(Nat), NEW t \in Seq(Nat), NEW x \in Nat
  PROVE  Append(s \o t, x) = s \o Append(t, x)
<1>1. <<x>> \in Seq(Nat) /\ s \o t \in Seq(Nat)
  BY ConcatProperties
<1>2. Append(s \o t, x) = (s \o t) \o <<x>> /\ Append(t, x) = t \o <<x>>
  BY <1>1, AppendIsConcat
<1>3. (s \o t) \o <<x>> = s \o (t \o <<x>>)
  BY <1>1, ConcatAssociative
<1> QED BY <1>2, <1>3

LEMMA QuotesReadBack ==
  ASSUME NEW txt \in Seq(Units)
  PROVE  Unquote(utf16_convert_to_utf8_quote_cstr(txt)) = utf16_convert_to_utf8_cstr(txt)
<1> DEFINE N == Len(txt)
           w == Loop(Begin(1), ConvertRound(txt, FALSE))
           q == Loop(Begin(1), ConvertRound(txt, TRUE))
           F == Convert(txt, FALSE)
           G == Convert(txt, TRUE)
           B == <<Quote>> \o G \o <<Quote>>
           ur == UnquoteRound(B)
           u == Loop(Begin(2), ur)
<1>1. /\ Begin(1) \in States /\ Begin(1).at = 1 /\ Begin(1).out = <<>>
      /\ Begin(2) \in States /\ Begin(2).at = 2 /\ Begin(2).out = <<>>
      /\ Begin(2) = [at |-> 2, out |-> <<>>]
  BY SMT DEF Begin, States
<1>2. /\ Converts(w, txt, FALSE) /\ F = w[N].out
      /\ Converts(q, txt, TRUE) /\ G = q[N].out
  BY Converting DEF Convert
<1>3. F \in Seq(Nat) /\ G \in Seq(Nat)
  BY ConvertIs
<1>4. /\ Unquote(utf16_convert_to_utf8_quote_cstr(txt)) = u[Len(B)].out
      /\ utf16_convert_to_utf8_cstr(txt) = F
  BY DEF Unquote, utf16_convert_to_utf8_quote_cstr, utf16_convert_to_utf8_cstr
<1> HIDE DEF w, q, F, G
<1>5. /\ B \in Seq(Nat) /\ Len(B) = Len(G) + 2 /\ B[Len(G) + 2] = Quote
      /\ \A k \in 1..Len(G) : B[k + 1] = G[k]
  BY SMT, <1>3 DEF Quote
<1> HIDE DEF B
<1>6. /\ ur \in [States -> States]
      /\ \A s \in States :
              ur[s] =
                IF s.at > Len(B) \/ ByteAt(B, s.at) = Quote THEN s
                ELSE IF ByteAt(B, s.at) = Backslash
                THEN [at |-> s.at + 2,
                      out |-> Append(s.out, Unescaped(ByteAt(B, s.at + 1)))]
                ELSE [at |-> s.at + 1, out |-> Append(s.out, ByteAt(B, s.at))]
      /\ \A s \in States : ur[s] = s \/ ur[s].at > s.at
  BY <1>5, UnquoteRoundIs
<1>7. N \in Nat /\ Len(F) \in Nat /\ Len(G) \in Nat
  BY <1>3
<1> HIDE DEF ur
<1>8. Runs(u, Begin(2), ur)
  BY <1>1, <1>6, LoopRuns
<1> HIDE DEF u
<1> DEFINE OK(n) == /\ q[n].at = w[n].at
                    /\ u[Len(w[n].out)] = [at |-> Len(q[n].out) + 2, out |-> w[n].out]
<1>9. \A n \in Nat : /\ w[n] \in States /\ w[n].at \in Nat \ {0} /\ w[n].out \in Seq(Nat)
                     /\ q[n] \in States /\ q[n].at \in Nat \ {0} /\ q[n].out \in Seq(Nat)
                     /\ u[n] \in States /\ u[n + 1] = ur[u[n]]
  BY <1>2, <1>8 DEF Converts, Runs, States
<1>10. OK(0)
  <2>1. w[0] = Begin(1) /\ q[0] = Begin(1) /\ u[0] = Begin(2)
    BY <1>2, <1>8 DEF Converts, Runs
  <2>2. Len(w[0].out) = 0 /\ Len(q[0].out) + 2 = 2
    BY <1>1, <2>1
  <2> QED BY <1>1, <2>1, <2>2
<1>11. ASSUME NEW n \in Nat, OK(n), w[n].at > N PROVE OK(n + 1)
  <2>1. w[n + 1] = w[n] /\ q[n + 1] = q[n]
    BY <1>2, <1>11 DEF Converts, N
  <2> QED BY <1>11, <2>1
<1>12. ASSUME NEW n \in Nat, OK(n), ~(w[n].at > N) PROVE OK(n + 1)
  <2> DEFINE i == w[n].at
             d == Width(txt, i)
             W == w[n].out
             Q == q[n].out
             P == Piece(txt, i, FALSE)
             R == Piece(txt, i, TRUE)
             ch == Char(txt, i)
             a == Len(Q) + 2
             p == Len(W)
  <2>1. i \in 1..N /\ i <= Len(txt) /\ i \in Nat /\ q[n].at = i
    <3>1. w[n].at \in 1..N /\ w[n].at <= N /\ w[n].at \in Nat
      <4>1. w[n].at \in Nat \ {0} /\ ~(w[n].at > N)
        BY <1>9, <1>12
      <4> QED BY SMT, <1>7, <4>1
    <3> QED BY <1>12, <3>1 DEF N
  <2>2. /\ w[n + 1] = [at |-> i + d, out |-> W \o P]
        /\ q[n + 1] = [at |-> i + d, out |-> Q \o R] /\ Before(Q \o R, G)
    BY <1>2, <2>1 DEF Converts, N
  <2>3. /\ P \in Seq(Nat) /\ R \in Seq(Nat) /\ W \in Seq(Nat) /\ Q \in Seq(Nat)
        /\ a \in Nat /\ p \in Nat /\ a = Len(Q) + 2 /\ p = Len(W)
    <3>1. P \in Seq(Nat) /\ R \in Seq(Nat)
      BY <2>1, PieceIs DEF N
    <3>2. W \in Seq(Nat) /\ Q \in Seq(Nat)
      BY <1>9
    <3>3. a \in Nat /\ p \in Nat
      BY <3>2
    <3> QED BY <3>1, <3>2, <3>3
  <2>4. u[p] = [at |-> a, out |-> W]
    BY <1>12
  <2>5. P = Utf8(ch) /\ ch \in CodePointSet
    BY <2>1, CharIs DEF Piece, N
  <2>6. \/ R = P /\ \A k \in 1..Len(P) : P[k] # Quote /\ P[k] # Backslash
        \/ \E x \in Nat : R = <<Backslash, x>> /\ P = <<Unescaped(x)>>
    <3>1. CASE Pair(txt, i)
      <4>1. R = P
        BY <3>1 DEF Piece
      <4>2. ch > 65535
        BY <2>1, <3>1, PairCodePoint DEF Char, N
      <4>3. ch \in Nat /\ ch > 127
        BY SMT, <2>5, <4>2 DEF CodePointSet
      <4> HIDE DEF ch, P, R
      <4>4. \A k \in 1..Len(P) : P[k] >= 128
        BY <2>5, <4>3, Utf8Bytes
      <4>5. ~(Quote >= 128) /\ ~(Backslash >= 128)
        BY SMT DEF Quote, Backslash
      <4> QED BY <4>1, <4>4, <4>5
    <3>2. CASE ~Pair(txt, i)
      <4>1. ch = txt[i] /\ R = Quoted(ch)
        BY <3>2 DEF Piece, Char
      <4> HIDE DEF ch, P, R
      <4>2. CASE Quoted(ch) = Utf8(ch) /\ ch # Quote /\ ch # Backslash
        <5>1. R = P
          BY <2>5, <4>1, <4>2
        <5>2. CASE ch <= 127
          <6>1. P = <<ch>>
            BY <2>5, <5>2, Utf8Bytes
          <6>2. \A k \in 1..Len(P) : P[k] = ch
            BY <6>1
          <6> QED BY <4>2, <5>1, <6>2
        <5>3. CASE ~(ch <= 127)
          <6>1. ch > 127
            BY SMT, <2>5, <5>3 DEF CodePointSet
          <6>2. \A k \in 1..Len(P) : P[k] >= 128
            BY <2>5, <6>1, Utf8Bytes
          <6>3. ~(Quote >= 128) /\ ~(Backslash >= 128)
            BY SMT DEF Quote, Backslash
          <6> QED BY <5>1, <6>2, <6>3
        <5> QED BY <5>2, <5>3
      <4>3. CASE /\ ch <= 127
                 /\ \E x \in Nat : Quoted(ch) = <<Backslash, x>> /\ Unescaped(x) = ch
        <5>1. P = <<ch>>
          BY <2>5, <4>3, Utf8Bytes
        <5> QED BY <4>1, <4>3, <5>1
      <4> QED BY <2>5, <4>2, <4>3, QuotedIs
    <3> QED BY <3>1, <3>2
  <2>7. /\ Len(Q) + Len(R) <= Len(G) /\ \A k \in 1..Len(R) : G[Len(Q) + k] = R[k]
    <3> HIDE DEF Q, R
    <3>1. /\ Len(Q \o R) = Len(Q) + Len(R) /\ Len(Q) \in Nat /\ Len(R) \in Nat
          /\ \A k \in 1..Len(R) : (Q \o R)[Len(Q) + k] = R[k]
                                  /\ Len(Q) + k \in 1..(Len(Q) + Len(R))
      BY SMT, <2>3
    <3> QED BY <2>2, <3>1 DEF Before
  <2>8. /\ w[n + 1].at = i + d /\ w[n + 1].out = W \o P
        /\ q[n + 1].at = i + d /\ q[n + 1].out = Q \o R
    <3> HIDE DEF i, d, P, R, Q, W
    <3> QED BY <2>2
  <2> HIDE DEF i, d, P, R, Q, W, ch, a, p
  <2>9. \A k \in 1..Len(R) : /\ ByteAt(B, a + k - 1) = R[k]
                             /\ ~(a + k - 1 > Len(B))
    <3> TAKE k \in 1..Len(R)
    <3>1. /\ a + k - 1 = (Len(Q) + k) + 1 /\ Len(Q) + k \in 1..Len(G)
          /\ (Len(Q) + k) + 1 \in 1..Len(B) /\ ~(a + k - 1 > Len(B))
      <4>1. Len(Q) \in Nat /\ Len(R) \in Nat /\ k \in Nat /\ 1 <= k /\ k <= Len(R)
        BY <2>3
      <4>2. Len(Q) + Len(R) <= Len(G) /\ Len(B) = Len(G) + 2 /\ a = Len(Q) + 2
        BY <1>5, <2>3, <2>7
      <4> QED BY SMT, <1>7, <4>1, <4>2
    <3>2. B[(Len(Q) + k) + 1] = R[k]
      BY <1>5, <2>7, <3>1
    <3> QED BY <3>1, <3>2 DEF ByteAt
  <2>10. Len(W \o P) = p + Len(P) /\ Len(Q \o R) + 2 = a + Len(R)
    <3>1. Len(W \o P) = p + Len(P) /\ Len(Q \o R) = Len(Q) + Len(R)
          /\ Len(Q) \in Nat /\ Len(R) \in Nat
      BY <2>3
    <3> QED BY SMT, <2>3, <3>1
  <2>11. SUFFICES u[p + Len(P)] = [at |-> a + Len(R), out |-> W \o P]
    BY <2>8, <2>10
  <2>12. CASE R = P /\ \A k \in 1..Len(P) : P[k] # Quote /\ P[k] # Backslash
    <3> DEFINE Copied(k) ==
          k <= Len(P) => u[p + k] = [at |-> a + k, out |-> W \o SubSeq(P, 1, k)]
    <3>1. Copied(0)
      <4>1. W \o SubSeq(P, 1, 0) = W
        BY <2>3
      <4>2. p + 0 = p /\ a + 0 = a
        BY <2>3
      <4> QED BY <2>4, <4>1, <4>2
    <3>2. ASSUME NEW k \in Nat, Copied(k) PROVE Copied(k + 1)
      <4> SUFFICES ASSUME k + 1 <= Len(P)
                   PROVE  u[p + (k + 1)] = [at |-> a + (k + 1), out |-> W \o SubSeq(P, 1, k + 1)]
        OBVIOUS
      <4>1. Len(P) \in Nat
        BY <2>3
      <4>2. k <= Len(P) /\ k + 1 \in 1..Len(P) /\ a + (k + 1) - 1 = a + k
            /\ p + k \in Nat /\ p + (k + 1) = (p + k) + 1 /\ (a + k) + 1 = a + (k + 1)
        BY SMT, <2>3, <4>1
      <4>3. u[p + k] = [at |-> a + k, out |-> W \o SubSeq(P, 1, k)]
        BY <3>2, <4>2
      <4> DEFINE o == W \o SubSeq(P, 1, k)
      <4>4. u[p + k].at = a + k /\ u[p + k].out = o
        <5> HIDE DEF o
        <5> QED BY <4>3 DEF o
      <4>5. ByteAt(B, a + k) = P[k + 1] /\ ~(a + k > Len(B))
        BY <2>9, <2>12, <4>2
      <4>6. P[k + 1] # Quote /\ P[k + 1] # Backslash
        BY <2>12, <4>2
      <4>7. u[(p + k) + 1] = [at |-> (a + k) + 1, out |-> Append(o, P[k + 1])]
        <5> HIDE DEF o
        <5>1. u[p + k] \in States /\ u[(p + k) + 1] = ur[u[p + k]]
          BY <1>9, <4>2
        <5> DEFINE b == a + k
                   st == u[p + k]
        <5>2. st \in States /\ st.at = b /\ st.out = o
          BY <4>4, <5>1
        <5>3. ByteAt(B, b) = P[k + 1] /\ ~(b > Len(B))
          BY <4>5
        <5> HIDE DEF b, st
        <5>4. ur[st] = [at |-> b + 1, out |-> Append(o, P[k + 1])]
          BY <1>6, <4>6, <5>2, <5>3
        <5> QED BY <5>1, <5>4 DEF b, st
      <4>8. Append(o, P[k + 1]) = W \o SubSeq(P, 1, k + 1)
        <5>1. SubSeq(P, 1, k) \in Seq(Nat) /\ P[k + 1] \in Nat
          BY <2>3, <4>2
        <5>2. SubSeq(P, 1, k + 1) = Append(SubSeq(P, 1, k), P[k + 1])
          BY SMT, <2>3, <4>1, <4>2
        <5>3. W \in Seq(Nat)
          BY <2>3
        <5>4. Append(W \o SubSeq(P, 1, k), P[k + 1]) = W \o Append(SubSeq(P, 1, k), P[k + 1])
          BY <5>1, <5>3, AppendAtEnd
        <5> QED BY <5>2, <5>4
      <4> QED BY <4>2, <4>7, <4>8
    <3>3. \A k \in Nat : Copied(k)
      <4> DEFINE S == {k \in Nat : Copied(k)}
      <4> HIDE DEF Copied
      <4>1. 0 \in S /\ \A k \in Nat : k \in S => k + 1 \in S
        BY <3>1, <3>2
      <4> HIDE DEF S
      <4>2. Nat \subseteq S
        BY <4>1, Counting
      <4> QED BY <4>2 DEF S
    <3>4. Len(P) \in Nat /\ Len(P) <= Len(P) /\ SubSeq(P, 1, Len(P)) = P
      BY <2>3
    <3> QED BY <2>12, <3>3, <3>4
  <2>13. CASE \E x \in Nat : R = <<Backslash, x>> /\ P = <<Unescaped(x)>>
    <3>1. PICK x \in Nat : R = <<Backslash, x>> /\ P = <<Unescaped(x)>>
      BY <2>13
    <3>2. Len(R) = 2 /\ R[1] = Backslash /\ R[2] = x /\ Len(P) = 1 /\ 1 \in 1..2 /\ 2 \in 1..2
      BY <3>1
    <3>3. a + 1 - 1 = a /\ a + 2 - 1 = a + 1
      BY SMT, <2>3
    <3>4. ByteAt(B, a) = Backslash /\ ByteAt(B, a + 1) = x /\ ~(a > Len(B))
      BY <2>9, <3>2, <3>3
    <3>5. u[p].at = a /\ u[p].out = W
      BY <2>4
    <3>6. Backslash # Quote
      BY DEF Backslash, Quote
    <3>7. u[p + 1] = [at |-> a + 2, out |-> Append(W, Unescaped(x))]
      <4>1. u[p] \in States /\ u[p + 1] = ur[u[p]]
        BY <1>9, <2>3
      <4> DEFINE st == u[p]
      <4>2. st \in States /\ st.at = a /\ st.out = W
        BY <3>5, <4>1
      <4> HIDE DEF st
      <4>3. ur[st] = [at |-> a + 2, out |-> Append(W, Unescaped(x))]
        BY <1>6, <3>4, <3>6, <4>2
      <4> QED BY <4>1, <4>3 DEF st
    <3>8. Append(W, Unescaped(x)) = W \o P
      BY <2>3, <3>1
    <3> QED BY <3>2, <3>7, <3>8
  <2> QED BY <2>6, <2>12, <2>13
<1>13. \A n \in Nat : OK(n)
  <2> DEFINE S == {n \in Nat : OK(n)}
  <2> HIDE DEF OK
  <2>1. 0 \in S /\ \A n \in Nat : n \in S => n + 1 \in S
    BY <1>10, <1>11, <1>12
  <2> HIDE DEF S
  <2>2. Nat \subseteq S
    BY <2>1, Counting
  <2> QED BY <2>2 DEF S
<1>14. u[Len(F)] = [at |-> Len(G) + 2, out |-> F]
  BY <1>2, <1>7, <1>13
<1>15. u[Len(F)].at = Len(G) + 2 /\ u[Len(F)].out = F
  BY <1>14
<1>16. ByteAt(B, Len(G) + 2) = Quote
  <2>1. Len(G) + 2 \in 1..Len(B)
    BY SMT, <1>5, <1>7
  <2> QED BY <1>5, <2>1 DEF ByteAt
<1>17. Len(B) \in Nat
  BY <1>5
<1>18. ur[u[Len(F)]] = u[Len(F)] /\ ur[u[Len(B)]] = u[Len(B)]
  <2>1. u[Len(B)].at > Len(B) \/ ur[u[Len(B)]] = u[Len(B)]
    BY <1>6, <1>8, <1>17, LoopMoves
  <2> QED BY <1>6, <1>7, <1>9, <1>15, <1>16, <1>17, <2>1
<1>19. u[Len(B)] = u[Len(F)]
  BY <1>7, <1>8, <1>17, <1>18, LoopEnds
<1> QED BY <1>4, <1>15, <1>19

-----------------------------------------------------------------------------
(* The specification.                                                      *)

(* The bytes are the conversion of the text, and the buffer has room for   *)
(* twice the bytes that the text had in UTF-16.                            *)
ConvertedText ==
  /\ decodingBufferSize \in Nat
  /\ text \in Seq(Units) /\ json \in BOOLEAN /\ room \in Nat
  /\ utf8 = IF json THEN utf16_convert_to_utf8_quote_cstr(text)
                    ELSE utf16_convert_to_utf8_cstr(text)
  /\ 4 * Len(text) <= room

LEMMA EmptyConversion == utf16_convert_to_utf8_cstr(<<>>) = <<>>
<1>1. <<>> \in Seq(Units)
  OBVIOUS
<1>2. Converts(Loop(Begin(1), ConvertRound(<<>>, FALSE)), <<>>, FALSE)
  BY <1>1, Converting
<1>3. Len(<<>>) = 0 /\ Begin(1).out = <<>>
  BY DEF Begin
<1> QED BY <1>2, <1>3 DEF Converts, Convert, utf16_convert_to_utf8_cstr

LEMMA StartsConverted ==
  ASSUME DecodingInit
  PROVE  ConvertedText
<1>1. Len(<<>>) = 0 /\ <<>> \in Seq(Units) /\ 4 * 0 <= 1
  OBVIOUS
<1> QED BY <1>1, EmptyConversion DEF DecodingInit, ConvertedText

LEMMA StaysConverted ==
  ASSUME ConvertedText, [DecodingNext]_texts
  PROVE  ConvertedText'
<1>1. \A txt \in Texts : txt \in Seq(Units) /\ Len(txt) \in Nat
  BY TextsAssumption
<1>2. ASSUME NEW txt \in Texts, NEW asJson \in BOOLEAN, NEW size \in Nat,
             4 * Len(txt) <= size, Converted(txt, asJson, size), decodingBufferSize' \in Nat
      PROVE  ConvertedText'
  BY <1>1, <1>2 DEF Converted, ConvertedText, utf16_convert_to_utf8_quote_cstr,
                    utf16_convert_to_utf8_cstr
<1>3. CASE Decode
  <2>1. PICK txt \in Texts, asJson \in BOOLEAN :
          /\ decodingBufferSize' = requireDecodingBuffer(Ask(txt))
          /\ Converted(txt, asJson, decodingBufferSize')
    BY <1>3 DEF Decode
  <2>2. decodingBufferSize' \in Nat /\ 4 * Len(txt) <= decodingBufferSize'
    <3>1. Ask(txt) = 4 * Len(txt) /\ Ask(txt) \in Nat
      BY SMT, <1>1 DEF Ask
    <3>2. decodingBufferSize \in Nat
      BY DEF ConvertedText
    <3>3. requireDecodingBuffer(Ask(txt)) \in Nat /\ Ask(txt) <= requireDecodingBuffer(Ask(txt))
      BY SMT, <3>1, <3>2 DEF requireDecodingBuffer
    <3> QED BY <2>1, <3>1, <3>3
  <2> QED BY <1>2, <2>1, <2>2
<1>4. CASE DecodeApart
  <2>1. PICK txt \in Texts, asJson \in BOOLEAN :
          Converted(txt, asJson, 4 * Len(txt) + 4) /\ UNCHANGED decodingBufferSize
    BY <1>4 DEF DecodeApart
  <2>2. 4 * Len(txt) + 4 \in Nat /\ 4 * Len(txt) <= 4 * Len(txt) + 4
    BY SMT, <1>1
  <2> QED BY <1>2, <2>1, <2>2 DEF ConvertedText
<1>5. CASE RuntimeDecode
  <2>1. PICK txt \in Texts :
          Converted(txt, FALSE, 2 * (2 * Len(txt))) /\ UNCHANGED decodingBufferSize
    BY <1>5 DEF RuntimeDecode
  <2>2. 2 * (2 * Len(txt)) \in Nat /\ 4 * Len(txt) <= 2 * (2 * Len(txt))
    BY SMT, <1>1
  <2> QED BY <1>2, <2>1, <2>2 DEF ConvertedText
<1>6. CASE UNCHANGED texts
  BY <1>6 DEF texts, ConvertedText, utf16_convert_to_utf8_quote_cstr,
              utf16_convert_to_utf8_cstr
<1> QED BY <1>3, <1>4, <1>5, <1>6 DEF DecodingNext

LEMMA ConvertedAlways == DecodingSpec => []ConvertedText
<1>1. DecodingInit => ConvertedText
  BY StartsConverted
<1>2. ConvertedText /\ [DecodingNext]_texts => ConvertedText'
  BY StaysConverted
<1> QED BY <1>1, <1>2, PTL DEF DecodingSpec

(* A UTF-8 reader gets the characters of every text, of any length, from   *)
(* its conversion, its pairs and lone surrogates included.                 *)
THEOREM CharactersSurvive == DecodingSpec => []TextReadsBack
<1>1. ConvertedText => TextReadsBack
  <2> SUFFICES ASSUME ConvertedText, ~json
               PROVE  ReadUtf8(utf8) = CodePoints(text)
    BY DEF TextReadsBack
  <2>1. text \in Seq(Units) /\ utf8 = Convert(text, FALSE)
    BY DEF ConvertedText, utf16_convert_to_utf8_cstr
  <2> QED BY <2>1, CharactersReadBack
<1> QED BY <1>1, ConvertedAlways, PTL

(* A JSON reader gets from the quoted form of every text the plain         *)
(* conversion of it.                                                       *)
THEOREM QuotingIsUndone == DecodingSpec => []TextUnquotesBack
<1>1. ConvertedText => TextUnquotesBack
  <2> SUFFICES ASSUME ConvertedText, json
               PROVE  Unquote(utf8) = utf16_convert_to_utf8_cstr(text)
    BY DEF TextUnquotesBack
  <2>1. text \in Seq(Units) /\ utf8 = utf16_convert_to_utf8_quote_cstr(text)
    BY DEF ConvertedText
  <2> QED BY <2>1, QuotesReadBack
<1> QED BY <1>1, ConvertedAlways, PTL

LEMMA ThreeInFour ==
  ASSUME NEW n \in Nat, NEW size \in Nat, NEW k \in Nat, 4 * n <= size, k <= 3 * n
  PROVE  /\ (k + 2) + 1 <= size \/ (size < 9 /\ n < 3)
         /\ k + 1 <= size \/ (size < 9 /\ n < 1)
BY SMT

(* Four bytes asked for each unit hold what three can become, with the     *)
(* quotes and the terminator, but for the shortest texts.                  *)
THEOREM RoomSuffices == DecodingSpec => []TextFits
<1>1. ConvertedText => TextFits
  <2> SUFFICES ASSUME ConvertedText PROVE TextFits
    OBVIOUS
  <2>1. text \in Seq(Units) /\ room \in Nat /\ 4 * Len(text) <= room /\ Len(text) \in Nat
    BY DEF ConvertedText
  <2>2. CASE json
    <3> DEFINE G == Convert(text, TRUE)
    <3>1. G \in Seq(Nat) /\ Len(G) <= 3 * Len(text)
      BY <2>1, ConvertIs
    <3>2. utf8 = <<Quote>> \o G \o <<Quote>>
      BY <2>2 DEF ConvertedText, utf16_convert_to_utf8_quote_cstr
    <3> HIDE DEF G
    <3>3. Len(utf8) = Len(G) + 2 /\ Len(G) \in Nat
      BY SMT, <3>1, <3>2 DEF Quote
    <3>4. Len(utf8) + 1 <= room \/ (room < 9 /\ Len(text) < 3)
      BY <2>1, <3>1, <3>3, ThreeInFour
    <3> QED BY <2>2, <3>4 DEF TextFits
  <2>3. CASE ~json
    <3>1. utf8 = Convert(text, FALSE)
      BY <2>3 DEF ConvertedText, utf16_convert_to_utf8_cstr
    <3>2. utf8 \in Seq(Nat) /\ Len(utf8) <= 3 * Len(text)
      BY <2>1, <3>1, ConvertIs
    <3>3. Len(utf8) \in Nat
      BY <3>2
    <3>4. Len(utf8) + 1 <= room \/ (room < 9 /\ Len(text) < 1)
      BY <2>1, <3>2, <3>3, ThreeInFour
    <3> QED BY <2>3, <3>4 DEF TextFits
  <2> QED BY <2>2, <2>3
<1> QED BY <1>1, ConvertedAlways, PTL
=============================================================================
