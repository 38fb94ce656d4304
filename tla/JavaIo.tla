-------------------------------- MODULE JavaIo --------------------------------
(***************************************************************************)
(* io.Output and io.Input of the Java library: an array that is replaced   *)
(* by a longer one when ensureCapacity asks for it, and the numbers that   *)
(* are stored in it.                                                       *)
(*                                                                         *)
(* The caller reserves, the write methods do not: a method is correct only *)
(* together with the ensureCapacity that Wson.Builder calls before it.     *)
(* Each action is such a pair, or the two of them that write a string.     *)
(* Java checks bounds: a store outside of the array is an exception.       *)
(***************************************************************************)
EXTENDS WsonVarint

CONSTANTS
  MaxInt,    \* Integer.MAX_VALUE
  Least,     \* the least capacity an array grows to   (16384)
  Lengths,   \* lengths of the strings and byte arrays written
  Numbers,   \* int values written
  Created    \* capacities an Output may start with: 4096, or a pooled array's

ASSUME IntAssumption ==
  /\ MaxInt \in Nat /\ 16 <= MaxInt /\ 2 * MaxInt <= MaxUint
  /\ Least \in Nat \ {0} /\ 2 * Least <= MaxInt
  /\ Lengths \subseteq Nat
  /\ \A length \in Lengths : 2 * length + 16 <= MaxInt
  /\ Numbers \subseteq Int
  /\ \A num \in Numbers : Zig(num) \in Uint
  /\ Created \subseteq 0..MaxInt

VARIABLES
  output,  \* [capacity, position, asked, thrown]
  sent     \* the number written last: [how, num, bytes]

vars == <<output, sent>>

-----------------------------------------------------------------------------
(* Mutant: the arithmetic is that of longs.                                *)
AsLong(num) == num

(* The int that an addition or a doubling of two ints in 0..MaxInt gives.  *)
AsInt(num) == IF num > MaxInt THEN num - 2 * (MaxInt + 1) ELSE num

(* Mutant: the array grows to what is asked for.                           *)
GrownExactly(capacity, min) == min

Grown(capacity, min) ==
  LET doubled == AsInt(2 * capacity)
      new == IF doubled < Least THEN Least ELSE doubled
  IN  IF new < min THEN AsInt(2 * min) ELSE new

(* copyOf with a negative length throws; after an exception nothing else   *)
(* of the call is done.                                                    *)
ensureCapacity(o, asked) ==
  LET min == AsInt(asked + o.position)
      new == Grown(o.capacity, min)
      it == [o EXCEPT !.asked = asked]
  IN  IF o.thrown THEN o
      ELSE IF min <= o.capacity THEN it
      ELSE IF new < 0 THEN [it EXCEPT !.thrown = TRUE]
      ELSE [it EXCEPT !.capacity = new]

(* Bytes stored at the position. *)
Stored(o, count) ==
  IF o.thrown THEN o
  ELSE IF o.position + count > o.capacity THEN [o EXCEPT !.thrown = TRUE]
  ELSE [o EXCEPT !.position = @ + count]

-----------------------------------------------------------------------------
(* Numbers.                                                                *)

(* writeInt and writeFloat: the four bytes of two's complement, the most   *)
(* significant first.                                                      *)
Fixed(num) ==
  <<(num \div 16777216) % 256, (num \div 65536) % 256, (num \div 256) % 256, num % 256>>

Signed(bt) == IF bt < 128 THEN bt ELSE bt - 256

(* readFloat masks three of the bytes; *)
readFloatBits(bts) ==
  16777216 * Signed(bts[1]) + 65536 * bts[2] + 256 * bts[3] + bts[4]

(* readInt adds them as they are. *)
readInt(bts) ==
  16777216 * Signed(bts[1]) + 65536 * Signed(bts[2]) + 256 * Signed(bts[3]) + Signed(bts[4])

(* Mutant: a number of five bytes is too long.                             *)
UIntSizeFour(bts) ==
  CHOOSE size \in 1..4 :
    size < 4 => (bts[size] < 128 /\ \A i \in 1..(size - 1) : bts[i] >= 128)

(* readUInt goes on while the continuation bit is set; no writer sets that *)
(* of a fifth byte.                                                        *)
UIntSize(bts) ==
  CHOOSE size \in 1..5 :
    bts[size] < 128 /\ \A i \in 1..(size - 1) : bts[i] >= 128

(* value | (b << i): of the fifth byte the lower four bits are left. *)
UIntPart(bts, i) ==
  IF i > UIntSize(bts) THEN 0
  ELSE (bts[i] % (IF i = 5 THEN 16 ELSE 128)) * Weight[i]

readUInt(bts) ==
  UIntPart(bts, 1) + UIntPart(bts, 2) + UIntPart(bts, 3) + UIntPart(bts, 4)
    + UIntPart(bts, 5)

readVarInt(bts) == Zag(readUInt(bts))

-----------------------------------------------------------------------------
(* The writes of Wson.Builder and of an application that uses Output.      *)

Nothing == [how |-> "none", num |-> 0, bytes |-> <<>>]

(* Reserve, store the tag, if there is one, and the rest. *)
Written(asked, tag, bytes) == Stored(Stored(ensureCapacity(output, asked), tag), bytes)

(* null, true, false; *)
WriteConstant ==
  /\ output' = Written(2, 1, 0)
  /\ sent' = Nothing

(* an array or a map, up to its size; *)
WriteHeader ==
  \E size \in Lengths :
    /\ output' = Written(8, 1, VarSize(size))
    /\ sent' = [how |-> "unsigned", num |-> size, bytes |-> VarUint(size)]

(* Integer, Short, Byte; *)
WriteInt ==
  \E num \in Numbers :
    /\ output' = Written(12, 1, VarSize(Zig(num)))
    /\ sent' = [how |-> "signed", num |-> num, bytes |-> VarUint(Zig(num))]

(* Float; *)
WriteFloat ==
  \E num \in Numbers :
    /\ output' = Written(12, 1, 4)
    /\ sent' = [how |-> "bits", num |-> num, bytes |-> Fixed(num)]

(* Double, Long, and the time of a Date or Calendar; *)
WriteLong ==
  /\ \E asked \in {10, 12} : output' = Written(asked, 1, 8)
  /\ sent' = Nothing

(* Mutant: no room is reserved for the length.                             *)
UTF16Tight(o, length) ==
  Stored(ensureCapacity(o, 2 * length), VarSize(2 * length) + 2 * length)

(* writeUTF16String, which reserves for itself: *)
UTF16String(o, length) ==
  Stored(ensureCapacity(o, 2 * length + 8), VarSize(2 * length) + 2 * length)

(* a key, *)
WriteKey ==
  /\ \E length \in Lengths : output' = UTF16String(output, length)
  /\ sent' = Nothing

(* a CharSequence, or a number that is written as one. *)
WriteString ==
  /\ \E length \in Lengths, asked \in {2, 12} :
       output' = UTF16String(Written(asked, 1, 0), length)
  /\ sent' = Nothing

(* Output.writeBytes and writeStringUTF8 reserve too; null is written as   *)
(* the length -1.                                                          *)
WriteBytes ==
  /\ \E length \in Lengths : output' = Written(length + 16, 0, length)
  /\ sent' = Nothing

WriteStringUTF8 ==
  \/ \E length \in Lengths :
       /\ output' = Written(length + 12, 0, VarSize(Zig(length)) + length)
       /\ sent' = [how |-> "signed", num |-> length, bytes |-> VarUint(Zig(length))]
  \/ /\ output' = Written(8, 0, VarSize(Zig(-1)))
     /\ sent' = [how |-> "signed", num |-> -1, bytes |-> VarUint(Zig(-1))]

(* writeFixedInt32, with the reservation of a number. *)
WriteFixedInt32 ==
  \E num \in Numbers :
    /\ output' = Written(12, 0, 4)
    /\ sent' = [how |-> "fixed", num |-> num, bytes |-> Fixed(num)]

Init ==
  /\ \E capacity \in Created :
       output = [capacity |-> capacity, position |-> 0, asked |-> 0, thrown |-> FALSE]
  /\ sent = Nothing

Next ==
  /\ ~output.thrown
  /\ \/ WriteConstant \/ WriteHeader \/ WriteInt \/ WriteFloat \/ WriteLong
     \/ WriteKey \/ WriteString \/ WriteBytes \/ WriteStringUTF8 \/ WriteFixedInt32

Spec == Init /\ [][Next]_vars

-----------------------------------------------------------------------------
(* Properties.                                                             *)

(* The position is in the array, and both are ints.                        *)
TypeOK ==
  /\ output.position \in 0..output.capacity
  /\ output.capacity \in 0..MaxInt
  /\ output.asked \in 0..MaxInt
  /\ output.thrown \in BOOLEAN

(* A write fails only when the output, with what was reserved, is beyond   *)
(* half of the ints: below that every reservation covers what is stored    *)
(* after it and no doubling goes wrong (Output.ensureCapacity and its      *)
(* callers).                                                               *)
FailsOnlyTooLarge ==
  output.thrown => 2 * (output.position + output.asked) > MaxInt

(* A new array is at least twice as long as the old one, also where the    *)
(* doubled length is no longer an int.                                     *)
Doubles ==
  [][output'.capacity # output.capacity =>
       output'.capacity >= 2 * output.capacity]_vars

(* What follows a number in the stream. *)
After(bytes) == bytes \o <<255, 255, 255, 255, 255>>

(* Input reads the number that Output wrote, whatever bytes follow, and so *)
(* does the C library; readInt does if none of the three lower bytes has   *)
(* its top bit set.                                                        *)
NumbersReadBack ==
  LET bts == After(sent.bytes)
  IN  CASE sent.how = "unsigned" -> readUInt(bts) = sent.num /\ ReadUint(bts) = sent.num
        [] sent.how = "signed" -> readVarInt(bts) = sent.num /\ Zag(ReadUint(bts)) = sent.num
        [] sent.how = "bits" -> readFloatBits(bts) = sent.num
        [] sent.how = "fixed" ->
             (readInt(bts) = sent.num) <=> (\A i \in 2..4 : sent.bytes[i] < 128)
        [] OTHER -> TRUE
=============================================================================
