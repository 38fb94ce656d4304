------------------------------- MODULE WsonIo -------------------------------
(***************************************************************************)
(* The C writer: the growable buffer of io/wson/wson.c and the tagged      *)
(* writes of io/wson/wson_protocol.c on top of it.                         *)
(*                                                                         *)
(* wson_io_buffer is the record buf.  data holds one cell per allocated    *)
(* byte: a byte, or Junk where malloc or realloc left the memory           *)
(* uninitialised.  A store past the allocation is lost, so that it shows   *)
(* as a byte missing from the output.                                      *)
(***************************************************************************)
EXTENDS WsonVarint, WsonProtocol

CONSTANTS
  NewSizes,     \* sizes a buffer may be created with: 4096 unless the caller
                \*   of wson_io_buffer_new_size chooses another
  SmallLimit,   \* a buffer below this length grows by SmallLimit       (8192)
  LargeFactor,  \* a larger one grows by this many times its length        (2)
  Slack,        \* added to a request that is not below the length      (4096)
  RawBytes,     \* arguments of the calls: bytes,
  Uints, Ints,  \*   unsigned and signed 32-bit numbers,
  Longs,        \*   64-bit numbers and doubles, as their 8 bytes,
  Floats,       \*   floats, as their 4 bytes,
  Strings,      \*   byte strings
  MaxPosition   \* bound on the bytes written: no call starts beyond it

ASSUME GrowthAssumption ==
  /\ NewSizes \subseteq Nat
  /\ SmallLimit \in Nat
  /\ LargeFactor \in Nat \ {0}
  /\ Slack \in Nat

ASSUME ArgumentAssumption ==
  /\ RawBytes \subseteq Byte
  /\ Uints \subseteq Uint
  /\ \A num \in Ints : num \in Int /\ Zig(num) \in Uint
  /\ \A num \in Longs : num \in Seq(Byte) /\ Len(num) = 8
  /\ \A num \in Floats : num \in Seq(Byte) /\ Len(num) = 4
  /\ \A src \in Strings : src \in Seq(Byte) /\ Len(src) \in Uint
  /\ MaxPosition \in Nat

VARIABLE buf

Junk == -1
Cell == Byte \cup {Junk}

-----------------------------------------------------------------------------
(* Storage. *)

Alloc(size) ==
  [data |-> [i \in 0..(size - 1) |-> Junk], position |-> 0, length |-> size]

(* Mutant: every buffer grows by its own scale, whatever is requested.     *)
GrowthUnasked(length, size) ==
  IF length < SmallLimit THEN SmallLimit ELSE length * LargeFactor

(* Mutant: a large buffer grows by half of its length.                     *)
GrowthByHalf(length, size) ==
  IF size < length
  THEN IF length < SmallLimit THEN SmallLimit ELSE length \div 2
  ELSE size + Slack

(* The bytes wson_io_buffer_resize adds to a buffer of that length. *)
Growth(length, size) ==
  IF size < length
  THEN IF length < SmallLimit THEN SmallLimit ELSE length * LargeFactor
  ELSE size + Slack

(* Mutant: malloc in the place of realloc.                                 *)
ResizeFresh(b, size) ==
  LET length == b.length + Growth(b.length, size)
  IN  [b EXCEPT !.data = [i \in 0..(length - 1) |-> Junk], !.length = length]

(* Mutant: the new length is not recorded.                                 *)
ResizeUnrecorded(b, size) ==
  LET length == b.length + Growth(b.length, size)
  IN  [b EXCEPT !.data = [i \in 0..(length - 1) |->
                            IF i < b.length THEN b.data[i] ELSE Junk]]

Resize(b, size) ==
  LET length == b.length + Growth(b.length, size)
  IN  [b EXCEPT !.data = [i \in 0..(length - 1) |->
                            IF i < b.length THEN b.data[i] ELSE Junk],
                !.length = length]

(* The macro WSON_IO_BUFFER_ENSURE_SIZE. *)
Ensure(b, size) ==
  IF b.length < b.position + size THEN Resize(b, size) ELSE b

(* Stores at the position, which then moves past them. *)
Store(b, bts) ==
  [b EXCEPT !.data = [i \in DOMAIN b.data |->
                        IF i - b.position + 1 \in 1..Len(bts)
                        THEN bts[i - b.position + 1]
                        ELSE b.data[i]],
            !.position = b.position + Len(bts)]

-----------------------------------------------------------------------------
(* Untagged writes. *)

PutByte(b, bt)     == Store(Ensure(b, 1), <<bt>>)
PutVarUint(b, num) == Store(Ensure(b, 5), VarUint(num))
PutVarInt(b, num)  == PutVarUint(b, Zig(num))
PutUint64(b, num)  == Store(Ensure(b, 8), num)
PutFloat(b, num)   == Store(Ensure(b, 4), num)
PutBytes(b, src)   == Store(Ensure(b, Len(src)), src)

(* Tagged writes: each part makes its own room. *)

PutType(b, tag)         == Store(Ensure(b, 1), <<tag>>)
PutBoolean(b, value)    ==
  Store(Ensure(b, 2), IF value THEN <<BooleanTrue>> ELSE <<BooleanFalse>>)
PutTaggedVarInt(b, num) == PutVarInt(PutType(b, IntType), num)
PutTaggedLong(b, num)   == PutUint64(PutType(b, LongType), num)
PutTaggedDouble(b, num) == PutUint64(PutType(b, DoubleType), num)
PutTaggedFloat(b, num)  == PutFloat(PutType(b, FloatType), num)
(* Mutant: the length after the bytes.                                     *)
PutMapKeySwapped(b, src) == PutVarUint(PutBytes(b, src), Len(src))

PutMapKey(b, src)       == PutBytes(PutVarUint(b, Len(src)), src)
PutString(b, src)       == PutMapKey(PutType(b, StringType), src)
PutUint8String(b, src)  == PutMapKey(PutType(b, Uint8String), src)
PutExtend(b, src)       == PutMapKey(PutType(b, ExtendType), src)
PutStringLength(b, num) == PutVarUint(PutType(b, StringType), num)
PutMap(b, size)         == PutVarUint(PutType(b, MapType), size)
PutArray(b, size)       == PutVarUint(PutType(b, ArrayType), size)

-----------------------------------------------------------------------------
(* The calls, one action each.                                            *)

WriteByte == \E bt \in RawBytes : buf' = PutByte(buf, bt)
WriteVarUint == \E num \in Uints : buf' = PutVarUint(buf, num)
WriteVarInt == \E num \in Ints : buf' = PutVarInt(buf, num)
WriteUint64 == \E num \in Longs : buf' = PutUint64(buf, num)
WriteFloat == \E num \in Floats : buf' = PutFloat(buf, num)
WriteBytes == \E src \in Strings : buf' = PutBytes(buf, src)
EnsureSize == \E size \in Uints : buf' = Ensure(buf, size)

WriteNull == buf' = PutType(buf, NullType)
WriteBoolean == \E value \in BOOLEAN : buf' = PutBoolean(buf, value)
WriteTaggedVarInt == \E num \in Ints : buf' = PutTaggedVarInt(buf, num)
WriteTaggedLong == \E num \in Longs : buf' = PutTaggedLong(buf, num)
WriteTaggedDouble == \E num \in Longs : buf' = PutTaggedDouble(buf, num)
WriteTaggedFloat == \E num \in Floats : buf' = PutTaggedFloat(buf, num)
WriteString == \E src \in Strings : buf' = PutString(buf, src)
WriteUint8String == \E src \in Strings : buf' = PutUint8String(buf, src)
WriteExtend == \E src \in Strings : buf' = PutExtend(buf, src)
WriteMapKey == \E src \in Strings : buf' = PutMapKey(buf, src)
WriteStringLength == \E num \in Uints : buf' = PutStringLength(buf, num)
WriteMap == \E size \in Uints : buf' = PutMap(buf, size)
WriteArray == \E size \in Uints : buf' = PutArray(buf, size)

Init == \E size \in NewSizes : buf = Alloc(size)

Call ==
  \/ WriteByte \/ WriteVarUint \/ WriteVarInt \/ WriteUint64 \/ WriteFloat
  \/ WriteBytes \/ EnsureSize
  \/ WriteNull \/ WriteBoolean \/ WriteTaggedVarInt \/ WriteTaggedLong
  \/ WriteTaggedDouble \/ WriteTaggedFloat \/ WriteString \/ WriteUint8String
  \/ WriteExtend \/ WriteMapKey \/ WriteStringLength \/ WriteMap \/ WriteArray

Next == buf.position < MaxPosition /\ Call

Spec == Init /\ [][Next]_buf

-----------------------------------------------------------------------------
(* Properties. *)

(* The buffer is a record whose cells are exactly the allocated bytes. *)
TypeOK ==
  /\ buf.length \in Nat
  /\ buf.position \in Nat
  /\ buf.data \in [0..(buf.length - 1) -> Cell]
  /\ buf = [data |-> buf.data, position |-> buf.position, length |-> buf.length]

(* Every store of every call stays inside the block malloc or realloc      *)
(* returned: the room a call makes (WSON_IO_BUFFER_ENSURE_SIZE) is at      *)
(* least what it then writes, although wson_io_buffer_resize forgets the   *)
(* request when it is below the current length.                            *)
InCapacity == buf.position <= buf.length

(* No byte of the output is uninitialised memory, even after the block     *)
(* moved: what lies below the position was stored by some call.            *)
Initialised == \A i \in 0..(buf.position - 1) : buf.data[i] \in Byte

(* A reallocation at least doubles the block, so that writing n bytes      *)
(* copies O(n) bytes in all, whichever branch wson_io_buffer_resize takes. *)
Doubling ==
  [][buf'.length # buf.length => buf'.length >= 2 * buf.length]_buf

(* What has been written: the bytes a caller hands to wson_parser.         *)
Content(b) ==
  [i \in 1..b.position |->
     IF i - 1 \in DOMAIN b.data THEN b.data[i - 1] ELSE Junk]

Tagged(tag, encodings) == {<<tag>> \o bts : bts \in encodings}
UintEncodings == {VarUint(num) : num \in Uints}
IntEncodings  == {VarUint(Zig(num)) : num \in Ints}
KeyEncodings  == {VarUint(Len(src)) \o src : src \in Strings}

(* The complete encodings a call may append; <<>> for EnsureSize. *)
Encodings ==
  {<<>>, <<NullType>>, <<BooleanTrue>>, <<BooleanFalse>>}
    \cup {<<bt>> : bt \in RawBytes}
    \cup UintEncodings \cup IntEncodings \cup Longs \cup Floats \cup Strings
    \cup KeyEncodings
    \cup Tagged(IntType, IntEncodings)
    \cup Tagged(LongType, Longs)
    \cup Tagged(DoubleType, Longs)
    \cup Tagged(FloatType, Floats)
    \cup Tagged(StringType, KeyEncodings \cup UintEncodings)
    \cup Tagged(Uint8String, KeyEncodings)
    \cup Tagged(ExtendType, KeyEncodings)
    \cup Tagged(MapType, UintEncodings)
    \cup Tagged(ArrayType, UintEncodings)

(* The writer implements an append-only log: whatever reallocations happen *)
(* in the middle of a call, the output after it is the output before it    *)
(* followed by one complete encoding.                                      *)
Log == INSTANCE ByteLog WITH log <- Content(buf), Chunks <- Encodings
AppendOnly == Log!Spec
=============================================================================
