------------------------------ MODULE WsonBuffer ------------------------------
(***************************************************************************)
(* The writer of the older C library, c/wson.c.  It makes the same stores  *)
(* as that of WsonIo; what differs is that position and length are 32-bit  *)
(* numbers, that resize computes in 32 bits, and that the comparison which *)
(* decides on a resize is in 32 bits too when an int is reserved, in 64    *)
(* when a size_t is (of 64 bits, that is).                                 *)
(*                                                                         *)
(* Only the numbers are kept: a store is its length.  What happens after a *)
(* store outside of the block is undefined, so nothing happens here.       *)
(***************************************************************************)
EXTENDS WsonVarint

CONSTANTS
  Modulus,        \* 2^32
  SmallLimit,     \* a block below this length grows by SmallLimit    (16384)
  Slack,          \* added to a request not below the length           (1024)
  NewLengths,     \* lengths of the block at first: 1024, or that given to
                  \*   wson_buffer_from
  PushedLengths,  \* lengths of strings
  PushedNumbers,  \* numbers written
  Sizes,          \* sizes reserved by the application
  MaxMost         \* bound: no call starts when more than this was needed

ASSUME WidthAssumption ==
  /\ Modulus \in Nat /\ SmallLimit \in Nat \ {0} /\ Slack \in Nat \ {0}
  /\ 2 * SmallLimit + 16 <= Modulus
  /\ NewLengths \subseteq 0..(Modulus - 1)
  /\ PushedLengths \subseteq 0..(Modulus - 1) /\ PushedLengths \subseteq Uint
  /\ PushedNumbers \subseteq Uint
  /\ Sizes \subseteq 0..(Modulus - 1)
  /\ MaxMost \in Nat

VARIABLE buffer  \* [position, length, most, outside]: most is the largest sum of
                 \* a position and a reservation made there; outside, whether
                 \* a store was not in the block

-----------------------------------------------------------------------------
(* What is left of a sum in a uint32_t. *)
AsUint(num) == num % Modulus

(* Mutant: a large block grows by twice its length, as in io/wson.         *)
GrowthByTwo(length, size) ==
  IF size < length
  THEN IF length < SmallLimit THEN SmallLimit ELSE AsUint(2 * length)
  ELSE AsUint(size + Slack)

(* What msg_buffer_resize makes of the size it is given. *)
Growth(length, size) ==
  IF size < length
  THEN IF length < SmallLimit THEN SmallLimit ELSE length
  ELSE AsUint(size + Slack)

msg_buffer_resize(b, size) ==
  [b EXCEPT !.length = AsUint(Growth(b.length, size) + b.length)]

Noted(b, size) ==
  [b EXCEPT !.most = IF b.position + size > @ THEN b.position + size ELSE @]

(* WSON_BUFFER_ENSURE_SIZE, by the sum it compares the length with. *)
EnsureSum(b, size, sum) ==
  IF b.outside THEN b
  ELSE IF b.length < sum THEN msg_buffer_resize(Noted(b, size), size)
                         ELSE Noted(b, size)

Ensure(b, size) == EnsureSum(b, size, b.position + size)
EnsureInt(b, size) == EnsureSum(b, size, AsUint(b.position + size))

Store(b, count) ==
  IF b.outside THEN b
  ELSE IF b.position + count > b.length THEN [b EXCEPT !.outside = TRUE]
  ELSE [b EXCEPT !.position = @ + count]

-----------------------------------------------------------------------------
Bytes(b, reserved, count) == Store(Ensure(b, reserved), count)

(* Mutant: room for a number of four bytes.                                *)
UintTight(b, num) == Bytes(b, 4, VarSize(num))

Uint5(b, num) == Bytes(b, 5, VarSize(num))
String(b, length) == Store(EnsureInt(b, length), length)
Tag(b) == Bytes(b, 1, 1)

(* wson_push_byte, wson_push_type, wson_push_type_null: *)
wson_push_byte == buffer' = Tag(buffer)

wson_push_type_boolean == buffer' = Bytes(buffer, 2, 1)

(* wson_push_int is wson_push_uint of another number. *)
wson_push_uint == \E num \in PushedNumbers : buffer' = Uint5(buffer, num)

(* wson_push_double is one of these, and wson_push_float. *)
wson_push_ulong == buffer' = Bytes(buffer, 8, 8)
wson_push_float == buffer' = Bytes(buffer, 4, 4)

wson_push_bytes == \E length \in PushedLengths : buffer' = String(buffer, length)

(* An int, the header of a map or an array, the length of a string. *)
wson_push_type_int == \E num \in PushedNumbers : buffer' = Uint5(Tag(buffer), num)

(* A double or a long. *)
wson_push_type_long == buffer' = Bytes(Tag(buffer), 8, 8)
wson_push_type_float == buffer' = Bytes(Tag(buffer), 4, 4)

wson_push_property ==
  \E length \in PushedLengths : buffer' = String(Uint5(buffer, length), length)

(* A string, one of bytes, or an extension. *)
wson_push_type_string ==
  \E length \in PushedLengths : buffer' = String(Uint5(Tag(buffer), length), length)

(* wson_push_ensure_size, wson_buffer_require: *)
wson_push_ensure_size == \E size \in Sizes : buffer' = Ensure(buffer, size)

(* wson_buffer_new, wson_buffer_from: *)
wson_buffer_new ==
  \E length \in NewLengths :
    buffer = [position |-> 0, length |-> length, most |-> 0, outside |-> FALSE]

wson_push ==
  /\ ~buffer.outside /\ buffer.most <= MaxMost
  /\ \/ wson_push_byte \/ wson_push_type_boolean \/ wson_push_uint
     \/ wson_push_ulong \/ wson_push_float \/ wson_push_bytes
     \/ wson_push_type_int \/ wson_push_type_long \/ wson_push_type_float
     \/ wson_push_property \/ wson_push_type_string \/ wson_push_ensure_size

WsonBufferSpec == wson_buffer_new /\ [][wson_push]_buffer

-----------------------------------------------------------------------------
(* Properties.                                                             *)

(* A store is outside of the block only when twice what was needed, with   *)
(* the slack, is no longer a 32-bit number: below that neither the         *)
(* comparison nor the new length wraps, and every reservation covers the   *)
(* stores made after it (WSON_BUFFER_ENSURE_SIZE, msg_buffer_resize).      *)
OutsideOnlyTooLarge ==
  buffer.outside => 2 * buffer.most + Slack >= Modulus

(* Below that, too, the block has no more than twice the bytes needed and  *)
(* a constant: reservations that were never used are counted.              *)
InProportion ==
  2 * buffer.most + Slack < Modulus =>
    buffer.length <= 2 * buffer.most + 2 * SmallLimit + Slack
      \/ buffer.length \in NewLengths
=============================================================================
