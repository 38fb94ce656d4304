----------------------------- MODULE WsonVarint -----------------------------
(***************************************************************************)
(* The variable-length integers of the wson format, as io/wson/wson.c      *)
(* writes and reads them.  A uint32 is cut into 7-bit chunks, least        *)
(* significant first; every byte but the last carries the continuation bit *)
(* 0x80.  Signed numbers are zig-zag mapped to unsigned ones first.        *)
(*                                                                         *)
(* A byte is a number of 0..255; masks and shifts are written as % and     *)
(* \div by powers of two.                                                  *)
(***************************************************************************)
EXTENDS Integers, Sequences

CONSTANT MaxUint  \* the largest uint32_t value considered

(* 32 bits leave at most 4 bits above the four full chunks. *)
ASSUME MaxUintAssumption == MaxUint \in Nat /\ MaxUint \div 268435456 < 16

Byte == 0..255
Uint == 0..MaxUint

(* weight of the i-th chunk: 128^(i-1) *)
Weight == <<1, 128, 16384, 2097152, 268435456>>

-----------------------------------------------------------------------------
(* The do-while of wson_io_write_var_uint stops after the chunk above      *)
(* which nothing is left of the number.                                    *)
VarSize(num) ==
  CHOOSE size \in 1..5 :
    /\ \A i \in (size + 1)..5 : num \div Weight[i] = 0
    /\ size > 1 => num \div Weight[size] # 0

VarUint(num) ==
  [i \in 1..VarSize(num) |->
     ((num \div Weight[i]) % 128) + (IF i < VarSize(num) THEN 128 ELSE 0)]

(* wson_io_read_var_uint over the bytes at the cursor: bts[1] is the byte  *)
(* under it.  The fifth byte ends the number whatever its top bits say.    *)
ReadSize(bts) ==
  CHOOSE size \in 1..5 :
    /\ \A i \in 1..(size - 1) : bts[i] >= 128
    /\ size < 5 => bts[size] < 128

Chunk(bts, i) ==
  IF i > ReadSize(bts) THEN 0
  ELSE (bts[i] % (IF i = 5 THEN 16 ELSE 128)) * Weight[i]

ReadUint(bts) ==
  Chunk(bts, 1) + Chunk(bts, 2) + Chunk(bts, 3) + Chunk(bts, 4) + Chunk(bts, 5)

-----------------------------------------------------------------------------
(* Zig-zag: x ^ (x >> 31) is x or, for a negative x, its complement.       *)
Zig(value) == IF value >= 0 THEN 2 * value ELSE -(2 * value) - 1

Zag(zigged) == IF zigged % 2 = 0 THEN zigged \div 2 ELSE -(zigged \div 2) - 1

=============================================================================
