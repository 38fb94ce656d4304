---------------------------- MODULE MCConversions ----------------------------
(***************************************************************************)
(* JavaIo, WsonBuffer and Utf16 on small instances: the parts of the       *)
(* library where sizes are asked for before the data is looked at.  They   *)
(* share nothing; in a behaviour one of them runs.                         *)
(***************************************************************************)
EXTENDS JavaIo, WsonBuffer, Utf16

(* ints of 8 bits for the capacities; numbers of one, two and five varint *)
(* bytes, negative ones, and ones with and without high bytes inside.      *)
MCLengths == {0, 3, 40}
MCNumbers == {0, -1, 127, 128, 8388735, -1073741696}
MCCreated == {0, 4, 50}

(* ASCII, a quote, a tab and another control character, the bounds of one, *)
(* two and three bytes, both kinds of surrogate at the ends of their       *)
(* ranges; in threes, the surrogates against each other and against text.  *)
MCUnits == {34, 92, 9, 1, 127, 128, 2047, 2048, 55296, 56319, 56320, 57343, 57344, 65535}
MCTexts ==
  UNION {[1..n -> MCUnits] : n \in 0..2} \cup [1..3 -> {55296, 57343, 34, 65535}]

-----------------------------------------------------------------------------
(* Lengths below 64; strings and reservations that fit, that need a new    *)
(* block of each kind, and whose sums wrap.                                *)
MCNewLengths == {0, 4, 20}
MCPushedLengths == {0, 3, 24}
MCPushedNumbers == {0, 1073741824}
MCSizes == {20, 63}

-----------------------------------------------------------------------------
Idle == output.asked = 0 /\ output.capacity = 4 /\ buffer.most = 0 /\ buffer.length = 4

MCInit == Init /\ DecodingInit /\ wson_buffer_new

MCNext ==
  \/ utf8 = <<>> /\ buffer.most = 0 /\ buffer.length = 4 /\ Next
     /\ UNCHANGED <<buffer, texts>>
  \/ utf8 = <<>> /\ output.asked = 0 /\ output.capacity = 4 /\ wson_push
     /\ UNCHANGED <<vars, texts>>
  \/ Idle /\ DecodingNext /\ UNCHANGED <<buffer, vars>>

MCSpec == MCInit /\ [][MCNext]_<<buffer, vars, texts>>
=============================================================================
