------------------------------ MODULE ByteLog ------------------------------
(***************************************************************************)
(* What a wson writer promises its caller: the bytes written so far are a  *)
(* log; a call appends the complete encoding of what it was given and      *)
(* never touches what is already there.  How the bytes are stored, and     *)
(* when the storage moves, does not show.                                  *)
(***************************************************************************)
EXTENDS Sequences

CONSTANT Chunks  \* the byte sequences one call may append

VARIABLE log

Init == log = <<>>

Write(chunk) == log' = log \o chunk

Next == \E chunk \in Chunks : Write(chunk)

Spec == Init /\ [][Next]_log
=============================================================================
