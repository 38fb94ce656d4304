----------------------------- MODULE MCKeyCache -----------------------------
(***************************************************************************)
(* KeyCache with texts that are prefixes of each other, equal in length,   *)
(* empty, too long to be cached, and longer than the least buffer; all but *)
(* one of them fall into one slot.                                         *)
(***************************************************************************)
EXTENDS KeyCache

CONSTANTS a, b, slot1, slot2

MCTexts == {<<>>, <<a>>, <<b>>, <<a, b>>, <<b, b>>, <<a, b, a>>}
MCIndex == [txt \in MCTexts |-> IF txt = <<b>> THEN slot2 ELSE slot1]
=============================================================================
