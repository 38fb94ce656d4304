----------------------------- MODULE WsonShape -----------------------------
(***************************************************************************)
(* When a sequence of tokens is one wson value: a reader of the output of  *)
(* toWson needs no more than that to find its end.                         *)
(***************************************************************************)
EXTENDS WsonBuilder

RECURSIVE AfterValue(_, _), AfterItems(_, _, _, _)

(* The position after the value that starts at i, or 0 if there is none.   *)
AfterValue(out, i) ==
  IF i \notin DOMAIN out THEN 0
  ELSE IF out[i].tag \in {"null", "leaf"} THEN i + 1
  ELSE IF out[i].tag = "key" THEN 0
  ELSE AfterItems(out, i + 1, out[i].size, out[i].tag = "map")

AfterItems(out, i, n, keyed) ==
  IF n = 0 \/ i = 0 THEN i
  ELSE IF keyed /\ ~(i \in DOMAIN out /\ out[i].tag = "key") THEN 0
  ELSE AfterItems(out, AfterValue(out, IF keyed THEN i + 1 ELSE i), n - 1, keyed)

(* A call that returns has produced one complete value: every header       *)
(* announces as many entries as follow it, and nothing is left over.       *)
WellFormed ==
  result.root # None => AfterValue(result.out, 1) = Len(result.out) + 1
=============================================================================
