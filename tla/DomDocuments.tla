---------------------------- MODULE DomDocuments ----------------------------
(***************************************************************************)
(* The documents that jsc/dom_wson.cpp reads: values inside each other, of *)
(* which it tells apart texts, nulls, arrays and maps.  In what a writer   *)
(* makes of an object, no key comes twice.                                 *)
(***************************************************************************)
EXTENDS Naturals, Sequences

(* The k-th of this is the value of a variable after k rounds of a loop    *)
(* whose body is Step; or k calls inside each other return it.             *)
Repeat(Step(_, _), start) ==
  LET after[k \in Nat] == IF k = 0 THEN start ELSE Step(after[k - 1], k)
  IN  after

CONSTANTS
  Strings,    \* keys, texts, types, refs
  MaxNesting, \* how deep values are inside each other, at most
  Documents   \* values: [tag, data, items], an item being [key, val]

Single ==
  [tag : {"text"}, data : Strings, items : {<<>>}]
    \cup [tag : {"null"}, data : {""}, items : {<<>>}]

(* The keys of a map are different from each other. *)
Containers(S) ==
  {val \in [tag : {"array", "map"}, data : {""}, items : Seq([key : Strings, val : S])] :
     val.tag = "map" =>
       \A i, j \in DOMAIN val.items : val.items[i].key = val.items[j].key => i = j}

(* Values with n levels. *)
Nested == Repeat(LAMBDA S, n : Single \cup Containers(S), {})

ASSUME DocumentsAssumption ==
  /\ {"", "json"} \subseteq Strings
  /\ MaxNesting \in Nat
  /\ Documents \subseteq Nested[MaxNesting]
=============================================================================
