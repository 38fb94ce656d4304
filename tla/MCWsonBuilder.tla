--------------------------- MODULE MCWsonBuilder ---------------------------
(***************************************************************************)
(* Graphs for WsonBuilder.  All of them are over the same objects; a cfg   *)
(* chooses the roots, and so what the application writes.                  *)
(*                                                                         *)
(*   cyclic    map -> list -> map, a null entry and a null element         *)
(*   bean      getters: plain data, null, the shared list                  *)
(*   failing   one getter throws: JSON.toJSON stands in for it             *)
(*   outer     its getter returns inner, which equals() it                 *)
(*   broken    a map with a null key after a good entry                    *)
(*   frail     a list with a CharSequence that throws                      *)
(*   shaky     a bean one of whose values is frail                         *)
(*   calling   its getter calls toWson; its JSON form is broken            *)
(*   looping   a bean that holds itself and whose getter calls toWson      *)
(***************************************************************************)
EXTENDS WsonEncoding, WsonShape

CONSTANTS cyclic, list, bean, failing, json, outer, inner, broken,
          frail, shaky, calling, plain, looping

MCObjects == {cyclic, list, bean, failing, json, outer, inner, broken,
              frail, shaky, calling, plain, looping}

MCKind ==
  [o \in MCObjects |->
     CASE o \in {list, frail} -> "list"
       [] o \in {cyclic, json, broken, plain} -> "map"
       [] OTHER -> "bean"]

Entry(val) == [key |-> "key", val |-> val]

MCItems ==
  [o \in MCObjects |->
     CASE o = cyclic  -> <<Entry(Leaf), Entry(Null), Entry(list)>>
       [] o = list    -> <<Entry(Leaf), Entry(Null), Entry(cyclic)>>
       [] o = bean    -> <<Entry(Null), Entry(Leaf), Entry(list)>>
       [] o = failing -> <<Entry(Leaf), Entry(Thrower)>>
       [] o = json    -> <<Entry(Leaf)>>
       [] o = outer   -> <<Entry(inner), Entry(Leaf)>>
       [] o = inner   -> <<Entry(Leaf)>>
       [] o = broken  -> <<Entry(Leaf), [key |-> NullKey, val |-> Leaf]>>
       [] o = frail   -> <<Entry(Leaf), Entry(Thrower)>>
       [] o = shaky   -> <<Entry(Leaf), Entry(frail)>>
       [] o = calling -> <<Entry(Caller), Entry(plain)>>
       [] o = plain   -> <<Entry(Leaf)>>
       [] o = looping -> <<Entry(Caller), Entry(looping)>>]

Beans == {o \in MCObjects : MCKind[o] = "bean"}

(* What JSON.toJSON makes of a bean: a map of plain data, or a failure.    *)
MCJson ==
  [o \in Beans |->
     CASE o = failing -> json
       [] o = shaky   -> json
       [] o = calling -> broken
       [] OTHER       -> Thrower]

(* Each bean is of a class of its own. *)
MCClass == [o \in Beans |-> o]

MCEqual == {{outer, inner}}

CleanRoots   == {cyclic, bean, failing, outer}
FailingRoots == {calling, shaky, bean}
LoopingRoots == {looping, plain}
ShakyRoots   == {shaky, plain}

(* What is proved of clean graphs is proved of this one. *)
ASSUME CleanAssumption == Roots = CleanRoots => CleanGraph /\ Steady
=============================================================================
