---------------------------- MODULE WsonEncoding ----------------------------
(***************************************************************************)
(* What toWson should produce: the encoding of an object graph as a        *)
(* function of the graph alone.  The walk of WsonBuilder is checked        *)
(* against it.                                                             *)
(***************************************************************************)
EXTENDS WsonBuilder

On(path, o) ==
  \E i \in DOMAIN path : path[i] = o \/ {path[i], o} \in Equal

Throws(o) == \E i \in DOMAIN Items[o] : Items[o][i].val = Thrower

(* What is written of a container: all of a list, but of a map only the    *)
(* entries that have a value.                                              *)
Kept(o) ==
  {i \in DOMAIN Items[o] : Kind[o] = "list" \/ Items[o][i].val # Null}

Heading(o) ==
  [tag |-> IF Kind[o] = "list" THEN "array" ELSE "map",
   size |-> Cardinality(Kept(o))]

(* The encodings below are functions of a value and of the objects it is   *)
(* inside of, outermost first.                                             *)
Places == Values \X Seq(Objects)

(* Entry i of o, where enc encodes its value. *)
Piece(enc, o, path, i) ==
  IF i \notin Kept(o) THEN <<>>
  ELSE (IF Kind[o] = "list" THEN <<>> ELSE <<Token("key")>>)
         \o enc[<<Items[o][i].val, path>>]

(* The last k entries of o. *)
Ending(enc, o, path) ==
  LET ending[k \in Nat] ==
        IF k = 0 THEN <<>>
        ELSE Piece(enc, o, path, Len(Items[o]) + 1 - k) \o ending[k - 1]
  IN  ending

(* An object, the last one of path: a bean whose getters fail is written   *)
(* as its JSON form.                                                       *)
Body(enc, o, path) ==
  IF Kind[o] = "bean" /\ Throws(o)
  THEN enc[<<Json[o], path>>]
  ELSE <<Heading(o)>> \o Ending(enc, o, path)[Len(Items[o])]

(* Null, and in the place of an object that is not entered. *)
Plain(val) == <<Token(IF val \in Objects \cup {Null} THEN "null" ELSE "leaf")>>

(* A value; an object inside itself is null. *)
Value(enc, val, path) ==
  IF val \notin Objects \/ On(path, val)
  THEN Plain(val)
  ELSE Body(enc, val, Append(path, val))

(* Values that are at most n objects deep. *)
encode[n \in Nat] ==
  [place \in Places |->
     IF n = 0 THEN Plain(place[1])
     ELSE Value(encode[n - 1], place[1], place[2])]

(* No object is inside itself, so that none is deeper than there are       *)
(* objects.                                                                *)
Encode(val, path) == encode[Cardinality(Reachable) - Len(path)][<<val, path>>]

(* A call that returns has written the encoding of its object.             *)
Faithful ==
  result.root # None => result.out = Encode(result.root, <<>>)

(* The clean graphs on which what is written depends on the graph alone:   *)
(* the beans of a class fail all or none, or else the first to fail would  *)
(* change how the others are written, and like the names of getters the    *)
(* keys of a bean are never null.                                          *)
Steady ==
  \A o \in Reachable \cap BeanSet :
    /\ Class[o] \in FlawedClasses => Throws(o)
    /\ \A i \in DOMAIN Items[o] : Items[o][i].key # NullKey
=============================================================================
