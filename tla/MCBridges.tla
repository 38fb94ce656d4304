----------------------------- MODULE MCBridges -----------------------------
(***************************************************************************)
(* Bridges and DomRender on small instances.  They share nothing but the   *)
(* format; in a behaviour one of them runs.                                *)
(***************************************************************************)
EXTENDS Bridges, DomRender

CONSTANTS top, array, inner, frame, leaf

-----------------------------------------------------------------------------
(* Two keys of the same length and hash, and one that is never cached.     *)
k1 == <<1, 34>>
k2 == <<2, 1>>
k3 == <<200>>

MCObjects == {top, array, inner, frame}
MCKeys == {k1, k2, k3}

Steady(key, val) == [key |-> key, first |-> val, second |-> val]
Object(kind, items, json) == [kind |-> kind, items |-> items, json |-> json]

(* A map with a property that may change between two readings and one that *)
(* holds an array; an array of anything, circles included; a map with a    *)
(* null, whose toJSON may return something else; a struct of Cocoa.        *)
Changing ==
  {<<val, val>> : val \in {Undefined, Function, Null, leaf, inner, top}}
    \cup {<<leaf, Undefined>>, <<leaf, Missing>>, <<Function, leaf>>}

MCHeaps ==
  {[o \in MCObjects |->
      CASE o = top ->
             Object("map", <<[key |-> k1, first |-> change[1], second |-> change[2]],
                             Steady(k2, second)>>, top)
        [] o = array ->
             Object("array", <<Steady(NoKey, element), Steady(NoKey, leaf)>>, array)
        [] o = inner ->
             Object("map", <<Steady(k2, Null), Steady(k3, leaf), Steady(k1, third)>>, json)
        [] o = frame -> Object(kind, <<Steady(k1, leaf)>>, frame)] :
   change \in Changing, second \in {leaf, array, Function},
   element \in {Undefined, Function, Native, Null, inner, top, array, frame},
   third \in {leaf, Function, array}, json \in {inner, Undefined, leaf, array},
   kind \in {"struct", "vector"}}

-----------------------------------------------------------------------------
Word(data) == [tag |-> "text", data |-> data, items |-> <<>>]
Nothing == [tag |-> "null", data |-> "", items |-> <<>>]
Entry(key, val) == [key |-> key, val |-> val]
Map(items) == [tag |-> "map", data |-> "", items |-> items]
List(vals) == [tag |-> "array", data |-> "", items |-> [i \in DOMAIN vals |-> Entry("", vals[i])]]

Orders(items) ==
  {[i \in DOMAIN items |-> items[p[i]]] :
     p \in {f \in [DOMAIN items -> DOMAIN items] : Range(f) = DOMAIN items}}

Styles == Map(<<Entry("a", Word("1")), Entry("b", Map(<<Entry("c", Nothing)>>))>>)
Events == List(<<Word("click"), Nothing, Word("touch")>>)

(* Nodes below the root: in the order the readers like, in another one,    *)
(* and without a type.                                                     *)
Straight == Map(<<Entry("type", Word("text")), Entry("ref", Word("2")), Entry("style", Styles)>>)
Turned ==
  Map(<<Entry("children", List(<<Straight>>)), Entry("event", Events),
        Entry("ref", Word("3")), Entry("style", Styles), Entry("type", Word("div"))>>)
Untyped == Map(<<Entry("ref", Word("4")), Entry("attr", Styles)>>)

(* Roots: the keys in every order, the parts of every shape.               *)
Parts(attr, event, children) ==
  <<Entry("ref", Word("1")), Entry("type", Word("div")), Entry("attr", attr),
    Entry("event", event), Entry("children", children)>>

MCDocuments ==
  UNION {Orders(Parts(attr, event, children)) :
           attr \in {Styles, Nothing, Word("x")}, event \in {Events, Styles},
           children \in {List(<<Straight, Nothing, Turned>>),
                         List(<<Turned, Untyped, Straight>>), Nothing}}
    \cup Orders(<<Entry("attr", Styles), Entry("style", Nothing), Entry("event", Events),
                  Entry("children", List(<<Turned>>)), Entry("other", Styles)>>)
MCValues == {Map(items) : items \in MCDocuments} \cup {Nothing, Events, Word("x")}
MCStrings == STRING

-----------------------------------------------------------------------------
NoHeap == CHOOSE h \in MCHeaps : TRUE
NoDocument == Nothing

NoBridge ==
  /\ heap = NoHeap /\ system = <<>>
  /\ writer = "none" /\ root = Null /\ buffer = <<>> /\ got = <<>>
NoDom == doc = NoDocument /\ tokens = <<>> /\ done = [by |-> "none", at |-> 0, made |-> <<>>]

MCInit == (Init /\ NoDom) \/ (DomInit /\ NoBridge)

MCNext ==
  \/ tokens = <<>> /\ Next /\ UNCHANGED domVars
  \/ tokens # <<>> /\ DomNext /\ UNCHANGED vars

MCSpec == MCInit /\ [][MCNext]_<<vars, domVars>>
=============================================================================
