----------------------------- MODULE DomRender -----------------------------
(***************************************************************************)
(* The readers of jsc/dom_wson.cpp: a document in wson becomes a tree of   *)
(* render objects.  The keys of a map come in any order, and a render      *)
(* object can only be created when its type is known; the three readers    *)
(* cope with that in three ways: reading twice when the order was wrong,   *)
(* collecting everything first, and reading the children in a second pass. *)
(*                                                                         *)
(* They are clients of wson_parser (WsonParser shows that its calls keep   *)
(* their place).  A document is a sequence of tokens; `at' is the cursor,  *)
(* between two tokens.  A reader that has taken the type of a value and    *)
(* neither reads nor skips the value itself is Lost.                       *)
(*                                                                         *)
(* The readers call themselves.  Here `inside' is what the calls for the   *)
(* values inside a container return; values are not deeper inside each     *)
(* other than there are tokens.                                            *)
(***************************************************************************)
EXTENDS DomDocuments, SequencesExt

VARIABLES
  doc,     \* the document, and
  tokens,  \* its encoding: [tag, size, data]
  done     \* what was last made of it: [by, at, made]

domVars == <<doc, tokens, done>>

-----------------------------------------------------------------------------
(* The encoding of a document.                                             *)

Piece(tag, size, data) == <<[tag |-> tag, size |-> size, data |-> data]>>

EncodeItem(inside, val, item) ==
  (IF val.tag = "map" THEN Piece("key", 0, item.key) ELSE <<>>) \o inside[item.val]

EncodeValue(inside, val) ==
  Piece(val.tag, Len(val.items), val.data)
    \o FlattenSeq([i \in DOMAIN val.items |-> EncodeItem(inside, val, val.items[i])])

Encoding ==
  Repeat(LAMBDA inside, n : [val \in Nested[n] |-> EncodeValue(inside, val)], <<>>)

Encode(val) == Encoding[MaxNesting][val]

-----------------------------------------------------------------------------
(* The calls of the parser.                                                *)

Lost == 0

TagAt(at) == IF at \in DOMAIN tokens THEN tokens[at].tag ELSE "none"
IsMap(at) == TagAt(at) = "map"
IsArray(at) == TagAt(at) = "array"
SizeAt(at) == tokens[at].size

nextMapKeyUTF8(at) == IF TagAt(at) = "key" THEN tokens[at].data ELSE "?"

(* From an item of the container at a place to its value. *)
ToValue(at, item) == IF IsMap(at) THEN item + 1 ELSE item

SkipItem(inside, at, item) ==
  IF item = Lost THEN Lost ELSE inside[ToValue(at, item)]

(* Behind k of the items of a container. *)
SkipItems(inside, at) == Repeat(LAMBDA item, k : SkipItem(inside, at, item), at + 1)

SkippedValue(inside, at) ==
  CASE TagAt(at) \in {"text", "null"} -> at + 1
    [] TagAt(at) \in {"array", "map"} -> SkipItems(inside, at)[SizeAt(at)]
    [] OTHER -> Lost

Skip ==
  LET call(inside, n) == [at \in Nat |-> SkippedValue(inside, at)]
  IN  Repeat(call, [at \in Nat |-> Lost])

SkipValue(at) == Skip[Len(tokens)][at]

(* nextStringUTF8: a container as JSON, which is one more text here. *)
nextStringUTF8(at) ==
  CASE TagAt(at) = "text" -> tokens[at].data
    [] TagAt(at) \in {"array", "map"} -> "json"
    [] OTHER -> ""

(* Behind the type of a value that is not read: only a null has no more. *)
Unskipped(at) == IF TagAt(at) = "null" THEN at + 1 ELSE Lost

(* Mutant: every value is passed over as one that is no container.         *)
ValuePlacesFlat(at) ==
  [i \in 1..SizeAt(at) |-> ToValue(at, at + 1) + (i - 1) * (ToValue(at, at + 1) - at)]

(* Where the values of a container start, the keys of a map passed over. *)
ValuePlaces(at) ==
  [i \in 1..SizeAt(at) |-> ToValue(at, SkipItems(Skip[Len(tokens)], at)[i - 1])]

TextsAt(at) == [i \in 1..SizeAt(at) |-> nextStringUTF8(ValuePlaces(at)[i])]
PairsAt(at) ==
  {<<nextMapKeyUTF8(ValuePlaces(at)[i] - 1), TextsAt(at)[i]>> : i \in 1..SizeAt(at)}

NonEmpty(texts) ==
  FlattenSeq([i \in DOMAIN texts |-> IF texts[i] = "" THEN <<>> ELSE <<texts[i]>>])

-----------------------------------------------------------------------------
(* RenderObject.                                                           *)

CreateRender(type, ref) ==
  [type |-> type, ref |-> ref, attr |-> {}, style |-> {}, event |-> <<>>,
   children |-> <<>>]

(* Adding pairs to attributes or styles: the last of a key stays.          *)
AddPairs(old, pairs) == {p \in old : \A q \in pairs : q[1] # p[1]} \cup pairs

AddRenderObject(parent, index, child) ==
  [parent EXCEPT !.children =
     IF index >= Len(@) THEN Append(@, child) ELSE InsertAt(@, index + 1, child)]

Shape == [attr |-> "map", style |-> "map", event |-> "array", children |-> "array"]
Expected(key, at) == key \in DOMAIN Shape /\ TagAt(at) = Shape[key]

(* Mutant: events are read as they are.                                    *)
AddPartBlank(render, key, at) ==
  CASE key \in {"attr", "style"} ->
         [render EXCEPT ![key] = AddPairs(@, PairsAt(at))]
    [] key = "event" -> [render EXCEPT !.event = @ \o TextsAt(at)]

(* The attributes, styles or events at a place, added to a render object.  *)
AddPart(render, key, at) ==
  CASE key \in {"attr", "style"} ->
         [render EXCEPT ![key] = AddPairs(@, PairsAt(at))]
    [] key = "event" -> [render EXCEPT !.event = @ \o NonEmpty(TextsAt(at))]

-----------------------------------------------------------------------------
(* parserWson2RenderObject.  `render' is <<>> until the type was read;     *)
(* `right' is keyOrderRight.                                               *)

(* Mutant: once the type is known, the first pass adds parts although the  *)
(* second will add them.                                                   *)
KeyOrderAnew(s) == s.render # <<>>

KeyOrder(s) == s.render # <<>> /\ s.right

RenderChild(inside, s, index) ==
  LET child == inside[s.at]
  IN  [at |-> child.at,
       render |-> IF child.render = <<>> THEN s.render
                  ELSE AddRenderObject(s.render, index, child.render[1])]

(* After k of the children in the array at a place. *)
RenderChildren(inside, render, at) ==
  Repeat(LAMBDA s, k : RenderChild(inside, s, k - 1), [at |-> at + 1, render |-> render])

RenderPart(inside, s, key, at) ==
  IF key = "children"
  THEN LET read == RenderChildren(inside, s.render[1], at)[SizeAt(at)]
       IN  [s EXCEPT !.render = <<read.render>>, !.at = read.at]
  ELSE [s EXCEPT !.render = <<AddPart(s.render[1], key, at)>>, !.at = SkipValue(at)]

(* An entry of a map; `again' in the second pass. *)
RenderEntry(inside, again, s) ==
  LET key  == nextMapKeyUTF8(s.at)
      at   == s.at + 1
      text == nextStringUTF8(at)
      past == [s EXCEPT !.at = SkipValue(at)]
  IN  CASE key = "ref" /\ ~again ->
             [past EXCEPT !.ref = text,
                          !.render = [i \in DOMAIN @ |-> [@[i] EXCEPT !.ref = text]]]
        [] key = "type" /\ ~again ->
             [past EXCEPT !.render = <<CreateRender(text, s.ref)>>]
        [] Expected(key, at) /\ (again \/ KeyOrder(s)) -> RenderPart(inside, s, key, at)
        [] key \in DOMAIN Shape /\ ~again /\ ~(Expected(key, at) /\ KeyOrder(s)) ->
             [past EXCEPT !.right = KeyOrder(s)]
        [] OTHER -> past

RenderEntries(inside, again, start) ==
  Repeat(LAMBDA s, k : RenderEntry(inside, again, s), start)

Rendered(inside, at) ==
  LET start == [at |-> at + 1, ref |-> "", render |-> <<>>, right |-> TRUE]
      once == RenderEntries(inside, FALSE, start)[SizeAt(at)]
      twice == RenderEntries(inside, TRUE, [once EXCEPT !.at = at + 1])[SizeAt(at)]
      last == IF ~once.right /\ once.render # <<>> THEN twice ELSE once
  IN  IF IsMap(at) THEN [at |-> last.at, render |-> last.render]
      ELSE [at |-> SkipValue(at), render |-> <<>>]

NoRender == [at \in Nat |-> [at |-> Lost, render |-> <<>>]]

Render ==
  LET call(inside, n) == [at \in Nat |-> Rendered(inside, at)]
  IN  Repeat(call, NoRender)

parserWson2RenderObject(at) == Render[Len(tokens)][at]

-----------------------------------------------------------------------------
(* parserWson2RenderObjectNew: everything is collected, the first of two   *)
(* values of a key stays, and a render object is made of any map.          *)

InsertPairs(old, pairs) == old \cup {p \in pairs : \A q \in old : q[1] # p[1]}

NewChild(inside, s) ==
  LET child == inside[s.at]
  IN  [at |-> child.at, children |-> s.children \o child.render]

NewChildren(inside, children, at) ==
  Repeat(LAMBDA s, k : NewChild(inside, s), [at |-> at + 1, children |-> children])

NewEntry(inside, s) ==
  LET key  == nextMapKeyUTF8(s.at)
      at   == s.at + 1
      text == nextStringUTF8(at)
      past == [s EXCEPT !.at = SkipValue(at)]
      read == NewChildren(inside, s.render.children, at)[SizeAt(at)]
  IN  CASE key = "ref"  -> [past EXCEPT !.render.ref = text]
        [] key = "type" -> [past EXCEPT !.render.type = text]
        [] key \in {"attr", "style"} /\ Expected(key, at) ->
             [past EXCEPT !.render[key] = InsertPairs(@, PairsAt(at))]
        [] key = "event" /\ Expected(key, at) ->
             [past EXCEPT !.render = AddPart(@, key, at)]
        [] key = "children" /\ Expected(key, at) ->
             [s EXCEPT !.render.children = read.children, !.at = read.at]
        [] OTHER -> past

NewEntries(inside, start) == Repeat(LAMBDA s, k : NewEntry(inside, s), start)

RenderedNew(inside, at) ==
  LET start == [at |-> at + 1, render |-> CreateRender("", "")]
      last == NewEntries(inside, start)[SizeAt(at)]
  IN  IF IsMap(at) THEN [at |-> last.at, render |-> <<last.render>>]
      ELSE [at |-> SkipValue(at), render |-> <<>>]

RenderNew ==
  LET call(inside, n) == [at \in Nat |-> RenderedNew(inside, at)]
  IN  Repeat(call, NoRender)

parserWson2RenderObjectNew(at) == RenderNew[Len(tokens)][at]

-----------------------------------------------------------------------------
(* WsonGenerate: a call of genObject for each object, the parent before    *)
(* its children, with the events as a set.  Parts of an unexpected type    *)
(* are not skipped, and such children end the reading of their map.        *)

GenEntry(s) ==
  LET key  == nextMapKeyUTF8(s.at)
      at   == s.at + 1
      text == nextStringUTF8(at)
      past == [s EXCEPT !.at = SkipValue(at)]
  IN  CASE key = "ref"  -> [past EXCEPT !.render.ref = text]
        [] key = "type" -> [past EXCEPT !.render.type = text]
        [] key \in {"attr", "style", "event"} ->
             IF Expected(key, at)
             THEN [past EXCEPT !.render = AddPart(@, key, at)]
             ELSE [s EXCEPT !.at = Unskipped(at)]
        [] OTHER -> past

GenEntries(start) == Repeat(LAMBDA s, k : GenEntry(s), start)

GenChild(inside, ref, s, index) ==
  LET child == inside[<<s.at, ref, index>>]
  IN  [at |-> child.at, made |-> s.made \o child.made]

GenChildren(inside, ref, made, at) ==
  Repeat(LAMBDA s, k : GenChild(inside, ref, s, k - 1), [at |-> at + 1, made |-> made])

(* The second pass, which reads the children only; `over' when it breaks. *)
GenAgain(inside, ref, s) ==
  LET at == s.at + 1
      read == GenChildren(inside, ref, s.made, at)[SizeAt(at)]
  IN  CASE s.over -> s
        [] ~s.over /\ nextMapKeyUTF8(s.at) # "children" ->
             [s EXCEPT !.at = SkipValue(at)]
        [] ~s.over /\ nextMapKeyUTF8(s.at) = "children" ->
             IF IsArray(at) THEN [s EXCEPT !.at = read.at, !.made = read.made]
             ELSE [s EXCEPT !.at = Unskipped(at), !.over = TRUE]

GenSecond(inside, ref, start) == Repeat(LAMBDA s, k : GenAgain(inside, ref, s), start)

Generated(inside, at, parentRef, index) ==
  LET first == GenEntries([at |-> at + 1, render |-> CreateRender("", "")])[SizeAt(at)]
      render == [first.render EXCEPT !.event = Range(@)]
      call == [render |-> render, parentRef |-> parentRef, index |-> index]
      last == GenSecond(inside, render.ref,
                [at |-> at + 1, made |-> <<call>>, over |-> FALSE])[SizeAt(at)]
  IN  IF ~IsMap(at) THEN [at |-> SkipValue(at), made |-> <<>>]
      ELSE IF render.type # "" /\ render.ref # "" THEN [at |-> last.at, made |-> last.made]
      ELSE [at |-> first.at, made |-> <<>>]

Calls == Nat \X Strings \X Nat

Generation ==
  LET call(inside, n) == [c \in Calls |-> Generated(inside, c[1], c[2], c[3])]
  IN  Repeat(call, [c \in Calls |-> [at |-> Lost, made |-> <<>>]])

WsonGenerate(at, parentRef, index) == Generation[Len(tokens)][<<at, parentRef, index>>]

-----------------------------------------------------------------------------
DomInit ==
  /\ doc \in Documents
  /\ tokens = Encode(doc)
  /\ done = [by |-> "none", at |-> Lost, made |-> <<>>]

Wson2RenderObject(useRunTimeApi) ==
  LET read == IF useRunTimeApi THEN parserWson2RenderObjectNew(1)
                               ELSE parserWson2RenderObject(1)
  IN  /\ done' = [by |-> IF useRunTimeApi THEN "new" ELSE "old",
                  at |-> read.at, made |-> read.render]
      /\ UNCHANGED <<doc, tokens>>

Generate ==
  LET read == WsonGenerate(1, "", 0)
  IN  /\ done' = [by |-> "generate", at |-> read.at, made |-> read.made]
      /\ UNCHANGED <<doc, tokens>>

(* The pairs of the outermost map, in their order. *)
Wson2Pairs ==
  /\ done' = [by |-> "pairs",
              at |-> IF IsMap(1) THEN SkipValue(1) ELSE Lost,
              made |-> IF IsMap(1)
                       THEN [i \in 1..SizeAt(1) |->
                               <<nextMapKeyUTF8(ValuePlaces(1)[i] - 1), TextsAt(1)[i]>>]
                       ELSE <<>>]
  /\ UNCHANGED <<doc, tokens>>

DomNext ==
  \/ \E useRunTimeApi \in BOOLEAN : Wson2RenderObject(useRunTimeApi)
  \/ Generate
  \/ Wson2Pairs

DomSpec == DomInit /\ [][DomNext]_domVars

-----------------------------------------------------------------------------
(* Properties.                                                             *)

Has(node, key) == \E i \in DOMAIN node.items : node.items[i].key = key
Part(node, key) ==
  node.items[CHOOSE i \in DOMAIN node.items : node.items[i].key = key].val

Text(val) ==
  CASE val.tag = "text" -> val.data [] val.tag = "null" -> "" [] OTHER -> "json"
TextOf(node, key) == IF Has(node, key) THEN Text(Part(node, key)) ELSE ""

(* The items of a part, if it is there and of the right type. *)
ItemsOf(node, key) ==
  IF Has(node, key) /\ Part(node, key).tag = Shape[key]
  THEN Part(node, key).items ELSE <<>>

Texts(items) == [i \in DOMAIN items |-> Text(items[i].val)]
Pairs(items) == {<<items[i].key, Text(items[i].val)>> : i \in DOMAIN items}

(* The render object a map stands for, whatever the order of its keys,     *)
(* without children.                                                       *)
Bare(node) ==
  [type |-> TextOf(node, "type"), ref |-> TextOf(node, "ref"),
   attr |-> Pairs(ItemsOf(node, "attr")), style |-> Pairs(ItemsOf(node, "style")),
   event |-> NonEmpty(Texts(ItemsOf(node, "event"))), children |-> <<>>]

(* What inside yields for the maps among the children, in their order.     *)
Children(inside, items) ==
  FlattenSeq([i \in DOMAIN items |->
    IF items[i].val.tag = "map" THEN inside[items[i].val] ELSE <<>>])

(* The render tree, without the objects that have no type, or with them.   *)
TreeOf(inside, untyped, node) ==
  IF untyped \/ Has(node, "type")
  THEN <<[Bare(node) EXCEPT !.children = Children(inside, ItemsOf(node, "children"))]>>
  ELSE <<>>

RenderTree(untyped) ==
  Repeat(LAMBDA inside, n : [val \in Nested[n] |-> TreeOf(inside, untyped, val)], <<>>)

AtEnd == done.at = Len(tokens) + 1

(* Both parsers build the tree the document stands for in any order of the *)
(* keys: nothing that came before the type is lost, nothing is added       *)
(* twice, the children stay in order, values of unexpected types are       *)
(* skipped.  They differ in objects without a type, which only the new one *)
(* makes (parserWson2RenderObject, parserWson2RenderObjectNew).            *)
OrderIsFree ==
  done.by \in {"old", "new"} =>
    /\ AtEnd
    /\ done.made = (IF doc.tag = "map"
                    THEN RenderTree(done.by = "new")[MaxNesting][doc] ELSE <<>>)

(* A node WsonGenerate can read: the parts are of their types or null, and *)
(* null children come last; it has a type and a ref.                       *)
Tidy(node) ==
  /\ \A key \in DOMAIN Shape \ {"children"} :
        Has(node, key) => Part(node, key).tag \in {Shape[key], "null"}
  /\ \A i \in DOMAIN node.items :
        node.items[i].key = "children" =>
          \/ node.items[i].val.tag = "array"
          \/ node.items[i].val.tag = "null" /\ i = Len(node.items)
  /\ TextOf(node, "type") # "" /\ TextOf(node, "ref") # ""

(* A node and all nodes below it are. *)
TidyBelow(inside, node) ==
  LET items == ItemsOf(node, "children")
  IN  Tidy(node) /\ \A i \in DOMAIN items : items[i].val.tag = "map" => inside[items[i].val]

AllTidy ==
  Repeat(LAMBDA inside, n : [val \in Nested[n] |-> TidyBelow(inside, val)], <<>>)

(* The objects of a tree, each with the ref of its parent, parents first.  *)
ObjectsOf(inside, node, parentRef) ==
  LET items == ItemsOf(node, "children")
  IN  <<[render |-> [Bare(node) EXCEPT !.event = Range(@)], parentRef |-> parentRef]>> \o
      FlattenSeq([i \in DOMAIN items |->
        IF items[i].val.tag = "map" THEN inside[<<items[i].val, TextOf(node, "ref")>>]
        ELSE <<>>])

Preorder ==
  Repeat(LAMBDA inside, n : [p \in Nested[n] \X Strings |-> ObjectsOf(inside, p[1], p[2])],
         <<>>)

(* In a tidy document WsonGenerate makes the objects of the tree the other *)
(* readers build, under the same parents, and ends where they do.          *)
GeneratesTheTree ==
  done.by = "generate" /\ doc.tag = "map" /\ AllTidy[MaxNesting][doc] =>
    /\ AtEnd
    /\ [i \in DOMAIN done.made |->
          [render |-> done.made[i].render, parentRef |-> done.made[i].parentRef]]
         = Preorder[MaxNesting][<<doc, "">>]

(* Wson2Pairs returns all entries of the outermost map in their order,     *)
(* each with the text of its own value.                                    *)
PairsAreEntries ==
  done.by = "pairs" /\ doc.tag = "map" =>
    /\ AtEnd
    /\ done.made =
         [i \in DOMAIN doc.items |-> <<doc.items[i].key, Text(doc.items[i].val)>>]
=============================================================================
