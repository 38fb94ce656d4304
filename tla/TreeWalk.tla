------------------------------ MODULE TreeWalk ------------------------------
(***************************************************************************)
(* What a pull parser promises its client: a walk over the values of a     *)
(* document in order, in which every value is read, skipped or entered as  *)
(* a whole, one call at a time, and which can go back to a place it was    *)
(* at.  Nothing is said of bytes.                                          *)
(*                                                                         *)
(* A node is [tag, payload, items]: payload is the content of a leaf,      *)
(* items the [key, val] of a map or an array.                              *)
(***************************************************************************)
EXTENDS Naturals, Sequences, WsonProtocol

CONSTANT Trees  \* the documents

VARIABLES
  doc,
  open,   \* the containers around the walk, outermost first: [node, next]
  named,  \* the key of the next item of a map has been read
  type,   \* the tag that was read ahead of its value, or NoType
  saved,  \* <<>>, or the place to go back to
  heard   \* what the last call read: [call, bytes]

vars == <<doc, open, named, type, saved, heard>>

NoType == 0
Containers == {MapType, ArrayType}

(* A document as the one item of something around it. *)
Root(tree) ==
  [tag |-> NoType, payload |-> <<>>, items |-> <<[key |-> <<>>, val |-> tree]>>]

Top == open[Len(open)]
AtItem == type = NoType /\ Top.next <= Len(Top.node.items)
Item == Top.node.items[Top.next]

NoCall == [call |-> "none", bytes |-> <<>>]

Init ==
  /\ doc \in Trees
  /\ open = <<[node |-> Root(doc), next |-> 1]>>
  /\ named = FALSE
  /\ type = NoType
  /\ saved = <<>>
  /\ heard = NoCall

(* On to the item after the one at the end of frames. *)
Beyond(frames) == [frames EXCEPT ![Len(frames)].next = @ + 1]

Key ==
  /\ AtItem /\ Top.node.tag = MapType /\ ~named
  /\ named' = TRUE
  /\ heard' = [call |-> "key", bytes |-> Item.key]
  /\ UNCHANGED <<doc, open, type, saved>>

Type ==
  /\ AtItem /\ (Top.node.tag = MapType => named)
  /\ type' = Item.val.tag
  /\ UNCHANGED <<doc, open, named, saved, heard>>

Back ==
  /\ type # NoType
  /\ type' = NoType
  /\ UNCHANGED <<doc, open, named, saved, heard>>

Pass(what) ==
  /\ type # NoType
  /\ heard' = what
  /\ open' = Beyond(open)
  /\ type' = NoType
  /\ named' = FALSE
  /\ UNCHANGED <<doc, saved>>

Value == Pass([call |-> "value", bytes |-> Item.val.payload])
Skip  == Pass([call |-> "skip", bytes |-> <<>>])

Enter ==
  /\ type \in Containers
  /\ open' = Append(open, [node |-> Item.val, next |-> 1])
  /\ type' = NoType
  /\ named' = FALSE
  /\ UNCHANGED <<doc, saved, heard>>

Leave ==
  /\ type = NoType /\ Len(open) > 1 /\ Top.next > Len(Top.node.items)
  /\ open' = Beyond(SubSeq(open, 1, Len(open) - 1))
  /\ UNCHANGED <<doc, named, type, saved, heard>>

Save ==
  /\ type = NoType
  /\ saved' = <<[open |-> open, named |-> named]>>
  /\ UNCHANGED <<doc, open, named, type, heard>>

GoTo(frames, key) ==
  /\ open' = frames
  /\ named' = key
  /\ type' = NoType
  /\ UNCHANGED <<doc, saved, heard>>

Restore == saved # <<>> /\ GoTo(saved[1].open, saved[1].named)
Reset   == GoTo(<<[node |-> Root(doc), next |-> 1]>>, FALSE)

Next ==
  \/ Key \/ Type \/ Back \/ Value \/ Skip \/ Enter \/ Leave
  \/ Save \/ Restore \/ Reset

Spec == Init /\ [][Next]_vars
=============================================================================
