----------------------------- MODULE WsonParser -----------------------------
(***************************************************************************)
(* wson_parser, the pull parser of io/wson (and, but for skipValue of a    *)
(* float, of c/): a cursor over the bytes of a document.  The parser knows *)
(* nothing but its position; which call is due is the knowledge of the     *)
(* client, from the tags, sizes and keys the parser returned to it.  The   *)
(* client modelled is any client that keeps to that: dom_wson.cpp and the  *)
(* examples of the README are such clients.                                *)
(*                                                                         *)
(* skipValue and toJSONtring call themselves for the items of a container. *)
(* `calls' is the stack of these calls, and a step of theirs is one item.  *)
(***************************************************************************)
EXTENDS WsonVarint, WsonProtocol

CONSTANTS
  Nodes,        \* the values documents are made of (nodes of TreeWalk),
  Documents,    \* those that are parsed,
  Written,      \* and what the writer makes of them, see Encode
  SkippedFloat, \* bytes skipValue moves over a float: 0 in io/wson, 4 in c/
  AsNumber      \* tags of the values the client reads with nextNumber

VARIABLES
  doc,       \* the tree, and
  data,      \* its encoding: the bytes given to the parser
  position,  \* wsonBuffer->position
  calls,     \* calls of skipValue or toJSONtring for containers, outermost
             \* first: [keyed, size, next], next is the loop variable
  job,       \* what the first of them was made for, and where to return to
  open,      \* client: the containers it is in, [keyed, size, next]
  named,     \* client: the key of the next item has been read
  type,      \* client: the tag nextType returned, its value not yet read
  saved,     \* client: <<>>, or what getState returned, with its own state
  heard,     \* what the last call decoded
  rendered   \* where toStringUTF8 ended, 0 before the first call

walk == <<calls, job>>
client == <<open, named, type>>
vars == <<doc, data, position, walk, client, saved, heard, rendered>>

NoType == 0
Containers == {MapType, ArrayType}
Sized == {StringType, Uint8String, BigIntType, BigDecimalType}
Tags ==
  Sized \cup Containers \cup
  {NullType, BooleanTrue, BooleanFalse, IntType, FloatType, DoubleType, LongType}

-----------------------------------------------------------------------------
(* The encoding of a document, as the writer of WsonIo makes it.           *)

Root(tree) ==
  [tag |-> NoType, payload |-> <<>>, items |-> <<[key |-> <<>>, val |-> tree]>>]

EncodeKey(key) == VarUint(Len(key)) \o key
KeyPart(node, k) ==
  IF node.tag = MapType THEN EncodeKey(node.items[k].key) ELSE <<>>

(* What is written of a node before its items. *)
Header(node) ==
  CASE node.tag = NoType        -> <<>>
    [] node.tag \in Containers  -> <<node.tag>> \o VarUint(Len(node.items))
    [] node.tag \in Sized       -> <<node.tag>> \o EncodeKey(node.payload)
    [] OTHER                    -> <<node.tag>> \o node.payload

(* Written[node][k] is what has been written of a node before its k-th     *)
(* item, or at the end.                                                    *)
Encode(node) == Written[node][Len(node.items) + 1]

ASSUME EncodingAssumption ==
  \A node \in Nodes :
    /\ Written[node] \in [1..(Len(node.items) + 1) -> Seq(Byte)]
    /\ Written[node][1] = Header(node)
    /\ \A k \in 1..Len(node.items) :
          Written[node][k + 1] =
            Written[node][k] \o KeyPart(node, k) \o Encode(node.items[k].val)

IsVarint(bts) ==
  Len(bts) \in 1..5 /\ \A i \in 1..Len(bts) : bts[i] >= 128 <=> i < Len(bts)

(* Values as the writer can be given them.  The extension type is not      *)
(* among them: the parser has no case for it.  Sizes have 32 bits.         *)
WellMade(node) ==
  /\ node.tag \in Tags \cup {NoType}
  /\ node.payload \in Seq(Byte) /\ Len(node.payload) <= MaxUint
  /\ node.items \in Seq([key : Seq(Byte), val : Nodes])
  /\ Len(node.items) <= MaxUint
  /\ \A k \in 1..Len(node.items) :
        /\ Len(node.items[k].key) <= MaxUint
        /\ node.items[k].val.tag # NoType
  /\ node.tag \notin Containers \cup {NoType} => node.items = <<>>
  /\ CASE node.tag = IntType                  -> IsVarint(node.payload)
       [] node.tag = FloatType                -> Len(node.payload) = 4
       [] node.tag \in {DoubleType, LongType} -> Len(node.payload) = 8
       [] node.tag \in Sized                  -> TRUE
       [] OTHER                               -> node.payload = <<>>

ASSUME DocumentAssumption ==
  /\ \A tree \in Documents : Root(tree) \in Nodes
  /\ \A node \in Nodes : WellMade(node)

-----------------------------------------------------------------------------
(* Reading at a position.  No check of the end is made: past it lies other *)
(* memory, 0 here; no passing run reads it.                                *)

At(p) == IF p < Len(data) THEN data[p + 1] ELSE 0
Bytes(p, n) == [i \in 1..n |-> At(p + i - 1)]

UintAt(p)  == ReadUint(Bytes(p, 5))
UintEnd(p) == p + ReadSize(Bytes(p, 5))

(* Mutant: a double is read as four bytes.                                 *)
LeafEndNarrow(p, tag, float) ==
  CASE tag \in Sized                 -> UintEnd(p) + UintAt(p)
    [] tag = IntType                 -> UintEnd(p)
    [] tag = FloatType               -> p + float
    [] tag \in {DoubleType, LongType} -> p + 4
    [] OTHER                         -> p

(* The end of a value that is not a container; a tag the switch has no     *)
(* case for moves nothing.                                                 *)
LeafEnd(p, tag, float) ==
  CASE tag \in Sized                 -> UintEnd(p) + UintAt(p)
    [] tag = IntType                 -> UintEnd(p)
    [] tag = FloatType               -> p + float
    [] tag \in {DoubleType, LongType} -> p + 8
    [] OTHER                         -> p

(* Mutant: the length of a string is taken for a part of it.               *)
ContentPrefixed(p, tag) == Bytes(p, LeafEnd(p, tag, 4) - p)

(* What a value that is not a container is decoded from. *)
Content(p, tag) ==
  IF tag \in Sized THEN Bytes(UintEnd(p), UintAt(p))
                   ELSE Bytes(p, LeafEnd(p, tag, 4) - p)

(* The size of a container has been read at p. *)
Frame(p, tag) == [keyed |-> tag = MapType, size |-> UintAt(p), next |-> 1]

-----------------------------------------------------------------------------
Top == open[Len(open)]
AtItem == type = NoType /\ Top.next <= Top.size

Start == <<[keyed |-> FALSE, size |-> 1, next |-> 1]>>
Beyond(frames) == [frames EXCEPT ![Len(frames)].next = @ + 1]
Outer(frames) == SubSeq(frames, 1, Len(frames) - 1)

Value(bytes) == [call |-> "value", bytes |-> bytes]
Skip == [call |-> "skip", bytes |-> <<>>]
NoJob == [does |-> "nothing", back |-> 0]

Init ==
  /\ doc \in Documents
  /\ data = Encode(Root(doc))
  /\ position = 0
  /\ calls = <<>> /\ job = NoJob
  /\ open = Start /\ named = FALSE /\ type = NoType
  /\ saved = <<>>
  /\ heard = [call |-> "none", bytes |-> <<>>]
  /\ rendered = 0

NextType ==
  /\ AtItem /\ (Top.keyed => named)
  /\ IF position < Len(data)
     THEN type' = At(position) /\ position' = position + 1
     ELSE type' = NullType /\ UNCHANGED position
  /\ UNCHANGED <<doc, data, walk, open, named, saved, heard, rendered>>

(* A client takes back only a tag that nextType has read. *)
BackType ==
  /\ type # NoType
  /\ position' = IF position > 0 THEN position - 1 ELSE position
  /\ type' = NoType
  /\ UNCHANGED <<doc, data, walk, open, named, saved, heard, rendered>>

NextMapKey ==
  /\ AtItem /\ Top.keyed /\ ~named
  /\ position' = UintEnd(position) + UintAt(position)
  /\ heard' = [call |-> "key", bytes |-> Bytes(UintEnd(position), UintAt(position))]
  /\ named' = TRUE
  /\ UNCHANGED <<doc, data, walk, open, type, saved, rendered>>

(* nextMapSize or nextArraySize. *)
NextSize ==
  /\ type \in Containers
  /\ position' = UintEnd(position)
  /\ open' = Append(open, Frame(position, type))
  /\ type' = NoType /\ named' = FALSE
  /\ UNCHANGED <<doc, data, walk, saved, heard, rendered>>

(* The client has had all items of a container. *)
Leave ==
  /\ type = NoType /\ Len(open) > 1 /\ Top.next > Top.size
  /\ open' = Beyond(Outer(open))
  /\ UNCHANGED <<doc, data, position, walk, named, type, saved, heard, rendered>>

(* A value has been read up to p. *)
Done(p, what) ==
  /\ position' = p
  /\ heard' = what
  /\ open' = Beyond(open)
  /\ type' = NoType /\ named' = FALSE
  /\ UNCHANGED <<doc, data, saved, rendered>>

(* The same for a value read in one step. *)
DoneAtOnce(p, what) == Done(p, what) /\ UNCHANGED walk

(* A container, its tag read before p, is gone through. *)
GoThrough(p, tag, does) ==
  /\ position' = UintEnd(p)
  /\ calls' = <<Frame(p, tag)>>
  /\ job' = [does |-> does, back |-> position]
  /\ UNCHANGED <<doc, data, client, saved, heard, rendered>>

(* A container is rendered as JSON: back to its tag, then toJSONtring. *)
NextString ==
  /\ type # NoType
  /\ IF type \in Containers
     THEN GoThrough(position, At(position - 1), "string")
     ELSE DoneAtOnce(LeafEnd(position, type, 4), Value(Content(position, type)))

(* Mutant: nextBool leaves the value where it is.                          *)
NextBoolUnskipped == type # NoType /\ DoneAtOnce(position, Skip)

SkipValue ==
  /\ type # NoType
  /\ IF type \in Containers
     THEN GoThrough(position, type, "skip")
     ELSE DoneAtOnce(LeafEnd(position, type, SkippedFloat), Skip)

(* Of a string both calls of wson_io_read_bts move the position: what is   *)
(* converted lies behind the string.                                       *)
NextNumber ==
  /\ type # NoType /\ type \in AsNumber
  /\ CASE type \in Sized ->
            LET size == UintAt(position)
                from == UintEnd(position) + size
            IN  DoneAtOnce(from + size, Value(Bytes(from, size)))
       [] type \in Containers -> SkipValue
       [] OTHER ->
            DoneAtOnce(LeafEnd(position, type, 4), Value(Content(position, type)))

NextBool ==
  /\ type # NoType
  /\ IF type \in {BooleanFalse, NullType} THEN DoneAtOnce(position, Skip)
                                          ELSE SkipValue

(* Mutant: the position is not set to 0 first.                             *)
ToStringHere ==
  IF At(position) \in Containers
  THEN GoThrough(position + 1, At(position), "render")
  ELSE /\ rendered' = LeafEnd(position + 1, At(position), 4)
       /\ UNCHANGED <<doc, data, position, walk, client, saved, heard>>

(* toStringUTF8: the whole document from the start, then back. *)
ToStringUTF8 ==
  IF At(0) \in Containers
  THEN GoThrough(1, At(0), "render")
  ELSE /\ rendered' = LeafEnd(1, At(0), 4)
       /\ UNCHANGED <<doc, data, position, walk, client, saved, heard>>

GetState ==
  /\ type = NoType
  /\ saved' = <<[position |-> position, open |-> open, named |-> named]>>
  /\ UNCHANGED <<doc, data, position, walk, client, heard, rendered>>

RestoreToState ==
  /\ saved # <<>>
  /\ position' = saved[1].position
  /\ open' = saved[1].open /\ named' = saved[1].named /\ type' = NoType
  /\ UNCHANGED <<doc, data, walk, saved, heard, rendered>>

ResetState ==
  /\ position' = 0
  /\ open' = Start /\ named' = FALSE /\ type' = NoType
  /\ UNCHANGED <<doc, data, walk, saved, heard, rendered>>

-----------------------------------------------------------------------------
(* skipValue and toJSONtring, which reads four bytes of a float.           *)

Current == calls[Len(calls)]
FloatBytes == IF job.does = "skip" THEN SkippedFloat ELSE 4

(* Where the tag of the next item is: behind its key, if it has one. *)
TagPlace == IF Current.keyed THEN UintEnd(position) + UintAt(position) ELSE position

(* An item that is not a container is passed, *)
PassItem ==
  /\ calls # <<>> /\ Current.next <= Current.size
  /\ At(TagPlace) \notin Containers
  /\ position' = LeafEnd(TagPlace + 1, At(TagPlace), FloatBytes)
  /\ calls' = Beyond(calls)
  /\ UNCHANGED <<doc, data, job, client, saved, heard, rendered>>

(* for one that is there is another call, *)
CallItem ==
  /\ calls # <<>> /\ Current.next <= Current.size
  /\ At(TagPlace) \in Containers
  /\ position' = UintEnd(TagPlace + 1)
  /\ calls' = Append(calls, Frame(TagPlace + 1, At(TagPlace)))
  /\ UNCHANGED <<doc, data, job, client, saved, heard, rendered>>

(* that returns to the one before it, *)
ReturnItem ==
  /\ Len(calls) > 1 /\ Current.next > Current.size
  /\ calls' = Beyond(Outer(calls))
  /\ UNCHANGED <<doc, data, position, job, client, saved, heard, rendered>>

(* or, as the first, to the client's call. *)
Return ==
  /\ Len(calls) = 1 /\ Current.next > Current.size
  /\ calls' = <<>> /\ job' = NoJob
  /\ CASE job.does = "string" -> Done(position, Value(<<>>))
       [] job.does = "skip"   -> Done(position, Skip)
       [] job.does = "render" ->
            /\ rendered' = position
            /\ position' = job.back
            /\ UNCHANGED <<doc, data, client, saved, heard>>

ClientCall ==
  \/ NextType \/ BackType \/ NextMapKey \/ NextSize \/ Leave
  \/ NextString \/ NextNumber \/ NextBool \/ SkipValue \/ ToStringUTF8
  \/ GetState \/ RestoreToState \/ ResetState

Next ==
  \/ calls = <<>> /\ ClientCall
  \/ PassItem \/ CallItem \/ ReturnItem \/ Return

Spec == Init /\ [][Next]_vars

-----------------------------------------------------------------------------
(* Properties.                                                             *)

(* What the reading code needs to agree with the writer: skipValue moves   *)
(* over a float, if there are any, and no string is read as a number.      *)
ReadsWhatIsWritten ==
  \A node \in Nodes :
    /\ node.tag = FloatType => SkippedFloat = 4
    /\ node.tag \in Sized => node.tag \notin AsNumber

Before(node, k) == Len(Written[node][k])
KeyLength(node, k) == Len(KeyPart(node, k))

(* The nodes that frames stand for, and where in the tree they begin.      *)
Places(tree, frames) ==
  LET place[i \in DOMAIN frames] ==
        IF i = 1 THEN [node |-> Root(tree), from |-> 0]
        ELSE LET p == place[i - 1]
                 k == frames[i - 1].next
             IN  [node |-> p.node.items[k].val,
                  from |-> p.from + Before(p.node, k) + KeyLength(p.node, k)]
  IN  place

(* Where in the document the item is that one in these frames is at.       *)
Offset(frames, key) ==
  LET p == Places(doc, frames)[Len(frames)]
      k == frames[Len(frames)].next
  IN  p.from + Before(p.node, k) + (IF key THEN KeyLength(p.node, k) ELSE 0)

IsFrame(f) == f.keyed \in BOOLEAN /\ f.next \in 1..(f.size + 1)

(* The cursor stays within the document, what nextType returns is a tag,   *)
(* and no container is read beyond its size, by the client or by the       *)
(* parser's own loops.                                                     *)
TypeOK ==
  /\ position \in 0..Len(data)
  /\ type \in Tags \cup {NoType}
  /\ named \in BOOLEAN
  /\ rendered \in 0..Len(data)
  /\ \A i \in DOMAIN open : IsFrame(open[i])
  /\ \A i \in DOMAIN calls : IsFrame(calls[i])

(* Whatever calls a client mixes - reading a value as a string, a number   *)
(* or a boolean, skipping it, entering it, rendering it, going back - the  *)
(* parser is at the very byte where the item begins that the client is at, *)
(* and skipValue and toJSONtring, at each item and each depth, where the   *)
(* item begins that their loops are at: the reading and the skipping code  *)
(* of each type agree with the writer and with each other.                 *)
Aligned ==
  position =
    CASE calls = <<>> -> Offset(open, named) + (IF type = NoType THEN 0 ELSE 1)
      [] calls # <<>> /\ job.does = "render" -> Offset(Start \o calls, FALSE)
      [] OTHER -> Offset(open \o calls, FALSE)

(* toStringUTF8 renders all of the document, wherever the cursor is.       *)
WholeDocument == rendered \in {0, Len(data)}

(* The cursor over bytes implements the walk over the tree: every tag,     *)
(* size and key it returns is that of the item the client is at, every     *)
(* value is decoded from that item's own bytes.                            *)
Located(frames) ==
  [i \in DOMAIN frames |->
     [node |-> Places(doc, frames)[i].node, next |-> frames[i].next]]

Tree == INSTANCE TreeWalk WITH
  Trees <- Documents,
  open  <- Located(open),
  saved <- [i \in DOMAIN saved |->
              [open |-> Located(saved[i].open), named |-> saved[i].named]]

WalksTheTree == Tree!Spec
=============================================================================
