---------------------------- MODULE WsonBuilder ----------------------------
(***************************************************************************)
(* Wson.toWson of the Java library: the Builder that walks an object graph *)
(* and the Pool that lends it a byte buffer and a reference list.          *)
(*                                                                         *)
(* All of the state is private to a thread (Pool keeps it in a             *)
(* ThreadLocal), so the module models one thread.  What can interleave on  *)
(* it is the code the walk calls back into: a getter of a bean may itself  *)
(* call toWson, may throw, and the garbage collector may clear a weak      *)
(* reference of the pool between any two steps.                            *)
(*                                                                         *)
(* The output is a sequence of tokens: a value, or the header of a map or  *)
(* of an array with the number of entries it announces.                    *)
(***************************************************************************)
EXTENDS Naturals, Sequences, FiniteSets

CONSTANTS
  Objects,     \* maps, lists and beans of the graph
  Roots,       \* those handed to toWson by the application
  Kind,        \* Objects -> {"map", "list", "bean"}
  Items,       \* Objects -> the sequence of its [key, val]
  Json,        \* bean -> what JSON.toJSON makes of it: a map, or Thrower
  Class,       \* bean -> its class
  Equal,       \* pairs of distinct objects that equals() identifies
  Null, Leaf,  \* values: null, and any string, number, boolean or date
  Thrower,     \* a value whose access throws (a getter, a CharSequence)
  Caller,      \* the value of a getter that calls toWson on some root
  NullKey,     \* the null key of a map; every other key is a string
  Buffers, Lists, None,
  MaxNest,     \* bound on the calls of toWson active at once on the thread
  SafeDepth    \* a walk this deep does not overflow the Java stack

Values == Objects \cup {Null, Leaf, Thrower, Caller}

ASSUME GraphAssumption ==
  /\ Roots \subseteq Objects
  /\ Kind \in [Objects -> {"map", "list", "bean"}]
  /\ \A o \in Objects : Items[o] \in Seq([key : {"key", NullKey}, val : Values])
  /\ \A o \in Objects : Kind[o] = "bean" => Json[o] \in Objects \cup {Thrower}
  /\ \A o \in Objects : \A i \in DOMAIN Items[o] :
        Items[o][i].val = Caller => Kind[o] = "bean"
  /\ Objects \cap {Null, Leaf, Thrower, Caller} = {}
  /\ None \notin Buffers /\ None \notin Lists /\ None \notin Objects
  /\ MaxNest \in Nat \ {0} /\ SafeDepth \in Nat

VARIABLES
  slot,      \* PoolRef of the thread: what bufferRef and arrayListRef refer to
  content,   \* the elements of each ArrayList
  builders,  \* the Builders of the active calls, innermost last
  special,   \* keys of the static cache specialClass
  raised,    \* an exception is propagating in the innermost active code
  result     \* root and output of the last call that returned

vars == <<slot, content, builders, special, raised, result>>

-----------------------------------------------------------------------------
Active == builders # <<>>
Top == builders[Len(builders)]
Outer == SubSeq(builders, 1, Len(builders) - 1)
Refs == content[Top.list]

Frames == Top.frames
Frame == Frames[Len(Frames)]
Below == SubSeq(Frames, 1, Len(Frames) - 1)

(* Mutant: only the object around it is looked at.                         *)
ListedParent(o) == Refs # <<>> /\ Refs[Len(Refs)] = o

(* refs.contains(object): identity or equals. *)
Listed(o) == \E i \in DOMAIN Refs : Refs[i] = o \/ {Refs[i], o} \in Equal

Entries(o) == {i \in DOMAIN Items[o] : Items[o][i].val # Null}

(* Mutant: a map announces its null entries too.                           *)
HeaderAll(o) ==
  IF Kind[o] = "list" THEN [tag |-> "array", size |-> Len(Items[o])]
                      ELSE [tag |-> "map", size |-> Len(Items[o])]

(* A list announces its size; a map, and the map made of a bean, leave     *)
(* entries with a null value out (Wson.WriteMapNullValue is false).        *)
Header(o) ==
  IF Kind[o] = "list" THEN [tag |-> "array", size |-> Len(Items[o])]
                      ELSE [tag |-> "map", size |-> Cardinality(Entries(o))]

Token(tag) == [tag |-> tag, size |-> 0]

HeldBuffers == {builders[i].buffer : i \in DOMAIN builders}
HeldLists == {builders[i].list : i \in DOMAIN builders}

-----------------------------------------------------------------------------
(* Pool.                                                                   *)

(* requireBuffer: the pooled buffer leaves the pool; else a new one.       *)
RequireBuffer(b) ==
  IF slot.buffer # None THEN b = slot.buffer
                        ELSE b \in Buffers \ HeldBuffers

(* requireArrayList: the pooled list is lent, and it is bufferRef that is  *)
(* cleared; else a new, empty list.                                        *)
RequireArrayList(l) ==
  IF slot.list # None
  THEN /\ l = slot.list
       /\ content' = content
  ELSE /\ l \in Lists \ HeldLists
       /\ content' = [content EXCEPT ![l] = <<>>]

Builder(root, b, l) ==
  [buffer |-> b, list |-> l, root |-> root, out |-> <<>>,
   frames |-> <<[op |-> "write", obj |-> root, next |-> 0]>>]

(* Mutant: the buffer stays in the pool while it is lent.                  *)
OpenKeeping(root, active) ==
  \E b \in Buffers, l \in Lists :
    /\ RequireBuffer(b)
    /\ RequireArrayList(l)
    /\ slot' = slot
    /\ builders' = Append(active, Builder(root, b, l))

(* new Builder() on top of the active calls, then the first writeObject.   *)
Open(root, active) ==
  \E b \in Buffers, l \in Lists :
    /\ RequireBuffer(b)
    /\ RequireArrayList(l)
    /\ slot' = [slot EXCEPT !.buffer = None]
    /\ builders' = Append(active, Builder(root, b, l))

(* The application calls toWson. *)
Call ==
  /\ ~Active
  /\ \E root \in Roots : Open(root, builders)
  /\ UNCHANGED <<special, raised, result>>

(* close() returns the buffer, unless it grew past 128K, and the list.     *)
Return ==
  /\ Active /\ ~raised /\ Frames = <<>>
  /\ \E pooled \in BOOLEAN :
       slot' = [buffer |-> IF pooled THEN Top.buffer ELSE slot.buffer,
                list |-> Top.list]
  /\ content' = [content EXCEPT ![Top.list] = <<>>]
  /\ result' = [root |-> Top.root, out |-> Top.out]
  /\ builders' = Outer
  /\ UNCHANGED <<special, raised>>

(* The collector clears a weak reference nothing else keeps alive.         *)
Collect ==
  /\ \/ /\ slot.buffer \notin HeldBuffers \cup {None}
        /\ slot' = [slot EXCEPT !.buffer = None]
     \/ /\ slot.list \notin HeldLists \cup {None}
        /\ slot' = [slot EXCEPT !.list = None]
  /\ UNCHANGED <<content, builders, special, raised, result>>

-----------------------------------------------------------------------------
(* The walk.                                                               *)

(* The innermost builder goes on with these frames and that output. *)
Continue(frames, out) ==
  builders' = Append(Outer, [Top EXCEPT !.frames = frames, !.out = out])

Push(o) == content' = [content EXCEPT ![Top.list] = Append(@, o)]

Writing == Active /\ ~raised /\ Frames # <<>> /\ Frame.op = "write"

(* writeObject of a value that is not a container. *)
WriteValue ==
  /\ Writing
  /\ Frame.obj \in {Null, Leaf}
  /\ Continue(Below, Append(Top.out,
       Token(IF Frame.obj = Null THEN "null" ELSE "leaf")))
  /\ UNCHANGED <<slot, content, special, raised, result>>

(* A CharSequence that throws while it is copied has its tag written.      *)
WriteThrows ==
  /\ Writing
  /\ Frame.obj = Thrower
  /\ raised' = TRUE
  /\ Continue(Below, Append(Top.out, Token("leaf")))
  /\ UNCHANGED <<slot, content, special, result>>

(* An object that is being written already is cut off with a null.         *)
WriteCycle ==
  /\ Writing
  /\ Frame.obj \in Objects
  /\ Listed(Frame.obj)
  /\ Continue(Below, Append(Top.out, Token("null")))
  /\ UNCHANGED <<slot, content, special, raised, result>>

(* Mutant: the elements are counted from 0.                                *)
WriteContainerFromZero ==
  /\ Writing
  /\ Frame.obj \in Objects
  /\ Kind[Frame.obj] # "bean"
  /\ ~Listed(Frame.obj)
  /\ Push(Frame.obj)
  /\ Continue(Append(Below, [op |-> "items", obj |-> Frame.obj, next |-> 0]),
              Append(Top.out, Header(Frame.obj)))
  /\ UNCHANGED <<slot, special, raised, result>>

(* writeMap and the List branch: the header, then the entries. *)
WriteContainer ==
  /\ Writing
  /\ Frame.obj \in Objects
  /\ Kind[Frame.obj] # "bean"
  /\ ~Listed(Frame.obj)
  /\ Push(Frame.obj)
  /\ Continue(Append(Below, [op |-> "items", obj |-> Frame.obj, next |-> 1]),
              Append(Top.out, Header(Frame.obj)))
  /\ UNCHANGED <<slot, special, raised, result>>

(* writeAdapterObject: a bean of a special class goes through JSON.toJSON, *)
(* any other first through its getters.                                    *)
WriteBean ==
  /\ Writing
  /\ Frame.obj \in Objects
  /\ Kind[Frame.obj] = "bean"
  /\ ~Listed(Frame.obj)
  /\ Push(Frame.obj)
  /\ Continue(Append(Below,
                [op |-> IF Class[Frame.obj] \in special THEN "json" ELSE "getters",
                 obj |-> Frame.obj, next |-> 1]),
              Top.out)
  /\ UNCHANGED <<slot, special, raised, result>>

Reading == Active /\ ~raised /\ Frames # <<>> /\ Frame.op = "getters"

Getter == Items[Frame.obj][Frame.next].val

NextGetter == Append(Below, [Frame EXCEPT !.next = @ + 1])

(* toMap: the getters are called one after the other. *)
CallGetter ==
  /\ Reading
  /\ Frame.next <= Len(Items[Frame.obj])
  /\ Getter # Thrower
  /\ Continue(NextGetter, Top.out)
  /\ UNCHANGED <<slot, content, special, raised, result>>

GetterThrows ==
  /\ Reading
  /\ Frame.next <= Len(Items[Frame.obj])
  /\ Getter = Thrower
  /\ raised' = TRUE
  /\ UNCHANGED <<slot, content, builders, special, result>>

(* A getter that calls toWson: a second builder on the same thread.  The   *)
(* outer one goes on with its next getter when the call is over.           *)
GetterCalls ==
  /\ Reading
  /\ Frame.next <= Len(Items[Frame.obj])
  /\ Getter = Caller
  /\ Len(builders) < MaxNest
  /\ \E root \in Roots :
       Open(root, Append(Outer, [Top EXCEPT !.frames = NextGetter]))
  /\ UNCHANGED <<special, raised, result>>

(* All getters called: writeMap of the map they filled. *)
WriteBeanMap ==
  /\ Reading
  /\ Frame.next > Len(Items[Frame.obj])
  /\ Continue(Append(Below, [op |-> "items", obj |-> Frame.obj, next |-> 1]),
              Append(Top.out, Header(Frame.obj)))
  /\ UNCHANGED <<slot, content, special, raised, result>>

Iterating == Active /\ ~raised /\ Frames # <<>> /\ Frame.op = "items"

Item == Items[Frame.obj][Frame.next]
NextItem == Append(Below, [Frame EXCEPT !.next = @ + 1])

(* The value a getter returned: what a nested call produced is plain data. *)
Written(val) == IF val = Caller THEN Leaf ELSE val

WriteElement ==
  /\ Iterating
  /\ Frame.next <= Len(Items[Frame.obj])
  /\ Kind[Frame.obj] = "list"
  /\ Continue(Append(NextItem, [op |-> "write", obj |-> Item.val, next |-> 0]),
              Top.out)
  /\ UNCHANGED <<slot, content, special, raised, result>>

(* Mutant: the iterator is not advanced past a null entry.                 *)
SkipNullEntryStuck ==
  /\ Iterating
  /\ Frame.next <= Len(Items[Frame.obj])
  /\ Kind[Frame.obj] # "list"
  /\ Item.val = Null
  /\ UNCHANGED vars

SkipNullEntry ==
  /\ Iterating
  /\ Frame.next <= Len(Items[Frame.obj])
  /\ Kind[Frame.obj] # "list"
  /\ Item.val = Null
  /\ Continue(NextItem, Top.out)
  /\ UNCHANGED <<slot, content, special, raised, result>>

WriteEntry ==
  /\ Iterating
  /\ Frame.next <= Len(Items[Frame.obj])
  /\ Kind[Frame.obj] # "list"
  /\ Item.val # Null
  /\ Item.key # NullKey
  /\ Continue(Append(NextItem,
                [op |-> "write", obj |-> Written(Item.val), next |-> 0]),
              Append(Top.out, Token("key")))
  /\ UNCHANGED <<slot, content, special, raised, result>>

(* entry.getKey().toString() of a null key. *)
NullKeyThrows ==
  /\ Iterating
  /\ Frame.next <= Len(Items[Frame.obj])
  /\ Kind[Frame.obj] # "list"
  /\ Item.val # Null
  /\ Item.key = NullKey
  /\ raised' = TRUE
  /\ UNCHANGED <<slot, content, builders, special, result>>

(* JSON.toJSON of a bean, written in its place. *)
WriteJson ==
  /\ Active /\ ~raised /\ Frames # <<>> /\ Frame.op = "json"
  /\ Frame.next = 1
  /\ IF Json[Frame.obj] = Thrower
     THEN raised' = TRUE /\ Continue(Below, Top.out)
     ELSE /\ Continue(Append(NextItem,
               [op |-> "write", obj |-> Json[Frame.obj], next |-> 0]), Top.out)
          /\ UNCHANGED raised
  /\ UNCHANGED <<slot, content, special, result>>

(* A container is finished. *)
Finished ==
  /\ Active /\ ~raised /\ Frames # <<>>
  /\ \/ Frame.op = "items" /\ Frame.next > Len(Items[Frame.obj])
     \/ Frame.op = "json" /\ Frame.next > 1

(* Mutant: refs keeps the object.                                          *)
LeaveListed ==
  /\ Finished
  /\ Continue(Below, Top.out)
  /\ UNCHANGED <<slot, content, special, raised, result>>

(* refs.remove(refs.size() - 1), which throws if the list is empty. *)
Leave ==
  /\ Finished
  /\ Continue(Below, Top.out)
  /\ IF Refs = <<>>
     THEN raised' = TRUE /\ UNCHANGED content
     ELSE /\ content' = [content EXCEPT ![Top.list] = SubSeq(@, 1, Len(@) - 1)]
          /\ UNCHANGED raised
  /\ UNCHANGED <<slot, special, result>>

-----------------------------------------------------------------------------
(* Exceptions.                                                             *)

(* The frames inside the try block of writeAdapterObject: toMap, and       *)
(* writeMap of what it returned.                                           *)
Catchers ==
  {i \in DOMAIN Frames :
     \/ Frames[i].op = "getters"
     \/ Frames[i].op = "items" /\ Kind[Frames[i].obj] = "bean"}

(* The catch block: the class becomes special and the bean is written      *)
(* again, as JSON, after whatever has been written of it.                  *)
Catch ==
  /\ Active /\ raised
  /\ Catchers # {}
  /\ LET k == CHOOSE i \in Catchers : \A j \in Catchers : j <= i
         o == Frames[k].obj
     IN  /\ special' = special \cup {Class[o]}
         /\ Continue(Append(SubSeq(Frames, 1, k - 1),
                            [op |-> "json", obj |-> o, next |-> 1]), Top.out)
  /\ raised' = FALSE
  /\ UNCHANGED <<slot, content, result>>

(* Nothing catches it in this call: toWson is left without close().  A     *)
(* caller that used WsonUtils.toWson sees null, one that used Wson.toWson  *)
(* sees the exception.                                                     *)
Abandon ==
  /\ Active /\ raised
  /\ Catchers = {}
  /\ builders' = Outer
  /\ raised' \in (IF Len(builders) = 1 THEN {FALSE} ELSE BOOLEAN)
  /\ UNCHANGED <<slot, content, special, result>>

(* A deep graph overflows the stack, sooner or later: an Error, which the  *)
(* catch blocks of the walk let pass, so that this call, too, is left      *)
(* without close().  A call around it sees the exception Method.invoke     *)
(* makes of it, unless the getter caught it.                               *)
Overflow ==
  /\ Writing
  /\ Len(Frames) > SafeDepth
  /\ builders' = Outer
  /\ raised' \in (IF Len(builders) = 1 THEN {FALSE} ELSE BOOLEAN)
  /\ UNCHANGED <<slot, content, special, result>>

(* specialClass is shared by all threads and bounded: another thread's     *)
(* classes may push one out.                                               *)
Evict ==
  /\ \E class \in special : special' = special \ {class}
  /\ UNCHANGED <<slot, content, builders, raised, result>>

-----------------------------------------------------------------------------
Init ==
  /\ slot = [buffer |-> None, list |-> None]
  /\ content = [l \in Lists |-> <<>>]
  /\ builders = <<>>
  /\ special = {}
  /\ raised = FALSE
  /\ result = [root |-> None, out |-> <<>>]

(* A step of the running call. *)
Run ==
  \/ Return
  \/ WriteValue \/ WriteThrows \/ WriteCycle \/ WriteContainer \/ WriteBean
  \/ CallGetter \/ GetterThrows \/ GetterCalls \/ WriteBeanMap
  \/ WriteElement \/ SkipNullEntry \/ WriteEntry \/ NullKeyThrows
  \/ WriteJson \/ Leave \/ Catch \/ Abandon \/ Overflow

Next == Call \/ Run \/ Collect \/ Evict

(* A thread that has called toWson is scheduled until it returns. *)
Spec == Init /\ [][Next]_vars /\ WF_vars(Run)

-----------------------------------------------------------------------------
(* Properties.                                                             *)

TokenSet ==
  [tag : {"null", "leaf", "key", "array", "map"}, size : Nat]

BeanSet == {o \in Objects : Kind[o] = "bean"}

FrameSet ==
  [op : {"write"}, obj : Values, next : {0}]
    \cup [op : {"items"}, obj : Objects, next : Nat \ {0}]
    \cup [op : {"getters", "json"}, obj : BeanSet, next : Nat \ {0}]

BuilderSet ==
  [buffer : Buffers, list : Lists, root : Objects,
   out : Seq(TokenSet), frames : Seq(FrameSet)]

TypeOK ==
  /\ slot \in [buffer : Buffers \cup {None}, list : Lists \cup {None}]
  /\ content \in [Lists -> Seq(Objects)]
  /\ builders \in Seq(BuilderSet)
  /\ special \subseteq {Class[o] : o \in BeanSet}
  /\ raised \in BOOLEAN
  /\ result \in [root : Objects \cup {None}, out : Seq(TokenSet)]

(* A byte buffer is lent to one Builder at a time: two calls of toWson     *)
(* active on the thread never write into the same array, and the pool      *)
(* never offers one that is in use, whatever was returned, abandoned by an *)
(* exception or collected (Pool.requireBuffer, Pool.returnBuffer).         *)
BuffersExclusive ==
  /\ \A i, j \in DOMAIN builders :
        builders[i].buffer = builders[j].buffer => i = j
  /\ slot.buffer \notin HeldBuffers

(* The objects being written, outermost first. *)
Path(b) ==
  LET depth == IF b.frames # <<>> /\ b.frames[Len(b.frames)].op = "write"
               THEN Len(b.frames) - 1 ELSE Len(b.frames)
  IN  [i \in 1..depth |-> b.frames[i].obj]

(* refs holds exactly the objects being written, in order: every branch of *)
(* writeObject takes back what it added, whatever was cut off, skipped or  *)
(* caught in between.                                                      *)
RefsArePath == Active /\ ~raised => Refs = Path(Top)

(* The graphs on which RefsArePath holds.  What a walk from the roots can  *)
(* come to:                                                                *)
Held(o) ==
  {Items[o][i].val : i \in DOMAIN Items[o]}
    \cup (IF Kind[o] = "bean" THEN {Json[o]} ELSE {})

Closed(S) == \A o \in S : Held(o) \cap Objects \subseteq S

Reachable ==
  {o \in Objects :
     \A S \in SUBSET Objects : Roots \subseteq S /\ Closed(S) => o \in S}

(* Writing its entries fails: a value throws, or the key of one is null.   *)
Flawed(o) ==
  \E i \in DOMAIN Items[o] :
     \/ Items[o][i].val = Thrower
     \/ Items[o][i].key = NullKey /\ Items[o][i].val # Null /\ Kind[o] # "list"

FlawedBeans == {o \in Reachable \cap BeanSet : Flawed(o)}
FlawedClasses == {Class[o] : o \in FlawedBeans}

(* Nothing in reach calls toWson, only the getters of beans fail, every    *)
(* bean of a class one of which fails has a JSON form, and the objects are *)
(* too few to overflow the stack.  Without one of these an exception       *)
(* leaves in refs what the code it passed through had added.               *)
CleanGraph ==
  /\ \A o \in Reachable : \A i \in DOMAIN Items[o] : Items[o][i].val # Caller
  /\ \A o \in Reachable : Flawed(o) => Kind[o] = "bean"
  /\ \A o \in Reachable \cap BeanSet :
        Class[o] \in FlawedClasses => Json[o] # Thrower
  /\ IsFiniteSet(Reachable) /\ Cardinality(Reachable) < SafeDepth

(* No object is written inside itself: what keeps the recursion of         *)
(* writeObject finite on a cyclic graph.  It does not hold of a bean that  *)
(* is on a cycle and has a getter that calls toWson: the inner call is     *)
(* lent the same list (requireArrayList), and its close() clears it.       *)
NoReentry ==
  \A b \in {builders[i] : i \in DOMAIN builders} :
    \A i, j \in DOMAIN Path(b) : Path(b)[i] = Path(b)[j] => i = j

(* Every call of toWson comes to an end, on the graphs where no object is  *)
(* written inside itself.                                                  *)
Terminates == Active ~> ~Active
=============================================================================
