------------------------------ MODULE Bridges ------------------------------
(***************************************************************************)
(* The three bridges that turn the values of a runtime into wson and back: *)
(* JavaScriptCore (jsc/wson_jsc.cpp), the native runtime                   *)
(* (jsc/wson_for_runtime.cpp) and Cocoa (ios WsonParser.m).  What one of   *)
(* them writes any of them may read, and so may Wson.parse of Java.        *)
(*                                                                         *)
(* A container is announced with the number of its items before they are   *)
(* written, and each bridge counts in a way of its own; JavaScriptCore     *)
(* reads every property twice, through getters, once to count and once to  *)
(* write.  A buffer is a sequence of tokens, as the writer of WsonIo and   *)
(* the readers of io/wson make them from bytes.                            *)
(***************************************************************************)
EXTENDS Naturals, Sequences, FiniteSets, SequencesExt

CONSTANTS
  Objects,                           \* arrays, maps, structs, vectors
  Leaves, Null,                      \* numbers, texts, booleans; null
  Undefined, Function, Native,       \* values wson has no form for
  Missing,                           \* what a property is that is gone
  Keys,                              \* sequences of UTF-16 units
  Heaps,                             \* contents of the objects
  MaxDeep,                           \* WSON_MAX_DEEP              (40000)
  SystemCount, LocalCount            \* slots of the two caches

NoKey == <<>>
Formless == {Null, Undefined, Function, Native, Missing}
Values == Objects \cup Leaves \cup Formless

(* What an item yields when it is read for the first and the second time. *)
Item == [key : Keys \cup {NoKey}, first : Values, second : Values]
Content ==
  [kind : {"array", "map", "struct", "vector"}, items : Seq(Item), json : Values]

ASSUME ValuesAssumption ==
  /\ IsFiniteSet(Objects) /\ MaxDeep \in Nat
  /\ Objects \cap Leaves = {} /\ Formless \cap (Objects \cup Leaves) = {}
  /\ SystemCount \in Nat /\ LocalCount \in Nat

ASSUME HeapsAssumption ==
  \A contents \in Heaps :
     /\ contents \in [Objects -> Content]
     /\ \A o \in Objects : contents[o].kind # "array" =>
          \A i \in DOMAIN contents[o].items : contents[o].items[i].key \in Keys

VARIABLES
  heap,    \* object -> [kind, items, json]
  system,  \* systemIdentifyCache, slot -> key or NoKey; <<>> for none
  writer,  \* the bridge that filled the buffer
  root,    \* and what with
  buffer,
  got      \* <<>>, or what a bridge read: [reader, val, at]

vars == <<heap, system, writer, root, buffer, got>>

Token(tag, size, data) == [tag |-> tag, size |-> size, data |-> data]
Tokens ==
  [tag : {"null"}, size : {0}, data : {Null}]
    \cup [tag : {"leaf"}, size : {0}, data : Leaves]
    \cup [tag : {"key"}, size : {0}, data : Keys]
    \cup [tag : {"array", "map"}, size : Nat, data : {Null}]
NullToken == <<Token("null", 0, Null)>>
LeafToken(val) == <<Token("leaf", 0, val)>>
KeyToken(key)  == <<Token("key", 0, key)>>

Items(o) == heap[o].items
Kind(o) == IF heap[o].kind = "array" THEN "array" ELSE "map"

-----------------------------------------------------------------------------
(* Writing.  The three bridges differ in the values they have no form for, *)
(* in what they leave out of a map, and in where they stop.                *)

(* JavaScriptCore. *)
Circle(o, stack) == o \in Range(stack)

check_js_deep_and_circle_reference(o, stack) ==
  Circle(o, stack) \/ Len(stack) > MaxDeep

call_object_js_value_to_json(val) ==
  IF val \in Objects THEN heap[val].json ELSE val

Stops(bridge, o, stack) ==
  bridge = "jsc" /\ check_js_deep_and_circle_reference(o, stack)

Given(bridge, val) ==
  IF bridge = "jsc" THEN call_object_js_value_to_json(val) ELSE val

(* A property that is not written into a map: JavaScriptCore, and the      *)
(* native runtime, which drops null as well.  Cocoa writes all.            *)
Skipped(bridge, val) ==
  \/ bridge = "jsc" /\ val \in {Undefined, Function, Missing}
  \/ bridge = "runtime" /\ val \in {Undefined, Null, Function, Native}

(* The native runtime writes nothing for these, and goes on. *)
Ignored(bridge, val) == bridge = "runtime" /\ val \in {Function, Native}

(* Mutant: a property is counted out for each time it was read.            *)
MapSizeTwice(bridge, o) ==
  Len(Items(o))
    - Cardinality({i \in DOMAIN Items(o) : Skipped(bridge, Items(o)[i].first)})
    - Cardinality({i \in DOMAIN Items(o) : Skipped(bridge, Items(o)[i].second)})

MapSize(bridge, o) ==
  Len(Items(o))
    - Cardinality({i \in DOMAIN Items(o) : Skipped(bridge, Items(o)[i].first)})

Header(bridge, o) ==
  IF Kind(o) = "array" THEN <<Token("array", Len(Items(o)), Null)>>
  ELSE <<Token("map", MapSize(bridge, o), Null)>>

(* Behind the fields of a CGVector, whose branch in the Cocoa bridge does  *)
(* not return, comes a null.                                               *)
Trailer(bridge, o) ==
  IF bridge = "cocoa" /\ heap[o].kind = "vector" THEN NullToken ELSE <<>>

(* An item of an array or map, given what inside[<<val, stack>>] writes.   *)
PushItem(bridge, inside, o, stack, item) ==
  LET val == inside[<<Given(bridge, item.second), Append(stack, o)>>]
  IN  IF Kind(o) = "array" THEN val
      ELSE IF Skipped(bridge, item.second) THEN <<>>
      ELSE KeyToken(item.key) \o val

PushValue(bridge, inside, val, stack) ==
  IF val \in Leaves THEN LeafToken(val)
  ELSE IF Ignored(bridge, val) THEN <<>>
  ELSE IF val \notin Objects \/ Stops(bridge, val, stack) THEN NullToken
  ELSE Header(bridge, val)
         \o FlattenSeq([i \in DOMAIN Items(val) |->
                          PushItem(bridge, inside, val, stack, Items(val)[i])])
         \o Trailer(bridge, val)

Places == Values \X Seq(Objects)

(* What is written with n levels to go.  There are always enough of them:  *)
(* JavaScriptCore stops by itself, and the others are given trees.         *)
Push(bridge) ==
  LET push[n \in Nat] ==
        IF n = 0 THEN [p \in Places |-> NullToken]
        ELSE [p \in Places |-> PushValue(bridge, push[n - 1], p[1], p[2])]
  IN  push

Levels(bridge) == IF bridge = "jsc" THEN MaxDeep + 2 ELSE Cardinality(Objects) + 1

Output(bridge, val) == Push(bridge)[Levels(bridge)][<<Given(bridge, val), <<>>>>]

wson_push_js_value(val) == Output("jsc", val)
putValuesToWson(val) == Output("runtime", val)
CocoaToWson(val) == Output("cocoa", val)

-----------------------------------------------------------------------------
(* Reading.  Past the end lies other memory; here it reads as null, and as *)
(* an empty key, and nothing is claimed of what such a read returns.       *)

wson_has_next(at) == at <= Len(buffer)
TokenAt(at) == IF wson_has_next(at) THEN buffer[at] ELSE Token("null", 0, Null)
KeyAt(at) == IF TokenAt(at).tag = "key" THEN TokenAt(at).data ELSE NoKey

(* djb2; the keys here are too short for it to reach 2^32. *)
hash(key) == FoldLeft(LAMBDA h, unit : h * 33 + unit, 5381, key)

SlotOf(cache, key) == hash(key) % Cardinality(DOMAIN cache)

(* Mutant: a key of the same length and hash is taken for the same key.    *)
SameKeyHashed(cached, key) ==
  cached # NoKey /\ Len(cached) = Len(key) /\ hash(cached) = hash(key)

SameKey(cached, key) ==
  cached # NoKey /\ Len(cached) = Len(key) /\ hash(cached) = hash(key)
                 /\ cached = key

Short(key) == key # <<>> /\ key[1] \in 1..126 /\ Len(key) <= 32

(* The identifier for a key, and the cache after it. *)
makeIdentifer(cache, key) ==
  IF ~Short(key) THEN [name |-> key, cache |-> cache]
  ELSE LET slot == SlotOf(cache, key)
       IN  IF SameKey(cache[slot], key)
           THEN [name |-> cache[slot], cache |-> cache]
           ELSE [name |-> key, cache |-> [cache EXCEPT ![slot] = key]]

(* Only the JavaScriptCore bridge looks keys up. *)
Named(reader, cache, key) ==
  IF reader = "jsc" THEN makeIdentifer(cache, key) ELSE [name |-> key, cache |-> cache]

(* Mutant: a reader of a map relies on its header.                         *)
GoesOnCounted(reader, tag, at) ==
  reader = "java" \/ tag = "map" \/ wson_has_next(at)

(* readMap and readArray of Java read as many items as are announced; so   *)
(* does toObj in a map.                                                    *)
GoesOn(reader, tag, at) ==
  reader = "java" \/ (reader = "cocoa" /\ tag = "map") \/ wson_has_next(at)

Caches ==
  UNION {[0..(count - 1) -> Keys \cup {NoKey}] : count \in {0, SystemCount, LocalCount}}

(* An item of an array or map after others, given what inside reads. *)
ReadItem(reader, tag, inside, s) ==
  LET key == IF tag = "map" THEN Named(reader, s.cache, KeyAt(s.at))
                            ELSE [name |-> NoKey, cache |-> s.cache]
      read == inside[<<IF tag = "map" THEN s.at + 1 ELSE s.at, key.cache>>]
  IN  IF GoesOn(reader, tag, s.at)
      THEN [at |-> read.at, cache |-> read.cache,
            items |-> Append(s.items, [key |-> key.name, val |-> read.val])]
      ELSE s

ReadItems(reader, tag, inside, at, cache) ==
  LET after[k \in Nat] ==
        IF k = 0 THEN [at |-> at, cache |-> cache, items |-> <<>>]
        ELSE ReadItem(reader, tag, inside, after[k - 1])
  IN  after

(* The value at a position: [val, at, cache], at being the position after. *)
ReadValue(reader, inside, at, cache) ==
  LET token == TokenAt(at)
      read == ReadItems(reader, token.tag, inside, at + 1, cache)[token.size]
  IN  IF token.tag \in {"array", "map"}
      THEN [val |-> [kind |-> token.tag, items |-> read.items],
            at |-> read.at, cache |-> read.cache]
      ELSE [val |-> IF token.tag = "leaf" THEN token.data ELSE Null,
            at |-> at + 1, cache |-> cache]

Positions == (Nat \ {0}) \X Caches

(* Containers are not deeper inside each other than there are tokens. *)
ReadTo(reader) ==
  LET read[n \in Nat] ==
        IF n = 0 THEN [p \in Positions |-> [val |-> Null, at |-> p[1] + 1, cache |-> p[2]]]
        ELSE [p \in Positions |-> ReadValue(reader, read[n - 1], p[1], p[2])]
  IN  read

Read(reader, cache) == ReadTo(reader)[Len(buffer)][<<1, cache>>]

-----------------------------------------------------------------------------
(* A value without objects inside themselves, made of some plain values,   *)
(* whose items are the same whenever they are read: its objects os.        *)
Tree(val, plain, os) ==
  /\ val \in os
  /\ \A o \in os :
       /\ heap[o].json = o
       /\ \A i \in DOMAIN Items(o) :
             /\ Items(o)[i].first = Items(o)[i].second
             /\ Items(o)[i].second \in os \cup plain
  /\ \A part \in SUBSET os :
       part # {} => \E o \in part : \A i \in DOMAIN Items(o) : Items(o)[i].second \notin part

Trees(plain) == {val \in Objects : \E os \in SUBSET Objects : Tree(val, plain, os)}

Written(bridge, val, output) ==
  /\ writer = "none"
  /\ writer' = bridge /\ root' = val /\ buffer' = output
  /\ UNCHANGED <<heap, system, got>>

(* toWson of JavaScriptCore: toJSON of the value itself is called as well. *)
toWson ==
  \E val \in Objects :
     Written("jsc", val, wson_push_js_value(val))

runTimeValueToWson ==
  \E val \in Trees(Leaves \cup {Null, Undefined, Function, Native}) :
     Written("runtime", val, putValuesToWson(val))

CocoaWrite ==
  \E val \in Trees(Leaves \cup {Null}) :
     Written("cocoa", val, CocoaToWson(val))

Fresh(count) == [slot \in 0..(count - 1) |-> NoKey]

toJSValue ==
  /\ writer # "none" /\ got = <<>>
  /\ LET read == Read("jsc", IF system # <<>> THEN system ELSE Fresh(LocalCount))
     IN  /\ got' = [reader |-> "jsc", val |-> read.val, at |-> read.at]
         /\ system' = IF system # <<>> THEN read.cache ELSE <<>>
  /\ UNCHANGED <<heap, writer, root, buffer>>

(* toRunTimeValueFromWson and toVal. *)
ReadBy(reader) ==
  /\ writer # "none" /\ got = <<>>
  /\ LET read == Read(reader, <<>>)
     IN  got' = [reader |-> reader, val |-> read.val, at |-> read.at]
  /\ UNCHANGED <<heap, system, writer, root, buffer>>

toRunTimeValueFromWson == ReadBy("runtime")
toVal == ReadBy("cocoa")

(* Wson.parse: the Java array has an end, and null is what a parse returns *)
(* that goes beyond it.  The items of a JSONObject are kept in the order   *)
(* of the stream here.                                                     *)
readObject == Read("java", <<>>)

parse ==
  /\ writer # "none" /\ got = <<>>
  /\ got' = [reader |-> "java", at |-> readObject.at,
             val |-> IF readObject.at <= Len(buffer) + 1 THEN readObject.val ELSE Null]
  /\ UNCHANGED <<heap, system, writer, root, buffer>>

(* The application is done with the buffer. *)
Free ==
  /\ got # <<>>
  /\ writer' = "none" /\ root' = Null /\ buffer' = <<>> /\ got' = <<>>
  /\ UNCHANGED <<heap, system>>

(* init and destory of the cache that lives with the VM. *)
init ==
  /\ system' = Fresh(SystemCount)
  /\ UNCHANGED <<heap, writer, root, buffer, got>>

destory ==
  /\ system' = <<>>
  /\ UNCHANGED <<heap, writer, root, buffer, got>>

Init ==
  /\ heap \in Heaps
  /\ system = <<>>
  /\ writer = "none" /\ root = Null /\ buffer = <<>> /\ got = <<>>

Next ==
  \/ toWson \/ runTimeValueToWson \/ CocoaWrite
  \/ toJSValue \/ toRunTimeValueFromWson \/ toVal \/ parse
  \/ Free \/ init \/ destory

Spec == Init /\ [][Next]_vars

-----------------------------------------------------------------------------
(* Properties.                                                             *)

(* What a bridge leaves out of a map. *)
Dropped(bridge) ==
  CASE bridge = "jsc"     -> {Undefined, Function, Missing}
    [] bridge = "runtime" -> {Undefined, Null, Function, Native}
    [] bridge = "cocoa"   -> {}

(* The tree a value stands for, written by a bridge, inside a path of      *)
(* objects: no bytes, no counts.                                           *)
PlainItem(bridge, inside, o, path, item) ==
  LET val == inside[<<call_object_js_value_to_json(item.second), Append(path, o)>>]
  IN  IF Kind(o) = "array" THEN <<[key |-> NoKey, val |-> val]>>
      ELSE IF item.second \in Dropped(bridge) THEN <<>>
      ELSE <<[key |-> item.key, val |-> val]>>

PlainValue(bridge, inside, val, path) ==
  IF val \in Leaves THEN val
  ELSE IF val \notin Objects \/
          (bridge = "jsc" /\ (val \in Range(path) \/ Len(path) > MaxDeep))
  THEN Null
  ELSE [kind |-> Kind(val),
        items |-> FlattenSeq([i \in DOMAIN Items(val) |->
                               PlainItem(bridge, inside, val, path, Items(val)[i])])]

Plain(bridge) ==
  LET plain[n \in Nat] ==
        IF n = 0 THEN [p \in Places |-> Null]
        ELSE [p \in Places |-> PlainValue(bridge, plain[n - 1], p[1], p[2])]
  IN  plain

(* What the last buffer was to hold. *)
Meant ==
  Plain(writer)[Levels(writer)][<<call_object_js_value_to_json(root), <<>>>>]

Reads(val) == got.val = val /\ got.at = Len(buffer) + 1

(* Getters that yield the same kind of value twice, no element of a native *)
(* array that is left out, and no CGVector.                                *)
Sound ==
  \A o \in Objects :
     /\ \A i \in DOMAIN heap[o].items :
           writer = "jsc" /\ heap[o].kind # "array" =>
             (Skipped("jsc", Items(o)[i].first) <=> Skipped("jsc", Items(o)[i].second))
     /\ writer = "runtime" /\ heap[o].kind = "array" =>
          \A i \in DOMAIN heap[o].items :
             heap[o].items[i].second \notin {Function, Native}
     /\ writer = "cocoa" => heap[o].kind # "vector"

(* Only what fits the format is in a buffer, and the caches hold keys.     *)
TypeOK ==
  /\ writer \in {"none", "jsc", "runtime", "cocoa"}
  /\ root \in Objects \cup {Null}
  /\ buffer \in Seq(Tokens)
  /\ system \in Caches

(* Whichever bridge wrote and whichever reads, and whatever the cache of   *)
(* keys has seen before, the tree comes back that the value stands for and *)
(* the buffer is used up: circles, depth, values without a form, toJSON    *)
(* and the counts in the headers included (wson_push_js_value,             *)
(* putValuesToWson, toWson; makeIdentifer).                                *)
ReadsBack == got # <<>> /\ Sound => Reads(Meant)

(* When properties of the outermost object vanish between the counting and *)
(* the writing, its header announces more than follows; the readers that   *)
(* look for the end still return what was written, and Java returns null,  *)
(* never an object with a part of the properties.                          *)
Vanishing(o) ==
  \A i \in DOMAIN heap[o].items :
     /\ heap[o].items[i].second \notin Objects
     /\ Skipped("jsc", heap[o].items[i].first) => Skipped("jsc", heap[o].items[i].second)

VanishedIsAbsent ==
  got # <<>> /\ writer = "jsc" /\ got.reader # "cocoa"
    /\ call_object_js_value_to_json(root) = root /\ Vanishing(root)
  => Reads(Meant) \/ (got.reader = "java" /\ got.val = Null)
=============================================================================
