------------------------------ MODULE LruCache ------------------------------
(***************************************************************************)
(* cache/LruCache.java, which every thread of the program shares: Wson     *)
(* keeps its beans and its special classes in two of them.                 *)
(*                                                                         *)
(* A step is one synchronized block, or one of the two callbacks that run  *)
(* between the blocks without the lock, create and entryRemoved.  sizeOf   *)
(* is the default, 1 for every entry: nothing in the repository overrides  *)
(* it.  The counters of hits, misses and evictions are left out; they are  *)
(* only ever read for display.                                             *)
(***************************************************************************)
EXTENDS Integers, FiniteSets

CONSTANTS
  Keys, Values, Callers,
  NoKey, NoValue,
  MaxSize        \* maxSize of the constructor, which refuses 0 and below

ASSUME CacheAssumption ==
  /\ MaxSize \in Nat \ {0}
  /\ NoKey \notin Keys
  /\ NoValue \notin Values

VARIABLES
  cached,   \* key -> its value in the LinkedHashMap, or NoValue
  older,    \* pairs of cached keys, the first accessed before the second
  size,
  call,     \* thread -> where it is in its call
  fresh     \* the values nobody has handed to the cache, or got back from it

vars == <<cached, older, size, call, fresh>>

-----------------------------------------------------------------------------
Cached == {k \in Keys : cached[k] # NoValue}

Idle == [at |-> "idle", key |-> NoKey, hand |-> NoValue, limit |-> 0]

(* In create(key), unlocked. *)
Creating(k) == [Idle EXCEPT !.at = "creating", !.key = k]

(* create(key) returned val. *)
Created(k, val) == [at |-> "created", key |-> k, hand |-> val, limit |-> 0]

(* Between two rounds of trimToSize(limit). *)
Trimming(limit) == [Idle EXCEPT !.at = "trimming", !.limit = limit]

(* In entryRemoved for val, after which the call returns, *)
Releasing(val) == [Idle EXCEPT !.at = "releasing", !.hand = val]

(* or goes on to trimToSize(limit). *)
ReleasingThenTrimming(val, limit) ==
  [Trimming(limit) EXCEPT !.at = "releasing_trim", !.hand = val]

Calls ==
  [at : {"idle", "creating", "created", "trimming", "releasing",
         "releasing_trim"},
   key : Keys \cup {NoKey}, hand : Values \cup {NoValue},
   limit : -1..MaxSize]

Goto(p, where) == call' = [call EXCEPT ![p] = where]

(* LinkedHashMap in access order: get, and put of a key that is there,     *)
(* make the entry the youngest.                                            *)
Forgotten(k) == {pair \in older : pair[1] # k /\ pair[2] # k}

(* Mutant: an entry accessed again keeps its old place too.                *)
TouchedTwice(k) == older \cup {<<j, k>> : j \in Cached \ {k}}

Touched(k) == Forgotten(k) \cup {<<j, k>> : j \in Cached \ {k}}

Eldest(k) == k \in Cached /\ \A j \in Cached : <<j, k>> \notin older

-----------------------------------------------------------------------------
Init ==
  /\ cached = [k \in Keys |-> NoValue]
  /\ older = {}
  /\ size = 0
  /\ call = [p \in Callers |-> Idle]
  /\ fresh = Values

(* get(key), first block: a hit returns. *)
Hit(p, k) ==
  /\ call[p].at = "idle"
  /\ k \in Cached
  /\ older' = Touched(k)
  /\ UNCHANGED <<cached, size, call, fresh>>

Miss(p, k) ==
  /\ call[p].at = "idle"
  /\ k \notin Cached
  /\ Goto(p, Creating(k))
  /\ UNCHANGED <<cached, older, size, fresh>>

(* create(key) returns null, as it does unless a subclass overrides it. *)
CreateNothing(p) ==
  /\ call[p].at = "creating"
  /\ Goto(p, Idle)
  /\ UNCHANGED <<cached, older, size, fresh>>

Create(p, val) ==
  /\ call[p].at = "creating"
  /\ val \in fresh
  /\ fresh' = fresh \ {val}
  /\ Goto(p, Created(call[p].key, val))
  /\ UNCHANGED <<cached, older, size>>

(* Mutant: the created value replaces one that arrived meanwhile.          *)
InstallBlindly(p) ==
  /\ call[p].at = "created"
  /\ LET k == call[p].key IN
       /\ older' = Touched(k)
       /\ cached' = [cached EXCEPT ![k] = call[p].hand]
       /\ size' = size + 1
       /\ Goto(p, Trimming(MaxSize))
  /\ UNCHANGED fresh

(* get(key), second block.  A value that arrived meanwhile stays. *)
Install(p) ==
  /\ call[p].at = "created"
  /\ LET k == call[p].key IN
       /\ older' = Touched(k)
       /\ IF k \in Cached
          THEN /\ Goto(p, Releasing(call[p].hand))
               /\ UNCHANGED <<cached, size>>
          ELSE /\ cached' = [cached EXCEPT ![k] = call[p].hand]
               /\ size' = size + 1
               /\ Goto(p, Trimming(MaxSize))
  /\ UNCHANGED fresh

(* Mutant: the entry replaced is not taken off the size.                   *)
PutCounting(p, k, val) ==
  /\ call[p].at = "idle"
  /\ val \in fresh
  /\ fresh' = fresh \ {val}
  /\ cached' = [cached EXCEPT ![k] = val]
  /\ older' = Touched(k)
  /\ size' = size + 1
  /\ Goto(p, IF k \in Cached
             THEN ReleasingThenTrimming(cached[k], MaxSize)
             ELSE Trimming(MaxSize))

(* Mutant: put does not trim.                                              *)
PutUntrimmed(p, k, val) ==
  /\ call[p].at = "idle"
  /\ val \in fresh
  /\ fresh' = fresh \ {val}
  /\ cached' = [cached EXCEPT ![k] = val]
  /\ older' = Touched(k)
  /\ size' = IF k \in Cached THEN size ELSE size + 1
  /\ Goto(p, IF k \in Cached THEN Releasing(cached[k]) ELSE Idle)

(* put(key, value).  A bean two threads built at once is put by both. *)
Put(p, k, val) ==
  /\ call[p].at = "idle"
  /\ val \in fresh
  /\ fresh' = fresh \ {val}
  /\ cached' = [cached EXCEPT ![k] = val]
  /\ older' = Touched(k)
  /\ size' = IF k \in Cached THEN size ELSE size + 1
  /\ Goto(p, IF k \in Cached
             THEN ReleasingThenTrimming(cached[k], MaxSize)
             ELSE Trimming(MaxSize))

(* remove(key); of a key that is not there it does nothing. *)
Remove(p, k) ==
  /\ call[p].at = "idle"
  /\ k \in Cached
  /\ cached' = [cached EXCEPT ![k] = NoValue]
  /\ older' = Forgotten(k)
  /\ size' = size - 1
  /\ Goto(p, Releasing(cached[k]))
  /\ UNCHANGED fresh

(* trimToSize(limit) from outside, to at most maxSize entries; evictAll    *)
(* is the one of -1.                                                       *)
CallTrim(p, limit) ==
  /\ call[p].at = "idle"
  /\ Goto(p, Trimming(limit))
  /\ UNCHANGED <<cached, older, size, fresh>>

(* Mutant: the entry stays in the list of accesses.                        *)
EvictListed(p, k) ==
  /\ call[p].at = "trimming"
  /\ size > call[p].limit
  /\ Eldest(k)
  /\ cached' = [cached EXCEPT ![k] = NoValue]
  /\ size' = size - 1
  /\ Goto(p, ReleasingThenTrimming(cached[k], call[p].limit))
  /\ UNCHANGED <<older, fresh>>

(* A round of trimToSize that evicts.  Its check of the size, which throws *)
(* IllegalStateException, never fails: SizeAgrees.                         *)
Evict(p, k) ==
  /\ call[p].at = "trimming"
  /\ size > call[p].limit
  /\ Eldest(k)
  /\ cached' = [cached EXCEPT ![k] = NoValue]
  /\ older' = Forgotten(k)
  /\ size' = size - 1
  /\ Goto(p, ReleasingThenTrimming(cached[k], call[p].limit))
  /\ UNCHANGED fresh

(* Mutant: trimToSize does not look at the size again.                     *)
StopUnchecked(p) ==
  /\ call[p].at = "trimming"
  /\ Goto(p, Idle)
  /\ UNCHANGED <<cached, older, size, fresh>>

(* The round of trimToSize that leaves the loop. *)
Stop(p) ==
  /\ call[p].at = "trimming"
  /\ size <= call[p].limit \/ Cached = {}
  /\ Goto(p, Idle)
  /\ UNCHANGED <<cached, older, size, fresh>>

(* entryRemoved, unlocked: the value is out of the cache for good. *)
EntryRemoved(p) ==
  /\ call[p].at \in {"releasing", "releasing_trim"}
  /\ fresh' = fresh \cup {call[p].hand}
  /\ Goto(p, IF call[p].at = "releasing" THEN Idle
                                         ELSE Trimming(call[p].limit))
  /\ UNCHANGED <<cached, older, size>>

(* What a thread does inside a call, *)
Continue(p) ==
  \/ CreateNothing(p)
  \/ \E val \in Values : Create(p, val)
  \/ Install(p)
  \/ \E k \in Keys : Evict(p, k)
  \/ Stop(p)
  \/ EntryRemoved(p)

(* and the calls it may make. *)
Start(p) ==
  \/ \E k \in Keys : Hit(p, k) \/ Miss(p, k) \/ Remove(p, k)
  \/ \E k \in Keys, val \in Values : Put(p, k, val)
  \/ \E limit \in -1..MaxSize : CallTrim(p, limit)

Next == \E p \in Callers : Start(p) \/ Continue(p)

(* A thread inside a call runs on, and create() and entryRemoved return.   *)
Spec == Init /\ [][Next]_vars /\ \A p \in Callers : WF_vars(Continue(p))

-----------------------------------------------------------------------------
InHand == {p \in Callers : call[p].hand # NoValue}

(* Every cached key is either older or younger than every other. *)
TypeOK ==
  /\ cached \in [Keys -> Values \cup {NoValue}]
  /\ older \subseteq Cached \X Cached
  /\ size \in Int
  /\ call \in [Callers -> Calls]
  /\ fresh \subseteq Values

(* size is the number of entries: no interleaving of calls leads           *)
(* trimToSize to its IllegalStateException, nor loses count of an entry    *)
(* that two threads put or installed at once.                              *)
SizeAgrees == size = Cardinality(Cached)

(* A thread that has still to trim down to maxSize, or below. *)
Owing == {p \in Callers : call[p].at \in {"trimming", "releasing_trim"}}

(* The cache is over its bound by no more entries than threads are on      *)
(* their way to trim it; when none is, it is within the bound.             *)
Bounded == size <= MaxSize + Cardinality(Owing)

(* Each value is in one place: not in the cache's care, under one key, or  *)
(* in the hand of one thread.  So entryRemoved is called once for a value  *)
(* that went in, whichever of put, get, remove and trimToSize lost it, and *)
(* never for one that is still cached.                                     *)
Conserved ==
  /\ \A k \in Cached : cached[k] \notin fresh
  /\ \A j, k \in Cached : cached[j] = cached[k] => j = k
  /\ \A p \in InHand : call[p].hand \notin fresh
  /\ \A p, q \in InHand : call[p].hand = call[q].hand => p = q
  /\ \A p \in InHand, k \in Cached : call[p].hand # cached[k]
  /\ \A val \in Values :
       \/ val \in fresh
       \/ \E k \in Keys : cached[k] = val
       \/ \E p \in Callers : call[p].hand = val

(* The accesses order the cached keys, whatever the threads do in between: *)
(* there is always exactly one eldest entry for trimToSize to take.        *)
OneEldest ==
  Cached # {} => \E k \in Cached : \A j \in Keys : Eldest(j) <=> j = k

(* A cache over its bound comes back to it, even if no thread calls again. *)
Shrinks == size > MaxSize ~> size <= MaxSize
=============================================================================
