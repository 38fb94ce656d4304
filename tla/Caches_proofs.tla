---------------------------- MODULE Caches_proofs ----------------------------
(***************************************************************************)
(* The two structures that the threads of a Java program share: the        *)
(* LruCache of its beans, and the array of keys of Wson.Parser.            *)
(*                                                                         *)
(* What LruCache keeps for any sets of keys, values and threads and any    *)
(* maxSize: its types, one place for each value, a size that counts the    *)
(* entries, the bound, and an order of the entries.                        *)
(*                                                                         *)
(* What Wson.Parser returns, for any number of threads, any alphabet,      *)
(* texts, hash and sizes of buffers.  What a thread finds in the shared    *)
(* array is not constrained at all but for its type: the argument needs    *)
(* only what the thread's own buffer holds between the read of the         *)
(* characters and the end of the lookup.                                   *)
(***************************************************************************)
EXTENDS LruCache, KeyCache, FiniteSetTheorems, SequenceTheorems,
        WellFoundedInduction, TLAPS

(***************************************************************************)
(* LruCache                                                                *)
(***************************************************************************)
(* What a thread holds follows from where it is. *)
Phase(c) ==
  /\ c.hand # NoValue <=> c.at \in {"created", "releasing", "releasing_trim"}
  /\ c.at \in {"creating", "created"} => c.key \in Keys

TypeInv == TypeOK /\ \A p \in Callers : Phase(call[p])

-----------------------------------------------------------------------------
(* Where a thread may be: each place is typed and in phase. *)
LEMMA Limits == 0 \in -1..MaxSize /\ MaxSize \in -1..MaxSize
  BY CacheAssumption

LEMMA AtIdle ==
  /\ Idle \in Calls /\ Phase(Idle)
  /\ Idle.at = "idle" /\ Idle.hand = NoValue
  BY Limits DEF Idle, Calls, Phase

LEMMA AtCreating ==
  ASSUME NEW k \in Keys
  PROVE  /\ Creating(k) \in Calls /\ Phase(Creating(k))
         /\ Creating(k).at = "creating" /\ Creating(k).hand = NoValue
  BY Limits DEF Idle, Creating, Calls, Phase

LEMMA AtCreated ==
  ASSUME NEW k \in Keys, NEW val \in Values
  PROVE  /\ Created(k, val) \in Calls /\ Phase(Created(k, val))
         /\ Created(k, val).at = "created" /\ Created(k, val).hand = val
  BY Limits, CacheAssumption DEF Created, Calls, Phase

LEMMA AtTrimming ==
  ASSUME NEW limit \in -1..MaxSize
  PROVE  /\ Trimming(limit) \in Calls /\ Phase(Trimming(limit))
         /\ Trimming(limit).at = "trimming"
         /\ Trimming(limit).hand = NoValue
  BY Limits DEF Idle, Trimming, Calls, Phase

LEMMA AtReleasing ==
  ASSUME NEW val \in Values
  PROVE  /\ Releasing(val) \in Calls /\ Phase(Releasing(val))
         /\ Releasing(val).at = "releasing" /\ Releasing(val).hand = val
  BY Limits, CacheAssumption DEF Idle, Releasing, Calls, Phase

LEMMA AtReleasingThenTrimming ==
  ASSUME NEW val \in Values, NEW limit \in -1..MaxSize
  PROVE  /\ ReleasingThenTrimming(val, limit) \in Calls
         /\ Phase(ReleasingThenTrimming(val, limit))
         /\ ReleasingThenTrimming(val, limit).at = "releasing_trim"
         /\ ReleasingThenTrimming(val, limit).hand = val
  BY CacheAssumption
  DEF Idle, Trimming, ReleasingThenTrimming, Calls, Phase

(* A thread that moves leaves the types and the other threads alone. *)
LEMMA Moves ==
  ASSUME TypeInv, NEW p \in Callers, NEW where \in Calls, Phase(where),
         Goto(p, where)
  PROVE  /\ call' \in [Callers -> Calls]
         /\ call'[p] = where
         /\ \A q \in Callers : q # p => call'[q] = call[q]
         /\ \A q \in Callers : Phase(call'[q])
<1>1. call \in [Callers -> Calls]
  BY DEF TypeInv, TypeOK
<1>2. /\ call' \in [Callers -> Calls]
      /\ call'[p] = where
      /\ \A q \in Callers : q # p => call'[q] = call[q]
  BY <1>1 DEF Goto
<1>3. ASSUME NEW q \in Callers  PROVE Phase(call'[q])
  <2>1. CASE q = p
    BY <2>1, <1>2
  <2>2. CASE q # p
    BY <2>2, <1>2 DEF TypeInv
  <2> QED
    BY <2>1, <2>2
<1> QED
  BY <1>2, <1>3

(* The three things that happen to the entries: one comes in, is           *)
(* replaced, or goes.                                                      *)
LEMMA Enters ==
  ASSUME TypeInv, NEW k \in Keys, NEW val \in Values,
         cached' = [cached EXCEPT ![k] = val]
  PROVE  /\ cached' \in [Keys -> Values \cup {NoValue}]
         /\ cached'[k] = val
         /\ \A j \in Keys : j # k => cached'[j] = cached[j]
         /\ Cached' = Cached \cup {k}
<1>1. cached \in [Keys -> Values \cup {NoValue}] /\ val # NoValue
  BY CacheAssumption DEF TypeInv, TypeOK
<1> QED
  BY <1>1 DEF Cached

LEMMA Leaves ==
  ASSUME TypeInv, NEW k \in Keys, cached' = [cached EXCEPT ![k] = NoValue]
  PROVE  /\ cached' \in [Keys -> Values \cup {NoValue}]
         /\ \A j \in Keys : j # k => cached'[j] = cached[j]
         /\ Cached' = Cached \ {k}
<1>1. cached \in [Keys -> Values \cup {NoValue}]
  BY DEF TypeInv, TypeOK
<1> QED
  BY <1>1 DEF Cached

(* The order of the accesses stays one of cached keys. *)
LEMMA Accesses ==
  ASSUME TypeInv, NEW k \in Keys
  PROVE  /\ Forgotten(k) \subseteq (Cached \ {k}) \X (Cached \ {k})
         /\ Touched(k) \subseteq (Cached \cup {k}) \X (Cached \cup {k})
<1>1. older \subseteq Cached \X Cached
  BY DEF TypeInv, TypeOK
<1>2. Forgotten(k) \subseteq (Cached \ {k}) \X (Cached \ {k})
  BY <1>1 DEF Forgotten
<1> QED
  BY <1>2 DEF Touched

-----------------------------------------------------------------------------
LEMMA TypeInit == Init => TypeInv
  BY AtIdle DEF Init, TypeInv, TypeOK

(* What the type invariant says of a thread and of an entry. *)
LEMMA Typed ==
  ASSUME TypeInv
  PROVE  /\ \A q \in Callers : /\ call[q].limit \in -1..MaxSize
                              /\ call[q].key \in Keys \cup {NoKey}
                              /\ call[q].hand \in Values \cup {NoValue}
                              /\ Phase(call[q])
         /\ \A k \in Cached : k \in Keys /\ cached[k] \in Values
         /\ Cached \subseteq Keys
<1>1. call \in [Callers -> Calls] /\ cached \in [Keys -> Values \cup {NoValue}]
  BY DEF TypeInv, TypeOK
<1>2. \A q \in Callers : /\ call[q].limit \in -1..MaxSize
                        /\ call[q].key \in Keys \cup {NoKey}
                        /\ call[q].hand \in Values \cup {NoValue}
  BY <1>1 DEF Calls
<1> QED
  BY <1>1, <1>2 DEF TypeInv, Cached

(* A step that moves one thread to a typed place and leaves the entries    *)
(* and the size typed preserves the invariant.                             *)
LEMMA TypeMoves ==
  ASSUME TypeInv, NEW p \in Callers, NEW where \in Calls, Phase(where),
         Goto(p, where),
         cached' \in [Keys -> Values \cup {NoValue}],
         older' \subseteq Cached' \X Cached',
         size' \in Int,
         fresh' \subseteq Values
  PROVE  TypeInv'
  BY Moves DEF TypeInv, TypeOK

LEMMA TypeStep == TypeInv /\ [Next]_vars => TypeInv'
<1> SUFFICES ASSUME TypeInv, [Next]_vars PROVE TypeInv'
  OBVIOUS
<1>0. /\ cached \in [Keys -> Values \cup {NoValue}]
      /\ older \subseteq Cached \X Cached
      /\ size \in Int /\ size + 1 \in Int /\ size - 1 \in Int
      /\ fresh \subseteq Values
  BY DEF TypeInv, TypeOK
<1>s. ASSUME UNCHANGED cached, UNCHANGED older
      PROVE  /\ cached' \in [Keys -> Values \cup {NoValue}]
             /\ older' \subseteq Cached' \X Cached'
  BY <1>0, <1>s DEF Cached
<1>1. ASSUME NEW p \in Callers, NEW k \in Keys, Hit(p, k)  PROVE TypeInv'
  <2>1. Cached' = Cached /\ Cached \cup {k} = Cached
    BY <1>1 DEF Hit, Cached
  <2>2. older' \subseteq Cached' \X Cached'
    BY <1>1, <2>1, Accesses DEF Hit
  <2> QED
    BY <1>0, <1>1, <2>2 DEF Hit, TypeOK, TypeInv
<1>2. ASSUME NEW p \in Callers, NEW k \in Keys, Miss(p, k)  PROVE TypeInv'
  BY <1>0, <1>2, <1>s, AtCreating, TypeMoves DEF Miss
<1>3. ASSUME NEW p \in Callers, CreateNothing(p)  PROVE TypeInv'
  BY <1>0, <1>3, <1>s, AtIdle, TypeMoves DEF CreateNothing
<1>4. ASSUME NEW p \in Callers, NEW val \in Values, Create(p, val)
      PROVE  TypeInv'
  <2>1. call[p].key \in Keys
    BY <1>4, Typed DEF Create, Phase
  <2>2. fresh' \subseteq Values
    BY <1>0, <1>4 DEF Create
  <2> QED
    BY <1>0, <1>4, <1>s, <2>1, <2>2, AtCreated, TypeMoves DEF Create
<1>5. ASSUME NEW p \in Callers, Install(p)  PROVE TypeInv'
  <2> DEFINE k == call[p].key
  <2>1. k \in Keys /\ call[p].hand \in Values
    BY <1>5, Typed DEF Install, Phase
  <2>2. older' = Touched(k) /\ fresh' = fresh
    BY <1>5 DEF Install
  <2> HIDE DEF k
  <2>3. CASE k \in Cached
    <3>1. Cached' = Cached /\ Cached \cup {k} = Cached
      BY <1>5, <2>3 DEF Install, Cached, k
    <3>2. older' \subseteq Cached' \X Cached'
      BY <2>1, <2>2, <3>1, Accesses
    <3> QED
      BY <1>0, <1>5, <2>1, <2>2, <2>3, <3>2, AtReleasing, TypeMoves
      DEF Install, k
  <2>4. CASE k \notin Cached
    <3>1. cached' = [cached EXCEPT ![k] = call[p].hand] /\ size' = size + 1
      BY <1>5, <2>4 DEF Install, k
    <3>2. older' \subseteq Cached' \X Cached'
      BY <2>1, <2>2, <3>1, Accesses, Enters
    <3>3. cached' \in [Keys -> Values \cup {NoValue}]
      BY <2>1, <3>1, Enters
    <3>4. Goto(p, Trimming(MaxSize))
      BY <1>5, <2>4 DEF Install, k
    <3> QED
      BY <1>0, <2>2, <3>1, <3>2, <3>3, <3>4, Limits, AtTrimming, TypeMoves
  <2> QED
    BY <2>3, <2>4
<1>6. ASSUME NEW p \in Callers, NEW k \in Keys, NEW val \in Values,
             Put(p, k, val)
      PROVE  TypeInv'
  <2>1. /\ cached' \in [Keys -> Values \cup {NoValue}]
        /\ Cached' = Cached \cup {k}
    BY <1>6, Enters DEF Put
  <2>2. older' \subseteq Cached' \X Cached'
    BY <1>6, <2>1, Accesses DEF Put
  <2>3. fresh' \subseteq Values /\ size' \in Int
    BY <1>0, <1>6 DEF Put
  <2>4. CASE k \in Cached
    <3>1. Goto(p, ReleasingThenTrimming(cached[k], MaxSize))
      BY <1>6, <2>4 DEF Put
    <3> QED
      BY <2>1, <2>2, <2>3, <2>4, <3>1, Typed, Limits,
         AtReleasingThenTrimming, TypeMoves
  <2>5. CASE k \notin Cached
    <3>1. Goto(p, Trimming(MaxSize))
      BY <1>6, <2>5 DEF Put
    <3> QED
      BY <2>1, <2>2, <2>3, <3>1, Limits, AtTrimming, TypeMoves
  <2> QED
    BY <2>4, <2>5
<1>7. ASSUME NEW p \in Callers, NEW k \in Keys, Remove(p, k)  PROVE TypeInv'
  <2>1. /\ cached' \in [Keys -> Values \cup {NoValue}]
        /\ Cached' = Cached \ {k}
    BY <1>7, Leaves DEF Remove
  <2>2. older' \subseteq Cached' \X Cached'
    BY <1>7, <2>1, Accesses DEF Remove
  <2> QED
    BY <1>0, <1>7, <2>1, <2>2, Typed, AtReleasing, TypeMoves DEF Remove
<1>8. ASSUME NEW p \in Callers, NEW limit \in -1..MaxSize, CallTrim(p, limit)
      PROVE  TypeInv'
  BY <1>0, <1>8, <1>s, AtTrimming, TypeMoves DEF CallTrim
<1>9. ASSUME NEW p \in Callers, NEW k \in Keys, Evict(p, k)  PROVE TypeInv'
  <2>1. /\ cached' \in [Keys -> Values \cup {NoValue}]
        /\ Cached' = Cached \ {k}
    BY <1>9, Leaves DEF Evict
  <2>2. older' \subseteq Cached' \X Cached'
    BY <1>9, <2>1, Accesses DEF Evict
  <2>3. k \in Cached
    BY <1>9 DEF Evict, Eldest
  <2> QED
    BY <1>0, <1>9, <2>1, <2>2, <2>3, Typed, AtReleasingThenTrimming, TypeMoves
    DEF Evict
<1>10. ASSUME NEW p \in Callers, Stop(p)  PROVE TypeInv'
  BY <1>0, <1>10, <1>s, AtIdle, TypeMoves DEF Stop
<1>11. ASSUME NEW p \in Callers, EntryRemoved(p)  PROVE TypeInv'
  <2>1. call[p].hand \in Values
    BY <1>11, Typed DEF EntryRemoved, Phase
  <2>2. fresh' \subseteq Values
    BY <1>0, <1>11, <2>1 DEF EntryRemoved
  <2>3. CASE call[p].at = "releasing"
    <3>1. Goto(p, Idle)
      BY <1>11, <2>3 DEF EntryRemoved
    <3> QED
      BY <1>0, <1>11, <1>s, <2>2, <3>1, AtIdle, TypeMoves DEF EntryRemoved
  <2>4. CASE call[p].at # "releasing"
    <3>1. Goto(p, Trimming(call[p].limit))
      BY <1>11, <2>4 DEF EntryRemoved
    <3> QED
      BY <1>0, <1>11, <1>s, <2>2, <3>1, Typed, AtTrimming, TypeMoves
      DEF EntryRemoved
  <2> QED
    BY <2>3, <2>4
<1>12. CASE UNCHANGED vars
  BY <1>12 DEF vars, TypeInv, TypeOK, Cached, Phase
<1> QED
  BY <1>1, <1>2, <1>3, <1>4, <1>5, <1>6, <1>7, <1>8, <1>9, <1>10, <1>11,
     <1>12 DEF Next, Start, Continue

(* TypeOK, and with it that a thread is only ever in a place of its call   *)
(* it can be in.                                                           *)
THEOREM TypeCorrect == Spec => []TypeOK
<1>1. Spec => []TypeInv
  BY TypeInit, TypeStep, PTL DEF Spec
<1>2. TypeInv => TypeOK
  BY DEF TypeInv
<1> QED
  BY <1>1, <1>2, PTL

-----------------------------------------------------------------------------
(* Values.                                                                 *)

LEMMA ConservedInit == Init => Conserved
  BY AtIdle DEF Init, Conserved, InHand, Cached

(* A value goes from its place to another one.  Nothing moves, *)
LEMMA Rests ==
  ASSUME Conserved, UNCHANGED cached, UNCHANGED fresh,
         \A q \in Callers : call'[q].hand = call[q].hand
  PROVE  Conserved'
  BY DEF Conserved, InHand, Cached

(* or a fresh value comes into a hand, *)
LEMMA Taken ==
  ASSUME TypeInv, Conserved, NEW p \in Callers, NEW val \in fresh,
         call[p].hand = NoValue, call'[p].hand = val,
         \A q \in Callers : q # p => call'[q].hand = call[q].hand,
         UNCHANGED cached, fresh' = fresh \ {val}
  PROVE  Conserved'
<1>1. val \in Values /\ val # NoValue
  BY CacheAssumption DEF TypeInv, TypeOK
<1>2. /\ Cached' = Cached /\ InHand' = InHand \cup {p} /\ p \notin InHand
      /\ Cached \subseteq Keys /\ InHand \subseteq Callers
  BY <1>1 DEF InHand, Cached
<1>3. \A j \in Cached' : cached'[j] \notin fresh'
  BY <1>1, <1>2 DEF Conserved, InHand
<1>4. \A i, j \in Cached' : cached'[i] = cached'[j] => i = j
  BY <1>1, <1>2 DEF Conserved, InHand
<1>5. \A q \in InHand' : call'[q].hand \notin fresh'
  BY <1>1, <1>2 DEF Conserved, InHand
<1>6. \A q, r \in InHand' : call'[q].hand = call'[r].hand => q = r
  BY <1>1, <1>2 DEF Conserved, InHand
<1>7. \A q \in InHand', j \in Cached' : call'[q].hand # cached'[j]
  BY <1>1, <1>2 DEF Conserved, InHand
<1>8. ASSUME NEW v \in Values
      PROVE  \/ v \in fresh'
             \/ \E j \in Keys : cached'[j] = v
             \/ \E q \in Callers : call'[q].hand = v
  <2>1. CASE v = val
    BY <2>1
  <2>2. CASE v \in fresh \ {val}
    BY <2>2
  <2>3. CASE \E j \in Keys : cached[j] = v
    BY <2>3
  <2>4. CASE \E q \in Callers : call[q].hand = v /\ v # NoValue
    BY <2>4
  <2>5. v # NoValue
    BY CacheAssumption
  <2> QED
    BY <2>1, <2>2, <2>3, <2>4, <2>5 DEF Conserved
<1> QED
  BY <1>3, <1>4, <1>5, <1>6, <1>7, <1>8 DEF Conserved

(* a hand lets its value go, *)
LEMMA LetGo ==
  ASSUME Conserved, NEW p \in Callers,
         call[p].hand # NoValue, call'[p].hand = NoValue,
         \A q \in Callers : q # p => call'[q].hand = call[q].hand,
         UNCHANGED cached, fresh' = fresh \cup {call[p].hand}
  PROVE  Conserved'
  BY DEF Conserved, InHand, Cached

(* a value in a hand becomes an entry, *)
LEMMA Installed ==
  ASSUME TypeInv, Conserved, NEW p \in Callers, NEW k \in Keys,
         k \notin Cached, call[p].hand \in Values,
         cached' = [cached EXCEPT ![k] = call[p].hand],
         call'[p].hand = NoValue,
         \A q \in Callers : q # p => call'[q].hand = call[q].hand,
         UNCHANGED fresh
  PROVE  Conserved'
<1>1. /\ cached'[k] = call[p].hand
      /\ \A j \in Keys : j # k => cached'[j] = cached[j]
      /\ Cached' = Cached \cup {k}
  BY Enters
<1>2. call[p].hand # NoValue /\ Cached \subseteq Keys /\ cached[k] = NoValue
  BY CacheAssumption DEF Cached
<1> QED
  BY <1>1, <1>2 DEF Conserved, InHand

(* a fresh value becomes one, *)
LEMMA PutNew ==
  ASSUME TypeInv, Conserved, NEW p \in Callers, NEW k \in Keys,
         NEW val \in fresh, k \notin Cached,
         cached' = [cached EXCEPT ![k] = val],
         \A q \in Callers : call'[q].hand = call[q].hand,
         fresh' = fresh \ {val}
  PROVE  Conserved'
<1>0. val \in Values /\ val # NoValue
  BY CacheAssumption DEF TypeInv, TypeOK
<1>1. /\ cached'[k] = val
      /\ \A j \in Keys : j # k => cached'[j] = cached[j]
      /\ Cached' = Cached \cup {k}
  BY <1>0, Enters
<1>2. Cached \subseteq Keys /\ cached[k] = NoValue
  BY DEF Cached
<1>9. InHand' = InHand /\ InHand \subseteq Callers
  BY DEF InHand
<1>3. \A j \in Cached' : cached'[j] \notin fresh'
  BY <1>0, <1>1, <1>2, <1>9 DEF Conserved, InHand
<1>4. \A i, j \in Cached' : cached'[i] = cached'[j] => i = j
  BY <1>0, <1>1, <1>2, <1>9 DEF Conserved, InHand
<1>5. \A q \in InHand' : call'[q].hand \notin fresh'
  BY <1>0, <1>1, <1>2, <1>9 DEF Conserved, InHand
<1>6. \A q, r \in InHand' : call'[q].hand = call'[r].hand => q = r
  BY <1>0, <1>1, <1>2, <1>9 DEF Conserved, InHand
<1>7. \A q \in InHand', j \in Cached' : call'[q].hand # cached'[j]
  BY <1>0, <1>1, <1>2, <1>9 DEF Conserved, InHand
<1>8. ASSUME NEW v \in Values
      PROVE  \/ v \in fresh'
             \/ \E j \in Keys : cached'[j] = v
             \/ \E q \in Callers : call'[q].hand = v
  <2>1. CASE v = val
    BY <2>1, <1>1
  <2>2. CASE v \in fresh \ {val}
    BY <2>2
  <2>3. CASE \E j \in Keys : cached[j] = v
    BY <2>3, <1>1, <1>2, CacheAssumption
  <2>4. CASE \E q \in Callers : call[q].hand = v
    BY <2>4
  <2> QED
    BY <2>1, <2>2, <2>3, <2>4 DEF Conserved
<1> QED
  BY <1>3, <1>4, <1>5, <1>6, <1>7, <1>8 DEF Conserved

(* a fresh value becomes one and the value it replaces goes to a hand, *)
LEMMA PutOver ==
  ASSUME TypeInv, Conserved, NEW p \in Callers, NEW k \in Cached,
         NEW val \in fresh,
         call[p].hand = NoValue, call'[p].hand = cached[k],
         cached' = [cached EXCEPT ![k] = val],
         \A q \in Callers : q # p => call'[q].hand = call[q].hand,
         fresh' = fresh \ {val}
  PROVE  Conserved'
<1>0. val \in Values /\ val # NoValue
  BY CacheAssumption DEF TypeInv, TypeOK
<1>2. k \in Keys /\ Cached \subseteq Keys /\ cached[k] # NoValue
  BY DEF Cached
<1>1. /\ cached'[k] = val
      /\ \A j \in Keys : j # k => cached'[j] = cached[j]
      /\ Cached' = Cached
  <2>1. /\ cached'[k] = val
        /\ \A j \in Keys : j # k => cached'[j] = cached[j]
        /\ Cached' = Cached \cup {k}
    BY <1>0, <1>2, Enters
  <2> QED
    BY <2>1
<1>9. /\ InHand' = InHand \cup {p} /\ p \notin InHand
      /\ InHand \subseteq Callers /\ cached[k] \notin fresh
  BY <1>2 DEF InHand, Conserved
<1>3. \A j \in Cached' : cached'[j] \notin fresh'
  BY <1>0, <1>1, <1>2, <1>9 DEF Conserved, InHand
<1>4. \A i, j \in Cached' : cached'[i] = cached'[j] => i = j
  BY <1>0, <1>1, <1>2, <1>9 DEF Conserved, InHand
<1>5. \A q \in InHand' : call'[q].hand \notin fresh'
  BY <1>0, <1>1, <1>2, <1>9 DEF Conserved, InHand
<1>6. \A q, r \in InHand' : call'[q].hand = call'[r].hand => q = r
  BY <1>0, <1>1, <1>2, <1>9 DEF Conserved, InHand
<1>7. \A q \in InHand', j \in Cached' : call'[q].hand # cached'[j]
  BY <1>0, <1>1, <1>2, <1>9 DEF Conserved, InHand
<1>8. ASSUME NEW v \in Values
      PROVE  \/ v \in fresh'
             \/ \E j \in Keys : cached'[j] = v
             \/ \E q \in Callers : call'[q].hand = v
  <2>1. CASE v = val
    BY <2>1, <1>1, <1>2
  <2>2. CASE v \in fresh \ {val}
    BY <2>2
  <2>3. CASE \E j \in Keys : cached[j] = v
    BY <2>3, <1>1, <1>2
  <2>4. CASE \E q \in Callers : call[q].hand = v /\ v # NoValue
    BY <2>4
  <2>5. v # NoValue
    BY CacheAssumption
  <2> QED
    BY <2>1, <2>2, <2>3, <2>4, <2>5 DEF Conserved
<1> QED
  BY <1>3, <1>4, <1>5, <1>6, <1>7, <1>8 DEF Conserved

(* or an entry goes and its value is in a hand. *)
LEMMA TakenOut ==
  ASSUME TypeInv, Conserved, NEW p \in Callers, NEW k \in Cached,
         call[p].hand = NoValue, call'[p].hand = cached[k],
         cached' = [cached EXCEPT ![k] = NoValue],
         \A q \in Callers : q # p => call'[q].hand = call[q].hand,
         UNCHANGED fresh
  PROVE  Conserved'
<1>2. k \in Keys /\ Cached \subseteq Keys /\ cached[k] # NoValue
  BY DEF Cached
<1>1. /\ \A j \in Keys : j # k => cached'[j] = cached[j]
      /\ Cached' = Cached \ {k}
  BY <1>2, Leaves
<1>9. /\ InHand' = InHand \cup {p} /\ p \notin InHand
      /\ InHand \subseteq Callers /\ cached[k] \notin fresh
  BY <1>2 DEF InHand, Conserved
<1>3. \A j \in Cached' : cached'[j] \notin fresh'
  BY <1>1, <1>2, <1>9 DEF Conserved, InHand
<1>4. \A i, j \in Cached' : cached'[i] = cached'[j] => i = j
  BY <1>1, <1>2, <1>9 DEF Conserved, InHand
<1>5. \A q \in InHand' : call'[q].hand \notin fresh'
  BY <1>1, <1>2, <1>9 DEF Conserved, InHand
<1>6. \A q, r \in InHand' : call'[q].hand = call'[r].hand => q = r
  BY <1>1, <1>2, <1>9 DEF Conserved, InHand
<1>7. \A q \in InHand', j \in Cached' : call'[q].hand # cached'[j]
  BY <1>1, <1>2, <1>9 DEF Conserved, InHand
<1>8. ASSUME NEW v \in Values
      PROVE  \/ v \in fresh'
             \/ \E j \in Keys : cached'[j] = v
             \/ \E q \in Callers : call'[q].hand = v
  <2>2. CASE v \in fresh
    BY <2>2
  <2>3. CASE \E j \in Keys : cached[j] = v
    BY <2>3, <1>1, <1>2
  <2>4. CASE \E q \in Callers : call[q].hand = v /\ v # NoValue
    BY <2>4
  <2>5. v # NoValue
    BY CacheAssumption
  <2> QED
    BY <2>2, <2>3, <2>4, <2>5 DEF Conserved
<1> QED
  BY <1>3, <1>4, <1>5, <1>6, <1>7, <1>8 DEF Conserved

LEMMA ConservedStep == TypeInv /\ Conserved /\ [Next]_vars => Conserved'
<1> SUFFICES ASSUME TypeInv, Conserved, [Next]_vars PROVE Conserved'
  OBVIOUS
<1>0. \A q \in Callers : Phase(call[q]) /\ call[q].hand \in Values \cup {NoValue}
  BY Typed
<1>1. ASSUME NEW p \in Callers, NEW k \in Keys, Hit(p, k)  PROVE Conserved'
  BY <1>1, Rests DEF Hit
<1>2. ASSUME NEW p \in Callers, NEW k \in Keys, Miss(p, k)  PROVE Conserved'
  <2>1. call[p].hand = NoValue
    BY <1>0, <1>2 DEF Miss, Phase
  <2> QED
    BY <1>2, <2>1, AtCreating, Moves, Rests DEF Miss
<1>3. ASSUME NEW p \in Callers, CreateNothing(p)  PROVE Conserved'
  <2>1. call[p].hand = NoValue
    BY <1>0, <1>3 DEF CreateNothing, Phase
  <2> QED
    BY <1>3, <2>1, AtIdle, Moves, Rests DEF CreateNothing
<1>4. ASSUME NEW p \in Callers, NEW val \in Values, Create(p, val)
      PROVE  Conserved'
  <2>1. call[p].hand = NoValue /\ call[p].key \in Keys
    BY <1>0, <1>4 DEF Create, Phase
  <2> QED
    BY <1>4, <2>1, AtCreated, Moves, Taken DEF Create
<1>5. ASSUME NEW p \in Callers, Install(p)  PROVE Conserved'
  <2> DEFINE k == call[p].key
  <2>1. k \in Keys /\ call[p].hand \in Values
    BY <1>0, <1>5 DEF Install, Phase
  <2>2. fresh' = fresh
    BY <1>5 DEF Install
  <2> HIDE DEF k
  <2>3. CASE k \in Cached
    BY <1>5, <2>1, <2>3, AtReleasing, Moves, Rests DEF Install, k
  <2>4. CASE k \notin Cached
    <3>1. cached' = [cached EXCEPT ![k] = call[p].hand]
      BY <1>5, <2>4 DEF Install, k
    <3>2. Goto(p, Trimming(MaxSize))
      BY <1>5, <2>4 DEF Install, k
    <3> QED
      BY <2>1, <2>2, <2>4, <3>1, <3>2, Limits, AtTrimming, Moves, Installed
  <2> QED
    BY <2>3, <2>4
<1>6. ASSUME NEW p \in Callers, NEW k \in Keys, NEW val \in Values,
             Put(p, k, val)
      PROVE  Conserved'
  <2>1. call[p].hand = NoValue
    BY <1>0, <1>6 DEF Put, Phase
  <2>2. /\ val \in fresh /\ fresh' = fresh \ {val}
        /\ cached' = [cached EXCEPT ![k] = val]
    BY <1>6 DEF Put
  <2>3. CASE k \in Cached
    <3>1. Goto(p, ReleasingThenTrimming(cached[k], MaxSize))
      BY <1>6, <2>3 DEF Put
    <3>2. /\ call'[p].hand = cached[k]
          /\ \A q \in Callers : q # p => call'[q].hand = call[q].hand
      BY <2>3, <3>1, Typed, Limits, AtReleasingThenTrimming, Moves
    <3> QED
      BY <2>1, <2>2, <2>3, <3>2, PutOver
  <2>4. CASE k \notin Cached
    <3>1. Goto(p, Trimming(MaxSize))
      BY <1>6, <2>4 DEF Put
    <3> QED
      BY <2>1, <2>2, <2>4, <3>1, Limits, AtTrimming, Moves, PutNew
  <2> QED
    BY <2>3, <2>4
<1>7. ASSUME NEW p \in Callers, NEW k \in Keys, Remove(p, k)  PROVE Conserved'
  <2>1. call[p].hand = NoValue
    BY <1>0, <1>7 DEF Remove, Phase
  <2>2. /\ call'[p].hand = cached[k]
        /\ \A q \in Callers : q # p => call'[q].hand = call[q].hand
    BY <1>7, Typed, AtReleasing, Moves DEF Remove
  <2> QED
    BY <1>7, <2>1, <2>2, TakenOut DEF Remove
<1>8. ASSUME NEW p \in Callers, NEW limit \in -1..MaxSize, CallTrim(p, limit)
      PROVE  Conserved'
  <2>1. call[p].hand = NoValue
    BY <1>0, <1>8 DEF CallTrim, Phase
  <2> QED
    BY <1>8, <2>1, AtTrimming, Moves, Rests DEF CallTrim
<1>9. ASSUME NEW p \in Callers, NEW k \in Keys, Evict(p, k)  PROVE Conserved'
  <2>1. call[p].hand = NoValue
    BY <1>0, <1>9 DEF Evict, Phase
  <2>2. k \in Cached
    BY <1>9 DEF Evict, Eldest
  <2>3. /\ call'[p].hand = cached[k]
        /\ \A q \in Callers : q # p => call'[q].hand = call[q].hand
    BY <1>9, <2>2, Typed, AtReleasingThenTrimming, Moves DEF Evict
  <2> QED
    BY <1>9, <2>1, <2>2, <2>3, TakenOut DEF Evict
<1>10. ASSUME NEW p \in Callers, Stop(p)  PROVE Conserved'
  <2>1. call[p].hand = NoValue
    BY <1>0, <1>10 DEF Stop, Phase
  <2> QED
    BY <1>10, <2>1, AtIdle, Moves, Rests DEF Stop
<1>11. ASSUME NEW p \in Callers, EntryRemoved(p)  PROVE Conserved'
  <2>1. call[p].hand # NoValue
    BY <1>0, <1>11 DEF EntryRemoved, Phase
  <2>2. /\ call'[p].hand = NoValue
        /\ \A q \in Callers : q # p => call'[q].hand = call[q].hand
    <3>1. CASE Goto(p, Idle)
      BY <3>1, AtIdle, Moves
    <3>2. CASE Goto(p, Trimming(call[p].limit))
      BY <3>2, Typed, AtTrimming, Moves
    <3> QED
      BY <1>11, <3>1, <3>2 DEF EntryRemoved
  <2> QED
    BY <1>11, <2>1, <2>2, LetGo DEF EntryRemoved
<1>12. CASE UNCHANGED vars
  BY <1>12, Rests DEF vars
<1> QED
  BY <1>1, <1>2, <1>3, <1>4, <1>5, <1>6, <1>7, <1>8, <1>9, <1>10, <1>11,
     <1>12 DEF Next, Start, Continue

(* Conserved: no interleaving of get, put, remove and trimToSize loses a   *)
(* value, has it released twice, or releases one that is still cached.     *)
THEOREM ValuesConserved == Spec => []Conserved
<1>1. Init => TypeInv /\ Conserved
  BY TypeInit, ConservedInit
<1>2. TypeInv /\ Conserved /\ [Next]_vars => (TypeInv /\ Conserved)'
  BY TypeStep, ConservedStep
<1> QED
  BY <1>1, <1>2, PTL DEF Spec

-----------------------------------------------------------------------------
(* Numbers.                                                                *)

(* Bounded alone is not inductive: what trimToSize leaves depends on size  *)
(* being the number of entries.                                            *)
CountInv ==
  /\ IsFiniteSet(Cached) /\ SizeAgrees
  /\ IsFiniteSet(Owing) /\ Bounded

LEMMA CountInit == Init => CountInv
<1> SUFFICES ASSUME Init PROVE CountInv
  OBVIOUS
<1>1. Cached = {} /\ Owing = {}
  BY AtIdle DEF Init, Cached, Owing
<1>2. size = 0 /\ MaxSize \in Nat
  BY CacheAssumption DEF Init
<1> QED
  BY <1>1, <1>2, FS_EmptySet DEF CountInv, SizeAgrees, Bounded

(* An entry comes, or goes, and is counted. *)
LEMMA Counted ==
  ASSUME CountInv, NEW k,
         \/ UNCHANGED size /\ Cached' = Cached
         \/ k \notin Cached /\ Cached' = Cached \cup {k} /\ size' = size + 1
         \/ k \in Cached /\ Cached' = Cached \ {k} /\ size' = size - 1
  PROVE  IsFiniteSet(Cached)' /\ SizeAgrees'
<1>1. IsFiniteSet(Cached) /\ size = Cardinality(Cached)
  BY DEF CountInv, SizeAgrees
<1>2. CASE UNCHANGED size /\ Cached' = Cached
  BY <1>1, <1>2 DEF SizeAgrees
<1>3. CASE k \notin Cached /\ Cached' = Cached \cup {k} /\ size' = size + 1
  BY <1>1, <1>3, FS_AddElement DEF SizeAgrees
<1>4. CASE k \in Cached /\ Cached' = Cached \ {k} /\ size' = size - 1
  BY <1>1, <1>4, FS_RemoveElement DEF SizeAgrees
<1> QED
  BY <1>2, <1>3, <1>4

(* A thread stays as it was, or comes to owe a trim, and the cache may     *)
(* have grown by its entry.                                                *)
LEMMA Owed ==
  ASSUME CountInv, NEW p, size \in Int, size' \in Int,
         \/ Owing' = Owing /\ size' <= size
         \/ p \notin Owing /\ Owing' = Owing \cup {p} /\ size' <= size + 1
  PROVE  IsFiniteSet(Owing)' /\ Bounded'
<1>1. /\ IsFiniteSet(Owing) /\ size <= MaxSize + Cardinality(Owing)
      /\ MaxSize \in Nat /\ Cardinality(Owing) \in Nat
  BY CacheAssumption, FS_CardinalityType DEF CountInv, Bounded
<1>2. CASE Owing' = Owing /\ size' <= size
  BY <1>1, <1>2 DEF Bounded
<1>3. CASE p \notin Owing /\ Owing' = Owing \cup {p} /\ size' <= size + 1
  <2>1. /\ IsFiniteSet(Owing')
        /\ Cardinality(Owing') = Cardinality(Owing) + 1
    BY <1>1, <1>3, FS_AddElement
  <2> QED
    BY <1>1, <1>3, <2>1 DEF Bounded
<1> QED
  BY <1>2, <1>3

(* Whether the thread that moves owes a trim. *)
LEMMA Owes ==
  ASSUME TypeInv, NEW p \in Callers, NEW where \in Calls, Phase(where),
         Goto(p, where)
  PROVE  /\ p \in Owing <=> call[p].at \in {"trimming", "releasing_trim"}
         /\ where.at \in {"trimming", "releasing_trim"} =>
              Owing' = Owing \cup {p}
         /\ where.at \notin {"trimming", "releasing_trim"} =>
              Owing' = Owing \ {p}
  BY Moves DEF Owing

LEMMA CountStep == TypeInv /\ CountInv /\ [Next]_vars => CountInv'
<1> SUFFICES ASSUME TypeInv, CountInv, [Next]_vars PROVE CountInv'
  OBVIOUS
<1>0. size \in Int /\ size' \in Int /\ size <= size /\ size - 1 <= size
      /\ size <= size + 1 /\ size + 1 <= size + 1
  BY TypeStep DEF TypeInv, TypeOK
<1>a. UNCHANGED cached => Cached' = Cached
  BY DEF Cached
<1>b. UNCHANGED call => Owing' = Owing
  BY DEF Owing
<1>1. ASSUME NEW p \in Callers, NEW k \in Keys, Hit(p, k)  PROVE CountInv'
  BY <1>0, <1>1, <1>a, <1>b, Counted, Owed DEF Hit, CountInv
<1>2. ASSUME NEW p \in Callers, NEW k \in Keys, Miss(p, k)  PROVE CountInv'
  <2>1. Owing' = Owing
    BY <1>2, AtCreating, Owes DEF Miss
  <2> QED
    BY <1>0, <1>2, <1>a, <2>1, Counted, Owed DEF Miss, CountInv
<1>3. ASSUME NEW p \in Callers, CreateNothing(p)  PROVE CountInv'
  <2>1. Owing' = Owing
    BY <1>3, AtIdle, Owes DEF CreateNothing
  <2> QED
    BY <1>0, <1>3, <1>a, <2>1, Counted, Owed DEF CreateNothing, CountInv
<1>4. ASSUME NEW p \in Callers, NEW val \in Values, Create(p, val)
      PROVE  CountInv'
  <2>1. call[p].key \in Keys
    BY <1>4, Typed DEF Create, Phase
  <2>2. Owing' = Owing
    BY <1>4, <2>1, AtCreated, Owes DEF Create
  <2> QED
    BY <1>0, <1>4, <1>a, <2>2, Counted, Owed DEF Create, CountInv
<1>5. ASSUME NEW p \in Callers, Install(p)  PROVE CountInv'
  <2> DEFINE k == call[p].key
  <2>1. k \in Keys /\ call[p].hand \in Values
    BY <1>5, Typed DEF Install, Phase
  <2>2. call[p].at = "created"
    BY <1>5 DEF Install
  <2> HIDE DEF k
  <2>3. CASE k \in Cached
    <3>1. Goto(p, Releasing(call[p].hand)) /\ UNCHANGED <<cached, size>>
      BY <1>5, <2>3 DEF Install, k
    <3>2. Owing' = Owing
      BY <2>1, <2>2, <3>1, AtReleasing, Owes
    <3> QED
      BY <1>0, <1>a, <3>1, <3>2, Counted, Owed DEF CountInv
  <2>4. CASE k \notin Cached
    <3>1. /\ cached' = [cached EXCEPT ![k] = call[p].hand] /\ size' = size + 1
          /\ Goto(p, Trimming(MaxSize))
      BY <1>5, <2>4 DEF Install, k
    <3>2. Cached' = Cached \cup {k}
      BY <2>1, <3>1, Enters
    <3>3. p \notin Owing /\ Owing' = Owing \cup {p}
      BY <2>2, <3>1, Limits, AtTrimming, Owes
    <3>4. IsFiniteSet(Cached)' /\ SizeAgrees'
      BY <2>4, <3>1, <3>2, Counted
    <3>5. IsFiniteSet(Owing)' /\ Bounded'
      BY <1>0, <3>1, <3>3, Owed
    <3> QED
      BY <3>4, <3>5 DEF CountInv
  <2> QED
    BY <2>3, <2>4
<1>6. ASSUME NEW p \in Callers, NEW k \in Keys, NEW val \in Values,
             Put(p, k, val)
      PROVE  CountInv'
  <2>1. /\ call[p].at = "idle"
        /\ Cached' = Cached \cup {k}
        /\ size' = IF k \in Cached THEN size ELSE size + 1
    BY <1>6, Enters DEF Put
  <2>2. p \notin Owing /\ Owing' = Owing \cup {p}
    <3>1. CASE k \in Cached
      <4>1. Goto(p, ReleasingThenTrimming(cached[k], MaxSize))
        BY <1>6, <3>1 DEF Put
      <4> QED
        BY <2>1, <3>1, <4>1, Typed, Limits, AtReleasingThenTrimming, Owes
    <3>2. CASE k \notin Cached
      <4>1. Goto(p, Trimming(MaxSize))
        BY <1>6, <3>2 DEF Put
      <4> QED
        BY <2>1, <4>1, Limits, AtTrimming, Owes
    <3> QED
      BY <3>1, <3>2
  <2>3. IsFiniteSet(Owing)' /\ Bounded'
    BY <1>0, <2>1, <2>2, Owed
  <2>4. IsFiniteSet(Cached)' /\ SizeAgrees'
    <3>1. CASE k \in Cached
      <4>1. Cached' = Cached /\ UNCHANGED size
        BY <2>1, <3>1
      <4> QED
        BY <4>1, Counted
    <3>2. CASE k \notin Cached
      BY <2>1, <3>2, Counted
    <3> QED
      BY <3>1, <3>2
  <2> QED
    BY <2>3, <2>4 DEF CountInv
<1>7. ASSUME NEW p \in Callers, NEW k \in Keys, Remove(p, k)  PROVE CountInv'
  <2>1. /\ k \in Cached /\ Cached' = Cached \ {k} /\ size' = size - 1
        /\ call[p].at = "idle" /\ Goto(p, Releasing(cached[k]))
    BY <1>7, Leaves DEF Remove
  <2>2. Owing' = Owing
    <3>1. cached[k] \in Values
      BY <2>1, Typed
    <3>2. /\ Releasing(cached[k]) \in Calls /\ Phase(Releasing(cached[k]))
          /\ Releasing(cached[k]).at = "releasing"
      BY <3>1, AtReleasing
    <3>3. p \notin Owing /\ Owing' = Owing \ {p}
      BY <2>1, <3>2, Owes
    <3> QED
      BY <3>3
  <2>3. IsFiniteSet(Cached)' /\ SizeAgrees'
    BY <2>1, Counted
  <2>4. IsFiniteSet(Owing)' /\ Bounded'
    BY <1>0, <2>1, <2>2, Owed
  <2> QED
    BY <2>3, <2>4 DEF CountInv
<1>8. ASSUME NEW p \in Callers, NEW limit \in -1..MaxSize, CallTrim(p, limit)
      PROVE  CountInv'
  <2>1. p \notin Owing /\ Owing' = Owing \cup {p}
    BY <1>8, AtTrimming, Owes DEF CallTrim
  <2> QED
    BY <1>0, <1>8, <1>a, <2>1, Counted, Owed DEF CallTrim, CountInv
<1>9. ASSUME NEW p \in Callers, NEW k \in Keys, Evict(p, k)  PROVE CountInv'
  <2>1. /\ k \in Cached /\ Cached' = Cached \ {k} /\ size' = size - 1
        /\ call[p].at = "trimming"
        /\ Goto(p, ReleasingThenTrimming(cached[k], call[p].limit))
    BY <1>9, Leaves DEF Evict, Eldest
  <2>2. Owing' = Owing
    <3>1. p \in Owing /\ Owing' = Owing \cup {p}
      BY <2>1, Typed, AtReleasingThenTrimming, Owes
    <3> QED
      BY <3>1
  <2>3. IsFiniteSet(Cached)' /\ SizeAgrees'
    BY <2>1, Counted
  <2>4. IsFiniteSet(Owing)' /\ Bounded'
    BY <1>0, <2>1, <2>2, Owed
  <2> QED
    BY <2>3, <2>4 DEF CountInv
<1>10. ASSUME NEW p \in Callers, Stop(p)  PROVE CountInv'
  <2>1. /\ UNCHANGED <<cached, size>> /\ Goto(p, Idle)
        /\ size <= call[p].limit \/ Cached = {}
    BY <1>10 DEF Stop
  <2>2. Owing' = Owing \ {p}
    BY <2>1, AtIdle, Owes
  <2>3. IsFiniteSet(Cached)' /\ SizeAgrees'
    BY <1>a, <2>1, Counted
  <2>4. IsFiniteSet(Owing') /\ Cardinality(Owing') \in Nat
    BY <2>2, FS_Subset, FS_CardinalityType DEF CountInv
  <2>5. size <= MaxSize
    <3>1. MaxSize \in Nat /\ call[p].limit \in Int /\ call[p].limit <= MaxSize
      BY CacheAssumption, Typed
    <3>2. CASE size <= call[p].limit
      BY <1>0, <3>1, <3>2
    <3>3. CASE Cached = {}
      BY <3>1, <3>3, FS_EmptySet DEF CountInv, SizeAgrees
    <3> QED
      BY <2>1, <3>2, <3>3
  <2>6. Bounded'
    BY <1>0, <2>1, <2>4, <2>5, CacheAssumption DEF Bounded
  <2> QED
    BY <2>3, <2>4, <2>6 DEF CountInv
<1>11. ASSUME NEW p \in Callers, EntryRemoved(p)  PROVE CountInv'
  <2>1. Owing' = Owing
    <3>1. CASE call[p].at = "releasing"
      <4>1. Goto(p, Idle)
        BY <1>11, <3>1 DEF EntryRemoved
      <4> QED
        BY <3>1, <4>1, AtIdle, Owes
    <3>2. CASE call[p].at = "releasing_trim"
      <4>1. Goto(p, Trimming(call[p].limit))
        BY <1>11, <3>2 DEF EntryRemoved
      <4>2. p \in Owing /\ Owing' = Owing \cup {p}
        BY <3>2, <4>1, Typed, AtTrimming, Owes
      <4> QED
        BY <4>2
    <3> QED
      BY <1>11, <3>1, <3>2 DEF EntryRemoved
  <2> QED
    BY <1>0, <1>11, <1>a, <2>1, Counted, Owed DEF EntryRemoved, CountInv
<1>12. CASE UNCHANGED vars
  BY <1>12, <1>0, <1>a, <1>b, Counted, Owed DEF vars, CountInv
<1> QED
  BY <1>1, <1>2, <1>3, <1>4, <1>5, <1>6, <1>7, <1>8, <1>9, <1>10, <1>11,
     <1>12 DEF Next, Start, Continue

LEMMA Counts == Spec => []CountInv
<1>1. Init => TypeInv /\ CountInv
  BY TypeInit, CountInit
<1>2. TypeInv /\ CountInv /\ [Next]_vars => (TypeInv /\ CountInv)'
  BY TypeStep, CountStep
<1> QED
  BY <1>1, <1>2, PTL DEF Spec

(* SizeAgrees: trimToSize never finds the size and the map at odds.        *)
THEOREM SizeCounts == Spec => []SizeAgrees
<1>1. CountInv => SizeAgrees
  BY DEF CountInv
<1> QED
  BY <1>1, Counts, PTL

(* Bounded: the cache exceeds maxSize by at most one entry for each thread *)
(* that is about to trim it.                                               *)
THEOREM WithinBound == Spec => []Bounded
<1>1. CountInv => Bounded
  BY DEF CountInv
<1> QED
  BY <1>1, Counts, PTL
-----------------------------------------------------------------------------
(* The order of the accesses.  LinkedHashMap keeps a list; the model keeps *)
(* the relation "accessed before", and that it is one order of all cached  *)
(* keys, hence that trimToSize always has one entry to take, is shown      *)
(* here.                                                                   *)

(* A strict order of K in which any two members are comparable. *)
Orders(R, K) ==
  /\ R \subseteq K \X K
  /\ \A k \in K : <<k, k>> \notin R
  /\ \A i, j, k \in K : <<i, j>> \in R /\ <<j, k>> \in R => <<i, k>> \in R
  /\ \A j, k \in K : j # k => <<j, k>> \in R \/ <<k, j>> \in R

OrderInv == TypeInv /\ CountInv /\ Orders(older, Cached)

-----------------------------------------------------------------------------
(* Orders of a finite set.                                                 *)

(* One member is before all the others: one whose predecessors are fewest, *)
(* since a predecessor has fewer of them.                                  *)
LEMMA Least ==
  ASSUME NEW K, IsFiniteSet(K), K # {}, NEW R, Orders(R, K)
  PROVE  \E k \in K : \A j \in K : <<j, k>> \notin R
<1> DEFINE Before(k) == {j \in K : <<j, k>> \in R}
           T == {Before(k) : k \in K}
<1>1. /\ \A k \in K : <<k, k>> \notin R
      /\ \A i, j, k \in K : <<i, j>> \in R /\ <<j, k>> \in R => <<i, k>> \in R
  BY DEF Orders
<1>2. T \subseteq FiniteSubsetsOf(K) /\ T # {}
  <2>1. T \subseteq SUBSET K
    OBVIOUS
  <2>2. PICK k \in K : TRUE
    OBVIOUS
  <2>3. Before(k) \in T
    OBVIOUS
  <2>4. FiniteSubsetsOf(K) = SUBSET K
    BY FS_FiniteSubsetsOfFinite
  <2> HIDE DEF T, Before
  <2> QED BY <2>1, <2>3, <2>4
<1>3. PICK x \in T : \A y \in T : ~(<<y, x>> \in StrictSubsetOrdering(K))
  <2>1. IsWellFoundedOn(StrictSubsetOrdering(K), FiniteSubsetsOf(K))
    BY FS_StrictSubsetOrderingWellFounded
  <2> HIDE DEF T
  <2> QED BY <1>2, <2>1, WFMin
<1>4. PICK k \in K : x = Before(k)
  OBVIOUS
<1>5. ASSUME NEW j \in K, <<j, k>> \in R PROVE FALSE
  <2>1. j \in Before(k) /\ j \notin Before(j)
    BY <1>1, <1>5
  <2>2. Before(j) \subseteq Before(k)
    BY <1>1, <1>5
  <2>3. Before(j) # Before(k)
    BY <2>1
  <2>4. Before(j) \in SUBSET K /\ Before(k) \in SUBSET K /\ Before(j) \in T
    OBVIOUS
  <2> HIDE DEF Before, T
  <2>5. <<Before(j), Before(k)>> \in StrictSubsetOrdering(K)
    BY <2>2, <2>3, <2>4 DEF StrictSubsetOrdering
  <2> QED BY <1>3, <1>4, <2>4, <2>5
<1> QED BY <1>5

(* A key is taken out of the order, *)
LEMMA Forgets ==
  ASSUME Orders(older, Cached), NEW k
  PROVE  Orders(Forgotten(k), Cached \ {k})
  BY DEF Orders, Forgotten

(* and put at its end. *)
LEMMA Touches ==
  ASSUME Orders(older, Cached), NEW k
  PROVE  Orders(Touched(k), Cached \cup {k})
<1> DEFINE K == Cached \ {k}
           R == Forgotten(k)
           L == Cached \cup {k}
<1>1. Orders(R, K)
  BY Forgets
<1>2. L = K \cup {k} /\ k \notin K
  OBVIOUS
<1>3. Touched(k) = R \cup {<<j, k>> : j \in K}
  BY DEF Touched
<1> HIDE DEF K, R, L
<1> QED BY <1>1, <1>2, <1>3 DEF Orders, L

-----------------------------------------------------------------------------
LEMMA OrderInit == Init => OrderInv
<1> SUFFICES ASSUME Init PROVE OrderInv
  OBVIOUS
<1>1. Cached = {} /\ older = {}
  BY DEF Init, Cached
<1> QED BY <1>1, TypeInit, CountInit DEF OrderInv, Orders

LEMMA OrderStep == OrderInv /\ [Next]_vars => OrderInv'
<1> SUFFICES ASSUME OrderInv, [Next]_vars PROVE OrderInv'
  OBVIOUS
<1>0. TypeInv /\ Orders(older, Cached)
  BY DEF OrderInv
<1>a. TypeInv' /\ CountInv'
  BY TypeStep, CountStep DEF OrderInv
<1> SUFFICES Orders(older', Cached')
  BY <1>a DEF OrderInv
<1>1. ASSUME UNCHANGED <<cached, older>> PROVE Orders(older', Cached')
  <2>1. Cached' = Cached /\ older' = older
    BY <1>1 DEF Cached
  <2> QED BY <2>1, <1>0
<1>2. ASSUME NEW k, older' = Touched(k), Cached' = Cached \cup {k}
      PROVE  Orders(older', Cached')
  BY <1>2, <1>0, Touches
<1>3. ASSUME NEW k, older' = Forgotten(k), Cached' = Cached \ {k}
      PROVE  Orders(older', Cached')
  BY <1>3, <1>0, Forgets
<1>4. ASSUME NEW p \in Callers, NEW k \in Keys, Hit(p, k)
      PROVE  Orders(older', Cached')
  <2>1. Cached' = Cached \cup {k} /\ older' = Touched(k)
    BY <1>4 DEF Hit, Cached
  <2> QED BY <2>1, <1>2
<1>5. ASSUME NEW p \in Callers, Install(p)  PROVE Orders(older', Cached')
  <2> DEFINE k == call[p].key
  <2>1. k \in Keys /\ call[p].hand \in Values /\ older' = Touched(k)
    BY <1>0, <1>5, Typed DEF Install, Phase
  <2> HIDE DEF k
  <2>2. CASE k \in Cached
    <3>1. Cached' = Cached \cup {k}
      BY <1>5, <2>2 DEF Install, Cached, k
    <3> QED BY <2>1, <3>1, <1>2
  <2>3. CASE k \notin Cached
    <3>1. cached' = [cached EXCEPT ![k] = call[p].hand]
      BY <1>5, <2>3 DEF Install, k
    <3>2. Cached' = Cached \cup {k}
      BY <1>0, <2>1, <3>1, Enters
    <3> QED BY <2>1, <3>2, <1>2
  <2> QED BY <2>2, <2>3
<1>6. ASSUME NEW p \in Callers, NEW k \in Keys, NEW val \in Values,
             Put(p, k, val)
      PROVE  Orders(older', Cached')
  <2>1. Cached' = Cached \cup {k} /\ older' = Touched(k)
    BY <1>0, <1>6, Enters DEF Put
  <2> QED BY <2>1, <1>2
<1>7. ASSUME NEW p \in Callers, NEW k \in Keys, Remove(p, k) \/ Evict(p, k)
      PROVE  Orders(older', Cached')
  <2>1. Cached' = Cached \ {k} /\ older' = Forgotten(k)
    BY <1>0, <1>7, Leaves DEF Remove, Evict
  <2> QED BY <2>1, <1>3
<1>8. ASSUME NEW p \in Callers,
             \/ \E k \in Keys : Miss(p, k)
             \/ CreateNothing(p) \/ \E val \in Values : Create(p, val)
             \/ \E limit \in -1..MaxSize : CallTrim(p, limit)
             \/ Stop(p) \/ EntryRemoved(p)
      PROVE  Orders(older', Cached')
  <2>1. UNCHANGED <<cached, older>>
    BY <1>8 DEF Miss, CreateNothing, Create, CallTrim, Stop, EntryRemoved
  <2> QED BY <2>1, <1>1
<1>9. CASE UNCHANGED vars
  BY <1>9, <1>1 DEF vars
<1> QED
  BY <1>4, <1>5, <1>6, <1>7, <1>8, <1>9 DEF Next, Start, Continue

(* There is always exactly one eldest entry: trimToSize, which takes the   *)
(* first entry of the map whatever the other threads did between two of    *)
(* its rounds, finds one while the cache is not empty, and the choice is   *)
(* not open.                                                               *)
THEOREM EldestExists == Spec => []OneEldest
<1>1. OrderInv => OneEldest
  <2> SUFFICES ASSUME OrderInv, Cached # {}
               PROVE  \E k \in Cached : \A j \in Keys : Eldest(j) <=> j = k
    BY DEF OneEldest
  <2>1. Orders(older, Cached) /\ IsFiniteSet(Cached) /\ Cached \subseteq Keys
    BY DEF OrderInv, CountInv, Cached
  <2>2. PICK k \in Cached : \A j \in Cached : <<j, k>> \notin older
    BY <2>1, Least
  <2>3. \A j \in Cached : j # k => <<k, j>> \in older
    BY <2>1, <2>2 DEF Orders
  <2> QED BY <2>2, <2>3 DEF Eldest
<1> QED BY <1>1, OrderInit, OrderStep, PTL DEF Spec

(***************************************************************************)
(* The cache of keys                                                       *)
(***************************************************************************)
(* While a key is looked up, it is in the buffer, from the first cell on;  *)
(* and a slot was read once.                                               *)
InBuffer ==
  \A t \in Threads :
    /\ pc[t] \in {"probe", "compare"} =>
         /\ text[t] \in Texts
         /\ \A i \in 1..Len(text[t]) : chars[t][i] = text[t][i]
    /\ \A x, y \in seen[t] : x = y

KeyInv == KeyTypeOK /\ InBuffer /\ AsInStream /\ CacheBounded

-----------------------------------------------------------------------------
(* The buffer a parser gets has room for what it is asked for. *)
LEMMA RoomEnsured ==
  ASSUME KeyTypeOK, NEW t \in Threads, NEW n \in Nat
  PROVE  /\ EnsureCharBuffer(t, n) \in Seq(Chars)
         /\ n <= Len(EnsureCharBuffer(t, n))
<1>1. ASSUME NEW k \in Nat
      PROVE  NewChars(k) \in Seq(Chars) /\ Len(NewChars(k)) = k
  BY TextAssumption DEF NewChars
<1>2. chars[t] \in Seq(Chars) /\ pool[t] \in Seq(Chars)
  BY DEF KeyTypeOK
<1> DEFINE room == IF n > MinChars THEN n + Spare ELSE MinChars
           some == IF chars[t] # <<>> THEN chars[t]
                   ELSE IF pool[t] # <<>> THEN pool[t] ELSE NewChars(room)
<1>3. room \in Nat
  BY TextAssumption
<1>4. some \in Seq(Chars)
  BY <1>1, <1>2, <1>3
<1>5. EnsureCharBuffer(t, n) = IF Len(some) < n THEN NewChars(n) ELSE some
  BY DEF EnsureCharBuffer
<1> HIDE DEF some
<1>6. Len(some) \in Nat
  BY <1>4
<1> QED BY <1>1, <1>4, <1>5, <1>6

(* Copying a text into a buffer puts it at the front and keeps the size. *)
LEMMA FilledFront ==
  ASSUME NEW buffer \in Seq(Chars), NEW txt \in Seq(Chars),
         Len(txt) <= Len(buffer)
  PROVE  /\ Filled(buffer, txt) \in Seq(Chars)
         /\ Len(Filled(buffer, txt)) = Len(buffer)
         /\ \A i \in 1..Len(txt) : Filled(buffer, txt)[i] = txt[i]
<1>1. Filled(buffer, txt) \in [1..Len(buffer) -> Chars]
  BY DEF Filled
<1>2. Len(buffer) \in Nat /\ Len(txt) \in Nat
  OBVIOUS
<1>3. Filled(buffer, txt) \in Seq(Chars) /\ Len(Filled(buffer, txt)) = Len(buffer)
  <2> DEFINE s == Filled(buffer, txt)
             n == Len(buffer)
  <2>1. n \in Nat /\ s \in [1..n -> Chars] BY <1>1, <1>2
  <2> HIDE DEF s, n
  <2>2. s \in Seq(Chars) /\ Len(s) = n BY <2>1
  <2> QED BY <2>2 DEF s, n
<1>4. \A i \in 1..Len(txt) : Filled(buffer, txt)[i] = txt[i]
  BY <1>2 DEF Filled
<1> QED BY <1>3, <1>4

(* The string made of the front of a buffer that starts with a text. *)
LEMMA FrontIsText ==
  ASSUME NEW s \in Seq(Chars), NEW txt \in Seq(Chars),
         Len(txt) <= Len(s), \A i \in 1..Len(txt) : s[i] = txt[i]
  PROVE  SubSeq(s, 1, Len(txt)) = txt
<1>1. Len(txt) \in Nat /\ Len(s) \in Nat
  OBVIOUS
<1>2. SubSeq(s, 1, Len(txt)) = [i \in 1..Len(txt) |-> s[i]]
  BY <1>1
<1>3. txt = [i \in 1..Len(txt) |-> txt[i]]
  OBVIOUS
<1> QED BY <1>2, <1>3

(* Two texts of the same length that agree in every place.                 *)
LEMMA SameText ==
  ASSUME NEW s \in Seq(Chars), NEW txt \in Seq(Chars),
         Len(s) = Len(txt), \A i \in 1..Len(txt) : s[i] = txt[i]
  PROVE  s = txt
OBVIOUS

(* Both readers put the text at the front of a buffer that has room. *)
LEMMA CopyFills ==
  ASSUME KeyTypeOK, NEW t \in Threads, NEW txt \in Texts, Copy(t, txt)
  PROVE  /\ txt \in Seq(Chars)
         /\ chars' \in [Threads -> Seq(Chars)]
         /\ pool' \in [Threads -> Seq(Chars)]
         /\ text' \in [Threads -> Seq(Chars)]
         /\ text'[t] = txt
         /\ \A u \in Threads \ {t} : chars'[u] = chars[u] /\ text'[u] = text[u]
         /\ Len(txt) <= Len(chars'[t])
         /\ \A i \in 1..Len(txt) : chars'[t][i] = txt[i]
<1> DEFINE buffer == EnsureCharBuffer(t, Len(txt))
<1>1. txt \in Seq(Chars) /\ Len(txt) \in Nat
  BY TextAssumption
<1>2. buffer \in Seq(Chars) /\ Len(txt) <= Len(buffer)
  BY <1>1, RoomEnsured
<1>3. chars' = [chars EXCEPT ![t] = Filled(buffer, txt)]
  BY DEF Copy
<1> HIDE DEF buffer
<1>4. /\ Filled(buffer, txt) \in Seq(Chars)
      /\ Len(Filled(buffer, txt)) = Len(buffer)
      /\ \A i \in 1..Len(txt) : Filled(buffer, txt)[i] = txt[i]
  BY <1>1, <1>2, FilledFront
<1>5. /\ chars' \in [Threads -> Seq(Chars)]
      /\ chars'[t] = Filled(buffer, txt)
      /\ \A u \in Threads \ {t} : chars'[u] = chars[u]
  BY <1>3, <1>4 DEF KeyTypeOK
<1>6. /\ text' \in [Threads -> Seq(Chars)] /\ text'[t] = txt
      /\ \A u \in Threads \ {t} : text'[u] = text[u]
  BY <1>1 DEF KeyTypeOK, Copy
<1>7. pool' \in [Threads -> Seq(Chars)]
  <2>1. <<>> \in Seq(Chars) OBVIOUS
  <2> QED BY <2>1 DEF KeyTypeOK, Copy
<1> QED BY <1>1, <1>2, <1>4, <1>5, <1>6, <1>7

(* What a miss makes is the key in the stream. *)
LEMMA MadeIsText ==
  ASSUME KeyInv, NEW t \in Threads, pc[t] = "compare"
  PROVE  text[t] \in Texts /\ text[t] \in Seq(Chars) /\ Made(t) = text[t]
<1>1. /\ text[t] \in Texts /\ text[t] \in Seq(Chars) /\ chars[t] \in Seq(Chars)
      /\ Len(text[t]) <= Len(chars[t])
      /\ \A i \in 1..Len(text[t]) : chars[t][i] = text[t][i]
  BY DEF KeyInv, InBuffer, KeyTypeOK
<1> QED BY <1>1, FrontIsText DEF Made

(* What a hit returns is the key in the stream, wherever it comes from. *)
LEMMA HitIsText ==
  ASSUME KeyInv, NEW t \in Threads, pc[t] = "compare",
         NEW known \in seen[t], Same(t, known)
  PROVE  seen[t] \subseteq {text[t]}
<1>1. /\ text[t] \in Seq(Chars) /\ known \in Seq(Chars)
      /\ \A i \in 1..Len(text[t]) : chars[t][i] = text[t][i]
      /\ \A x, y \in seen[t] : x = y
  BY DEF KeyInv, InBuffer, KeyTypeOK
<1>2. known = text[t]
  <2>1. Len(known) = Len(text[t])
    BY DEF Same
  <2>2. \A i \in 1..Len(text[t]) : known[i] = text[t][i]
    BY <1>1 DEF Same
  <2> QED BY <1>1, <2>1, <2>2, SameText
<1> QED BY <1>1, <1>2

-----------------------------------------------------------------------------
LEMMA KeyInitEstablishes == KeyInit => KeyInv
<1>1. <<>> \in Seq(Chars)
  OBVIOUS
<1> QED BY <1>1 DEF KeyInit, KeyInv, KeyTypeOK, InBuffer, AsInStream, CacheBounded

LEMMA KeyStepPreserves == KeyInv /\ [KeyNext]_keyVars => KeyInv'
<1> SUFFICES ASSUME KeyInv, [KeyNext]_keyVars PROVE KeyInv'
  OBVIOUS
<1> USE DEF KeyInv
<1>0. CASE UNCHANGED keyVars
  BY <1>0 DEF keyVars, KeyTypeOK, InBuffer, AsInStream, CacheBounded
<1>1. ASSUME NEW t \in Threads, Parse(t) PROVE KeyInv'
  BY <1>1 DEF Parse, KeyTypeOK, InBuffer, AsInStream, CacheBounded
<1>2. ASSUME NEW t \in Threads, ReadString(t) PROVE KeyInv'
  <2>1. PICK txt \in Texts :
          /\ Copy(t, txt)
          /\ got' = [got EXCEPT ![t] = {SubSeq(chars'[t], 1, Len(txt))}]
    BY <1>2 DEF ReadString
  <2>2. /\ txt \in Seq(Chars)
        /\ chars' \in [Threads -> Seq(Chars)]
        /\ pool' \in [Threads -> Seq(Chars)]
        /\ text' \in [Threads -> Seq(Chars)]
        /\ text'[t] = txt
        /\ \A u \in Threads \ {t} : chars'[u] = chars[u] /\ text'[u] = text[u]
        /\ Len(txt) <= Len(chars'[t])
        /\ \A i \in 1..Len(txt) : chars'[t][i] = txt[i]
    BY <2>1, CopyFills
  <2>3. got' = [got EXCEPT ![t] = {txt}]
    BY <2>1, <2>2, FrontIsText
  <2>4. pc[t] = "parsing" /\ UNCHANGED <<stored, pc, seen>>
    BY <1>2 DEF ReadString
  <2>5. KeyTypeOK' BY <2>2, <2>3, <2>4 DEF KeyTypeOK
  <2>6. InBuffer'
    <3>1. ASSUME NEW u \in Threads, pc'[u] \in {"probe", "compare"}
          PROVE  u # t /\ chars'[u] = chars[u] /\ text'[u] = text[u]
      BY <3>1, <2>2, <2>4
    <3> QED BY <3>1, <2>4 DEF InBuffer
  <2>7. AsInStream' BY <2>2, <2>3 DEF AsInStream, KeyTypeOK
  <2>8. CacheBounded' BY <2>4 DEF CacheBounded
  <2> QED BY <2>5, <2>6, <2>7, <2>8
<1>3. ASSUME NEW t \in Threads, ReadKey(t) PROVE KeyInv'
  <2>1. PICK txt \in Texts : Copy(t, txt)
    BY <1>3 DEF ReadKey
  <2>2. /\ txt \in Seq(Chars)
        /\ chars' \in [Threads -> Seq(Chars)]
        /\ pool' \in [Threads -> Seq(Chars)]
        /\ text' \in [Threads -> Seq(Chars)]
        /\ text'[t] = txt
        /\ \A u \in Threads \ {t} : chars'[u] = chars[u] /\ text'[u] = text[u]
        /\ Len(txt) <= Len(chars'[t])
        /\ \A i \in 1..Len(txt) : chars'[t][i] = txt[i]
    BY <2>1, CopyFills
  <2>3. /\ pc' = [pc EXCEPT ![t] = "probe"]
        /\ got' = [got EXCEPT ![t] = {}]
        /\ UNCHANGED <<stored, seen>>
    BY <1>3 DEF ReadKey
  <2>4. KeyTypeOK' BY <2>2, <2>3 DEF KeyTypeOK
  <2>5. InBuffer' BY <2>2, <2>3 DEF InBuffer, KeyTypeOK
  <2>6. AsInStream' BY <2>2, <2>3 DEF AsInStream, KeyTypeOK
  <2>7. CacheBounded' BY <2>3 DEF CacheBounded
  <2> QED BY <2>4, <2>5, <2>6, <2>7
<1>4. ASSUME NEW t \in Threads, Probe(t) PROVE KeyInv'
  <2>1. PICK found \in {{}} \cup {{txt} : txt \in stored[Index[text[t]]]} :
          seen' = [seen EXCEPT ![t] = found]
    BY <1>4 DEF Probe
  <2>2. found \subseteq Seq(Chars) /\ \A x, y \in found : x = y
    <3>1. text[t] \in Texts
      BY <1>4 DEF Probe, InBuffer
    <3>2. stored[Index[text[t]]] \subseteq Seq(Chars)
      BY <3>1, TextAssumption DEF KeyTypeOK
    <3> QED BY <3>2
  <2>3. seen' \in [Threads -> SUBSET Seq(Chars)]
    BY <2>1, <2>2 DEF KeyTypeOK
  <2>4. KeyTypeOK' BY <1>4, <2>3 DEF Probe, KeyTypeOK
  <2>5. InBuffer' BY <1>4, <2>1, <2>2 DEF Probe, InBuffer, KeyTypeOK
  <2>6. AsInStream' /\ CacheBounded'
    BY <1>4 DEF Probe, AsInStream, CacheBounded
  <2> QED BY <2>4, <2>5, <2>6
<1>5. ASSUME NEW t \in Threads, KeyHit(t) PROVE KeyInv'
  <2>1. seen[t] \subseteq {text[t]}
    BY <1>5, HitIsText DEF KeyHit
  <2>2. KeyTypeOK' BY <1>5 DEF KeyHit, KeyTypeOK
  <2>3. InBuffer' BY <1>5 DEF KeyHit, InBuffer, KeyTypeOK
  <2>4. AsInStream' BY <1>5, <2>1 DEF KeyHit, AsInStream, KeyTypeOK
  <2>5. CacheBounded' BY <1>5 DEF KeyHit, CacheBounded
  <2> QED BY <2>2, <2>3, <2>4, <2>5
<1>6. ASSUME NEW t \in Threads, KeyMiss(t) PROVE KeyInv'
  <2>1. text[t] \in Texts /\ text[t] \in Seq(Chars) /\ Made(t) = text[t]
    BY <1>6, MadeIsText DEF KeyMiss
  <2>2. Index[text[t]] \in Slots
    BY <2>1, TextAssumption
  <2>3. stored' = IF Len(text[t]) < CachedBelow
                  THEN [stored EXCEPT ![Index[text[t]]] = @ \cup {text[t]}]
                  ELSE stored
    BY <1>6, <2>1 DEF KeyMiss
  <2>4. /\ got' = [got EXCEPT ![t] = {text[t]}]
        /\ seen' = [seen EXCEPT ![t] = {}]
        /\ pc' = [pc EXCEPT ![t] = "parsing"]
        /\ UNCHANGED <<pool, chars, text>>
    BY <1>6, <2>1 DEF KeyMiss
  <2>5. stored' \in [Slots -> SUBSET Seq(Chars)]
    BY <2>1, <2>2, <2>3 DEF KeyTypeOK
  <2>6. KeyTypeOK' BY <2>1, <2>4, <2>5 DEF KeyTypeOK
  <2>7. InBuffer' BY <2>4 DEF InBuffer, KeyTypeOK
  <2>8. AsInStream' BY <2>4 DEF AsInStream, KeyTypeOK
  <2>9. CacheBounded'
    BY <2>1, <2>2, <2>3 DEF CacheBounded, KeyTypeOK
  <2> QED BY <2>6, <2>7, <2>8, <2>9
<1>7. ASSUME NEW t \in Threads, Close(t) PROVE KeyInv'
  <2>1. <<>> \in Seq(Chars) OBVIOUS
  <2>2. KeyTypeOK' BY <1>7, <2>1 DEF Close, KeyTypeOK
  <2> QED BY <1>7, <2>2 DEF Close, KeyTypeOK, InBuffer, AsInStream, CacheBounded
<1>8. ASSUME NEW t \in Threads, Fail(t) PROVE KeyInv'
  <2>1. <<>> \in Seq(Chars) OBVIOUS
  <2>2. KeyTypeOK' BY <1>8, <2>1 DEF Fail, KeyTypeOK
  <2> QED BY <1>8, <2>2 DEF Fail, KeyTypeOK, InBuffer, AsInStream, CacheBounded
<1>9. ASSUME NEW t \in Threads, Collect(t) PROVE KeyInv'
  <2>1. <<>> \in Seq(Chars) OBVIOUS
  <2>2. KeyTypeOK' BY <1>9, <2>1 DEF Collect, KeyTypeOK
  <2> QED BY <1>9, <2>2 DEF Collect, InBuffer, AsInStream, CacheBounded
<1> QED
  BY <1>0, <1>1, <1>2, <1>3, <1>4, <1>5, <1>6, <1>7, <1>8, <1>9 DEF KeyNext, Step

-----------------------------------------------------------------------------
LEMMA KeyInvariance == KeySpec => []KeyInv
BY KeyInitEstablishes, KeyStepPreserves, PTL DEF KeySpec

(* The types, and that a key being looked up is in the thread's buffer.    *)
THEOREM KeyTypeCorrect == KeySpec => []KeyTypeOK
<1>1. KeyInv => KeyTypeOK BY DEF KeyInv
<1> QED BY <1>1, KeyInvariance, PTL

(* Every string Wson.Parser returns is the one in the stream, though all   *)
(* threads share the key cache without a lock and a read of it may see any *)
(* string ever stored there.                                               *)
THEOREM StringsAsInStream == KeySpec => []AsInStream
<1>1. KeyInv => AsInStream BY DEF KeyInv
<1> QED BY <1>1, KeyInvariance, PTL

(* The key cache holds only short keys, each in the slot it is looked up.  *)
THEOREM CacheIsBounded == KeySpec => []CacheBounded
<1>1. KeyInv => CacheBounded BY DEF KeyInv
<1> QED BY <1>1, KeyInvariance, PTL
==============================================================================
