--------------------------- MODULE Bridges_proofs ---------------------------
(***************************************************************************)
(* What a bridge writes, any bridge reads back, for every heap.            *)
(*                                                                         *)
(*  - Push, Plain and ReadTo exist as functions of the level               *)
(*    (LevelsExist), and their levels are enough (LevelsSuffice).          *)
(*  - The tokens of an object are a header and a piece for each item that  *)
(*    is not left out; a reader takes them one piece after the other       *)
(*    (OneItem, ItemsRead, ContainerReads).                                *)
(*  - So wherever in a buffer it lies, what was written for a value is     *)
(*    read as the tree it stands for: by induction on the levels of the    *)
(*    writer, for all levels of the reader that are no fewer than the      *)
(*    tokens (AllRead).                                                    *)
(*  - A header that announces too much makes a reader stay at the end, or, *)
(*    in Java, go beyond it (VanishedRead).                                *)
(*  - The invariant is that the buffer is filled with what a bridge writes *)
(*    of the root (Filled), and that what has been read was read from it   *)
(*    (Answered).                                                          *)
(***************************************************************************)
EXTENDS Bridges, CommonLemmas, SequenceTheorems, FiniteSetTheorems

Writers == {"jsc", "runtime", "cocoa"}
Readers == {"jsc", "runtime", "cocoa", "java"}

-----------------------------------------------------------------------------
(* Push, Plain and ReadTo are recursions by levels.  Such functions exist, *)
(* whatever a level is made of.                                            *)

Ground(name) ==
  CASE name = "push"  -> [p \in Places |-> NullToken]
    [] name = "plain" -> [p \in Places |-> Null]
    [] name = "read"  ->
         [p \in Positions |-> [val |-> Null, at |-> p[1] + 1, cache |-> p[2]]]

Deeper(name, bridge, prev) ==
  CASE name = "push"  -> [p \in Places |-> PushValue(bridge, prev, p[1], p[2])]
    [] name = "plain" -> [p \in Places |-> PlainValue(bridge, prev, p[1], p[2])]
    [] name = "read"  -> [p \in Positions |-> ReadValue(bridge, prev, p[1], p[2])]

(* The first n levels, *)
IsTable(name, bridge, n, f) ==
  f = [k \in 0..n |-> IF k = 0 THEN Ground(name) ELSE Deeper(name, bridge, f[k - 1])]

(* which there are, *)
LEMMA TablesExist ==
  ASSUME NEW name, NEW bridge, NEW n \in Nat
  PROVE  \E f : IsTable(name, bridge, n, f)
<1> DEFINE P == {m \in Nat : \E f : IsTable(name, bridge, m, f)}
<1>1. 0 \in P
  <2> DEFINE f == [k \in 0..0 |-> Ground(name)]
  <2>1. f = [k \in 0..0 |-> IF k = 0 THEN Ground(name) ELSE Deeper(name, bridge, f[k - 1])]
    OBVIOUS
  <2>2. IsTable(name, bridge, 0, f)
    BY <2>1 DEF IsTable
  <2> QED BY <2>2
<1>2. ASSUME NEW m \in Nat, m \in P
      PROVE  m + 1 \in P
  <2>1. PICK f : IsTable(name, bridge, m, f)
    BY <1>2
  <2> DEFINE g == [k \in 0..(m + 1) |->
                     IF k = m + 1 THEN Deeper(name, bridge, f[m]) ELSE f[k]]
             h == [k \in 0..(m + 1) |->
                     IF k = 0 THEN Ground(name) ELSE Deeper(name, bridge, g[k - 1])]
  <2>2. ASSUME NEW k \in 0..(m + 1) PROVE g[k] = h[k]
    <3>1. CASE k = m + 1
      <4>1. m \in 0..(m + 1) /\ m # m + 1 /\ k - 1 = m /\ k # 0 BY <3>1
      <4>2. g[m] = f[m] BY <4>1
      <4> QED BY <3>1, <4>1, <4>2
    <3>2. CASE k = 0
      <4>1. f[0] = Ground(name) BY <2>1 DEF IsTable
      <4> QED BY <3>2, <4>1
    <3>3. CASE k # m + 1 /\ k # 0
      <4>1. k \in 0..m /\ k - 1 \in 0..m /\ k - 1 \in 0..(m + 1) /\ k - 1 # m + 1
        BY <3>3
      <4>2. f[k] = Deeper(name, bridge, f[k - 1]) BY <2>1, <3>3, <4>1 DEF IsTable
      <4>3. g[k - 1] = f[k - 1] BY <4>1
      <4> QED BY <3>3, <4>2, <4>3
    <3> QED BY <3>1, <3>2, <3>3
  <2>3. g = h
    BY <2>2
  <2>4. IsTable(name, bridge, m + 1, g)
    BY <2>3 DEF IsTable
  <2> HIDE DEF g
  <2> QED BY <2>4
<1> HIDE DEF P
<1>3. Nat \subseteq P
  BY <1>1, <1>2, Counting
<1> QED BY <1>3 DEF P

(* and which agree, *)
LEMMA TablesAgree ==
  ASSUME NEW name, NEW bridge, NEW k \in Nat, NEW m \in Nat, NEW n \in Nat,
         k <= m, k <= n,
         NEW f, NEW g, IsTable(name, bridge, m, f), IsTable(name, bridge, n, g)
  PROVE  f[k] = g[k]
<1> DEFINE P == {i \in Nat : i <= m /\ i <= n => f[i] = g[i]}
<1>1. 0 \in P
  BY DEF IsTable
<1>2. ASSUME NEW i \in Nat, i \in P
      PROVE  i + 1 \in P
  <2> SUFFICES ASSUME i + 1 <= m, i + 1 <= n PROVE f[i + 1] = g[i + 1]
    OBVIOUS
  <2>1. i + 1 \in 0..m /\ i + 1 \in 0..n /\ i + 1 # 0 /\ (i + 1) - 1 = i /\ f[i] = g[i]
    BY <1>2
  <2> QED BY <2>1 DEF IsTable
<1> HIDE DEF P
<1>3. Nat \subseteq P
  BY <1>1, <1>2, Counting
<1> QED BY <1>3 DEF P

(* make up all of them. *)
LEMMA LevelsExist ==
  ASSUME NEW name, NEW bridge
  PROVE  \E f : f = [n \in Nat |-> IF n = 0 THEN Ground(name)
                                   ELSE Deeper(name, bridge, f[n - 1])]
<1> DEFINE Table(n) == CHOOSE f : IsTable(name, bridge, n, f)
           f == [n \in Nat |-> Table(n)[n]]
           h == [n \in Nat |-> IF n = 0 THEN Ground(name)
                               ELSE Deeper(name, bridge, f[n - 1])]
<1>1. ASSUME NEW n \in Nat PROVE IsTable(name, bridge, n, Table(n))
  BY TablesExist
<1> HIDE DEF Table
<1>2. ASSUME NEW n \in Nat PROVE f[n] = h[n]
  <2>1. CASE n = 0
    BY <2>1, <1>1 DEF IsTable
  <2>2. CASE n # 0
    <3>1. n - 1 \in Nat /\ n - 1 <= n /\ n - 1 <= n - 1 /\ n \in 0..n
      BY <2>2
    <3>2. Table(n)[n - 1] = Table(n - 1)[n - 1]
      BY <1>1, <3>1, TablesAgree
    <3>3. Table(n)[n] = Deeper(name, bridge, Table(n)[n - 1])
      BY <1>1, <2>2, <3>1 DEF IsTable
    <3>4. f[n - 1] = Table(n - 1)[n - 1]
      BY <3>1
    <3> QED BY <2>2, <3>2, <3>3, <3>4
  <2> QED BY <2>1, <2>2
<1>3. f = h
  BY <1>2
<1> HIDE DEF f
<1> QED BY <1>3

LEMMA PushLevels ==
  ASSUME NEW bridge
  PROVE  /\ Push(bridge)[0] = [p \in Places |-> NullToken]
         /\ \A n \in Nat : Push(bridge)[n + 1] =
              [p \in Places |-> PushValue(bridge, Push(bridge)[n], p[1], p[2])]
<1> DEFINE Is(f) == f = [n \in Nat |->
                           IF n = 0 THEN [p \in Places |-> NullToken]
                           ELSE [p \in Places |-> PushValue(bridge, f[n - 1], p[1], p[2])]]
<1>1. \E f : Is(f)
  <2>1. PICK f : f = [n \in Nat |-> IF n = 0 THEN Ground("push")
                                    ELSE Deeper("push", bridge, f[n - 1])]
    BY LevelsExist
  <2>2. Is(f)
    BY <2>1 DEF Ground, Deeper
  <2> QED BY <2>2
<1>2. Push(bridge) = CHOOSE f : Is(f)
  BY DEF Push
<1>3. Is(Push(bridge))
  <2> HIDE DEF Is
  <2> QED BY <1>1, <1>2
<1> DEFINE g == Push(bridge)
<1>4. Is(g)
  BY <1>3
<1> HIDE DEF g
<1>5. ASSUME NEW n \in Nat
      PROVE  g[n + 1] = [p \in Places |-> PushValue(bridge, g[n], p[1], p[2])]
  <2>1. n + 1 \in Nat /\ n + 1 # 0 /\ (n + 1) - 1 = n
    OBVIOUS
  <2> QED BY <1>4, <2>1
<1> QED BY <1>4, <1>5 DEF g

LEMMA PlainLevels ==
  ASSUME NEW bridge
  PROVE  /\ Plain(bridge)[0] = [p \in Places |-> Null]
         /\ \A n \in Nat : Plain(bridge)[n + 1] =
              [p \in Places |-> PlainValue(bridge, Plain(bridge)[n], p[1], p[2])]
<1> DEFINE Is(f) == f = [n \in Nat |->
                           IF n = 0 THEN [p \in Places |-> Null]
                           ELSE [p \in Places |-> PlainValue(bridge, f[n - 1], p[1], p[2])]]
<1>1. \E f : Is(f)
  <2>1. PICK f : f = [n \in Nat |-> IF n = 0 THEN Ground("plain")
                                    ELSE Deeper("plain", bridge, f[n - 1])]
    BY LevelsExist
  <2>2. Is(f)
    BY <2>1 DEF Ground, Deeper
  <2> QED BY <2>2
<1>2. Plain(bridge) = CHOOSE f : Is(f)
  BY DEF Plain
<1>3. Is(Plain(bridge))
  <2> HIDE DEF Is
  <2> QED BY <1>1, <1>2
<1> DEFINE g == Plain(bridge)
<1>4. Is(g)
  BY <1>3
<1> HIDE DEF g
<1>5. ASSUME NEW n \in Nat
      PROVE  g[n + 1] = [p \in Places |-> PlainValue(bridge, g[n], p[1], p[2])]
  <2>1. n + 1 \in Nat /\ n + 1 # 0 /\ (n + 1) - 1 = n
    OBVIOUS
  <2> QED BY <1>4, <2>1
<1> QED BY <1>4, <1>5 DEF g

LEMMA ReadLevels ==
  ASSUME NEW reader
  PROVE  /\ ReadTo(reader)[0] =
              [p \in Positions |-> [val |-> Null, at |-> p[1] + 1, cache |-> p[2]]]
         /\ \A n \in Nat : ReadTo(reader)[n + 1] =
              [p \in Positions |-> ReadValue(reader, ReadTo(reader)[n], p[1], p[2])]
<1> DEFINE Start == [p \in Positions |-> [val |-> Null, at |-> p[1] + 1, cache |-> p[2]]]
           Is(f) == f = [n \in Nat |->
                           IF n = 0 THEN Start
                           ELSE [p \in Positions |-> ReadValue(reader, f[n - 1], p[1], p[2])]]
<1>1. \E f : Is(f)
  <2>1. PICK f : f = [n \in Nat |-> IF n = 0 THEN Ground("read")
                                    ELSE Deeper("read", reader, f[n - 1])]
    BY LevelsExist
  <2>2. Is(f)
    BY <2>1 DEF Ground, Deeper
  <2> QED BY <2>2
<1>2. ReadTo(reader) = CHOOSE f : Is(f)
  BY DEF ReadTo
<1>3. Is(ReadTo(reader))
  <2> HIDE DEF Is
  <2> QED BY <1>1, <1>2
<1> DEFINE g == ReadTo(reader)
<1>4. Is(g)
  BY <1>3
<1> HIDE DEF g
<1>5. ASSUME NEW n \in Nat
      PROVE  g[n + 1] = [p \in Positions |-> ReadValue(reader, g[n], p[1], p[2])]
  <2>1. n + 1 \in Nat /\ n + 1 # 0 /\ (n + 1) - 1 = n
    OBVIOUS
  <2> QED BY <1>4, <2>1
<1> QED BY <1>4, <1>5 DEF g

-----------------------------------------------------------------------------
(* What is in the heap and in a buffer.                                    *)

LEMMA HeapTypes ==
  ASSUME heap \in Heaps, NEW o \in Objects
  PROVE  /\ Items(o) \in Seq(Item)
         /\ Len(Items(o)) \in Nat /\ DOMAIN Items(o) = 1..Len(Items(o))
         /\ heap[o].json \in Values
         /\ Kind(o) \in {"array", "map"}
         /\ \A i \in DOMAIN Items(o) :
               /\ Items(o)[i].first \in Values /\ Items(o)[i].second \in Values
               /\ Items(o)[i].key \in Keys \cup {NoKey}
               /\ Kind(o) = "map" => Items(o)[i].key \in Keys
<1>1. heap \in [Objects -> Content]
  BY HeapsAssumption
<1>2. heap[o] \in Content
  BY <1>1
<1>3. heap[o].items \in Seq(Item) /\ heap[o].json \in Values
  BY <1>2 DEF Content
<1>4. Items(o) \in Seq(Item) /\ Len(Items(o)) \in Nat /\ DOMAIN Items(o) = 1..Len(Items(o))
  BY <1>3 DEF Items
<1>5. ASSUME NEW i \in DOMAIN Items(o)
      PROVE  /\ Items(o)[i].first \in Values /\ Items(o)[i].second \in Values
             /\ Items(o)[i].key \in Keys \cup {NoKey}
  <2>1. Items(o)[i] \in Item BY <1>4
  <2> QED BY <2>1 DEF Item
<1>6. Kind(o) = "map" => \A i \in DOMAIN Items(o) : Items(o)[i].key \in Keys
  BY HeapsAssumption DEF Kind, Items
<1>7. Kind(o) \in {"array", "map"}
  BY DEF Kind
<1> QED BY <1>3, <1>4, <1>5, <1>6, <1>7

LEMMA GivenType ==
  ASSUME heap \in Heaps, NEW bridge, NEW val \in Values
  PROVE  Given(bridge, val) \in Values /\ call_object_js_value_to_json(val) \in Values
BY HeapTypes DEF Given, call_object_js_value_to_json

LEMMA TokenTypes ==
  /\ NullToken \in Seq(Tokens) /\ Len(NullToken) = 1 /\ NullToken[1] = Token("null", 0, Null)
  /\ \A val : /\ Len(LeafToken(val)) = 1 /\ LeafToken(val)[1] = Token("leaf", 0, val)
              /\ val \in Leaves => LeafToken(val) \in Seq(Tokens)
  /\ \A key : /\ Len(KeyToken(key)) = 1 /\ KeyToken(key)[1] = Token("key", 0, key)
              /\ key \in Keys => KeyToken(key) \in Seq(Tokens)
<1>1. Token("null", 0, Null) \in Tokens
  BY DEF Token, Tokens
<1>2. ASSUME NEW val \in Leaves PROVE Token("leaf", 0, val) \in Tokens
  BY DEF Token, Tokens
<1>3. ASSUME NEW key \in Keys PROVE Token("key", 0, key) \in Tokens
  BY DEF Token, Tokens
<1> QED BY <1>1, <1>2, <1>3 DEF NullToken, LeafToken, KeyToken

(* Items that are left out are some of the items. *)
LEMMA LeftOut ==
  ASSUME NEW k \in Nat, NEW P \in SUBSET (1..k)
  PROVE  IsFiniteSet(P) /\ Cardinality(P) \in 0..k
<1>1. IsFiniteSet(1..k) /\ Cardinality(1..k) = k
  BY FS_Interval
<1>2. IsFiniteSet(P) /\ Cardinality(P) <= Cardinality(1..k) /\ Cardinality(P) \in Nat
  BY <1>1, FS_Subset, FS_CardinalityType
<1> QED BY <1>1, <1>2

LEMMA MapSizeType ==
  ASSUME heap \in Heaps, NEW bridge, NEW o \in Objects
  PROVE  MapSize(bridge, o) \in Nat
<1> DEFINE P == {i \in DOMAIN Items(o) : Skipped(bridge, Items(o)[i].first)}
<1>1. Len(Items(o)) \in Nat /\ DOMAIN Items(o) = 1..Len(Items(o))
  BY HeapTypes
<1>2. P \in SUBSET (1..Len(Items(o)))
  BY <1>1
<1> HIDE DEF P
<1>3. Cardinality(P) \in 0..Len(Items(o))
  BY <1>1, <1>2, LeftOut
<1>4. Len(Items(o)) - Cardinality(P) \in Nat
  BY <1>1, <1>3
<1> QED BY <1>4 DEF MapSize, P

LEMMA HeaderType ==
  ASSUME heap \in Heaps, NEW bridge, NEW o \in Objects
  PROVE  /\ Header(bridge, o) \in Seq(Tokens)
         /\ Len(Header(bridge, o)) = 1
         /\ Header(bridge, o)[1].tag = Kind(o)
         /\ Header(bridge, o)[1].size =
              IF Kind(o) = "array" THEN Len(Items(o)) ELSE MapSize(bridge, o)
<1>1. MapSize(bridge, o) \in Nat /\ Len(Items(o)) \in Nat /\ Kind(o) \in {"array", "map"}
  BY MapSizeType, HeapTypes
<1>2. /\ Token("array", Len(Items(o)), Null) \in Tokens
      /\ Token("map", MapSize(bridge, o), Null) \in Tokens
  BY <1>1 DEF Token, Tokens
<1>3. /\ Token("array", Len(Items(o)), Null).tag = "array"
      /\ Token("array", Len(Items(o)), Null).size = Len(Items(o))
      /\ Token("map", MapSize(bridge, o), Null).tag = "map"
      /\ Token("map", MapSize(bridge, o), Null).size = MapSize(bridge, o)
  BY DEF Token
<1>4. CASE Kind(o) = "array"
  <2>1. Header(bridge, o) = <<Token("array", Len(Items(o)), Null)>>
    BY <1>4 DEF Header
  <2> QED BY <1>2, <1>3, <1>4, <2>1
<1>5. CASE Kind(o) # "array"
  <2>1. Header(bridge, o) = <<Token("map", MapSize(bridge, o), Null)>>
    BY <1>5 DEF Header
  <2> QED BY <1>1, <1>2, <1>3, <1>5, <2>1
<1> QED BY <1>4, <1>5

(* A place inside an object. *)
LEMMA PlaceInside ==
  ASSUME heap \in Heaps, NEW bridge, NEW o \in Objects, NEW stack \in Seq(Objects),
         NEW val \in Values
  PROVE  /\ <<Given(bridge, val), Append(stack, o)>> \in Places
         /\ <<call_object_js_value_to_json(val), Append(stack, o)>> \in Places
<1>1. Append(stack, o) \in Seq(Objects)
  BY AppendProperties
<1> QED BY <1>1, GivenType DEF Places

LEMMA PushItemType ==
  ASSUME heap \in Heaps, NEW bridge, NEW o \in Objects, NEW stack \in Seq(Objects),
         NEW inside, \A p \in Places : inside[p] \in Seq(Tokens),
         NEW i \in DOMAIN Items(o)
  PROVE  PushItem(bridge, inside, o, stack, Items(o)[i]) \in Seq(Tokens)
<1> DEFINE item == Items(o)[i]
           val == inside[<<Given(bridge, item.second), Append(stack, o)>>]
<1>1. item.second \in Values /\ (Kind(o) = "map" => item.key \in Keys)
      /\ Kind(o) \in {"array", "map"}
  BY HeapTypes
<1>2. val \in Seq(Tokens)
  BY <1>1, PlaceInside
<1>3. Kind(o) = "map" => KeyToken(item.key) \in Seq(Tokens)
  BY <1>1, TokenTypes
<1>4. Kind(o) = "map" => KeyToken(item.key) \o val \in Seq(Tokens)
  BY <1>2, <1>3, ConcatProperties
<1>5. <<>> \in Seq(Tokens)
  OBVIOUS
<1>6. PushItem(bridge, inside, o, stack, item) =
        IF Kind(o) = "array" THEN val
        ELSE IF Skipped(bridge, item.second) THEN <<>>
        ELSE KeyToken(item.key) \o val
  BY DEF PushItem
<1> HIDE DEF val, item
<1>7. PushItem(bridge, inside, o, stack, item) \in Seq(Tokens)
  BY <1>1, <1>2, <1>4, <1>5, <1>6
<1> QED BY <1>7 DEF item

(* The items of an object, written one by one. *)
Pieces(bridge, inside, o, stack) ==
  [i \in DOMAIN Items(o) |-> PushItem(bridge, inside, o, stack, Items(o)[i])]

LEMMA PiecesType ==
  ASSUME heap \in Heaps, NEW bridge, NEW o \in Objects, NEW stack \in Seq(Objects),
         NEW inside, \A p \in Places : inside[p] \in Seq(Tokens)
  PROVE  /\ Pieces(bridge, inside, o, stack) \in [1..Len(Items(o)) -> Seq(Tokens)]
         /\ FlattenSeq(Pieces(bridge, inside, o, stack)) \in Seq(Tokens)
<1> DEFINE pieces == Pieces(bridge, inside, o, stack)
           k == Len(Items(o))
<1>1. k \in Nat /\ DOMAIN Items(o) = 1..k
  BY HeapTypes
<1>2. pieces \in [1..k -> Seq(Tokens)]
  BY <1>1, PushItemType DEF Pieces
<1> HIDE DEF pieces, k
<1>3. PICK c : Joins(c, Tokens, pieces, k) /\ FlattenSeq(pieces) = c[k]
  BY <1>1, <1>2, Joined
<1>4. c[k] \in Seq(Tokens)
  BY <1>1, <1>3 DEF Joins
<1> QED BY <1>2, <1>3, <1>4 DEF pieces, k

LEMMA PushValueObject ==
  ASSUME NEW bridge, NEW inside, NEW o \in Objects, NEW stack,
         ~Ignored(bridge, o), ~Stops(bridge, o, stack)
  PROVE  PushValue(bridge, inside, o, stack) =
           Header(bridge, o) \o FlattenSeq(Pieces(bridge, inside, o, stack))
             \o Trailer(bridge, o)
<1>1. o \notin Leaves
  BY ValuesAssumption
<1> QED BY <1>1 DEF PushValue, Pieces

LEMMA TrailerType == \A bridge, o : Trailer(bridge, o) \in Seq(Tokens)
<1>1. <<>> \in Seq(Tokens)
  OBVIOUS
<1> QED BY <1>1, TokenTypes DEF Trailer

LEMMA PushType ==
  ASSUME heap \in Heaps, NEW bridge, NEW n \in Nat, NEW p \in Places
  PROVE  Push(bridge)[n][p] \in Seq(Tokens)
<1> DEFINE P == {m \in Nat : \A q \in Places : Push(bridge)[m][q] \in Seq(Tokens)}
<1>1. 0 \in P
  BY PushLevels, TokenTypes
<1>2. ASSUME NEW m \in Nat, m \in P PROVE m + 1 \in P
  <2> DEFINE inside == Push(bridge)[m]
  <2>1. \A q \in Places : inside[q] \in Seq(Tokens)
    BY <1>2
  <2>2. \A q \in Places : Push(bridge)[m + 1][q] = PushValue(bridge, inside, q[1], q[2])
    <3>1. Push(bridge)[m + 1] = [q \in Places |-> PushValue(bridge, inside, q[1], q[2])]
      BY PushLevels
    <3> QED BY <3>1
  <2> HIDE DEF inside
  <2>3. ASSUME NEW q \in Places PROVE PushValue(bridge, inside, q[1], q[2]) \in Seq(Tokens)
    <3> DEFINE val == q[1]
               stack == q[2]
    <3>1. val \in Values /\ stack \in Seq(Objects)
      BY DEF Places
    <3> HIDE DEF val, stack
    <3>2. CASE val \in Leaves
      <4>1. PushValue(bridge, inside, val, stack) = LeafToken(val) BY <3>2 DEF PushValue
      <4> QED BY <4>1, <3>2, TokenTypes DEF val, stack
    <3>3. CASE val \notin Leaves /\ Ignored(bridge, val)
      <4>1. PushValue(bridge, inside, val, stack) = <<>> BY <3>3 DEF PushValue
      <4>2. <<>> \in Seq(Tokens) OBVIOUS
      <4> QED BY <4>1, <4>2 DEF val, stack
    <3>4. CASE /\ val \notin Leaves /\ ~Ignored(bridge, val)
               /\ val \notin Objects \/ Stops(bridge, val, stack)
      <4>1. PushValue(bridge, inside, val, stack) = NullToken BY <3>4 DEF PushValue
      <4> QED BY <4>1, TokenTypes DEF val, stack
    <3>5. CASE val \in Objects /\ ~Ignored(bridge, val) /\ ~Stops(bridge, val, stack)
      <4> DEFINE F == FlattenSeq(Pieces(bridge, inside, val, stack))
                 H == Header(bridge, val)
                 T == Trailer(bridge, val)
      <4>1. PushValue(bridge, inside, val, stack) = H \o F \o T
        BY <3>5, PushValueObject
      <4>2. F \in Seq(Tokens) BY <2>1, <3>1, <3>5, PiecesType
      <4>3. H \in Seq(Tokens) BY <3>5, HeaderType
      <4>4. T \in Seq(Tokens) BY TrailerType
      <4> HIDE DEF F, H, T
      <4>5. H \o F \o T \in Seq(Tokens) BY <4>2, <4>3, <4>4, ConcatProperties
      <4> QED BY <4>1, <4>5 DEF val, stack
    <3> QED BY <3>2, <3>3, <3>4, <3>5
  <2> QED BY <2>2, <2>3
<1> HIDE DEF P
<1>3. Nat \subseteq P
  BY <1>1, <1>2, Counting
<1> QED BY <1>3 DEF P

-----------------------------------------------------------------------------
(* Reading.                                                                *)

(* What a key is looked up in the cache for is the key itself, whatever    *)
(* the cache has seen.                                                     *)
LEMMA NamedProperties ==
  ASSUME NEW reader, NEW cache \in Caches, NEW key \in Keys \cup {NoKey}
  PROVE  /\ Named(reader, cache, key).name = key
         /\ Named(reader, cache, key).cache \in Caches
<1> DEFINE slot == SlotOf(cache, key)
           new == [cache EXCEPT ![slot] = key]
<1>1. new \in Caches
  <2>1. PICK count \in {0, SystemCount, LocalCount} :
          cache \in [0..(count - 1) -> Keys \cup {NoKey}]
    BY DEF Caches
  <2> HIDE DEF slot
  <2>2. new \in [0..(count - 1) -> Keys \cup {NoKey}]
    BY <2>1
  <2> HIDE DEF new
  <2> QED BY <2>2 DEF Caches
<1>2. CASE reader # "jsc"
  <2>1. Named(reader, cache, key) = [name |-> key, cache |-> cache]
    BY <1>2 DEF Named
  <2> QED BY <2>1
<1>3. CASE reader = "jsc" /\ ~Short(key)
  <2>1. Named(reader, cache, key) = [name |-> key, cache |-> cache]
    BY <1>3 DEF Named, makeIdentifer
  <2> QED BY <2>1
<1>4. CASE reader = "jsc" /\ Short(key) /\ SameKey(cache[slot], key)
  <2>1. Named(reader, cache, key) = [name |-> cache[slot], cache |-> cache]
    BY <1>4 DEF Named, makeIdentifer
  <2>2. cache[slot] = key
    BY <1>4 DEF SameKey
  <2> QED BY <2>1, <2>2
<1>5. CASE reader = "jsc" /\ Short(key) /\ ~SameKey(cache[slot], key)
  <2>1. Named(reader, cache, key) = [name |-> key, cache |-> new]
    BY <1>5 DEF Named, makeIdentifer
  <2> HIDE DEF new
  <2> QED BY <2>1, <1>1
<1> QED BY <1>2, <1>3, <1>4, <1>5

LEMMA TokenFields ==
  ASSUME NEW token \in Tokens
  PROVE  /\ token.tag \in {"null", "leaf", "key", "array", "map"}
         /\ token.size \in Nat
         /\ token.tag = "key" => token.data \in Keys
BY DEF Tokens

LEMMA TokenAtType ==
  ASSUME buffer \in Seq(Tokens), NEW at \in Nat \ {0}
  PROVE  /\ TokenAt(at) \in Tokens
         /\ KeyAt(at) \in Keys \cup {NoKey}
<1>1. TokenAt(at) \in Tokens
  <2>1. CASE wson_has_next(at)
    <3>1. at \in 1..Len(buffer) BY <2>1 DEF wson_has_next
    <3>2. buffer[at] \in Tokens BY <3>1
    <3> QED BY <2>1, <3>2 DEF TokenAt
  <2>2. CASE ~wson_has_next(at)
    <3>1. Token("null", 0, Null) \in Tokens BY DEF Token, Tokens
    <3> QED BY <2>2, <3>1 DEF TokenAt
  <2> QED BY <2>1, <2>2
<1>2. TokenAt(at).tag = "key" => TokenAt(at).data \in Keys
  BY <1>1, TokenFields
<1> QED BY <1>1, <1>2 DEF KeyAt

(* The values inside are read to some place, with some cache. *)
Moves(inside) ==
  \A p \in Positions : inside[p].at \in Nat \ {0} /\ inside[p].cache \in Caches

ReadStates(inside) ==
  [at : Nat \ {0}, cache : Caches,
   items : Seq([key : Keys \cup {NoKey}, val : {inside[p].val : p \in Positions}])]

LEMMA ReadItemType ==
  ASSUME buffer \in Seq(Tokens), NEW reader, NEW tag, NEW inside, Moves(inside),
         NEW s \in ReadStates(inside)
  PROVE  ReadItem(reader, tag, inside, s) \in ReadStates(inside)
<1> DEFINE I == [key : Keys \cup {NoKey}, val : {inside[p].val : p \in Positions}]
           key == IF tag = "map" THEN Named(reader, s.cache, KeyAt(s.at))
                                 ELSE [name |-> NoKey, cache |-> s.cache]
           at == IF tag = "map" THEN s.at + 1 ELSE s.at
           read == inside[<<at, key.cache>>]
           item == [key |-> key.name, val |-> read.val]
           new == [at |-> read.at, cache |-> read.cache, items |-> Append(s.items, item)]
<1>1. s.at \in Nat \ {0} /\ s.cache \in Caches /\ s.items \in Seq(I)
  BY DEF ReadStates
<1>2. key.name \in Keys \cup {NoKey} /\ key.cache \in Caches
  BY <1>1, NamedProperties, TokenAtType
<1>3. <<at, key.cache>> \in Positions
  BY <1>1, <1>2 DEF Positions
<1>4. read.at \in Nat \ {0} /\ read.cache \in Caches
      /\ read.val \in {inside[p].val : p \in Positions}
  BY <1>3 DEF Moves
<1>5. item \in I
  BY <1>2, <1>4
<1>6. Append(s.items, item) \in Seq(I)
  <2> HIDE DEF I, item
  <2> QED BY <1>1, <1>5, AppendProperties
<1>7. new \in ReadStates(inside)
  <2> HIDE DEF read, item
  <2> QED BY <1>4, <1>6 DEF ReadStates
<1>8. ReadItem(reader, tag, inside, s) = IF GoesOn(reader, tag, s.at) THEN new ELSE s
  BY DEF ReadItem
<1> HIDE DEF new
<1> QED BY <1>7, <1>8

ReadStart(at, cache) == [at |-> at, cache |-> cache, items |-> <<>>]

(* after[k] is where a reader is after k items. *)
ReadOn(after, reader, tag, inside, at, cache) ==
  /\ after \in [Nat -> ReadStates(inside)]
  /\ after[0] = ReadStart(at, cache)
  /\ \A k \in Nat : after[k + 1] = ReadItem(reader, tag, inside, after[k])

LEMMA ReadItemsRun ==
  ASSUME buffer \in Seq(Tokens), NEW reader, NEW tag, NEW inside, Moves(inside),
         NEW at \in Nat \ {0}, NEW cache \in Caches
  PROVE  ReadOn(ReadItems(reader, tag, inside, at, cache), reader, tag, inside, at, cache)
<1> DEFINE S == ReadStates(inside)
           start == ReadStart(at, cache)
           step == [p \in Nat \X S |-> ReadItem(reader, tag, inside, p[2])]
           Is(f) == f = [k \in Nat |-> IF k = 0 THEN start
                                       ELSE ReadItem(reader, tag, inside, f[k - 1])]
<1>1. start \in S
  BY DEF ReadStates, ReadStart
<1>2. step \in [Nat \X S -> S]
  BY ReadItemType
<1>3. PICK f \in [Nat -> S] : Follows(f, start, step)
  <2> HIDE DEF S, start, step
  <2> QED BY <1>1, <1>2, Recursion
<1>4. Is(f)
  <2> DEFINE h == [k \in Nat |-> IF k = 0 THEN start
                                 ELSE ReadItem(reader, tag, inside, f[k - 1])]
  <2>1. ASSUME NEW k \in Nat PROVE f[k] = h[k]
    <3>1. CASE k = 0
      BY <3>1, <1>3 DEF Follows
    <3>2. CASE k # 0
      <4>1. k - 1 \in Nat /\ (k - 1) + 1 = k /\ <<k - 1, f[k - 1]>> \in Nat \X S
        BY <3>2
      <4>2. f[(k - 1) + 1] = step[<<k - 1, f[k - 1]>>]
        BY <1>3, <4>1 DEF Follows
      <4> QED BY <3>2, <4>1, <4>2
    <3> QED BY <3>1, <3>2
  <2> HIDE DEF step, start, S
  <2>2. f = h
    BY <2>1
  <2> QED BY <2>2
<1> DEFINE g == ReadItems(reader, tag, inside, at, cache)
<1>5. g = CHOOSE e : Is(e)
  BY DEF ReadItems, ReadStart
<1>6. Is(g)
  <2> HIDE DEF Is, g
  <2> QED BY <1>4, <1>5
<1> HIDE DEF g, S, step
<1>7. g[0] = start
  BY <1>6
<1>8. ASSUME NEW k \in Nat PROVE g[k + 1] = ReadItem(reader, tag, inside, g[k])
  <2>1. k + 1 \in Nat /\ k + 1 # 0 /\ (k + 1) - 1 = k
    OBVIOUS
  <2> QED BY <1>6, <2>1
<1>9. g \in [Nat -> S]
  <2> DEFINE P == {k \in Nat : g[k] \in S}
  <2>1. 0 \in P
    BY <1>7, <1>1
  <2>2. ASSUME NEW k \in Nat, k \in P PROVE k + 1 \in P
    <3>1. g[k] \in ReadStates(inside)
      BY <2>2 DEF S
    <3>2. ReadItem(reader, tag, inside, g[k]) \in ReadStates(inside)
      BY <3>1, ReadItemType
    <3>3. g[k + 1] \in S
      BY <3>2, <1>8 DEF S
    <3> QED BY <3>3
  <2> HIDE DEF P
  <2>3. Nat \subseteq P
    BY <2>1, <2>2, Counting
  <2>4. g = [k \in Nat |-> IF k = 0 THEN start
                           ELSE ReadItem(reader, tag, inside, g[k - 1])]
    BY <1>6
  <2>5. DOMAIN g = Nat /\ g = [k \in Nat |-> g[k]]
    BY <2>4
  <2>6. \A k \in Nat : g[k] \in S
    BY <2>3 DEF P
  <2> HIDE DEF start
  <2> QED BY <2>5, <2>6
<1>10. ReadOn(g, reader, tag, inside, at, cache)
  BY <1>7, <1>8, <1>9 DEF ReadOn, S
<1> QED BY <1>10 DEF g

(* A value with something inside, and one without. *)
Container(tag, items) == [kind |-> tag, items |-> items]

LEMMA ReadContainer ==
  ASSUME NEW reader, NEW inside, NEW at, NEW cache, NEW tag \in {"array", "map"}, NEW size,
         TokenAt(at).tag = tag, TokenAt(at).size = size
  PROVE  /\ ReadValue(reader, inside, at, cache).val =
              Container(tag, ReadItems(reader, tag, inside, at + 1, cache)[size].items)
         /\ ReadValue(reader, inside, at, cache).at =
              ReadItems(reader, tag, inside, at + 1, cache)[size].at
         /\ ReadValue(reader, inside, at, cache).cache =
              ReadItems(reader, tag, inside, at + 1, cache)[size].cache
<1> DEFINE read == ReadItems(reader, tag, inside, at + 1, cache)[size]
           val == ReadValue(reader, inside, at, cache)
<1>1. val = [val |-> Container(tag, read.items), at |-> read.at, cache |-> read.cache]
  BY DEF ReadValue, Container
<1> HIDE DEF read, val
<1>2. /\ val.val = Container(tag, read.items)
      /\ val.at = read.at /\ val.cache = read.cache
  BY <1>1
<1> QED BY <1>2 DEF read, val

LEMMA ReadSingle ==
  ASSUME NEW reader, NEW inside, NEW at, NEW cache,
         TokenAt(at).tag \notin {"array", "map"}
  PROVE  /\ ReadValue(reader, inside, at, cache).val =
              IF TokenAt(at).tag = "leaf" THEN TokenAt(at).data ELSE Null
         /\ ReadValue(reader, inside, at, cache).at = at + 1
         /\ ReadValue(reader, inside, at, cache).cache = cache
BY DEF ReadValue

LEMMA ReadMoves ==
  ASSUME buffer \in Seq(Tokens), NEW reader, NEW n \in Nat
  PROVE  Moves(ReadTo(reader)[n])
<1> DEFINE P == {m \in Nat : Moves(ReadTo(reader)[m])}
<1>1. 0 \in P
  <2>1. ASSUME NEW p \in Positions
        PROVE  ReadTo(reader)[0][p].at \in Nat \ {0} /\ ReadTo(reader)[0][p].cache \in Caches
    <3>1. p[1] \in Nat \ {0} /\ p[2] \in Caches
      BY DEF Positions
    <3>2. ReadTo(reader)[0][p] = [val |-> Null, at |-> p[1] + 1, cache |-> p[2]]
      BY ReadLevels
    <3> QED BY <3>1, <3>2
  <2> QED BY <2>1 DEF Moves
<1>2. ASSUME NEW m \in Nat, m \in P PROVE m + 1 \in P
  <2> DEFINE inside == ReadTo(reader)[m]
  <2>1. Moves(inside)
    BY <1>2
  <2>2. \A p \in Positions :
          ReadTo(reader)[m + 1][p] = ReadValue(reader, inside, p[1], p[2])
    <3>1. ReadTo(reader)[m + 1] = [p \in Positions |-> ReadValue(reader, inside, p[1], p[2])]
      BY ReadLevels
    <3> QED BY <3>1
  <2> HIDE DEF inside
  <2>3. ASSUME NEW p \in Positions
        PROVE  /\ ReadValue(reader, inside, p[1], p[2]).at \in Nat \ {0}
               /\ ReadValue(reader, inside, p[1], p[2]).cache \in Caches
    <3> DEFINE i == p[1]
               c == p[2]
               t == TokenAt(i).tag
               z == TokenAt(i).size
               after == ReadItems(reader, t, inside, i + 1, c)
    <3>1. i \in Nat \ {0} /\ c \in Caches
      BY DEF Positions
    <3>2. z \in Nat
      BY <3>1, TokenAtType, TokenFields
    <3>3. after \in [Nat -> ReadStates(inside)]
      <4>1. i + 1 \in Nat \ {0} BY <3>1
      <4>2. ReadOn(after, reader, t, inside, i + 1, c)
        BY <4>1, <3>1, <2>1, ReadItemsRun
      <4> HIDE DEF after
      <4> QED BY <4>2 DEF ReadOn
    <3>4. after[z].at \in Nat \ {0} /\ after[z].cache \in Caches
      <4>1. after[z] \in ReadStates(inside) BY <3>2, <3>3
      <4> QED BY <4>1 DEF ReadStates
    <3>5. i + 1 \in Nat \ {0}
      BY <3>1
    <3>6. CASE t \in {"array", "map"}
      <4> HIDE DEF i, c, t, z
      <4>2. TokenAt(i).tag = t /\ TokenAt(i).size = z
        BY DEF t, z
      <4>3. /\ ReadValue(reader, inside, i, c).at
                 = ReadItems(reader, t, inside, i + 1, c)[z].at
            /\ ReadValue(reader, inside, i, c).cache
                 = ReadItems(reader, t, inside, i + 1, c)[z].cache
        BY <3>1, <3>6, <4>2, ReadContainer
      <4>1. /\ ReadValue(reader, inside, i, c).at = after[z].at
            /\ ReadValue(reader, inside, i, c).cache = after[z].cache
        BY <4>3
      <4> QED BY <4>1, <3>4 DEF i, c
    <3>7. CASE t \notin {"array", "map"}
      <4> HIDE DEF i, c
      <4>1. /\ ReadValue(reader, inside, i, c).at = i + 1
            /\ ReadValue(reader, inside, i, c).cache = c
        BY <3>7, ReadSingle
      <4> QED BY <4>1, <3>1, <3>5 DEF i, c
    <3> QED BY <3>6, <3>7
  <2> QED BY <2>2, <2>3 DEF Moves
<1> HIDE DEF P
<1>3. Nat \subseteq P
  BY <1>1, <1>2, Counting
<1> QED BY <1>3 DEF P

-----------------------------------------------------------------------------
(* Tokens in the buffer, behind the first n.                               *)
Behind(n, tokens) == Lies(buffer, n, tokens)

LEMMA BehindJoined ==
  ASSUME NEW n \in Nat, NEW s \in Seq(Tokens), NEW t \in Seq(Tokens), Behind(n, s \o t),
         buffer \in Seq(Tokens)
  PROVE  /\ Behind(n, s) /\ Behind(n + Len(s), t)
         /\ Len(s \o t) = Len(s) + Len(t)
BY LiesJoined DEF Behind

LEMMA BehindFirst ==
  ASSUME NEW n \in Nat, NEW s \in Seq(Tokens), Behind(n, s), Len(s) >= 1,
         buffer \in Seq(Tokens)
  PROVE  TokenAt(n + 1) = s[1] /\ wson_has_next(n + 1)
<1>1. Len(s) \in Nat /\ Len(buffer) \in Nat /\ 1 \in 1..Len(s)
  OBVIOUS
<1>2. n + 1 <= Len(buffer) /\ buffer[n + 1] = s[1]
  BY <1>1 DEF Behind, Lies
<1> QED BY <1>2 DEF TokenAt, wson_has_next

(* Joined sequences behind the first n lie one behind the other. *)
LEMMA BehindJoins ==
  ASSUME NEW n \in Nat, NEW k \in Nat, NEW seqs \in [1..k -> Seq(Tokens)],
         NEW c, Joins(c, Tokens, seqs, k), Behind(n, c[k]), buffer \in Seq(Tokens),
         NEW i \in 1..k
  PROVE  /\ Behind(n + Len(c[i - 1]), seqs[i])
         /\ Len(c[i]) = Len(c[i - 1]) + Len(seqs[i])
         /\ Len(seqs[i]) <= Len(c[k])
<1>1. PartsLie(buffer, n, c, seqs, k)
  BY JoinsLie DEF Behind
<1> QED BY <1>1 DEF PartsLie, Behind

-----------------------------------------------------------------------------
(* The items of an object, meant and read.                                 *)

Plains(bridge, inside, o, path) ==
  [i \in DOMAIN Items(o) |-> PlainItem(bridge, inside, o, path, Items(o)[i])]

(* How many items of an object follow its header. *)
Following(bridge, o) ==
  IF Kind(o) = "array" THEN Len(Items(o))
  ELSE Len(Items(o))
         - Cardinality({i \in DOMAIN Items(o) : Skipped(bridge, Items(o)[i].second)})

Entries(plains) == {plains[i][1] : i \in DOMAIN plains}

LEMMA SkippedIsDropped ==
  ASSUME NEW bridge \in Writers, NEW val
  PROVE  Skipped(bridge, val) <=> val \in Dropped(bridge)
BY DEF Writers, Skipped, Dropped

LEMMA PlainItemCases ==
  ASSUME NEW bridge \in Writers, NEW inside, NEW o, NEW path, NEW item
  PROVE  LET plain == PlainItem(bridge, inside, o, path, item)
         IN  /\ Kind(o) # "array" /\ Skipped(bridge, item.second) => plain = <<>>
             /\ Kind(o) = "array" \/ ~Skipped(bridge, item.second) =>
                  plain = <<plain[1]>>
<1> DEFINE val == inside[<<call_object_js_value_to_json(item.second), Append(path, o)>>]
<1>1. PlainItem(bridge, inside, o, path, item) =
        IF Kind(o) = "array" THEN <<[key |-> NoKey, val |-> val]>>
        ELSE IF Skipped(bridge, item.second) THEN <<>>
        ELSE <<[key |-> item.key, val |-> val]>>
  BY SkippedIsDropped DEF PlainItem
<1> HIDE DEF val
<1> QED BY <1>1

LEMMA PlainsType ==
  ASSUME heap \in Heaps, NEW bridge \in Writers, NEW inside, NEW o \in Objects, NEW path
  PROVE  LET plains == Plains(bridge, inside, o, path)
         IN  plains \in [1..Len(Items(o)) -> Seq(Entries(plains))]
<1> DEFINE plains == Plains(bridge, inside, o, path)
           k == Len(Items(o))
<1>1. k \in Nat /\ DOMAIN Items(o) = 1..k
  BY HeapTypes
<1>2. DOMAIN plains = 1..k /\ plains = [i \in 1..k |-> plains[i]]
  BY <1>1 DEF Plains
<1>3. ASSUME NEW i \in 1..k PROVE plains[i] \in Seq(Entries(plains))
  <2>1. plains[i] = PlainItem(bridge, inside, o, path, Items(o)[i])
    BY <1>1 DEF Plains
  <2> HIDE DEF plains
  <2>2. plains[i] = <<>> \/ plains[i] = <<plains[i][1]>>
    BY <2>1, PlainItemCases
  <2>3. plains[i][1] \in Entries(plains)
    BY <1>2 DEF Entries
  <2> HIDE DEF k
  <2>4. <<plains[i][1]>> \in Seq(Entries(plains))
    BY <2>3
  <2>5. <<>> \in Seq(Entries(plains))
    OBVIOUS
  <2> QED BY <2>2, <2>4, <2>5
<1> HIDE DEF plains, k
<1>4. plains \in [1..k -> Seq(Entries(plains))]
  BY <1>2, <1>3
<1> QED BY <1>4 DEF plains, k

LEMMA PlainCount ==
  ASSUME heap \in Heaps, NEW bridge \in Writers, NEW inside, NEW o \in Objects, NEW path,
         NEW S, NEW d, Joins(d, S, Plains(bridge, inside, o, path), Len(Items(o)))
  PROVE  Len(d[Len(Items(o))]) = Following(bridge, o)
<1> DEFINE plains == Plains(bridge, inside, o, path)
           k == Len(Items(o))
           Out(j) == {i \in 1..j : Skipped(bridge, Items(o)[i].second)}
           P == {j \in Nat : j <= k =>
                   IF Kind(o) = "array" THEN Len(d[j]) = j
                   ELSE Len(d[j]) + Cardinality(Out(j)) = j}
<1>1. k \in Nat /\ DOMAIN Items(o) = 1..k
  BY HeapTypes
<1>2. \A j \in Nat : d[j] \in Seq(S) /\ Len(d[j]) \in Nat
  BY DEF Joins
<1>3. 0 \in P
  <2>1. Out(0) = {} OBVIOUS
  <2>2. Cardinality({}) = 0 BY FS_EmptySet
  <2>3. Len(d[0]) = 0 BY DEF Joins
  <2> QED BY <2>1, <2>2, <2>3
<1>4. ASSUME NEW j \in Nat, j \in P PROVE j + 1 \in P
  <2> SUFFICES ASSUME j + 1 <= k
               PROVE  IF Kind(o) = "array" THEN Len(d[j + 1]) = j + 1
                      ELSE Len(d[j + 1]) + Cardinality(Out(j + 1)) = j + 1
    OBVIOUS
  <2> DEFINE plain == PlainItem(bridge, inside, o, path, Items(o)[j + 1])
  <2>1. j + 1 \in 1..k /\ (j + 1) - 1 = j
    BY <1>1
  <2>2. d[j + 1] = d[j] \o plain
    BY <1>1, <2>1 DEF Joins, Plains
  <2>3. IF Kind(o) = "array" THEN Len(d[j]) = j ELSE Len(d[j]) + Cardinality(Out(j)) = j
    BY <1>1, <1>4
  <2>4. IsFiniteSet(Out(j)) /\ Cardinality(Out(j)) \in Nat
    <3> DEFINE T == Out(j)
    <3>1. T \in SUBSET (1..j) OBVIOUS
    <3> HIDE DEF T
    <3>2. IsFiniteSet(T) /\ Cardinality(T) \in 0..j BY <3>1, LeftOut
    <3> QED BY <3>2 DEF T
  <2>5. CASE Kind(o) # "array" /\ Skipped(bridge, Items(o)[j + 1].second)
    <3>1. plain = <<>> BY <2>5, PlainItemCases
    <3>2. d[j + 1] = d[j] BY <2>2, <3>1, <1>2, ConcatEmptySeq
    <3>3. Out(j + 1) = Out(j) \cup {j + 1} /\ j + 1 \notin Out(j) BY <2>5
    <3> HIDE DEF Out
    <3>4. Cardinality(Out(j + 1)) = Cardinality(Out(j)) + 1 BY <2>4, <3>3, FS_AddElement
    <3> QED BY <1>2, <2>3, <2>4, <2>5, <3>2, <3>4
  <2>6. CASE Kind(o) = "array" \/ ~Skipped(bridge, Items(o)[j + 1].second)
    <3>1. plain = <<plain[1]>> BY <2>6, PlainItemCases
    <3> HIDE DEF plain
    <3>2. Len(d[j] \o <<plain[1]>>) = Len(d[j]) + 1 BY <1>2
    <3>3. Len(d[j + 1]) = Len(d[j]) + 1 BY <2>2, <3>1, <3>2
    <3>4. ~Skipped(bridge, Items(o)[j + 1].second) => Out(j + 1) = Out(j) OBVIOUS
    <3> HIDE DEF Out
    <3>5. Len(d[j]) \in Nat
      BY <1>2
    <3>6. CASE Kind(o) = "array"
      BY <2>3, <3>3, <3>6
    <3>7. CASE Kind(o) # "array"
      <4>1. Len(d[j]) + Cardinality(Out(j)) = j /\ Out(j + 1) = Out(j)
        BY <2>3, <2>6, <3>4, <3>7
      <4>2. Len(d[j + 1]) + Cardinality(Out(j + 1)) = j + 1
        BY <2>4, <3>3, <3>5, <4>1
      <4> QED BY <3>7, <4>2
    <3> QED BY <3>6, <3>7
  <2> QED BY <2>5, <2>6
<1> HIDE DEF P
<1>5. Nat \subseteq P
  BY <1>3, <1>4, Counting
<1>6. IF Kind(o) = "array" THEN Len(d[k]) = k ELSE Len(d[k]) + Cardinality(Out(k)) = k
  <2>1. k \in P /\ k <= k
    BY <1>1, <1>5
  <2> HIDE DEF k, Out
  <2> QED BY <2>1 DEF P
<1>7. Out(k) = {i \in DOMAIN Items(o) : Skipped(bridge, Items(o)[i].second)}
  BY <1>1
<1>8. Cardinality(Out(k)) \in Nat
  <2> DEFINE T == Out(k)
  <2>1. T \in SUBSET (1..k) OBVIOUS
  <2> HIDE DEF T, k
  <2>2. Cardinality(T) \in 0..k BY <1>1, <2>1, LeftOut
  <2> QED BY <1>1, <2>2 DEF T
<1>9. Following(bridge, o) = IF Kind(o) = "array" THEN k ELSE k - Cardinality(Out(k))
  BY <1>7 DEF Following
<1> HIDE DEF Out
<1>10. Len(d[k]) \in Nat
  BY <1>1, <1>2
<1> QED BY <1>1, <1>6, <1>8, <1>9, <1>10

-----------------------------------------------------------------------------
(* A value that is not ignored takes a token at least. *)
LEMMA PushNonEmpty ==
  ASSUME heap \in Heaps, NEW bridge, NEW n \in Nat,
         NEW val \in Values, NEW stack \in Seq(Objects), ~Ignored(bridge, val)
  PROVE  Len(Push(bridge)[n][<<val, stack>>]) >= 1
<1> DEFINE p == <<val, stack>>
<1>1. p \in Places /\ p[1] = val /\ p[2] = stack
  BY DEF Places
<1> HIDE DEF p
<1>2. CASE n = 0
  <2>1. Push(bridge)[n][p] = NullToken BY <1>1, <1>2, PushLevels
  <2> QED BY <2>1, TokenTypes DEF p
<1>3. CASE n # 0
  <2> DEFINE inside == Push(bridge)[n - 1]
  <2>1. n - 1 \in Nat /\ (n - 1) + 1 = n BY <1>3
  <2>2. Push(bridge)[n] = [q \in Places |-> PushValue(bridge, inside, q[1], q[2])]
    BY <2>1, PushLevels
  <2>3. \A q \in Places : inside[q] \in Seq(Tokens)
    BY <2>1, PushType
  <2> HIDE DEF inside
  <2>4. Push(bridge)[n][p] = PushValue(bridge, inside, val, stack)
    BY <1>1, <2>2
  <2>5. CASE val \in Leaves
    <3>1. PushValue(bridge, inside, val, stack) = LeafToken(val) BY <2>5 DEF PushValue
    <3> QED BY <2>4, <3>1, TokenTypes DEF p
  <2>6. CASE val \notin Leaves /\ (val \notin Objects \/ Stops(bridge, val, stack))
    <3>1. PushValue(bridge, inside, val, stack) = NullToken BY <2>6 DEF PushValue
    <3> QED BY <2>4, <3>1, TokenTypes DEF p
  <2>7. CASE val \in Objects /\ ~Stops(bridge, val, stack)
    <3> DEFINE F == FlattenSeq(Pieces(bridge, inside, val, stack))
               H == Header(bridge, val)
               T == Trailer(bridge, val)
    <3>1. PushValue(bridge, inside, val, stack) = H \o F \o T
      BY <2>7, PushValueObject
    <3>2. F \in Seq(Tokens) BY <2>3, <2>7, PiecesType
    <3>3. H \in Seq(Tokens) /\ Len(H) = 1 BY <2>7, HeaderType
    <3>4. T \in Seq(Tokens) BY TrailerType
    <3> HIDE DEF F, H, T
    <3>5. Len(H \o F \o T) = Len(H) + Len(F) + Len(T) /\ Len(F) \in Nat /\ Len(T) \in Nat
      <4>1. H \o F \in Seq(Tokens) /\ Len(H \o F) = Len(H) + Len(F)
        BY <3>2, <3>3, ConcatProperties
      <4>2. Len((H \o F) \o T) = Len(H \o F) + Len(T)
        BY <3>4, <4>1, ConcatProperties
      <4> QED BY <3>2, <3>4, <4>1, <4>2
    <3>6. Len(H \o F \o T) >= 1
      BY <3>3, <3>5
    <3> QED BY <2>4, <3>1, <3>6 DEF p
  <2> QED BY <2>5, <2>6, <2>7
<1> QED BY <1>2, <1>3

(* What was read is a tree, up to some position. *)
ReadAs(read, tree, end) == read.val = tree /\ read.at = end

(* Wherever it lies in the buffer, and with enough levels to go, a reader  *)
(* reads what was written for one of the values R as what it stands for.   *)
ReadsPlace(bridge, reader, n, p, m, k, cache) ==
  Behind(k, Push(bridge)[n][p]) /\ Len(Push(bridge)[n][p]) <= m =>
    ReadAs(ReadTo(reader)[m][<<k + 1, cache>>], Plain(bridge)[n][p],
           k + 1 + Len(Push(bridge)[n][p]))

ReadsAt(bridge, reader, n, R) ==
  \A val \in R, stack \in Seq(Objects) :
     ~Ignored(bridge, val) =>
       \A m \in Nat, k \in Nat, cache \in Caches :
          ReadsPlace(bridge, reader, n, <<val, stack>>, m, k, cache)

(* The items of an object that are written are some of the values R. *)
ItemsIn(bridge, o, R) ==
  \A i \in DOMAIN Items(o) :
     Kind(o) = "array" \/ ~Skipped(bridge, Items(o)[i].second) =>
       /\ Given(bridge, Items(o)[i].second)
            = call_object_js_value_to_json(Items(o)[i].second)
       /\ Given(bridge, Items(o)[i].second) \in R
       /\ ~Ignored(bridge, Given(bridge, Items(o)[i].second))

(* A piece of n tokens that stands for plain takes a reader from s to next,  *)
(* or is nothing.                                                          *)
Advances(s, next, n, plain) ==
  \/ n = 0 /\ plain = <<>>
  \/ /\ plain = <<plain[1]>>
     /\ next.items = Append(s.items, plain[1])
     /\ next.at = s.at + n

(* What one item does to a reader that is at it. *)
LEMMA OneItem ==
  ASSUME heap \in Heaps, buffer \in Seq(Tokens),
         NEW bridge \in Writers, NEW reader \in Readers, NEW n \in Nat,
         NEW R \in SUBSET Values, ReadsAt(bridge, reader, n, R),
         NEW o \in Objects, ItemsIn(bridge, o, R), NEW stack \in Seq(Objects),
         NEW i \in DOMAIN Items(o), NEW m \in Nat, NEW k \in Nat,
         NEW s \in ReadStates(ReadTo(reader)[m]), s.at = k + 1,
         Behind(k, PushItem(bridge, Push(bridge)[n], o, stack, Items(o)[i])),
         Len(PushItem(bridge, Push(bridge)[n], o, stack, Items(o)[i])) <= m
  PROVE  Advances(s, ReadItem(reader, Kind(o), ReadTo(reader)[m], s),
                  Len(PushItem(bridge, Push(bridge)[n], o, stack, Items(o)[i])),
                  PlainItem(bridge, Plain(bridge)[n], o, stack, Items(o)[i]))
<1> DEFINE item == Items(o)[i]
           val == Given(bridge, item.second)
           p == <<val, Append(stack, o)>>
           w == Push(bridge)[n][p]
           tree == Plain(bridge)[n][p]
           inside == ReadTo(reader)[m]
           piece == PushItem(bridge, Push(bridge)[n], o, stack, item)
           plain == PlainItem(bridge, Plain(bridge)[n], o, stack, item)
           next == ReadItem(reader, Kind(o), inside, s)
<1>1. item.second \in Values /\ (Kind(o) = "map" => item.key \in Keys)
      /\ Kind(o) \in {"array", "map"}
  BY HeapTypes
<1>2. p \in Places /\ Append(stack, o) \in Seq(Objects)
  BY <1>1, PlaceInside, AppendProperties
<1>3. w \in Seq(Tokens) /\ Len(w) \in Nat
  BY <1>2, PushType
<1>4. s.at = k + 1 /\ s.cache \in Caches
  BY DEF ReadStates
<1>5. CASE Kind(o) # "array" /\ Skipped(bridge, item.second)
  <2>1. piece = <<>> BY <1>5 DEF PushItem
  <2>2. plain = <<>> BY <1>5, PlainItemCases
  <2>3. Len(piece) = 0 BY <2>1
  <2> HIDE DEF piece, plain, next
  <2>4. Advances(s, next, Len(piece), plain) BY <2>2, <2>3 DEF Advances
  <2> QED BY <2>4 DEF piece, plain, next
<1>6. ASSUME Kind(o) = "array" \/ ~Skipped(bridge, item.second)
      PROVE  /\ val = call_object_js_value_to_json(item.second)
             /\ Len(w) >= 1
             /\ \A j \in Nat, cache \in Caches :
                  Behind(j, w) /\ Len(w) <= m =>
                    /\ inside[<<j + 1, cache>>].val = tree
                    /\ inside[<<j + 1, cache>>].at = j + 1 + Len(w)
  <2>1. /\ val = call_object_js_value_to_json(item.second)
        /\ val \in R /\ ~Ignored(bridge, val)
    BY <1>6 DEF ItemsIn
  <2>2. Len(w) >= 1
    <3>1. val \in Values BY <2>1
    <3> HIDE DEF val
    <3> QED BY <1>2, <2>1, <3>1, PushNonEmpty
  <2>3. \A j \in Nat, cache \in Caches :
          Behind(j, w) /\ Len(w) <= m =>
            /\ inside[<<j + 1, cache>>].val = tree
            /\ inside[<<j + 1, cache>>].at = j + 1 + Len(w)
    <3> HIDE DEF val
    <3>1. \A j \in Nat, cache \in Caches : ReadsPlace(bridge, reader, n, p, m, j, cache)
      BY <1>2, <2>1 DEF ReadsAt
    <3> QED BY <3>1 DEF ReadsPlace, ReadAs
  <2> QED BY <2>1, <2>2, <2>3
<1>7. CASE Kind(o) = "array"
  <2>1. piece = w /\ plain = <<[key |-> NoKey, val |-> tree]>>
    BY <1>6, <1>7 DEF PushItem, PlainItem
  <2>2. Behind(k, w) /\ Len(w) <= m
    BY <2>1
  <2>3. wson_has_next(k + 1)
    <3> HIDE DEF w
    <3> QED BY <1>3, <1>6, <1>7, <2>2, BehindFirst
  <2>4. /\ inside[<<k + 1, s.cache>>].val = tree
        /\ inside[<<k + 1, s.cache>>].at = k + 1 + Len(w)
    <3> HIDE DEF w, inside, tree, val
    <3> QED BY <1>4, <1>6, <1>7, <2>2
  <2> DEFINE read == inside[<<k + 1, s.cache>>]
  <2>5. next = [at |-> read.at, cache |-> read.cache,
                items |-> Append(s.items, [key |-> NoKey, val |-> read.val])]
    BY <1>4, <1>7, <2>3 DEF ReadItem, GoesOn
  <2> HIDE DEF read, next, plain, piece, w, tree
  <2>6. plain[1] = [key |-> NoKey, val |-> tree] /\ plain = <<plain[1]>>
    BY <2>1
  <2>7. next.at = read.at /\ next.items = Append(s.items, [key |-> NoKey, val |-> read.val])
    BY <2>5
  <2>8. read.val = tree /\ read.at = k + 1 + Len(piece)
    BY <2>1, <2>4 DEF read
  <2>9. next.items = Append(s.items, plain[1]) /\ next.at = k + 1 + Len(piece)
    BY <2>6, <2>7, <2>8
  <2>10. Advances(s, next, Len(piece), plain)
    BY <1>4, <2>6, <2>9 DEF Advances
  <2> QED BY <2>10 DEF next, plain, piece
<1>8. CASE Kind(o) # "array" /\ ~Skipped(bridge, item.second)
  <2> DEFINE key == item.key
             named == Named(reader, s.cache, key)
  <2>1. piece = KeyToken(key) \o w /\ plain = <<[key |-> key, val |-> tree]>>
    <3>1. piece = KeyToken(key) \o w
      BY <1>8 DEF PushItem
    <3>2. item.second \notin Dropped(bridge)
      BY <1>8, SkippedIsDropped
    <3>3. tree = Plain(bridge)[n][<<call_object_js_value_to_json(item.second), Append(stack, o)>>]
      BY <1>6, <1>8
    <3>4. plain = <<[key |-> key, val |-> tree]>>
      <4> HIDE DEF tree
      <4> QED BY <1>8, <3>2, <3>3 DEF PlainItem
    <3> QED BY <3>1, <3>4
  <2>2. key \in Keys /\ Kind(o) = "map"
    BY <1>1, <1>8
  <2>3. /\ KeyToken(key) \in Seq(Tokens) /\ Len(KeyToken(key)) = 1
        /\ KeyToken(key)[1] = Token("key", 0, key)
    BY <2>2, TokenTypes
  <2>4. /\ Behind(k, KeyToken(key)) /\ Behind(k + 1, w)
        /\ Len(piece) = 1 + Len(w) /\ Len(w) <= m
    <3>1. Behind(k, piece) /\ Len(piece) <= m
      OBVIOUS
    <3> HIDE DEF piece, w, key
    <3>2. Behind(k, KeyToken(key) \o w)
      BY <2>1, <3>1
    <3>3. /\ Behind(k, KeyToken(key)) /\ Behind(k + Len(KeyToken(key)), w)
          /\ Len(KeyToken(key) \o w) = Len(KeyToken(key)) + Len(w)
      BY <1>3, <2>3, <3>2, BehindJoined
    <3>4. Len(piece) = 1 + Len(w)
      BY <2>1, <2>3, <3>3
    <3> QED BY <1>3, <2>3, <3>1, <3>3, <3>4
  <2>5. TokenAt(k + 1) = Token("key", 0, key) /\ wson_has_next(k + 1)
    <3> DEFINE t == KeyToken(key)
    <3>1. t \in Seq(Tokens) /\ Len(t) >= 1 /\ Behind(k, t) /\ t[1] = Token("key", 0, key)
      BY <2>3, <2>4
    <3> HIDE DEF t
    <3>2. TokenAt(k + 1) = t[1] /\ wson_has_next(k + 1)
      BY <3>1, BehindFirst
    <3> QED BY <3>1, <3>2
  <2>6. KeyAt(k + 1) = key
    <3> HIDE DEF key
    <3>1. Token("key", 0, key).tag = "key" /\ Token("key", 0, key).data = key
      BY DEF Token
    <3> QED BY <2>5, <3>1 DEF KeyAt
  <2>7. named.name = key /\ named.cache \in Caches
    BY <1>4, <2>2, NamedProperties
  <2> DEFINE read == inside[<<(k + 1) + 1, named.cache>>]
  <2>8. read.val = tree /\ read.at = (k + 1) + 1 + Len(w)
    <3> HIDE DEF w, inside, tree, val, named
    <3> QED BY <1>6, <1>8, <2>4, <2>7
  <2>9. next = [at |-> read.at, cache |-> read.cache,
                items |-> Append(s.items, [key |-> key, val |-> read.val])]
    <3>1. next = [at |-> read.at, cache |-> read.cache,
                  items |-> Append(s.items, [key |-> named.name, val |-> read.val])]
      <4> HIDE DEF key, item
      <4> QED BY <1>4, <2>2, <2>5, <2>6 DEF ReadItem, GoesOn
    <3> HIDE DEF named, key, read, next
    <3> QED BY <3>1, <2>7
  <2> HIDE DEF read, next, plain, piece, w, tree, key
  <2>10. plain[1] = [key |-> key, val |-> tree] /\ plain = <<plain[1]>>
    BY <2>1
  <2>11. next.at = read.at /\ next.items = Append(s.items, [key |-> key, val |-> read.val])
    BY <2>9
  <2>12. read.val = tree /\ read.at = k + 1 + Len(piece)
    BY <1>3, <2>4, <2>8
  <2>13. next.items = Append(s.items, plain[1]) /\ next.at = k + 1 + Len(piece)
    BY <2>10, <2>11, <2>12
  <2>14. Advances(s, next, Len(piece), plain)
    BY <1>4, <2>10, <2>13 DEF Advances
  <2> QED BY <2>14 DEF next, plain, piece
<1> QED BY <1>5, <1>7, <1>8

(* The items that follow the header of an object have been read.           *)
ItemsDone(after, bridge, o, items, end) ==
  /\ Following(bridge, o) \in Nat
  /\ after[Following(bridge, o)].items = items
  /\ after[Following(bridge, o)].at = end

(* What all of them do. *)
LEMMA ItemsRead ==
  ASSUME heap \in Heaps, buffer \in Seq(Tokens),
         NEW bridge \in Writers, NEW reader \in Readers, NEW n \in Nat,
         NEW R \in SUBSET Values, ReadsAt(bridge, reader, n, R),
         NEW o \in Objects, ItemsIn(bridge, o, R), NEW stack \in Seq(Objects),
         NEW m \in Nat, NEW k \in Nat, NEW cache \in Caches,
         Behind(k, FlattenSeq(Pieces(bridge, Push(bridge)[n], o, stack))),
         Len(FlattenSeq(Pieces(bridge, Push(bridge)[n], o, stack))) <= m
  PROVE  ItemsDone(
           ReadItems(reader, Kind(o), ReadTo(reader)[m], k + 1, cache), bridge, o,
           FlattenSeq(Plains(bridge, Plain(bridge)[n], o, stack)),
           k + 1 + Len(FlattenSeq(Pieces(bridge, Push(bridge)[n], o, stack))))
<1> DEFINE pieces == Pieces(bridge, Push(bridge)[n], o, stack)
           plains == Plains(bridge, Plain(bridge)[n], o, stack)
           z == Len(Items(o))
           inside == ReadTo(reader)[m]
           after == ReadItems(reader, Kind(o), inside, k + 1, cache)
           E == Entries(plains)
<1>1. z \in Nat /\ DOMAIN Items(o) = 1..z
  BY HeapTypes
<1>2. pieces \in [1..z -> Seq(Tokens)]
  BY PushType, PiecesType
<1>3. PICK c : Joins(c, Tokens, pieces, z) /\ FlattenSeq(pieces) = c[z]
  <2> HIDE DEF pieces, z
  <2> QED BY <1>1, <1>2, Joined
<1>4. plains \in [1..z -> Seq(E)]
  BY PlainsType
<1>5. PICK d : Joins(d, E, plains, z) /\ FlattenSeq(plains) = d[z]
  <2> HIDE DEF plains, z, E
  <2> QED BY <1>1, <1>4, Joined
<1>6. Len(d[z]) = Following(bridge, o)
  BY <1>5, PlainCount
<1>7. Moves(inside)
  BY ReadMoves
<1>8. /\ after \in [Nat -> ReadStates(inside)]
      /\ after[0] = ReadStart(k + 1, cache)
      /\ \A j \in Nat : after[j + 1] = ReadItem(reader, Kind(o), inside, after[j])
  <2>1. k + 1 \in Nat \ {0} OBVIOUS
  <2> HIDE DEF inside
  <2>2. ReadOn(after, reader, Kind(o), inside, k + 1, cache)
    BY <1>7, <2>1, ReadItemsRun
  <2> HIDE DEF after
  <2> QED BY <2>2 DEF ReadOn
<1> HIDE DEF after, inside, pieces, plains, E, z
<1> DEFINE Done(j) == /\ after[Len(d[j])].items = d[j]
                      /\ after[Len(d[j])].at = k + 1 + Len(c[j])
           P == {j \in Nat : j <= z => Done(j)}
<1>9. \A j \in Nat : /\ d[j] \in Seq(E) /\ Len(d[j]) \in Nat
                     /\ c[j] \in Seq(Tokens) /\ Len(c[j]) \in Nat
  BY <1>3, <1>5, JoinsType
<1>10. 0 \in P
  <2>1. d[0] = <<>> /\ c[0] = <<>>
    BY <1>3, <1>5 DEF Joins
  <2>2. after[0].items = <<>> /\ after[0].at = k + 1
    BY <1>8 DEF ReadStart
  <2>3. Len(d[0]) = 0 /\ k + 1 + Len(c[0]) = k + 1
    BY <2>1
  <2>4. Done(0)
    BY <2>1, <2>2, <2>3
  <2> HIDE DEF Done
  <2> QED BY <2>4
<1>11. ASSUME NEW j \in Nat, j \in P PROVE j + 1 \in P
  <2> SUFFICES ASSUME j + 1 <= z PROVE Done(j + 1)
    <3> HIDE DEF Done
    <3> QED OBVIOUS
  <2>1. j + 1 \in 1..z /\ (j + 1) - 1 = j /\ j <= z
    BY <1>1
  <2> DEFINE s == after[Len(d[j])]
             piece == PushItem(bridge, Push(bridge)[n], o, stack, Items(o)[j + 1])
             plain == PlainItem(bridge, Plain(bridge)[n], o, stack, Items(o)[j + 1])
             next == ReadItem(reader, Kind(o), inside, s)
             q == k + Len(c[j])
  <2>2. s.items = d[j] /\ s.at = k + 1 + Len(c[j])
    <3>1. Done(j)
      <4> HIDE DEF Done
      <4> QED BY <1>11, <2>1
    <3> QED BY <3>1
  <2>3. pieces[j + 1] = piece /\ plains[j + 1] = plain
    BY <1>1, <2>1 DEF Pieces, Plains, pieces, plains
  <2>4. /\ Behind(k + Len(c[j]), piece)
        /\ Len(c[j + 1]) = Len(c[j]) + Len(piece)
        /\ Len(piece) <= Len(c[z])
    <3>1. Behind(k, c[z])
      BY <1>3 DEF pieces
    <3> HIDE DEF piece
    <3>2. /\ Behind(k + Len(c[(j + 1) - 1]), pieces[j + 1])
          /\ Len(c[j + 1]) = Len(c[(j + 1) - 1]) + Len(pieces[j + 1])
          /\ Len(pieces[j + 1]) <= Len(c[z])
      BY <1>1, <1>2, <1>3, <2>1, <3>1, BehindJoins
    <3> QED BY <2>1, <2>3, <3>2
  <2>5. d[j + 1] = d[j] \o plain
    <3> HIDE DEF plain
    <3> QED BY <1>5, <2>1, <2>3 DEF Joins
  <2>6. Len(c[z]) <= m /\ Len(c[z]) \in Nat /\ Len(c[j]) \in Nat /\ Len(c[j + 1]) \in Nat
    <3>1. Len(c[z]) <= m
      BY <1>3 DEF pieces
    <3> QED BY <1>1, <1>9, <3>1
  <2>7. piece \in Seq(Tokens) /\ Len(piece) \in Nat
    <3>1. piece \in Seq(Tokens)
      <4> HIDE DEF piece
      <4> QED BY <1>2, <2>1, <2>3
    <3> HIDE DEF piece
    <3> QED BY <3>1
  <2>8. Advances(s, next, Len(piece), plain)
    <3>1. s \in ReadStates(inside)
      <4> QED BY <1>8, <1>9
    <3>2. q \in Nat /\ s.at = q + 1
      <4> DEFINE x == Len(c[j])
      <4>1. x \in Nat /\ s.at = k + 1 + x
        BY <2>2, <2>6
      <4> HIDE DEF s, x
      <4>2. k + x \in Nat /\ s.at = (k + x) + 1
        BY <4>1
      <4> QED BY <4>2 DEF x
    <3>3. j + 1 \in DOMAIN Items(o)
      BY <1>1, <2>1
    <3>4. Len(piece) <= m
      <4> HIDE DEF piece
      <4> QED BY <2>4, <2>6, <2>7
    <3>5. Behind(q, piece)
      BY <2>4
    <3> HIDE DEF s, q
    <3> QED BY <3>1, <3>2, <3>3, <3>4, <3>5, OneItem DEF inside
  <2>9. next = after[Len(d[j]) + 1]
    BY <1>8, <1>9
  <2> HIDE DEF s, piece, plain, next
  <2>10. CASE Len(piece) = 0 /\ plain = <<>>
    <3>1. d[j + 1] = d[j]
      BY <2>5, <2>10, <1>9, ConcatEmptySeq
    <3>2. Len(c[j + 1]) = Len(c[j])
      BY <2>4, <2>6, <2>10
    <3> QED BY <2>2, <3>1, <3>2 DEF s
  <2>11. CASE /\ plain = <<plain[1]>>
              /\ next.items = Append(s.items, plain[1])
              /\ next.at = s.at + Len(piece)
    <3>1. d[j + 1] = Append(d[j], plain[1]) /\ Len(d[j + 1]) = Len(d[j]) + 1
      <4> DEFINE e == plain[1]
      <4>1. plain = <<e>> BY <2>11
      <4> HIDE DEF e
      <4>2. d[j + 1] = d[j] \o <<e>> BY <2>5, <4>1
      <4>3. d[j] \in Seq(E) BY <1>9
      <4>4. d[j] \o <<e>> = Append(d[j], e) /\ Len(Append(d[j], e)) = Len(d[j]) + 1
        BY <4>3, OneMore
      <4> QED BY <4>2, <4>4 DEF e
    <3>2. after[Len(d[j + 1])] = next
      BY <2>9, <3>1
    <3>3. next.items = d[j + 1]
      BY <2>2, <2>11, <3>1
    <3>4. next.at = k + 1 + Len(c[j + 1])
      <4> DEFINE x == Len(c[j])
                 y == Len(piece)
                 u == Len(c[j + 1])
      <4>1. x \in Nat /\ y \in Nat /\ u = x + y /\ s.at = k + 1 + x /\ next.at = s.at + y
        BY <2>2, <2>4, <2>6, <2>7, <2>11
      <4> HIDE DEF x, y, u
      <4>2. next.at = k + 1 + u
        BY <4>1
      <4> QED BY <4>2 DEF u
    <3> QED BY <3>2, <3>3, <3>4
  <2> QED BY <2>8, <2>10, <2>11 DEF Advances
<1> HIDE DEF P
<1>12. Nat \subseteq P
  BY <1>10, <1>11, Counting
<1>13. after[Len(d[z])].items = d[z] /\ after[Len(d[z])].at = k + 1 + Len(c[z])
  <2>1. z \in P /\ z <= z
    BY <1>1, <1>12
  <2> QED BY <2>1 DEF P
<1>14. Following(bridge, o) \in Nat
  BY <1>1, <1>6, <1>9
<1> DEFINE read == after[Following(bridge, o)]
<1>15. read.items = d[z] /\ read.at = k + 1 + Len(c[z])
  BY <1>6, <1>13
<1> HIDE DEF read
<1>16. read.items = FlattenSeq(plains) /\ read.at = k + 1 + Len(FlattenSeq(pieces))
  BY <1>3, <1>5, <1>15
<1>17. ItemsDone(after, bridge, o, FlattenSeq(plains), k + 1 + Len(FlattenSeq(pieces)))
  BY <1>14, <1>16 DEF ItemsDone, read
<1> QED BY <1>17 DEF after, pieces, plains, inside

-----------------------------------------------------------------------------
(* One level of a reader. *)
LEMMA ReadHere ==
  ASSUME NEW reader, NEW m \in Nat, m >= 1, NEW k \in Nat, NEW cache \in Caches
  PROVE  ReadTo(reader)[m][<<k + 1, cache>>]
           = ReadValue(reader, ReadTo(reader)[m - 1], k + 1, cache)
<1>1. m - 1 \in Nat /\ (m - 1) + 1 = m
  OBVIOUS
<1>2. ReadTo(reader)[m] =
        [p \in Positions |-> ReadValue(reader, ReadTo(reader)[m - 1], p[1], p[2])]
  <2>1. ReadTo(reader)[(m - 1) + 1] =
          [p \in Positions |-> ReadValue(reader, ReadTo(reader)[m - 1], p[1], p[2])]
    BY <1>1, ReadLevels
  <2> QED BY <1>1, <2>1
<1>3. <<k + 1, cache>> \in Positions
  BY DEF Positions
<1> QED BY <1>2, <1>3

LEMMA SingleReads ==
  ASSUME buffer \in Seq(Tokens), NEW reader, NEW m \in Nat, m >= 1, NEW k \in Nat,
         NEW cache \in Caches, NEW s \in Seq(Tokens), Len(s) = 1, Behind(k, s),
         s[1].tag \notin {"array", "map"}
  PROVE  ReadAs(ReadTo(reader)[m][<<k + 1, cache>>],
                IF s[1].tag = "leaf" THEN s[1].data ELSE Null, k + 1 + Len(s))
<1> DEFINE inside == ReadTo(reader)[m - 1]
           i == k + 1
           val == ReadValue(reader, inside, i, cache)
<1>1. ReadTo(reader)[m][<<k + 1, cache>>] = val
  BY ReadHere
<1>2. TokenAt(i) = s[1]
  BY BehindFirst
<1>3. /\ val.val = IF TokenAt(i).tag = "leaf" THEN TokenAt(i).data ELSE Null
      /\ val.at = i + 1
  <2> HIDE DEF inside, i
  <2> QED BY <1>2, ReadSingle
<1>4. i + 1 = k + 1 + Len(s)
  OBVIOUS
<1> HIDE DEF val, i
<1>5. ReadAs(val, IF s[1].tag = "leaf" THEN s[1].data ELSE Null, k + 1 + Len(s))
  BY <1>2, <1>3, <1>4 DEF ReadAs
<1> QED BY <1>1, <1>5

(* How many items the header of an object announces. *)
Announced(bridge, o) ==
  IF Kind(o) = "array" THEN Len(Items(o)) ELSE MapSize(bridge, o)

(* What a reader does at a header, as after items had been read. *)
ContainerRead(read, after, bridge, o, items, end) ==
  /\ read.val = Container(Kind(o), after[Announced(bridge, o)].items)
  /\ read.at = after[Announced(bridge, o)].at
  /\ ItemsDone(after, bridge, o, items, end)

LEMMA ContainerReads ==
  ASSUME heap \in Heaps, buffer \in Seq(Tokens),
         NEW bridge \in Writers, NEW reader \in Readers, NEW n \in Nat,
         NEW R \in SUBSET Values, ReadsAt(bridge, reader, n, R),
         NEW o \in Objects, ItemsIn(bridge, o, R), NEW stack \in Seq(Objects),
         NEW m \in Nat, NEW k \in Nat, NEW cache \in Caches,
         Behind(k, Header(bridge, o)
                     \o FlattenSeq(Pieces(bridge, Push(bridge)[n], o, stack))),
         1 + Len(FlattenSeq(Pieces(bridge, Push(bridge)[n], o, stack))) <= m
  PROVE  ContainerRead(
           ReadTo(reader)[m][<<k + 1, cache>>],
           ReadItems(reader, Kind(o), ReadTo(reader)[m - 1], (k + 1) + 1, cache),
           bridge, o, FlattenSeq(Plains(bridge, Plain(bridge)[n], o, stack)),
           (k + 1) + 1 + Len(FlattenSeq(Pieces(bridge, Push(bridge)[n], o, stack))))
<1> DEFINE F == FlattenSeq(Pieces(bridge, Push(bridge)[n], o, stack))
           H == Header(bridge, o)
           inside == ReadTo(reader)[m - 1]
           items == FlattenSeq(Plains(bridge, Plain(bridge)[n], o, stack))
           i == k + 1
           tag == Kind(o)
           after == ReadItems(reader, tag, inside, i + 1, cache)
           read == ReadTo(reader)[m][<<k + 1, cache>>]
           size == Announced(bridge, o)
<1>1. F \in Seq(Tokens) /\ Len(F) \in Nat
  <2>1. F \in Seq(Tokens) BY PushType, PiecesType
  <2> HIDE DEF F
  <2> QED BY <2>1
<1>2. /\ H \in Seq(Tokens) /\ Len(H) = 1
      /\ H[1].tag = tag /\ H[1].size = size
  BY HeaderType DEF Announced
<1>3. Behind(k, H) /\ Behind(k + 1, F)
  <2>1. Behind(k, H \o F)
    OBVIOUS
  <2> HIDE DEF F, H
  <2>2. Behind(k, H) /\ Behind(k + Len(H), F)
    BY <1>1, <1>2, <2>1, BehindJoined
  <2> QED BY <1>2, <2>2
<1>4. m >= 1 /\ m - 1 \in Nat /\ Len(F) <= m - 1
  <2> DEFINE x == Len(F)
  <2>1. x \in Nat /\ 1 + x <= m BY <1>1
  <2> HIDE DEF x
  <2>2. m >= 1 /\ m - 1 \in Nat /\ x <= m - 1 BY <2>1
  <2> QED BY <2>2 DEF x
<1>5. TokenAt(i).tag = tag /\ TokenAt(i).size = size
  <2> HIDE DEF H, tag, size
  <2>1. TokenAt(k + 1) = H[1]
    BY <1>2, <1>3, BehindFirst
  <2> QED BY <1>2, <2>1
<1>6. tag \in {"array", "map"}
  BY HeapTypes
<1>7. read = ReadValue(reader, inside, i, cache)
  BY <1>4, ReadHere
<1>8. /\ read.val = Container(tag, after[size].items)
      /\ read.at = after[size].at
  <2> HIDE DEF tag, size, inside, i, read
  <2>1. /\ ReadValue(reader, inside, i, cache).val =
             Container(tag, ReadItems(reader, tag, inside, i + 1, cache)[size].items)
        /\ ReadValue(reader, inside, i, cache).at =
             ReadItems(reader, tag, inside, i + 1, cache)[size].at
        /\ ReadValue(reader, inside, i, cache).cache =
             ReadItems(reader, tag, inside, i + 1, cache)[size].cache
    BY <1>5, <1>6, ReadContainer
  <2> HIDE DEF after
  <2>2. /\ ReadValue(reader, inside, i, cache).val = Container(tag, after[size].items)
        /\ ReadValue(reader, inside, i, cache).at = after[size].at
    BY <2>1 DEF after
  <2> QED BY <1>7, <2>2
<1>9. ItemsDone(after, bridge, o, items, i + 1 + Len(F))
  <2>1. k + 1 \in Nat OBVIOUS
  <2>2. Behind(k + 1, F) /\ Len(F) <= m - 1 BY <1>3, <1>4
  <2> QED BY <1>4, <2>1, <2>2, ItemsRead
<1>10. ContainerRead(read, after, bridge, o, items, i + 1 + Len(F))
  <2> HIDE DEF read, after, items, i, F
  <2> QED BY <1>8, <1>9 DEF ContainerRead
<1> QED BY <1>10

(* Values R whose items are some of them again, and counted as they are    *)
(* written.                                                                *)
Closed(bridge, R) ==
  \A o \in R \cap Objects :
     /\ ItemsIn(bridge, o, R)
     /\ Announced(bridge, o) = Following(bridge, o)
     /\ Trailer(bridge, o) = <<>>

LEMMA AllRead ==
  ASSUME heap \in Heaps, buffer \in Seq(Tokens),
         NEW bridge \in Writers, NEW reader \in Readers,
         NEW R \in SUBSET Values, Closed(bridge, R), NEW n \in Nat
  PROVE  ReadsAt(bridge, reader, n, R)
<1> DEFINE P == {j \in Nat : ReadsAt(bridge, reader, j, R)}
<1>1. /\ NullToken \in Seq(Tokens) /\ Len(NullToken) = 1
      /\ NullToken[1].tag = "null"
  BY TokenTypes DEF Token
<1>2. 0 \in P
  <2>1. ASSUME NEW val \in R, NEW stack \in Seq(Objects),
               NEW m \in Nat, NEW k \in Nat, NEW cache \in Caches
        PROVE  ReadsPlace(bridge, reader, 0, <<val, stack>>, m, k, cache)
    <3> DEFINE p == <<val, stack>>
    <3>1. p \in Places
      BY DEF Places
    <3> HIDE DEF p
    <3>2. Push(bridge)[0][p] = NullToken /\ Plain(bridge)[0][p] = Null
      BY <3>1, PushLevels, PlainLevels
    <3>3. ASSUME Behind(k, NullToken), Len(NullToken) <= m
          PROVE  ReadAs(ReadTo(reader)[m][<<k + 1, cache>>], Null, k + 1 + Len(NullToken))
      <4>1. m >= 1 /\ NullToken[1].tag \notin {"array", "map"}
        BY <1>1, <3>3
      <4>2. ReadAs(ReadTo(reader)[m][<<k + 1, cache>>],
                   IF NullToken[1].tag = "leaf" THEN NullToken[1].data ELSE Null,
                   k + 1 + Len(NullToken))
        BY <1>1, <3>3, <4>1, SingleReads
      <4> QED BY <1>1, <4>2
    <3>4. ReadsPlace(bridge, reader, 0, p, m, k, cache)
      BY <3>2, <3>3 DEF ReadsPlace
    <3> QED BY <3>4 DEF p
  <2>2. ReadsAt(bridge, reader, 0, R)
    BY <2>1 DEF ReadsAt
  <2> QED BY <2>2
<1>3. ASSUME NEW j \in Nat, j \in P PROVE j + 1 \in P
  <2> DEFINE inside == Push(bridge)[j]
             insides == Plain(bridge)[j]
  <2>1. ASSUME NEW val \in R, NEW stack \in Seq(Objects), ~Ignored(bridge, val),
               NEW m \in Nat, NEW k \in Nat, NEW cache \in Caches
        PROVE  ReadsPlace(bridge, reader, j + 1, <<val, stack>>, m, k, cache)
    <3> DEFINE w == Push(bridge)[j + 1][<<val, stack>>]
               t == Plain(bridge)[j + 1][<<val, stack>>]
               read == ReadTo(reader)[m][<<k + 1, cache>>]
    <3> SUFFICES ASSUME Behind(k, w), Len(w) <= m
                 PROVE  ReadAs(read, t, k + 1 + Len(w))
      BY DEF ReadsPlace
    <3>1. <<val, stack>> \in Places /\ val \in Values
      BY DEF Places
    <3>2. w = PushValue(bridge, inside, val, stack) /\ t = PlainValue(bridge, insides, val, stack)
      <4>1. Push(bridge)[j + 1] = [q \in Places |-> PushValue(bridge, inside, q[1], q[2])]
        BY PushLevels
      <4>2. Plain(bridge)[j + 1] = [q \in Places |-> PlainValue(bridge, insides, q[1], q[2])]
        BY PlainLevels
      <4> HIDE DEF inside, insides
      <4> QED BY <3>1, <4>1, <4>2
    <3>3. Behind(k, w) /\ Len(w) <= m
      OBVIOUS
    <3> HIDE DEF w, t, read, P
    <3>4. CASE val \in Leaves
      <4>1. w = LeafToken(val) /\ t = val
        BY <3>2, <3>4 DEF PushValue, PlainValue
      <4>2. /\ w \in Seq(Tokens) /\ Len(w) = 1 /\ w[1].tag = "leaf" /\ w[1].data = val
        <5>1. w \in Seq(Tokens) /\ Len(w) = 1 /\ w[1] = Token("leaf", 0, val)
          BY <3>4, <4>1, TokenTypes
        <5>2. Token("leaf", 0, val).tag = "leaf" /\ Token("leaf", 0, val).data = val
          BY DEF Token
        <5> QED BY <5>1, <5>2
      <4>3. m >= 1
        BY <3>3, <4>2
      <4>4. ReadAs(read, IF w[1].tag = "leaf" THEN w[1].data ELSE Null, k + 1 + Len(w))
        BY <3>3, <4>2, <4>3, SingleReads DEF read
      <4> QED BY <4>1, <4>2, <4>4
    <3>5. CASE val \notin Leaves /\ (val \notin Objects \/ Stops(bridge, val, stack))
      <4>1. w = NullToken /\ t = Null
        BY <2>1, <3>2, <3>5
           DEF PushValue, PlainValue, Stops, check_js_deep_and_circle_reference, Circle
      <4>2. m >= 1
        BY <1>1, <3>3, <4>1
      <4>3. ReadAs(read, IF w[1].tag = "leaf" THEN w[1].data ELSE Null, k + 1 + Len(w))
        BY <1>1, <3>3, <4>1, <4>2, SingleReads DEF read
      <4> QED BY <1>1, <4>1, <4>3
    <3>6. CASE val \in Objects /\ ~Stops(bridge, val, stack)
      <4> DEFINE F == FlattenSeq(Pieces(bridge, inside, val, stack))
                 H == Header(bridge, val)
                 items == FlattenSeq(Plains(bridge, insides, val, stack))
                 after == ReadItems(reader, Kind(val), ReadTo(reader)[m - 1], (k + 1) + 1, cache)
      <4>1. ItemsIn(bridge, val, R) /\ Announced(bridge, val) = Following(bridge, val)
            /\ Trailer(bridge, val) = <<>>
        BY <3>6 DEF Closed
      <4>2. F \in Seq(Tokens) /\ H \in Seq(Tokens) /\ Len(H) = 1
        BY <3>6, PushType, PiecesType, HeaderType
      <4>3. w = H \o F /\ Len(w) = 1 + Len(F) /\ Len(F) \in Nat
        <5>1. w = H \o F \o Trailer(bridge, val)
          BY <2>1, <3>2, <3>6, PushValueObject
        <5> HIDE DEF F, H
        <5>2. H \o F \in Seq(Tokens) /\ Len(H \o F) = 1 + Len(F) /\ Len(F) \in Nat
          <6>1. H \o F \in Seq(Tokens) /\ Len(H \o F) = Len(H) + Len(F)
            BY <4>2, ConcatProperties
          <6> QED BY <4>2, <6>1
        <5>3. (H \o F) \o <<>> = H \o F
          BY <5>2, ConcatEmptySeq
        <5> QED BY <4>1, <5>1, <5>2, <5>3
      <4>4. t = Container(Kind(val), items)
        <5>1. val \notin Leaves
          BY <3>6, ValuesAssumption
        <5> QED BY <3>2, <3>6, <5>1
                DEF PlainValue, Stops, check_js_deep_and_circle_reference, Circle,
                    Container, Plains
      <4>5. ReadsAt(bridge, reader, j, R)
        BY <1>3 DEF P
      <4>6. Behind(k, H \o F) /\ 1 + Len(F) <= m
        BY <3>3, <4>3
      <4>7. ContainerRead(read, after, bridge, val, items, (k + 1) + 1 + Len(F))
        BY <3>6, <4>1, <4>5, <4>6, ContainerReads DEF read
      <4> HIDE DEF after, items, F, H
      <4>8. read.val = t /\ read.at = (k + 1) + 1 + Len(F)
        BY <4>1, <4>4, <4>7 DEF ContainerRead, ItemsDone
      <4>9. (k + 1) + 1 + Len(F) = k + 1 + Len(w)
        BY <4>3
      <4>10. read.val = t /\ read.at = k + 1 + Len(w)
        BY <4>8, <4>9
      <4> QED BY <4>10 DEF ReadAs
    <3> QED BY <3>4, <3>5, <3>6
  <2>2. ReadsAt(bridge, reader, j + 1, R)
    BY <2>1 DEF ReadsAt
  <2> QED BY <2>2
<1> HIDE DEF P
<1>4. Nat \subseteq P
  BY <1>2, <1>3, Counting
<1> QED BY <1>4 DEF P

-----------------------------------------------------------------------------
(* Whole buffers.                                                          *)

LEMMA RootPlace ==
  ASSUME heap \in Heaps, NEW bridge, NEW val \in Values
  PROVE  /\ <<Given(bridge, val), <<>>>> \in Places
         /\ <<call_object_js_value_to_json(val), <<>>>> \in Places
<1>1. Given(bridge, val) \in Values /\ call_object_js_value_to_json(val) \in Values
  BY GivenType
<1>2. <<>> \in Seq(Objects)
  OBVIOUS
<1>3. \A v \in Values : <<v, <<>>>> \in Places
  BY <1>2 DEF Places
<1> QED BY <1>1, <1>3

LEMMA LevelsType == ASSUME NEW bridge PROVE Levels(bridge) \in Nat /\ Levels(bridge) >= 1
<1>1. Cardinality(Objects) \in Nat
  BY ValuesAssumption, FS_CardinalityType
<1> QED BY <1>1, ValuesAssumption DEF Levels

LEMMA OutputType ==
  ASSUME heap \in Heaps, NEW bridge, NEW val \in Values
  PROVE  Output(bridge, val) \in Seq(Tokens)
BY RootPlace, LevelsType, PushType DEF Output

LEMMA BehindNone ==
  ASSUME buffer \in Seq(Tokens)
  PROVE  Behind(0, buffer) /\ Len(buffer) \in Nat
BY DEF Behind, Lies

(* A buffer with one of the values R is read as what that stands for.      *)
LEMMA BufferRead ==
  ASSUME heap \in Heaps, buffer \in Seq(Tokens),
         NEW bridge \in Writers, NEW reader \in Readers, NEW cache \in Caches,
         NEW R \in SUBSET Values, Closed(bridge, R), NEW val \in R, ~Ignored(bridge, val),
         buffer = Push(bridge)[Levels(bridge)][<<val, <<>>>>]
  PROVE  ReadAs(Read(reader, cache), Plain(bridge)[Levels(bridge)][<<val, <<>>>>],
                Len(buffer) + 1)
<1> DEFINE n == Levels(bridge)
           p == <<val, <<>>>>
           m == Len(buffer)
<1>1. n \in Nat
  BY LevelsType
<1>2. m \in Nat /\ Behind(0, Push(bridge)[n][p]) /\ Len(Push(bridge)[n][p]) = m
  BY BehindNone
<1>3. ReadsAt(bridge, reader, n, R)
  <2> HIDE DEF n
  <2> QED BY <1>1, AllRead
<1>4. ReadsPlace(bridge, reader, n, p, m, 0, cache)
  <2>1. <<>> \in Seq(Objects) /\ 0 \in Nat
    OBVIOUS
  <2> HIDE DEF n, m
  <2> QED BY <1>2, <1>3, <2>1 DEF ReadsAt
<1>5. m <= m
  BY <1>2
<1> HIDE DEF n, p
<1>6. ReadAs(ReadTo(reader)[m][<<0 + 1, cache>>], Plain(bridge)[n][p], 0 + 1 + m)
  BY <1>2, <1>4, <1>5 DEF ReadsPlace
<1>7. 0 + 1 = 1 /\ 0 + 1 + m = m + 1
  BY <1>2
<1>8. ReadAs(ReadTo(reader)[m][<<1, cache>>], Plain(bridge)[n][p], m + 1)
  BY <1>6, <1>7
<1> QED BY <1>8 DEF Read, n, p

(* The properties that are counted and the ones that are written. *)
LEMMA CountedAsWritten ==
  ASSUME heap \in Heaps, NEW bridge, NEW o \in Objects,
         \A i \in DOMAIN Items(o) : Kind(o) # "array" =>
            (Skipped(bridge, Items(o)[i].first) <=> Skipped(bridge, Items(o)[i].second))
  PROVE  Announced(bridge, o) = Following(bridge, o)
<1>1. CASE Kind(o) = "array"
  BY <1>1 DEF Announced, Following
<1>2. CASE Kind(o) # "array"
  <2>1. {i \in DOMAIN Items(o) : Skipped(bridge, Items(o)[i].first)}
          = {i \in DOMAIN Items(o) : Skipped(bridge, Items(o)[i].second)}
    BY <1>2
  <2> QED BY <1>2, <2>1 DEF Announced, Following, MapSize
<1> QED BY <1>1, <1>2

(* The values of JavaScriptCore. *)
LEMMA ClosedJsc ==
  ASSUME heap \in Heaps, writer = "jsc", Sound
  PROVE  Closed("jsc", Values)
<1> SUFFICES ASSUME NEW o \in Objects
             PROVE  /\ ItemsIn("jsc", o, Values)
                    /\ Announced("jsc", o) = Following("jsc", o)
                    /\ Trailer("jsc", o) = <<>>
  BY DEF Closed
<1>1. ItemsIn("jsc", o, Values)
  BY HeapTypes, GivenType DEF ItemsIn, Given, Ignored
<1>2. \A i \in DOMAIN Items(o) : Kind(o) # "array" =>
        (Skipped("jsc", Items(o)[i].first) <=> Skipped("jsc", Items(o)[i].second))
  BY DEF Sound, Kind, Items
<1>3. Announced("jsc", o) = Following("jsc", o)
  BY <1>2, CountedAsWritten
<1>4. Trailer("jsc", o) = <<>>
  BY DEF Trailer
<1> QED BY <1>1, <1>3, <1>4

(* Trees of the other two. *)
LEMMA ClosedTree ==
  ASSUME heap \in Heaps, NEW bridge \in {"runtime", "cocoa"}, writer = bridge, Sound,
         NEW plain \in SUBSET (Leaves \cup Formless), NEW os \in SUBSET Objects,
         NEW val, Tree(val, plain, os)
  PROVE  /\ Closed(bridge, os \cup plain)
         /\ os \cup plain \in SUBSET Values
         /\ val \in os /\ val \in Objects /\ ~Ignored(bridge, val)
         /\ Given(bridge, val) = val /\ call_object_js_value_to_json(val) = val
<1> DEFINE R == os \cup plain
<1>1. R \in SUBSET Values /\ plain \cap Objects = {}
  BY ValuesAssumption DEF Values
<1>2. \A v \in R : Given(bridge, v) = v /\ call_object_js_value_to_json(v) = v
  BY <1>1 DEF Given, call_object_js_value_to_json, Tree
<1>3. val \in os /\ val \in Objects /\ ~Ignored(bridge, val)
  BY ValuesAssumption DEF Tree, Ignored, Formless
<1>4. ASSUME NEW o \in R \cap Objects
      PROVE  /\ ItemsIn(bridge, o, R)
             /\ Announced(bridge, o) = Following(bridge, o)
             /\ Trailer(bridge, o) = <<>>
  <2>1. o \in os
    BY <1>1
  <2>2. \A i \in DOMAIN Items(o) : /\ Items(o)[i].first = Items(o)[i].second
                                   /\ Items(o)[i].second \in R
    BY <2>1 DEF Tree
  <2>3. \A i \in DOMAIN Items(o) :
          Kind(o) = "array" \/ ~Skipped(bridge, Items(o)[i].second) =>
            ~Ignored(bridge, Items(o)[i].second)
    BY DEF Sound, Kind, Items, Skipped, Ignored
  <2>4. ItemsIn(bridge, o, R)
    BY <1>2, <2>2, <2>3 DEF ItemsIn
  <2>5. Announced(bridge, o) = Following(bridge, o)
    BY <2>2, CountedAsWritten
  <2>6. Trailer(bridge, o) = <<>>
    BY DEF Trailer, Sound
  <2> QED BY <2>4, <2>5, <2>6
<1>5. Closed(bridge, R)
  BY <1>4 DEF Closed
<1> QED BY <1>1, <1>2, <1>3, <1>5

(* What a bridge has filled a buffer with. *)
FilledWith(bridge, val) ==
  /\ writer = bridge /\ root = val
  /\ buffer = Output(bridge, val)
  /\ bridge = "runtime" => val \in Trees(Leaves \cup {Null, Undefined, Function, Native})
  /\ bridge = "cocoa" => val \in Trees(Leaves \cup {Null})

Filled ==
  writer # "none" => \E bridge \in Writers, val \in Objects : FilledWith(bridge, val)

LEMMA FilledAs ==
  ASSUME Filled, writer # "none"
  PROVE  /\ writer \in Writers /\ root \in Objects
         /\ buffer = Output(writer, root)
         /\ writer = "runtime" => root \in Trees(Leaves \cup {Null, Undefined, Function, Native})
         /\ writer = "cocoa" => root \in Trees(Leaves \cup {Null})
BY DEF Filled, FilledWith

LEMMA FilledRead ==
  ASSUME heap \in Heaps, TypeOK, Filled, Sound, writer # "none",
         NEW reader \in Readers, NEW cache \in Caches
  PROVE  ReadAs(Read(reader, cache), Meant, Len(buffer) + 1)
<1>1. /\ buffer \in Seq(Tokens) /\ writer \in Writers /\ root \in Objects
      /\ buffer = Push(writer)[Levels(writer)][<<Given(writer, root), <<>>>>]
  BY FilledAs DEF TypeOK, Output
<1>2. root \in Values
  BY <1>1 DEF Values
<1>3. CASE writer = "jsc"
  <2> DEFINE val == Given("jsc", root)
  <2>1. val \in Values /\ val = call_object_js_value_to_json(root)
    BY <1>2, GivenType DEF Given
  <2>2. ~Ignored("jsc", val)
    BY DEF Ignored
  <2>3. Closed("jsc", Values)
    BY <1>3, ClosedJsc
  <2> HIDE DEF val
  <2>4. buffer = Push("jsc")[Levels("jsc")][<<val, <<>>>>]
    BY <1>1, <1>3 DEF val
  <2>5. ReadAs(Read(reader, cache), Plain("jsc")[Levels("jsc")][<<val, <<>>>>], Len(buffer) + 1)
    <3>1. "jsc" \in Writers BY DEF Writers
    <3> QED BY <1>1, <2>1, <2>2, <2>3, <2>4, <3>1, BufferRead
  <2>6. Meant = Plain("jsc")[Levels("jsc")][<<val, <<>>>>]
    BY <1>3, <2>1 DEF Meant
  <2> QED BY <2>5, <2>6
<1>4. CASE writer # "jsc"
  <2>1. writer \in {"runtime", "cocoa"}
    BY <1>1, <1>4 DEF Writers
  <2> DEFINE plain == IF writer = "runtime" THEN Leaves \cup {Null, Undefined, Function, Native}
                      ELSE Leaves \cup {Null}
  <2>2. root \in Trees(plain) /\ plain \in SUBSET (Leaves \cup Formless)
    BY <2>1, FilledAs DEF Formless
  <2> HIDE DEF plain
  <2>3. PICK os \in SUBSET Objects : Tree(root, plain, os)
    BY <2>2 DEF Trees
  <2>4. /\ Closed(writer, os \cup plain)
        /\ os \cup plain \in SUBSET Values
        /\ root \in os /\ ~Ignored(writer, root)
        /\ Given(writer, root) = root /\ call_object_js_value_to_json(root) = root
    BY <2>1, <2>2, <2>3, ClosedTree
  <2>5. buffer = Push(writer)[Levels(writer)][<<root, <<>>>>]
    BY <1>1, <2>4
  <2>6. ReadAs(Read(reader, cache), Plain(writer)[Levels(writer)][<<root, <<>>>>], Len(buffer) + 1)
    <3> DEFINE R == os \cup plain
    <3>1. R \in SUBSET Values /\ Closed(writer, R) /\ root \in R
      BY <2>4
    <3> HIDE DEF R
    <3> QED BY <1>1, <2>4, <2>5, <3>1, BufferRead
  <2>7. Meant = Plain(writer)[Levels(writer)][<<root, <<>>>>]
    BY <2>4 DEF Meant
  <2> QED BY <2>6, <2>7
<1> QED BY <1>3, <1>4

-----------------------------------------------------------------------------
(* Headers that announce too much.                                         *)

(* Past its end a buffer reads as nulls. *)
LEMMA PastEnd ==
  ASSUME buffer \in Seq(Tokens), NEW reader, NEW n \in Nat,
         NEW p \in Nat \ {0}, p > Len(buffer), NEW cache \in Caches
  PROVE  ReadTo(reader)[n][<<p, cache>>].at = p + 1
<1>1. <<p, cache>> \in Positions
  BY DEF Positions
<1>2. CASE n = 0
  <2>1. ReadTo(reader)[0][<<p, cache>>] = [val |-> Null, at |-> p + 1, cache |-> cache]
    BY <1>1, ReadLevels
  <2> QED BY <1>2, <2>1
<1>3. CASE n # 0
  <2>1. n >= 1 /\ p - 1 \in Nat /\ (p - 1) + 1 = p
    BY <1>3
  <2>2. ReadTo(reader)[n][<<(p - 1) + 1, cache>>]
          = ReadValue(reader, ReadTo(reader)[n - 1], (p - 1) + 1, cache)
    BY <2>1, ReadHere
  <2>3. ReadTo(reader)[n][<<p, cache>>] = ReadValue(reader, ReadTo(reader)[n - 1], p, cache)
    BY <2>1, <2>2
  <2>4. TokenAt(p).tag \notin {"array", "map"}
    <3>1. ~wson_has_next(p)
      BY DEF wson_has_next
    <3> QED BY <3>1 DEF TokenAt, Token
  <2> QED BY <2>3, <2>4, ReadSingle
<1> QED BY <1>2, <1>3

(* A reader that looks for the end stays there, *)
LEMMA StaysAtEnd ==
  ASSUME NEW reader \in {"jsc", "runtime"}, NEW tag, NEW inside, NEW s,
         NEW end \in Nat, end > Len(buffer), s.at = end
  PROVE  ReadItem(reader, tag, inside, s) = s
<1>1. ~wson_has_next(s.at)
  BY DEF wson_has_next
<1>2. ~GoesOn(reader, tag, s.at)
  BY <1>1 DEF GoesOn
<1> QED BY <1>2 DEF ReadItem

(* and Java goes beyond it. *)
LEMMA GoesBeyond ==
  ASSUME buffer \in Seq(Tokens), NEW n \in Nat, NEW tag,
         NEW s \in ReadStates(ReadTo("java")[n]), s.at > Len(buffer)
  PROVE  ReadItem("java", tag, ReadTo("java")[n], s).at > s.at
<1> DEFINE inside == ReadTo("java")[n]
           key == IF tag = "map" THEN Named("java", s.cache, KeyAt(s.at))
                                 ELSE [name |-> NoKey, cache |-> s.cache]
           at == IF tag = "map" THEN s.at + 1 ELSE s.at
           read == inside[<<at, key.cache>>]
<1>1. s.at \in Nat \ {0} /\ s.cache \in Caches
  BY DEF ReadStates
<1>2. key.cache \in Caches
  BY <1>1 DEF Named
<1>3. ReadItem("java", tag, inside, s).at = read.at
  BY DEF ReadItem, GoesOn
<1>4. Len(buffer) \in Nat
  OBVIOUS
<1>5. at \in Nat \ {0} /\ at > Len(buffer) /\ at >= s.at
  BY <1>1, <1>4
<1> HIDE DEF key, at
<1>6. read.at = at + 1
  BY <1>2, <1>5, PastEnd
<1> QED BY <1>1, <1>3, <1>5, <1>6

(* A reader behind the last item, given j more of them. *)
Beyond(after, reader, k, j, end) ==
  /\ reader # "java" => after[k + j] = after[k]
  /\ after[k + j].at \in Nat
  /\ after[k + j].at >= end
  /\ reader = "java" /\ j # 0 => after[k + j].at > end

LEMMA ReadBeyond ==
  ASSUME buffer \in Seq(Tokens), NEW reader \in Readers, reader # "cocoa",
         NEW tag, NEW n \in Nat, NEW at \in Nat \ {0}, NEW cache \in Caches,
         NEW after, ReadOn(after, reader, tag, ReadTo(reader)[n], at, cache),
         NEW k \in Nat, NEW end \in Nat, end > Len(buffer), after[k].at = end,
         NEW j \in Nat
  PROVE  Beyond(after, reader, k, j, end)
<1> DEFINE inside == ReadTo(reader)[n]
           P == {i \in Nat : Beyond(after, reader, k, i, end)}
<1>1. /\ after \in [Nat -> ReadStates(inside)]
      /\ \A i \in Nat : after[i + 1] = ReadItem(reader, tag, inside, after[i])
  BY DEF ReadOn
<1>2. 0 \in P
  <2>1. k + 0 = k
    OBVIOUS
  <2> QED BY <2>1 DEF Beyond
<1>3. ASSUME NEW i \in Nat, i \in P PROVE i + 1 \in P
  <2> DEFINE s == after[k + i]
             next == after[k + (i + 1)]
  <2>1. k + i \in Nat /\ k + (i + 1) = (k + i) + 1 /\ i + 1 # 0 /\ Len(buffer) \in Nat
    OBVIOUS
  <2>2. s \in ReadStates(inside) /\ next = ReadItem(reader, tag, inside, s)
    BY <1>1, <2>1
  <2>3. /\ reader # "java" => s = after[k]
        /\ s.at \in Nat /\ s.at >= end
    BY <1>3 DEF Beyond
  <2>4. CASE reader = "java"
    <3>1. s.at > Len(buffer)
      BY <2>1, <2>3
    <3>2. ReadItem("java", tag, ReadTo("java")[n], s).at > s.at
      BY <2>2, <2>4, <3>1, GoesBeyond
    <3>3. next.at > s.at
      BY <2>2, <2>4, <3>2
    <3>4. next.at \in Nat
      <4>1. next \in ReadStates(inside)
        <5>1. k + (i + 1) \in Nat OBVIOUS
        <5> QED BY <1>1, <5>1
      <4> HIDE DEF next
      <4> QED BY <4>1 DEF ReadStates
    <3> HIDE DEF s, next
    <3>5. next.at >= end /\ next.at > end
      BY <2>3, <3>3, <3>4
    <3> QED BY <2>4, <3>4, <3>5 DEF Beyond, next
  <2>5. CASE reader # "java"
    <3>1. reader \in {"jsc", "runtime"}
      BY <2>5 DEF Readers
    <3>2. s = after[k] /\ s.at = end
      BY <2>3, <2>5
    <3>3. ReadItem(reader, tag, inside, s) = s
      <4> HIDE DEF s, inside
      <4> QED BY <3>1, <3>2, StaysAtEnd
    <3>4. next = after[k]
      BY <2>2, <3>2, <3>3
    <3>5. end >= end
      OBVIOUS
    <3> HIDE DEF next
    <3> QED BY <2>5, <3>4, <3>5 DEF Beyond, next
  <2> QED BY <2>4, <2>5
<1> HIDE DEF P
<1>4. Nat \subseteq P
  BY <1>2, <1>3, Counting
<1> QED BY <1>4 DEF P

(* What was counted and is gone makes the header announce more. *)
LEMMA AnnouncedMore ==
  ASSUME heap \in Heaps, NEW o \in Objects, Vanishing(o)
  PROVE  \E j \in Nat : /\ Following("jsc", o) \in Nat
                         /\ Announced("jsc", o) = Following("jsc", o) + j
<1> DEFINE z == Len(Items(o))
           A == {i \in DOMAIN Items(o) : Skipped("jsc", Items(o)[i].first)}
           B == {i \in DOMAIN Items(o) : Skipped("jsc", Items(o)[i].second)}
<1>1. z \in Nat /\ DOMAIN Items(o) = 1..z
  BY HeapTypes
<1>2. CASE Kind(o) = "array"
  <2>1. Announced("jsc", o) = z /\ Following("jsc", o) = z /\ z = z + 0
    BY <1>1, <1>2 DEF Announced, Following
  <2> QED BY <1>1, <2>1
<1>3. CASE Kind(o) # "array"
  <2>1. A \subseteq B
    BY DEF Vanishing, Items
  <2>2. A \in SUBSET (1..z) /\ B \in SUBSET (1..z)
    BY <1>1
  <2>3. Announced("jsc", o) = z - Cardinality(A) /\ Following("jsc", o) = z - Cardinality(B)
    BY <1>3 DEF Announced, Following, MapSize
  <2> HIDE DEF A, B, z
  <2>4. Cardinality(A) \in 0..z /\ Cardinality(B) \in 0..z /\ IsFiniteSet(B)
    BY <1>1, <2>2, LeftOut
  <2>5. Cardinality(A) <= Cardinality(B)
    BY <2>1, <2>4, FS_Subset
  <2> DEFINE j == Cardinality(B) - Cardinality(A)
  <2>6. j \in Nat /\ z - Cardinality(B) \in Nat
        /\ z - Cardinality(A) = (z - Cardinality(B)) + j
    BY <1>1, <2>4, <2>5
  <2> HIDE DEF j
  <2> QED BY <2>3, <2>6
<1> QED BY <1>2, <1>3

(* Every reader but Cocoa's returns what was written, or has gone beyond   *)
(* the end: Java.                                                          *)
LEMMA VanishedRead ==
  ASSUME heap \in Heaps, TypeOK, Filled, writer = "jsc",
         call_object_js_value_to_json(root) = root, Vanishing(root),
         NEW reader \in Readers, reader # "cocoa", NEW cache \in Caches
  PROVE  \/ ReadAs(Read(reader, cache), Meant, Len(buffer) + 1)
         \/ reader = "java" /\ Read(reader, cache).at > Len(buffer) + 1
<1> DEFINE n == MaxDeep + 1
           R == Values \ Objects
           inside == Push("jsc")[n]
           insides == Plain("jsc")[n]
           F == FlattenSeq(Pieces("jsc", inside, root, <<>>))
           H == Header("jsc", root)
           items == FlattenSeq(Plains("jsc", insides, root, <<>>))
           m == Len(buffer)
           after == ReadItems(reader, Kind(root), ReadTo(reader)[m - 1], (0 + 1) + 1, cache)
           read == ReadTo(reader)[m][<<0 + 1, cache>>]
<1>1. /\ buffer \in Seq(Tokens) /\ root \in Objects /\ "jsc" \in Writers
      /\ buffer = Output("jsc", root)
  BY FilledAs DEF TypeOK
<1>2. n \in Nat /\ Levels("jsc") = n + 1 /\ <<>> \in Seq(Objects) /\ m \in Nat
  <2>1. n \in Nat /\ MaxDeep + 2 = n + 1
    BY ValuesAssumption
  <2>2. m \in Nat
    BY <1>1, BehindNone
  <2> QED BY <2>1, <2>2 DEF Levels
<1>3. ~Stops("jsc", root, <<>>) /\ ~Ignored("jsc", root) /\ Trailer("jsc", root) = <<>>
  <2>1. Len(<<>>) = 0 /\ ~(0 > MaxDeep) /\ Range(<<>>) = {}
    BY ValuesAssumption DEF Range
  <2> QED BY <2>1 DEF Stops, check_js_deep_and_circle_reference, Circle, Ignored, Trailer
<1>4. <<root, <<>>>> \in Places
  BY <1>1, <1>2 DEF Places, Values
<1>5. buffer = PushValue("jsc", inside, root, <<>>)
  <2>1. buffer = Push("jsc")[n + 1][<<root, <<>>>>]
    BY <1>1, <1>2 DEF Output, Given
  <2>2. Push("jsc")[n + 1] = [q \in Places |-> PushValue("jsc", inside, q[1], q[2])]
    BY <1>2, PushLevels
  <2> HIDE DEF inside, n
  <2> QED BY <1>4, <2>1, <2>2
<1>6. Meant = PlainValue("jsc", insides, root, <<>>)
  <2>1. Meant = Plain("jsc")[n + 1][<<root, <<>>>>]
    BY <1>2 DEF Meant
  <2>2. Plain("jsc")[n + 1] = [q \in Places |-> PlainValue("jsc", insides, q[1], q[2])]
    BY <1>2, PlainLevels
  <2> HIDE DEF insides, n
  <2> QED BY <1>4, <2>1, <2>2
<1>7. Meant = Container(Kind(root), items)
  <2>1. root \notin Leaves
    BY <1>1, ValuesAssumption
  <2> QED BY <1>1, <1>3, <1>6, <2>1
          DEF PlainValue, Stops, check_js_deep_and_circle_reference, Circle, Container, Plains
<1>8. F \in Seq(Tokens) /\ H \in Seq(Tokens) /\ Len(H) = 1
  BY <1>1, <1>2, PushType, PiecesType, HeaderType
<1>9. buffer = H \o F /\ m = 1 + Len(F) /\ Len(F) \in Nat
  <2>1. buffer = H \o F \o Trailer("jsc", root)
    BY <1>1, <1>3, <1>5, PushValueObject
  <2> HIDE DEF F, H
  <2>2. H \o F \in Seq(Tokens) /\ Len(H \o F) = Len(H) + Len(F)
    BY <1>8, ConcatProperties
  <2>3. (H \o F) \o <<>> = H \o F
    BY <2>2, ConcatEmptySeq
  <2> QED BY <1>3, <1>8, <2>1, <2>2, <2>3
<1>10. ReadsAt("jsc", reader, n, R)
  <2>1. R \in SUBSET Values /\ Closed("jsc", R)
    BY DEF Closed
  <2> HIDE DEF R, n
  <2> QED BY <1>1, <1>2, <2>1, AllRead
<1>11. ItemsIn("jsc", root, R)
  <2>1. \A i \in DOMAIN Items(root) :
          Items(root)[i].second \in Values /\ Items(root)[i].second \notin Objects
    BY <1>1, HeapTypes DEF Vanishing, Items
  <2> QED BY <2>1 DEF ItemsIn, Given, call_object_js_value_to_json, Ignored
<1>12. ContainerRead(read, after, "jsc", root, items, (0 + 1) + 1 + Len(F))
  <2>1. Behind(0, H \o F) /\ 1 + Len(F) <= m
    <3>1. Behind(0, buffer)
      BY <1>1, BehindNone
    <3> HIDE DEF H, F, m
    <3> QED BY <1>9, <3>1
  <2>2. 0 \in Nat /\ R \in SUBSET Values
    OBVIOUS
  <2> HIDE DEF n, m, R
  <2> QED BY <1>1, <1>2, <1>10, <1>11, <2>1, <2>2, ContainerReads
<1> DEFINE k == Following("jsc", root)
           end == m + 1
<1>13. /\ read.val = Container(Kind(root), after[Announced("jsc", root)].items)
       /\ read.at = after[Announced("jsc", root)].at
       /\ k \in Nat /\ after[k].items = items /\ after[k].at = end
  <2>1. (0 + 1) + 1 + Len(F) = end
    BY <1>9
  <2> HIDE DEF read, after, items, end, F
  <2> QED BY <1>12, <2>1 DEF ContainerRead, ItemsDone
<1>14. PICK j \in Nat : Announced("jsc", root) = k + j
  <2>1. \E j \in Nat : Announced("jsc", root) = k + j
    BY <1>1, AnnouncedMore
  <2> QED BY <2>1
<1>15. Beyond(after, reader, k, j, end)
  <2>1. m - 1 \in Nat /\ end \in Nat /\ end > m /\ (0 + 1) + 1 \in Nat \ {0}
    BY <1>2, <1>9
  <2>2. ReadOn(after, reader, Kind(root), ReadTo(reader)[m - 1], (0 + 1) + 1, cache)
    <3>1. Moves(ReadTo(reader)[m - 1])
      BY <1>1, <2>1, ReadMoves
    <3> QED BY <1>1, <2>1, <3>1, ReadItemsRun
  <2> HIDE DEF after, k, end
  <2> QED BY <1>1, <1>13, <2>1, <2>2, ReadBeyond
<1>16. Read(reader, cache) = read
  <2>1. 0 + 1 = 1
    OBVIOUS
  <2> QED BY <2>1 DEF Read
<1> HIDE DEF read, after, items, k, m
<1>17. CASE j = 0
  <2>1. k + j = k
    BY <1>13, <1>17
  <2> QED BY <1>7, <1>13, <1>14, <1>16, <2>1 DEF ReadAs, m
<1>18. CASE j # 0 /\ reader # "java"
  <2>1. after[k + j] = after[k]
    BY <1>15, <1>18 DEF Beyond
  <2> QED BY <1>7, <1>13, <1>14, <1>16, <2>1 DEF ReadAs, m
<1>19. CASE j # 0 /\ reader = "java"
  <2>1. after[k + j].at > end
    BY <1>15, <1>19 DEF Beyond
  <2> QED BY <1>13, <1>14, <1>16, <1>19, <2>1 DEF m
<1> QED BY <1>17, <1>18, <1>19

-----------------------------------------------------------------------------
(* The levels of Output and Meant are as good as any number of them.       *)

(* From level n on, nothing changes any more at a place. *)
Settled(bridge, n, p) ==
  \A m \in Nat : m >= n =>
    /\ Push(bridge)[m][p] = Push(bridge)[n][p]
    /\ Plain(bridge)[m][p] = Plain(bridge)[n][p]

(* The place of an item of an object. *)
PlaceOf(bridge, o, stack, item) == <<Given(bridge, item.second), Append(stack, o)>>

(* A value is settled a level above its items. *)
LEMMA SettledAbove ==
  ASSUME heap \in Heaps, NEW bridge \in Writers, NEW n \in Nat,
         NEW val \in Values, NEW stack \in Seq(Objects),
         val \in Objects /\ ~Stops(bridge, val, stack) =>
           \A i \in DOMAIN Items(val) :
             /\ Given(bridge, Items(val)[i].second)
                  = call_object_js_value_to_json(Items(val)[i].second)
             /\ Settled(bridge, n, PlaceOf(bridge, val, stack, Items(val)[i]))
  PROVE  Settled(bridge, n + 1, <<val, stack>>)
<1> SUFFICES ASSUME NEW m \in Nat, m >= n + 1
             PROVE  /\ Push(bridge)[m][<<val, stack>>] = Push(bridge)[n + 1][<<val, stack>>]
                    /\ Plain(bridge)[m][<<val, stack>>] = Plain(bridge)[n + 1][<<val, stack>>]
  BY DEF Settled
<1> DEFINE f == Push(bridge)[n]
           g == Push(bridge)[m - 1]
           h == Plain(bridge)[n]
           k == Plain(bridge)[m - 1]
<1>1. m - 1 \in Nat /\ (m - 1) + 1 = m /\ m - 1 >= n
  OBVIOUS
<1>2. <<val, stack>> \in Places
  BY DEF Places
<1>3. /\ Push(bridge)[n + 1][<<val, stack>>] = PushValue(bridge, f, val, stack)
      /\ Plain(bridge)[n + 1][<<val, stack>>] = PlainValue(bridge, h, val, stack)
  <2>1. /\ Push(bridge)[n + 1] = [p \in Places |-> PushValue(bridge, f, p[1], p[2])]
        /\ Plain(bridge)[n + 1] = [p \in Places |-> PlainValue(bridge, h, p[1], p[2])]
    BY PushLevels, PlainLevels
  <2> HIDE DEF f, h
  <2> QED BY <1>2, <2>1
<1>4. /\ Push(bridge)[m][<<val, stack>>] = PushValue(bridge, g, val, stack)
      /\ Plain(bridge)[m][<<val, stack>>] = PlainValue(bridge, k, val, stack)
  <2>1. /\ Push(bridge)[(m - 1) + 1] = [p \in Places |-> PushValue(bridge, g, p[1], p[2])]
        /\ Plain(bridge)[(m - 1) + 1] = [p \in Places |-> PlainValue(bridge, k, p[1], p[2])]
    BY <1>1, PushLevels, PlainLevels
  <2> HIDE DEF g, k
  <2> QED BY <1>1, <1>2, <2>1
<1>5. CASE ~(val \in Objects /\ ~Stops(bridge, val, stack))
  <2>1. PushValue(bridge, f, val, stack) = PushValue(bridge, g, val, stack)
    <3> HIDE DEF f, g
    <3> QED BY <1>5 DEF PushValue
  <2>2. PlainValue(bridge, h, val, stack) = PlainValue(bridge, k, val, stack)
    <3> HIDE DEF h, k
    <3> QED BY <1>5
            DEF PlainValue, Stops, check_js_deep_and_circle_reference, Circle
  <2> QED BY <1>3, <1>4, <2>1, <2>2
<1>6. CASE val \in Objects /\ ~Stops(bridge, val, stack)
  <2>1. ASSUME NEW i \in DOMAIN Items(val)
        PROVE  /\ PushItem(bridge, f, val, stack, Items(val)[i])
                    = PushItem(bridge, g, val, stack, Items(val)[i])
               /\ PlainItem(bridge, h, val, stack, Items(val)[i])
                    = PlainItem(bridge, k, val, stack, Items(val)[i])
    <3> DEFINE item == Items(val)[i]
               q == PlaceOf(bridge, val, stack, item)
    <3>1. /\ Given(bridge, item.second) = call_object_js_value_to_json(item.second)
          /\ Settled(bridge, n, q)
      BY <1>6
    <3>2. g[q] = f[q] /\ k[q] = h[q]
      <4> HIDE DEF q
      <4> QED BY <1>1, <3>1 DEF Settled
    <3> HIDE DEF item, f, g, h, k
    <3>3. PushItem(bridge, f, val, stack, item) = PushItem(bridge, g, val, stack, item)
      BY <3>2 DEF PushItem, PlaceOf
    <3>4. PlainItem(bridge, h, val, stack, item) = PlainItem(bridge, k, val, stack, item)
      BY <3>1, <3>2 DEF PlainItem, PlaceOf
    <3> QED BY <3>3, <3>4 DEF item
  <2> HIDE DEF f, g, h, k
  <2>2. /\ [i \in DOMAIN Items(val) |-> PushItem(bridge, f, val, stack, Items(val)[i])]
             = [i \in DOMAIN Items(val) |-> PushItem(bridge, g, val, stack, Items(val)[i])]
        /\ [i \in DOMAIN Items(val) |-> PlainItem(bridge, h, val, stack, Items(val)[i])]
             = [i \in DOMAIN Items(val) |-> PlainItem(bridge, k, val, stack, Items(val)[i])]
    BY <2>1
  <2>3. PushValue(bridge, f, val, stack) = PushValue(bridge, g, val, stack)
    BY <2>2 DEF PushValue
  <2>4. PlainValue(bridge, h, val, stack) = PlainValue(bridge, k, val, stack)
    BY <2>2 DEF PlainValue
  <2> QED BY <1>3, <1>4, <2>3, <2>4
<1> QED BY <1>5, <1>6

(* JavaScriptCore: all is settled MaxDeep objects inside each other. *)
LEMMA SettledJsc ==
  ASSUME heap \in Heaps, NEW n \in Nat
  PROVE  \A val \in Values, stack \in Seq(Objects) :
           n + Len(stack) >= MaxDeep + 1 => Settled("jsc", n + 1, <<val, stack>>)
<1> DEFINE Q(j) == \A val \in Values, stack \in Seq(Objects) :
                     j + Len(stack) >= MaxDeep + 1 => Settled("jsc", j + 1, <<val, stack>>)
           P == {j \in Nat : Q(j)}
<1>1. "jsc" \in Writers /\ MaxDeep \in Nat
  BY ValuesAssumption DEF Writers
<1>2. 0 \in P
  <2>1. ASSUME NEW val \in Values, NEW stack \in Seq(Objects), 0 + Len(stack) >= MaxDeep + 1
        PROVE  Settled("jsc", 0 + 1, <<val, stack>>)
    <3>1. Len(stack) > MaxDeep
      <4>1. Len(stack) \in Nat OBVIOUS
      <4> QED BY <1>1, <2>1, <4>1
    <3>2. Stops("jsc", val, stack)
      BY <3>1 DEF Stops, check_js_deep_and_circle_reference
    <3> QED BY <1>1, <3>2, SettledAbove
  <2> QED BY <2>1
<1>3. ASSUME NEW j \in Nat, j \in P PROVE j + 1 \in P
  <2>1. ASSUME NEW val \in Values, NEW stack \in Seq(Objects),
               (j + 1) + Len(stack) >= MaxDeep + 1
        PROVE  Settled("jsc", (j + 1) + 1, <<val, stack>>)
    <3>1. ASSUME val \in Objects, NEW i \in DOMAIN Items(val)
          PROVE  /\ Given("jsc", Items(val)[i].second)
                      = call_object_js_value_to_json(Items(val)[i].second)
                 /\ Settled("jsc", j + 1, PlaceOf("jsc", val, stack, Items(val)[i]))
      <4> DEFINE to == Given("jsc", Items(val)[i].second)
                 path == Append(stack, val)
      <4>1. to \in Values /\ to = call_object_js_value_to_json(Items(val)[i].second)
        BY <3>1, HeapTypes, GivenType DEF Given
      <4>2. path \in Seq(Objects) /\ Len(path) = Len(stack) + 1 /\ Len(stack) \in Nat
        BY <3>1, AppendProperties
      <4> HIDE DEF to, path
      <4>3. j + Len(path) >= MaxDeep + 1
        BY <1>1, <2>1, <4>2
      <4>4. Settled("jsc", j + 1, <<to, path>>)
        BY <1>3, <4>1, <4>2, <4>3
      <4> QED BY <4>1, <4>4 DEF PlaceOf, to, path
    <3> QED BY <1>1, <3>1, SettledAbove
  <2> QED BY <2>1
<1> HIDE DEF P
<1>4. Nat \subseteq P
  BY <1>2, <1>3, Counting
<1> QED BY <1>4 DEF P

(* Objects of a tree that are not settled everywhere. *)
Open(bridge, os, n) ==
  {o \in os : \E stack \in Seq(Objects) : ~Settled(bridge, n, <<o, stack>>)}

(* Trees: at each level one object more is. *)
LEMMA SettledTree ==
  ASSUME heap \in Heaps, NEW bridge \in {"runtime", "cocoa"},
         NEW plain \in SUBSET (Leaves \cup Formless), NEW os \in SUBSET Objects,
         NEW val, Tree(val, plain, os), NEW n \in Nat
  PROVE  Cardinality(Open(bridge, os, n + 1)) \in Nat
         /\ (n <= Cardinality(Objects) =>
               Cardinality(Open(bridge, os, n + 1)) <= Cardinality(Objects) - n)
<1> DEFINE C(j) == Cardinality(Open(bridge, os, j + 1))
           z == Cardinality(Objects)
           P == {j \in Nat : j <= z => C(j) <= z - j}
<1>1. z \in Nat /\ bridge \in Writers
  BY ValuesAssumption, FS_CardinalityType DEF Writers
<1>2. ASSUME NEW j \in Nat
      PROVE  /\ Open(bridge, os, j) \subseteq os /\ IsFiniteSet(Open(bridge, os, j))
             /\ Cardinality(Open(bridge, os, j)) \in Nat
             /\ Cardinality(Open(bridge, os, j)) <= z
  <2>1. Open(bridge, os, j) \subseteq os
    BY DEF Open
  <2> QED BY <2>1, ValuesAssumption, FS_Subset, FS_CardinalityType
<1>3. ASSUME NEW o \in os, NEW j \in Nat,
             \A i \in DOMAIN Items(o) : Items(o)[i].second \notin Open(bridge, os, j + 1)
      PROVE  o \notin Open(bridge, os, (j + 1) + 1)
  <2> SUFFICES ASSUME NEW stack \in Seq(Objects)
               PROVE  Settled(bridge, (j + 1) + 1, <<o, stack>>)
    BY DEF Open
  <2>1. ASSUME NEW i \in DOMAIN Items(o)
        PROVE  /\ Given(bridge, Items(o)[i].second)
                    = call_object_js_value_to_json(Items(o)[i].second)
               /\ Settled(bridge, j + 1, PlaceOf(bridge, o, stack, Items(o)[i]))
    <3> DEFINE to == Items(o)[i].second
    <3>1. to \in os \cup plain /\ to \in Values
      BY HeapTypes DEF Tree
    <3>2. Given(bridge, to) = to /\ call_object_js_value_to_json(to) = to
      <4>1. to \in Objects => to \in os
        BY <3>1, ValuesAssumption
      <4> HIDE DEF to
      <4> QED BY <4>1 DEF Given, call_object_js_value_to_json, Tree
    <3>3. Append(stack, o) \in Seq(Objects)
      BY AppendProperties
    <3>4. CASE to \in os
      BY <1>3, <3>2, <3>3, <3>4 DEF Open, PlaceOf
    <3>5. CASE to \notin os
      <4>1. to \notin Objects
        BY <3>1, <3>5, ValuesAssumption
      <4> HIDE DEF to
      <4>2. Settled(bridge, j + 1, <<to, Append(stack, o)>>)
        BY <1>1, <3>1, <3>3, <4>1, SettledAbove
      <4> QED BY <3>2, <4>2 DEF PlaceOf, to
    <3> QED BY <3>2, <3>4, <3>5
  <2>2. o \in Values /\ j + 1 \in Nat
    BY DEF Values
  <2> QED BY <1>1, <2>1, <2>2, SettledAbove
<1>4. ASSUME NEW j \in Nat
      PROVE  Open(bridge, os, (j + 1) + 1) \subseteq Open(bridge, os, j + 1)
  <2> SUFFICES ASSUME NEW o \in os, NEW stack \in Seq(Objects),
                      Settled(bridge, j + 1, <<o, stack>>)
               PROVE  Settled(bridge, (j + 1) + 1, <<o, stack>>)
    BY DEF Open
  <2>1. (j + 1) + 1 \in Nat /\ (j + 1) + 1 >= j + 1
    OBVIOUS
  <2>2. \A m \in Nat : m >= (j + 1) + 1 => m >= j + 1
    OBVIOUS
  <2> DEFINE a == j + 1
             b == a + 1
             p == <<o, stack>>
  <2> HIDE DEF a, b, p
  <2>3. b \in Nat /\ b >= a /\ \A m \in Nat : m >= b => m >= a
    BY <2>1, <2>2 DEF a, b
  <2>4. Settled(bridge, a, p)
    BY DEF a, p
  <2>5. Settled(bridge, b, p)
    BY <2>3, <2>4 DEF Settled
  <2> QED BY <2>5 DEF a, b, p
<1>5. 0 \in P
  <2>1. C(0) <= z /\ z - 0 = z
    <3>1. 0 + 1 \in Nat OBVIOUS
    <3> QED BY <1>1, <1>2, <3>1
  <2> HIDE DEF C
  <2> QED BY <1>1, <2>1
<1>6. ASSUME NEW j \in Nat, j \in P PROVE j + 1 \in P
  <2> DEFINE A == Open(bridge, os, j + 1)
             B == Open(bridge, os, (j + 1) + 1)
  <2>1. /\ A \subseteq os /\ IsFiniteSet(A) /\ Cardinality(A) \in Nat
        /\ Cardinality(B) \in Nat /\ B \subseteq A
    <3>1. j + 1 \in Nat /\ (j + 1) + 1 \in Nat OBVIOUS
    <3> QED BY <1>2, <1>4, <3>1
  <2>2. CASE A = {}
    <3>1. B = {} BY <2>1, <2>2
    <3>2. Cardinality(B) = 0 BY <3>1, FS_EmptySet
    <3> HIDE DEF B
    <3>3. j + 1 <= z => Cardinality(B) <= z - (j + 1)
      BY <1>1, <3>2
    <3> QED BY <3>3 DEF B
  <2>3. CASE A # {}
    <3>1. PICK o \in A : \A i \in DOMAIN Items(o) : Items(o)[i].second \notin A
      <4> HIDE DEF A
      <4> QED BY <2>1, <2>3 DEF Tree
    <3>2. o \notin B
      BY <1>3, <2>1, <3>1
    <3> HIDE DEF A, B
    <3>3. Cardinality(B) < Cardinality(A)
      <4>1. B # A BY <3>1, <3>2
      <4> QED BY <2>1, <4>1, FS_Subset
    <3>4. j <= z => Cardinality(A) <= z - j
      BY <1>6 DEF A
    <3>5. j + 1 <= z => Cardinality(B) <= z - (j + 1)
      BY <1>1, <2>1, <3>3, <3>4
    <3> QED BY <3>5 DEF B
  <2> QED BY <2>2, <2>3
<1> HIDE DEF P
<1>7. Nat \subseteq P
  BY <1>5, <1>6, Counting
<1>8. n + 1 \in Nat
  OBVIOUS
<1> QED BY <1>2, <1>7, <1>8 DEF P

(* What the three bridges write, and what it stands for, does not depend   *)
(* on the levels of the model: recursion to any depth gives no more.       *)
THEOREM LevelsSuffice ==
  ASSUME heap \in Heaps, NEW bridge \in Writers, NEW val \in Objects,
         bridge = "runtime" => val \in Trees(Leaves \cup {Null, Undefined, Function, Native}),
         bridge = "cocoa" => val \in Trees(Leaves \cup {Null}),
         NEW n \in Nat, n >= Levels(bridge)
  PROVE  /\ Push(bridge)[n][<<Given(bridge, val), <<>>>>] = Output(bridge, val)
         /\ Plain(bridge)[n][<<call_object_js_value_to_json(val), <<>>>>]
              = Plain(bridge)[Levels(bridge)][<<call_object_js_value_to_json(val), <<>>>>]
<1> DEFINE p == <<Given(bridge, val), <<>>>>
<1>1. /\ Given(bridge, val) = call_object_js_value_to_json(val)
      /\ Settled(bridge, Levels(bridge), p)
  <2>1. CASE bridge = "jsc"
    <3>1. Given("jsc", val) \in Values
      <4>1. val \in Values BY DEF Values
      <4> QED BY <4>1, GivenType
    <3>2. MaxDeep + 1 \in Nat /\ (MaxDeep + 1) + 1 = MaxDeep + 2
          /\ <<>> \in Seq(Objects) /\ (MaxDeep + 1) + Len(<<>>) >= MaxDeep + 1
      BY ValuesAssumption
    <3>3. Settled("jsc", (MaxDeep + 1) + 1, <<Given("jsc", val), <<>>>>)
      BY <3>1, <3>2, SettledJsc
    <3>4. Levels("jsc") = (MaxDeep + 1) + 1
      BY <3>2 DEF Levels
    <3> QED BY <2>1, <3>3, <3>4 DEF Given
  <2>2. CASE bridge # "jsc"
    <3> DEFINE plain == IF bridge = "runtime"
                        THEN Leaves \cup {Null, Undefined, Function, Native}
                        ELSE Leaves \cup {Null}
               z == Cardinality(Objects)
    <3>1. bridge \in {"runtime", "cocoa"}
      BY <2>2 DEF Writers
    <3>2. val \in Trees(plain) /\ plain \in SUBSET (Leaves \cup Formless)
      BY <3>1 DEF Formless
    <3> HIDE DEF plain
    <3>3. PICK os \in SUBSET Objects : Tree(val, plain, os)
      BY <3>2 DEF Trees
    <3>4. z \in Nat /\ Levels(bridge) = z + 1
      BY <2>2, ValuesAssumption, FS_CardinalityType DEF Levels
    <3>5. Cardinality(Open(bridge, os, z + 1)) \in Nat
          /\ Cardinality(Open(bridge, os, z + 1)) <= z - z
      <4>1. z <= z BY <3>4
      <4> HIDE DEF z
      <4>2. Cardinality(Open(bridge, os, z + 1)) \in Nat
            /\ (z <= Cardinality(Objects) =>
                  Cardinality(Open(bridge, os, z + 1)) <= Cardinality(Objects) - z)
        BY <3>1, <3>2, <3>3, <3>4, SettledTree
      <4> QED BY <4>1, <4>2 DEF z
    <3>6. Open(bridge, os, z + 1) = {}
      <4> DEFINE A == Open(bridge, os, z + 1)
      <4>1. A \subseteq Objects BY DEF Open
      <4>2. IsFiniteSet(A) BY <4>1, ValuesAssumption, FS_Subset
      <4>3. Cardinality(A) = 0
        <5> HIDE DEF A, z
        <5>1. Cardinality(A) \in Nat /\ Cardinality(A) <= z - z
          BY <3>5 DEF A
        <5> QED BY <3>4, <5>1
      <4> HIDE DEF A
      <4>4. A = {} BY <4>2, <4>3, FS_EmptySet
      <4> QED BY <4>4 DEF A
    <3>7. val \in os /\ Given(bridge, val) = val /\ call_object_js_value_to_json(val) = val
      BY <2>2, <3>3 DEF Tree, Given, call_object_js_value_to_json
    <3>8. Settled(bridge, z + 1, <<val, <<>>>>)
      <4>1. <<>> \in Seq(Objects) OBVIOUS
      <4> HIDE DEF z
      <4> QED BY <3>6, <3>7, <4>1 DEF Open
    <3> QED BY <3>4, <3>7, <3>8
  <2> QED BY <2>1, <2>2
<1> HIDE DEF p
<1>2. /\ Push(bridge)[n][p] = Push(bridge)[Levels(bridge)][p]
      /\ Plain(bridge)[n][p] = Plain(bridge)[Levels(bridge)][p]
  BY <1>1 DEF Settled
<1> QED BY <1>1, <1>2 DEF p, Output

-----------------------------------------------------------------------------
(* The steps of the specification.                                         *)

(* What is written and what it stands for depend on the heap only. *)
LEMMA SameHeap ==
  ASSUME heap' = heap
  PROVE  /\ \A bridge, val : Output(bridge, val)' = Output(bridge, val)
         /\ \A plain : Trees(plain)' = Trees(plain)
<1>1. ASSUME NEW bridge, NEW val PROVE Output(bridge, val)' = Output(bridge, val)
  BY DEF Output, Levels, Push, PushValue, PushItem, Items, Given, Kind, Skipped, KeyToken,
         Token, call_object_js_value_to_json, Header, Trailer, MapSize, Stops, Ignored,
         LeafToken, NullToken, Places, check_js_deep_and_circle_reference, Circle
<1>2. ASSUME NEW plain PROVE Trees(plain)' = Trees(plain)
  BY DEF Trees, Tree, Items
<1> QED BY <1>1, <1>2

LEMMA SameMeaning ==
  ASSUME heap' = heap, writer' = writer, root' = root
  PROVE  Meant' = Meant /\ (Sound' <=> Sound)
<1>1. Meant' = Meant
  BY DEF Meant, Plain, PlainValue, PlainItem, Items, Kind, Levels, Places, Dropped,
         call_object_js_value_to_json
<1>2. Sound' <=> Sound
  BY DEF Sound, Skipped, Items
<1> QED BY <1>1, <1>2

LEMMA FreshType ==
  /\ <<>> \in Caches
  /\ Fresh(SystemCount) \in Caches /\ Fresh(LocalCount) \in Caches
<1>1. ASSUME NEW count \in {0, SystemCount, LocalCount}
      PROVE  Fresh(count) \in Caches
  <2>1. Fresh(count) \in [0..(count - 1) -> Keys \cup {NoKey}]
    BY DEF Fresh
  <2> QED BY <2>1 DEF Caches
<1>2. <<>> = Fresh(0)
  <2>1. 0..(0 - 1) = {}
    OBVIOUS
  <2>2. Fresh(0) = [slot \in {} |-> NoKey]
    BY <2>1 DEF Fresh
  <2> QED BY <2>2
<1> QED BY <1>1, <1>2

LEMMA ReadType ==
  ASSUME buffer \in Seq(Tokens), NEW reader, NEW cache \in Caches
  PROVE  Read(reader, cache).at \in Nat /\ Read(reader, cache).cache \in Caches
<1>1. Len(buffer) \in Nat /\ <<1, cache>> \in Positions
  BY DEF Positions
<1>2. Moves(ReadTo(reader)[Len(buffer)])
  BY <1>1, ReadMoves
<1> QED BY <1>1, <1>2 DEF Moves, Read

(* What a bridge has returned was in the buffer. *)
Answered ==
  got # <<>> =>
    /\ writer # "none"
    /\ Sound => Reads(Meant)
    /\ writer = "jsc" /\ got.reader # "cocoa"
         /\ call_object_js_value_to_json(root) = root /\ Vanishing(root)
       => Reads(Meant) \/ (got.reader = "java" /\ got.val = Null)

IInv == TypeOK /\ heap \in Heaps /\ Filled /\ Answered

(* A buffer is filled. *)
LEMMA WrittenKeeps ==
  ASSUME IInv, NEW bridge \in Writers, NEW val \in Objects,
         bridge = "runtime" => val \in Trees(Leaves \cup {Null, Undefined, Function, Native}),
         bridge = "cocoa" => val \in Trees(Leaves \cup {Null}),
         Written(bridge, val, Output(bridge, val))
  PROVE  IInv'
<1>1. /\ heap' = heap /\ writer' = bridge /\ root' = val
      /\ buffer' = Output(bridge, val) /\ system' = system /\ got' = got
      /\ writer = "none"
  BY DEF Written
<1>2. TypeOK'
  <2>1. val \in Values
    BY DEF Values
  <2>2. Output(bridge, val) \in Seq(Tokens)
    BY <2>1, OutputType DEF IInv
  <2> QED BY <1>1, <2>2 DEF IInv, TypeOK, Writers
<1>3. Filled'
  <2>1. /\ Output(bridge, val)' = Output(bridge, val)
        /\ Trees(Leaves \cup {Null, Undefined, Function, Native})'
             = Trees(Leaves \cup {Null, Undefined, Function, Native})
        /\ Trees(Leaves \cup {Null})' = Trees(Leaves \cup {Null})
    BY <1>1, SameHeap
  <2>2. FilledWith(bridge, val)'
    BY <1>1, <2>1 DEF FilledWith
  <2> QED BY <2>2 DEF Filled
<1>4. Answered'
  <2>1. got' = <<>>
    BY <1>1 DEF IInv, Answered
  <2> QED BY <2>1 DEF Answered
<1> QED BY <1>1, <1>2, <1>3, <1>4 DEF IInv

(* A step that leaves the buffer alone. *)
LEMMA FilledStays ==
  ASSUME Filled, UNCHANGED <<heap, writer, root, buffer>>
  PROVE  Filled'
<1>1. CASE writer = "none"
  BY <1>1 DEF Filled
<1>2. CASE writer # "none"
  <2>1. PICK bridge \in Writers, val \in Objects : FilledWith(bridge, val)
    BY <1>2 DEF Filled
  <2>2. /\ Output(bridge, val)' = Output(bridge, val)
        /\ Trees(Leaves \cup {Null, Undefined, Function, Native})'
             = Trees(Leaves \cup {Null, Undefined, Function, Native})
        /\ Trees(Leaves \cup {Null})' = Trees(Leaves \cup {Null})
    BY SameHeap
  <2>3. FilledWith(bridge, val)'
    BY <2>1, <2>2 DEF FilledWith
  <2> QED BY <2>3 DEF Filled
<1> QED BY <1>1, <1>2

(* A bridge, or Java, has read what is in the buffer. *)
ReadsOut(reader, val, at, cache) ==
  /\ writer # "none"
  /\ got' = [reader |-> reader, val |-> val, at |-> at]
  /\ at = Read(reader, cache).at
  /\ reader # "java" => val = Read(reader, cache).val
  /\ reader = "java" => val = IF at <= Len(buffer) + 1 THEN Read(reader, cache).val ELSE Null
  /\ UNCHANGED <<heap, writer, root, buffer>>

LEMMA ReadKeeps ==
  ASSUME IInv, NEW reader \in Readers, NEW val, NEW at, NEW cache \in Caches,
         ReadsOut(reader, val, at, cache)
  PROVE  Filled' /\ Answered'
<1> DEFINE end == Len(buffer) + 1
<1>1. /\ UNCHANGED <<heap, writer, root, buffer>> /\ writer # "none"
      /\ got' = [reader |-> reader, val |-> val, at |-> at]
      /\ at = Read(reader, cache).at
      /\ reader # "java" => val = Read(reader, cache).val
      /\ reader = "java" => val = IF at <= end THEN Read(reader, cache).val ELSE Null
  BY DEF ReadsOut
<1>2. Filled'
  BY <1>1, FilledStays DEF IInv
<1>3. got'.reader = reader /\ got'.val = val /\ got'.at = at
  BY <1>1
<1>4. /\ Meant' = Meant /\ (Sound' <=> Sound)
      /\ call_object_js_value_to_json(root)' = call_object_js_value_to_json(root)
      /\ (Vanishing(root)' <=> Vanishing(root))
  BY <1>1, SameMeaning DEF call_object_js_value_to_json, Vanishing, Skipped
<1>5. at \in Nat /\ end \in Nat
  BY <1>1, ReadType DEF IInv, TypeOK
<1>6. ReadAs(Read(reader, cache), Meant, end) => val = Meant /\ at = end
  <2> HIDE DEF end
  <2>1. ASSUME ReadAs(Read(reader, cache), Meant, end)
        PROVE  val = Meant /\ at = end
    <3>1. Read(reader, cache).val = Meant /\ at = end /\ at <= end
      BY <1>1, <1>5, <2>1 DEF ReadAs
    <3> QED BY <1>1, <3>1
  <2> QED BY <2>1
<1>7. val = Meant /\ at = end => Reads(Meant)'
  <2>1. Reads(Meant)' <=> got'.val = Meant' /\ got'.at = Len(buffer') + 1
    BY DEF Reads
  <2> QED BY <1>1, <1>3, <1>4, <2>1
<1>8. Sound' => Reads(Meant)'
  BY <1>1, <1>4, <1>6, <1>7, FilledRead DEF IInv
<1>9. ASSUME writer = "jsc", reader # "cocoa",
             call_object_js_value_to_json(root) = root, Vanishing(root)
      PROVE  Reads(Meant)' \/ (reader = "java" /\ val = Null)
  <2>1. \/ ReadAs(Read(reader, cache), Meant, end)
        \/ reader = "java" /\ Read(reader, cache).at > end
    BY <1>9, VanishedRead DEF IInv
  <2>2. CASE ReadAs(Read(reader, cache), Meant, end)
    BY <1>6, <1>7, <2>2
  <2>3. CASE reader = "java" /\ Read(reader, cache).at > end
    <3>1. ~(at <= end)
      <4> HIDE DEF end
      <4> QED BY <1>1, <1>5, <2>3
    <3> QED BY <1>1, <2>3, <3>1
  <2> QED BY <2>1, <2>2, <2>3
<1>10. Answered'
  <2>1. /\ writer' # "none"
        /\ Sound' => Reads(Meant)'
        /\ writer' = "jsc" /\ got'.reader # "cocoa"
             /\ call_object_js_value_to_json(root)' = root' /\ Vanishing(root)'
           => Reads(Meant)' \/ (got'.reader = "java" /\ got'.val = Null)
    BY <1>1, <1>3, <1>4, <1>8, <1>9
  <2> QED BY <2>1 DEF Answered
<1> QED BY <1>2, <1>10

LEMMA Starts == Init => IInv
<1> SUFFICES ASSUME Init PROVE IInv
  OBVIOUS
<1>1. TypeOK
  <2>1. <<>> \in Seq(Tokens)
    OBVIOUS
  <2> QED BY <2>1, FreshType DEF Init, TypeOK
<1> QED BY <1>1 DEF Init, IInv, Filled, Answered

LEMMA Keeps == IInv /\ [Next]_vars => IInv'
<1> SUFFICES ASSUME IInv, [Next]_vars PROVE IInv'
  OBVIOUS
<1> USE DEF IInv
<1>1. CASE toWson
  <2>1. PICK val \in Objects : Written("jsc", val, Output("jsc", val))
    BY <1>1 DEF toWson, wson_push_js_value
  <2> QED BY <2>1, WrittenKeeps DEF Writers
<1>2. CASE runTimeValueToWson
  <2>1. PICK val \in Trees(Leaves \cup {Null, Undefined, Function, Native}) :
          Written("runtime", val, Output("runtime", val))
    BY <1>2 DEF runTimeValueToWson, putValuesToWson
  <2>2. val \in Objects
    BY DEF Trees
  <2> QED BY <2>1, <2>2, WrittenKeeps DEF Writers
<1>3. CASE CocoaWrite
  <2>1. PICK val \in Trees(Leaves \cup {Null}) : Written("cocoa", val, Output("cocoa", val))
    BY <1>3 DEF CocoaWrite, CocoaToWson
  <2>2. val \in Objects
    BY DEF Trees
  <2> QED BY <2>1, <2>2, WrittenKeeps DEF Writers
<1>4. CASE toJSValue
  <2> DEFINE cache == IF system # <<>> THEN system ELSE Fresh(LocalCount)
             read == Read("jsc", cache)
  <2>1. cache \in Caches
    BY FreshType DEF TypeOK
  <2>2. /\ UNCHANGED <<heap, writer, root, buffer>> /\ writer # "none"
        /\ got' = [reader |-> "jsc", val |-> read.val, at |-> read.at]
        /\ system' = IF system # <<>> THEN read.cache ELSE <<>>
    BY <1>4 DEF toJSValue
  <2>3. read.cache \in Caches
    <3> HIDE DEF cache
    <3> QED BY <2>1, ReadType DEF TypeOK
  <2>4. TypeOK'
    <3> HIDE DEF read
    <3> QED BY <2>2, <2>3, FreshType DEF TypeOK
  <2>5. Filled' /\ Answered'
    <3>1. "jsc" \in Readers
      BY DEF Readers
    <3>2. ReadsOut("jsc", read.val, read.at, cache)
      BY <2>2 DEF ReadsOut
    <3> HIDE DEF cache, read
    <3> QED BY <2>1, <3>1, <3>2, ReadKeeps
  <2> QED BY <2>2, <2>4, <2>5
<1>5. ASSUME NEW reader \in {"runtime", "cocoa"}, ReadBy(reader) PROVE IInv'
  <2> DEFINE read == Read(reader, <<>>)
  <2>1. /\ UNCHANGED <<heap, system, writer, root, buffer>> /\ writer # "none"
        /\ got' = [reader |-> reader, val |-> read.val, at |-> read.at]
    BY <1>5 DEF ReadBy
  <2>2. TypeOK'
    BY <2>1 DEF TypeOK
  <2>3. Filled' /\ Answered'
    <3>1. reader \in Readers /\ reader # "java"
      BY DEF Readers
    <3>2. ReadsOut(reader, read.val, read.at, <<>>)
      BY <2>1, <3>1 DEF ReadsOut
    <3> HIDE DEF read
    <3> QED BY <3>1, <3>2, FreshType, ReadKeeps
  <2> QED BY <2>1, <2>2, <2>3
<1>6. CASE parse
  <2> DEFINE read == Read("java", <<>>)
             val == IF read.at <= Len(buffer) + 1 THEN read.val ELSE Null
  <2>1. /\ UNCHANGED <<heap, system, writer, root, buffer>> /\ writer # "none"
        /\ got' = [reader |-> "java", val |-> val, at |-> read.at]
    <3>1. /\ UNCHANGED <<heap, system, writer, root, buffer>> /\ writer # "none"
          /\ got' = [reader |-> "java", at |-> read.at, val |-> val]
      BY <1>6 DEF parse, readObject
    <3> HIDE DEF read, val
    <3> QED BY <3>1
  <2>2. TypeOK'
    BY <2>1 DEF TypeOK
  <2>3. Filled' /\ Answered'
    <3>1. "java" \in Readers
      BY DEF Readers
    <3>2. ReadsOut("java", val, read.at, <<>>)
      BY <2>1 DEF ReadsOut
    <3> HIDE DEF read, val
    <3> QED BY <3>1, <3>2, FreshType, ReadKeeps
  <2> QED BY <2>1, <2>2, <2>3
<1>7. CASE Free
  <2>1. /\ writer' = "none" /\ root' = Null /\ buffer' = <<>> /\ got' = <<>>
        /\ heap' = heap /\ system' = system
    BY <1>7 DEF Free
  <2>2. <<>> \in Seq(Tokens)
    OBVIOUS
  <2>3. TypeOK'
    BY <2>1, <2>2 DEF TypeOK
  <2>4. Filled' /\ Answered'
    BY <2>1 DEF Filled, Answered
  <2> QED BY <2>1, <2>3, <2>4
<1>8. CASE UNCHANGED <<heap, writer, root, buffer, got>> /\ system' \in Caches
  <2>1. TypeOK'
    BY <1>8 DEF TypeOK
  <2>2. Filled'
    BY <1>8, FilledStays
  <2>3. Answered'
    <3>1. CASE got = <<>>
      BY <1>8, <3>1 DEF Answered
    <3>2. CASE got # <<>>
      <4>1. /\ Meant' = Meant /\ (Sound' <=> Sound)
            /\ call_object_js_value_to_json(root)' = call_object_js_value_to_json(root)
            /\ (Vanishing(root)' <=> Vanishing(root))
        BY <1>8, SameMeaning DEF call_object_js_value_to_json, Vanishing, Skipped
      <4>2. Reads(Meant)' <=> Reads(Meant)
        BY <1>8, <4>1 DEF Reads
      <4>3. /\ writer' # "none"
            /\ Sound' => Reads(Meant)'
            /\ writer' = "jsc" /\ got'.reader # "cocoa"
                 /\ call_object_js_value_to_json(root)' = root' /\ Vanishing(root)'
               => Reads(Meant)' \/ (got'.reader = "java" /\ got'.val = Null)
        BY <1>8, <3>2, <4>1, <4>2 DEF Answered
      <4> QED BY <4>3 DEF Answered
    <3> QED BY <3>1, <3>2
  <2> QED BY <1>8, <2>1, <2>2, <2>3
<1>9. CASE init
  BY <1>8, <1>9, FreshType DEF init
<1>10. CASE destory
  BY <1>8, <1>10, FreshType DEF destory
<1>11. CASE UNCHANGED vars
  BY <1>8, <1>11 DEF vars, TypeOK
<1> QED BY <1>1, <1>2, <1>3, <1>4, <1>5, <1>6, <1>7, <1>9, <1>10, <1>11
        DEF Next, toRunTimeValueFromWson, toVal

LEMMA Invariant == Spec => []IInv
<1>1. Init => IInv
  BY Starts
<1>2. IInv /\ [Next]_vars => IInv'
  BY Keeps
<1> QED BY <1>1, <1>2, PTL DEF Spec

(* Whatever the getters do, only tokens of the format are in a buffer and  *)
(* only keys in the caches (wson_push_js_value, putValuesToWson,           *)
(* makeIdentifer).                                                         *)
THEOREM BridgesTypeCorrect == Spec => []TypeOK
<1>1. IInv => TypeOK
  BY DEF IInv
<1> QED BY <1>1, Invariant, PTL

(* For every heap, every depth, any cache of keys: what JavaScriptCore,    *)
(* the native runtime or Cocoa writes, each of them and Wson.parse read    *)
(* as the tree it stands for, up to the last byte.                         *)
THEOREM WhatIsWrittenIsReadBack == Spec => []ReadsBack
<1>1. IInv => ReadsBack
  BY DEF IInv, Answered, ReadsBack
<1> QED BY <1>1, Invariant, PTL

(* Properties that vanish while JavaScriptCore writes are absent for the   *)
(* readers that look for the end, and make Java return null, however many  *)
(* they are.                                                               *)
THEOREM VanishedPropertiesAreAbsent == Spec => []VanishedIsAbsent
<1>1. IInv => VanishedIsAbsent
  BY DEF IInv, Answered, VanishedIsAbsent
<1> QED BY <1>1, Invariant, PTL
=============================================================================
