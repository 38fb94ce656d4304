-------------------------- MODULE DomRender_proofs --------------------------
(***************************************************************************)
(* The readers of documents, for every document.                           *)
(***************************************************************************)
EXTENDS DomRender, CommonLemmas

-----------------------------------------------------------------------------
(* Each Repeat is a recursion by one of these steps.                       *)
OneStep(name, arg, prev, k) ==
  CASE name = "nested"   -> Single \cup Containers(prev)
    [] name = "encoding" -> [val \in Nested[k] |-> EncodeValue(prev, val)]
    [] name = "tree"     -> [val \in Nested[k] |-> TreeOf(prev, arg, val)]
    [] name = "tidy"     -> [val \in Nested[k] |-> TidyBelow(prev, val)]
    [] name = "preorder" -> [p \in Nested[k] \X Strings |-> ObjectsOf(prev, p[1], p[2])]
    [] name = "skip"     -> [at \in Nat |-> SkippedValue(prev, at)]
    [] name = "render"   -> [at \in Nat |-> Rendered(prev, at)]
    [] name = "new"      -> [at \in Nat |-> RenderedNew(prev, at)]
    [] name = "generate" -> [c \in Calls |-> Generated(prev, c[1], c[2], c[3])]
    [] name = "SkipItem"    -> SkipItem(arg[1], arg[2], prev)
    [] name = "RenderChild" -> RenderChild(arg, prev, k - 1)
    [] name = "RenderEntry" -> RenderEntry(arg[1], arg[2], prev)
    [] name = "NewChild"    -> NewChild(arg, prev)
    [] name = "NewEntry"    -> NewEntry(arg, prev)
    [] name = "GenEntry"    -> GenEntry(prev)
    [] name = "GenChild"    -> GenChild(arg[1], arg[2], prev, k - 1)
    [] name = "GenAgain"    -> GenAgain(arg[1], arg[2], prev)

(* The first n of them, *)
IsTable(name, arg, start, n, f) ==
  f = [k \in 0..n |-> IF k = 0 THEN start ELSE OneStep(name, arg, f[k - 1], k)]

(* which there are, *)
LEMMA TablesExist ==
  ASSUME NEW name, NEW arg, NEW start, NEW n \in Nat
  PROVE  \E f : IsTable(name, arg, start, n, f)
<1> DEFINE P == {m \in Nat : \E f : IsTable(name, arg, start, m, f)}
<1>1. 0 \in P
  <2> DEFINE f == [k \in 0..0 |-> start]
  <2>1. f = [k \in 0..0 |-> IF k = 0 THEN start ELSE OneStep(name, arg, f[k - 1], k)]
    OBVIOUS
  <2>2. IsTable(name, arg, start, 0, f)
    BY <2>1 DEF IsTable
  <2> QED BY <2>2
<1>2. ASSUME NEW m \in Nat, m \in P
      PROVE  m + 1 \in P
  <2>1. PICK f : IsTable(name, arg, start, m, f)
    BY <1>2
  <2> DEFINE g == [k \in 0..(m + 1) |->
                     IF k = m + 1 THEN OneStep(name, arg, f[m], m + 1) ELSE f[k]]
             h == [k \in 0..(m + 1) |->
                     IF k = 0 THEN start ELSE OneStep(name, arg, g[k - 1], k)]
  <2>2. ASSUME NEW k \in 0..(m + 1) PROVE g[k] = h[k]
    <3>1. CASE k = m + 1
      <4>1. m \in 0..(m + 1) /\ m # m + 1 /\ k - 1 = m /\ k # 0 BY <3>1
      <4>2. g[m] = f[m] BY <4>1
      <4> QED BY <3>1, <4>1, <4>2
    <3>2. CASE k = 0
      <4>1. f[0] = start BY <2>1 DEF IsTable
      <4> QED BY <3>2, <4>1
    <3>3. CASE k # m + 1 /\ k # 0
      <4>1. k \in 0..m /\ k - 1 \in 0..m /\ k - 1 \in 0..(m + 1) /\ k - 1 # m + 1
        BY <3>3
      <4>2. f[k] = OneStep(name, arg, f[k - 1], k) BY <2>1, <3>3, <4>1 DEF IsTable
      <4>3. g[k - 1] = f[k - 1] BY <4>1
      <4> QED BY <3>3, <4>2, <4>3
    <3> QED BY <3>1, <3>2, <3>3
  <2>3. g = h
    BY <2>2
  <2>4. IsTable(name, arg, start, m + 1, g)
    BY <2>3 DEF IsTable
  <2> HIDE DEF g
  <2> QED BY <2>4
<1> HIDE DEF P
<1>3. Nat \subseteq P
  BY <1>1, <1>2, Counting
<1> QED BY <1>3 DEF P

(* and which agree, *)
LEMMA TablesAgree ==
  ASSUME NEW name, NEW arg, NEW start, NEW k \in Nat, NEW m \in Nat, NEW n \in Nat,
         k <= m, k <= n,
         NEW f, NEW g, IsTable(name, arg, start, m, f), IsTable(name, arg, start, n, g)
  PROVE  f[k] = g[k]
<1> DEFINE P == {i \in Nat : i <= m /\ i <= n => f[i] = g[i]}
<1>1. 0 \in P
  BY DEF IsTable
<1>2. ASSUME NEW i \in Nat, i \in P
      PROVE  i + 1 \in P
  <2> SUFFICES ASSUME i + 1 <= m, i + 1 <= n PROVE f[i + 1] = g[i + 1]
    OBVIOUS
  <2>1. i + 1 \in 0..m /\ i + 1 \in 0..n /\ i + 1 # 0 /\ (i + 1) - 1 = i /\ f[i] = g[i]
    BY <1>2
  <2> QED BY <2>1 DEF IsTable
<1> HIDE DEF P
<1>3. Nat \subseteq P
  BY <1>1, <1>2, Counting
<1> QED BY <1>3 DEF P

(* make up all of them. *)
IsRun(f, start, name, arg) ==
  f = [n \in Nat |-> IF n = 0 THEN start ELSE OneStep(name, arg, f[n - 1], n)]

LEMMA RunsExist ==
  ASSUME NEW name, NEW arg, NEW start
  PROVE  \E f : IsRun(f, start, name, arg)
<1> DEFINE Table(n) == CHOOSE f : IsTable(name, arg, start, n, f)
           f == [n \in Nat |-> Table(n)[n]]
           h == [n \in Nat |-> IF n = 0 THEN start ELSE OneStep(name, arg, f[n - 1], n)]
<1>1. ASSUME NEW n \in Nat PROVE IsTable(name, arg, start, n, Table(n))
  BY TablesExist
<1> HIDE DEF Table
<1>2. ASSUME NEW n \in Nat PROVE f[n] = h[n]
  <2>1. CASE n = 0
    BY <2>1, <1>1 DEF IsTable
  <2>2. CASE n # 0
    <3>1. n - 1 \in Nat /\ n - 1 <= n /\ n - 1 <= n - 1 /\ n \in 0..n
      BY <2>2
    <3>2. Table(n)[n - 1] = Table(n - 1)[n - 1]
      BY <1>1, <3>1, TablesAgree
    <3>3. Table(n)[n] = OneStep(name, arg, Table(n)[n - 1], n)
      BY <1>1, <2>2, <3>1 DEF IsTable
    <3>4. f[n - 1] = Table(n - 1)[n - 1]
      BY <3>1
    <3> QED BY <2>2, <3>2, <3>3, <3>4
  <2> QED BY <2>1, <2>2
<1>3. f = h
  BY <1>2
<1> HIDE DEF f
<1> QED BY <1>3 DEF IsRun

LEMMA NestedRuns ==
  /\ Nested[0] = {}
  /\ \A n \in Nat :
       Nested[n + 1] =
         Single \cup Containers(Nested[n])
<1> DEFINE Is(f) == f = [n \in Nat |-> IF n = 0 THEN {} ELSE
                                         Single \cup Containers(f[n - 1])]
<1>1. \E f : Is(f)
  <2>1. PICK f : IsRun(f, {}, "nested", 0)
    BY RunsExist
  <2> QED BY <2>1 DEF IsRun, OneStep
<1>2. Nested = CHOOSE f : Is(f)
  BY DEF Nested, Repeat
<1> DEFINE g == Nested
<1>3. Is(g)
  <2> HIDE DEF Is
  <2> QED BY <1>1, <1>2
<1> HIDE DEF g
<1>4. ASSUME NEW n \in Nat
      PROVE  g[n + 1] = Single \cup Containers(g[n])
  <2>1. n + 1 \in Nat /\ n + 1 # 0 /\ (n + 1) - 1 = n
    OBVIOUS
  <2> QED BY <1>3, <2>1
<1>5. g[0] = {}
  BY <1>3
<1> QED BY <1>4, <1>5 DEF g

LEMMA EncodingRuns ==
  /\ Encoding[0] = <<>>
  /\ \A n \in Nat :
       Encoding[n + 1] =
         [val \in Nested[n + 1] |-> EncodeValue(Encoding[n], val)]
<1> DEFINE Is(f) == f = [n \in Nat |-> IF n = 0 THEN <<>> ELSE
                                         [val \in Nested[n] |-> EncodeValue(f[n - 1], val)]]
<1>1. \E f : Is(f)
  <2>1. PICK f : IsRun(f, <<>>, "encoding", 0)
    BY RunsExist
  <2> QED BY <2>1 DEF IsRun, OneStep
<1>2. Encoding = CHOOSE f : Is(f)
  BY DEF Encoding, Repeat
<1> DEFINE g == Encoding
<1>3. Is(g)
  <2> HIDE DEF Is
  <2> QED BY <1>1, <1>2
<1> HIDE DEF g
<1>4. ASSUME NEW n \in Nat
      PROVE  g[n + 1] = [val \in Nested[n + 1] |-> EncodeValue(g[n], val)]
  <2>1. n + 1 \in Nat /\ n + 1 # 0 /\ (n + 1) - 1 = n
    OBVIOUS
  <2> QED BY <1>3, <2>1
<1>5. g[0] = <<>>
  BY <1>3
<1> QED BY <1>4, <1>5 DEF g

LEMMA TreeRuns ==
  ASSUME NEW untyped
  PROVE  /\ RenderTree(untyped)[0] = <<>>
         /\ \A n \in Nat :
              RenderTree(untyped)[n + 1] =
                [val \in Nested[n + 1] |-> TreeOf(RenderTree(untyped)[n], untyped, val)]
<1> DEFINE Is(f) == f = [n \in Nat |-> IF n = 0 THEN <<>> ELSE
                                         [val \in Nested[n] |-> TreeOf(f[n - 1], untyped, val)]]
<1>1. \E f : Is(f)
  <2>1. PICK f : IsRun(f, <<>>, "tree", untyped)
    BY RunsExist
  <2> QED BY <2>1 DEF IsRun, OneStep
<1>2. RenderTree(untyped) = CHOOSE f : Is(f)
  BY DEF RenderTree, Repeat
<1> DEFINE g == RenderTree(untyped)
<1>3. Is(g)
  <2> HIDE DEF Is
  <2> QED BY <1>1, <1>2
<1> HIDE DEF g
<1>4. ASSUME NEW n \in Nat
      PROVE  g[n + 1] = [val \in Nested[n + 1] |-> TreeOf(g[n], untyped, val)]
  <2>1. n + 1 \in Nat /\ n + 1 # 0 /\ (n + 1) - 1 = n
    OBVIOUS
  <2> QED BY <1>3, <2>1
<1>5. g[0] = <<>>
  BY <1>3
<1> QED BY <1>4, <1>5 DEF g

LEMMA TreeStart ==
  ASSUME NEW untyped
  PROVE  RenderTree(untyped)[0] = <<>>
BY TreeRuns

LEMMA TreeStep ==
  ASSUME NEW untyped, NEW n \in Nat
  PROVE  RenderTree(untyped)[n + 1] =
           [val \in Nested[n + 1] |-> TreeOf(RenderTree(untyped)[n], untyped, val)]
<1>1. /\ RenderTree(untyped)[0] = <<>>
      /\ \A k \in Nat :
        RenderTree(untyped)[k + 1] =
          [val \in Nested[k + 1] |-> TreeOf(RenderTree(untyped)[k], untyped, val)]
  BY TreeRuns
<1> QED BY <1>1

LEMMA TidyRuns ==
  /\ AllTidy[0] = <<>>
  /\ \A n \in Nat :
       AllTidy[n + 1] =
         [val \in Nested[n + 1] |-> TidyBelow(AllTidy[n], val)]
<1> DEFINE Is(f) == f = [n \in Nat |-> IF n = 0 THEN <<>> ELSE
                                         [val \in Nested[n] |-> TidyBelow(f[n - 1], val)]]
<1>1. \E f : Is(f)
  <2>1. PICK f : IsRun(f, <<>>, "tidy", 0)
    BY RunsExist
  <2> QED BY <2>1 DEF IsRun, OneStep
<1>2. AllTidy = CHOOSE f : Is(f)
  BY DEF AllTidy, Repeat
<1> DEFINE g == AllTidy
<1>3. Is(g)
  <2> HIDE DEF Is
  <2> QED BY <1>1, <1>2
<1> HIDE DEF g
<1>4. ASSUME NEW n \in Nat
      PROVE  g[n + 1] = [val \in Nested[n + 1] |-> TidyBelow(g[n], val)]
  <2>1. n + 1 \in Nat /\ n + 1 # 0 /\ (n + 1) - 1 = n
    OBVIOUS
  <2> QED BY <1>3, <2>1
<1>5. g[0] = <<>>
  BY <1>3
<1> QED BY <1>4, <1>5 DEF g

LEMMA PreorderRuns ==
  /\ Preorder[0] = <<>>
  /\ \A n \in Nat :
       Preorder[n + 1] =
         [p \in Nested[n + 1] \X Strings |-> ObjectsOf(Preorder[n], p[1], p[2])]
<1> DEFINE Is(f) == f = [n \in Nat |-> IF n = 0 THEN <<>> ELSE
                                         [p \in Nested[n] \X Strings |-> ObjectsOf(f[n - 1], p[1], p[2])]]
<1>1. \E f : Is(f)
  <2>1. PICK f : IsRun(f, <<>>, "preorder", 0)
    BY RunsExist
  <2> QED BY <2>1 DEF IsRun, OneStep
<1>2. Preorder = CHOOSE f : Is(f)
  BY DEF Preorder, Repeat
<1> DEFINE g == Preorder
<1>3. Is(g)
  <2> HIDE DEF Is
  <2> QED BY <1>1, <1>2
<1> HIDE DEF g
<1>4. ASSUME NEW n \in Nat
      PROVE  g[n + 1] = [p \in Nested[n + 1] \X Strings |-> ObjectsOf(g[n], p[1], p[2])]
  <2>1. n + 1 \in Nat /\ n + 1 # 0 /\ (n + 1) - 1 = n
    OBVIOUS
  <2> QED BY <1>3, <2>1
<1>5. g[0] = <<>>
  BY <1>3
<1> QED BY <1>4, <1>5 DEF g

LEMMA SkipRuns ==
  /\ Skip[0] = [at \in Nat |-> Lost]
  /\ \A n \in Nat :
       Skip[n + 1] =
         [at \in Nat |-> SkippedValue(Skip[n], at)]
<1> DEFINE Is(f) == f = [n \in Nat |-> IF n = 0 THEN [at \in Nat |-> Lost] ELSE
                                         [at \in Nat |-> SkippedValue(f[n - 1], at)]]
<1>1. \E f : Is(f)
  <2>1. PICK f : IsRun(f, [at \in Nat |-> Lost], "skip", 0)
    BY RunsExist
  <2> QED BY <2>1 DEF IsRun, OneStep
<1>2. Skip = CHOOSE f : Is(f)
  BY DEF Skip, Repeat
<1> DEFINE g == Skip
<1>3. Is(g)
  <2> HIDE DEF Is
  <2> QED BY <1>1, <1>2
<1> HIDE DEF g
<1>4. ASSUME NEW n \in Nat
      PROVE  g[n + 1] = [at \in Nat |-> SkippedValue(g[n], at)]
  <2>1. n + 1 \in Nat /\ n + 1 # 0 /\ (n + 1) - 1 = n
    OBVIOUS
  <2> QED BY <1>3, <2>1
<1>5. g[0] = [at \in Nat |-> Lost]
  BY <1>3
<1> QED BY <1>4, <1>5 DEF g

LEMMA RenderRuns ==
  /\ Render[0] = NoRender
  /\ \A n \in Nat :
       Render[n + 1] =
         [at \in Nat |-> Rendered(Render[n], at)]
<1> DEFINE Is(f) == f = [n \in Nat |-> IF n = 0 THEN NoRender ELSE
                                         [at \in Nat |-> Rendered(f[n - 1], at)]]
<1>1. \E f : Is(f)
  <2>1. PICK f : IsRun(f, NoRender, "render", 0)
    BY RunsExist
  <2> QED BY <2>1 DEF IsRun, OneStep
<1>2. Render = CHOOSE f : Is(f)
  BY DEF Render, Repeat
<1> DEFINE g == Render
<1>3. Is(g)
  <2> HIDE DEF Is
  <2> QED BY <1>1, <1>2
<1> HIDE DEF g
<1>4. ASSUME NEW n \in Nat
      PROVE  g[n + 1] = [at \in Nat |-> Rendered(g[n], at)]
  <2>1. n + 1 \in Nat /\ n + 1 # 0 /\ (n + 1) - 1 = n
    OBVIOUS
  <2> QED BY <1>3, <2>1
<1>5. g[0] = NoRender
  BY <1>3
<1> QED BY <1>4, <1>5 DEF g

LEMMA RenderNewRuns ==
  /\ RenderNew[0] = NoRender
  /\ \A n \in Nat :
       RenderNew[n + 1] =
         [at \in Nat |-> RenderedNew(RenderNew[n], at)]
<1> DEFINE Is(f) == f = [n \in Nat |-> IF n = 0 THEN NoRender ELSE
                                         [at \in Nat |-> RenderedNew(f[n - 1], at)]]
<1>1. \E f : Is(f)
  <2>1. PICK f : IsRun(f, NoRender, "new", 0)
    BY RunsExist
  <2> QED BY <2>1 DEF IsRun, OneStep
<1>2. RenderNew = CHOOSE f : Is(f)
  BY DEF RenderNew, Repeat
<1> DEFINE g == RenderNew
<1>3. Is(g)
  <2> HIDE DEF Is
  <2> QED BY <1>1, <1>2
<1> HIDE DEF g
<1>4. ASSUME NEW n \in Nat
      PROVE  g[n + 1] = [at \in Nat |-> RenderedNew(g[n], at)]
  <2>1. n + 1 \in Nat /\ n + 1 # 0 /\ (n + 1) - 1 = n
    OBVIOUS
  <2> QED BY <1>3, <2>1
<1>5. g[0] = NoRender
  BY <1>3
<1> QED BY <1>4, <1>5 DEF g

LEMMA GenerationRuns ==
  /\ Generation[0] = [c \in Calls |-> [at |-> Lost, made |-> <<>>]]
  /\ \A n \in Nat :
       Generation[n + 1] =
         [c \in Calls |-> Generated(Generation[n], c[1], c[2], c[3])]
<1> DEFINE Is(f) == f = [n \in Nat |-> IF n = 0 THEN [c \in Calls |-> [at |-> Lost, made |-> <<>>]] ELSE
                                         [c \in Calls |-> Generated(f[n - 1], c[1], c[2], c[3])]]
<1>1. \E f : Is(f)
  <2>1. PICK f : IsRun(f, [c \in Calls |-> [at |-> Lost, made |-> <<>>]], "generate", 0)
    BY RunsExist
  <2> QED BY <2>1 DEF IsRun, OneStep
<1>2. Generation = CHOOSE f : Is(f)
  BY DEF Generation, Repeat
<1> DEFINE g == Generation
<1>3. Is(g)
  <2> HIDE DEF Is
  <2> QED BY <1>1, <1>2
<1> HIDE DEF g
<1>4. ASSUME NEW n \in Nat
      PROVE  g[n + 1] = [c \in Calls |-> Generated(g[n], c[1], c[2], c[3])]
  <2>1. n + 1 \in Nat /\ n + 1 # 0 /\ (n + 1) - 1 = n
    OBVIOUS
  <2> QED BY <1>3, <2>1
<1>5. g[0] = [c \in Calls |-> [at |-> Lost, made |-> <<>>]]
  BY <1>3
<1> QED BY <1>4, <1>5 DEF g

LEMMA SkipItemsRuns ==
  ASSUME NEW inside, NEW at
  PROVE  /\ SkipItems(inside, at)[0] = at + 1
         /\ \A n \in Nat :
              SkipItems(inside, at)[n + 1] =
                SkipItem(inside, at, SkipItems(inside, at)[n])
<1> DEFINE Is(f) == f = [n \in Nat |-> IF n = 0 THEN at + 1 ELSE
                                         SkipItem(inside, at, f[n - 1])]
<1>1. \E f : Is(f)
  <2>1. PICK f : IsRun(f, at + 1, "SkipItem", <<inside, at>>)
    BY RunsExist
  <2> QED BY <2>1 DEF IsRun, OneStep
<1>2. SkipItems(inside, at) = CHOOSE f : Is(f)
  BY DEF SkipItems, Repeat
<1> DEFINE g == SkipItems(inside, at)
<1>3. Is(g)
  <2> HIDE DEF Is
  <2> QED BY <1>1, <1>2
<1> HIDE DEF g
<1>4. ASSUME NEW n \in Nat
      PROVE  g[n + 1] = SkipItem(inside, at, g[n])
  <2>1. n + 1 \in Nat /\ n + 1 # 0 /\ (n + 1) - 1 = n
    OBVIOUS
  <2> QED BY <1>3, <2>1
<1>5. g[0] = at + 1
  BY <1>3
<1> QED BY <1>4, <1>5 DEF g

LEMMA SkipItemsStart ==
  ASSUME NEW inside, NEW at
  PROVE  SkipItems(inside, at)[0] = at + 1
BY SkipItemsRuns

LEMMA SkipItemsStep ==
  ASSUME NEW inside, NEW at, NEW n \in Nat
  PROVE  SkipItems(inside, at)[n + 1] =
           SkipItem(inside, at, SkipItems(inside, at)[n])
<1>1. /\ SkipItems(inside, at)[0] = at + 1
      /\ \A k \in Nat :
        SkipItems(inside, at)[k + 1] =
          SkipItem(inside, at, SkipItems(inside, at)[k])
  BY SkipItemsRuns
<1> QED BY <1>1

LEMMA RenderChildrenRuns ==
  ASSUME NEW inside, NEW render, NEW at
  PROVE  /\ RenderChildren(inside, render, at)[0] = [at |-> at + 1, render |-> render]
         /\ \A n \in Nat :
              RenderChildren(inside, render, at)[n + 1] =
                RenderChild(inside, RenderChildren(inside, render, at)[n], n)
<1> DEFINE Is(f) == f = [n \in Nat |-> IF n = 0 THEN [at |-> at + 1, render |-> render] ELSE
                                         RenderChild(inside, f[n - 1], n - 1)]
<1>1. \E f : Is(f)
  <2>1. PICK f : IsRun(f, [at |-> at + 1, render |-> render], "RenderChild", inside)
    BY RunsExist
  <2> QED BY <2>1 DEF IsRun, OneStep
<1>2. RenderChildren(inside, render, at) = CHOOSE f : Is(f)
  BY DEF RenderChildren, Repeat
<1> DEFINE g == RenderChildren(inside, render, at)
<1>3. Is(g)
  <2> HIDE DEF Is
  <2> QED BY <1>1, <1>2
<1> HIDE DEF g
<1>4. ASSUME NEW n \in Nat
      PROVE  g[n + 1] = RenderChild(inside, g[n], n)
  <2>1. n + 1 \in Nat /\ n + 1 # 0 /\ (n + 1) - 1 = n
    OBVIOUS
  <2> QED BY <1>3, <2>1
<1>5. g[0] = [at |-> at + 1, render |-> render]
  BY <1>3
<1> QED BY <1>4, <1>5 DEF g

LEMMA RenderChildrenStart ==
  ASSUME NEW inside, NEW render, NEW at
  PROVE  RenderChildren(inside, render, at)[0] = [at |-> at + 1, render |-> render]
BY RenderChildrenRuns

LEMMA RenderChildrenStep ==
  ASSUME NEW inside, NEW render, NEW at, NEW n \in Nat
  PROVE  RenderChildren(inside, render, at)[n + 1] =
           RenderChild(inside, RenderChildren(inside, render, at)[n], n)
<1>1. /\ RenderChildren(inside, render, at)[0] = [at |-> at + 1, render |-> render]
      /\ \A k \in Nat :
        RenderChildren(inside, render, at)[k + 1] =
          RenderChild(inside, RenderChildren(inside, render, at)[k], k)
  BY RenderChildrenRuns
<1> QED BY <1>1

LEMMA RenderEntriesRuns ==
  ASSUME NEW inside, NEW again, NEW start
  PROVE  /\ RenderEntries(inside, again, start)[0] = start
         /\ \A n \in Nat :
              RenderEntries(inside, again, start)[n + 1] =
                RenderEntry(inside, again, RenderEntries(inside, again, start)[n])
<1> DEFINE Is(f) == f = [n \in Nat |-> IF n = 0 THEN start ELSE
                                         RenderEntry(inside, again, f[n - 1])]
<1>1. \E f : Is(f)
  <2>1. PICK f : IsRun(f, start, "RenderEntry", <<inside, again>>)
    BY RunsExist
  <2> QED BY <2>1 DEF IsRun, OneStep
<1>2. RenderEntries(inside, again, start) = CHOOSE f : Is(f)
  BY DEF RenderEntries, Repeat
<1> DEFINE g == RenderEntries(inside, again, start)
<1>3. Is(g)
  <2> HIDE DEF Is
  <2> QED BY <1>1, <1>2
<1> HIDE DEF g
<1>4. ASSUME NEW n \in Nat
      PROVE  g[n + 1] = RenderEntry(inside, again, g[n])
  <2>1. n + 1 \in Nat /\ n + 1 # 0 /\ (n + 1) - 1 = n
    OBVIOUS
  <2> QED BY <1>3, <2>1
<1>5. g[0] = start
  BY <1>3
<1> QED BY <1>4, <1>5 DEF g

LEMMA RenderEntriesStart ==
  ASSUME NEW inside, NEW again, NEW start
  PROVE  RenderEntries(inside, again, start)[0] = start
BY RenderEntriesRuns

LEMMA RenderEntriesStep ==
  ASSUME NEW inside, NEW again, NEW start, NEW n \in Nat
  PROVE  RenderEntries(inside, again, start)[n + 1] =
           RenderEntry(inside, again, RenderEntries(inside, again, start)[n])
<1>1. /\ RenderEntries(inside, again, start)[0] = start
      /\ \A k \in Nat :
        RenderEntries(inside, again, start)[k + 1] =
          RenderEntry(inside, again, RenderEntries(inside, again, start)[k])
  BY RenderEntriesRuns
<1> QED BY <1>1

LEMMA NewChildrenRuns ==
  ASSUME NEW inside, NEW children, NEW at
  PROVE  /\ NewChildren(inside, children, at)[0] = [at |-> at + 1, children |-> children]
         /\ \A n \in Nat :
              NewChildren(inside, children, at)[n + 1] =
                NewChild(inside, NewChildren(inside, children, at)[n])
<1> DEFINE Is(f) == f = [n \in Nat |-> IF n = 0 THEN [at |-> at + 1, children |-> children] ELSE
                                         NewChild(inside, f[n - 1])]
<1>1. \E f : Is(f)
  <2>1. PICK f : IsRun(f, [at |-> at + 1, children |-> children], "NewChild", inside)
    BY RunsExist
  <2> QED BY <2>1 DEF IsRun, OneStep
<1>2. NewChildren(inside, children, at) = CHOOSE f : Is(f)
  BY DEF NewChildren, Repeat
<1> DEFINE g == NewChildren(inside, children, at)
<1>3. Is(g)
  <2> HIDE DEF Is
  <2> QED BY <1>1, <1>2
<1> HIDE DEF g
<1>4. ASSUME NEW n \in Nat
      PROVE  g[n + 1] = NewChild(inside, g[n])
  <2>1. n + 1 \in Nat /\ n + 1 # 0 /\ (n + 1) - 1 = n
    OBVIOUS
  <2> QED BY <1>3, <2>1
<1>5. g[0] = [at |-> at + 1, children |-> children]
  BY <1>3
<1> QED BY <1>4, <1>5 DEF g

LEMMA NewChildrenStart ==
  ASSUME NEW inside, NEW children, NEW at
  PROVE  NewChildren(inside, children, at)[0] = [at |-> at + 1, children |-> children]
BY NewChildrenRuns

LEMMA NewChildrenStep ==
  ASSUME NEW inside, NEW children, NEW at, NEW n \in Nat
  PROVE  NewChildren(inside, children, at)[n + 1] =
           NewChild(inside, NewChildren(inside, children, at)[n])
<1>1. /\ NewChildren(inside, children, at)[0] = [at |-> at + 1, children |-> children]
      /\ \A k \in Nat :
        NewChildren(inside, children, at)[k + 1] =
          NewChild(inside, NewChildren(inside, children, at)[k])
  BY NewChildrenRuns
<1> QED BY <1>1

LEMMA NewEntriesRuns ==
  ASSUME NEW inside, NEW start
  PROVE  /\ NewEntries(inside, start)[0] = start
         /\ \A n \in Nat :
              NewEntries(inside, start)[n + 1] =
                NewEntry(inside, NewEntries(inside, start)[n])
<1> DEFINE Is(f) == f = [n \in Nat |-> IF n = 0 THEN start ELSE
                                         NewEntry(inside, f[n - 1])]
<1>1. \E f : Is(f)
  <2>1. PICK f : IsRun(f, start, "NewEntry", inside)
    BY RunsExist
  <2> QED BY <2>1 DEF IsRun, OneStep
<1>2. NewEntries(inside, start) = CHOOSE f : Is(f)
  BY DEF NewEntries, Repeat
<1> DEFINE g == NewEntries(inside, start)
<1>3. Is(g)
  <2> HIDE DEF Is
  <2> QED BY <1>1, <1>2
<1> HIDE DEF g
<1>4. ASSUME NEW n \in Nat
      PROVE  g[n + 1] = NewEntry(inside, g[n])
  <2>1. n + 1 \in Nat /\ n + 1 # 0 /\ (n + 1) - 1 = n
    OBVIOUS
  <2> QED BY <1>3, <2>1
<1>5. g[0] = start
  BY <1>3
<1> QED BY <1>4, <1>5 DEF g

LEMMA NewEntriesStart ==
  ASSUME NEW inside, NEW start
  PROVE  NewEntries(inside, start)[0] = start
BY NewEntriesRuns

LEMMA NewEntriesStep ==
  ASSUME NEW inside, NEW start, NEW n \in Nat
  PROVE  NewEntries(inside, start)[n + 1] =
           NewEntry(inside, NewEntries(inside, start)[n])
<1>1. /\ NewEntries(inside, start)[0] = start
      /\ \A k \in Nat :
        NewEntries(inside, start)[k + 1] =
          NewEntry(inside, NewEntries(inside, start)[k])
  BY NewEntriesRuns
<1> QED BY <1>1

LEMMA GenEntriesRuns ==
  ASSUME NEW start
  PROVE  /\ GenEntries(start)[0] = start
         /\ \A n \in Nat :
              GenEntries(start)[n + 1] =
                GenEntry(GenEntries(start)[n])
<1> DEFINE Is(f) == f = [n \in Nat |-> IF n = 0 THEN start ELSE
                                         GenEntry(f[n - 1])]
<1>1. \E f : Is(f)
  <2>1. PICK f : IsRun(f, start, "GenEntry", 0)
    BY RunsExist
  <2> QED BY <2>1 DEF IsRun, OneStep
<1>2. GenEntries(start) = CHOOSE f : Is(f)
  BY DEF GenEntries, Repeat
<1> DEFINE g == GenEntries(start)
<1>3. Is(g)
  <2> HIDE DEF Is
  <2> QED BY <1>1, <1>2
<1> HIDE DEF g
<1>4. ASSUME NEW n \in Nat
      PROVE  g[n + 1] = GenEntry(g[n])
  <2>1. n + 1 \in Nat /\ n + 1 # 0 /\ (n + 1) - 1 = n
    OBVIOUS
  <2> QED BY <1>3, <2>1
<1>5. g[0] = start
  BY <1>3
<1> QED BY <1>4, <1>5 DEF g

LEMMA GenEntriesStart ==
  ASSUME NEW start
  PROVE  GenEntries(start)[0] = start
BY GenEntriesRuns

LEMMA GenEntriesStep ==
  ASSUME NEW start, NEW n \in Nat
  PROVE  GenEntries(start)[n + 1] =
           GenEntry(GenEntries(start)[n])
<1>1. /\ GenEntries(start)[0] = start
      /\ \A k \in Nat :
        GenEntries(start)[k + 1] =
          GenEntry(GenEntries(start)[k])
  BY GenEntriesRuns
<1> QED BY <1>1

LEMMA GenChildrenRuns ==
  ASSUME NEW inside, NEW ref, NEW made, NEW at
  PROVE  /\ GenChildren(inside, ref, made, at)[0] = [at |-> at + 1, made |-> made]
         /\ \A n \in Nat :
              GenChildren(inside, ref, made, at)[n + 1] =
                GenChild(inside, ref, GenChildren(inside, ref, made, at)[n], n)
<1> DEFINE Is(f) == f = [n \in Nat |-> IF n = 0 THEN [at |-> at + 1, made |-> made] ELSE
                                         GenChild(inside, ref, f[n - 1], n - 1)]
<1>1. \E f : Is(f)
  <2>1. PICK f : IsRun(f, [at |-> at + 1, made |-> made], "GenChild", <<inside, ref>>)
    BY RunsExist
  <2> QED BY <2>1 DEF IsRun, OneStep
<1>2. GenChildren(inside, ref, made, at) = CHOOSE f : Is(f)
  BY DEF GenChildren, Repeat
<1> DEFINE g == GenChildren(inside, ref, made, at)
<1>3. Is(g)
  <2> HIDE DEF Is
  <2> QED BY <1>1, <1>2
<1> HIDE DEF g
<1>4. ASSUME NEW n \in Nat
      PROVE  g[n + 1] = GenChild(inside, ref, g[n], n)
  <2>1. n + 1 \in Nat /\ n + 1 # 0 /\ (n + 1) - 1 = n
    OBVIOUS
  <2> QED BY <1>3, <2>1
<1>5. g[0] = [at |-> at + 1, made |-> made]
  BY <1>3
<1> QED BY <1>4, <1>5 DEF g

LEMMA GenChildrenStart ==
  ASSUME NEW inside, NEW ref, NEW made, NEW at
  PROVE  GenChildren(inside, ref, made, at)[0] = [at |-> at + 1, made |-> made]
BY GenChildrenRuns

LEMMA GenChildrenStep ==
  ASSUME NEW inside, NEW ref, NEW made, NEW at, NEW n \in Nat
  PROVE  GenChildren(inside, ref, made, at)[n + 1] =
           GenChild(inside, ref, GenChildren(inside, ref, made, at)[n], n)
<1>1. /\ GenChildren(inside, ref, made, at)[0] = [at |-> at + 1, made |-> made]
      /\ \A k \in Nat :
        GenChildren(inside, ref, made, at)[k + 1] =
          GenChild(inside, ref, GenChildren(inside, ref, made, at)[k], k)
  BY GenChildrenRuns
<1> QED BY <1>1

LEMMA GenSecondRuns ==
  ASSUME NEW inside, NEW ref, NEW start
  PROVE  /\ GenSecond(inside, ref, start)[0] = start
         /\ \A n \in Nat :
              GenSecond(inside, ref, start)[n + 1] =
                GenAgain(inside, ref, GenSecond(inside, ref, start)[n])
<1> DEFINE Is(f) == f = [n \in Nat |-> IF n = 0 THEN start ELSE
                                         GenAgain(inside, ref, f[n - 1])]
<1>1. \E f : Is(f)
  <2>1. PICK f : IsRun(f, start, "GenAgain", <<inside, ref>>)
    BY RunsExist
  <2> QED BY <2>1 DEF IsRun, OneStep
<1>2. GenSecond(inside, ref, start) = CHOOSE f : Is(f)
  BY DEF GenSecond, Repeat
<1> DEFINE g == GenSecond(inside, ref, start)
<1>3. Is(g)
  <2> HIDE DEF Is
  <2> QED BY <1>1, <1>2
<1> HIDE DEF g
<1>4. ASSUME NEW n \in Nat
      PROVE  g[n + 1] = GenAgain(inside, ref, g[n])
  <2>1. n + 1 \in Nat /\ n + 1 # 0 /\ (n + 1) - 1 = n
    OBVIOUS
  <2> QED BY <1>3, <2>1
<1>5. g[0] = start
  BY <1>3
<1> QED BY <1>4, <1>5 DEF g

LEMMA GenSecondStart ==
  ASSUME NEW inside, NEW ref, NEW start
  PROVE  GenSecond(inside, ref, start)[0] = start
BY GenSecondRuns

LEMMA GenSecondStep ==
  ASSUME NEW inside, NEW ref, NEW start, NEW n \in Nat
  PROVE  GenSecond(inside, ref, start)[n + 1] =
           GenAgain(inside, ref, GenSecond(inside, ref, start)[n])
<1>1. /\ GenSecond(inside, ref, start)[0] = start
      /\ \A k \in Nat :
        GenSecond(inside, ref, start)[k + 1] =
          GenAgain(inside, ref, GenSecond(inside, ref, start)[k])
  BY GenSecondRuns
<1> QED BY <1>1

-----------------------------------------------------------------------------
(* Documents and their encoding.                                           *)

Toks == [tag : {"text", "null", "array", "map", "key"}, size : Nat, data : Strings]

Items(S) == [key : Strings, val : S]

LEMMA SeqParts ==
  ASSUME NEW S, NEW s \in Seq(S)
  PROVE  Len(s) \in Nat /\ DOMAIN s = 1..Len(s) /\ \A i \in 1..Len(s) : s[i] \in S
OBVIOUS

LEMMA NestedLevels ==
  Nested[0] = {} /\ \A n \in Nat : Nested[n + 1] = Single \cup Containers(Nested[n])
BY NestedRuns

LEMMA ValueTypes ==
  ASSUME NEW n \in Nat, NEW val \in Nested[n + 1]
  PROVE  /\ val.tag \in {"text", "null", "array", "map"} /\ val.data \in Strings
         /\ val.items \in Seq(Items(Nested[n]))
         /\ Len(val.items) \in Nat /\ DOMAIN val.items = 1..Len(val.items)
         /\ val.tag \in {"text", "null"} => val.items = <<>>
         /\ \A i \in 1..Len(val.items) : val.items[i].val \in Nested[n]
                                         /\ val.items[i].key \in Strings
         /\ val.tag = "map" => \A i, j \in 1..Len(val.items) :
                                  val.items[i].key = val.items[j].key => i = j
<1>1. val \in Single \cup Containers(Nested[n])
  BY NestedLevels
<1>2. CASE val \in Single
  <2>1. val.tag \in {"text", "null"} /\ val.data \in Strings /\ val.items = <<>>
    BY <1>2, DocumentsAssumption DEF Single
  <2> QED BY <2>1
<1>3. CASE val \in Containers(Nested[n])
  <2>1. /\ val.tag \in {"array", "map"} /\ val.data = ""
        /\ val.items \in Seq(Items(Nested[n]))
        /\ val.tag = "map" => \A i, j \in DOMAIN val.items :
                                 val.items[i].key = val.items[j].key => i = j
    BY <1>3 DEF Containers, Items
  <2>2. val.items \in Seq(Items(Nested[n]))
    BY <2>1
  <2>3. Len(val.items) \in Nat /\ DOMAIN val.items = 1..Len(val.items)
    BY <2>2, SeqParts
  <2>4. ASSUME NEW i \in 1..Len(val.items)
        PROVE  val.items[i].val \in Nested[n] /\ val.items[i].key \in Strings
    <3>1. val.items[i] \in Items(Nested[n])
      BY <2>2, SeqParts
    <3> QED BY <3>1 DEF Items
  <2> QED BY <2>1, <2>2, <2>3, <2>4, DocumentsAssumption
<1> QED BY <1>1, <1>2, <1>3

LEMMA EncodingLevels ==
  ASSUME NEW n \in Nat, NEW val \in Nested[n + 1]
  PROVE  Encoding[n + 1][val] = EncodeValue(Encoding[n], val)
BY EncodingRuns

LEMMA TokenIs ==
  ASSUME NEW tag \in {"text", "null", "array", "map", "key"}, NEW size \in Nat,
         NEW data \in Strings
  PROVE  /\ Piece(tag, size, data) \in Seq(Toks) /\ Len(Piece(tag, size, data)) = 1
         /\ Piece(tag, size, data)[1].tag = tag
         /\ Piece(tag, size, data)[1].size = size
         /\ Piece(tag, size, data)[1].data = data
BY DEF Piece, Toks

(* The encodings of the items. *)
Pieces(n, val) == [i \in DOMAIN val.items |-> EncodeItem(Encoding[n], val, val.items[i])]

LEMMA EncodingType ==
  ASSUME NEW m \in Nat
  PROVE  \A val \in Nested[m] : Encoding[m][val] \in Seq(Toks) /\ Len(Encoding[m][val]) >= 1
<1> DEFINE P == {n \in Nat : \A val \in Nested[n] : /\ Encoding[n][val] \in Seq(Toks)
                                                    /\ Len(Encoding[n][val]) >= 1}
<1>1. 0 \in P
  BY NestedLevels
<1>2. ASSUME NEW n \in Nat, n \in P PROVE n + 1 \in P
  <2> SUFFICES ASSUME NEW val \in Nested[n + 1]
               PROVE  /\ Encoding[n + 1][val] \in Seq(Toks)
                      /\ Len(Encoding[n + 1][val]) >= 1
    OBVIOUS
  <2>1. ASSUME NEW i \in 1..Len(val.items) PROVE Pieces(n, val)[i] \in Seq(Toks)
    <3>1. val.items[i].val \in Nested[n] /\ val.items[i].key \in Strings
          /\ i \in DOMAIN val.items
      BY ValueTypes
    <3>2. Encoding[n][val.items[i].val] \in Seq(Toks)
      BY <1>2, <3>1
    <3>3. Piece("key", 0, val.items[i].key) \in Seq(Toks) /\ <<>> \in Seq(Toks)
      BY <3>1, TokenIs
    <3> HIDE DEF P
    <3>4. (IF val.tag = "map" THEN Piece("key", 0, val.items[i].key) ELSE <<>>)
            \o Encoding[n][val.items[i].val] \in Seq(Toks)
      BY <3>2, <3>3, ConcatProperties
    <3> QED BY <3>1, <3>4 DEF Pieces, EncodeItem
  <2> HIDE DEF P
  <2>2. Len(val.items) \in Nat /\ DOMAIN val.items = 1..Len(val.items)
    BY ValueTypes
  <2>3. Pieces(n, val) \in [1..Len(val.items) -> Seq(Toks)]
    <3>1. Pieces(n, val) = [i \in 1..Len(val.items) |-> Pieces(n, val)[i]]
      BY <2>2 DEF Pieces
    <3> QED BY <2>1, <3>1
  <2>4. FlattenSeq(Pieces(n, val)) \in Seq(Toks)
    <3>1. PICK c : Joins(c, Toks, Pieces(n, val), Len(val.items))
                   /\ FlattenSeq(Pieces(n, val)) = c[Len(val.items)]
      BY <2>2, <2>3, Joined
    <3> QED BY <2>2, <3>1, JoinsType
  <2>5. Piece(val.tag, Len(val.items), val.data) \in Seq(Toks)
        /\ Len(Piece(val.tag, Len(val.items), val.data)) = 1
    <3>1. /\ val.tag \in {"text", "null", "array", "map"} /\ val.data \in Strings
          /\ Len(val.items) \in Nat
      BY ValueTypes
    <3> QED BY <3>1, TokenIs
  <2>6. Encoding[n + 1][val] =
          Piece(val.tag, Len(val.items), val.data) \o FlattenSeq(Pieces(n, val))
    BY EncodingLevels DEF EncodeValue, Pieces
  <2> QED BY <2>4, <2>5, <2>6, ConcatProperties
<1> HIDE DEF P
<1>3. Nat \subseteq P
  BY <1>1, <1>2, Counting
<1> QED BY <1>3 DEF P

(* The encoding of a value of level n starts at `at' and goes up to end. *)
Stands(n, val, at, end) ==
  /\ n \in Nat /\ val \in Nested[n]
  /\ at \in Nat /\ at >= 1 /\ end \in Nat /\ end > at
  /\ end = at + Len(Encoding[n][val])
  /\ Lies(tokens, at - 1, Encoding[n][val])

(* The i-th item of a container lies between two places. *)
Holds(n, val, i, here, next) ==
  LET start == IF val.tag = "map" THEN here + 1 ELSE here
  IN  /\ here \in Nat /\ next \in Nat /\ next > start
      /\ val.tag = "map" => nextMapKeyUTF8(here) = val.items[i].key
      /\ Stands(n, val.items[i].val, start, next)

(* Between which places the items of a container lie. *)
Places(n, val, at, end, place) ==
  /\ place \in [0..Len(val.items) -> Nat]
  /\ place[0] = at + 1 /\ place[Len(val.items)] = end
  /\ \A k \in 0..(Len(val.items) - 1) :
       /\ place[k] > at /\ place[k + 1] <= end
       /\ Holds(n, val, k + 1, place[k], place[k + 1])

(* What a value starts with. *)
LEMMA Starting ==
  ASSUME tokens \in Seq(Toks), NEW n \in Nat, NEW val, NEW at, NEW end,
         Stands(n + 1, val, at, end)
  PROVE  /\ TagAt(at) = val.tag /\ SizeAt(at) = Len(val.items)
         /\ nextStringUTF8(at) = Text(val)
         /\ IsMap(at) <=> val.tag = "map"
         /\ IsArray(at) <=> val.tag = "array"
         /\ end <= Len(tokens) + 1
<1> DEFINE code == Encoding[n + 1][val]
           head == Piece(val.tag, Len(val.items), val.data)
<1>1. val \in Nested[n + 1] /\ at \in Nat /\ at >= 1 /\ Lies(tokens, at - 1, code)
  BY DEF Stands
<1>2. code = head \o FlattenSeq(Pieces(n, val))
  BY <1>1, EncodingLevels DEF EncodeValue, Pieces
<1>3. code \in Seq(Toks) /\ Len(code) >= 1 /\ Len(code) \in Nat
  BY <1>1, EncodingType
<1>4. /\ head \in Seq(Toks) /\ Len(head) = 1
      /\ head[1].tag = val.tag /\ head[1].size = Len(val.items) /\ head[1].data = val.data
  <2>1. /\ val.tag \in {"text", "null", "array", "map"} /\ val.data \in Strings
        /\ Len(val.items) \in Nat
    BY <1>1, ValueTypes
  <2> QED BY <2>1, TokenIs
<1>5. code[1] = head[1]
  <2>1. head = <<head[1]>>
    BY <1>4
  <2> QED BY <1>2, <2>1 DEF Piece
<1>6. tokens[at] = head[1] /\ at \in DOMAIN tokens
  <2>1. 1 \in 1..Len(code) /\ (at - 1) + 1 = at
    BY <1>1, <1>3
  <2>2. tokens[(at - 1) + 1] = code[1] /\ (at - 1) + Len(code) <= Len(tokens)
    BY <1>1, <2>1 DEF Lies
  <2>3. at <= Len(tokens)
    BY <1>1, <1>3, <2>2
  <2> QED BY <1>1, <1>5, <2>1, <2>2, <2>3
<1>7. TagAt(at) = val.tag /\ SizeAt(at) = Len(val.items)
  BY <1>4, <1>6 DEF TagAt, SizeAt
<1>8. nextStringUTF8(at) = Text(val)
  <2>1. val.tag \in {"text", "null", "array", "map"}
    BY <1>1, ValueTypes
  <2> QED BY <2>1, <1>4, <1>6, <1>7 DEF nextStringUTF8, Text
<1>9. end <= Len(tokens) + 1
  <2>1. end = at + Len(code) /\ (at - 1) + Len(code) <= Len(tokens)
    BY <1>1 DEF Stands, Lies
  <2> QED BY <1>1, <1>3, <2>1
<1> QED BY <1>7, <1>8, <1>9 DEF IsMap, IsArray

LEMMA CodeJoined ==
  ASSUME tokens \in Seq(Toks), NEW n \in Nat, NEW s \in Seq(Toks), NEW t \in Seq(Toks),
         Lies(tokens, n, s \o t)
  PROVE  /\ Lies(tokens, n, s) /\ Lies(tokens, n + Len(s), t)
         /\ Len(s \o t) = Len(s) + Len(t)
BY LiesJoined

LEMMA PlacesExist ==
  ASSUME tokens \in Seq(Toks), NEW n \in Nat, NEW val, NEW at, NEW end,
         Stands(n + 1, val, at, end)
  PROVE  \E place : Places(n, val, at, end, place)
<1>0. SUFFICES ASSUME NEW k, k = Len(val.items), NEW pieces, pieces = Pieces(n, val),
                      NEW head, head = Piece(val.tag, Len(val.items), val.data)
               PROVE  \E place : Places(n, val, at, end, place)
  OBVIOUS
<1>1. val \in Nested[n + 1] /\ at \in Nat /\ at >= 1 /\ end \in Nat
      /\ Lies(tokens, at - 1, Encoding[n + 1][val])
      /\ end = at + Len(Encoding[n + 1][val])
  BY DEF Stands
<1>2. k \in Nat /\ DOMAIN val.items = 1..k
      /\ val.tag \in {"text", "null", "array", "map"} /\ val.data \in Strings
      /\ \A i \in 1..k : val.items[i].val \in Nested[n] /\ val.items[i].key \in Strings
  BY <1>0, <1>1, ValueTypes
<1>3. head \in Seq(Toks) /\ Len(head) = 1
  BY <1>0, <1>2, TokenIs
<1>a. at \in Nat /\ at >= 1 /\ end \in Nat /\ k \in Nat
  BY <1>1, <1>2
<1>4. Encoding[n + 1][val] = head \o FlattenSeq(pieces)
  BY <1>0, <1>1, EncodingLevels DEF EncodeValue, Pieces
<1>5. ASSUME NEW i \in 1..k
      PROVE  LET item == val.items[i]
                 code == Encoding[n][item.val]
             IN  /\ code \in Seq(Toks) /\ Len(code) >= 1 /\ Len(code) \in Nat
                 /\ pieces[i] = IF val.tag = "map" THEN Piece("key", 0, item.key) \o code
                                ELSE code
                 /\ pieces[i] \in Seq(Toks)
                 /\ Piece("key", 0, item.key) \in Seq(Toks)
                 /\ Len(Piece("key", 0, item.key)) = 1
  <2> DEFINE item == val.items[i]
             code == Encoding[n][item.val]
             key == Piece("key", 0, item.key)
  <2>1. code \in Seq(Toks) /\ Len(code) >= 1 /\ Len(code) \in Nat
    BY <1>2, EncodingType
  <2>2. key \in Seq(Toks) /\ Len(key) = 1
    BY <1>2, TokenIs
  <2>3. pieces[i] = (IF val.tag = "map" THEN key ELSE <<>>) \o code
    BY <1>0, <1>2 DEF Pieces, EncodeItem
  <2> HIDE DEF code, key
  <2>4. pieces[i] = IF val.tag = "map" THEN key \o code ELSE code
    BY <2>1, <2>3, ConcatEmptySeq
  <2>5. key \o code \in Seq(Toks)
    BY <2>1, <2>2, ConcatProperties
  <2> QED BY <2>1, <2>2, <2>4, <2>5 DEF code, key
<1>6. pieces \in [1..k -> Seq(Toks)]
  <2>1. pieces = [i \in 1..k |-> pieces[i]]
    BY <1>0, <1>2 DEF Pieces
  <2> QED BY <1>5, <2>1
<1>7. PICK c : Joins(c, Toks, pieces, k) /\ FlattenSeq(pieces) = c[k]
  BY <1>2, <1>6, Joined
<1>8. \A j \in Nat : c[j] \in Seq(Toks) /\ Len(c[j]) \in Nat
  BY <1>7, JoinsType
<1>9. Lies(tokens, at, c[k]) /\ end = (at + Len(c[k])) + 1
  <2> DEFINE b == at - 1
  <2>1. b \in Nat /\ b + 1 = at /\ c[k] \in Seq(Toks) /\ Len(c[k]) \in Nat
    BY <1>a, <1>8
  <2>2. Lies(tokens, b, head \o c[k])
    BY <1>1, <1>4, <1>7
  <2> HIDE DEF b
  <2>3. Lies(tokens, b + Len(head), c[k]) /\ Len(head \o c[k]) = Len(head) + Len(c[k])
    BY <1>3, <2>1, <2>2, CodeJoined
  <2>4. end = at + (Len(head) + Len(c[k]))
    BY <1>1, <1>4, <1>7, <2>3
  <2>5. at + (1 + Len(c[k])) = (at + Len(c[k])) + 1
    BY <1>a, <2>1
  <2> QED BY <1>3, <2>1, <2>3, <2>4, <2>5
<1>b. \A i \in 1..k : /\ Lies(tokens, at + Len(c[i - 1]), pieces[i])
                     /\ Len(c[i]) = Len(c[i - 1]) + Len(pieces[i])
                     /\ Len(c[i]) <= Len(c[k])
  <2>1. PartsLie(tokens, at, c, pieces, k)
    <3>1. Joins(c, Toks, pieces, k) /\ Lies(tokens, at, c[k]) /\ at \in Nat /\ k \in Nat
      BY <1>a, <1>7, <1>9
    <3> HIDE DEF Toks
    <3> QED BY <1>6, <3>1, JoinsLie, Zenon
  <2> QED BY <2>1 DEF PartsLie
<1> DEFINE place == [j \in 0..k |-> (at + Len(c[j])) + 1]
<1>10. place \in [0..k -> Nat] /\ place[0] = at + 1 /\ place[k] = end
  <2>1. c[0] = <<>>
    BY <1>7 DEF Joins
  <2>2. Len(c[0]) = 0 /\ 0 \in 0..k /\ k \in 0..k
    BY <1>a, <2>1
  <2>3. \A j \in 0..k : (at + Len(c[j])) + 1 \in Nat
    BY <1>a, <1>8
  <2> QED BY <1>a, <1>9, <2>2, <2>3
<1>11. ASSUME NEW j \in 0..(k - 1)
       PROVE  /\ place[j] > at /\ place[j + 1] <= end
              /\ Holds(n, val, j + 1, place[j], place[j + 1])
  <2> DEFINE item == val.items[j + 1]
             code == Encoding[n][item.val]
             key == Piece("key", 0, item.key)
             x == Len(c[j])
             y == Len(c[j + 1])
             z == Len(c[k])
  <2>1. j \in Nat /\ j + 1 \in 1..k /\ (j + 1) - 1 = j /\ j \in 0..k /\ j + 1 \in 0..k
    BY <1>a
  <2>2. x \in Nat /\ y \in Nat /\ z \in Nat
    BY <1>a, <1>8, <2>1
  <2>3. /\ Lies(tokens, at + x, pieces[j + 1])
        /\ y = x + Len(pieces[j + 1]) /\ y <= z
        /\ at \in Nat /\ at >= 1 /\ end = (at + z) + 1
    <3>1. /\ Lies(tokens, at + Len(c[(j + 1) - 1]), pieces[j + 1])
          /\ Len(c[j + 1]) = Len(c[(j + 1) - 1]) + Len(pieces[j + 1])
          /\ Len(c[j + 1]) <= Len(c[k])
      BY <1>b, <2>1
    <3> QED BY <1>a, <1>9, <2>1, <3>1
  <2>4. /\ code \in Seq(Toks) /\ Len(code) >= 1 /\ Len(code) \in Nat
        /\ pieces[j + 1] = IF val.tag = "map" THEN key \o code ELSE code
        /\ key \in Seq(Toks) /\ Len(key) = 1 /\ item.val \in Nested[n]
    BY <1>2, <1>5, <2>1
  <2>5. place[j] = (at + x) + 1 /\ place[j + 1] = (at + y) + 1
    BY <2>1
  <2>6. item.key \in Strings
    BY <1>2, <2>1
  <2> DEFINE l == Len(code)
             p == Len(pieces[j + 1])
  <2>a. /\ at \in Nat /\ at >= 1 /\ end = (at + z) + 1 /\ y = x + p /\ y <= z
        /\ x \in Nat /\ y \in Nat /\ z \in Nat /\ l \in Nat /\ l >= 1
    BY <2>2, <2>3, <2>4
  <2> HIDE DEF place, x, y, z, l, p, code
  <2>7. CASE val.tag = "map"
    <3>1. /\ Lies(tokens, at + x, key) /\ Lies(tokens, (at + x) + 1, code)
          /\ p = 1 + l
      <4>1. at + x \in Nat /\ Lies(tokens, at + x, key \o code)
        BY <2>2, <2>3, <2>4, <2>7
      <4>2. /\ Lies(tokens, at + x, key) /\ Lies(tokens, (at + x) + Len(key), code)
            /\ Len(key \o code) = Len(key) + Len(code)
        BY <2>4, <4>1, CodeJoined
      <4> QED BY <2>4, <2>7, <4>2 DEF p, l
    <3>2. nextMapKeyUTF8((at + x) + 1) = item.key
      <4>1. tokens[(at + x) + 1] = key[1] /\ (at + x) + 1 <= Len(tokens)
        <5>1. /\ (at + x) + Len(key) <= Len(tokens)
              /\ \A i \in 1..Len(key) : tokens[(at + x) + i] = key[i]
          BY <3>1 DEF Lies
        <5>2. 1 \in 1..Len(key)
          <6>1. Len(key) = 1
            BY <2>4
          <6> HIDE DEF key
          <6> QED BY <6>1
        <5> QED BY <2>4, <5>1, <5>2
      <4>2. key[1].tag = "key" /\ key[1].data = item.key
        BY <2>6, TokenIs
      <4>3. (at + x) + 1 = (at + x) + 1 /\ (at + x) + 1 \in DOMAIN tokens
        BY <2>a, <4>1
      <4> QED BY <4>1, <4>2, <4>3 DEF nextMapKeyUTF8, TagAt
    <3>3. Stands(n, item.val, ((at + x) + 1) + 1, (at + y) + 1)
      <4> DEFINE q == at + x
      <4>a. q \in Nat /\ at + y = q + (1 + l) /\ l \in Nat /\ l >= 1
        <5>1. p = 1 + l
          BY <3>1
        <5> QED BY <2>a, <5>1
      <4> HIDE DEF q
      <4>b. /\ ((q + 1) + 1) - 1 = q + 1 /\ (q + 1) + 1 \in Nat /\ (q + (1 + l)) + 1 \in Nat
            /\ (q + (1 + l)) + 1 = ((q + 1) + 1) + l /\ (q + (1 + l)) + 1 > (q + 1) + 1
            /\ (q + 1) + 1 >= 1
        BY <4>a
      <4>1. /\ (((at + x) + 1) + 1) - 1 = (at + x) + 1
            /\ ((at + x) + 1) + 1 \in Nat /\ (at + y) + 1 \in Nat
            /\ (at + y) + 1 = (((at + x) + 1) + 1) + l /\ (at + y) + 1 > ((at + x) + 1) + 1
            /\ ((at + x) + 1) + 1 >= 1
        BY <4>a, <4>b DEF q
      <4>2. Lies(tokens, (((at + x) + 1) + 1) - 1, code)
        BY <3>1, <4>1
      <4> QED BY <2>4, <4>1, <4>2 DEF Stands, code, l
    <3>4. (at + x) + 1 \in Nat /\ (at + y) + 1 \in Nat /\ (at + y) + 1 > ((at + x) + 1) + 1
          /\ (at + x) + 1 > at /\ (at + y) + 1 <= end
      BY <2>a, <3>1
    <3> QED BY <2>5, <2>7, <3>2, <3>3, <3>4 DEF Holds
  <2>8. CASE val.tag # "map"
    <3>1. Lies(tokens, at + x, code) /\ p = l
      BY <2>3, <2>4, <2>8 DEF p, l
    <3>3. Stands(n, item.val, (at + x) + 1, (at + y) + 1)
      <4>1. ((at + x) + 1) - 1 = at + x /\ (at + x) + 1 \in Nat /\ (at + y) + 1 \in Nat
            /\ (at + y) + 1 = ((at + x) + 1) + l /\ (at + y) + 1 > (at + x) + 1
            /\ (at + x) + 1 >= 1
        BY <2>a, <3>1
      <4>2. Lies(tokens, ((at + x) + 1) - 1, code)
        BY <3>1, <4>1
      <4> QED BY <2>4, <4>1, <4>2 DEF Stands, code, l
    <3>4. (at + x) + 1 \in Nat /\ (at + y) + 1 \in Nat /\ (at + y) + 1 > (at + x) + 1
          /\ (at + x) + 1 > at /\ (at + y) + 1 <= end
      BY <2>a, <3>1
    <3> QED BY <2>5, <2>8, <3>3, <3>4 DEF Holds
  <2> QED BY <2>7, <2>8
<1> HIDE DEF place
<1>12. Places(n, val, at, end, place)
  BY <1>0, <1>10, <1>11 DEF Places
<1> QED BY <1>12

(* Only containers have something behind the type. *)
LEMMA SingleEnds ==
  ASSUME tokens \in Seq(Toks), NEW n \in Nat, NEW val, NEW at, NEW end,
         Stands(n + 1, val, at, end), val.tag \in {"text", "null"}
  PROVE  end = at + 1
<1>1. PICK place : Places(n, val, at, end, place)
  BY PlacesExist
<1>2. val.items = <<>>
  BY ValueTypes DEF Stands
<1>3. Len(val.items) = 0
  BY <1>2
<1> QED BY <1>1, <1>3 DEF Places


-----------------------------------------------------------------------------
(* Skipping.                                                               *)

LEMMA StandsTypes ==
  ASSUME NEW n \in Nat, NEW val, NEW at, NEW end, Stands(n + 1, val, at, end)
  PROVE  /\ val \in Nested[n + 1] /\ val.tag \in {"text", "null", "array", "map"}
         /\ Len(val.items) \in Nat /\ DOMAIN val.items = 1..Len(val.items)
         /\ Len(val.items) \in 0..Len(val.items)
         /\ \A i \in 1..Len(val.items) : val.items[i].val \in Nested[n]
                                         /\ val.items[i].key \in Strings
         /\ val.tag = "map" => \A i, j \in 1..Len(val.items) :
                                  val.items[i].key = val.items[j].key => i = j
         /\ at \in Nat /\ at >= 1 /\ end \in Nat /\ end > at
<1>1. val \in Nested[n + 1] /\ at \in Nat /\ at >= 1 /\ end \in Nat /\ end > at
  BY DEF Stands
<1>2. Len(val.items) \in Nat
  BY <1>1, ValueTypes
<1>3. Len(val.items) \in 0..Len(val.items)
  BY <1>2
<1> QED BY <1>1, <1>3, ValueTypes

LEMMA StandsLevel ==
  ASSUME NEW m, NEW val, NEW at, NEW end, Stands(m, val, at, end)
  PROVE  \E n \in Nat : m = n + 1
<1>1. m \in Nat /\ m # 0
  BY NestedLevels DEF Stands
<1>2. m - 1 \in Nat /\ m = (m - 1) + 1
  BY <1>1
<1> QED BY <1>2

(* What the calls for shorter values return, in a table of them. *)
SkipsTo(inside, f) ==
  \A n, val, at, end : Stands(n, val, at, end) /\ end <= at + f => inside[at] = end

(* A value and the places of its items. *)
Laid(n, val, at, end, place, f) ==
  /\ n \in Nat /\ f \in Nat /\ end <= at + (f + 1)
  /\ Stands(n + 1, val, at, end) /\ Places(n, val, at, end, place)

(* The values of a container are shorter than it. *)
LEMMA ItemStands ==
  ASSUME tokens \in Seq(Toks), NEW n, NEW val, NEW at, NEW end, NEW place, NEW f,
         Laid(n, val, at, end, place, f), NEW k \in 0..(Len(val.items) - 1)
  PROVE  LET start == ToValue(at, place[k])
         IN  /\ Stands(n, val.items[k + 1].val, start, place[k + 1])
             /\ place[k + 1] <= start + f
             /\ start \in Nat /\ start >= 1 /\ place[k] \in Nat /\ place[k] # Lost
             /\ val.tag = "map" => /\ start = place[k] + 1
                                   /\ nextMapKeyUTF8(place[k]) = val.items[k + 1].key
             /\ val.tag # "map" => start = place[k]
<1> DEFINE start == ToValue(at, place[k])
<1>0. /\ n \in Nat /\ f \in Nat /\ end <= at + (f + 1)
      /\ Stands(n + 1, val, at, end) /\ Places(n, val, at, end, place)
  BY DEF Laid
<1>1. IsMap(at) <=> val.tag = "map"
  BY <1>0, Starting
<1>2. start = IF val.tag = "map" THEN place[k] + 1 ELSE place[k]
  BY <1>1 DEF ToValue
<1>3. place[k] > at /\ place[k + 1] <= end /\ Holds(n, val, k + 1, place[k], place[k + 1])
  BY <1>0 DEF Places
<1>4. at \in Nat /\ at >= 1 /\ end \in Nat
  BY <1>0 DEF Stands
<1> HIDE DEF start
<1>5. /\ place[k] \in Nat /\ place[k + 1] \in Nat
      /\ Stands(n, val.items[k + 1].val, start, place[k + 1])
      /\ val.tag = "map" => nextMapKeyUTF8(place[k]) = val.items[k + 1].key
  BY <1>2, <1>3 DEF Holds
<1>6. start \in Nat /\ start >= 1 /\ start >= at + 1
  BY <1>2, <1>3, <1>4, <1>5
<1>7. place[k + 1] <= start + f /\ place[k] # 0
  BY <1>0, <1>3, <1>4, <1>5, <1>6
<1> QED BY <1>2, <1>5, <1>6, <1>7 DEF start, Lost

LEMMA SkipsItems ==
  ASSUME tokens \in Seq(Toks), NEW n, NEW val, NEW at, NEW end, NEW place, NEW f,
         Laid(n, val, at, end, place, f), NEW inside, SkipsTo(inside, f),
         NEW k \in 0..Len(val.items)
  PROVE  SkipItems(inside, at)[k] = place[k]
<1> DEFINE P == {j \in Nat : j <= Len(val.items) => SkipItems(inside, at)[j] = place[j]}
<1>0. Len(val.items) \in Nat /\ place[0] = at + 1
  BY StandsTypes DEF Laid, Places
<1>1. 0 \in P
  <2>1. SkipItems(inside, at)[0] = at + 1
    BY SkipItemsRuns
  <2> QED BY <1>0, <2>1
<1>2. ASSUME NEW j \in Nat, j \in P PROVE j + 1 \in P
  <2> SUFFICES ASSUME j + 1 <= Len(val.items)
               PROVE  SkipItems(inside, at)[j + 1] = place[j + 1]
    OBVIOUS
  <2>1. j \in 0..(Len(val.items) - 1) /\ j <= Len(val.items)
    BY <1>0
  <2>2. SkipItems(inside, at)[j] = place[j]
    BY <1>2, <2>1
  <2> HIDE DEF P
  <2>3. SkipItems(inside, at)[j + 1] = SkipItem(inside, at, place[j])
    BY <2>2, SkipItemsRuns
  <2>4. /\ Stands(n, val.items[j + 1].val, ToValue(at, place[j]), place[j + 1])
        /\ place[j + 1] <= ToValue(at, place[j]) + f /\ place[j] # Lost
    BY <2>1, ItemStands
  <2>5. inside[ToValue(at, place[j])] = place[j + 1]
    BY <2>4 DEF SkipsTo
  <2> QED BY <2>3, <2>4, <2>5 DEF SkipItem
<1> HIDE DEF P
<1>3. Nat \subseteq P
  BY <1>1, <1>2, Counting
<1>4. k \in Nat /\ k <= Len(val.items)
  BY <1>0
<1> QED BY <1>3, <1>4 DEF P

LEMMA SkipsThere ==
  ASSUME tokens \in Seq(Toks), NEW d \in Nat
  PROVE  SkipsTo(Skip[d], d)
<1> DEFINE P == {f \in Nat : SkipsTo(Skip[f], f)}
<1>1. 0 \in P
  <2>1. ASSUME NEW n, NEW val, NEW at, NEW end, Stands(n, val, at, end), end <= at + 0
        PROVE  FALSE
    BY <2>1 DEF Stands
  <2> QED BY <2>1 DEF SkipsTo
<1>2. ASSUME NEW f \in Nat, f \in P PROVE f + 1 \in P
  <2>1. ASSUME NEW m, NEW val, NEW at, NEW end, Stands(m, val, at, end),
               end <= at + (f + 1)
        PROVE  Skip[f + 1][at] = end
    <3>1. PICK n \in Nat : m = n + 1
      BY <2>1, StandsLevel
    <3> HIDE DEF P
    <3>2. Stands(n + 1, val, at, end) /\ at \in Nat
      BY <2>1, <3>1 DEF Stands
    <3>3. PICK place : Places(n, val, at, end, place)
      BY <3>2, PlacesExist
    <3>4. Skip[f + 1][at] = SkippedValue(Skip[f], at)
      BY <3>2, SkipRuns
    <3>5. TagAt(at) = val.tag /\ SizeAt(at) = Len(val.items)
      BY <3>2, Starting
    <3>6. Len(val.items) \in 0..Len(val.items)
          /\ val.tag \in {"text", "null", "array", "map"}
      BY <3>2, StandsTypes
    <3>7. SkipsTo(Skip[f], f)
      BY <1>2 DEF P
    <3>8. SkipItems(Skip[f], at)[Len(val.items)] = end
      <4>1. SkipItems(Skip[f], at)[Len(val.items)] = place[Len(val.items)]
        <5>1. Laid(n, val, at, end, place, f)
          BY <2>1, <3>2, <3>3 DEF Laid
        <5> QED BY <3>6, <3>7, <5>1, SkipsItems
      <4> QED BY <3>3, <4>1 DEF Places
    <3>9. val.tag \in {"text", "null"} => end = at + 1
      BY <3>2, SingleEnds
    <3> QED BY <3>4, <3>5, <3>6, <3>8, <3>9 DEF SkippedValue
  <2> QED BY <2>1 DEF SkipsTo
<1> HIDE DEF P
<1>3. Nat \subseteq P
  BY <1>1, <1>2, Counting
<1> QED BY <1>3 DEF P

(* SkipValue goes behind the value. *)
LEMMA SkipHere ==
  ASSUME tokens \in Seq(Toks), NEW n \in Nat, NEW val, NEW at, NEW end,
         Stands(n, val, at, end)
  PROVE  SkipValue(at) = end
<1>1. PICK m \in Nat : n = m + 1
  BY StandsLevel
<1>2. end <= Len(tokens) + 1
  BY <1>1, Starting
<1>3. at \in Nat /\ at >= 1 /\ end \in Nat /\ Len(tokens) \in Nat
  BY DEF Stands
<1>4. end <= at + Len(tokens)
  BY <1>2, <1>3
<1>5. SkipsTo(Skip[Len(tokens)], Len(tokens))
  BY <1>3, SkipsThere
<1> QED BY <1>4, <1>5 DEF SkipsTo, SkipValue

-----------------------------------------------------------------------------
(* What is read at a value.                                                *)

LEMMA Here ==
  ASSUME tokens \in Seq(Toks), NEW n, NEW val, NEW at, NEW end, Stands(n, val, at, end)
  PROVE  /\ TagAt(at) = val.tag /\ SizeAt(at) = Len(val.items)
         /\ nextStringUTF8(at) = Text(val)
         /\ IsMap(at) <=> val.tag = "map"
         /\ IsArray(at) <=> val.tag = "array"
         /\ SkipValue(at) = end /\ end <= at + Len(tokens)
         /\ val.tag \in {"text", "null"} => end = at + 1
<1>1. PICK m \in Nat : n = m + 1
  BY StandsLevel
<1>2. Stands(m + 1, val, at, end)
  BY <1>1
<1>3. end <= Len(tokens) + 1
  BY <1>2, Starting
<1>4. at \in Nat /\ at >= 1 /\ end \in Nat /\ Len(tokens) \in Nat
  BY DEF Stands
<1>5. end <= at + Len(tokens)
  BY <1>3, <1>4
<1>6. SkipValue(at) = end
  BY <1>2, SkipHere
<1>7. val.tag \in {"text", "null"} => end = at + 1
  BY <1>2, SingleEnds
<1>8. /\ TagAt(at) = val.tag /\ SizeAt(at) = Len(val.items)
      /\ nextStringUTF8(at) = Text(val)
      /\ IsMap(at) <=> val.tag = "map"
      /\ IsArray(at) <=> val.tag = "array"
  BY <1>2, Starting
<1> QED BY <1>5, <1>6, <1>7, <1>8

LEMMA LaidExists ==
  ASSUME tokens \in Seq(Toks), NEW m, NEW val, NEW at, NEW end, NEW f \in Nat,
         Stands(m, val, at, end), end <= at + (f + 1)
  PROVE  \E n, place : m = n + 1 /\ Laid(n, val, at, end, place, f)
<1>1. PICK n \in Nat : m = n + 1
  BY StandsLevel
<1>2. Stands(n + 1, val, at, end)
  BY <1>1
<1>3. PICK place : Places(n, val, at, end, place)
  BY <1>2, PlacesExist
<1>4. Laid(n, val, at, end, place, f)
  BY <1>2, <1>3 DEF Laid
<1> QED BY <1>1, <1>4

LEMMA ItemHere ==
  ASSUME tokens \in Seq(Toks), NEW n, NEW val, NEW at, NEW end, NEW place, NEW f,
         Laid(n, val, at, end, place, f), NEW i \in 1..Len(val.items)
  PROVE  /\ ValuePlaces(at)[i] = ToValue(at, place[i - 1])
         /\ nextStringUTF8(ValuePlaces(at)[i]) = Text(val.items[i].val)
         /\ val.tag = "map" =>
              nextMapKeyUTF8(ValuePlaces(at)[i] - 1) = val.items[i].key
<1>1. Stands(n + 1, val, at, end) /\ Places(n, val, at, end, place)
  BY DEF Laid
<1>2. SizeAt(at) = Len(val.items) /\ end <= at + Len(tokens) /\ Len(val.items) \in Nat
  BY <1>1, Here, StandsTypes DEF Laid
<1>3. at \in Nat /\ end \in Nat /\ Len(tokens) \in Nat
  BY <1>1 DEF Stands
<1> DEFINE g == Len(tokens)
<1>4. Laid(n, val, at, end, place, g)
  <2>1. end <= at + (g + 1)
    BY <1>2, <1>3
  <2> QED BY <1>1, <1>3, <2>1 DEF Laid
<1>5. SkipsTo(Skip[g], g)
  BY <1>3, SkipsThere
<1>6. i - 1 \in 0..Len(val.items) /\ i - 1 \in 0..(Len(val.items) - 1) /\ (i - 1) + 1 = i
  BY <1>2
<1>7. SkipItems(Skip[g], at)[i - 1] = place[i - 1]
  <2> HIDE DEF g
  <2> QED BY <1>4, <1>5, <1>6, SkipsItems
<1>8. ValuePlaces(at)[i] = ToValue(at, place[i - 1])
  BY <1>2, <1>7 DEF ValuePlaces
<1> DEFINE start == ToValue(at, place[i - 1])
<1>9. /\ Stands(n, val.items[i].val, start, place[i])
      /\ start \in Nat /\ place[i - 1] \in Nat
      /\ val.tag = "map" => /\ start = place[i - 1] + 1
                            /\ nextMapKeyUTF8(place[i - 1]) = val.items[i].key
  <2> DEFINE k == i - 1
  <2>1. k \in 0..(Len(val.items) - 1) /\ k + 1 = i
    BY <1>6
  <2> HIDE DEF k
  <2>2. /\ Stands(n, val.items[k + 1].val, ToValue(at, place[k]), place[k + 1])
        /\ ToValue(at, place[k]) \in Nat /\ place[k] \in Nat
        /\ val.tag = "map" => /\ ToValue(at, place[k]) = place[k] + 1
                              /\ nextMapKeyUTF8(place[k]) = val.items[k + 1].key
    BY <2>1, ItemStands
  <2> QED BY <2>1, <2>2 DEF k
<1> HIDE DEF start
<1>10. nextStringUTF8(start) = Text(val.items[i].val)
  BY <1>9, Here
<1>11. val.tag = "map" => start - 1 = place[i - 1]
  BY <1>9
<1> QED BY <1>8, <1>9, <1>10, <1>11 DEF start

LEMMA PartsHere ==
  ASSUME tokens \in Seq(Toks), NEW m, NEW val, NEW at, NEW end, Stands(m, val, at, end)
  PROVE  /\ TextsAt(at) = Texts(val.items)
         /\ val.tag = "map" => PairsAt(at) = Pairs(val.items)
<1>1. at \in Nat /\ end \in Nat /\ Len(tokens) \in Nat /\ end <= at + Len(tokens)
      /\ SizeAt(at) = Len(val.items)
  <2>1. at \in Nat /\ end \in Nat /\ Len(tokens) \in Nat
    BY DEF Stands
  <2>2. end <= at + Len(tokens) /\ SizeAt(at) = Len(val.items)
    BY Here
  <2> QED BY <2>1, <2>2
<1>2. end <= at + (Len(tokens) + 1)
  BY <1>1
<1>3. PICK n, place : m = n + 1 /\ Laid(n, val, at, end, place, Len(tokens))
  BY <1>1, <1>2, LaidExists
<1>4. DOMAIN val.items = 1..Len(val.items)
  BY <1>3, StandsTypes DEF Laid
<1>5. \A i \in 1..Len(val.items) :
        /\ nextStringUTF8(ValuePlaces(at)[i]) = Text(val.items[i].val)
        /\ val.tag = "map" => nextMapKeyUTF8(ValuePlaces(at)[i] - 1) = val.items[i].key
  <2> TAKE i \in 1..Len(val.items)
  <2> QED BY <1>3, ItemHere
<1>6. TextsAt(at) = Texts(val.items)
  BY <1>1, <1>4, <1>5 DEF TextsAt, Texts
<1>7. ASSUME val.tag = "map"
      PROVE  PairsAt(at) = Pairs(val.items)
  <2>1. \A i \in 1..Len(val.items) : TextsAt(at)[i] = Text(val.items[i].val)
    BY <1>4, <1>6 DEF Texts
  <2> QED BY <1>1, <1>4, <1>5, <1>7, <2>1 DEF PairsAt, Pairs
<1> QED BY <1>6, <1>7

-----------------------------------------------------------------------------
(* The render object of a map of which k entries were read.                *)

Node(val) ==
  /\ val.tag = "map" /\ Len(val.items) \in Nat /\ DOMAIN val.items = 1..Len(val.items)
  /\ \A i, j \in 1..Len(val.items) : val.items[i].key = val.items[j].key => i = j

Seen(val, key, k) == \E i \in 1..k : val.items[i].key = key

TextBy(val, key, k) == IF Seen(val, key, k) THEN TextOf(val, key) ELSE ""

ItemsBy(val, key, k) == IF Seen(val, key, k) THEN ItemsOf(val, key) ELSE <<>>

Object(val, type, ref, k, children) ==
  [type |-> type, ref |-> ref,
   attr |-> Pairs(ItemsBy(val, "attr", k)), style |-> Pairs(ItemsBy(val, "style", k)),
   event |-> NonEmpty(Texts(ItemsBy(val, "event", k))), children |-> children]

(* Sequences of different types have a type in common. *)
LEMMA CommonType ==
  ASSUME NEW k \in Nat, NEW seqs, seqs = [i \in 1..k |-> seqs[i]],
         \A i \in 1..k : \E T : seqs[i] \in Seq(T)
  PROVE  \E S : seqs \in [1..k -> Seq(S)]
<1> DEFINE Type(i) == CHOOSE T : seqs[i] \in Seq(T)
           S == UNION {Type(i) : i \in 1..k}
<1>1. ASSUME NEW i \in 1..k PROVE seqs[i] \in Seq(S)
  <2>1. seqs[i] \in Seq(Type(i))
    OBVIOUS
  <2>2. Type(i) \subseteq S
    OBVIOUS
  <2> HIDE DEF S, Type
  <2>3. /\ Len(seqs[i]) \in Nat /\ DOMAIN seqs[i] = 1..Len(seqs[i])
        /\ \A j \in 1..Len(seqs[i]) : seqs[i][j] \in Type(i)
        /\ seqs[i] = [j \in 1..Len(seqs[i]) |-> seqs[i][j]]
    BY <2>1
  <2>4. \A j \in 1..Len(seqs[i]) : seqs[i][j] \in S
    BY <2>2, <2>3
  <2>5. seqs[i] \in [1..Len(seqs[i]) -> S]
    BY <2>3, <2>4
  <2> QED BY <2>3, <2>5, SeqDef
<1> HIDE DEF S
<1>2. seqs \in [1..k -> Seq(S)]
  BY <1>1
<1> QED BY <1>2

LEMMA FlattenType ==
  ASSUME NEW k \in Nat, NEW seqs, seqs = [i \in 1..k |-> seqs[i]],
         \A i \in 1..k : \E T : seqs[i] \in Seq(T)
  PROVE  \E T : FlattenSeq(seqs) \in Seq(T)
<1>1. PICK S : seqs \in [1..k -> Seq(S)]
  BY CommonType
<1>2. PICK c : Joins(c, S, seqs, k) /\ FlattenSeq(seqs) = c[k]
  BY <1>1, Joined
<1> QED BY <1>2, JoinsType

LEMMA NonEmptyType ==
  ASSUME NEW items, Len(items) \in Nat, DOMAIN items = 1..Len(items)
  PROVE  \E T : NonEmpty(Texts(items)) \in Seq(T)
<1> DEFINE k == Len(items)
           texts == Texts(items)
           seqs == [i \in DOMAIN texts |-> IF texts[i] = "" THEN <<>> ELSE <<texts[i]>>]
<1>1. NonEmpty(texts) = FlattenSeq(seqs)
  BY DEF NonEmpty
<1>2. seqs = [i \in 1..k |-> seqs[i]]
  BY DEF Texts
<1>3. ASSUME NEW i \in 1..k PROVE \E T : seqs[i] \in Seq(T)
  <2>1. seqs[i] = IF texts[i] = "" THEN <<>> ELSE <<texts[i]>>
    BY DEF Texts
  <2> HIDE DEF seqs
  <2>2. <<>> \in Seq({texts[i]}) /\ <<texts[i]>> \in Seq({texts[i]})
    OBVIOUS
  <2> QED BY <2>1, <2>2
<1> HIDE DEF seqs
<1>4. \E T : FlattenSeq(seqs) \in Seq(T)
  BY <1>2, <1>3, FlattenType
<1> QED BY <1>1, <1>4

LEMMA ShapeKeys ==
  /\ DOMAIN Shape = {"attr", "style", "event", "children"}
  /\ Shape["attr"] = "map" /\ Shape["style"] = "map" /\ Shape["event"] = "array"
  /\ Shape["children"] = "array"
BY DEF Shape

LEMMA PartIs ==
  ASSUME NEW val, Node(val), NEW i \in 1..Len(val.items), NEW key, key = val.items[i].key
  PROVE  Has(val, key) /\ Part(val, key) = val.items[i].val
<1>1. i \in DOMAIN val.items /\ DOMAIN val.items = 1..Len(val.items)
  BY DEF Node
<1>2. Has(val, key)
  BY <1>1 DEF Has
<1> DEFINE j == CHOOSE j \in DOMAIN val.items : val.items[j].key = key
<1>3. j \in DOMAIN val.items /\ val.items[j].key = key
  BY <1>1
<1>4. Part(val, key) = val.items[j].val
  BY DEF Part
<1> HIDE DEF j
<1>5. i = j
  BY <1>1, <1>3 DEF Node
<1> QED BY <1>2, <1>4, <1>5

LEMMA SeenMore ==
  ASSUME NEW val, Node(val), NEW k \in 0..(Len(val.items) - 1)
  PROVE  /\ \A key : Seen(val, key, k + 1) <=> Seen(val, key, k) \/ key = val.items[k + 1].key
         /\ ~Seen(val, val.items[k + 1].key, k)
<1>1. k \in Nat /\ Len(val.items) \in Nat /\ k + 1 <= Len(val.items)
  BY DEF Node
<1>2. 1..(k + 1) = 1..k \cup {k + 1} /\ k + 1 \in 1..Len(val.items)
      /\ \A i \in 1..k : i \in 1..Len(val.items) /\ i # k + 1
  BY <1>1
<1>3. \A key : Seen(val, key, k + 1) <=> Seen(val, key, k) \/ key = val.items[k + 1].key
  BY <1>2 DEF Seen
<1>4. ~Seen(val, val.items[k + 1].key, k)
  BY <1>2 DEF Seen, Node
<1> QED BY <1>3, <1>4

LEMMA SeenAll ==
  ASSUME NEW val, Node(val)
  PROVE  \A key : /\ ~Seen(val, key, 0)
                  /\ TextBy(val, key, Len(val.items)) = TextOf(val, key)
                  /\ ItemsBy(val, key, Len(val.items)) = ItemsOf(val, key)
                  /\ Seen(val, key, Len(val.items)) <=> Has(val, key)
<1> TAKE key
<1>1. ~Seen(val, key, 0)
  BY DEF Seen
<1>2. Seen(val, key, Len(val.items)) <=> Has(val, key)
  BY DEF Seen, Has, Node
<1>3. ~Has(val, key) => TextOf(val, key) = "" /\ ItemsOf(val, key) = <<>>
  BY DEF TextOf, ItemsOf
<1> QED BY <1>1, <1>2, <1>3 DEF TextBy, ItemsBy

LEMMA SeenNext ==
  ASSUME NEW val, Node(val), NEW k \in 0..(Len(val.items) - 1),
         NEW key, key = val.items[k + 1].key, NEW v, v = val.items[k + 1].val
  PROVE  /\ \A other : other # key =>
              /\ TextBy(val, other, k + 1) = TextBy(val, other, k)
              /\ ItemsBy(val, other, k + 1) = ItemsBy(val, other, k)
         /\ ItemsBy(val, key, k) = <<>>
         /\ TextBy(val, key, k + 1) = Text(v) /\ TextOf(val, key) = Text(v)
         /\ ItemsBy(val, key, k + 1) = IF v.tag = Shape[key] THEN v.items ELSE <<>>
<1>1. k + 1 \in 1..Len(val.items)
  BY DEF Node
<1>2. Has(val, key) /\ Part(val, key) = v
  BY <1>1, PartIs
<1>3. TextOf(val, key) = Text(v) /\ ItemsOf(val, key) = IF v.tag = Shape[key] THEN v.items ELSE <<>>
  BY <1>2 DEF TextOf, ItemsOf
<1>4. /\ \A other : Seen(val, other, k + 1) <=> Seen(val, other, k) \/ other = key
      /\ ~Seen(val, key, k)
  BY SeenMore
<1> QED BY <1>3, <1>4 DEF TextBy, ItemsBy

LEMMA Nothing ==
  Pairs(<<>>) = {} /\ NonEmpty(Texts(<<>>)) = <<>>
<1>1. Pairs(<<>>) = {}
  BY DEF Pairs
<1> DEFINE seqs == [i \in DOMAIN Texts(<<>>) |->
                      IF Texts(<<>>)[i] = "" THEN <<>> ELSE <<Texts(<<>>)[i]>>]
<1>2. seqs \in [1..0 -> Seq(Nat)]
  BY DEF Texts
<1>3. NonEmpty(Texts(<<>>)) = FlattenSeq(seqs)
  BY DEF NonEmpty
<1> HIDE DEF seqs
<1>4. PICK c : Joins(c, Nat, seqs, 0) /\ FlattenSeq(seqs) = c[0]
  BY <1>2, Joined
<1> QED BY <1>1, <1>3, <1>4 DEF Joins

LEMMA ObjectStarts ==
  ASSUME NEW val, Node(val), NEW type, NEW ref, NEW k,
         \A key \in DOMAIN Shape : ~Seen(val, key, k)
  PROVE  Object(val, type, ref, k, <<>>) = CreateRender(type, ref)
<1>1. \A key \in {"attr", "style", "event", "children"} : ItemsBy(val, key, k) = <<>>
  BY ShapeKeys DEF ItemsBy
<1> QED BY <1>1, Nothing DEF Object, CreateRender

LEMMA ObjectEnds ==
  ASSUME NEW val, Node(val), NEW children
  PROVE  Object(val, TextOf(val, "type"), TextOf(val, "ref"), Len(val.items), children)
           = [Bare(val) EXCEPT !.children = children]
BY SeenAll DEF Object, Bare

(* An entry that is no part leaves the object as it is. *)
LEMMA ObjectStays ==
  ASSUME NEW val, Node(val), NEW k \in 0..(Len(val.items) - 1),
         NEW key, key = val.items[k + 1].key, NEW v, v = val.items[k + 1].val,
         key \in {"attr", "style", "event"} => v.tag # Shape[key],
         NEW type, NEW ref, NEW children
  PROVE  Object(val, type, ref, k + 1, children) = Object(val, type, ref, k, children)
<1>1. ASSUME NEW other \in {"attr", "style", "event"}
      PROVE  ItemsBy(val, other, k + 1) = ItemsBy(val, other, k)
  <2>1. CASE other # key
    BY <2>1, SeenNext
  <2>2. CASE other = key
    <3>1. v.tag # Shape[key]
      BY <2>2
    <3> QED BY <2>2, <3>1, SeenNext
  <2> QED BY <2>1, <2>2
<1> QED BY <1>1 DEF Object

(* A part of the right type is added. *)
PartRead(val, k, key, v, at) ==
  /\ Node(val) /\ k \in 0..(Len(val.items) - 1)
  /\ key = val.items[k + 1].key /\ v = val.items[k + 1].val
  /\ key \in {"attr", "style", "event"} /\ v.tag = Shape[key]
  /\ TextsAt(at) = Texts(v.items) /\ (v.tag = "map" => PairsAt(at) = Pairs(v.items))
  /\ Len(v.items) \in Nat /\ DOMAIN v.items = 1..Len(v.items)

LEMMA ObjectGrows ==
  ASSUME NEW val, NEW k, NEW key, NEW v, NEW at, PartRead(val, k, key, v, at),
         NEW type, NEW ref, NEW children
  PROVE  AddPart(Object(val, type, ref, k, children), key, at)
           = Object(val, type, ref, k + 1, children)
<1>0. /\ Node(val) /\ k \in 0..(Len(val.items) - 1)
      /\ key = val.items[k + 1].key /\ v = val.items[k + 1].val
      /\ key \in {"attr", "style", "event"} /\ v.tag = Shape[key]
      /\ TextsAt(at) = Texts(v.items) /\ (v.tag = "map" => PairsAt(at) = Pairs(v.items))
      /\ Len(v.items) \in Nat /\ DOMAIN v.items = 1..Len(v.items)
  BY DEF PartRead
<1>1. /\ \A other : other # key => ItemsBy(val, other, k + 1) = ItemsBy(val, other, k)
      /\ ItemsBy(val, key, k) = <<>> /\ ItemsBy(val, key, k + 1) = v.items
  <2>1. /\ \A other : other # key => ItemsBy(val, other, k + 1) = ItemsBy(val, other, k)
        /\ ItemsBy(val, key, k) = <<>>
        /\ ItemsBy(val, key, k + 1) = IF v.tag = Shape[key] THEN v.items ELSE <<>>
    BY <1>0, SeenNext
  <2> QED BY <1>0, <2>1
<1> DEFINE a == Pairs(ItemsBy(val, "attr", k))
           b == Pairs(ItemsBy(val, "style", k))
           e == NonEmpty(Texts(ItemsBy(val, "event", k)))
           old == [type |-> type, ref |-> ref, attr |-> a, style |-> b, event |-> e,
                   children |-> children]
<1>2. Object(val, type, ref, k, children) = old
  BY DEF Object
<1>3. CASE key = "attr"
  <2>1. PairsAt(at) = Pairs(v.items)
    BY <1>0, <1>3, ShapeKeys
  <2>2. a = {}
    BY <1>1, <1>3, Nothing
  <2>3. Object(val, type, ref, k + 1, children) =
          [type |-> type, ref |-> ref, attr |-> Pairs(v.items), style |-> b, event |-> e,
           children |-> children]
    BY <1>1, <1>3 DEF Object
  <2> HIDE DEF a, b, e
  <2>4. AddPairs(a, PairsAt(at)) = Pairs(v.items)
    BY <2>1, <2>2 DEF AddPairs
  <2>5. AddPart(old, key, at) = [old EXCEPT !.attr = AddPairs(@, PairsAt(at))]
    BY <1>3 DEF AddPart
  <2> QED BY <1>2, <1>3, <2>3, <2>4, <2>5
<1>4. CASE key = "style"
  <2>1. PairsAt(at) = Pairs(v.items)
    BY <1>0, <1>4, ShapeKeys
  <2>2. b = {}
    BY <1>1, <1>4, Nothing
  <2>3. Object(val, type, ref, k + 1, children) =
          [type |-> type, ref |-> ref, attr |-> a, style |-> Pairs(v.items), event |-> e,
           children |-> children]
    BY <1>1, <1>4 DEF Object
  <2> HIDE DEF a, b, e
  <2>4. AddPairs(b, PairsAt(at)) = Pairs(v.items)
    BY <2>1, <2>2 DEF AddPairs
  <2>5. AddPart(old, key, at) = [old EXCEPT !.style = AddPairs(@, PairsAt(at))]
    BY <1>4 DEF AddPart
  <2> QED BY <1>2, <1>4, <2>3, <2>4, <2>5
<1>5. CASE key = "event"
  <2>1. e = <<>>
    BY <1>1, <1>5, Nothing
  <2>2. Object(val, type, ref, k + 1, children) =
          [type |-> type, ref |-> ref, attr |-> a, style |-> b,
           event |-> NonEmpty(Texts(v.items)), children |-> children]
    BY <1>1, <1>5 DEF Object
  <2> HIDE DEF a, b, e
  <2>3. AddPart(old, key, at) = [old EXCEPT !.event = @ \o NonEmpty(TextsAt(at))]
    BY <1>5 DEF AddPart
  <2>4. <<>> \o NonEmpty(Texts(v.items)) = NonEmpty(Texts(v.items))
    BY <1>0, NonEmptyType, ConcatEmptySeq
  <2> QED BY <1>0, <1>2, <1>5, <2>1, <2>2, <2>3, <2>4
<1> QED BY <1>0, <1>3, <1>4, <1>5

LEMMA ObjectInserts ==
  ASSUME NEW val, NEW k, NEW key, NEW v, NEW at, PartRead(val, k, key, v, at),
         key \in {"attr", "style"}, NEW type, NEW ref, NEW children
  PROVE  LET old == Object(val, type, ref, k, children)
         IN  [old EXCEPT ![key] = InsertPairs(@, PairsAt(at))]
               = Object(val, type, ref, k + 1, children)
<1>0. /\ Node(val) /\ k \in 0..(Len(val.items) - 1)
      /\ key = val.items[k + 1].key /\ v = val.items[k + 1].val
      /\ key \in {"attr", "style", "event"} /\ v.tag = Shape[key]
      /\ TextsAt(at) = Texts(v.items) /\ (v.tag = "map" => PairsAt(at) = Pairs(v.items))
      /\ Len(v.items) \in Nat /\ DOMAIN v.items = 1..Len(v.items)
  BY DEF PartRead
<1>1. /\ \A other : other # key => ItemsBy(val, other, k + 1) = ItemsBy(val, other, k)
      /\ ItemsBy(val, key, k) = <<>> /\ ItemsBy(val, key, k + 1) = v.items
  <2>1. /\ \A other : other # key => ItemsBy(val, other, k + 1) = ItemsBy(val, other, k)
        /\ ItemsBy(val, key, k) = <<>>
        /\ ItemsBy(val, key, k + 1) = IF v.tag = Shape[key] THEN v.items ELSE <<>>
    BY <1>0, SeenNext
  <2> QED BY <1>0, <2>1
<1> DEFINE a == Pairs(ItemsBy(val, "attr", k))
           b == Pairs(ItemsBy(val, "style", k))
           e == NonEmpty(Texts(ItemsBy(val, "event", k)))
           old == [type |-> type, ref |-> ref, attr |-> a, style |-> b, event |-> e,
                   children |-> children]
<1>2. Object(val, type, ref, k, children) = old
  BY DEF Object
<1>3. CASE key = "attr"
  <2>1. PairsAt(at) = Pairs(v.items)
    BY <1>0, <1>3, ShapeKeys
  <2>2. a = {}
    BY <1>1, <1>3, Nothing
  <2>3. Object(val, type, ref, k + 1, children) =
          [type |-> type, ref |-> ref, attr |-> Pairs(v.items), style |-> b, event |-> e,
           children |-> children]
    BY <1>1, <1>3 DEF Object
  <2> HIDE DEF a, b, e
  <2>4. InsertPairs(a, PairsAt(at)) = Pairs(v.items)
    BY <2>1, <2>2 DEF InsertPairs
  <2> QED BY <1>2, <1>3, <2>3, <2>4
<1>4. CASE key = "style"
  <2>1. PairsAt(at) = Pairs(v.items)
    BY <1>0, <1>4, ShapeKeys
  <2>2. b = {}
    BY <1>1, <1>4, Nothing
  <2>3. Object(val, type, ref, k + 1, children) =
          [type |-> type, ref |-> ref, attr |-> a, style |-> Pairs(v.items), event |-> e,
           children |-> children]
    BY <1>1, <1>4 DEF Object
  <2> HIDE DEF a, b, e
  <2>4. InsertPairs(b, PairsAt(at)) = Pairs(v.items)
    BY <2>1, <2>2 DEF InsertPairs
  <2> QED BY <1>2, <1>4, <2>3, <2>4
<1> QED BY <1>3, <1>4

-----------------------------------------------------------------------------
(* The entries of a map and the children in an array.                      *)

LEMMA NodeLaid ==
  ASSUME NEW n, NEW val, NEW at, NEW end, NEW place, NEW f,
         Laid(n, val, at, end, place, f), val.tag = "map"
  PROVE  Node(val)
BY StandsTypes DEF Laid, Node

LEMMA EntryHere ==
  ASSUME tokens \in Seq(Toks), NEW n, NEW val, NEW at, NEW end, NEW place, NEW f,
         Laid(n, val, at, end, place, f), val.tag = "map",
         NEW k \in 0..(Len(val.items) - 1),
         NEW key, key = val.items[k + 1].key, NEW v, v = val.items[k + 1].val,
         NEW next, next = place[k] + 1
  PROVE  /\ nextMapKeyUTF8(place[k]) = key /\ key \in Strings
         /\ nextStringUTF8(next) = Text(v) /\ SkipValue(next) = place[k + 1]
         /\ Expected(key, next) <=> key \in DOMAIN Shape /\ v.tag = Shape[key]
         /\ TextsAt(next) = Texts(v.items)
         /\ v.tag = "map" => PairsAt(next) = Pairs(v.items)
         /\ IsArray(next) <=> v.tag = "array"
         /\ v.tag \in {"text", "null"} => place[k + 1] = next + 1
         /\ v.tag \in {"text", "null", "array", "map"}
         /\ Len(v.items) \in Nat /\ DOMAIN v.items = 1..Len(v.items)
         /\ Stands(n, v, next, place[k + 1]) /\ place[k + 1] <= next + f
<1>1. /\ Stands(n, v, next, place[k + 1]) /\ place[k + 1] <= next + f
      /\ nextMapKeyUTF8(place[k]) = key
  <2>1. /\ Stands(n, val.items[k + 1].val, ToValue(at, place[k]), place[k + 1])
        /\ place[k + 1] <= ToValue(at, place[k]) + f
        /\ ToValue(at, place[k]) = place[k] + 1
        /\ nextMapKeyUTF8(place[k]) = val.items[k + 1].key
    BY ItemStands
  <2> QED BY <2>1
<1>2. /\ TagAt(next) = v.tag /\ nextStringUTF8(next) = Text(v)
      /\ IsArray(next) <=> v.tag = "array"
      /\ SkipValue(next) = place[k + 1]
      /\ v.tag \in {"text", "null"} => place[k + 1] = next + 1
  BY <1>1, Here
<1>3. TextsAt(next) = Texts(v.items) /\ (v.tag = "map" => PairsAt(next) = Pairs(v.items))
  BY <1>1, PartsHere
<1>4. /\ v.tag \in {"text", "null", "array", "map"}
      /\ Len(v.items) \in Nat /\ DOMAIN v.items = 1..Len(v.items)
  <2>1. PICK m \in Nat : n = m + 1
    BY <1>1, StandsLevel
  <2>2. Stands(m + 1, v, next, place[k + 1])
    BY <1>1, <2>1
  <2> QED BY <2>2, StandsTypes
<1>5. key \in Strings
  <2>1. Stands(n + 1, val, at, end) /\ n \in Nat
    BY DEF Laid
  <2>2. k + 1 \in 1..Len(val.items)
    BY <2>1, StandsTypes
  <2> QED BY <2>1, <2>2, StandsTypes
<1> QED BY <1>1, <1>2, <1>3, <1>4, <1>5 DEF Expected

LEMMA TreeIs ==
  ASSUME NEW n \in Nat, NEW val \in Nested[n + 1], NEW untyped
  PROVE  RenderTree(untyped)[n + 1][val] = TreeOf(RenderTree(untyped)[n], untyped, val)
<1>1. RenderTree(untyped)[n + 1] = [v \in Nested[n + 1] |-> TreeOf(RenderTree(untyped)[n], untyped, v)]
  BY TreeRuns
<1> QED BY <1>1

(* What the readers make of values, in a table of their calls. *)
RendersTo(inside, untyped, f) ==
  \A n, val, at, end :
    Stands(n, val, at, end) /\ end <= at + f =>
      inside[at] = [at |-> end,
                    render |-> IF val.tag = "map" THEN RenderTree(untyped)[n][val] ELSE <<>>]

(* The trees of the maps among some items. *)
Kids(untyped, n, items) ==
  [i \in DOMAIN items |->
     IF items[i].val.tag = "map" THEN RenderTree(untyped)[n][items[i].val] ELSE <<>>]

Joining(untyped, n, val, S, c) ==
  /\ Kids(untyped, n, val.items) \in [1..Len(val.items) -> Seq(S)]
  /\ \A i \in 1..Len(val.items) :
       \/ Kids(untyped, n, val.items)[i] = <<>>
       \/ \E e : Kids(untyped, n, val.items)[i] = <<e>>
  /\ Joins(c, S, Kids(untyped, n, val.items), Len(val.items))
  /\ Children(RenderTree(untyped)[n], val.items) = c[Len(val.items)]

LEMMA KidsJoin ==
  ASSUME NEW n, NEW val, NEW at, NEW end, NEW place, NEW f,
         Laid(n, val, at, end, place, f), NEW untyped
  PROVE  \E S, c : Joining(untyped, n, val, S, c)
<1> DEFINE kids == Kids(untyped, n, val.items)
           k == Len(val.items)
<1>0. /\ n \in Nat /\ k \in Nat /\ DOMAIN val.items = 1..k
      /\ \A i \in 1..k : val.items[i].val \in Nested[n]
  BY StandsTypes DEF Laid
<1>1. ASSUME NEW i \in 1..k
      PROVE  kids[i] = <<>> \/ \E e : kids[i] = <<e>>
  <2>1. kids[i] = IF val.items[i].val.tag = "map" THEN RenderTree(untyped)[n][val.items[i].val] ELSE <<>>
    BY <1>0 DEF Kids
  <2>2. n # 0
    BY <1>0, NestedLevels
  <2>3. n - 1 \in Nat /\ (n - 1) + 1 = n
    BY <1>0, <2>2
  <2>4. RenderTree(untyped)[n][val.items[i].val]
          = TreeOf(RenderTree(untyped)[n - 1], untyped, val.items[i].val)
    <3> DEFINE m == n - 1
    <3>1. m \in Nat /\ n = m + 1
      BY <2>3
    <3> HIDE DEF m
    <3>2. RenderTree(untyped)[m + 1][val.items[i].val] = TreeOf(RenderTree(untyped)[m], untyped, val.items[i].val)
      BY <1>0, <3>1, TreeIs
    <3> QED BY <3>1, <3>2 DEF m
  <2> HIDE DEF kids
  <2> QED BY <2>1, <2>4 DEF TreeOf
<1>2. kids = [i \in 1..k |-> kids[i]]
  BY <1>0 DEF Kids
<1>3. ASSUME NEW i \in 1..k PROVE \E T : kids[i] \in Seq(T)
  <2> HIDE DEF kids
  <2>1. CASE kids[i] = <<>>
    <3>1. <<>> \in Seq({})
      OBVIOUS
    <3> QED BY <2>1, <3>1
  <2>2. ASSUME NEW e, kids[i] = <<e>> PROVE \E T : kids[i] \in Seq(T)
    <3>1. <<e>> \in Seq({e})
      OBVIOUS
    <3> QED BY <2>2, <3>1
  <2> QED BY <1>1, <2>1, <2>2
<1>4. PICK S : kids \in [1..k -> Seq(S)]
  <2> HIDE DEF kids
  <2> QED BY <1>0, <1>2, <1>3, CommonType
<1>5. PICK c : Joins(c, S, kids, k) /\ FlattenSeq(kids) = c[k]
  <2> HIDE DEF kids
  <2> QED BY <1>0, <1>4, Joined
<1>6. Children(RenderTree(untyped)[n], val.items) = FlattenSeq(kids)
  BY DEF Children, Kids
<1> HIDE DEF kids
<1> QED BY <1>1, <1>4, <1>5, <1>6 DEF kids, Joining

(* A child in an array. *)
LEMMA ChildHere ==
  ASSUME tokens \in Seq(Toks), NEW n, NEW val, NEW at, NEW end, NEW place, NEW f,
         Laid(n, val, at, end, place, f), val.tag = "array",
         NEW inside, NEW untyped, RendersTo(inside, untyped, f),
         NEW j \in Nat, j + 1 <= Len(val.items)
  PROVE  inside[place[j]] = [at |-> place[j + 1],
                             render |-> Kids(untyped, n, val.items)[j + 1]]
<1>0. Len(val.items) \in Nat /\ DOMAIN val.items = 1..Len(val.items)
  BY StandsTypes DEF Laid
<1>1. j \in 0..(Len(val.items) - 1) /\ j + 1 \in DOMAIN val.items
  BY <1>0
<1>2. /\ Stands(n, val.items[j + 1].val, ToValue(at, place[j]), place[j + 1])
      /\ place[j + 1] <= ToValue(at, place[j]) + f /\ ToValue(at, place[j]) = place[j]
  BY <1>1, ItemStands
<1> QED BY <1>1, <1>2 DEF RendersTo, Kids

LEMMA OldChildren ==
  ASSUME tokens \in Seq(Toks), NEW n, NEW val, NEW at, NEW end, NEW place, NEW f,
         Laid(n, val, at, end, place, f), val.tag = "array",
         NEW inside, NEW untyped, RendersTo(inside, untyped, f),
         NEW node, NEW type, NEW ref, NEW k,
         NEW render, render = Object(node, type, ref, k, <<>>)
  PROVE  RenderChildren(inside, render, at)[SizeAt(at)] =
           [at |-> end,
            render |-> Object(node, type, ref, k, Children(RenderTree(untyped)[n], val.items))]
<1> DEFINE m == Len(val.items)
           kids == Kids(untyped, n, val.items)
           loop == RenderChildren(inside, render, at)
<1>0. /\ n \in Nat /\ m \in Nat /\ DOMAIN val.items = 1..m /\ SizeAt(at) = m
      /\ \A i \in 1..m : val.items[i].val \in Nested[n]
      /\ place[0] = at + 1 /\ place[m] = end
  BY StandsTypes, Here DEF Laid, Places
<1>1. PICK S, c : Joining(untyped, n, val, S, c)
  BY KidsJoin
<1>2. /\ Joins(c, S, kids, m) /\ Children(RenderTree(untyped)[n], val.items) = c[m]
      /\ kids \in [1..m -> Seq(S)]
      /\ \A i \in 1..m : kids[i] = <<>> \/ \E e : kids[i] = <<e>>
  BY <1>1 DEF Joining
<1> HIDE DEF kids
<1>3. \A j \in Nat : c[j] \in Seq(S) /\ Len(c[j]) \in Nat
  BY <1>2, JoinsType
<1>4. c[0] = <<>> /\ \A i \in 1..m : c[i] = c[i - 1] \o kids[i]
  BY <1>2 DEF Joins
<1>r. /\ loop[0] = [at |-> at + 1, render |-> render]
      /\ \A j \in Nat : loop[j + 1] = RenderChild(inside, loop[j], j)
  BY RenderChildrenStart, RenderChildrenStep
<1> HIDE DEF loop
<1> DEFINE After(j) == [at |-> place[j], render |-> Object(node, type, ref, k, c[j])]
           P == {j \in Nat : j <= m => loop[j] = After(j) /\ Len(c[j]) <= j}
<1>5. 0 \in P
  <2>1. c[0] = <<>> /\ Len(c[0]) <= 0
    BY <1>4
  <2>2. loop[0] = After(0)
    BY <1>0, <1>r, <2>1
  <2> QED BY <2>1, <2>2
<1>6. ASSUME NEW j \in Nat, j \in P PROVE j + 1 \in P
  <2> SUFFICES ASSUME j + 1 <= m
               PROVE  loop[j + 1] = After(j + 1) /\ Len(c[j + 1]) <= j + 1
    OBVIOUS
  <2>1. j + 1 \in 1..m /\ (j + 1) - 1 = j /\ j <= m
    BY <1>0
  <2>2. loop[j] = After(j) /\ Len(c[j]) <= j
    BY <1>6, <2>1
  <2>3. loop[j + 1] = RenderChild(inside, loop[j], j)
    BY <1>r
  <2> HIDE DEF P
  <2>4. inside[place[j]] = [at |-> place[j + 1], render |-> kids[j + 1]]
    BY ChildHere DEF kids
  <2>5. c[j + 1] = c[j] \o kids[j + 1] /\ c[j] \in Seq(S) /\ Len(c[j]) \in Nat
    BY <1>3, <1>4, <2>1
  <2> DEFINE old == Object(node, type, ref, k, c[j])
  <2>6. RenderChild(inside, After(j), j) =
          [at |-> place[j + 1],
           render |-> IF kids[j + 1] = <<>> THEN old ELSE AddRenderObject(old, j, kids[j + 1][1])]
    BY <2>4 DEF RenderChild
  <2>7. CASE kids[j + 1] = <<>>
    <3>1. c[j + 1] = c[j]
      BY <2>5, <2>7, ConcatEmptySeq
    <3> QED BY <2>2, <2>3, <2>5, <2>6, <2>7, <3>1
  <2>8. ASSUME NEW e, kids[j + 1] = <<e>>
        PROVE  loop[j + 1] = After(j + 1) /\ Len(c[j + 1]) <= j + 1
    <3>1. c[j + 1] = Append(c[j], e) /\ Len(c[j + 1]) = Len(c[j]) + 1
      BY <2>5, <2>8, OneMore
    <3>2. kids[j + 1] # <<>> /\ kids[j + 1][1] = e
      BY <2>8
    <3>3. AddRenderObject(old, j, e) = Object(node, type, ref, k, Append(c[j], e))
      <4>1. j >= Len(c[j]) /\ old.children = c[j]
        BY <2>2, <2>5 DEF Object
      <4>2. AddRenderObject(old, j, e) = [old EXCEPT !.children = Append(c[j], e)]
        BY <4>1 DEF AddRenderObject
      <4> QED BY <4>2 DEF Object
    <3> QED BY <2>2, <2>3, <2>5, <2>6, <3>1, <3>2, <3>3
  <2> QED BY <1>2, <2>1, <2>7, <2>8
<1> HIDE DEF P
<1>7. Nat \subseteq P
  BY <1>5, <1>6, Counting
<1>8. loop[m] = After(m)
  <2>1. m \in P /\ m <= m
    BY <1>0, <1>7
  <2> QED BY <2>1 DEF P
<1> QED BY <1>0, <1>2, <1>8 DEF loop

Child(inside, s, x, y, old, made) ==
  s.at = x /\ s.children = old /\ inside[x].at = y /\ inside[x].render = made

Behind(s, y, all) ==
  s.at = y /\ s.children = all /\ s = [at |-> s.at, children |-> s.children]

LEMMA NewChildIs ==
  ASSUME NEW inside, NEW s, NEW x, NEW y, NEW old, NEW made, Child(inside, s, x, y, old, made)
  PROVE  Behind(NewChild(inside, s), y, old \o made)
<1> DEFINE child == inside[s.at]
           both == s.children \o child.render
<1>1. NewChild(inside, s) = [at |-> child.at, children |-> both]
  BY Zenon DEF NewChild
<1>2. child.at = y /\ both = old \o made
  BY Zenon DEF Child
<1> HIDE DEF both, child
<1> QED BY <1>1, <1>2 DEF Behind

LEMMA NewChildrenRead ==
  ASSUME tokens \in Seq(Toks), NEW n, NEW val, NEW at, NEW end, NEW place, NEW f,
         Laid(n, val, at, end, place, f), val.tag = "array",
         NEW inside, NEW untyped, RendersTo(inside, untyped, f)
  PROVE  NewChildren(inside, <<>>, at)[SizeAt(at)] =
           [at |-> end, children |-> Children(RenderTree(untyped)[n], val.items)]
<1> DEFINE m == Len(val.items)
           kids == Kids(untyped, n, val.items)
           loop == NewChildren(inside, <<>>, at)
<1>0. /\ n \in Nat /\ m \in Nat /\ DOMAIN val.items = 1..m /\ SizeAt(at) = m
      /\ \A i \in 1..m : val.items[i].val \in Nested[n]
      /\ place[0] = at + 1 /\ place[m] = end
  BY StandsTypes, Here DEF Laid, Places
<1>a. PICK S, c : Joining(untyped, n, val, S, c)
  BY KidsJoin
<1>1. Joins(c, S, kids, m) /\ Children(RenderTree(untyped)[n], val.items) = c[m]
  BY <1>a DEF Joining
<1> HIDE DEF kids
<1>2. c[0] = <<>> /\ \A i \in 1..m : c[i] = c[i - 1] \o kids[i]
  BY <1>1 DEF Joins
<1>r. /\ loop[0] = [at |-> at + 1, children |-> <<>>]
      /\ \A j \in Nat : loop[j + 1] = NewChild(inside, loop[j])
  BY NewChildrenStart, NewChildrenStep
<1> HIDE DEF loop
<1> DEFINE After(j) == [at |-> place[j], children |-> c[j]]
           P == {j \in Nat : j <= m => loop[j] = After(j)}
<1>3. 0 \in P
  BY <1>0, <1>2, <1>r
<1>4. ASSUME NEW j \in Nat, j \in P PROVE j + 1 \in P
  <2> SUFFICES ASSUME j + 1 <= m PROVE loop[j + 1] = After(j + 1)
    OBVIOUS
  <2>1. j + 1 \in 1..m /\ (j + 1) - 1 = j /\ j <= m
    BY <1>0
  <2>2. loop[j] = After(j)
    BY <1>4, <2>1
  <2>3. loop[j + 1] = NewChild(inside, loop[j])
    BY <1>r
  <2> HIDE DEF P
  <2>4. inside[place[j]] = [at |-> place[j + 1], render |-> kids[j + 1]]
    BY ChildHere DEF kids
  <2>5. c[j + 1] = c[j] \o kids[j + 1]
    BY <1>2, <2>1
  <2>6. Child(inside, loop[j], place[j], place[j + 1], c[j], kids[j + 1])
    BY <2>2, <2>4 DEF Child
  <2>7. Behind(NewChild(inside, loop[j]), place[j + 1], c[j] \o kids[j + 1])
    BY <2>6, NewChildIs, Zenon
  <2> QED BY <2>3, <2>5, <2>7 DEF Behind
<1> HIDE DEF P
<1>5. Nat \subseteq P
  BY <1>3, <1>4, Counting
<1>6. loop[m] = After(m)
  <2>1. m \in P /\ m <= m
    BY <1>0, <1>5
  <2> QED BY <2>1 DEF P
<1> QED BY <1>0, <1>1, <1>6 DEF loop

-----------------------------------------------------------------------------
(* parserWson2RenderObject.                                                *)

State(s, at, ref, render, right) ==
  s = [at |-> at, ref |-> ref, render |-> render, right |-> right]

Reading(inside, again, s, key, next, at, ref, render, right) ==
  /\ State(s, at, ref, render, right) /\ right \in BOOLEAN
  /\ nextMapKeyUTF8(at) = key /\ next = at + 1

LEMMA EntryRef ==
  ASSUME NEW inside, NEW again, NEW s, NEW key, NEW next, NEW at, NEW ref, NEW render, NEW right,
         Reading(inside, again, s, key, next, at, ref, render, right),
         again = FALSE, key = "ref"
  PROVE  State(RenderEntry(inside, again, s), SkipValue(next), nextStringUTF8(next),
               [i \in DOMAIN render |-> [render[i] EXCEPT !.ref = nextStringUTF8(next)]], right)
<1>1. ~Expected(key, next) /\ key \notin DOMAIN Shape
  BY ShapeKeys DEF Expected
<1> QED BY <1>1 DEF Reading, State, RenderEntry

LEMMA EntryType ==
  ASSUME NEW inside, NEW again, NEW s, NEW key, NEW next, NEW at, NEW ref, NEW render, NEW right,
         Reading(inside, again, s, key, next, at, ref, render, right),
         again = FALSE, key = "type"
  PROVE  State(RenderEntry(inside, again, s), SkipValue(next), ref,
               <<CreateRender(nextStringUTF8(next), ref)>>, right)
<1>1. ~Expected(key, next) /\ key \notin DOMAIN Shape
  BY ShapeKeys DEF Expected
<1> QED BY <1>1 DEF Reading, State, RenderEntry

LEMMA EntryPart ==
  ASSUME NEW inside, NEW again, NEW s, NEW key, NEW next, NEW at, NEW ref, NEW render, NEW right,
         Reading(inside, again, s, key, next, at, ref, render, right),
         again \/ (render # <<>> /\ right), Expected(key, next),
         key \in {"attr", "style", "event"}
  PROVE  State(RenderEntry(inside, again, s), SkipValue(next), ref,
               <<AddPart(render[1], key, next)>>, right)
BY DEF Reading, State, RenderEntry, KeyOrder, RenderPart

LEMMA EntryChildren ==
  ASSUME NEW inside, NEW again, NEW s, NEW key, NEW next, NEW at, NEW ref, NEW render, NEW right,
         Reading(inside, again, s, key, next, at, ref, render, right),
         again \/ (render # <<>> /\ right), Expected(key, next), key = "children"
  PROVE  LET read == RenderChildren(inside, render[1], next)[SizeAt(next)]
         IN  State(RenderEntry(inside, again, s), read.at, ref, <<read.render>>, right)
BY DEF Reading, State, RenderEntry, KeyOrder, RenderPart

LEMMA EntryWrongPart ==
  ASSUME NEW inside, NEW again, NEW s, NEW key, NEW next, NEW at, NEW ref, NEW render, NEW right,
         Reading(inside, again, s, key, next, at, ref, render, right),
         again = FALSE, key \in DOMAIN Shape, ~Expected(key, next), render # <<>>, right
  PROVE  State(RenderEntry(inside, again, s), SkipValue(next), ref, render, right)
BY ShapeKeys DEF Reading, State, RenderEntry, KeyOrder

TooEarly(render, right, wrong) == (render = <<>> \/ ~right) /\ wrong = FALSE

LEMMA EntryEarlyPart ==
  ASSUME NEW inside, NEW again, NEW s, NEW key, NEW next, NEW at, NEW ref, NEW render, NEW right,
         Reading(inside, again, s, key, next, at, ref, render, right),
         again = FALSE, key \in DOMAIN Shape, NEW wrong, TooEarly(render, right, wrong)
  PROVE  State(RenderEntry(inside, again, s), SkipValue(next), ref, render, wrong)
BY ShapeKeys DEF Reading, State, RenderEntry, KeyOrder, TooEarly

LEMMA EntryPast ==
  ASSUME NEW inside, NEW again, NEW s, NEW key, NEW next, NEW at, NEW ref, NEW render, NEW right,
         Reading(inside, again, s, key, next, at, ref, render, right),
         \/ key \notin DOMAIN Shape \cup {"ref", "type"}
         \/ again = TRUE /\ ~Expected(key, next)
  PROVE  State(RenderEntry(inside, again, s), SkipValue(next), ref, render, right)
BY ShapeKeys DEF Reading, State, RenderEntry, Expected

-----------------------------------------------------------------------------
(* More levels change nothing.                                             *)

LEMMA NestedGrows ==
  ASSUME NEW m \in Nat
  PROVE  Nested[m] \subseteq Nested[m + 1]
<1> DEFINE P == {n \in Nat : Nested[n] \subseteq Nested[n + 1]}
<1>1. 0 \in P
  BY NestedLevels
<1>2. ASSUME NEW n \in Nat, n \in P PROVE n + 1 \in P
  <2>1. ASSUME NEW S, NEW T, S \subseteq T, NEW val \in Containers(S)
        PROVE  val \in Containers(T)
    <3>1. [key : Strings, val : S] \subseteq [key : Strings, val : T]
      BY <2>1
    <3> DEFINE a == [key : Strings, val : S]
               b == [key : Strings, val : T]
    <3>2. /\ val \in [tag : {"array", "map"}, data : {""}, items : Seq(a)]
          /\ val.tag = "map" =>
               \A i, j \in DOMAIN val.items : val.items[i].key = val.items[j].key => i = j
      BY <2>1 DEF Containers
    <3>3. Seq(a) \subseteq Seq(b)
      <4>1. a \subseteq b
        BY <3>1
      <4> HIDE DEF a, b
      <4> QED BY <4>1
    <3>4. val \in [tag : {"array", "map"}, data : {""}, items : Seq(b)]
      <4> HIDE DEF a, b
      <4> QED BY <3>2, <3>3
    <3> QED BY <3>2, <3>4 DEF Containers
  <2>2. Nested[n + 1] = Single \cup Containers(Nested[n])
        /\ Nested[(n + 1) + 1] = Single \cup Containers(Nested[n + 1])
    BY NestedLevels
  <2>3. Nested[n] \subseteq Nested[n + 1]
    BY <1>2
  <2>4. Containers(Nested[n]) \subseteq Containers(Nested[n + 1])
    BY <2>1, <2>3
  <2>5. Nested[n + 1] \subseteq Nested[(n + 1) + 1]
    BY <2>2, <2>4
  <2> QED BY <2>5
<1> HIDE DEF P
<1>3. Nat \subseteq P
  BY <1>1, <1>2, Counting
<1> QED BY <1>3 DEF P

LEMMA ChildrenSame ==
  ASSUME NEW a, NEW b, NEW items, \A i \in DOMAIN items : a[items[i].val] = b[items[i].val]
  PROVE  Children(a, items) = Children(b, items)
<1>1. [i \in DOMAIN items |-> IF items[i].val.tag = "map" THEN a[items[i].val] ELSE <<>>]
        = [i \in DOMAIN items |-> IF items[i].val.tag = "map" THEN b[items[i].val] ELSE <<>>]
  OBVIOUS
<1> QED BY <1>1 DEF Children

(* The items of a part have two levels less. *)
LEMMA ItemsBelow ==
  ASSUME NEW n \in Nat, NEW val \in Nested[n + 1], NEW key, NEW i \in DOMAIN ItemsOf(val, key)
  PROVE  ItemsOf(val, key)[i].val \in Nested[n]
<1>1. Has(val, key) /\ ItemsOf(val, key) = Part(val, key).items
  BY DEF ItemsOf
<1> DEFINE j == CHOOSE j \in DOMAIN val.items : val.items[j].key = key
<1>2. j \in DOMAIN val.items
  BY <1>1 DEF Has
<1>3. Part(val, key) = val.items[j].val
  BY DEF Part
<1> HIDE DEF j
<1>4. Part(val, key) \in Nested[n]
  BY <1>2, <1>3, ValueTypes
<1>5. n # 0
  BY <1>4, NestedLevels
<1> DEFINE m == n - 1
<1>6. m \in Nat /\ n = m + 1
  BY <1>5
<1> HIDE DEF m
<1>7. ItemsOf(val, key)[i].val \in Nested[m]
  <2>1. Part(val, key) \in Nested[m + 1] /\ i \in DOMAIN Part(val, key).items
    BY <1>1, <1>4, <1>6
  <2> DEFINE w == Part(val, key)
  <2>2. w \in Nested[m + 1] /\ i \in DOMAIN w.items
    BY <2>1
  <2> HIDE DEF w
  <2>3. /\ DOMAIN w.items = 1..Len(w.items)
        /\ \A k \in 1..Len(w.items) : w.items[k].val \in Nested[m]
    BY <1>6, <2>2, ValueTypes
  <2>4. w.items[i].val \in Nested[m]
    BY <2>2, <2>3
  <2> QED BY <1>1, <2>4 DEF w
<1> QED BY <1>6, <1>7, NestedGrows

LEMMA TreeLevels ==
  ASSUME NEW m \in Nat, NEW v \in Nested[m], NEW untyped
  PROVE  RenderTree(untyped)[m + 1][v] = RenderTree(untyped)[m][v]
<1> DEFINE tree == RenderTree(untyped)
           P == {n \in Nat : \A val \in Nested[n] : tree[n + 1][val] = tree[n][val]}
<1>1. \A n \in Nat : \A val \in Nested[n + 1] :
         tree[n + 1][val] = TreeOf(tree[n], untyped, val)
  BY TreeIs
<1> HIDE DEF tree
<1>2. 0 \in P
  BY NestedLevels
<1>3. ASSUME NEW n \in Nat, n \in P PROVE n + 1 \in P
  <2> SUFFICES ASSUME NEW val \in Nested[n + 1]
               PROVE  tree[(n + 1) + 1][val] = tree[n + 1][val]
    OBVIOUS
  <2>1. val \in Nested[(n + 1) + 1]
    <3>1. n + 1 \in Nat
      OBVIOUS
    <3>2. Nested[n + 1] \subseteq Nested[(n + 1) + 1]
      BY <3>1, NestedGrows
    <3> QED BY <3>2
  <2>2. tree[(n + 1) + 1][val] = TreeOf(tree[n + 1], untyped, val)
        /\ tree[n + 1][val] = TreeOf(tree[n], untyped, val)
    BY <1>1, <2>1
  <2> DEFINE items == ItemsOf(val, "children")
  <2>3. \A i \in DOMAIN items : tree[n + 1][items[i].val] = tree[n][items[i].val]
    BY <1>3, ItemsBelow
  <2> HIDE DEF P, items
  <2>4. Children(tree[n + 1], items) = Children(tree[n], items)
    BY <2>3, ChildrenSame
  <2> QED BY <2>2, <2>4 DEF TreeOf, items
<1> HIDE DEF P
<1>4. Nat \subseteq P
  BY <1>2, <1>3, Counting
<1> QED BY <1>4 DEF P, tree

(* The children in an array, read for a render object. *)
LEMMA OldChildrenHere ==
  ASSUME tokens \in Seq(Toks), NEW n, NEW v, NEW next, NEW end, NEW f \in Nat,
         Stands(n, v, next, end), end <= next + f, v.tag = "array",
         NEW inside, NEW untyped, RendersTo(inside, untyped, f),
         NEW node, NEW type, NEW ref, NEW k
  PROVE  LET read == RenderChildren(inside, Object(node, type, ref, k, <<>>), next)
         IN  read[SizeAt(next)] =
               [at |-> end,
                render |-> Object(node, type, ref, k, Children(RenderTree(untyped)[n], v.items))]
<1>1. PICK m \in Nat : n = m + 1
  BY StandsLevel
<1>2. next \in Nat /\ end \in Nat /\ end > next
  BY DEF Stands
<1>3. end <= next + (f + 1)
  BY <1>2
<1>4. PICK l, place : n = l + 1 /\ Laid(l, v, next, end, place, f)
  BY <1>3, LaidExists
<1>5. l \in Nat /\ Stands(l + 1, v, next, end)
  BY <1>4 DEF Laid
<1>6. RenderChildren(inside, Object(node, type, ref, k, <<>>), next)[SizeAt(next)] =
        [at |-> end,
         render |-> Object(node, type, ref, k, Children(RenderTree(untyped)[l], v.items))]
  <2> DEFINE render == Object(node, type, ref, k, <<>>)
  <2>1. render = Object(node, type, ref, k, <<>>)
    OBVIOUS
  <2> HIDE DEF render
  <2>2. RenderChildren(inside, render, next)[SizeAt(next)] =
          [at |-> end,
           render |-> Object(node, type, ref, k, Children(RenderTree(untyped)[l], v.items))]
    BY <1>4, <2>1, OldChildren
  <2> QED BY <2>1, <2>2
<1>7. \A i \in DOMAIN v.items : RenderTree(untyped)[l + 1][v.items[i].val] = RenderTree(untyped)[l][v.items[i].val]
  <2> TAKE i \in DOMAIN v.items
  <2>1. v.items[i].val \in Nested[l]
    BY <1>5, StandsTypes
  <2> QED BY <1>5, <2>1, TreeLevels
<1>8. Children(RenderTree(untyped)[n], v.items) = Children(RenderTree(untyped)[l], v.items)
  BY <1>4, <1>7, ChildrenSame
<1> QED BY <1>6, <1>8

LEMMA NewChildrenHere ==
  ASSUME tokens \in Seq(Toks), NEW n, NEW v, NEW next, NEW end, NEW f \in Nat,
         Stands(n, v, next, end), end <= next + f, v.tag = "array",
         NEW inside, NEW untyped, RendersTo(inside, untyped, f)
  PROVE  NewChildren(inside, <<>>, next)[SizeAt(next)] =
           [at |-> end, children |-> Children(RenderTree(untyped)[n], v.items)]
<1>2. next \in Nat /\ end \in Nat /\ end > next
  BY DEF Stands
<1>3. end <= next + (f + 1)
  BY <1>2
<1>4. PICK l, place : n = l + 1 /\ Laid(l, v, next, end, place, f)
  BY <1>3, LaidExists
<1>5. l \in Nat /\ Stands(l + 1, v, next, end)
  BY <1>4 DEF Laid
<1>6. NewChildren(inside, <<>>, next)[SizeAt(next)] =
        [at |-> end, children |-> Children(RenderTree(untyped)[l], v.items)]
  BY <1>4, NewChildrenRead
<1>7. \A i \in DOMAIN v.items : RenderTree(untyped)[l + 1][v.items[i].val] = RenderTree(untyped)[l][v.items[i].val]
  <2> TAKE i \in DOMAIN v.items
  <2>1. v.items[i].val \in Nested[l]
    BY <1>5, StandsTypes
  <2> QED BY <1>5, <2>1, TreeLevels
<1>8. Children(RenderTree(untyped)[n], v.items) = Children(RenderTree(untyped)[l], v.items)
  BY <1>4, <1>7, ChildrenSame
<1> QED BY <1>6, <1>8

-----------------------------------------------------------------------------
(* The render object and its children, of k entries.                       *)

KidsBy(untyped, n, val, k) == Children(RenderTree(untyped)[n], ItemsBy(val, "children", k))

Grown(untyped, n, val, type, ref, k) ==
  Object(val, type, ref, k, KidsBy(untyped, n, val, k))

LEMMA NoChildren ==
  ASSUME NEW kids
  PROVE  Children(kids, <<>>) = <<>>
<1> DEFINE seqs == [i \in DOMAIN <<>> |->
                      IF (<<>>)[i].val.tag = "map" THEN kids[(<<>>)[i].val] ELSE <<>>]
<1>1. seqs \in [1..0 -> Seq(Nat)]
  OBVIOUS
<1>2. Children(kids, <<>>) = FlattenSeq(seqs)
  BY DEF Children
<1> HIDE DEF seqs
<1>3. PICK c : Joins(c, Nat, seqs, 0) /\ FlattenSeq(seqs) = c[0]
  BY <1>1, Joined
<1> QED BY <1>2, <1>3 DEF Joins

(* An entry that is no part of the right type. *)
LEMMA GrownStays ==
  ASSUME NEW val, Node(val), NEW k \in 0..(Len(val.items) - 1),
         NEW key, key = val.items[k + 1].key, NEW v, v = val.items[k + 1].val,
         key \in DOMAIN Shape => v.tag # Shape[key],
         NEW untyped, NEW n, NEW type, NEW ref
  PROVE  /\ Grown(untyped, n, val, type, ref, k + 1) = Grown(untyped, n, val, type, ref, k)
         /\ Object(val, type, ref, k + 1, <<>>) = Object(val, type, ref, k, <<>>)
<1>1. ItemsBy(val, "children", k + 1) = ItemsBy(val, "children", k)
  <2>1. CASE key # "children"
    BY <2>1, SeenNext
  <2>2. CASE key = "children"
    <3>1. v.tag # Shape[key]
      BY <2>2, ShapeKeys
    <3> QED BY <2>2, <3>1, SeenNext
  <2> QED BY <2>1, <2>2
<1>2. key \in {"attr", "style", "event"} => v.tag # Shape[key]
  BY ShapeKeys
<1>3. \A children : Object(val, type, ref, k + 1, children) = Object(val, type, ref, k, children)
  BY <1>2, ObjectStays
<1> QED BY <1>1, <1>3 DEF Grown, KidsBy

LEMMA GrownPart ==
  ASSUME NEW val, NEW k, NEW key, NEW v, NEW at, PartRead(val, k, key, v, at),
         NEW untyped, NEW n, NEW type, NEW ref
  PROVE  AddPart(Grown(untyped, n, val, type, ref, k), key, at)
           = Grown(untyped, n, val, type, ref, k + 1)
<1>1. ItemsBy(val, "children", k + 1) = ItemsBy(val, "children", k)
  <2>1. /\ Node(val) /\ k \in 0..(Len(val.items) - 1)
        /\ key = val.items[k + 1].key /\ v = val.items[k + 1].val /\ key # "children"
    BY DEF PartRead
  <2> QED BY <2>1, SeenNext
<1> DEFINE kids == KidsBy(untyped, n, val, k)
<1>2. kids = KidsBy(untyped, n, val, k + 1)
  BY <1>1 DEF KidsBy
<1> HIDE DEF kids
<1>3. AddPart(Object(val, type, ref, k, kids), key, at) = Object(val, type, ref, k + 1, kids)
  BY ObjectGrows
<1> QED BY <1>2, <1>3 DEF Grown, kids

LEMMA GrownPairs ==
  ASSUME NEW val, NEW k, NEW key, NEW v, NEW at, PartRead(val, k, key, v, at),
         key \in {"attr", "style"}, NEW untyped, NEW n, NEW type, NEW ref
  PROVE  LET old == Grown(untyped, n, val, type, ref, k)
         IN  [old EXCEPT ![key] = InsertPairs(@, PairsAt(at))]
               = Grown(untyped, n, val, type, ref, k + 1)
<1>1. ItemsBy(val, "children", k + 1) = ItemsBy(val, "children", k)
  <2>1. /\ Node(val) /\ k \in 0..(Len(val.items) - 1)
        /\ key = val.items[k + 1].key /\ v = val.items[k + 1].val /\ key # "children"
    BY DEF PartRead
  <2> QED BY <2>1, SeenNext
<1> DEFINE kids == KidsBy(untyped, n, val, k)
<1>2. kids = KidsBy(untyped, n, val, k + 1)
  BY <1>1 DEF KidsBy
<1> HIDE DEF kids
<1>3. LET old == Object(val, type, ref, k, kids)
      IN  [old EXCEPT ![key] = InsertPairs(@, PairsAt(at))] = Object(val, type, ref, k + 1, kids)
  BY ObjectInserts
<1> QED BY <1>2, <1>3 DEF Grown, kids

ChildrenRead(val, k, v) ==
  /\ Node(val) /\ k \in 0..(Len(val.items) - 1)
  /\ val.items[k + 1].key = "children" /\ v = val.items[k + 1].val /\ v.tag = "array"

LEMMA GrownChildren ==
  ASSUME NEW val, NEW k, NEW v, ChildrenRead(val, k, v), NEW untyped, NEW n, NEW type, NEW ref
  PROVE  /\ Grown(untyped, n, val, type, ref, k) = Object(val, type, ref, k, <<>>)
         /\ Grown(untyped, n, val, type, ref, k + 1) =
              Object(val, type, ref, k, Children(RenderTree(untyped)[n], v.items))
         /\ Object(val, type, ref, k + 1, <<>>) = Object(val, type, ref, k, <<>>)
<1> DEFINE key == val.items[k + 1].key
<1>1. /\ key = "children" /\ key = val.items[k + 1].key
      /\ Node(val) /\ k \in 0..(Len(val.items) - 1)
      /\ v = val.items[k + 1].val /\ v.tag = "array"
  BY DEF ChildrenRead
<1> HIDE DEF key
<1>2. ItemsBy(val, "children", k) = <<>> /\ ItemsBy(val, "children", k + 1) = v.items
  <2>1. /\ ItemsBy(val, key, k) = <<>>
        /\ ItemsBy(val, key, k + 1) = IF v.tag = Shape[key] THEN v.items ELSE <<>>
    BY <1>1, SeenNext
  <2> QED BY <1>1, <2>1, ShapeKeys
<1>3. key \in {"attr", "style", "event"} => v.tag # Shape[key]
  BY <1>1
<1>4. \A children : Object(val, type, ref, k + 1, children) = Object(val, type, ref, k, children)
  BY <1>1, <1>3, ObjectStays
<1> QED BY <1>2, <1>4, NoChildren DEF Grown, KidsBy

LEMMA GrownStarts ==
  ASSUME NEW val, Node(val), NEW type, NEW ref, NEW k, NEW untyped, NEW n,
         \A key \in DOMAIN Shape : ~Seen(val, key, k)
  PROVE  /\ Grown(untyped, n, val, type, ref, k) = CreateRender(type, ref)
         /\ Object(val, type, ref, k, <<>>) = CreateRender(type, ref)
<1>1. ItemsBy(val, "children", k) = <<>>
  BY ShapeKeys DEF ItemsBy
<1> QED BY <1>1, NoChildren, ObjectStarts DEF Grown, KidsBy

LEMMA GrownEnds ==
  ASSUME NEW val, Node(val), NEW untyped, NEW n
  PROVE  /\ Grown(untyped, n, val, TextOf(val, "type"), TextOf(val, "ref"), Len(val.items))
              = [Bare(val) EXCEPT
                   !.children = Children(RenderTree(untyped)[n], ItemsOf(val, "children"))]
         /\ Object(val, TextOf(val, "type"), TextOf(val, "ref"), Len(val.items), <<>>)
              = Bare(val)
<1>1. KidsBy(untyped, n, val, Len(val.items))
        = Children(RenderTree(untyped)[n], ItemsOf(val, "children"))
  BY SeenAll DEF KidsBy
<1>2. [Bare(val) EXCEPT !.children = <<>>] = Bare(val)
  BY DEF Bare
<1> QED BY <1>1, <1>2, ObjectEnds DEF Grown

(* The ref is known before or after. *)
LEMMA CreateRef ==
  ASSUME NEW type, NEW ref, NEW other
  PROVE  [CreateRender(type, ref) EXCEPT !.ref = other] = CreateRender(type, other)
<1> DEFINE no == {}
           none == <<>>
<1>1. \A r : CreateRender(type, r) =
              [type |-> type, ref |-> r, attr |-> no, style |-> no, event |-> none,
               children |-> none]
  BY DEF CreateRender
<1> HIDE DEF no, none
<1>2. /\ CreateRender(type, ref) =
            [type |-> type, ref |-> ref, attr |-> no, style |-> no, event |-> none,
             children |-> none]
      /\ CreateRender(type, other) =
            [type |-> type, ref |-> other, attr |-> no, style |-> no, event |-> none,
             children |-> none]
  BY <1>1
<1> QED BY <1>2

LEMMA ObjectRef ==
  ASSUME NEW val, NEW type, NEW ref, NEW k, NEW other, NEW kids
  PROVE  [Object(val, type, ref, k, kids) EXCEPT !.ref = other]
           = Object(val, type, other, k, kids)
<1> DEFINE a == Pairs(ItemsBy(val, "attr", k))
           b == Pairs(ItemsBy(val, "style", k))
           e == NonEmpty(Texts(ItemsBy(val, "event", k)))
<1>1. \A t, r : Object(val, t, r, k, kids) =
                [type |-> t, ref |-> r, attr |-> a, style |-> b, event |-> e, children |-> kids]
  BY DEF Object
<1> HIDE DEF a, b, e
<1>2. /\ Object(val, type, ref, k, kids) =
           [type |-> type, ref |-> ref, attr |-> a, style |-> b, event |-> e, children |-> kids]
      /\ Object(val, type, other, k, kids) =
           [type |-> type, ref |-> other, attr |-> a, style |-> b, event |-> e, children |-> kids]
      /\ Object(val, other, ref, k, kids) =
           [type |-> other, ref |-> ref, attr |-> a, style |-> b, event |-> e, children |-> kids]
  BY <1>1
<1> QED BY <1>2

LEMMA ObjectType ==
  ASSUME NEW val, NEW type, NEW ref, NEW k, NEW other, NEW kids
  PROVE  [Object(val, type, ref, k, kids) EXCEPT !.type = other]
           = Object(val, other, ref, k, kids)
<1> DEFINE a == Pairs(ItemsBy(val, "attr", k))
           b == Pairs(ItemsBy(val, "style", k))
           e == NonEmpty(Texts(ItemsBy(val, "event", k)))
<1>1. \A t, r : Object(val, t, r, k, kids) =
                [type |-> t, ref |-> r, attr |-> a, style |-> b, event |-> e, children |-> kids]
  BY DEF Object
<1> HIDE DEF a, b, e
<1>2. /\ Object(val, type, ref, k, kids) =
           [type |-> type, ref |-> ref, attr |-> a, style |-> b, event |-> e, children |-> kids]
      /\ Object(val, type, other, k, kids) =
           [type |-> type, ref |-> other, attr |-> a, style |-> b, event |-> e, children |-> kids]
      /\ Object(val, other, ref, k, kids) =
           [type |-> other, ref |-> ref, attr |-> a, style |-> b, event |-> e, children |-> kids]
  BY <1>1
<1> QED BY <1>2

LEMMA GrownRef ==
  ASSUME NEW untyped, NEW n, NEW val, NEW type, NEW ref, NEW k, NEW other
  PROVE  [Grown(untyped, n, val, type, ref, k) EXCEPT !.ref = other]
           = Grown(untyped, n, val, type, other, k)
BY ObjectRef DEF Grown

LEMMA GrownType ==
  ASSUME NEW untyped, NEW n, NEW val, NEW type, NEW ref, NEW k, NEW other
  PROVE  [Grown(untyped, n, val, type, ref, k) EXCEPT !.type = other]
           = Grown(untyped, n, val, other, ref, k)
BY ObjectType DEF Grown

-----------------------------------------------------------------------------
(* The first pass.                                                         *)

(* The render object after k entries, if the type was among them. *)
Begun(untyped, n, val, k, right) ==
  LET type == TextOf(val, "type")
      ref  == TextBy(val, "ref", k)
  IN  IF ~Seen(val, "type", k) THEN <<>>
      ELSE <<IF right THEN Grown(untyped, n, val, type, ref, k) ELSE CreateRender(type, ref)>>

FirstPass(untyped, n, val, k, here, s, right) ==
  /\ right \in BOOLEAN
  /\ State(s, here, TextBy(val, "ref", k), Begun(untyped, n, val, k, right), right)
  /\ right /\ ~Seen(val, "type", k) => \A key \in DOMAIN Shape : ~Seen(val, key, k)

LEMMA RefOfOne ==
  ASSUME NEW x, NEW text
  PROVE  /\ [i \in DOMAIN <<x>> |-> [(<<x>>)[i] EXCEPT !.ref = text]] = <<[x EXCEPT !.ref = text]>>
         /\ [i \in DOMAIN <<>> |-> [(<<>>)[i] EXCEPT !.ref = text]] = <<>>
OBVIOUS

(* What is known of the next entry. *)
Next1(n, val, k, here, past, key, v, next, f) ==
  /\ Node(val) /\ k \in 0..(Len(val.items) - 1)
  /\ key = val.items[k + 1].key /\ v = val.items[k + 1].val /\ next = here + 1
  /\ nextMapKeyUTF8(here) = key /\ key \in Strings
  /\ nextStringUTF8(next) = Text(v) /\ SkipValue(next) = past
  /\ Expected(key, next) <=> key \in DOMAIN Shape /\ v.tag = Shape[key]
  /\ TextsAt(next) = Texts(v.items)
  /\ v.tag = "map" => PairsAt(next) = Pairs(v.items)
  /\ IsArray(next) <=> v.tag = "array"
  /\ v.tag \in {"text", "null"} => past = next + 1
  /\ v.tag \in {"text", "null", "array", "map"}
  /\ Len(v.items) \in Nat /\ DOMAIN v.items = 1..Len(v.items)
  /\ Stands(n, v, next, past) /\ past <= next + f

LEMMA NextHere ==
  ASSUME tokens \in Seq(Toks), NEW n, NEW val, NEW at, NEW end, NEW place, NEW f,
         Laid(n, val, at, end, place, f), val.tag = "map",
         NEW k \in 0..(Len(val.items) - 1)
  PROVE  Next1(n, val, k, place[k], place[k + 1], val.items[k + 1].key, val.items[k + 1].val,
               place[k] + 1, f)
<1> DEFINE key == val.items[k + 1].key
           v == val.items[k + 1].val
           next == place[k] + 1
<1>1. key = val.items[k + 1].key /\ v = val.items[k + 1].val /\ next = place[k] + 1
  OBVIOUS
<1> HIDE DEF key, v, next
<1>2. Node(val)
  BY NodeLaid
<1>3. /\ nextMapKeyUTF8(place[k]) = key /\ key \in Strings
      /\ nextStringUTF8(next) = Text(v) /\ SkipValue(next) = place[k + 1]
      /\ Expected(key, next) <=> key \in DOMAIN Shape /\ v.tag = Shape[key]
      /\ TextsAt(next) = Texts(v.items)
      /\ v.tag = "map" => PairsAt(next) = Pairs(v.items)
      /\ IsArray(next) <=> v.tag = "array"
      /\ v.tag \in {"text", "null"} => place[k + 1] = next + 1
      /\ v.tag \in {"text", "null", "array", "map"}
      /\ Len(v.items) \in Nat /\ DOMAIN v.items = 1..Len(v.items)
      /\ Stands(n, v, next, place[k + 1]) /\ place[k + 1] <= next + f
  BY <1>1, EntryHere
<1>4. Next1(n, val, k, place[k], place[k + 1], key, v, next, f)
  BY <1>1, <1>2, <1>3 DEF Next1
<1> QED BY <1>1, <1>4

LEMMA FirstStep ==
  ASSUME tokens \in Seq(Toks), NEW f \in Nat, NEW n, NEW val, NEW k, NEW here, NEW past,
         NEW key, NEW v, NEW next, Next1(n, val, k, here, past, key, v, next, f),
         NEW inside, NEW untyped, RendersTo(inside, untyped, f),
         NEW again, again = FALSE, NEW s, NEW right,
         FirstPass(untyped, n, val, k, here, s, right)
  PROVE  \E r : FirstPass(untyped, n, val, k + 1, past, RenderEntry(inside, again, s), r)
<1> DEFINE ref == TextBy(val, "ref", k)
           render == Begun(untyped, n, val, k, right)
           type == TextOf(val, "type")
           t == RenderEntry(inside, again, s)
           grown == Grown(untyped, n, val, type, ref, k)
           typed == Seen(val, "type", k)
<1>1. /\ State(s, here, ref, render, right) /\ right \in BOOLEAN
      /\ right /\ ~typed => \A other \in DOMAIN Shape : ~Seen(val, other, k)
      /\ render = IF ~typed THEN <<>> ELSE <<IF right THEN grown ELSE CreateRender(type, ref)>>
  BY DEF FirstPass, Begun
<1>2. /\ Node(val) /\ k \in 0..(Len(val.items) - 1)
      /\ key = val.items[k + 1].key /\ v = val.items[k + 1].val
  BY DEF Next1
<1>3. /\ \A other : Seen(val, other, k + 1) <=> Seen(val, other, k) \/ other = key
      /\ ~Seen(val, key, k)
  BY <1>2, SeenMore
<1>4. /\ \A other : other # key => TextBy(val, other, k + 1) = TextBy(val, other, k)
      /\ TextBy(val, key, k + 1) = Text(v) /\ TextOf(val, key) = Text(v)
  BY <1>2, SeenNext
<1>5. Reading(inside, again, s, key, next, here, ref, render, right)
  BY <1>1 DEF Reading, Next1
<1>6. nextStringUTF8(next) = Text(v) /\ SkipValue(next) = past
  BY DEF Next1
<1>7. \A e, r : FirstPass(untyped, n, val, k + 1, past, e, r) <=>
        /\ r \in BOOLEAN
        /\ State(e, past, TextBy(val, "ref", k + 1),
                 IF ~Seen(val, "type", k + 1) THEN <<>>
                 ELSE <<IF r THEN Grown(untyped, n, val, type, TextBy(val, "ref", k + 1), k + 1)
                        ELSE CreateRender(type, TextBy(val, "ref", k + 1))>>, r)
        /\ r /\ ~Seen(val, "type", k + 1) => \A other \in DOMAIN Shape : ~Seen(val, other, k + 1)
  BY DEF FirstPass, Begun
<1> HIDE DEF ref, render, type, t, grown, typed
<1>s. ASSUME key \in DOMAIN Shape => v.tag # Shape[key]
      PROVE  \A ty, r : Grown(untyped, n, val, ty, r, k + 1) = Grown(untyped, n, val, ty, r, k)
  <2> TAKE ty, r
  <2> QED BY <1>2, <1>s, GrownStays
<1>8. CASE key = "ref"
  <2>1. State(t, past, Text(v), [i \in DOMAIN render |-> [render[i] EXCEPT !.ref = Text(v)]], right)
    <3>1. State(RenderEntry(inside, again, s), SkipValue(next), nextStringUTF8(next),
                [i \in DOMAIN render |-> [render[i] EXCEPT !.ref = nextStringUTF8(next)]], right)
      BY <1>5, <1>8, EntryRef
    <3> QED BY <1>6, <3>1 DEF t
  <2>2. /\ Seen(val, "type", k + 1) <=> typed
        /\ \A other \in DOMAIN Shape : Seen(val, other, k + 1) <=> Seen(val, other, k)
        /\ TextBy(val, "ref", k + 1) = Text(v)
    BY <1>3, <1>4, <1>8, ShapeKeys DEF typed
  <2>3. Grown(untyped, n, val, type, Text(v), k + 1) = Grown(untyped, n, val, type, Text(v), k)
    <3>1. key \notin DOMAIN Shape
      BY <1>8, ShapeKeys
    <3> QED BY <1>s, <3>1
  <2>4. [i \in DOMAIN render |-> [render[i] EXCEPT !.ref = Text(v)]]
          = IF ~typed THEN <<>>
            ELSE <<IF right THEN Grown(untyped, n, val, type, Text(v), k + 1)
                   ELSE CreateRender(type, Text(v))>>
    <3>1. CASE ~typed
      BY <1>1, <3>1, RefOfOne
    <3>2. ASSUME typed, NEW x, render = <<x>>
          PROVE  [i \in DOMAIN render |-> [render[i] EXCEPT !.ref = Text(v)]]
                   = <<[x EXCEPT !.ref = Text(v)]>>
      BY <3>2, RefOfOne
    <3>3. CASE typed /\ right
      <4>1. [grown EXCEPT !.ref = Text(v)] = Grown(untyped, n, val, type, Text(v), k)
        BY GrownRef DEF grown
      <4>2. render = <<grown>>
        BY <1>1, <3>3
      <4> QED BY <2>3, <3>2, <3>3, <4>1, <4>2
    <3>4. CASE typed /\ ~right
      <4>1. [CreateRender(type, ref) EXCEPT !.ref = Text(v)] = CreateRender(type, Text(v))
        BY CreateRef
      <4>2. render = <<CreateRender(type, ref)>>
        BY <1>1, <3>4
      <4> QED BY <3>2, <3>4, <4>1, <4>2
    <3> QED BY <3>1, <3>3, <3>4
  <2>5. FirstPass(untyped, n, val, k + 1, past, t, right)
    BY <1>1, <1>7, <2>1, <2>2, <2>4
  <2> QED BY <2>5 DEF t
<1>9. CASE key = "type"
  <2>1. State(t, past, ref, <<CreateRender(Text(v), ref)>>, right)
    <3>1. State(RenderEntry(inside, again, s), SkipValue(next), ref,
                <<CreateRender(nextStringUTF8(next), ref)>>, right)
      BY <1>5, <1>9, EntryType
    <3> QED BY <1>6, <3>1 DEF t
  <2>2. /\ ~typed /\ Seen(val, "type", k + 1) /\ type = Text(v)
        /\ \A other \in DOMAIN Shape : Seen(val, other, k + 1) <=> Seen(val, other, k)
        /\ TextBy(val, "ref", k + 1) = ref
    BY <1>3, <1>4, <1>9, ShapeKeys DEF typed, type, ref
  <2>3. ASSUME right
        PROVE  Grown(untyped, n, val, type, ref, k + 1) = CreateRender(type, ref)
    <3>1. \A other \in DOMAIN Shape : ~Seen(val, other, k + 1)
      BY <1>1, <2>2, <2>3
    <3> QED BY <1>2, <3>1, GrownStarts
  <2>4. FirstPass(untyped, n, val, k + 1, past, t, right)
    BY <1>1, <1>7, <2>1, <2>2, <2>3
  <2> QED BY <2>4 DEF t
<1>a. ASSUME key # "ref", key # "type"
      PROVE  /\ Seen(val, "type", k + 1) <=> typed
             /\ TextBy(val, "ref", k + 1) = ref
  BY <1>3, <1>4, <1>a DEF typed, ref
<1>b. ASSUME key \in DOMAIN Shape, Expected(key, next), render # <<>>, right
      PROVE  \E r : FirstPass(untyped, n, val, k + 1, past, t, r)
  <2> DEFINE new == Grown(untyped, n, val, type, ref, k + 1)
  <2>1. typed /\ render[1] = grown /\ v.tag = Shape[key]
    <3>1. typed /\ render = <<grown>>
      BY <1>1, <1>b
    <3> QED BY <1>b, <3>1 DEF Next1
  <2>2. key # "ref" /\ key # "type"
    BY <1>b, ShapeKeys
  <2>3. State(t, past, ref, <<new>>, right)
    <3>1. CASE key \in {"attr", "style", "event"}
      <4>1. State(t, past, ref, <<AddPart(render[1], key, next)>>, right)
        BY <1>5, <1>6, <1>b, <3>1, EntryPart DEF t
      <4>2. AddPart(grown, key, next) = new
        <5>1. PartRead(val, k, key, v, next)
          BY <2>1, <3>1 DEF Next1, PartRead
        <5> QED BY <5>1, GrownPart DEF grown
      <4> QED BY <2>1, <4>1, <4>2
    <3>2. CASE key = "children"
      <4> DEFINE read == RenderChildren(inside, render[1], next)[SizeAt(next)]
      <4>1. State(t, read.at, ref, <<read.render>>, right)
        BY <1>5, <1>b, <3>2, EntryChildren DEF t
      <4>2. v.tag = "array" /\ Stands(n, v, next, past) /\ past <= next + f
        BY <2>1, <3>2, ShapeKeys DEF Next1
      <4>3. /\ grown = Object(val, type, ref, k, <<>>)
            /\ new = Object(val, type, ref, k, Children(RenderTree(untyped)[n], v.items))
        <5>1. ChildrenRead(val, k, v)
          BY <1>2, <3>2, <4>2 DEF ChildrenRead
        <5> QED BY <5>1, GrownChildren DEF grown
      <4>4. RenderChildren(inside, Object(val, type, ref, k, <<>>), next)[SizeAt(next)] =
              [at |-> past,
               render |-> Object(val, type, ref, k, Children(RenderTree(untyped)[n], v.items))]
        BY <4>2, OldChildrenHere
      <4> HIDE DEF new
      <4>5. read = [at |-> past, render |-> new]
        BY <2>1, <4>3, <4>4
      <4> HIDE DEF read
      <4> QED BY <4>1, <4>5
    <3> QED BY <1>b, <3>1, <3>2, ShapeKeys
  <2>4. FirstPass(untyped, n, val, k + 1, past, t, right)
    BY <1>1, <1>7, <1>a, <1>b, <2>1, <2>2, <2>3
  <2> QED BY <2>4
<1>c. ASSUME key \in DOMAIN Shape, ~(Expected(key, next) /\ render # <<>> /\ right)
      PROVE  \E r : FirstPass(untyped, n, val, k + 1, past, t, r)
  <2>1. key # "ref" /\ key # "type"
    BY <1>c, ShapeKeys
  <2>2. CASE render # <<>> /\ right
    <3>1. State(t, past, ref, render, right) /\ typed
      BY <1>1, <1>5, <1>6, <1>c, <2>2, EntryWrongPart DEF t
    <3>2. v.tag # Shape[key]
      BY <1>c, <2>2 DEF Next1
    <3>3. Grown(untyped, n, val, type, ref, k + 1) = grown
      BY <1>s, <3>2 DEF grown
    <3>4. FirstPass(untyped, n, val, k + 1, past, t, right)
      BY <1>1, <1>7, <1>a, <2>1, <2>2, <3>1, <3>3
    <3> QED BY <3>4
  <2>3. CASE ~(render # <<>> /\ right)
    <3>1. State(t, past, ref, render, FALSE)
      <4>1. ASSUME NEW wrong, wrong = FALSE PROVE State(t, past, ref, render, wrong)
        <5>1. TooEarly(render, right, wrong)
          BY <2>3, <4>1 DEF TooEarly
        <5>2. State(RenderEntry(inside, again, s), SkipValue(next), ref, render, wrong)
          BY <1>5, <1>c, <5>1, EntryEarlyPart
        <5> QED BY <1>6, <5>2 DEF t
      <4> QED BY <4>1
    <3>2. render = IF ~typed THEN <<>> ELSE <<CreateRender(type, ref)>>
      BY <1>1, <2>3
    <3>3. FirstPass(untyped, n, val, k + 1, past, t, FALSE)
      BY <1>7, <1>a, <2>1, <3>1, <3>2
    <3> QED BY <3>3
  <2> QED BY <2>2, <2>3
<1>d. CASE key \notin DOMAIN Shape \cup {"ref", "type"}
  <2>1. State(t, past, ref, render, right)
    BY <1>5, <1>6, <1>d, EntryPast DEF t
  <2>2. Grown(untyped, n, val, type, ref, k + 1) = grown
    BY <1>d, <1>s DEF grown
  <2>3. \A other \in DOMAIN Shape : Seen(val, other, k + 1) <=> Seen(val, other, k)
    BY <1>3, <1>d
  <2>4. FirstPass(untyped, n, val, k + 1, past, t, right)
    BY <1>1, <1>7, <1>a, <1>d, <2>1, <2>2, <2>3
  <2> QED BY <2>4 DEF t
<1> QED BY <1>8, <1>9, <1>b, <1>c, <1>d DEF t

-----------------------------------------------------------------------------
(* The second pass, and both.                                              *)

SecondPass(untyped, n, val, k, here, s, right) ==
  /\ right \in BOOLEAN
  /\ State(s, here, TextOf(val, "ref"),
           <<Grown(untyped, n, val, TextOf(val, "type"), TextOf(val, "ref"), k)>>, right)

LEMMA SecondStep ==
  ASSUME tokens \in Seq(Toks), NEW f \in Nat, NEW n, NEW val, NEW k, NEW here, NEW past,
         NEW key, NEW v, NEW next, Next1(n, val, k, here, past, key, v, next, f),
         NEW inside, NEW untyped, RendersTo(inside, untyped, f),
         NEW again, again = TRUE, NEW s, NEW right,
         SecondPass(untyped, n, val, k, here, s, right)
  PROVE  SecondPass(untyped, n, val, k + 1, past, RenderEntry(inside, again, s), right)
<1> DEFINE ref == TextOf(val, "ref")
           type == TextOf(val, "type")
           grown == Grown(untyped, n, val, type, ref, k)
           new == Grown(untyped, n, val, type, ref, k + 1)
           render == <<grown>>
           t == RenderEntry(inside, again, s)
<1>1. State(s, here, ref, render, right) /\ right \in BOOLEAN /\ render[1] = grown
  BY DEF SecondPass
<1>2. /\ Node(val) /\ k \in 0..(Len(val.items) - 1)
      /\ key = val.items[k + 1].key /\ v = val.items[k + 1].val
      /\ nextStringUTF8(next) = Text(v) /\ SkipValue(next) = past
      /\ Expected(key, next) <=> key \in DOMAIN Shape /\ v.tag = Shape[key]
  BY DEF Next1
<1> SUFFICES State(t, past, ref, <<new>>, right)
  BY <1>1 DEF SecondPass
<1> HIDE DEF ref, type, grown, render, t
<1>3. Reading(inside, again, s, key, next, here, ref, render, right)
  BY <1>1 DEF Reading, Next1
<1>4. CASE ~Expected(key, next)
  <2>1. State(t, past, ref, render, right)
    BY <1>2, <1>3, <1>4, EntryPast DEF t
  <2>2. key \in DOMAIN Shape => v.tag # Shape[key]
    BY <1>2, <1>4
  <2>3. new = grown
    BY <1>2, <2>2, GrownStays DEF grown
  <2> HIDE DEF new
  <2> QED BY <2>1, <2>3 DEF render
<1>5. CASE Expected(key, next) /\ key # "children"
  <2>1. key \in {"attr", "style", "event"} /\ v.tag = Shape[key]
    BY <1>2, <1>5, ShapeKeys
  <2>2. State(t, past, ref, <<AddPart(render[1], key, next)>>, right)
    BY <1>2, <1>3, <1>5, <2>1, EntryPart DEF t
  <2>3. AddPart(grown, key, next) = new
    <3>1. PartRead(val, k, key, v, next)
      BY <2>1 DEF Next1, PartRead
    <3> QED BY <3>1, GrownPart DEF grown
  <2> HIDE DEF new
  <2> QED BY <1>1, <2>2, <2>3
<1>6. CASE Expected(key, next) /\ key = "children"
  <2> DEFINE read == RenderChildren(inside, render[1], next)[SizeAt(next)]
  <2>1. State(t, read.at, ref, <<read.render>>, right)
    BY <1>3, <1>6, EntryChildren DEF t
  <2>2. v.tag = "array" /\ Stands(n, v, next, past) /\ past <= next + f
    BY <1>2, <1>6, ShapeKeys DEF Next1
  <2>3. /\ grown = Object(val, type, ref, k, <<>>)
        /\ new = Object(val, type, ref, k, Children(RenderTree(untyped)[n], v.items))
    <3>1. ChildrenRead(val, k, v)
      BY <1>2, <1>6, <2>2 DEF ChildrenRead
    <3> QED BY <3>1, GrownChildren DEF grown
  <2>4. RenderChildren(inside, Object(val, type, ref, k, <<>>), next)[SizeAt(next)] =
          [at |-> past,
           render |-> Object(val, type, ref, k, Children(RenderTree(untyped)[n], v.items))]
    BY <2>2, OldChildrenHere
  <2> HIDE DEF new
  <2>5. read = [at |-> past, render |-> new]
    BY <1>1, <2>3, <2>4
  <2> HIDE DEF read
  <2> QED BY <2>1, <2>5
<1> QED BY <1>4, <1>5, <1>6

LEMMA FirstPasses ==
  ASSUME tokens \in Seq(Toks), NEW n, NEW val, NEW at, NEW end, NEW place, NEW f \in Nat,
         Laid(n, val, at, end, place, f), val.tag = "map",
         NEW inside, NEW untyped, RendersTo(inside, untyped, f),
         NEW again, again = FALSE, NEW start, NEW none, none = <<>>, NEW right, right = TRUE,
         State(start, at + 1, TextBy(val, "ref", 0), none, right)
  PROVE  \E r : FirstPass(untyped, n, val, Len(val.items), end,
                          RenderEntries(inside, again, start)[Len(val.items)], r)
<1> DEFINE m == Len(val.items)
           loop == RenderEntries(inside, again, start)
           P == {j \in Nat : j <= m =>
                   \E r : FirstPass(untyped, n, val, j, place[j], loop[j], r)}
<1>0. m \in Nat /\ place[0] = at + 1 /\ place[m] = end /\ Node(val)
  BY StandsTypes, NodeLaid DEF Laid, Places
<1>r. /\ loop[0] = start
      /\ \A j \in Nat : loop[j + 1] = RenderEntry(inside, again, loop[j])
  <2>1. ASSUME NEW j \in Nat PROVE loop[j + 1] = RenderEntry(inside, again, loop[j])
    BY RenderEntriesStep
  <2>2. loop[0] = start
    BY RenderEntriesStart
  <2> HIDE DEF loop
  <2> QED BY <2>1, <2>2
<1> HIDE DEF loop
<1>1. 0 \in P
  <2>1. \A key : ~Seen(val, key, 0)
    BY <1>0, SeenAll
  <2>2. Begun(untyped, n, val, 0, right) = none
    BY <2>1 DEF Begun
  <2>3. FirstPass(untyped, n, val, 0, place[0], loop[0], right)
    BY <1>0, <1>r, <2>1, <2>2 DEF FirstPass
  <2> QED BY <2>3
<1>2. ASSUME NEW j \in Nat, j \in P PROVE j + 1 \in P
  <2> SUFFICES ASSUME j + 1 <= m
               PROVE  \E r : FirstPass(untyped, n, val, j + 1, place[j + 1], loop[j + 1], r)
    OBVIOUS
  <2>1. j \in 0..(m - 1) /\ j <= m
    BY <1>0
  <2>2. PICK r : FirstPass(untyped, n, val, j, place[j], loop[j], r)
    BY <1>2, <2>1
  <2> HIDE DEF P
  <2>3. Next1(n, val, j, place[j], place[j + 1], val.items[j + 1].key, val.items[j + 1].val,
              place[j] + 1, f)
    BY <2>1, NextHere
  <2>4. \E q : FirstPass(untyped, n, val, j + 1, place[j + 1],
                         RenderEntry(inside, again, loop[j]), q)
    BY <2>2, <2>3, FirstStep
  <2>5. loop[j + 1] = RenderEntry(inside, again, loop[j])
    BY <1>r
  <2> QED BY <2>4, <2>5
<1> HIDE DEF P
<1>3. Nat \subseteq P
  BY <1>1, <1>2, Counting
<1>4. m \in P /\ m <= m
  BY <1>0, <1>3
<1> QED BY <1>0, <1>4 DEF P, loop

LEMMA SecondPasses ==
  ASSUME tokens \in Seq(Toks), NEW n, NEW val, NEW at, NEW end, NEW place, NEW f \in Nat,
         Laid(n, val, at, end, place, f), val.tag = "map",
         NEW inside, NEW untyped, RendersTo(inside, untyped, f),
         NEW again, again = TRUE, NEW start, NEW right,
         SecondPass(untyped, n, val, 0, at + 1, start, right)
  PROVE  SecondPass(untyped, n, val, Len(val.items), end,
                    RenderEntries(inside, again, start)[Len(val.items)], right)
<1> DEFINE m == Len(val.items)
           loop == RenderEntries(inside, again, start)
           P == {j \in Nat : j <= m =>
                   SecondPass(untyped, n, val, j, place[j], loop[j], right)}
<1>0. m \in Nat /\ place[0] = at + 1 /\ place[m] = end /\ Node(val)
  BY StandsTypes, NodeLaid DEF Laid, Places
<1>r. /\ loop[0] = start
      /\ \A j \in Nat : loop[j + 1] = RenderEntry(inside, again, loop[j])
  <2>1. ASSUME NEW j \in Nat PROVE loop[j + 1] = RenderEntry(inside, again, loop[j])
    BY RenderEntriesStep
  <2>2. loop[0] = start
    BY RenderEntriesStart
  <2> HIDE DEF loop
  <2> QED BY <2>1, <2>2
<1> HIDE DEF loop
<1>1. 0 \in P
  BY <1>0, <1>r
<1>2. ASSUME NEW j \in Nat, j \in P PROVE j + 1 \in P
  <2> SUFFICES ASSUME j + 1 <= m
               PROVE  SecondPass(untyped, n, val, j + 1, place[j + 1], loop[j + 1], right)
    OBVIOUS
  <2>1. j \in 0..(m - 1) /\ j <= m
    BY <1>0
  <2>2. SecondPass(untyped, n, val, j, place[j], loop[j], right)
    BY <1>2, <2>1
  <2> HIDE DEF P
  <2>3. Next1(n, val, j, place[j], place[j + 1], val.items[j + 1].key, val.items[j + 1].val,
              place[j] + 1, f)
    BY <2>1, NextHere
  <2>4. SecondPass(untyped, n, val, j + 1, place[j + 1], RenderEntry(inside, again, loop[j]), right)
    BY <2>2, <2>3, SecondStep
  <2>5. loop[j + 1] = RenderEntry(inside, again, loop[j])
    BY <1>r
  <2> QED BY <2>4, <2>5
<1> HIDE DEF P
<1>3. Nat \subseteq P
  BY <1>1, <1>2, Counting
<1>4. m \in P /\ m <= m
  BY <1>0, <1>3
<1> QED BY <1>0, <1>4 DEF P, loop

LEMMA FirstEnds ==
  ASSUME NEW untyped, NEW n, NEW val, Node(val), NEW end, NEW s, NEW right,
         FirstPass(untyped, n, val, Len(val.items), end, s, right)
  PROVE  /\ right \in BOOLEAN
         /\ State(s, end, TextOf(val, "ref"),
                  IF ~Has(val, "type") THEN <<>>
                  ELSE <<IF right
                         THEN Grown(untyped, n, val, TextOf(val, "type"), TextOf(val, "ref"),
                                    Len(val.items))
                         ELSE CreateRender(TextOf(val, "type"), TextOf(val, "ref"))>>, right)
<1>1. /\ TextBy(val, "ref", Len(val.items)) = TextOf(val, "ref")
      /\ Seen(val, "type", Len(val.items)) <=> Has(val, "type")
  BY SeenAll
<1> QED BY <1>1 DEF FirstPass, Begun

(* What a reader returns for a value of level n + 1. *)
Returned(untyped, n, val, end, read) ==
  read = [at |-> end,
          render |-> IF val.tag = "map" THEN RenderTree(untyped)[n + 1][val] ELSE <<>>]

LEMMA OldReads ==
  ASSUME tokens \in Seq(Toks), NEW n, NEW val, NEW at, NEW end, NEW place, NEW f \in Nat,
         Laid(n, val, at, end, place, f),
         NEW inside, NEW untyped, untyped = FALSE, RendersTo(inside, untyped, f)
  PROVE  Returned(untyped, n, val, end, Rendered(inside, at))
<1> SUFFICES Rendered(inside, at) =
               [at |-> end,
                render |-> IF val.tag = "map" THEN RenderTree(untyped)[n + 1][val] ELSE <<>>]
  BY DEF Returned
<1> DEFINE blank == ""
           start == [at |-> at + 1, ref |-> blank, render |-> <<>>, right |-> TRUE]
           once == RenderEntries(inside, FALSE, start)[SizeAt(at)]
           back == [once EXCEPT !.at = at + 1]
           twice == RenderEntries(inside, TRUE, back)[SizeAt(at)]
           last == IF ~once.right /\ once.render # <<>> THEN twice ELSE once
           m == Len(val.items)
           type == TextOf(val, "type")
           ref == TextOf(val, "ref")
<1>1. Rendered(inside, at) = IF IsMap(at) THEN [at |-> last.at, render |-> last.render]
                             ELSE [at |-> SkipValue(at), render |-> <<>>]
  BY Zenon DEF Rendered
<1>2. /\ n \in Nat /\ Stands(n + 1, val, at, end) /\ val \in Nested[n + 1]
      /\ SizeAt(at) = m /\ SkipValue(at) = end
      /\ IsMap(at) <=> val.tag = "map"
  BY StandsTypes, Here DEF Laid
<1>3. CASE val.tag # "map"
  <2> HIDE DEF last
  <2> QED BY <1>1, <1>2, <1>3
<1>4. CASE val.tag = "map"
  <2>1. Node(val)
    BY <1>4, NodeLaid
  <2>2. TextBy(val, "ref", 0) = blank
    BY <2>1, SeenAll, Zenon DEF TextBy
  <2> HIDE DEF blank
  <2>3. State(start, at + 1, TextBy(val, "ref", 0), <<>>, TRUE)
    BY <2>2 DEF State
  <2> HIDE DEF start
  <2>4. PICK right : FirstPass(untyped, n, val, m, end, once, right)
    <3>1. ASSUME NEW again, again = FALSE, NEW none, none = <<>>, NEW r, r = TRUE,
                 State(start, at + 1, TextBy(val, "ref", 0), none, r)
          PROVE  \E q : FirstPass(untyped, n, val, m, end, RenderEntries(inside, again, start)[m], q)
      BY <1>4, <3>1, FirstPasses
    <3>2. \E q : FirstPass(untyped, n, val, m, end, RenderEntries(inside, FALSE, start)[m], q)
      BY <2>3, <3>1
    <3> QED BY <1>2, <3>2
  <2> HIDE DEF once
  <2>6. /\ right \in BOOLEAN
        /\ State(once, end, ref,
                 IF ~Has(val, "type") THEN <<>>
                 ELSE <<IF right THEN Grown(untyped, n, val, type, ref, m)
                        ELSE CreateRender(type, ref)>>, right)
    BY <2>1, <2>4, FirstEnds
  <2>7. RenderTree(untyped)[n + 1][val] =
          IF Has(val, "type") THEN <<Grown(untyped, n, val, type, ref, m)>> ELSE <<>>
    <3>1. RenderTree(untyped)[n + 1][val] = TreeOf(RenderTree(untyped)[n], untyped, val)
      BY <1>2, TreeIs
    <3>2. Grown(untyped, n, val, type, ref, m) =
            [Bare(val) EXCEPT !.children = Children(RenderTree(untyped)[n], ItemsOf(val, "children"))]
      BY <2>1, GrownEnds
    <3> QED BY <3>1, <3>2 DEF TreeOf
  <2> HIDE DEF type, ref, m
  <2>8. CASE right \/ ~Has(val, "type")
    <3>1. once.at = end /\ once.render = RenderTree(untyped)[n + 1][val]
          /\ (once.right \/ once.render = <<>>)
      BY <2>6, <2>7, <2>8 DEF State
    <3>2. last = once
      BY <3>1
    <3> HIDE DEF last
    <3> QED BY <1>1, <1>2, <1>4, <3>1, <3>2
  <2>9. CASE ~right /\ Has(val, "type")
    <3>1. State(back, at + 1, ref, <<CreateRender(type, ref)>>, right) /\ last = twice
      <4> DEFINE x == <<CreateRender(type, ref)>>
      <4>1. x # <<>>
        OBVIOUS
      <4>2. once = [at |-> end, ref |-> ref, render |-> x, right |-> right]
        BY <2>6, <2>9 DEF State
      <4> HIDE DEF x, twice
      <4>3. State(back, at + 1, ref, x, right) /\ last = twice
        BY <2>9, <4>1, <4>2 DEF State
      <4> QED BY <4>3 DEF x
    <3> HIDE DEF back, last
    <3>2. SecondPass(untyped, n, val, 0, at + 1, back, right)
      <4>1. Grown(untyped, n, val, type, ref, 0) = CreateRender(type, ref)
        BY <2>1, SeenAll, GrownStarts
      <4> QED BY <2>6, <3>1, <4>1 DEF SecondPass, type, ref
    <3>3. SecondPass(untyped, n, val, m, end, twice, right)
      <4>1. ASSUME NEW again, again = TRUE
            PROVE  SecondPass(untyped, n, val, m, end, RenderEntries(inside, again, back)[m], right)
        BY <1>4, <3>2, <4>1, SecondPasses DEF m
      <4>2. SecondPass(untyped, n, val, m, end, RenderEntries(inside, TRUE, back)[m], right)
        BY <4>1
      <4> QED BY <1>2, <4>2
    <3> HIDE DEF twice
    <3>4. twice.at = end /\ twice.render = RenderTree(untyped)[n + 1][val]
      BY <2>7, <2>9, <3>3 DEF SecondPass, State, type, ref
    <3> QED BY <1>1, <1>2, <1>4, <3>1, <3>4
  <2> QED BY <2>6, <2>8, <2>9
<1> QED BY <1>3, <1>4

LEMMA OldReadsThere ==
  ASSUME tokens \in Seq(Toks), NEW untyped, untyped = FALSE, NEW d \in Nat
  PROVE  RendersTo(Render[d], untyped, d)
<1> DEFINE P == {f \in Nat : RendersTo(Render[f], untyped, f)}
<1>1. 0 \in P
  <2>1. ASSUME NEW n, NEW val, NEW at, NEW end, Stands(n, val, at, end), end <= at + 0
        PROVE  FALSE
    BY <2>1 DEF Stands
  <2> QED BY <2>1 DEF RendersTo
<1>2. ASSUME NEW f \in Nat, f \in P PROVE f + 1 \in P
  <2>1. ASSUME NEW m, NEW val, NEW at, NEW end, Stands(m, val, at, end),
               end <= at + (f + 1)
        PROVE  Render[f + 1][at] =
                 [at |-> end, render |-> IF val.tag = "map" THEN RenderTree(untyped)[m][val] ELSE <<>>]
    <3>1. PICK n, place : m = n + 1 /\ Laid(n, val, at, end, place, f)
      BY <2>1, LaidExists
    <3>2. RendersTo(Render[f], untyped, f)
      BY <1>2
    <3> HIDE DEF P
    <3>3. Render[f + 1][at] = Rendered(Render[f], at)
      <4>1. at \in Nat
        BY <2>1 DEF Stands
      <4> QED BY <4>1, RenderRuns
    <3>4. Rendered(Render[f], at) =
            [at |-> end,
             render |-> IF val.tag = "map" THEN RenderTree(untyped)[n + 1][val] ELSE <<>>]
      <4>1. ASSUME NEW inside, RendersTo(inside, untyped, f)
            PROVE  Returned(untyped, n, val, end, Rendered(inside, at))
        BY <3>1, <4>1, OldReads
      <4> QED BY <3>2, <4>1 DEF Returned
    <3> QED BY <3>1, <3>3, <3>4
  <2> QED BY <2>1 DEF RendersTo
<1> HIDE DEF P
<1>3. Nat \subseteq P
  BY <1>1, <1>2, Counting
<1> QED BY <1>3 DEF P

-----------------------------------------------------------------------------
(* parserWson2RenderObjectNew.                                             *)

NewState(s, at, render) == s = [at |-> at, render |-> render]

NewReading(s, key, next, at, render) ==
  NewState(s, at, render) /\ nextMapKeyUTF8(at) = key /\ next = at + 1

LEMMA NewEntryRef ==
  ASSUME NEW inside, NEW s, NEW key, NEW next, NEW at, NEW render,
         NewReading(s, key, next, at, render), key = "ref"
  PROVE  NewState(NewEntry(inside, s), SkipValue(next),
                  [render EXCEPT !.ref = nextStringUTF8(next)])
BY DEF NewReading, NewState, NewEntry

LEMMA NewEntryType ==
  ASSUME NEW inside, NEW s, NEW key, NEW next, NEW at, NEW render,
         NewReading(s, key, next, at, render), key = "type"
  PROVE  NewState(NewEntry(inside, s), SkipValue(next),
                  [render EXCEPT !.type = nextStringUTF8(next)])
BY DEF NewReading, NewState, NewEntry

LEMMA NewEntryPairs ==
  ASSUME NEW inside, NEW s, NEW key, NEW next, NEW at, NEW render,
         NewReading(s, key, next, at, render), key \in {"attr", "style"}, Expected(key, next)
  PROVE  NewState(NewEntry(inside, s), SkipValue(next),
                  [render EXCEPT ![key] = InsertPairs(@, PairsAt(next))])
BY DEF NewReading, NewState, NewEntry

LEMMA NewEntryEvent ==
  ASSUME NEW inside, NEW s, NEW key, NEW next, NEW at, NEW render,
         NewReading(s, key, next, at, render), key = "event", Expected(key, next)
  PROVE  NewState(NewEntry(inside, s), SkipValue(next), AddPart(render, key, next))
BY DEF NewReading, NewState, NewEntry

LEMMA NewEntryChildren ==
  ASSUME NEW inside, NEW s, NEW key, NEW next, NEW at, NEW render,
         NewReading(s, key, next, at, render), key = "children", Expected(key, next)
  PROVE  LET read == NewChildren(inside, render.children, next)[SizeAt(next)]
         IN  NewState(NewEntry(inside, s), read.at, [render EXCEPT !.children = read.children])
BY DEF NewReading, NewState, NewEntry

LEMMA NewEntryPast ==
  ASSUME NEW inside, NEW s, NEW key, NEW next, NEW at, NEW render,
         NewReading(s, key, next, at, render), key \notin {"ref", "type"},
         ~Expected(key, next)
  PROVE  NewState(NewEntry(inside, s), SkipValue(next), render)
BY DEF NewReading, NewState, NewEntry

LEMMA ObjectChildren ==
  ASSUME NEW val, NEW type, NEW ref, NEW k, NEW kids, NEW other
  PROVE  /\ Object(val, type, ref, k, kids).children = kids
         /\ [Object(val, type, ref, k, kids) EXCEPT !.children = other]
              = Object(val, type, ref, k, other)
<1> DEFINE a == Pairs(ItemsBy(val, "attr", k))
           b == Pairs(ItemsBy(val, "style", k))
           e == NonEmpty(Texts(ItemsBy(val, "event", k)))
<1>1. \A c : Object(val, type, ref, k, c) =
             [type |-> type, ref |-> ref, attr |-> a, style |-> b, event |-> e, children |-> c]
  BY DEF Object
<1> HIDE DEF a, b, e
<1>2. /\ Object(val, type, ref, k, kids) =
           [type |-> type, ref |-> ref, attr |-> a, style |-> b, event |-> e, children |-> kids]
      /\ Object(val, type, ref, k, other) =
           [type |-> type, ref |-> ref, attr |-> a, style |-> b, event |-> e, children |-> other]
  BY <1>1
<1> QED BY <1>2

(* After k entries: the texts that were seen, what has grown of the rest. *)
NewPass(untyped, n, val, k, here, s) ==
  NewState(s, here, Grown(untyped, n, val, TextBy(val, "type", k), TextBy(val, "ref", k), k))

LEMMA NewStep ==
  ASSUME tokens \in Seq(Toks), NEW f \in Nat, NEW n, NEW val, NEW k, NEW here, NEW past,
         NEW key, NEW v, NEW next, Next1(n, val, k, here, past, key, v, next, f),
         NEW inside, NEW untyped, RendersTo(inside, untyped, f),
         NEW s, NewPass(untyped, n, val, k, here, s)
  PROVE  NewPass(untyped, n, val, k + 1, past, NewEntry(inside, s))
<1> DEFINE ref == TextBy(val, "ref", k)
           type == TextBy(val, "type", k)
           ref1 == TextBy(val, "ref", k + 1)
           type1 == TextBy(val, "type", k + 1)
           grown == Grown(untyped, n, val, type, ref, k)
           new == Grown(untyped, n, val, type1, ref1, k + 1)
           t == NewEntry(inside, s)
<1>1. /\ Node(val) /\ k \in 0..(Len(val.items) - 1)
      /\ key = val.items[k + 1].key /\ v = val.items[k + 1].val
      /\ nextStringUTF8(next) = Text(v) /\ SkipValue(next) = past
      /\ Expected(key, next) <=> key \in DOMAIN Shape /\ v.tag = Shape[key]
  BY DEF Next1
<1>2. NewReading(s, key, next, here, grown)
  BY DEF NewPass, NewReading, Next1
<1>3. /\ \A other : other # key => TextBy(val, other, k + 1) = TextBy(val, other, k)
      /\ TextBy(val, key, k + 1) = Text(v)
  BY <1>1, SeenNext
<1>4. /\ key # "ref" => ref1 = ref
      /\ key # "type" => type1 = type
      /\ key = "ref" => ref1 = Text(v)
      /\ key = "type" => type1 = Text(v)
  BY <1>3
<1>5. ASSUME ~Expected(key, next), NEW ty, NEW r
      PROVE  Grown(untyped, n, val, ty, r, k + 1) = Grown(untyped, n, val, ty, r, k)
  <2>1. key \in DOMAIN Shape => v.tag # Shape[key]
    BY <1>1, <1>5
  <2> QED BY <1>1, <2>1, GrownStays
<1> SUFFICES NewState(t, past, new)
  BY DEF NewPass
<1> HIDE DEF ref, type, ref1, type1, t
<1>6. CASE key = "ref"
  <2>1. ~Expected(key, next) /\ ref1 = Text(v) /\ type1 = type
    BY <1>4, <1>6, ShapeKeys DEF Expected
  <2>2. NewState(t, past, [grown EXCEPT !.ref = ref1])
    <3> HIDE DEF grown
    <3>1. NewState(t, SkipValue(next), [grown EXCEPT !.ref = nextStringUTF8(next)])
      BY <1>2, <1>6, NewEntryRef DEF t
    <3> QED BY <1>1, <2>1, <3>1
  <2>3. [grown EXCEPT !.ref = ref1] = Grown(untyped, n, val, type, ref1, k)
    BY GrownRef
  <2>4. new = Grown(untyped, n, val, type, ref1, k)
    BY <1>5, <2>1
  <2> HIDE DEF grown, new
  <2> QED BY <2>2, <2>3, <2>4
<1>7. CASE key = "type"
  <2>1. ~Expected(key, next) /\ type1 = Text(v) /\ ref1 = ref
    BY <1>4, <1>7, ShapeKeys DEF Expected
  <2>2. NewState(t, past, [grown EXCEPT !.type = type1])
    <3> HIDE DEF grown
    <3>1. NewState(t, SkipValue(next), [grown EXCEPT !.type = nextStringUTF8(next)])
      BY <1>2, <1>7, NewEntryType DEF t
    <3> QED BY <1>1, <2>1, <3>1
  <2>3. [grown EXCEPT !.type = type1] = Grown(untyped, n, val, type1, ref, k)
    BY GrownType
  <2>4. new = Grown(untyped, n, val, type1, ref, k)
    BY <1>5, <2>1
  <2> HIDE DEF grown, new
  <2> QED BY <2>2, <2>3, <2>4
<1>8. CASE key \notin {"ref", "type"} /\ ~Expected(key, next)
  <2>1. new = grown
    BY <1>4, <1>5, <1>8
  <2> HIDE DEF grown, new
  <2>2. NewState(t, SkipValue(next), grown)
    BY <1>2, <1>8, NewEntryPast DEF t
  <2> QED BY <1>1, <2>1, <2>2
<1>9. ASSUME Expected(key, next)
      PROVE  key \in {"attr", "style", "event", "children"} /\ v.tag = Shape[key]
             /\ type1 = type /\ ref1 = ref
  BY <1>1, <1>4, <1>9, ShapeKeys
<1>10. CASE key \in {"attr", "style", "event"} /\ Expected(key, next)
  <2>1. PartRead(val, k, key, v, next)
    BY <1>9, <1>10 DEF Next1, PartRead
  <2>2. CASE key # "event"
    <3>1. key \in {"attr", "style"}
      BY <1>10, <2>2
    <3>2. [grown EXCEPT ![key] = InsertPairs(@, PairsAt(next))]
            = Grown(untyped, n, val, type, ref, k + 1)
      BY <2>1, <3>1, GrownPairs
    <3>3. new = Grown(untyped, n, val, type, ref, k + 1)
      BY <1>9, <1>10
    <3> HIDE DEF grown, new
    <3>4. NewState(t, SkipValue(next), [grown EXCEPT ![key] = InsertPairs(@, PairsAt(next))])
      BY <1>2, <1>10, <3>1, NewEntryPairs DEF t
    <3> QED BY <1>1, <3>2, <3>3, <3>4
  <2>3. CASE key = "event"
    <3>1. AddPart(grown, key, next) = Grown(untyped, n, val, type, ref, k + 1)
      BY <2>1, GrownPart
    <3>2. new = Grown(untyped, n, val, type, ref, k + 1)
      BY <1>9, <1>10
    <3> HIDE DEF grown, new
    <3>3. NewState(t, SkipValue(next), AddPart(grown, key, next))
      BY <1>2, <1>10, <2>3, NewEntryEvent DEF t
    <3> QED BY <1>1, <3>1, <3>2, <3>3
  <2> QED BY <2>2, <2>3
<1>11. CASE key = "children" /\ Expected(key, next)
  <2> DEFINE kids == Children(RenderTree(untyped)[n], v.items)
  <2>1. v.tag = "array" /\ Stands(n, v, next, past) /\ past <= next + f
    BY <1>9, <1>11, ShapeKeys DEF Next1
  <2>2. NewChildren(inside, <<>>, next)[SizeAt(next)] = [at |-> past, children |-> kids]
    BY <2>1, NewChildrenHere
  <2>3. /\ grown = Object(val, type, ref, k, <<>>)
        /\ Grown(untyped, n, val, type, ref, k + 1) = Object(val, type, ref, k, kids)
    <3>1. ChildrenRead(val, k, v)
      BY <1>1, <1>11, <2>1 DEF ChildrenRead
    <3> QED BY <3>1, GrownChildren
  <2> HIDE DEF kids
  <2>4. /\ Object(val, type, ref, k, <<>>).children = <<>>
        /\ [Object(val, type, ref, k, <<>>) EXCEPT !.children = kids]
             = Object(val, type, ref, k, kids)
    BY ObjectChildren
  <2>5. new = Grown(untyped, n, val, type, ref, k + 1)
    BY <1>9, <1>11
  <2> HIDE DEF grown, new
  <2> DEFINE none == grown.children
             read == NewChildren(inside, none, next)[SizeAt(next)]
  <2>6. NewState(t, read.at, [grown EXCEPT !.children = read.children])
    BY <1>2, <1>11, NewEntryChildren DEF t
  <2>7. none = <<>>
    BY <2>3, <2>4
  <2>8. read = [at |-> past, children |-> kids]
    BY <2>2, <2>7
  <2>9. [grown EXCEPT !.children = kids] = Object(val, type, ref, k, kids)
    BY <2>3, <2>4
  <2> HIDE DEF read
  <2> QED BY <2>3, <2>5, <2>6, <2>8, <2>9
<1> QED BY <1>6, <1>7, <1>8, <1>9, <1>10, <1>11

LEMMA NewPasses ==
  ASSUME tokens \in Seq(Toks), NEW n, NEW val, NEW at, NEW end, NEW place, NEW f \in Nat,
         Laid(n, val, at, end, place, f), val.tag = "map",
         NEW inside, NEW untyped, RendersTo(inside, untyped, f),
         NEW start, NewPass(untyped, n, val, 0, at + 1, start)
  PROVE  NewPass(untyped, n, val, Len(val.items), end,
                 NewEntries(inside, start)[Len(val.items)])
<1> DEFINE m == Len(val.items)
           loop == NewEntries(inside, start)
           P == {j \in Nat : j <= m => NewPass(untyped, n, val, j, place[j], loop[j])}
<1>0. m \in Nat /\ place[0] = at + 1 /\ place[m] = end /\ Node(val)
  BY StandsTypes, NodeLaid DEF Laid, Places
<1>r. /\ loop[0] = start
      /\ \A j \in Nat : loop[j + 1] = NewEntry(inside, loop[j])
  <2>1. ASSUME NEW j \in Nat PROVE loop[j + 1] = NewEntry(inside, loop[j])
    BY NewEntriesStep
  <2>2. loop[0] = start
    BY NewEntriesStart
  <2> HIDE DEF loop
  <2> QED BY <2>1, <2>2
<1> HIDE DEF loop
<1>1. 0 \in P
  BY <1>0, <1>r
<1>2. ASSUME NEW j \in Nat, j \in P PROVE j + 1 \in P
  <2> SUFFICES ASSUME j + 1 <= m
               PROVE  NewPass(untyped, n, val, j + 1, place[j + 1], loop[j + 1])
    OBVIOUS
  <2>1. j \in 0..(m - 1) /\ j <= m
    BY <1>0
  <2>2. NewPass(untyped, n, val, j, place[j], loop[j])
    BY <1>2, <2>1
  <2> HIDE DEF P
  <2>3. Next1(n, val, j, place[j], place[j + 1], val.items[j + 1].key, val.items[j + 1].val,
              place[j] + 1, f)
    BY <2>1, NextHere
  <2>4. NewPass(untyped, n, val, j + 1, place[j + 1], NewEntry(inside, loop[j]))
    BY <2>2, <2>3, NewStep
  <2>5. loop[j + 1] = NewEntry(inside, loop[j])
    BY <1>r
  <2> QED BY <2>4, <2>5
<1> HIDE DEF P
<1>3. Nat \subseteq P
  BY <1>1, <1>2, Counting
<1>4. m \in P /\ m <= m
  BY <1>0, <1>3
<1> QED BY <1>0, <1>4 DEF P, loop

LEMMA NewReads ==
  ASSUME tokens \in Seq(Toks), NEW n, NEW val, NEW at, NEW end, NEW place, NEW f \in Nat,
         Laid(n, val, at, end, place, f),
         NEW inside, NEW untyped, untyped = TRUE, RendersTo(inside, untyped, f)
  PROVE  Returned(untyped, n, val, end, RenderedNew(inside, at))
<1> SUFFICES RenderedNew(inside, at) =
               [at |-> end,
                render |-> IF val.tag = "map" THEN RenderTree(untyped)[n + 1][val] ELSE <<>>]
  BY DEF Returned
<1> DEFINE blank == ""
           start == [at |-> at + 1, render |-> CreateRender(blank, blank)]
           last == NewEntries(inside, start)[SizeAt(at)]
           m == Len(val.items)
           type == TextOf(val, "type")
           ref == TextOf(val, "ref")
<1>1. RenderedNew(inside, at) = IF IsMap(at) THEN [at |-> last.at, render |-> <<last.render>>]
                                ELSE [at |-> SkipValue(at), render |-> <<>>]
  BY Zenon DEF RenderedNew
<1>2. /\ n \in Nat /\ Stands(n + 1, val, at, end) /\ val \in Nested[n + 1]
      /\ SizeAt(at) = m /\ SkipValue(at) = end
      /\ IsMap(at) <=> val.tag = "map"
  BY StandsTypes, Here DEF Laid
<1>3. CASE val.tag # "map"
  <2> HIDE DEF last
  <2> QED BY <1>1, <1>2, <1>3
<1>4. CASE val.tag = "map"
  <2>1. Node(val)
    BY <1>4, NodeLaid
  <2>2. TextBy(val, "ref", 0) = blank /\ TextBy(val, "type", 0) = blank
    BY <2>1, SeenAll, Zenon DEF TextBy
  <2> HIDE DEF blank
  <2>3. NewPass(untyped, n, val, 0, at + 1, start)
    <3>1. Grown(untyped, n, val, blank, blank, 0) = CreateRender(blank, blank)
      BY <2>1, SeenAll, GrownStarts
    <3> QED BY <2>2, <3>1 DEF NewPass, NewState
  <2> HIDE DEF start
  <2>4. NewPass(untyped, n, val, m, end, last)
    <3>1. NewPass(untyped, n, val, m, end, NewEntries(inside, start)[m])
      BY <1>4, <2>3, NewPasses
    <3> QED BY <1>2, <3>1
  <2> HIDE DEF last
  <2>5. TextBy(val, "ref", m) = ref /\ TextBy(val, "type", m) = type
    BY <2>1, SeenAll
  <2>6. RenderTree(untyped)[n + 1][val] = <<Grown(untyped, n, val, type, ref, m)>>
    <3>1. RenderTree(untyped)[n + 1][val] = TreeOf(RenderTree(untyped)[n], untyped, val)
      BY <1>2, TreeIs
    <3>2. Grown(untyped, n, val, type, ref, m) =
            [Bare(val) EXCEPT !.children = Children(RenderTree(untyped)[n], ItemsOf(val, "children"))]
      BY <2>1, GrownEnds
    <3> QED BY <3>1, <3>2 DEF TreeOf
  <2>7. last.at = end /\ last.render = Grown(untyped, n, val, type, ref, m)
    BY <2>4, <2>5 DEF NewPass, NewState
  <2> HIDE DEF type, ref, m
  <2> QED BY <1>1, <1>2, <1>4, <2>6, <2>7
<1> QED BY <1>3, <1>4

LEMMA NewReadsThere ==
  ASSUME tokens \in Seq(Toks), NEW untyped, untyped = TRUE, NEW d \in Nat
  PROVE  RendersTo(RenderNew[d], untyped, d)
<1> DEFINE P == {f \in Nat : RendersTo(RenderNew[f], untyped, f)}
<1>1. 0 \in P
  <2>1. ASSUME NEW n, NEW val, NEW at, NEW end, Stands(n, val, at, end), end <= at + 0
        PROVE  FALSE
    BY <2>1 DEF Stands
  <2> QED BY <2>1 DEF RendersTo
<1>2. ASSUME NEW f \in Nat, f \in P PROVE f + 1 \in P
  <2>1. ASSUME NEW m, NEW val, NEW at, NEW end, Stands(m, val, at, end),
               end <= at + (f + 1)
        PROVE  RenderNew[f + 1][at] =
                 [at |-> end, render |-> IF val.tag = "map" THEN RenderTree(untyped)[m][val] ELSE <<>>]
    <3>1. PICK n, place : m = n + 1 /\ Laid(n, val, at, end, place, f)
      BY <2>1, LaidExists
    <3>2. RendersTo(RenderNew[f], untyped, f)
      BY <1>2
    <3> HIDE DEF P
    <3>3. RenderNew[f + 1][at] = RenderedNew(RenderNew[f], at)
      <4>1. at \in Nat
        BY <2>1 DEF Stands
      <4> QED BY <4>1, RenderNewRuns
    <3>4. RenderedNew(RenderNew[f], at) =
            [at |-> end,
             render |-> IF val.tag = "map" THEN RenderTree(untyped)[n + 1][val] ELSE <<>>]
      <4>1. ASSUME NEW inside, RendersTo(inside, untyped, f)
            PROVE  Returned(untyped, n, val, end, RenderedNew(inside, at))
        BY <3>1, <4>1, NewReads
      <4> QED BY <3>2, <4>1 DEF Returned
    <3> QED BY <3>1, <3>3, <3>4
  <2> HIDE DEF P
  <2>2. RendersTo(RenderNew[f + 1], untyped, f + 1)
    BY ONLY <2>1 DEF RendersTo
  <2>3. f + 1 \in Nat
    OBVIOUS
  <2> QED BY ONLY <2>2, <2>3, Zenon DEF P
<1> HIDE DEF P
<1>3. Nat \subseteq P
  BY <1>1, <1>2, Counting
<1> QED BY <1>3 DEF P

-----------------------------------------------------------------------------
(* WsonGenerate: what the calls of genObject make of a tree.               *)

Strip(made) ==
  [i \in DOMAIN made |-> [render |-> made[i].render, parentRef |-> made[i].parentRef]]

Makes(made, objects) == (\E T : made \in Seq(T)) /\ Strip(made) = objects

LEMMA MakesType ==
  ASSUME NEW made, NEW objects, Makes(made, objects)
  PROVE  /\ \E T : objects \in Seq(T)
         /\ Len(objects) \in Nat /\ Len(made) = Len(objects)
<1>1. PICK T : made \in Seq(T)
  BY DEF Makes
<1>2. Len(made) \in Nat /\ DOMAIN made = 1..Len(made)
  BY <1>1
<1> DEFINE m == Len(made)
           S == {[render |-> made[i].render, parentRef |-> made[i].parentRef] : i \in 1..m}
<1>3. objects = [i \in 1..m |-> [render |-> made[i].render, parentRef |-> made[i].parentRef]]
  BY <1>2 DEF Makes, Strip
<1>4. objects \in [1..m -> S]
  BY <1>3
<1> HIDE DEF m, S
<1>5. objects \in Seq(S) /\ Len(objects) = m
  <2>1. m \in Nat
    BY <1>2 DEF m
  <2> QED BY <1>4, <2>1, SeqDef
<1> QED BY <1>2, <1>5 DEF m

LEMMA MakesMore ==
  ASSUME NEW a, NEW x, NEW b, NEW y, Makes(a, x), Makes(b, y)
  PROVE  Makes(a \o b, x \o y)
<1>1. PICK T : a \in Seq(T)
  BY DEF Makes
<1>2. PICK U : b \in Seq(U)
  BY DEF Makes
<1> DEFINE V == T \cup U
<1>3. a \in Seq(V) /\ b \in Seq(V)
  BY <1>1, <1>2
<1> HIDE DEF V
<1>4. /\ a \o b \in Seq(V) /\ Len(a \o b) = Len(a) + Len(b)
      /\ Len(a) \in Nat /\ Len(b) \in Nat
      /\ DOMAIN (a \o b) = 1..(Len(a) + Len(b))
      /\ \A i \in 1..(Len(a) + Len(b)) :
            (a \o b)[i] = IF i <= Len(a) THEN a[i] ELSE b[i - Len(a)]
  BY <1>3
<1>5. PICK X : x \in Seq(X)
  BY MakesType
<1>6. PICK Y : y \in Seq(Y)
  BY MakesType
<1> DEFINE Z == X \cup Y
<1>7. x \in Seq(Z) /\ y \in Seq(Z)
  BY <1>5, <1>6
<1> HIDE DEF Z
<1>8. Len(x) = Len(a) /\ Len(y) = Len(b)
  BY MakesType
<1>9. /\ x \o y \in Seq(Z) /\ Len(x \o y) = Len(a) + Len(b)
      /\ DOMAIN (x \o y) = 1..(Len(a) + Len(b))
      /\ x \o y = [i \in 1..(Len(a) + Len(b)) |-> (x \o y)[i]]
      /\ \A i \in 1..(Len(a) + Len(b)) :
            (x \o y)[i] = IF i <= Len(a) THEN x[i] ELSE y[i - Len(a)]
  <2>1. /\ x \o y \in Seq(Z) /\ Len(x \o y) = Len(x) + Len(y)
        /\ DOMAIN (x \o y) = 1..(Len(x) + Len(y))
        /\ \A i \in 1..(Len(x) + Len(y)) :
              (x \o y)[i] = IF i <= Len(x) THEN x[i] ELSE y[i - Len(x)]
    BY <1>7
  <2> DEFINE w == x \o y
  <2>2. w \in Seq(Z)
    BY <2>1
  <2> HIDE DEF w
  <2>3. w = [i \in 1..Len(w) |-> w[i]]
    BY <2>2
  <2> QED BY <1>8, <2>1, <2>3 DEF w
<1>10. /\ \A i \in 1..Len(a) : x[i] = [render |-> a[i].render, parentRef |-> a[i].parentRef]
       /\ \A i \in 1..Len(b) : y[i] = [render |-> b[i].render, parentRef |-> b[i].parentRef]
  BY <1>3 DEF Makes, Strip
<1> DEFINE c == a \o b
           z == x \o y
<1>11. ASSUME NEW i \in 1..(Len(a) + Len(b))
       PROVE  z[i] = [render |-> c[i].render, parentRef |-> c[i].parentRef]
  <2>1. CASE i <= Len(a)
    <3>1. i \in 1..Len(a) /\ z[i] = x[i] /\ c[i] = a[i]
      BY <1>4, <1>9, <2>1
    <3> HIDE DEF c, z
    <3> QED BY <1>10, <3>1
  <2>2. CASE ~(i <= Len(a))
    <3> DEFINE j == i - Len(a)
    <3>1. j \in 1..Len(b) /\ z[i] = y[j] /\ c[i] = b[j]
      BY <1>4, <1>9, <2>2
    <3> HIDE DEF c, z, j
    <3> QED BY <1>10, <3>1
  <2> QED BY <2>1, <2>2
<1>12. z = [i \in 1..(Len(a) + Len(b)) |-> z[i]] /\ DOMAIN c = 1..(Len(a) + Len(b))
  BY <1>4, <1>9
<1> HIDE DEF c, z
<1>13. Strip(c) = z
  BY <1>11, <1>12 DEF Strip
<1> QED BY <1>4, <1>13 DEF Makes, c, z

LEMMA MakesNone == Makes(<<>>, <<>>)
<1>1. <<>> \in Seq({})
  OBVIOUS
<1>2. Strip(<<>>) = <<>>
  BY DEF Strip
<1> QED BY <1>1, <1>2 DEF Makes

LEMMA MakesOne ==
  ASSUME NEW render, NEW parentRef, NEW index
  PROVE  Makes(<<[render |-> render, parentRef |-> parentRef, index |-> index]>>,
               <<[render |-> render, parentRef |-> parentRef]>>)
<1> DEFINE call == [render |-> render, parentRef |-> parentRef, index |-> index]
<1>1. call.render = render /\ call.parentRef = parentRef
  OBVIOUS
<1> HIDE DEF call
<1>2. <<call>> \in Seq({call})
  OBVIOUS
<1>3. Strip(<<call>>) = <<[render |-> render, parentRef |-> parentRef]>>
  <2>1. DOMAIN <<call>> = 1..1 /\ (<<call>>)[1] = call
    OBVIOUS
  <2> DEFINE o == [render |-> render, parentRef |-> parentRef]
  <2>2. Strip(<<call>>) = [i \in 1..1 |-> o]
    BY <1>1, <2>1 DEF Strip
  <2> HIDE DEF o
  <2>3. [i \in 1..1 |-> o] = <<o>>
    OBVIOUS
  <2> QED BY <2>2, <2>3 DEF o
<1> QED BY <1>2, <1>3 DEF Makes, call

-----------------------------------------------------------------------------
(* Tidy nodes and their objects, of any level.                             *)

LEMMA TextType ==
  ASSUME NEW n \in Nat, NEW val \in Nested[n + 1], NEW key
  PROVE  TextOf(val, key) \in Strings
<1> DEFINE blank == ""
           json == "json"
<1>1. blank \in Strings /\ json \in Strings
  BY DocumentsAssumption, Zenon
<1>2. TextOf(val, key) = IF Has(val, key) THEN Text(Part(val, key)) ELSE blank
  BY Zenon DEF TextOf
<1>3. ASSUME NEW v
      PROVE  Text(v) = CASE v.tag = "text" -> v.data [] v.tag = "null" -> blank [] OTHER -> json
  BY Zenon DEF Text
<1> HIDE DEF blank, json
<1>4. ASSUME Has(val, key) PROVE Text(Part(val, key)) \in Strings
  <2> DEFINE j == CHOOSE j \in DOMAIN val.items : val.items[j].key = key
  <2>1. j \in DOMAIN val.items
    BY <1>4 DEF Has
  <2>2. Part(val, key) = val.items[j].val
    BY DEF Part
  <2> HIDE DEF j
  <2> DEFINE v == Part(val, key)
  <2>3. v \in Nested[n]
    <3>1. j \in 1..Len(val.items)
      BY <2>1, ValueTypes
    <3>2. val.items[j].val \in Nested[n]
      BY <3>1, ValueTypes
    <3> QED BY <2>2, <3>2
  <2> HIDE DEF v
  <2>4. n # 0
    BY <2>3, NestedLevels
  <2> DEFINE m == n - 1
  <2>5. m \in Nat /\ n = m + 1
    BY <2>4
  <2> HIDE DEF m
  <2>6. v \in Nested[m + 1]
    BY <2>3, <2>5
  <2>7. v.data \in Strings
    BY <2>5, <2>6, ValueTypes
  <2>8. Text(v) \in Strings
    BY <1>1, <1>3, <2>7
  <2> QED BY <2>8 DEF v
<1> QED BY <1>1, <1>2, <1>4

(* The objects of the maps among some items. *)
Under(inside, ref, items) ==
  FlattenSeq([i \in DOMAIN items |->
    IF items[i].val.tag = "map" THEN inside[<<items[i].val, ref>>] ELSE <<>>])

Outline(val, parentRef) ==
  [render |-> [Bare(val) EXCEPT !.event = Range(@)], parentRef |-> parentRef]

LEMMA PreorderIs ==
  ASSUME NEW n \in Nat, NEW val \in Nested[n + 1], NEW r \in Strings
  PROVE  Preorder[n + 1][<<val, r>>] =
           <<Outline(val, r)>>
             \o Under(Preorder[n], TextOf(val, "ref"), ItemsOf(val, "children"))
<1>1. Preorder[n + 1] =
        [p \in Nested[n + 1] \X Strings |-> ObjectsOf(Preorder[n], p[1], p[2])]
  BY PreorderRuns
<1>2. Preorder[n + 1][<<val, r>>] = ObjectsOf(Preorder[n], val, r)
  BY <1>1
<1> QED BY <1>2 DEF ObjectsOf, Under, Outline

LEMMA TidyIs ==
  ASSUME NEW n \in Nat, NEW val \in Nested[n + 1]
  PROVE  AllTidy[n + 1][val] = TidyBelow(AllTidy[n], val)
<1>1. AllTidy[n + 1] = [v \in Nested[n + 1] |-> TidyBelow(AllTidy[n], v)]
  BY TidyRuns
<1> QED BY <1>1

LEMMA UnderSame ==
  ASSUME NEW a, NEW b, NEW ref, NEW items,
         \A i \in DOMAIN items : a[<<items[i].val, ref>>] = b[<<items[i].val, ref>>]
  PROVE  Under(a, ref, items) = Under(b, ref, items)
<1>1. [i \in DOMAIN items |->
         IF items[i].val.tag = "map" THEN a[<<items[i].val, ref>>] ELSE <<>>]
        = [i \in DOMAIN items |->
             IF items[i].val.tag = "map" THEN b[<<items[i].val, ref>>] ELSE <<>>]
  OBVIOUS
<1> QED BY <1>1 DEF Under

LEMMA PreorderLevels ==
  ASSUME NEW m \in Nat, NEW v \in Nested[m], NEW r \in Strings
  PROVE  Preorder[m + 1][<<v, r>>] = Preorder[m][<<v, r>>]
<1> DEFINE P == {n \in Nat : \A val \in Nested[n], q \in Strings :
                                Preorder[n + 1][<<val, q>>] = Preorder[n][<<val, q>>]}
<1>1. 0 \in P
  BY NestedLevels
<1>2. ASSUME NEW n \in Nat, n \in P PROVE n + 1 \in P
  <2> SUFFICES ASSUME NEW val \in Nested[n + 1], NEW q \in Strings
               PROVE  Preorder[(n + 1) + 1][<<val, q>>] = Preorder[n + 1][<<val, q>>]
    OBVIOUS
  <2>1. val \in Nested[(n + 1) + 1] /\ n + 1 \in Nat
    <3>1. n + 1 \in Nat
      OBVIOUS
    <3>2. Nested[n + 1] \subseteq Nested[(n + 1) + 1]
      BY <3>1, NestedGrows
    <3> QED BY <3>1, <3>2
  <2> DEFINE items == ItemsOf(val, "children")
             ref == TextOf(val, "ref")
  <2>2. /\ Preorder[(n + 1) + 1][<<val, q>>] =
             <<Outline(val, q)>> \o Under(Preorder[n + 1], ref, items)
        /\ Preorder[n + 1][<<val, q>>] =
             <<Outline(val, q)>> \o Under(Preorder[n], ref, items)
    <3> HIDE DEF P
    <3>1. ASSUME NEW l \in Nat, val \in Nested[l + 1]
          PROVE  Preorder[l + 1][<<val, q>>] =
                   <<Outline(val, q)>> \o Under(Preorder[l], ref, items)
      BY <3>1, PreorderIs
    <3> QED BY <2>1, <3>1
  <2>3. ref \in Strings
    BY TextType
  <2>4. \A i \in DOMAIN items : Preorder[n + 1][<<items[i].val, ref>>] = Preorder[n][<<items[i].val, ref>>]
    BY <1>2, <2>3, ItemsBelow
  <2> HIDE DEF P, items, ref
  <2>5. Under(Preorder[n + 1], ref, items) = Under(Preorder[n], ref, items)
    BY <2>4, UnderSame
  <2> QED BY <2>2, <2>5
<1> HIDE DEF P
<1>3. Nat \subseteq P
  BY <1>1, <1>2, Counting
<1> QED BY <1>3 DEF P

LEMMA TidyLevels ==
  ASSUME NEW m \in Nat, NEW v \in Nested[m]
  PROVE  AllTidy[m + 1][v] = AllTidy[m][v]
<1> DEFINE P == {n \in Nat : \A val \in Nested[n] : AllTidy[n + 1][val] = AllTidy[n][val]}
<1>1. 0 \in P
  BY NestedLevels
<1>2. ASSUME NEW n \in Nat, n \in P PROVE n + 1 \in P
  <2> SUFFICES ASSUME NEW val \in Nested[n + 1]
               PROVE  AllTidy[(n + 1) + 1][val] = AllTidy[n + 1][val]
    OBVIOUS
  <2>1. val \in Nested[(n + 1) + 1] /\ n + 1 \in Nat
    <3>1. n + 1 \in Nat
      OBVIOUS
    <3>2. Nested[n + 1] \subseteq Nested[(n + 1) + 1]
      BY <3>1, NestedGrows
    <3> QED BY <3>1, <3>2
  <2>2. /\ AllTidy[(n + 1) + 1][val] = TidyBelow(AllTidy[n + 1], val)
        /\ AllTidy[n + 1][val] = TidyBelow(AllTidy[n], val)
    <3> HIDE DEF P
    <3>1. ASSUME NEW l \in Nat, val \in Nested[l + 1]
          PROVE  AllTidy[l + 1][val] = TidyBelow(AllTidy[l], val)
      BY <3>1, TidyIs
    <3> QED BY <2>1, <3>1
  <2> DEFINE items == ItemsOf(val, "children")
  <2>3. \A i \in DOMAIN items : AllTidy[n + 1][items[i].val] = AllTidy[n][items[i].val]
    BY <1>2, ItemsBelow
  <2> HIDE DEF P, items
  <2>4. TidyBelow(AllTidy[n + 1], val) = TidyBelow(AllTidy[n], val)
    BY <2>3 DEF TidyBelow, items
  <2> QED BY <2>2, <2>4
<1> HIDE DEF P
<1>3. Nat \subseteq P
  BY <1>1, <1>2, Counting
<1> QED BY <1>3 DEF P

-----------------------------------------------------------------------------
(* The children in an array, generated.                                    *)

LEMMA JoinedThrice ==
  ASSUME NEW A, NEW B, NEW C, NEW a \in Seq(A), NEW b \in Seq(B), NEW c \in Seq(C)
  PROVE  (a \o b) \o c = a \o (b \o c)
<1> DEFINE S == A \cup B \cup C
<1>1. a \in Seq(S) /\ b \in Seq(S) /\ c \in Seq(S)
  OBVIOUS
<1> HIDE DEF S
<1> QED BY <1>1, ConcatAssociative

(* A state of a loop that makes objects, or a result of a call. *)
At(s, at, objects) == s.at = at /\ Makes(s.made, objects)

LEMMA GenChildIs ==
  ASSUME NEW inside, NEW ref, NEW index, NEW s, NEW x, NEW objects, At(s, x, objects),
         NEW y, NEW kids, At(inside[<<x, ref, index>>], y, kids)
  PROVE  At(GenChild(inside, ref, s, index), y, objects \o kids)
<1> DEFINE child == inside[<<s.at, ref, index>>]
           made == child.made
<1>1. GenChild(inside, ref, s, index) = [at |-> child.at, made |-> s.made \o made]
  BY Zenon DEF GenChild
<1>2. child = inside[<<x, ref, index>>]
  BY Zenon DEF At
<1>3. Makes(s.made, objects) /\ Makes(made, kids) /\ child.at = y
  BY <1>2, Zenon DEF At
<1> HIDE DEF child, made
<1>4. Makes(s.made \o made, objects \o kids)
  BY <1>3, MakesMore
<1> DEFINE both == s.made \o made
<1> HIDE DEF both
<1>5. GenChild(inside, ref, s, index) = [at |-> y, made |-> both]
  BY <1>1, <1>3, Zenon DEF both
<1>6. Makes(both, objects \o kids)
  BY <1>4 DEF both
<1> QED BY <1>5, <1>6 DEF At

GeneratesTo(inside, f) ==
  \A n, val, at, end, ref, index :
    /\ Stands(n, val, at, end) /\ end <= at + f /\ ref \in Strings /\ index \in Nat
    /\ val.tag = "map" => AllTidy[n][val]
    => At(inside[<<at, ref, index>>], end,
          IF val.tag = "map" THEN Preorder[n][<<val, ref>>] ELSE <<>>)

Sons(n, ref, items) ==
  [i \in DOMAIN items |->
     IF items[i].val.tag = "map" THEN Preorder[n][<<items[i].val, ref>>] ELSE <<>>]

TidyItems(n, items) ==
  \A i \in DOMAIN items : items[i].val.tag = "map" => AllTidy[n][items[i].val]

LEMMA SonHere ==
  ASSUME tokens \in Seq(Toks), NEW n, NEW val, NEW at, NEW end, NEW place, NEW f,
         Laid(n, val, at, end, place, f), val.tag = "array", TidyItems(n, val.items),
         NEW inside, GeneratesTo(inside, f), NEW ref \in Strings,
         NEW j \in Nat, j + 1 <= Len(val.items)
  PROVE  At(inside[<<place[j], ref, j>>], place[j + 1], Sons(n, ref, val.items)[j + 1])
<1>0. Len(val.items) \in Nat /\ DOMAIN val.items = 1..Len(val.items)
  BY StandsTypes DEF Laid
<1>1. j \in 0..(Len(val.items) - 1) /\ j + 1 \in DOMAIN val.items
  BY <1>0
<1>2. /\ Stands(n, val.items[j + 1].val, ToValue(at, place[j]), place[j + 1])
      /\ place[j + 1] <= ToValue(at, place[j]) + f /\ ToValue(at, place[j]) = place[j]
  BY <1>1, ItemStands
<1> DEFINE v == val.items[j + 1].val
<1>3. v.tag = "map" => AllTidy[n][v]
  BY <1>1 DEF TidyItems
<1>4. Sons(n, ref, val.items)[j + 1] = IF v.tag = "map" THEN Preorder[n][<<v, ref>>] ELSE <<>>
  BY <1>1 DEF Sons
<1> HIDE DEF v
<1>5. Stands(n, v, place[j], place[j + 1]) /\ place[j + 1] <= place[j] + f
  BY <1>2 DEF v
<1> QED BY <1>3, <1>4, <1>5 DEF GeneratesTo

LEMMA SonsRead ==
  ASSUME tokens \in Seq(Toks), NEW n, NEW val, NEW at, NEW end, NEW place, NEW f,
         Laid(n, val, at, end, place, f), val.tag = "array", TidyItems(n, val.items),
         NEW inside, GeneratesTo(inside, f), NEW ref \in Strings,
         NEW made, NEW objects, Makes(made, objects)
  PROVE  At(GenChildren(inside, ref, made, at)[SizeAt(at)], end,
            objects \o Under(Preorder[n], ref, val.items))
<1> DEFINE m == Len(val.items)
           sons == Sons(n, ref, val.items)
           loop == GenChildren(inside, ref, made, at)
<1>0. /\ n \in Nat /\ m \in Nat /\ DOMAIN val.items = 1..m /\ SizeAt(at) = m
      /\ place[0] = at + 1 /\ place[m] = end
  BY StandsTypes, Here DEF Laid, Places
<1>1. ASSUME NEW j \in Nat, j + 1 <= m
      PROVE  At(inside[<<place[j], ref, j>>], place[j + 1], sons[j + 1])
  BY <1>1, SonHere
<1>2. sons = [i \in 1..m |-> sons[i]] /\ Under(Preorder[n], ref, val.items) = FlattenSeq(sons)
  BY <1>0 DEF Sons, Under
<1> HIDE DEF sons
<1>3. ASSUME NEW i \in 1..m PROVE \E T : sons[i] \in Seq(T)
  <2> DEFINE j == i - 1
  <2>1. j \in Nat /\ j + 1 <= m /\ j + 1 = i
    BY <1>0
  <2> HIDE DEF j
  <2>2. At(inside[<<place[j], ref, j>>], place[j + 1], sons[j + 1])
    BY <1>1, <2>1
  <2>3. \E T : sons[j + 1] \in Seq(T)
    BY <2>2, MakesType DEF At
  <2> QED BY <2>1, <2>3
<1>4. PICK S : sons \in [1..m -> Seq(S)]
  BY <1>0, <1>2, <1>3, CommonType
<1>5. PICK c : Joins(c, S, sons, m) /\ FlattenSeq(sons) = c[m]
  BY <1>0, <1>4, Joined
<1>6. /\ \A j \in Nat : c[j] \in Seq(S)
      /\ c[0] = <<>> /\ \A i \in 1..m : c[i] = c[i - 1] \o sons[i]
  BY <1>5, JoinsType DEF Joins
<1>7. PICK X : objects \in Seq(X)
  BY MakesType
<1>r. /\ loop[0] = [at |-> at + 1, made |-> made]
      /\ \A j \in Nat : loop[j + 1] = GenChild(inside, ref, loop[j], j)
  <2>1. ASSUME NEW j \in Nat PROVE loop[j + 1] = GenChild(inside, ref, loop[j], j)
    BY GenChildrenStep
  <2>2. loop[0] = [at |-> at + 1, made |-> made]
    BY GenChildrenStart
  <2> HIDE DEF loop
  <2> QED BY <2>1, <2>2
<1> HIDE DEF loop
<1> DEFINE P == {j \in Nat : j <= m => At(loop[j], place[j], objects \o c[j])}
<1>8. 0 \in P
  <2>1. objects \o c[0] = objects
    BY <1>6, <1>7, ConcatEmptySeq
  <2>2. At(loop[0], place[0], objects)
    BY <1>0, <1>r DEF At
  <2> QED BY <2>1, <2>2
<1>9. ASSUME NEW j \in Nat, j \in P PROVE j + 1 \in P
  <2> SUFFICES ASSUME j + 1 <= m PROVE At(loop[j + 1], place[j + 1], objects \o c[j + 1])
    OBVIOUS
  <2>1. j + 1 \in 1..m /\ (j + 1) - 1 = j /\ j <= m
    BY <1>0
  <2>2. At(loop[j], place[j], objects \o c[j])
    BY <1>9, <2>1
  <2> HIDE DEF P
  <2>3. At(inside[<<place[j], ref, j>>], place[j + 1], sons[j + 1])
    BY <1>1
  <2>4. At(GenChild(inside, ref, loop[j], j), place[j + 1], (objects \o c[j]) \o sons[j + 1])
    BY <2>2, <2>3, GenChildIs
  <2>5. c[j + 1] = c[j] \o sons[j + 1] /\ sons[j + 1] \in Seq(S) /\ c[j] \in Seq(S)
    BY <1>4, <1>6, <2>1
  <2>6. (objects \o c[j]) \o sons[j + 1] = objects \o (c[j] \o sons[j + 1])
    <3>1. ASSUME NEW b \in Seq(S), NEW d \in Seq(S)
          PROVE  (objects \o b) \o d = objects \o (b \o d)
      BY <1>7, JoinedThrice
    <3> QED BY <2>5, <3>1
  <2>7. loop[j + 1] = GenChild(inside, ref, loop[j], j)
    BY <1>r
  <2> QED BY <2>4, <2>5, <2>6, <2>7
<1> HIDE DEF P
<1>10. Nat \subseteq P
  BY <1>8, <1>9, Counting
<1>11. m \in P /\ m <= m
  BY <1>0, <1>10
<1> QED BY <1>0, <1>2, <1>5, <1>11 DEF P, loop

LEMMA SonsHere ==
  ASSUME tokens \in Seq(Toks), NEW n, NEW v, NEW next, NEW end, NEW f \in Nat,
         Stands(n, v, next, end), end <= next + f, v.tag = "array", TidyItems(n, v.items),
         NEW inside, GeneratesTo(inside, f), NEW ref \in Strings,
         NEW made, NEW objects, Makes(made, objects)
  PROVE  At(GenChildren(inside, ref, made, next)[SizeAt(next)], end,
            objects \o Under(Preorder[n], ref, v.items))
<1>1. next \in Nat /\ end \in Nat /\ end > next
  BY DEF Stands
<1>2. end <= next + (f + 1)
  BY <1>1
<1>3. PICK l, place : n = l + 1 /\ Laid(l, v, next, end, place, f)
  BY <1>2, LaidExists
<1>4. l \in Nat /\ Stands(l + 1, v, next, end)
  BY <1>3 DEF Laid
<1>5. ASSUME NEW i \in DOMAIN v.items
      PROVE  /\ AllTidy[l + 1][v.items[i].val] = AllTidy[l][v.items[i].val]
             /\ Preorder[l + 1][<<v.items[i].val, ref>>] = Preorder[l][<<v.items[i].val, ref>>]
  <2>1. v.items[i].val \in Nested[l]
    BY <1>4, StandsTypes
  <2> QED BY <1>4, <2>1, TidyLevels, PreorderLevels
<1>6. TidyItems(l, v.items)
  BY <1>3, <1>5 DEF TidyItems
<1>7. Under(Preorder[n], ref, v.items) = Under(Preorder[l], ref, v.items)
  BY <1>3, <1>5, UnderSame
<1>8. At(GenChildren(inside, ref, made, next)[SizeAt(next)], end,
         objects \o Under(Preorder[l], ref, v.items))
  BY <1>3, <1>6, SonsRead
<1> QED BY <1>7, <1>8

-----------------------------------------------------------------------------
(* WsonGenerate: its first pass.                                           *)

LEMMA GenEntryRef ==
  ASSUME NEW s, NEW key, NEW next, NEW at, NEW render,
         NewReading(s, key, next, at, render), key = "ref"
  PROVE  NewState(GenEntry(s), SkipValue(next), [render EXCEPT !.ref = nextStringUTF8(next)])
BY DEF NewReading, NewState, GenEntry

LEMMA GenEntryType ==
  ASSUME NEW s, NEW key, NEW next, NEW at, NEW render,
         NewReading(s, key, next, at, render), key = "type"
  PROVE  NewState(GenEntry(s), SkipValue(next), [render EXCEPT !.type = nextStringUTF8(next)])
BY DEF NewReading, NewState, GenEntry

LEMMA GenEntryPart ==
  ASSUME NEW s, NEW key, NEW next, NEW at, NEW render,
         NewReading(s, key, next, at, render), key \in {"attr", "style", "event"},
         Expected(key, next)
  PROVE  NewState(GenEntry(s), SkipValue(next), AddPart(render, key, next))
BY DEF NewReading, NewState, GenEntry

LEMMA GenEntryWrongPart ==
  ASSUME NEW s, NEW key, NEW next, NEW at, NEW render,
         NewReading(s, key, next, at, render), key \in {"attr", "style", "event"},
         ~Expected(key, next)
  PROVE  NewState(GenEntry(s), Unskipped(next), render)
BY DEF NewReading, NewState, GenEntry

LEMMA GenEntryPast ==
  ASSUME NEW s, NEW key, NEW next, NEW at, NEW render,
         NewReading(s, key, next, at, render),
         key \notin {"ref", "type", "attr", "style", "event"}
  PROVE  NewState(GenEntry(s), SkipValue(next), render)
BY DEF NewReading, NewState, GenEntry

GenPass(val, k, here, s) ==
  NewState(s, here, Object(val, TextBy(val, "type", k), TextBy(val, "ref", k), k, <<>>))

LEMMA NullSkipped ==
  ASSUME NEW n, NEW val, NEW k, NEW here, NEW past,
         NEW key, NEW v, NEW next, NEW f, Next1(n, val, k, here, past, key, v, next, f),
         v.tag = "null", tokens \in Seq(Toks)
  PROVE  Unskipped(next) = past
<1>1. Stands(n, v, next, past) /\ past = next + 1
  BY DEF Next1
<1>2. TagAt(next) = v.tag
  BY <1>1, Here
<1> QED BY <1>1, <1>2 DEF Unskipped

LEMMA GenStep ==
  ASSUME tokens \in Seq(Toks), NEW f \in Nat, NEW n, NEW val, NEW k, NEW here, NEW past,
         NEW key, NEW v, NEW next, Next1(n, val, k, here, past, key, v, next, f),
         Tidy(val), NEW s, GenPass(val, k, here, s)
  PROVE  GenPass(val, k + 1, past, GenEntry(s))
<1> DEFINE none == <<>>
           ref == TextBy(val, "ref", k)
           type == TextBy(val, "type", k)
           ref1 == TextBy(val, "ref", k + 1)
           type1 == TextBy(val, "type", k + 1)
           old == Object(val, type, ref, k, none)
           new == Object(val, type1, ref1, k + 1, none)
           t == GenEntry(s)
<1>1. /\ Node(val) /\ k \in 0..(Len(val.items) - 1)
      /\ key = val.items[k + 1].key /\ v = val.items[k + 1].val
      /\ nextStringUTF8(next) = Text(v) /\ SkipValue(next) = past
      /\ Expected(key, next) <=> key \in DOMAIN Shape /\ v.tag = Shape[key]
  BY DEF Next1
<1>2. NewReading(s, key, next, here, old)
  BY DEF GenPass, NewReading, Next1
<1>3. /\ \A other : other # key => TextBy(val, other, k + 1) = TextBy(val, other, k)
      /\ TextBy(val, key, k + 1) = Text(v)
  BY <1>1, SeenNext
<1>4. /\ key # "ref" => ref1 = ref
      /\ key # "type" => type1 = type
      /\ key = "ref" => ref1 = Text(v)
      /\ key = "type" => type1 = Text(v)
  BY <1>3
<1>5. ASSUME ~Expected(key, next) \/ key = "children", NEW ty, NEW r
      PROVE  Object(val, ty, r, k + 1, none) = Object(val, ty, r, k, none)
  <2>1. CASE ~Expected(key, next)
    <3>1. key \in DOMAIN Shape => v.tag # Shape[key]
      BY <1>1, <2>1
    <3> QED BY <1>1, <3>1, GrownStays
  <2>2. CASE key = "children" /\ Expected(key, next)
    <3>1. v.tag = "array"
      BY <1>1, <2>2, ShapeKeys
    <3>2. ChildrenRead(val, k, v)
      BY <1>1, <2>2, <3>1 DEF ChildrenRead
    <3> QED BY <3>2, GrownChildren
  <2> QED BY <1>5, <2>1, <2>2
<1>6. ASSUME key \in {"attr", "style", "event"}, ~Expected(key, next)
      PROVE  v.tag = "null"
  <2>1. k + 1 \in 1..Len(val.items)
    BY <1>1 DEF Node
  <2>2. Has(val, key) /\ Part(val, key) = v
    BY <1>1, <2>1, PartIs
  <2>3. key \in DOMAIN Shape \ {"children"}
    BY <1>6, ShapeKeys
  <2>4. Part(val, key).tag \in {Shape[key], "null"}
    BY <2>2, <2>3, Zenon DEF Tidy
  <2> QED BY <1>1, <1>6, <2>2, <2>3, <2>4
<1> SUFFICES NewState(t, past, new)
  BY DEF GenPass
<1> HIDE DEF ref, type, ref1, type1, t, none
<1>7. CASE key = "ref"
  <2>1. ~Expected(key, next) /\ ref1 = Text(v) /\ type1 = type
    BY <1>4, <1>7, ShapeKeys DEF Expected
  <2>2. NewState(t, past, [old EXCEPT !.ref = ref1])
    <3> HIDE DEF old
    <3>1. NewState(t, SkipValue(next), [old EXCEPT !.ref = nextStringUTF8(next)])
      BY <1>2, <1>7, GenEntryRef DEF t
    <3> QED BY <1>1, <2>1, <3>1
  <2>3. [old EXCEPT !.ref = ref1] = Object(val, type, ref1, k, none)
    BY ObjectRef
  <2>4. new = Object(val, type, ref1, k, none)
    BY <1>5, <2>1
  <2> HIDE DEF old, new
  <2> QED BY <2>2, <2>3, <2>4
<1>8. CASE key = "type"
  <2>1. ~Expected(key, next) /\ type1 = Text(v) /\ ref1 = ref
    BY <1>4, <1>8, ShapeKeys DEF Expected
  <2>2. NewState(t, past, [old EXCEPT !.type = type1])
    <3> HIDE DEF old
    <3>1. NewState(t, SkipValue(next), [old EXCEPT !.type = nextStringUTF8(next)])
      BY <1>2, <1>8, GenEntryType DEF t
    <3> QED BY <1>1, <2>1, <3>1
  <2>3. [old EXCEPT !.type = type1] = Object(val, type1, ref, k, none)
    BY ObjectType
  <2>4. new = Object(val, type1, ref, k, none)
    BY <1>5, <2>1
  <2> HIDE DEF old, new
  <2> QED BY <2>2, <2>3, <2>4
<1>9. CASE key \in {"attr", "style", "event"} /\ Expected(key, next)
  <2>1. v.tag = Shape[key] /\ type1 = type /\ ref1 = ref
    BY <1>1, <1>4, <1>9
  <2>2. AddPart(old, key, next) = Object(val, type, ref, k + 1, none)
    <3>1. PartRead(val, k, key, v, next)
      BY <1>9, <2>1 DEF Next1, PartRead
    <3> QED BY <3>1, ObjectGrows
  <2>3. new = Object(val, type, ref, k + 1, none)
    BY <2>1
  <2> HIDE DEF old, new
  <2>4. NewState(t, SkipValue(next), AddPart(old, key, next))
    BY <1>2, <1>9, GenEntryPart DEF t
  <2> QED BY <1>1, <2>2, <2>3, <2>4
<1>10. CASE key \in {"attr", "style", "event"} /\ ~Expected(key, next)
  <2>1. Unskipped(next) = past
    BY <1>6, <1>10, NullSkipped
  <2>2. new = old
    BY <1>4, <1>5, <1>10
  <2> HIDE DEF old, new
  <2>3. NewState(t, Unskipped(next), old)
    BY <1>2, <1>10, GenEntryWrongPart DEF t
  <2> QED BY <2>1, <2>2, <2>3
<1>11. CASE key \notin {"ref", "type", "attr", "style", "event"}
  <2>1. ~Expected(key, next) \/ key = "children"
    BY <1>1, <1>11, ShapeKeys
  <2>2. new = old
    BY <1>4, <1>5, <1>11, <2>1
  <2> HIDE DEF old, new
  <2>3. NewState(t, SkipValue(next), old)
    BY <1>2, <1>11, GenEntryPast DEF t
  <2> QED BY <1>1, <2>2, <2>3
<1> QED BY <1>7, <1>8, <1>9, <1>10, <1>11

LEMMA GenPasses ==
  ASSUME tokens \in Seq(Toks), NEW n, NEW val, NEW at, NEW end, NEW place, NEW f \in Nat,
         Laid(n, val, at, end, place, f), val.tag = "map", Tidy(val),
         NEW start, GenPass(val, 0, at + 1, start)
  PROVE  GenPass(val, Len(val.items), end, GenEntries(start)[Len(val.items)])
<1> DEFINE m == Len(val.items)
           loop == GenEntries(start)
           P == {j \in Nat : j <= m => GenPass(val, j, place[j], loop[j])}
<1>0. m \in Nat /\ place[0] = at + 1 /\ place[m] = end
  BY StandsTypes DEF Laid, Places
<1>r. /\ loop[0] = start
      /\ \A j \in Nat : loop[j + 1] = GenEntry(loop[j])
  <2>1. ASSUME NEW j \in Nat PROVE loop[j + 1] = GenEntry(loop[j])
    BY GenEntriesStep
  <2>2. loop[0] = start
    BY GenEntriesStart
  <2> HIDE DEF loop
  <2> QED BY <2>1, <2>2
<1> HIDE DEF loop
<1>1. 0 \in P
  BY <1>0, <1>r
<1>2. ASSUME NEW j \in Nat, j \in P PROVE j + 1 \in P
  <2> SUFFICES ASSUME j + 1 <= m PROVE GenPass(val, j + 1, place[j + 1], loop[j + 1])
    OBVIOUS
  <2>1. j \in 0..(m - 1) /\ j <= m
    BY <1>0
  <2>2. GenPass(val, j, place[j], loop[j])
    BY <1>2, <2>1
  <2> HIDE DEF P
  <2>3. Next1(n, val, j, place[j], place[j + 1], val.items[j + 1].key, val.items[j + 1].val,
              place[j] + 1, f)
    BY <2>1, NextHere
  <2>4. GenPass(val, j + 1, place[j + 1], GenEntry(loop[j]))
    BY <2>2, <2>3, GenStep
  <2>5. loop[j + 1] = GenEntry(loop[j])
    BY <1>r
  <2> QED BY <2>4, <2>5
<1> HIDE DEF P
<1>3. Nat \subseteq P
  BY <1>1, <1>2, Counting
<1>4. m \in P /\ m <= m
  BY <1>0, <1>3
<1> QED BY <1>0, <1>4 DEF P, loop

-----------------------------------------------------------------------------
(* Its second pass.                                                        *)

AgainState(s, at, made, over) == s = [at |-> at, made |-> made, over |-> over]

AgainReading(s, key, next, at, made, over) ==
  /\ AgainState(s, at, made, over) /\ over = FALSE
  /\ nextMapKeyUTF8(at) = key /\ next = at + 1

LEMMA AgainPast ==
  ASSUME NEW inside, NEW ref, NEW s, NEW key, NEW next, NEW at, NEW made, NEW over,
         AgainReading(s, key, next, at, made, over), key # "children"
  PROVE  AgainState(GenAgain(inside, ref, s), SkipValue(next), made, over)
BY DEF AgainReading, AgainState, GenAgain

LEMMA AgainChildren ==
  ASSUME NEW inside, NEW ref, NEW s, NEW key, NEW next, NEW at, NEW made, NEW over,
         AgainReading(s, key, next, at, made, over), key = "children", IsArray(next)
  PROVE  LET read == GenChildren(inside, ref, made, next)[SizeAt(next)]
         IN  AgainState(GenAgain(inside, ref, s), read.at, read.made, over)
BY DEF AgainReading, AgainState, GenAgain

LEMMA AgainOver ==
  ASSUME NEW inside, NEW ref, NEW s, NEW key, NEW next, NEW at, NEW made, NEW over,
         AgainReading(s, key, next, at, made, over), key = "children", ~IsArray(next),
         NEW broken, broken = TRUE
  PROVE  AgainState(GenAgain(inside, ref, s), Unskipped(next), made, broken)
BY DEF AgainReading, AgainState, GenAgain

(* The objects when the children among the first k entries were read. *)
Listed(n, val, r, k) ==
  <<Outline(val, r)>> \o Under(Preorder[n], TextOf(val, "ref"), ItemsBy(val, "children", k))

AgainPass(n, val, r, k, here, s, made, over) ==
  /\ AgainState(s, here, made, over) /\ over \in BOOLEAN
  /\ over => k = Len(val.items)
  /\ Makes(made, Listed(n, val, r, k))

LEMMA UnderNothing ==
  ASSUME NEW inside, NEW ref
  PROVE  Under(inside, ref, <<>>) = <<>>
<1> DEFINE seqs == [i \in DOMAIN <<>> |->
                      IF (<<>>)[i].val.tag = "map" THEN inside[<<(<<>>)[i].val, ref>>] ELSE <<>>]
<1>1. seqs \in [1..0 -> Seq(Nat)]
  OBVIOUS
<1>2. Under(inside, ref, <<>>) = FlattenSeq(seqs)
  BY DEF Under
<1> HIDE DEF seqs
<1>3. PICK c : Joins(c, Nat, seqs, 0) /\ FlattenSeq(seqs) = c[0]
  BY <1>1, Joined
<1> QED BY <1>2, <1>3 DEF Joins

LEMMA ListedNone ==
  ASSUME NEW n, NEW val, NEW r, NEW k, ItemsBy(val, "children", k) = <<>>
  PROVE  Listed(n, val, r, k) = <<Outline(val, r)>>
<1> DEFINE x == <<Outline(val, r)>>
<1>1. x \in Seq({Outline(val, r)})
  OBVIOUS
<1>2. Listed(n, val, r, k) = x \o <<>>
  BY UnderNothing DEF Listed
<1> HIDE DEF x
<1>3. x \o <<>> = x
  BY <1>1, ConcatEmptySeq
<1> QED BY <1>2, <1>3 DEF x

LEMMA AgainStep ==
  ASSUME tokens \in Seq(Toks), NEW f \in Nat, NEW n, NEW val, NEW k, NEW here, NEW past,
         NEW key, NEW v, NEW next, Next1(n, val, k, here, past, key, v, next, f),
         Tidy(val), TidyItems(n, ItemsOf(val, "children")), TextOf(val, "ref") \in Strings,
         NEW inside, GeneratesTo(inside, f),
         NEW r, NEW s, NEW made, NEW over, AgainPass(n, val, r, k, here, s, made, over)
  PROVE  \E m, o : AgainPass(n, val, r, k + 1, past,
                             GenAgain(inside, TextOf(val, "ref"), s), m, o)
<1> DEFINE ref == TextOf(val, "ref")
           t == GenAgain(inside, ref, s)
<1>1. /\ Node(val) /\ k \in 0..(Len(val.items) - 1)
      /\ key = val.items[k + 1].key /\ v = val.items[k + 1].val
      /\ nextStringUTF8(next) = Text(v) /\ SkipValue(next) = past
      /\ IsArray(next) <=> v.tag = "array"
  BY DEF Next1
<1>2. /\ over = FALSE /\ AgainState(s, here, made, over)
      /\ Makes(made, Listed(n, val, r, k))
  <2>1. k # Len(val.items)
    BY <1>1 DEF Node
  <2> QED BY <2>1 DEF AgainPass
<1>3. AgainReading(s, key, next, here, made, over)
  BY <1>2 DEF AgainReading, Next1
<1>4. /\ \A other : other # key => ItemsBy(val, other, k + 1) = ItemsBy(val, other, k)
      /\ ItemsBy(val, key, k) = <<>>
      /\ ItemsBy(val, key, k + 1) = IF v.tag = Shape[key] THEN v.items ELSE <<>>
  BY <1>1, SeenNext
<1> HIDE DEF t, ref
<1>5. CASE key # "children"
  <2>1. Listed(n, val, r, k + 1) = Listed(n, val, r, k)
    BY <1>4, <1>5 DEF Listed
  <2>2. AgainState(t, past, made, over)
    BY <1>1, <1>3, <1>5, AgainPast DEF t
  <2>3. AgainPass(n, val, r, k + 1, past, t, made, over)
    BY <1>2, <2>1, <2>2 DEF AgainPass
  <2> QED BY <2>3 DEF t, ref
<1>6. CASE key = "children" /\ v.tag = "array"
  <2> DEFINE read == GenChildren(inside, ref, made, next)[SizeAt(next)]
             one == <<Outline(val, r)>>
  <2>1. ItemsBy(val, "children", k) = <<>> /\ ItemsBy(val, "children", k + 1) = v.items
    BY <1>4, <1>6, ShapeKeys
  <2>2. Makes(made, one)
    BY <1>2, <2>1, ListedNone
  <2>3. Listed(n, val, r, k + 1) = one \o Under(Preorder[n], ref, v.items)
    BY <2>1 DEF Listed, ref
  <2>4. TidyItems(n, v.items)
    <3>1. k + 1 \in 1..Len(val.items)
      BY <1>1 DEF Node
    <3>2. Has(val, key) /\ Part(val, key) = v
      BY <1>1, <3>1, PartIs
    <3>3. ItemsOf(val, "children") = v.items
      BY <1>6, <3>2, ShapeKeys DEF ItemsOf
    <3> QED BY <3>3
  <2> HIDE DEF one
  <2>5. Stands(n, v, next, past) /\ past <= next + f
    BY DEF Next1
  <2>6. At(read, past, one \o Under(Preorder[n], ref, v.items))
    <3>1. ref \in Strings
      BY DEF ref
    <3> QED BY <1>6, <2>2, <2>4, <2>5, <3>1, SonsHere
  <2>7. AgainState(t, read.at, read.made, over)
    BY <1>1, <1>3, <1>6, AgainChildren DEF t
  <2> HIDE DEF read
  <2>8. AgainPass(n, val, r, k + 1, past, t, read.made, over)
    BY <1>2, <2>3, <2>6, <2>7 DEF AgainPass, At
  <2> QED BY <2>8 DEF t, ref
<1>7. CASE key = "children" /\ v.tag # "array"
  <2>1. k + 1 \in DOMAIN val.items
    BY <1>1 DEF Node
  <2>2. v.tag = "null" /\ k + 1 = Len(val.items)
    BY <1>1, <1>7, <2>1, Zenon DEF Tidy
  <2>3. Unskipped(next) = past
    BY <2>2, NullSkipped
  <2>4. ItemsBy(val, "children", k + 1) = ItemsBy(val, "children", k)
    BY <1>4, <1>7, ShapeKeys
  <2>5. Listed(n, val, r, k + 1) = Listed(n, val, r, k)
    BY <2>4 DEF Listed
  <2>6. ASSUME NEW broken, broken = TRUE
        PROVE  AgainPass(n, val, r, k + 1, past, t, made, broken)
    <3>1. AgainState(t, past, made, broken)
      BY <1>1, <1>3, <1>7, <2>3, <2>6, AgainOver DEF t
    <3> QED BY <1>2, <2>2, <2>5, <2>6, <3>1 DEF AgainPass
  <2> QED BY <2>6 DEF t, ref
<1> QED BY <1>5, <1>6, <1>7

LEMMA AgainPasses ==
  ASSUME tokens \in Seq(Toks), NEW n, NEW val, NEW at, NEW end, NEW place, NEW f \in Nat,
         Laid(n, val, at, end, place, f), val.tag = "map",
         Tidy(val), TidyItems(n, ItemsOf(val, "children")),
         NEW ref \in Strings, ref = TextOf(val, "ref"),
         NEW inside, GeneratesTo(inside, f),
         NEW r, NEW start, NEW made, NEW over, AgainPass(n, val, r, 0, at + 1, start, made, over)
  PROVE  \E m, o : AgainPass(n, val, r, Len(val.items), end,
                             GenSecond(inside, ref, start)[Len(val.items)], m, o)
<1> DEFINE m == Len(val.items)
           loop == GenSecond(inside, ref, start)
           P == {j \in Nat : j <= m =>
                   \E x, o : AgainPass(n, val, r, j, place[j], loop[j], x, o)}
<1>0. m \in Nat /\ place[0] = at + 1 /\ place[m] = end
  BY StandsTypes DEF Laid, Places
<1>r. /\ loop[0] = start
      /\ \A j \in Nat : loop[j + 1] = GenAgain(inside, ref, loop[j])
  <2>1. ASSUME NEW j \in Nat PROVE loop[j + 1] = GenAgain(inside, ref, loop[j])
    BY GenSecondStep
  <2>2. loop[0] = start
    BY GenSecondStart
  <2> HIDE DEF loop
  <2> QED BY <2>1, <2>2
<1> HIDE DEF loop
<1>1. 0 \in P
  BY <1>0, <1>r
<1>2. ASSUME NEW j \in Nat, j \in P PROVE j + 1 \in P
  <2> SUFFICES ASSUME j + 1 <= m
               PROVE  \E x, o : AgainPass(n, val, r, j + 1, place[j + 1], loop[j + 1], x, o)
    OBVIOUS
  <2>1. j \in 0..(m - 1) /\ j <= m
    BY <1>0
  <2>2. PICK x, o : AgainPass(n, val, r, j, place[j], loop[j], x, o)
    BY <1>2, <2>1
  <2> HIDE DEF P
  <2>3. Next1(n, val, j, place[j], place[j + 1], val.items[j + 1].key, val.items[j + 1].val,
              place[j] + 1, f)
    BY <2>1, NextHere
  <2>4. \E y, q : AgainPass(n, val, r, j + 1, place[j + 1], GenAgain(inside, ref, loop[j]), y, q)
    BY <2>2, <2>3, AgainStep
  <2>5. loop[j + 1] = GenAgain(inside, ref, loop[j])
    BY <1>r
  <2> QED BY <2>4, <2>5
<1> HIDE DEF P
<1>3. Nat \subseteq P
  BY <1>1, <1>2, Counting
<1>4. m \in P /\ m <= m
  BY <1>0, <1>3
<1> QED BY <1>0, <1>4 DEF P, loop

(* What is generated for a value of level n + 1. *)
Objects(n, val, r) == IF val.tag = "map" THEN Preorder[n + 1][<<val, r>>] ELSE <<>>

LEMMA Generates ==
  ASSUME tokens \in Seq(Toks), NEW n, NEW val, NEW at, NEW end, NEW place, NEW f \in Nat,
         Laid(n, val, at, end, place, f), val.tag = "map" => AllTidy[n + 1][val],
         NEW inside, GeneratesTo(inside, f), NEW r \in Strings, NEW index
  PROVE  At(Generated(inside, at, r, index), end, Objects(n, val, r))
<1> DEFINE blank == ""
           start == [at |-> at + 1, render |-> CreateRender(blank, blank)]
           first == GenEntries(start)[SizeAt(at)]
           render == [first.render EXCEPT !.event = Range(@)]
           call == [render |-> render, parentRef |-> r, index |-> index]
           begin == [at |-> at + 1, made |-> <<call>>, over |-> FALSE]
           last == GenSecond(inside, render.ref, begin)[SizeAt(at)]
           m == Len(val.items)
           type == TextOf(val, "type")
           ref == TextOf(val, "ref")
<1>1. Generated(inside, at, r, index) =
        IF ~IsMap(at) THEN [at |-> SkipValue(at), made |-> <<>>]
        ELSE IF render.type # blank /\ render.ref # blank
             THEN [at |-> last.at, made |-> last.made]
             ELSE [at |-> first.at, made |-> <<>>]
  BY Zenon DEF Generated
<1>2. /\ n \in Nat /\ Stands(n + 1, val, at, end) /\ val \in Nested[n + 1]
      /\ SizeAt(at) = m /\ SkipValue(at) = end
      /\ IsMap(at) <=> val.tag = "map"
  BY StandsTypes, Here DEF Laid
<1>3. CASE val.tag # "map"
  <2> HIDE DEF first, last, render, blank
  <2>1. Generated(inside, at, r, index) = [at |-> end, made |-> <<>>]
    BY <1>1, <1>2, <1>3
  <2>2. Objects(n, val, r) = <<>>
    BY <1>3 DEF Objects
  <2> QED BY <2>1, <2>2, MakesNone DEF At
<1>4. CASE val.tag = "map"
  <2>1. Node(val)
    BY <1>4, NodeLaid
  <2>2. TextBy(val, "ref", 0) = blank /\ TextBy(val, "type", 0) = blank
    BY <2>1, SeenAll, Zenon DEF TextBy
  <2>3. Tidy(val) /\ TidyItems(n, ItemsOf(val, "children")) /\ type # blank /\ ref # blank
    <3>1. TidyBelow(AllTidy[n], val)
      BY <1>2, <1>4, TidyIs
    <3>2. Tidy(val) /\ TidyItems(n, ItemsOf(val, "children"))
      BY <3>1 DEF TidyBelow, TidyItems
    <3>3. type # blank /\ ref # blank
      BY <3>2, Zenon DEF Tidy
    <3> HIDE DEF blank
    <3> QED BY <3>2, <3>3
  <2>4. ref \in Strings
    BY <1>2, TextType
  <2> HIDE DEF blank
  <2>5. GenPass(val, 0, at + 1, start)
    <3>1. Object(val, blank, blank, 0, <<>>) = CreateRender(blank, blank)
      BY <2>1, SeenAll, ObjectStarts
    <3> QED BY <2>2, <3>1 DEF GenPass, NewState
  <2> HIDE DEF start
  <2>6. GenPass(val, m, end, first)
    <3>1. GenPass(val, m, end, GenEntries(start)[m])
      BY <1>4, <2>3, <2>5, GenPasses
    <3> QED BY <1>2, <3>1
  <2> HIDE DEF first
  <2>7. first.render = Bare(val)
    <3>1. TextBy(val, "ref", m) = ref /\ TextBy(val, "type", m) = type
      BY <2>1, SeenAll
    <3>2. Object(val, type, ref, m, <<>>) = Bare(val)
      BY <2>1, GrownEnds
    <3> QED BY <2>6, <3>1, <3>2 DEF GenPass, NewState
  <2>8. /\ render.type = type /\ render.ref = ref
        /\ [render |-> render, parentRef |-> r] = Outline(val, r)
    <3>1. render = [Bare(val) EXCEPT !.event = Range(@)]
      BY <2>7
    <3>2. [Bare(val) EXCEPT !.event = Range(@)].type = type
          /\ [Bare(val) EXCEPT !.event = Range(@)].ref = ref
      BY DEF Bare
    <3> QED BY <3>1, <3>2 DEF Outline
  <2> HIDE DEF render
  <2>9. AgainPass(n, val, r, 0, at + 1, begin, <<call>>, FALSE)
    <3>1. ItemsBy(val, "children", 0) = <<>>
      BY <2>1, SeenAll DEF ItemsBy
    <3>2. Listed(n, val, r, 0) = <<[render |-> render, parentRef |-> r]>>
      BY <2>8, <3>1, ListedNone
    <3>3. Makes(<<call>>, Listed(n, val, r, 0))
      BY <3>2, MakesOne
    <3> HIDE DEF call
    <3> QED BY <3>3 DEF AgainPass, AgainState
  <2> HIDE DEF begin, call
  <2>10. PICK made, over : AgainPass(n, val, r, m, end, last, made, over)
    <3>1. \E x, o : AgainPass(n, val, r, m, end, GenSecond(inside, ref, begin)[m], x, o)
      BY <1>4, <2>3, <2>4, <2>9, AgainPasses
    <3> QED BY <1>2, <2>8, <3>1
  <2> HIDE DEF last
  <2>11. Listed(n, val, r, m) = Objects(n, val, r)
    <3>1. ItemsBy(val, "children", m) = ItemsOf(val, "children")
      BY <2>1, SeenAll
    <3>2. Preorder[n + 1][<<val, r>>] =
            <<Outline(val, r)>> \o Under(Preorder[n], TextOf(val, "ref"), ItemsOf(val, "children"))
      BY <1>2, PreorderIs
    <3> QED BY <1>4, <3>1, <3>2 DEF Listed, Objects
  <2>12. last.at = end /\ Makes(last.made, Objects(n, val, r))
    BY <2>10, <2>11 DEF AgainPass, AgainState
  <2>13. Generated(inside, at, r, index) = [at |-> last.at, made |-> last.made]
    BY <1>1, <1>2, <1>4, <2>3, <2>8
  <2> QED BY <2>12, <2>13 DEF At
<1> QED BY <1>3, <1>4

LEMMA GeneratesThere ==
  ASSUME tokens \in Seq(Toks), NEW d \in Nat
  PROVE  GeneratesTo(Generation[d], d)
<1> DEFINE P == {f \in Nat : GeneratesTo(Generation[f], f)}
<1>1. 0 \in P
  <2>1. ASSUME NEW n, NEW val, NEW at, NEW end, Stands(n, val, at, end), end <= at + 0
        PROVE  FALSE
    BY <2>1 DEF Stands
  <2> QED BY <2>1 DEF GeneratesTo
<1>2. ASSUME NEW f \in Nat, f \in P PROVE f + 1 \in P
  <2>1. ASSUME NEW m, NEW val, NEW at, NEW end, NEW r, NEW index, Stands(m, val, at, end),
               end <= at + (f + 1), r \in Strings, index \in Nat,
               val.tag = "map" => AllTidy[m][val]
        PROVE  At(Generation[f + 1][<<at, r, index>>], end,
                  IF val.tag = "map" THEN Preorder[m][<<val, r>>] ELSE <<>>)
    <3>1. PICK n, place : m = n + 1 /\ Laid(n, val, at, end, place, f)
      BY <2>1, LaidExists
    <3>2. GeneratesTo(Generation[f], f)
      BY <1>2
    <3> HIDE DEF P
    <3>3. Generation[f + 1][<<at, r, index>>] = Generated(Generation[f], at, r, index)
      <4>1. at \in Nat
        BY <2>1 DEF Stands
      <4>2. <<at, r, index>> \in Calls
        BY <2>1, <4>1 DEF Calls
      <4>3. Generation[f + 1] = [c \in Calls |-> Generated(Generation[f], c[1], c[2], c[3])]
        BY GenerationRuns
      <4> QED BY <4>2, <4>3
    <3>4. At(Generated(Generation[f], at, r, index), end, Objects(n, val, r))
      <4>1. ASSUME NEW inside, GeneratesTo(inside, f)
            PROVE  At(Generated(inside, at, r, index), end, Objects(n, val, r))
        <5>1. val.tag = "map" => AllTidy[n + 1][val]
          BY <2>1, <3>1
        <5>2. r \in Strings
          BY <2>1
        <5> QED BY <3>1, <4>1, <5>1, <5>2, Generates
      <4> QED BY <3>2, <4>1
    <3>5. Objects(n, val, r) = IF val.tag = "map" THEN Preorder[m][<<val, r>>] ELSE <<>>
      BY <3>1 DEF Objects
    <3> QED BY <3>3, <3>4, <3>5
  <2> QED BY <2>1 DEF GeneratesTo
<1> HIDE DEF P
<1>3. Nat \subseteq P
  BY <1>1, <1>2, Counting
<1> QED BY <1>3 DEF P

-----------------------------------------------------------------------------
(* The whole document, in every state.                                     *)

Encoded == doc \in Documents /\ tokens = Encode(doc)

LEMMA WholeStands ==
  ASSUME Encoded
  PROVE  /\ tokens \in Seq(Toks) /\ Len(tokens) \in Nat
         /\ Stands(MaxNesting, doc, 1, Len(tokens) + 1)
         /\ Len(tokens) + 1 <= 1 + Len(tokens)
<1>1. doc \in Nested[MaxNesting] /\ MaxNesting \in Nat /\ tokens = Encoding[MaxNesting][doc]
  BY DocumentsAssumption, Zenon DEF Encoded, Encode
<1>2. tokens \in Seq(Toks) /\ Len(tokens) >= 1
  BY <1>1, EncodingType
<1>3. Len(tokens) \in Nat
  BY <1>2
<1>4. Lies(tokens, 1 - 1, tokens)
  BY <1>2, <1>3 DEF Lies
<1>5. Stands(MaxNesting, doc, 1, Len(tokens) + 1)
  <2> DEFINE one == 1
             end == Len(tokens) + 1
  <2>1. /\ one \in Nat /\ one >= 1 /\ end \in Nat /\ end > one /\ end = one + Len(tokens)
    BY <1>2, <1>3
  <2>2. Lies(tokens, one - 1, tokens)
    BY <1>4
  <2> HIDE DEF one, end
  <2>3. Stands(MaxNesting, doc, one, end)
    BY <1>1, <2>1, <2>2 DEF Stands
  <2> QED BY <2>3 DEF one, end
<1>6. Len(tokens) + 1 <= 1 + Len(tokens)
  BY <1>3
<1> QED BY <1>2, <1>3, <1>5, <1>6

(* A reader's result for the document. *)
TheTree(untyped, read) ==
  /\ read.at = Len(tokens) + 1
  /\ read.render = IF doc.tag = "map" THEN RenderTree(untyped)[MaxNesting][doc] ELSE <<>>

LEMMA OldTree ==
  ASSUME Encoded, NEW untyped, untyped = FALSE
  PROVE  TheTree(untyped, parserWson2RenderObject(1))
<1>1. /\ tokens \in Seq(Toks) /\ Len(tokens) \in Nat
      /\ Stands(MaxNesting, doc, 1, Len(tokens) + 1)
      /\ Len(tokens) + 1 <= 1 + Len(tokens)
  BY WholeStands
<1>2. RendersTo(Render[Len(tokens)], untyped, Len(tokens))
  BY <1>1, OldReadsThere
<1>3. Render[Len(tokens)][1] =
        [at |-> Len(tokens) + 1,
         render |-> IF doc.tag = "map" THEN RenderTree(untyped)[MaxNesting][doc] ELSE <<>>]
  BY ONLY <1>1, <1>2 DEF RendersTo
<1> QED BY <1>3 DEF parserWson2RenderObject, TheTree

LEMMA NewTree ==
  ASSUME Encoded, NEW untyped, untyped = TRUE
  PROVE  TheTree(untyped, parserWson2RenderObjectNew(1))
<1>1. /\ tokens \in Seq(Toks) /\ Len(tokens) \in Nat
      /\ Stands(MaxNesting, doc, 1, Len(tokens) + 1)
      /\ Len(tokens) + 1 <= 1 + Len(tokens)
  BY WholeStands
<1>2. RendersTo(RenderNew[Len(tokens)], untyped, Len(tokens))
  BY <1>1, NewReadsThere
<1>3. RenderNew[Len(tokens)][1] =
        [at |-> Len(tokens) + 1,
         render |-> IF doc.tag = "map" THEN RenderTree(untyped)[MaxNesting][doc] ELSE <<>>]
  BY ONLY <1>1, <1>2 DEF RendersTo
<1> QED BY <1>3 DEF parserWson2RenderObjectNew, TheTree

LEMMA TreeGenerated ==
  ASSUME Encoded, doc.tag = "map", AllTidy[MaxNesting][doc]
  PROVE  At(WsonGenerate(1, "", 0), Len(tokens) + 1, Preorder[MaxNesting][<<doc, "">>])
<1>1. /\ tokens \in Seq(Toks) /\ Len(tokens) \in Nat
      /\ Stands(MaxNesting, doc, 1, Len(tokens) + 1)
      /\ Len(tokens) + 1 <= 1 + Len(tokens)
  BY WholeStands
<1>2. GeneratesTo(Generation[Len(tokens)], Len(tokens))
  BY <1>1, GeneratesThere
<1> DEFINE blank == ""
<1>3. blank \in Strings
  BY DocumentsAssumption, Zenon
<1>4. WsonGenerate(1, "", 0) = Generation[Len(tokens)][<<1, blank, 0>>]
  BY Zenon DEF WsonGenerate
<1>5. Preorder[MaxNesting][<<doc, "">>] = Preorder[MaxNesting][<<doc, blank>>]
  OBVIOUS
<1> HIDE DEF blank
<1>6. At(Generation[Len(tokens)][<<1, blank, 0>>], Len(tokens) + 1,
         Preorder[MaxNesting][<<doc, blank>>])
  BY <1>1, <1>2, <1>3 DEF GeneratesTo
<1> QED BY <1>4, <1>5, <1>6, Zenon

LEMMA PairsRead ==
  ASSUME Encoded, doc.tag = "map"
  PROVE  /\ IsMap(1) /\ SkipValue(1) = Len(tokens) + 1
         /\ [i \in 1..SizeAt(1) |->
               <<nextMapKeyUTF8(ValuePlaces(1)[i] - 1), TextsAt(1)[i]>>]
              = [i \in DOMAIN doc.items |-> <<doc.items[i].key, Text(doc.items[i].val)>>]
<1> DEFINE end == Len(tokens) + 1
<1>1. /\ tokens \in Seq(Toks) /\ Len(tokens) \in Nat
      /\ Stands(MaxNesting, doc, 1, end)
  BY WholeStands
<1>2. end <= 1 + (Len(tokens) + 1)
  BY <1>1
<1> HIDE DEF end
<1>3. PICK n, place : MaxNesting = n + 1 /\ Laid(n, doc, 1, end, place, Len(tokens))
  BY <1>1, <1>2, LaidExists
<1>4. IsMap(1) /\ SkipValue(1) = end /\ SizeAt(1) = Len(doc.items)
  BY <1>1, Here
<1>5. TextsAt(1) = Texts(doc.items)
  BY <1>1, PartsHere
<1>6. DOMAIN doc.items = 1..Len(doc.items)
  BY <1>3, StandsTypes DEF Laid
<1>7. ASSUME NEW i \in 1..Len(doc.items)
      PROVE  nextMapKeyUTF8(ValuePlaces(1)[i] - 1) = doc.items[i].key
  BY <1>1, <1>3, ItemHere
<1>8. \A i \in 1..Len(doc.items) : TextsAt(1)[i] = Text(doc.items[i].val)
  BY <1>5, <1>6 DEF Texts
<1> QED BY <1>4, <1>6, <1>7, <1>8 DEF end

-----------------------------------------------------------------------------
(* Theorems.                                                               *)

LEMMA EncodedAlways ==
  DomSpec => []Encoded
<1>1. DomInit => Encoded
  BY DEF DomInit, Encoded
<1>2. Encoded /\ [DomNext]_domVars => Encoded'
  <2>1. [DomNext]_domVars => doc' = doc /\ tokens' = tokens
    BY Zenon DEF DomNext, Wson2RenderObject, Generate, Wson2Pairs, domVars
  <2> QED BY <2>1, Zenon DEF Encoded, Encode
<1> QED BY <1>1, <1>2, PTL DEF DomSpec

(* parserWson2RenderObject and parserWson2RenderObjectNew make of every    *)
(* document the tree it stands for, in whatever order its keys come, and   *)
(* end behind it.                                                          *)
THEOREM TreesOfAnyOrder == DomSpec => []OrderIsFree
<1>1. DomInit => OrderIsFree
  BY DEF DomInit, OrderIsFree
<1>2. Encoded /\ OrderIsFree /\ [DomNext]_domVars => OrderIsFree'
  <2> SUFFICES ASSUME Encoded, OrderIsFree, [DomNext]_domVars PROVE OrderIsFree'
    OBVIOUS
  <2>1. CASE UNCHANGED domVars
    BY <2>1 DEF domVars, OrderIsFree, AtEnd
  <2>2. ASSUME NEW useRunTimeApi \in BOOLEAN, Wson2RenderObject(useRunTimeApi)
        PROVE  OrderIsFree'
    <3>1. doc' = doc /\ tokens' = tokens
      BY <2>2 DEF Wson2RenderObject
    <3>2. CASE useRunTimeApi
      <4> DEFINE read == parserWson2RenderObjectNew(1)
      <4>1. done' = [by |-> "new", at |-> read.at, made |-> read.render]
        BY <2>2, <3>2 DEF Wson2RenderObject
      <4>2. ASSUME NEW untyped, untyped = TRUE PROVE TheTree(untyped, read)
        BY <4>2, NewTree
      <4>3. TheTree(done'.by = "new", read)
        BY <4>1, <4>2
      <4> HIDE DEF read
      <4> QED BY <3>1, <4>1, <4>3 DEF OrderIsFree, AtEnd, TheTree
    <3>3. CASE ~useRunTimeApi
      <4> DEFINE read == parserWson2RenderObject(1)
      <4>1. done' = [by |-> "old", at |-> read.at, made |-> read.render]
        BY <2>2, <3>3 DEF Wson2RenderObject
      <4>2. ASSUME NEW untyped, untyped = FALSE PROVE TheTree(untyped, read)
        BY <4>2, OldTree
      <4>3. TheTree(done'.by = "new", read)
        BY <4>1, <4>2
      <4> HIDE DEF read
      <4> QED BY <3>1, <4>1, <4>3 DEF OrderIsFree, AtEnd, TheTree
    <3> QED BY <3>2, <3>3
  <2>3. CASE Generate
    <3>1. done'.by \notin {"old", "new"}
      <4>1. done'.by = "generate"
        BY <2>3, Zenon DEF Generate
      <4> QED BY <4>1
    <3> QED BY <3>1 DEF OrderIsFree
  <2>4. CASE Wson2Pairs
    BY <2>4 DEF Wson2Pairs, OrderIsFree
  <2> QED BY <2>1, <2>2, <2>3, <2>4 DEF DomNext
<1> QED BY <1>1, <1>2, EncodedAlways, PTL DEF DomSpec

(* WsonGenerate makes of every tidy document the objects of its tree, each *)
(* before its children and under the ref of its parent, and ends behind    *)
(* the document.                                                           *)
THEOREM TidyTreesAreGenerated == DomSpec => []GeneratesTheTree
<1>1. DomInit => GeneratesTheTree
  <2>1. DomInit => done.by # "generate"
    BY DEF DomInit
  <2> QED BY <2>1, Zenon DEF GeneratesTheTree
<1>2. Encoded /\ GeneratesTheTree /\ [DomNext]_domVars => GeneratesTheTree'
  <2> SUFFICES ASSUME Encoded, GeneratesTheTree, [DomNext]_domVars PROVE GeneratesTheTree'
    OBVIOUS
  <2>1. CASE UNCHANGED domVars
    BY <2>1, Zenon DEF domVars, GeneratesTheTree, AtEnd
  <2>2. ASSUME NEW useRunTimeApi \in BOOLEAN, Wson2RenderObject(useRunTimeApi)
        PROVE  GeneratesTheTree'
    <3>1. done'.by # "generate"
      BY <2>2 DEF Wson2RenderObject
    <3> QED BY <3>1, Zenon DEF GeneratesTheTree
  <2>3. CASE Generate
    <3> DEFINE read == WsonGenerate(1, "", 0)
               objects == Preorder[MaxNesting][<<doc, "">>]
    <3>1. /\ done' = [by |-> "generate", at |-> read.at, made |-> read.made]
          /\ doc' = doc /\ tokens' = tokens
      BY <2>3, Zenon DEF Generate
    <3>2. doc.tag = "map" /\ AllTidy[MaxNesting][doc] => At(read, Len(tokens) + 1, objects)
      BY TreeGenerated, Zenon
    <3>3. GeneratesTheTree' <=>
            (done'.by = "generate" /\ doc'.tag = "map" /\ AllTidy[MaxNesting][doc'] =>
               done'.at = Len(tokens') + 1 /\ Strip(done'.made) = Preorder[MaxNesting][<<doc', "">>])
      BY Zenon DEF GeneratesTheTree, AtEnd, Strip
    <3>4. objects = Preorder[MaxNesting][<<doc', "">>]
      BY <3>1, Zenon
    <3> HIDE DEF read, objects
    <3>5. done'.at = read.at /\ done'.made = read.made
      BY <3>1
    <3> QED BY <3>1, <3>2, <3>3, <3>4, <3>5, Zenon DEF At, Makes
  <2>4. CASE Wson2Pairs
    <3>1. done'.by # "generate"
      BY <2>4 DEF Wson2Pairs
    <3> QED BY <3>1, Zenon DEF GeneratesTheTree
  <2> QED BY <2>1, <2>2, <2>3, <2>4 DEF DomNext
<1> QED BY <1>1, <1>2, EncodedAlways, PTL DEF DomSpec

(* Wson2Pairs returns the entries of every map in their order, each with   *)
(* the text of its own value, and ends behind the map.                     *)
THEOREM PairsOfAnyMap == DomSpec => []PairsAreEntries
<1>1. DomInit => PairsAreEntries
  BY DEF DomInit, PairsAreEntries
<1>2. Encoded /\ PairsAreEntries /\ [DomNext]_domVars => PairsAreEntries'
  <2> SUFFICES ASSUME Encoded, PairsAreEntries, [DomNext]_domVars PROVE PairsAreEntries'
    OBVIOUS
  <2>1. CASE UNCHANGED domVars
    BY <2>1 DEF domVars, PairsAreEntries, AtEnd
  <2>2. ASSUME NEW useRunTimeApi \in BOOLEAN, Wson2RenderObject(useRunTimeApi)
        PROVE  PairsAreEntries'
    BY <2>2 DEF Wson2RenderObject, PairsAreEntries
  <2>3. CASE Generate
    <3>1. done'.by # "pairs"
      BY <2>3, Zenon DEF Generate
    <3> QED BY <3>1 DEF PairsAreEntries
  <2>4. CASE Wson2Pairs
    <3> SUFFICES ASSUME doc'.tag = "map"
                 PROVE  /\ AtEnd'
                        /\ done'.made = [i \in DOMAIN doc'.items |->
                                          <<doc'.items[i].key, Text(doc'.items[i].val)>>]
      BY DEF PairsAreEntries
    <3> DEFINE pairs == [i \in 1..SizeAt(1) |->
                           <<nextMapKeyUTF8(ValuePlaces(1)[i] - 1), TextsAt(1)[i]>>]
    <3>1. doc' = doc /\ tokens' = tokens
      BY <2>4 DEF Wson2Pairs
    <3>2. /\ IsMap(1) /\ SkipValue(1) = Len(tokens) + 1
          /\ pairs = [i \in DOMAIN doc.items |-> <<doc.items[i].key, Text(doc.items[i].val)>>]
      BY <3>1, PairsRead
    <3>3. done' = [by |-> "pairs", at |-> SkipValue(1), made |-> pairs]
      BY <2>4, <3>2 DEF Wson2Pairs
    <3> HIDE DEF pairs
    <3> QED BY <3>1, <3>2, <3>3 DEF AtEnd
  <2> QED BY <2>1, <2>2, <2>3, <2>4 DEF DomNext
<1> QED BY <1>1, <1>2, EncodedAlways, PTL DEF DomSpec
=============================================================================
