---------------------------- MODULE CommonLemmas ----------------------------
(***************************************************************************)
(* What the proofs about several components rest on.                       *)
(*                                                                         *)
(* Recursive functions on the numbers: the theorems of the library about   *)
(* them take operators as parameters; these take sets and functions.       *)
(* FlattenSeq, and where its parts lie.                                    *)
(*                                                                         *)
(* The varint codec, for every uint32_t and every int32_t.                 *)
(***************************************************************************)
EXTENDS WsonVarint, SequencesExt, SequenceTheorems, WellFoundedInduction, TLAPS

(* Induction on a set of numbers. *)
LEMMA Counting ==
  ASSUME NEW S, 0 \in S, \A n \in Nat : n \in S => n + 1 \in S
  PROVE  Nat \subseteq S
<1> DEFINE T == Nat \ S
<1>1. SUFFICES ASSUME T # {} PROVE FALSE
  OBVIOUS
<1>2. PICK x \in T : \A y \in T : ~(<<y, x>> \in OpToRel(<, Nat))
  <2> DEFINE R == OpToRel(<, Nat)
  <2>1. IsWellFoundedOn(R, Nat) BY NatLessThanWellFounded
  <2>2. T \subseteq Nat /\ T # {} BY <1>1
  <2> HIDE DEF R, T
  <2>3. \E x \in T : \A y \in T : ~(<<y, x>> \in R)
    BY <2>1, <2>2, WFMin
  <2> QED BY <2>3 DEF R
<1>3. x \in Nat /\ x # 0
  OBVIOUS
<1>4. x - 1 \in Nat /\ x - 1 < x
  BY <1>3
<1>5. x - 1 \notin T
  BY <1>2, <1>3, <1>4 DEF OpToRel
<1>6. (x - 1) + 1 \in S
  BY <1>4, <1>5
<1> QED BY <1>3, <1>6

(* The first n steps of a recursion, *)
Steps(S, base, step, n) ==
  {f \in [0..n -> S] :
     f[0] = base /\ \A k \in 0..(n - 1) : f[k + 1] = step[<<k, f[k]>>]}

(* can be taken, *)
LEMMA StepsExist ==
  ASSUME NEW S, NEW base \in S, NEW step \in [Nat \X S -> S], NEW n \in Nat
  PROVE  Steps(S, base, step, n) # {}
<1> DEFINE P == {m \in Nat : Steps(S, base, step, m) # {}}
<1>1. 0 \in P
  <2>1. [k \in 0..0 |-> base] \in Steps(S, base, step, 0)
    BY DEF Steps
  <2> QED BY <2>1
<1>2. ASSUME NEW m \in Nat, m \in P
      PROVE  m + 1 \in P
  <2>1. PICK f \in Steps(S, base, step, m) : TRUE
    BY <1>2
  <2> DEFINE g == [k \in 0..(m + 1) |-> IF k = m + 1 THEN step[<<m, f[m]>>] ELSE f[k]]
  <2>2. f \in [0..m -> S] /\ f[0] = base
        /\ \A k \in 0..(m - 1) : f[k + 1] = step[<<k, f[k]>>]
    BY <2>1 DEF Steps
  <2>3. step[<<m, f[m]>>] \in S
    BY <2>2
  <2>4. g \in [0..(m + 1) -> S] /\ g[0] = base
    BY <2>2, <2>3
  <2>5. \A k \in 0..m : g[k + 1] = step[<<k, g[k]>>]
    <3> TAKE k \in 0..m
    <3>1. g[k] = f[k] /\ k + 1 \in 0..(m + 1)
      OBVIOUS
    <3>2. CASE k = m
      BY <3>1, <3>2
    <3>3. CASE k # m
      <4>1. k \in 0..(m - 1) /\ k + 1 # m + 1 BY <3>3
      <4>2. g[k + 1] = f[k + 1] BY <3>1, <4>1
      <4> QED BY <4>1, <4>2, <3>1, <2>2
    <3> QED BY <3>2, <3>3
  <2>6. g \in Steps(S, base, step, m + 1)
    <3> HIDE DEF g
    <3>1. (m + 1) - 1 = m OBVIOUS
    <3> QED BY <3>1, <2>4, <2>5 DEF Steps
  <2> QED BY <2>6
<1> HIDE DEF P
<1>3. Nat \subseteq P
  BY <1>1, <1>2, Counting
<1> QED BY <1>3 DEF P

(* in one way only. *)
LEMMA StepsAgree ==
  ASSUME NEW S, NEW base \in S, NEW step \in [Nat \X S -> S], NEW k \in Nat,
         NEW m \in Nat, NEW n \in Nat, k <= m, k <= n,
         NEW f \in Steps(S, base, step, m), NEW g \in Steps(S, base, step, n)
  PROVE  f[k] = g[k]
<1> DEFINE P == {i \in Nat : i <= m /\ i <= n => f[i] = g[i]}
<1>1. 0 \in P
  BY DEF Steps
<1>2. ASSUME NEW i \in Nat, i \in P
      PROVE  i + 1 \in P
  <2> SUFFICES ASSUME i + 1 <= m, i + 1 <= n PROVE f[i + 1] = g[i + 1]
    OBVIOUS
  <2>1. i \in 0..(m - 1) /\ i \in 0..(n - 1) /\ f[i] = g[i]
    BY <1>2
  <2> QED BY <2>1 DEF Steps
<1> HIDE DEF P
<1>3. Nat \subseteq P
  BY <1>1, <1>2, Counting
<1> QED BY <1>3 DEF P

(* A function can be defined by recursion on the numbers. *)
Follows(f, base, step) ==
  f[0] = base /\ \A n \in Nat : f[n + 1] = step[<<n, f[n]>>]

LEMMA Recursion ==
  ASSUME NEW S, NEW base \in S, NEW step \in [Nat \X S -> S]
  PROVE  \E f \in [Nat -> S] : Follows(f, base, step)
<1> DEFINE Table(n) == CHOOSE g : g \in Steps(S, base, step, n)
           f == [n \in Nat |-> Table(n)[n]]
<1>1. ASSUME NEW n \in Nat PROVE Table(n) \in Steps(S, base, step, n)
  BY StepsExist
<1> HIDE DEF Table
<1>2. ASSUME NEW n \in Nat PROVE Table(n)[n] \in S
  <2>1. Table(n) \in [0..n -> S] BY <1>1 DEF Steps
  <2> QED BY <2>1
<1>3. f \in [Nat -> S]
  BY <1>2
<1>4. f[0] = base
  <2>1. Table(0)[0] = base BY <1>1 DEF Steps
  <2> QED BY <2>1
<1>5. ASSUME NEW n \in Nat PROVE f[n + 1] = step[<<n, f[n]>>]
  <2>1. Table(n + 1)[n] = Table(n)[n]
    <3>1. n + 1 \in Nat /\ n <= n + 1 /\ n <= n OBVIOUS
    <3>2. Table(n + 1) \in Steps(S, base, step, n + 1) /\ Table(n) \in Steps(S, base, step, n)
      BY <3>1, <1>1
    <3> QED BY <3>1, <3>2, StepsAgree
  <2>2. Table(n + 1)[n + 1] = step[<<n, Table(n + 1)[n]>>]
    <3>1. n \in 0..((n + 1) - 1) /\ n + 1 \in Nat OBVIOUS
    <3> QED BY <3>1, <1>1 DEF Steps
  <2> QED BY <2>1, <2>2
<1> HIDE DEF f
<1> QED BY <1>3, <1>4, <1>5 DEF Follows

-----------------------------------------------------------------------------
(* Joined sequences.                                                       *)

(* c[i] is the first i of the sequences joined. *)
Joins(c, S, seqs, k) ==
  /\ c \in [Nat -> Seq(S)]
  /\ c[0] = <<>>
  /\ \A i \in 1..k : c[i] = c[i - 1] \o seqs[i]

LEMMA OneMore ==
  ASSUME NEW S, NEW s \in Seq(S), NEW e
  PROVE  s \o <<e>> = Append(s, e) /\ Len(Append(s, e)) = Len(s) + 1
OBVIOUS

LEMMA JoinsType ==
  ASSUME NEW c, NEW S, NEW seqs, NEW k, Joins(c, S, seqs, k), NEW j \in Nat
  PROVE  c[j] \in Seq(S) /\ Len(c[j]) \in Nat
BY DEF Joins

LEMMA Joined ==
  ASSUME NEW S, NEW k \in Nat, NEW seqs \in [1..k -> Seq(S)]
  PROVE  \E c : Joins(c, S, seqs, k) /\ FlattenSeq(seqs) = c[k]
<1> DEFINE step == [p \in Nat \X Seq(S) |->
                      IF p[1] + 1 \in 1..k THEN p[2] \o seqs[p[1] + 1] ELSE p[2]]
<1>1. step \in [Nat \X Seq(S) -> Seq(S)]
  <2>1. ASSUME NEW p \in Nat \X Seq(S), p[1] + 1 \in 1..k
        PROVE  p[2] \o seqs[p[1] + 1] \in Seq(S)
    <3>1. seqs[p[1] + 1] \in Seq(S) /\ p[2] \in Seq(S) BY <2>1
    <3> QED BY <3>1, ConcatProperties
  <2> QED BY <2>1
<1>2. <<>> \in Seq(S)
  OBVIOUS
<1>3. PICK c \in [Nat -> Seq(S)] : Follows(c, <<>>, step)
  <2> HIDE DEF step
  <2> QED BY <1>1, <1>2, Recursion
<1>4. c[0] = <<>> /\ \A i \in 1..k : c[i] = c[i - 1] \o seqs[i]
  <2>1. ASSUME NEW i \in 1..k PROVE c[i] = c[i - 1] \o seqs[i]
    <3>1. i - 1 \in Nat /\ (i - 1) + 1 = i /\ <<i - 1, c[i - 1]>> \in Nat \X Seq(S)
      <4>1. i - 1 \in Nat /\ (i - 1) + 1 = i
        OBVIOUS
      <4> HIDE DEF step
      <4>2. c[i - 1] \in Seq(S)
        BY <1>3, <4>1
      <4> QED BY <4>1, <4>2
    <3>2. c[i] = step[<<i - 1, c[i - 1]>>]
      BY <1>3, <3>1 DEF Follows
    <3> QED BY <3>1, <3>2
  <2> QED BY <1>3, <2>1 DEF Follows
<1> HIDE DEF step
<1>5. Joins(c, S, seqs, k)
  BY <1>4 DEF Joins
<1>6. ASSUME k # 0 PROVE c[1] = seqs[1]
  <2>1. 1 \in 1..k /\ 1 - 1 = 0 BY <1>6
  <2>2. c[1] = c[1 - 1] \o seqs[1] BY <1>4, <2>1
  <2>3. c[1] = <<>> \o seqs[1] BY <1>4, <2>1, <2>2
  <2>4. seqs[1] \in Seq(S) BY <2>1
  <2> QED BY <2>3, <2>4, ConcatEmptySeq
<1>7. seqs \in Seq(Seq(S)) /\ Len(seqs) = k
  OBVIOUS
<1>8. CASE k = 0
  <2>1. seqs = <<>> BY <1>7, <1>8
  <2>2. FlattenSeq(seqs) = <<>> BY <2>1, <1>7, <1>8 DEF FlattenSeq
  <2> QED BY <2>2, <1>4, <1>5, <1>8
<1>9. CASE k # 0
  <2> DEFINE Is(f) == f = [i \in 1..k |-> IF i = 1 THEN seqs[i] ELSE f[i - 1] \o seqs[i]]
             f == [i \in 1..k |-> c[i]]
  <2>1. FlattenSeq(seqs) = (CHOOSE g : Is(g))[k]
    BY <1>7, <1>9 DEF FlattenSeq
  <2>2. Is(f)
    <3> DEFINE h == [i \in 1..k |-> IF i = 1 THEN seqs[i] ELSE f[i - 1] \o seqs[i]]
    <3>1. ASSUME NEW i \in 1..k PROVE f[i] = h[i]
      <4>1. CASE i = 1 BY <4>1, <1>9, <1>6
      <4>2. CASE i # 1
        <5>1. i - 1 \in 1..k BY <4>2
        <5> QED BY <4>2, <5>1, <1>4
      <4> QED BY <4>1, <4>2
    <3>2. f = h BY <3>1
    <3> QED BY <3>2
  <2>3. ASSUME NEW g, Is(g) PROVE g[k] = c[k]
    <3> DEFINE P == {i \in Nat : i + 1 \in 1..k => g[i + 1] = c[i + 1]}
    <3>1. g = [i \in 1..k |-> IF i = 1 THEN seqs[i] ELSE g[i - 1] \o seqs[i]]
      BY <2>3
    <3>2. 0 \in P
      <4>1. 1 \in 1..k BY <1>9
      <4>2. g[1] = seqs[1] BY <3>1, <4>1
      <4> QED BY <4>2, <1>9, <1>6
    <3>3. ASSUME NEW i \in Nat, i \in P PROVE i + 1 \in P
      <4> SUFFICES ASSUME (i + 1) + 1 \in 1..k PROVE g[(i + 1) + 1] = c[(i + 1) + 1]
        OBVIOUS
      <4>1. i + 1 \in 1..k /\ ((i + 1) + 1) - 1 = i + 1 /\ (i + 1) + 1 # 1 OBVIOUS
      <4>2. g[i + 1] = c[i + 1] BY <4>1, <3>3
      <4>3. g[(i + 1) + 1] = g[i + 1] \o seqs[(i + 1) + 1]
        BY <3>1, <4>1
      <4>4. c[(i + 1) + 1] = c[i + 1] \o seqs[(i + 1) + 1]
        BY <1>4, <4>1
      <4> QED BY <4>2, <4>3, <4>4
    <3> HIDE DEF P
    <3>4. Nat \subseteq P BY <3>2, <3>3, Counting
    <3>5. k - 1 \in Nat /\ (k - 1) + 1 = k /\ k \in 1..k BY <1>9
    <3> QED BY <3>4, <3>5 DEF P
  <2> HIDE DEF Is, f
  <2>4. Is(CHOOSE g : Is(g))
    BY <2>2
  <2> QED BY <2>1, <2>3, <2>4, <1>5
<1> QED BY <1>8, <1>9

(* A sequence lies in another, behind the first n. *)
Lies(whole, n, s) ==
  /\ n + Len(s) <= Len(whole)
  /\ \A i \in 1..Len(s) : whole[n + i] = s[i]

LEMMA LiesJoined ==
  ASSUME NEW S, NEW whole \in Seq(S), NEW n \in Nat, NEW s \in Seq(S), NEW t \in Seq(S),
         Lies(whole, n, s \o t)
  PROVE  /\ Lies(whole, n, s) /\ Lies(whole, n + Len(s), t)
         /\ Len(s \o t) = Len(s) + Len(t)
<1>1. Len(s \o t) = Len(s) + Len(t) /\ Len(s) \in Nat /\ Len(t) \in Nat /\ Len(whole) \in Nat
  OBVIOUS
<1>2. n + (Len(s) + Len(t)) <= Len(whole)
  BY <1>1 DEF Lies
<1>3. \A i \in 1..Len(s) : (s \o t)[i] = s[i]
  OBVIOUS
<1>4. \A i \in 1..Len(t) : (s \o t)[Len(s) + i] = t[i]
  OBVIOUS
<1>5. \A i \in 1..(Len(s) + Len(t)) : whole[n + i] = (s \o t)[i]
  BY <1>1 DEF Lies
<1>6. Lies(whole, n, s)
  <2>1. \A i \in 1..Len(s) : i \in 1..(Len(s) + Len(t)) BY <1>1
  <2>2. n + Len(s) <= Len(whole) BY <1>1, <1>2
  <2> QED BY <1>3, <1>5, <2>1, <2>2 DEF Lies
<1>7. Lies(whole, n + Len(s), t)
  <2>1. \A i \in 1..Len(t) : /\ Len(s) + i \in 1..(Len(s) + Len(t))
                             /\ n + (Len(s) + i) = (n + Len(s)) + i
    BY <1>1
  <2>2. (n + Len(s)) + Len(t) <= Len(whole) BY <1>1, <1>2
  <2>3. \A i \in 1..Len(t) : whole[(n + Len(s)) + i] = t[i]
    BY <1>4, <1>5, <2>1
  <2> QED BY <2>2, <2>3 DEF Lies
<1> QED BY <1>1, <1>6, <1>7

(* Joined sequences behind the first n lie one behind the other. *)
LEMMA LiesJoins ==
  ASSUME NEW S, NEW whole \in Seq(S), NEW n \in Nat, NEW k \in Nat, NEW seqs \in [1..k -> Seq(S)],
         NEW c, Joins(c, S, seqs, k), Lies(whole, n, c[k]), NEW i \in 1..k
  PROVE  /\ Lies(whole, n + Len(c[i - 1]), seqs[i])
         /\ Len(c[i]) = Len(c[i - 1]) + Len(seqs[i])
         /\ Len(seqs[i]) <= Len(c[k]) /\ Len(c[i]) <= Len(c[k])
<1> DEFINE P == {j \in Nat : j <= k => /\ Lies(whole, n, c[k - j])
                                       /\ Len(c[k - j]) <= Len(c[k])}
<1>1. \A j \in Nat : c[j] \in Seq(S) /\ Len(c[j]) \in Nat
  <2>1. c \in [Nat -> Seq(S)] BY DEF Joins
  <2> HIDE DEF P
  <2> QED BY <2>1
<1>2. ASSUME NEW j \in 1..k, Lies(whole, n, c[j])
      PROVE  /\ Lies(whole, n, c[j - 1]) /\ Lies(whole, n + Len(c[j - 1]), seqs[j])
             /\ Len(c[j]) = Len(c[j - 1]) + Len(seqs[j])
             /\ Len(seqs[j]) \in Nat
  <2> HIDE DEF P
  <2>1. c[j] = c[j - 1] \o seqs[j]
    BY DEF Joins
  <2>2. j - 1 \in Nat /\ seqs[j] \in Seq(S) /\ Len(seqs[j]) \in Nat
    OBVIOUS
  <2>3. c[j - 1] \in Seq(S) /\ Lies(whole, n, c[j - 1] \o seqs[j])
    BY <1>1, <1>2, <2>1, <2>2
  <2>4. /\ Lies(whole, n, c[j - 1]) /\ Lies(whole, n + Len(c[j - 1]), seqs[j])
        /\ Len(c[j - 1] \o seqs[j]) = Len(c[j - 1]) + Len(seqs[j])
    BY <2>2, <2>3, LiesJoined
  <2> QED BY <2>1, <2>2, <2>4
<1>3. 0 \in P
  <2>1. k - 0 = k OBVIOUS
  <2> QED BY <1>1, <2>1
<1>4. ASSUME NEW j \in Nat, j \in P PROVE j + 1 \in P
  <2> SUFFICES ASSUME j + 1 <= k
               PROVE  Lies(whole, n, c[k - (j + 1)]) /\ Len(c[k - (j + 1)]) <= Len(c[k])
    OBVIOUS
  <2>1. k - j \in 1..k /\ (k - j) - 1 = k - (j + 1) /\ k - (j + 1) \in Nat /\ k - j \in Nat
    OBVIOUS
  <2>2. Lies(whole, n, c[k - j]) /\ Len(c[k - j]) <= Len(c[k])
    BY <1>4, <2>1
  <2>3. Lies(whole, n, c[k - (j + 1)])
        /\ Len(c[k - j]) = Len(c[k - (j + 1)]) + Len(seqs[k - j]) /\ Len(seqs[k - j]) \in Nat
    BY <1>2, <2>1, <2>2
  <2>4. Len(c[k - (j + 1)]) \in Nat /\ Len(c[k - j]) \in Nat /\ Len(c[k]) \in Nat
    BY <1>1, <2>1
  <2>5. Len(c[k - j]) = Len(c[k - (j + 1)]) + Len(seqs[k - j]) /\ Len(seqs[k - j]) \in Nat
    BY <2>3
  <2>6. Len(c[k - (j + 1)]) <= Len(c[k])
    <3> DEFINE x == Len(c[k - (j + 1)])
               y == Len(seqs[k - j])
               z == Len(c[k - j])
               u == Len(c[k])
    <3>1. x \in Nat /\ y \in Nat /\ z \in Nat /\ u \in Nat /\ z = x + y /\ z <= u
      BY <2>2, <2>4, <2>5
    <3> HIDE DEF x, y, z, u
    <3>2. x <= u
      BY <3>1
    <3> QED BY <3>2 DEF x, u
  <2> QED BY <2>3, <2>6
<1> HIDE DEF P
<1>5. Nat \subseteq P
  BY <1>3, <1>4, Counting
<1>6. k - i \in Nat /\ k - i <= k /\ k - (k - i) = i /\ i - 1 \in Nat /\ i \in Nat
  OBVIOUS
<1>7. Lies(whole, n, c[i]) /\ Len(c[i]) <= Len(c[k])
  BY <1>5, <1>6 DEF P
<1>8. /\ Lies(whole, n + Len(c[i - 1]), seqs[i])
      /\ Len(c[i]) = Len(c[i - 1]) + Len(seqs[i]) /\ Len(seqs[i]) \in Nat
  BY <1>2, <1>7
<1>9. Len(c[i - 1]) \in Nat /\ Len(c[i]) \in Nat /\ Len(c[k]) \in Nat
  BY <1>1, <1>6
<1> QED BY <1>7, <1>8, <1>9

(* Each of the sequences stands where the ones before it end. *)
PartsLie(whole, n, c, seqs, k) ==
  \A i \in 1..k : /\ Lies(whole, n + Len(c[i - 1]), seqs[i])
                  /\ Len(c[i]) = Len(c[i - 1]) + Len(seqs[i])
                  /\ Len(seqs[i]) <= Len(c[k]) /\ Len(c[i]) <= Len(c[k])

LEMMA JoinsLie ==
  ASSUME NEW S, NEW whole \in Seq(S), NEW n \in Nat, NEW k \in Nat, NEW seqs \in [1..k -> Seq(S)],
         NEW c, Joins(c, S, seqs, k), Lies(whole, n, c[k])
  PROVE  PartsLie(whole, n, c, seqs, k)
<1> SUFFICES ASSUME NEW i \in 1..k
             PROVE  /\ Lies(whole, n + Len(c[i - 1]), seqs[i])
                    /\ Len(c[i]) = Len(c[i - 1]) + Len(seqs[i])
                    /\ Len(seqs[i]) <= Len(c[k]) /\ Len(c[i]) <= Len(c[k])
  BY DEF PartsLie
<1> QED BY LiesJoins

-----------------------------------------------------------------------------
(* A uint32_t is below 2^32. *)
LEMMA UintBound ==
  ASSUME NEW num \in Uint
  PROVE  num \in Nat /\ num < 4294967296
BY MaxUintAssumption DEF Uint

(* The writer's loop ends after at most five bytes: the room that          *)
(* wson_io_write_var_uint asks for, sizeof(uint32_t) + sizeof(uint8_t).    *)
(* The chunks below the last are the ones of a number at least as large    *)
(* as their weight.                                                        *)
LEMMA VarSizeBounds ==
  ASSUME NEW num \in Uint
  PROVE  /\ VarSize(num) \in 1..5
         /\ \A i \in (VarSize(num) + 1)..5 : num \div Weight[i] = 0
         /\ VarSize(num) > 1 => num \div Weight[VarSize(num)] # 0
<1> DEFINE P(size) == /\ \A i \in (size + 1)..5 : num \div Weight[i] = 0
                      /\ size > 1 => num \div Weight[size] # 0
<1>1. \E size \in 1..5 : P(size)
  <2>1. CASE num \div Weight[5] # 0
    <3>1. P(5) BY <2>1
    <3> QED BY <3>1
  <2>2. CASE num \div Weight[5] = 0 /\ num \div Weight[4] # 0
    <3>1. P(4) BY <2>2
    <3> QED BY <3>1
  <2>3. CASE num \div Weight[5] = 0 /\ num \div Weight[4] = 0 /\ num \div Weight[3] # 0
    <3>1. P(3) BY <2>3
    <3> QED BY <3>1
  <2>4. CASE /\ num \div Weight[5] = 0 /\ num \div Weight[4] = 0
             /\ num \div Weight[3] = 0 /\ num \div Weight[2] # 0
    <3>1. P(2) BY <2>4
    <3> QED BY <3>1
  <2>5. CASE /\ num \div Weight[5] = 0 /\ num \div Weight[4] = 0
             /\ num \div Weight[3] = 0 /\ num \div Weight[2] = 0
    <3>1. P(1) BY <2>5
    <3> QED BY <3>1
  <2> QED BY <2>1, <2>2, <2>3, <2>4, <2>5
<1> QED BY <1>1 DEF VarSize

(* What is written is a sequence of one to five bytes, each but the last   *)
(* with its continuation bit.                                              *)
THEOREM VarUintBytes ==
  ASSUME NEW num \in Uint
  PROVE  /\ VarUint(num) \in Seq(Byte)
         /\ Len(VarUint(num)) = VarSize(num)
         /\ Len(VarUint(num)) \in 1..5
<1>1. VarSize(num) \in 1..5
  BY VarSizeBounds
<1>2. ASSUME NEW i \in 1..VarSize(num)
      PROVE  ((num \div Weight[i]) % 128)
               + (IF i < VarSize(num) THEN 128 ELSE 0) \in Byte
  <2>1. i \in 1..5 BY <1>1
  <2>2. num \in Nat BY UintBound
  <2>3. Weight[i] \in Nat \ {0}
    BY <2>1 DEF Weight
  <2>4. num \div Weight[i] \in Nat
    <3> DEFINE w == Weight[i]
    <3>1. w \in Nat \ {0} BY <2>3
    <3> HIDE DEF w
    <3>2. num \div w \in Nat BY <3>1, <2>2
    <3> QED BY <3>2 DEF w
  <2> DEFINE c == num \div Weight[i]
  <2>5. c \in Nat BY <2>4
  <2> HIDE DEF c
  <2>6. (c % 128) \in 0..127 BY <2>5
  <2>7. (c % 128) + (IF i < VarSize(num) THEN 128 ELSE 0) \in Byte
    BY <2>6 DEF Byte
  <2> QED BY <2>7 DEF c
<1>3. VarUint(num) \in [1..VarSize(num) -> Byte]
  BY <1>2 DEF VarUint
<1> QED BY <1>1, <1>3

(* A continuation bit is exactly "not the last byte". *)
LEMMA VarUintByte ==
  ASSUME NEW num \in Uint, NEW i \in 1..VarSize(num)
  PROVE  LET c == num \div Weight[i]
         IN  VarUint(num)[i] = (c % 128) + (IF i < VarSize(num) THEN 128 ELSE 0)
BY DEF VarUint

(* The continuation bits of a number as it was written, also where they    *)
(* are read from a longer stream.                                          *)
LEMMA VarUintContinues ==
  ASSUME NEW num \in Uint, NEW bts,
         \A i \in 1..VarSize(num) : bts[i] = VarUint(num)[i]
  PROVE  /\ \A i \in 1..(VarSize(num) - 1) : bts[i] \in Byte /\ bts[i] >= 128
         /\ bts[VarSize(num)] \in Byte /\ bts[VarSize(num)] < 128
<1> DEFINE size == VarSize(num)
           c(i) == num \div Weight[i]
<1>1. size \in 1..5 /\ \A i \in 1..size : i \in 1..5
  BY SMT, VarSizeBounds
<1>2. \A i \in 1..5 : c(i) \in Nat
  BY SMT, UintBound DEF Weight
<1>3. \A i \in 1..size :
         bts[i] = (c(i) % 128) + (IF i < size THEN 128 ELSE 0)
  BY SMT, VarUintByte
<1> HIDE DEF c, size
<1>4. \A i \in 1..size : (c(i) % 128) \in 0..127
  BY SMT, <1>1, <1>2
<1>5. \A i \in 1..(size - 1) : i \in 1..size /\ i < size
  BY SMT, <1>1
<1>6. size \in 1..size
  BY SMT, <1>1
<1>7. \A i \in 1..(size - 1) : bts[i] = (c(i) % 128) + 128 /\ (c(i) % 128) \in 0..127
  BY SMT, <1>3, <1>4, <1>5
<1>8. ASSUME NEW i \in 1..(size - 1) PROVE bts[i] \in Byte /\ bts[i] >= 128
  <2> DEFINE r == c(i) % 128
  <2>1. bts[i] = r + 128 /\ r \in 0..127
    BY <1>7
  <2> HIDE DEF r
  <2> QED BY SMT, <2>1 DEF Byte
<1>9. bts[size] \in Byte /\ bts[size] < 128
  <2> DEFINE r == c(size) % 128
  <2>1. bts[size] = r /\ r \in 0..127
    <3>1. bts[size] = (c(size) % 128) + (IF size < size THEN 128 ELSE 0)
      BY <1>3, <1>6
    <3>2. (c(size) % 128) \in 0..127
      BY <1>4, <1>6
    <3> QED BY SMT, <1>1, <3>1, <3>2
  <2> HIDE DEF r
  <2> QED BY SMT, <2>1 DEF Byte
<1> QED BY <1>8, <1>9 DEF size

(* A number is the sum of its chunks. *)
LEMMA ChunksOfUint ==
  ASSUME NEW num \in Nat, num < 4294967296
  PROVE  num = (num % 128)
                 + ((num \div 128) % 128) * 128
                 + ((num \div 16384) % 128) * 16384
                 + ((num \div 2097152) % 128) * 2097152
                 + ((num \div 268435456) % 16) * 268435456
<1> DEFINE q == num \div 128
           r == num \div 16384
           s == num \div 2097152
           t == num \div 268435456
<1>1. num = 128 * q + (num % 128) BY SMT
<1>2. q = 128 * r + (q % 128)     BY SMT
<1>3. r = 128 * s + (r % 128)     BY SMT
<1>4. s = 128 * t + (s % 128)     BY SMT
<1>5. t = (t % 16)                BY SMT
<1>6. q \in Nat /\ r \in Nat /\ s \in Nat /\ t \in Nat BY SMT
<1> HIDE DEF q, r, s, t
<1>7. num = (num % 128) + (q % 128) * 128 + (r % 128) * 16384
              + (s % 128) * 2097152 + (t % 16) * 268435456
  BY SMT, <1>1, <1>2, <1>3, <1>4, <1>5, <1>6
<1> QED BY SMT, <1>7 DEF q, r, s, t

(* wson_io_read_var_uint inverts wson_io_write_var_uint: on any bytes that *)
(* begin with what the writer stored, the reader consumes exactly those    *)
(* bytes and returns the number, for every uint32_t.                       *)
THEOREM VarUintRoundTrip ==
  ASSUME NEW num \in Uint, NEW bts,
         \A i \in 1..VarSize(num) : bts[i] = VarUint(num)[i]
  PROVE  ReadSize(bts) = VarSize(num) /\ ReadUint(bts) = num
<1> DEFINE size == VarSize(num)
           c(i) == num \div Weight[i]
<1>1. /\ size \in 1..5
      /\ \A i \in (size + 1)..5 : c(i) = 0
  BY SMT, VarSizeBounds
<1>2. num \in Nat /\ num < 4294967296
  BY SMT, UintBound
<1>3. \A i \in 1..size :
         bts[i] = (c(i) % 128) + (IF i < size THEN 128 ELSE 0)
  BY SMT, VarUintByte
<1>4. /\ c(1) = num
      /\ c(2) = num \div 128
      /\ c(3) = num \div 16384
      /\ c(4) = num \div 2097152
      /\ c(5) = num \div 268435456
  BY SMT, <1>2 DEF Weight
<1>5. /\ \A i \in 1..(size - 1) : bts[i] >= 128
      /\ size < 5 => bts[size] < 128
  BY SMT, VarUintContinues
<1>6. ReadSize(bts) = size
  <2> DEFINE Q(k) == /\ \A i \in 1..(k - 1) : bts[i] >= 128
                     /\ k < 5 => bts[k] < 128
  <2> HIDE DEF c, size
  <2>1. Q(size) BY SMT, <1>5
  <2>2. ASSUME NEW k \in 1..5, Q(k) PROVE k = size
    <3>1. CASE k < size
      <4>1. k \in 1..(size - 1) /\ k < 5 BY SMT, <1>1, <3>1
      <4>2. bts[k] >= 128 /\ bts[k] < 128 BY SMT, <4>1, <1>5, <2>2
      <4>3. bts[k] = (c(k) % 128) + 128
        BY SMT, <1>3, <4>1, <3>1, <1>1
      <4>4. c(k) \in Nat
        BY SMT, <1>2, <1>4, <1>1, <3>1
      <4> QED BY SMT, <4>2, <4>3, <4>4
    <3>2. CASE k > size
      <4>1. size \in 1..(k - 1) /\ size < 5 BY SMT, <1>1, <3>2
      <4>2. bts[size] >= 128 /\ bts[size] < 128 BY SMT, <4>1, <1>5, <2>2
      <4>3. bts[size] = (c(size) % 128) + 0
        BY SMT, <1>3, <4>1, <1>1
      <4>4. c(size) \in Nat
        BY SMT, <1>2, <1>4, <1>1
      <4> QED BY SMT, <4>2, <4>3, <4>4
    <3> QED BY SMT, <3>1, <3>2, <1>1
  <2> QED BY SMT, <2>1, <2>2, <1>1 DEF ReadSize
<1>7. /\ Chunk(bts, 1) = (num % 128)
      /\ Chunk(bts, 2) = ((num \div 128) % 128) * 128
      /\ Chunk(bts, 3) = ((num \div 16384) % 128) * 16384
      /\ Chunk(bts, 4) = ((num \div 2097152) % 128) * 2097152
      /\ Chunk(bts, 5) = ((num \div 268435456) % 16) * 268435456
  <2> HIDE DEF size
  <2>1. ASSUME NEW i \in 1..5
        PROVE  Chunk(bts, i) = (c(i) % (IF i = 5 THEN 16 ELSE 128)) * Weight[i]
    <3>1. c(i) \in Nat /\ Weight[i] \in Nat
      BY SMT, <1>2, <1>4 DEF Weight
    <3>2. CASE i > size
      <4>1. c(i) = 0 BY SMT, <1>1, <3>2
      <4> QED BY SMT, <1>6, <3>2, <3>1, <4>1 DEF Chunk
    <3>3. CASE i <= size
      <4>1. bts[i] = (c(i) % 128) + (IF i < size THEN 128 ELSE 0)
        BY SMT, <1>3, <3>3, <1>1
      <4>2. bts[i] % (IF i = 5 THEN 16 ELSE 128) = c(i) % (IF i = 5 THEN 16 ELSE 128)
        <5> HIDE DEF c
        <5> QED BY SMT, <4>1, <3>1
      <4> QED BY SMT, <1>6, <3>3, <4>2, <1>1 DEF Chunk
    <3> QED BY SMT, <3>2, <3>3, <1>1
  <2> QED BY SMT, <2>1, <1>4, <1>2 DEF Weight
<1>8. ReadUint(bts) = num
  BY SMT, <1>7, <1>2, ChunksOfUint DEF ReadUint
<1> QED BY SMT, <1>6, <1>8

(* Zig-zag: every int is recovered from its unsigned image. *)
THEOREM ZigZagRoundTrip ==
  ASSUME NEW value \in Int
  PROVE  Zig(value) \in Nat /\ Zag(Zig(value)) = value
BY SMT DEF Zig, Zag
=============================================================================
