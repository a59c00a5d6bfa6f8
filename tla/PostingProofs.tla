---------------------------- MODULE PostingProofs ----------------------------
(***************************************************************************)
(* What passes between Discord and the agents: the replies and their         *)
(* records (Delivery) and how their texts are split (Chunking), the bodies   *)
(* of the step trace (TraceBudget), and the history that an agent is told    *)
(* (History).                                                               *)
(*                                                                         *)
(* What Delivery promises holds for any number of turns, commands, faults   *)
(* and crashes.  Held says where each kind of client can stand, and that     *)
(* the queue holds just the clients whose commit is due.  Each promise has   *)
(* an inductive invariant of its own: WebhookInv, RowInv, SpokeInv and       *)
(* OwnerInv for the sticky owner, MapInv for the override.                   *)
(*                                                                         *)
(* A split is a sequence of folds, and each has an invariant of its own:      *)
(* ParsedTo over the lines of the text, PackOf over its units, LeftOf over    *)
(* the chunks that are stripped.  The pieces of a long line are by induction *)
(* over its length (CutsGood).                                              *)
(*                                                                         *)
(* No body of a step trace ever exceeds the cap.  The inductive invariant is *)
(* the booking the code makes: the body and the reserve of every row still   *)
(* to resolve fit together.  An append keeps it by its guard or by opening a *)
(* fresh segment; a resolve releases one reserve and grows the body by no    *)
(* more (GrowthReserved).                                                    *)
(*                                                                         *)
(* What an agent is told is a fold over the records of a page, trimmed.      *)
(* HistoryInv says, for every place a fetch can stand at, what its records   *)
(* are of the thread.                                                       *)
(***************************************************************************)
EXTENDS Delivery, TraceBudget, History, FiniteSetTheorems, SequenceTheorems, TLAPS

-----------------------------------------------------------------------------
(* Induction and folds.  Numbers are well founded because finite sets are,    *)
(* under inclusion; a fold is the sequence of the values that it runs through. *)

(* A set of numbers that is not empty has a least one: of the finite sets 0..y, with y in it, one *)
(* is minimal.                                                                                   *)
LEMMA LeastNumber ==
  ASSUME NEW T, T \subseteq Nat, T # {}
  PROVE  \E x \in T : \A y \in T : x <= y
<1>1. PICK t \in T : TRUE
  OBVIOUS
<1>. DEFINE U == 0..t
            S == FiniteSubsetsOf(U)
            W == {0..y : y \in {z \in T : z <= t}}
<1>2. IsFiniteSet(U)
  BY <1>1, FS_Interval
<1>3. S = SUBSET U
  BY <1>2, FS_FiniteSubsetsOfFinite
<1>4. W \subseteq S /\ W # {}
  BY <1>1, <1>3
<1>5. IsWellFoundedOn(StrictSubsetOrdering(U), S)
  BY FS_StrictSubsetOrderingWellFounded
<1>. HIDE DEF W, S
<1>6. \E w \in W : \A v \in W : ~ (<<v, w>> \in StrictSubsetOrdering(U))
  BY <1>4, <1>5, WFMin, Zenon
<1>. USE DEF W, S
<1>7. PICK x \in T : x <= t /\ \A v \in W : ~ (<<v, 0..x>> \in StrictSubsetOrdering(U))
  BY <1>6
<1>8. ASSUME NEW y \in T, ~(x <= y) PROVE FALSE
  <2>1. 0..y \in W /\ 0..x \in SUBSET U /\ 0..y \in SUBSET U
    BY <1>7, <1>8
  <2>2. 0..y \subseteq 0..x
    BY <1>8
  <2>3. x \in 0..x /\ x \notin 0..y
    BY <1>8
  <2>4. 0..y # 0..x
    BY <2>3
  <2>5. <<0..y, 0..x>> \in StrictSubsetOrdering(U)
    BY <2>1, <2>2, <2>4 DEF StrictSubsetOrdering
  <2>. QED  BY <1>7, <2>1, <2>5
<1>. QED  BY <1>8, <1>7

(* Induction, for a set of numbers: the least number outside it is neither 0 nor a successor.     *)
LEMMA Induction ==
  ASSUME NEW S, 0 \in S, \A n \in Nat : n \in S => n + 1 \in S
  PROVE  Nat \subseteq S
<1>. SUFFICES ASSUME Nat \ S # {} PROVE FALSE
  OBVIOUS
<1>1. PICK x \in Nat \ S : \A y \in Nat \ S : x <= y
  BY LeastNumber
<1>2. x # 0 /\ x - 1 \in Nat
  OBVIOUS
<1>3. x - 1 \in S
  BY <1>1, <1>2
<1>. QED  BY <1>2, <1>3

(* FoldLeft takes the positions of a sequence from the largest down. *)
LEMMA MaxOfInterval ==
  ASSUME NEW n \in Nat \ {0}
  PROVE  Max(1..n) = n
<1>. SUFFICES ASSUME NEW m \in 1..n, \A y \in 1..n : m >= y
              PROVE  m = n
  BY DEF Max
<1>. QED  OBVIOUS

(* The largest of a set of positions. *)
LEMMA MaxOfSubset ==
  ASSUME NEW n \in Nat, NEW s \in SUBSET (1..n), s # {}
  PROVE  /\ Max(s) \in s
         /\ \A y \in s : y <= Max(s)
<1>. DEFINE T == {m \in Nat : n - m \in s}
<1>1. PICK z \in s : TRUE
  OBVIOUS
<1>2. n - z \in T
  <2>1. z \in 1..n
    OBVIOUS
  <2>2. n - z \in Nat /\ n - (n - z) = z
    BY <2>1
  <2>. QED  BY <2>2
<1>3. T \subseteq Nat /\ T # {}
  BY <1>2
<1>4. PICK x \in T : \A y \in T : x <= y
  <2>. HIDE DEF T
  <2>. QED  BY <1>3, LeastNumber
<1>5. ASSUME NEW y \in s PROVE n - x >= y
  <2>1. y \in 1..n
    OBVIOUS
  <2>2. n - y \in T
    <3>1. n - y \in Nat /\ n - (n - y) = y
      BY <2>1
    <3>. QED  BY <3>1
  <2>3. x <= n - y /\ x \in Nat
    BY <2>2, <1>4
  <2>. QED  BY <2>1, <2>3
<1>6. n - x \in s /\ \A y \in s : n - x >= y
  BY <1>4, <1>5
<1>7. Max(s) \in s /\ \A y \in s : Max(s) >= y
  <2>1. \E w \in s : \A y \in s : w >= y
    BY <1>6
  <2>. QED  BY <2>1, Zenon DEF Max
<1>8. ASSUME NEW y \in s PROVE y <= Max(s)
  <2>1. y \in 1..n /\ Max(s) \in 1..n /\ Max(s) >= y
    BY <1>7
  <2>. QED  BY <2>1
<1>. QED  BY <1>7, <1>8

(* One step of a fold on the subset x of positions, as FoldLeft takes it. *)
FoldEq(g, V, n, base, F) ==
  /\ g \in [SUBSET (1..n) -> V]
  /\ \A x \in SUBSET (1..n) :
       g[x] = IF x = {} THEN base ELSE F[g[x \ {Max(x)}]][Max(x)]

FoldStep(it, V, n, base, F) ==
  /\ it[{}] = base
  /\ \A x \in SUBSET (1..n) :
       x # {} /\ it[x \ {Max(x)}] \in V => it[x] = F[it[x \ {Max(x)}]][Max(x)]

Stages(h, it, V, n, base, F) ==
  /\ h \in [0..n -> V]
  /\ h[0] = base /\ h[n] = it[1..n]
  /\ \A i \in 1..n : h[i] = F[h[i - 1]][i]

(* The function that a fold is taken from exists,                                                *)
LEMMA FoldExists ==
  ASSUME NEW V, NEW base \in V, NEW n \in Nat, NEW F \in [V -> [1..n -> V]]
  PROVE  \E g : FoldEq(g, V, n, base, F)
<1>. DEFINE Eq(k, g) == \A s \in SUBSET (1..k) :
               g[s] = IF s = {} THEN base ELSE F[g[s \ {Max(s)}]][Max(s)]
            Has(k) == \E g \in [SUBSET (1..k) -> V] : Eq(k, g)
            K == {k \in Nat : k <= n => Has(k)}
<1>1. 0 \in K
  <2>. DEFINE g == [s \in SUBSET (1..0) |-> base]
  <2>1. g \in [SUBSET (1..0) -> V]
    OBVIOUS
  <2>2. \A s \in SUBSET (1..0) : s = {}
    OBVIOUS
  <2>3. Eq(0, g)
    BY <2>2
  <2>. HIDE DEF g, Eq
  <2>. QED  BY <2>1, <2>3
<1>2. ASSUME NEW k \in Nat, k \in K PROVE k + 1 \in K
  <2>. HIDE DEF Has
  <2>. SUFFICES ASSUME k + 1 <= n
                PROVE  Has(k + 1)
    OBVIOUS
  <2>1. Has(k)
    BY <1>2
  <2>. USE DEF Has
  <2>. HIDE DEF Eq
  <2>. SUFFICES \E g \in [SUBSET (1..(k + 1)) -> V] : Eq(k + 1, g)
    OBVIOUS
  <2>1a. PICK f \in [SUBSET (1..k) -> V] : Eq(k, f)
    BY <2>1
  <2>. DEFINE g == [s \in SUBSET (1..(k + 1)) |->
                      IF k + 1 \in s THEN F[f[s \ {k + 1}]][k + 1] ELSE f[s]]
  <2>2. ASSUME NEW s \in SUBSET (1..(k + 1)) PROVE s \ {k + 1} \in SUBSET (1..k)
    OBVIOUS
  <2>3. ASSUME NEW s \in SUBSET (1..(k + 1)), k + 1 \notin s PROVE s \in SUBSET (1..k)
    BY <2>3
  <2>4. g \in [SUBSET (1..(k + 1)) -> V]
    <3>. SUFFICES ASSUME NEW s \in SUBSET (1..(k + 1)) PROVE g[s] \in V
      OBVIOUS
    <3>1. CASE k + 1 \in s
      <4>1. f[s \ {k + 1}] \in V
        BY <2>2
      <4>2. k + 1 \in 1..n
        OBVIOUS
      <4>3. F[f[s \ {k + 1}]] \in [1..n -> V]
        BY <4>1
      <4>4. F[f[s \ {k + 1}]][k + 1] \in V
        BY <4>2, <4>3
      <4>5. g[s] = F[f[s \ {k + 1}]][k + 1]
        BY <3>1
      <4>. HIDE DEF g
      <4>. QED  BY <4>4, <4>5
    <3>2. CASE k + 1 \notin s
      BY <3>2, <2>3
    <3>. QED  BY <3>1, <3>2
  <2>5. ASSUME NEW s \in SUBSET (1..(k + 1))
        PROVE  g[s] = IF s = {} THEN base ELSE F[g[s \ {Max(s)}]][Max(s)]
    <3>1. CASE k + 1 \in s
      <4>1. Max(s) = k + 1
        <5>. DEFINE j == k + 1
        <5>1. j \in Nat /\ s \in SUBSET (1..j) /\ s # {}
          BY <3>1
        <5>. HIDE DEF j
        <5>2. Max(s) \in s /\ \A y \in s : y <= Max(s)
          BY <5>1, MaxOfSubset
        <5>. USE DEF j
        <5>3. Max(s) \in 1..(k + 1) /\ k + 1 <= Max(s)
          BY <5>2, <3>1
        <5>4. \A m \in 1..(k + 1) : k + 1 <= m => m = k + 1
          OBVIOUS
        <5>. QED  BY <5>3, <5>4
      <4>2. s \ {k + 1} \in SUBSET (1..k) /\ k + 1 \notin s \ {k + 1}
        BY <2>2
      <4>3. g[s \ {k + 1}] = f[s \ {k + 1}]
        BY <4>2
      <4>. QED  BY <3>1, <4>1, <4>3
    <3>2. CASE k + 1 \notin s
      <4>1. s \in SUBSET (1..k)
        BY <3>2, <2>3
      <4>2. g[s] = f[s]
        BY <3>2
      <4>3. g[s \ {Max(s)}] = f[s \ {Max(s)}]
        BY <3>2
      <4>. QED  BY <4>1, <4>2, <4>3, <2>1a DEF Eq
    <3>. QED  BY <3>1, <3>2
  <2>. HIDE DEF g
  <2>6. Eq(k + 1, g)
    BY <2>5 DEF Eq
  <2>. QED  BY <2>4, <2>6
<1>. HIDE DEF K
<1>3. n \in K
  BY <1>1, <1>2, Induction
<1>. HIDE DEF Has
<1>4. Has(n)
  BY <1>3 DEF K
<1>. QED  BY <1>4 DEF Has, FoldEq

(* and runs through the values h[0] .. h[n] in order.                                            *)
LEMMA FoldRuns ==
  ASSUME NEW V, NEW base \in V, NEW n \in Nat, NEW F \in [V -> [1..n -> V]],
         NEW it, FoldStep(it, V, n, base, F)
  PROVE  \E h : Stages(h, it, V, n, base, F)
<1>. USE DEF FoldStep
<1>. DEFINE K == {k \in Nat : k <= n => it[1..k] \in V}
            h == [i \in 0..n |-> it[1..i]]
<1>1. it[1..0] = base
  <2>1. 1..0 = {}
    OBVIOUS
  <2>. QED  BY <2>1
<1>2. ASSUME NEW i \in 1..n, it[1..(i - 1)] \in V
      PROVE  it[1..i] = F[it[1..(i - 1)]][i]
  <2>1. 1..i \in SUBSET (1..n) /\ i \in 1..i /\ i \in Nat \ {0}
    OBVIOUS
  <2>2. Max(1..i) = i
    BY <2>1, MaxOfInterval
  <2>3. (1..i) \ {i} = 1..(i - 1)
    <3>1. ASSUME NEW z \in (1..i) \ {i} PROVE z \in 1..(i - 1)
      BY <2>1
    <3>2. ASSUME NEW z \in 1..(i - 1) PROVE z \in (1..i) \ {i}
      BY <2>1
    <3>. QED  BY <3>1, <3>2
  <2>. DEFINE x == 1..i
  <2>4. x \in SUBSET (1..n) /\ x # {} /\ Max(x) = i /\ x \ {i} = 1..(i - 1)
    BY <2>1, <2>2, <2>3
  <2>. HIDE DEF x
  <2>5. it[x] = F[it[x \ {Max(x)}]][Max(x)]
    BY <2>4, <1>2
  <2>. QED  BY <2>4, <2>5 DEF x
<1>3. 0 \in K
  BY <1>1
<1>4. ASSUME NEW k \in Nat, k \in K PROVE k + 1 \in K
  <2>. SUFFICES ASSUME k + 1 <= n PROVE it[1..(k + 1)] \in V
    OBVIOUS
  <2>1. k + 1 \in 1..n /\ (k + 1) - 1 = k /\ it[1..k] \in V
    BY <1>4
  <2>2. it[1..(k + 1)] = F[it[1..k]][k + 1]
    BY <2>1, <1>2
  <2>. QED  BY <2>1, <2>2
<1>. HIDE DEF K
<1>5. Nat \subseteq K
  BY <1>3, <1>4, Induction
<1>6. ASSUME NEW i \in 0..n PROVE it[1..i] \in V
  BY <1>5 DEF K
<1>7. h \in [0..n -> V] /\ h[0] = base /\ it[1..n] = h[n]
  BY <1>6, <1>1
<1>8. ASSUME NEW i \in 1..n PROVE h[i] = F[h[i - 1]][i]
  <2>1. i - 1 \in 0..n /\ i \in 0..n
    OBVIOUS
  <2>2. it[1..(i - 1)] \in V
    BY <1>6, <2>1
  <2>. QED  BY <1>2, <2>1, <2>2
<1>. HIDE DEF h
<1>9. Stages(h, it, V, n, base, F)
  BY <1>7, <1>8 DEF Stages
<1>. QED  BY <1>9

-----------------------------------------------------------------------------
(* How a text is split (Chunking).                                            *)

(* A sum, unwound: h holds what has been added up behind each number.                            *)
LEMMA SumUnwinds ==
  ASSUME NEW s \in Seq(Nat)
  PROVE  \E h \in [0..Len(s) -> Nat] :
           /\ h[0] = 0
           /\ \A i \in 1..Len(s) : h[i] = h[i - 1] + s[i]
           /\ SumOf(s) = h[Len(s)]
<1>. DEFINE n == Len(s)
            D == 1..n
            It == CHOOSE it : it = [x \in SUBSET D |->
                     IF x = {} THEN 0
                     ELSE it[x \ {Max(x)}] + s[Max(x)]]
            F == [v \in Nat |-> [i \in D |-> v + s[i]]]
<1>1. n \in Nat /\ DOMAIN s = D /\ \A i \in D : s[i] \in Nat
  OBVIOUS
<1>2. SumOf(s) = It[D]
  BY <1>1 DEF SumOf, FoldLeft, MapThenFoldSet
<1>3. F \in [Nat -> [D -> Nat]] /\ 0 \in Nat
  BY <1>1
<1>4. PICK g : FoldEq(g, Nat, n, 0, F)
  <2>. HIDE DEF F, n
  <2>. QED  BY <1>1, <1>3, FoldExists, Zenon
<1>5. \A x \in SUBSET D : x # {} => Max(x) \in D /\ x \ {Max(x)} \in SUBSET D
  BY <1>1, MaxOfSubset
<1>6. g = [x \in SUBSET D |-> IF x = {} THEN 0
                            ELSE g[x \ {Max(x)}] + s[Max(x)]]
  BY <1>1, <1>4, <1>5 DEF FoldEq
<1>7. It = [x \in SUBSET D |-> IF x = {} THEN 0
                             ELSE It[x \ {Max(x)}] + s[Max(x)]]
  <2>. HIDE DEF D, F
  <2>. QED  BY <1>6, Zenon
<1>. HIDE DEF It
<1>8. PICK h : Stages(h, It, Nat, n, 0, F)
  <2>1. FoldStep(It, Nat, n, 0, F)
    BY <1>7, <1>5 DEF FoldStep
  <2>. HIDE DEF F, n
  <2>. QED  BY <2>1, <1>1, <1>3, FoldRuns, Zenon
<1>9. ASSUME NEW i \in 1..n PROVE h[i] = h[i - 1] + s[i]
  <2>1. i - 1 \in 0..n
    BY <1>1
  <2>. QED  BY <1>8, <2>1 DEF Stages
<1>. HIDE DEF F
<1>. QED  BY <1>2, <1>8, <1>9 DEF Stages

(* A sum, by the values that it runs through. *)
Adds(h, s) ==
  /\ h \in [0..Len(s) -> Nat]
  /\ h[0] = 0
  /\ \A i \in 1..Len(s) : h[i] = h[i - 1] + s[i]

(* Such values exist,                                                                            *)
LEMMA SumRuns ==
  ASSUME NEW s \in Seq(Nat)
  PROVE  \E h : Adds(h, s) /\ SumOf(s) = h[Len(s)]
BY SumUnwinds DEF Adds

(* and there is only one way: values that add up as a sum does end in it.                        *)
LEMMA SumIs ==
  ASSUME NEW s \in Seq(Nat), NEW h, Adds(h, s)
  PROVE  SumOf(s) = h[Len(s)]
<1>1. PICK g : Adds(g, s) /\ SumOf(s) = g[Len(s)]
  BY SumRuns
<1>. DEFINE K == {i \in Nat : i <= Len(s) => g[i] = h[i]}
<1>2. Len(s) \in Nat
  OBVIOUS
<1>3. 0 \in K
  BY <1>1 DEF Adds
<1>4. ASSUME NEW i \in Nat, i \in K PROVE i + 1 \in K
  <2>. SUFFICES ASSUME i + 1 <= Len(s) PROVE g[i + 1] = h[i + 1]
    OBVIOUS
  <2>1. i + 1 \in 1..Len(s) /\ (i + 1) - 1 = i /\ g[i] = h[i]
    BY <1>2, <1>4
  <2>2. g[i + 1] = g[i] + s[i + 1] /\ h[i + 1] = h[i] + s[i + 1]
    BY <2>1, <1>1 DEF Adds
  <2>. QED  BY <2>1, <2>2
<1>. HIDE DEF K
<1>5. Len(s) \in K
  BY <1>2, <1>3, <1>4, Induction
<1>. QED  BY <1>1, <1>2, <1>5 DEF K

(* A sum of numbers is one.                                                                      *)
LEMMA SumNat ==
  ASSUME NEW s \in Seq(Nat)
  PROVE  SumOf(s) \in Nat
<1>1. PICK h : Adds(h, s) /\ SumOf(s) = h[Len(s)]
  BY SumRuns
<1>2. Len(s) \in 0..Len(s)
  OBVIOUS
<1>. QED  BY <1>1, <1>2 DEF Adds

(* Of none it is 0.                                                                              *)
LEMMA SumEmpty == SumOf(<< >>) = 0
<1>. DEFINE s == << >>
<1>1. s \in Seq(Nat) /\ Len(s) = 0
  OBVIOUS
<1>. HIDE DEF s
<1>2. PICK h : Adds(h, s) /\ SumOf(s) = h[Len(s)]
  BY <1>1, SumRuns
<1>. QED  BY <1>1, <1>2 DEF Adds, s

(* The first number added.                                                                       *)
LEMMA AddsFirst ==
  ASSUME NEW g, NEW t, Adds(g, t), 1 \in 1..Len(t)
  PROVE  g[1] = g[0] + t[1]
<1>1. \A i \in 1..Len(t) : g[i] = g[i - 1] + t[i]
  BY DEF Adds
<1>2. g[1] = g[1 - 1] + t[1]
  BY <1>1
<1>3. 1 - 1 = 0
  OBVIOUS
<1>. QED  BY <1>2, <1>3

(* The sum of two sequences, one behind the other.                                               *)
LEMMA SumConcat ==
  ASSUME NEW s \in Seq(Nat), NEW t \in Seq(Nat)
  PROVE  SumOf(s \o t) = SumOf(s) + SumOf(t)
<1>1. PICK f : Adds(f, s) /\ SumOf(s) = f[Len(s)]
  BY SumRuns
<1>2. PICK g : Adds(g, t) /\ SumOf(t) = g[Len(t)]
  BY SumRuns
<1>. DEFINE m == Len(s)
            n == Len(t)
            h == [k \in 0..(m + n) |-> IF k <= m THEN f[k] ELSE f[m] + g[k - m]]
<1>3. m \in Nat /\ n \in Nat
  OBVIOUS
<1>4. /\ f \in [0..m -> Nat] /\ f[0] = 0 /\ \A i \in 1..m : f[i] = f[i - 1] + s[i]
  BY <1>1 DEF Adds
<1>5. /\ g \in [0..n -> Nat] /\ g[0] = 0 /\ \A i \in 1..n : g[i] = g[i - 1] + t[i]
  BY <1>2 DEF Adds
<1>6. /\ s \o t \in Seq(Nat) /\ Len(s \o t) = m + n
      /\ \A i \in 1..(m + n) : (s \o t)[i] = IF i <= m THEN s[i] ELSE t[i - m]
  BY ConcatProperties
<1>7. SumOf(s) = f[m] /\ SumOf(t) = g[n]
  BY <1>1, <1>2
<1>. HIDE DEF m, n
<1>8. h \in [0..(m + n) -> Nat]
  <2>1. ASSUME NEW k \in 0..(m + n) PROVE (IF k <= m THEN f[k] ELSE f[m] + g[k - m]) \in Nat
    BY <1>3, <1>4, <1>5, SMTT(30)
  <2>. QED  BY <2>1
<1>9. h[0] = 0
  BY <1>3, <1>4
<1>10. ASSUME NEW i \in 1..(m + n) PROVE h[i] = h[i - 1] + (s \o t)[i]
  <2>1. i \in 0..(m + n) /\ i - 1 \in 0..(m + n)
    BY <1>3
  <2>2. CASE i <= m
    <3>1. i \in 1..m /\ i - 1 <= m
      BY <2>2, <1>3
    <3>. QED  BY <3>1, <2>1, <2>2, <1>4, <1>6
  <2>3. CASE i = m + 1
    <3>1. i - 1 = m /\ i - m = 1 /\ 1 \in 1..n /\ ~(i <= m)
      BY <2>3, <1>3
    <3>2. g[1] = g[0] + t[1]
      <4>1. Adds(g, t) /\ 1 \in 1..Len(t)
        BY <3>1, <1>2 DEF n
      <4>. QED  BY <4>1, AddsFirst
    <3>3. h[i] = f[m] + g[1] /\ h[i - 1] = f[m] /\ (s \o t)[i] = t[1]
      <4>1. (s \o t)[i] = IF i <= m THEN s[i] ELSE t[i - m]
        BY <1>6
      <4>2. h[i] = IF i <= m THEN f[i] ELSE f[m] + g[i - m]
        BY <2>1
      <4>3. h[i - 1] = IF i - 1 <= m THEN f[i - 1] ELSE f[m] + g[(i - 1) - m]
        BY <2>1
      <4>4. i - 1 <= m
        BY <3>1, <1>3
      <4>. HIDE DEF h, m, n
      <4>. QED  BY <4>1, <4>2, <4>3, <4>4, <3>1
    <3>4. f[m] \in Nat /\ g[1] \in Nat /\ t[1] \in Nat
      BY <3>1, <1>3, <1>4, <1>5 DEF n
    <3>. QED  BY <3>2, <3>3, <3>4, <1>5
  <2>4. CASE i > m + 1
    <3>1. i - m \in 1..n /\ (i - m) - 1 = (i - 1) - m /\ ~(i <= m) /\ ~(i - 1 <= m)
          /\ i - m \in 0..n /\ (i - m) - 1 \in 0..n
      BY <2>4, <1>3
    <3>2. g[i - m] = g[(i - 1) - m] + t[i - m]
      BY <3>1, <1>5
    <3>3. h[i] = f[m] + g[i - m] /\ h[i - 1] = f[m] + g[(i - 1) - m] /\ (s \o t)[i] = t[i - m]
      BY <3>1, <2>1, <1>6
    <3>4. f[m] \in Nat /\ g[(i - 1) - m] \in Nat
      BY <3>1, <1>3, <1>4, <1>5
    <3>5. t[i - m] \in Nat
      BY <3>1 DEF n
    <3>. QED  BY <3>2, <3>3, <3>4, <3>5
  <2>5. i <= m \/ i = m + 1 \/ i > m + 1
    BY <1>3
  <2>. HIDE DEF h
  <2>. QED  BY <2>2, <2>3, <2>4, <2>5
<1>. HIDE DEF h
<1>11. Adds(h, s \o t)
  BY <1>6, <1>8, <1>9, <1>10 DEF Adds
<1>12. SumOf(s \o t) = h[m + n]
  BY <1>6, <1>11, SumIs
<1>13. h[m + n] = f[m] + g[n]
  <2>1. m + n \in 0..(m + n) /\ (m + n) - m = n
    BY <1>3
  <2>2. CASE n = 0
    <3>1. f[m] \in Nat
      BY <1>3, <1>4
    <3>. QED  BY <3>1, <2>1, <2>2, <1>3, <1>5 DEF h
  <2>3. CASE n > 0
    BY <2>1, <2>3, <1>3 DEF h
  <2>. QED  BY <2>2, <2>3, <1>3
<1>. QED  BY <1>7, <1>12, <1>13

(* The sum of one number.                                                                        *)
LEMMA SumOfOne ==
  ASSUME NEW x \in Nat
  PROVE  SumOf(<<x>>) = x
<1>. DEFINE s == <<x>>
<1>1. s \in Seq(Nat) /\ Len(s) = 1 /\ s[1] = x
  OBVIOUS
<1>. HIDE DEF s
<1>2. PICK h : Adds(h, s) /\ SumOf(s) = h[Len(s)]
  BY <1>1, SumRuns
<1>3. h[1] = h[1 - 1] + s[1] /\ h[0] = 0
  BY <1>1, <1>2 DEF Adds
<1>. QED  BY <1>1, <1>2, <1>3 DEF s

(* The sum with one number more.                                                                 *)
LEMMA SumAppend ==
  ASSUME NEW s \in Seq(Nat), NEW x \in Nat
  PROVE  SumOf(Append(s, x)) = SumOf(s) + x
<1>1. Append(s, x) = s \o <<x>>
  OBVIOUS
<1>2. SumOf(s \o <<x>>) = SumOf(s) + SumOf(<<x>>)
  <2>1. <<x>> \in Seq(Nat)
    OBVIOUS
  <2>. QED  BY <2>1, SumConcat
<1>. QED  BY <1>1, <1>2, SumOfOne

(* All of a sum is in one place, or nowhere. *)
LEMMA SumAt ==
  ASSUME NEW s \in Seq(Nat), NEW k \in 1..Len(s), \A i \in 1..Len(s) : i # k => s[i] = 0
  PROVE  SumOf(s) = s[k]
<1>. DEFINE n == Len(s)
            h == [i \in 0..n |-> IF i < k THEN 0 ELSE s[k]]
<1>1. n \in Nat /\ s[k] \in Nat /\ k \in 1..n
  OBVIOUS
<1>2. \A i \in 1..n : i # k => s[i] = 0
  OBVIOUS
<1>3. ASSUME NEW i \in 1..n PROVE h[i] = h[i - 1] + s[i]
  <2>1. i \in 0..n /\ i - 1 \in 0..n
    BY <1>1
  <2>2. CASE i < k
    <3>1. i # k /\ i - 1 < k
      BY <2>2, <1>1
    <3>. QED  BY <3>1, <2>1, <2>2, <1>2
  <2>3. CASE i = k
    <3>1. i - 1 < k
      BY <2>3, <1>1
    <3>. QED  BY <3>1, <2>1, <2>3, <1>1
  <2>4. CASE i > k
    <3>1. ~(i < k) /\ ~(i - 1 < k) /\ i # k
      BY <2>4, <1>1
    <3>. QED  BY <3>1, <2>1, <1>1, <1>2
  <2>. QED  BY <2>2, <2>3, <2>4, <1>1
<1>4. h \in [0..n -> Nat] /\ h[0] = 0 /\ h[n] = s[k]
  BY <1>1
<1>. HIDE DEF h
<1>5. Adds(h, s)
  BY <1>3, <1>4 DEF Adds
<1>6. SumOf(s) = h[Len(s)]
  BY <1>5, SumIs
<1>. QED  BY <1>4, <1>6

(* A sum of zeros.                                                                               *)
LEMMA SumOfNone ==
  ASSUME NEW s \in Seq(Nat), \A i \in 1..Len(s) : s[i] = 0
  PROVE  SumOf(s) = 0
<1>1. CASE s = << >>
  BY <1>1, SumEmpty
<1>2. CASE s # << >>
  <2>1. 1 \in 1..Len(s)
    BY <1>2
  <2>2. SumOf(s) = s[1]
    BY <2>1, SumAt
  <2>. QED  BY <2>1, <2>2
<1>. QED  BY <1>1, <1>2

(* A sum of the first m: no more than of all, and all if nothing follows.                        *)
LEMMA SumPrefix ==
  ASSUME NEW s \in Seq(Nat), NEW m \in 0..Len(s), NEW t \in Seq(Nat),
         Len(t) = m, \A i \in 1..m : t[i] = s[i]
  PROVE  /\ SumOf(t) <= SumOf(s)
         /\ (\A i \in (m + 1)..Len(s) : s[i] = 0) => SumOf(t) = SumOf(s)
<1>. DEFINE n == Len(s) - m
            r == [i \in 1..n |-> s[m + i]]
<1>1. n \in Nat /\ m \in Nat /\ m + n = Len(s) /\ Len(s) \in Nat
  OBVIOUS
<1>2. ASSUME NEW i \in 1..n PROVE s[m + i] \in Nat /\ m + i \in (m + 1)..Len(s)
  <2>1. m + i \in 1..Len(s) /\ m + i \in (m + 1)..Len(s)
    BY <1>1
  <2>. QED  BY <2>1
<1>3. r \in Seq(Nat) /\ Len(r) = n /\ \A i \in 1..n : r[i] = s[m + i]
  <2>1. r \in [1..n -> Nat]
    BY <1>2
  <2>2. \A i \in 1..n : r[i] = s[m + i]
    OBVIOUS
  <2>. HIDE DEF r, n
  <2>3. r \in Seq(Nat) /\ Len(r) = n
    BY <2>1, <1>1, SMTT(30)
  <2>. QED  BY <2>2, <2>3
<1>. HIDE DEF r, n
<1>4. /\ t \o r \in Seq(Nat) /\ Len(t \o r) = m + n
      /\ \A i \in 1..(m + n) : (t \o r)[i] = IF i <= m THEN t[i] ELSE r[i - m]
  <2>1. r \in Seq(Nat)
    BY <1>3
  <2>2. /\ t \o r \in Seq(Nat) /\ Len(t \o r) = Len(t) + Len(r)
        /\ \A i \in 1..(Len(t) + Len(r)) : (t \o r)[i] = IF i <= Len(t) THEN t[i] ELSE r[i - Len(t)]
    BY <2>1, ConcatProperties
  <2>3. Len(t) = m /\ Len(r) = n
    BY <1>3
  <2>. QED  BY <2>2, <2>3, Zenon
<1>5. ASSUME NEW i \in 1..(m + n) PROVE (t \o r)[i] = s[i]
  <2>1. CASE i <= m
    <3>1. i \in 1..m
      BY <2>1, <1>1
    <3>2. (t \o r)[i] = t[i]
      BY <2>1, <1>4
    <3>. QED  BY <3>1, <3>2
  <2>2. CASE i > m
    <3>1. i - m \in 1..n /\ m + (i - m) = i /\ ~(i <= m)
      BY <2>2, <1>1
    <3>2. r[i - m] = s[i]
      BY <3>1, <1>3
    <3>3. (t \o r)[i] = IF i <= m THEN t[i] ELSE r[i - m]
      BY <1>4
    <3>4. (t \o r)[i] = r[i - m]
      BY <3>1, <3>3
    <3>. QED  BY <3>2, <3>4
  <2>3. i <= m \/ i > m
    BY <1>1
  <2>. QED  BY <2>1, <2>2, <2>3
<1>6. t \o r = s
  <2>. DEFINE u == t \o r
  <2>1. u \in Seq(Nat) /\ Len(u) = Len(s) /\ \A i \in 1..Len(u) : u[i] = s[i]
    BY <1>1, <1>4, <1>5
  <2>. HIDE DEF u
  <2>2. u = s
    BY <2>1, SeqEqual
  <2>. QED  BY <2>2 DEF u
<1>7. SumOf(s) = SumOf(t) + SumOf(r)
  BY <1>3, <1>6, SumConcat
<1>8. SumOf(t) \in Nat /\ SumOf(r) \in Nat
  BY <1>3, SumNat
<1>9. ASSUME \A i \in (m + 1)..Len(s) : s[i] = 0 PROVE SumOf(r) = 0
  <2>1. \A i \in 1..Len(r) : r[i] = 0
    BY <1>2, <1>3, <1>9
  <2>. QED  BY <2>1, <1>3, SumOfNone
<1>. QED  BY <1>7, <1>8, <1>9

(* What a unit has of a line, units have, and a list of chunks has.                              *)
LenOn(u, i) == IF u.line = i THEN u.len ELSE 0

Shares(units, i) == [k \in DOMAIN units |-> LenOn(units[k], i)]

Total(chunks, i) == SumOf([a \in DOMAIN chunks |-> Share(chunks[a], i)])

(* What a sequence is made of when each of its elements is a number. *)
LEMMA SeqOfAll ==
  ASSUME NEW n \in Nat, NEW s, DOMAIN s = 1..n, s = [k \in 1..n |-> s[k]],
         NEW V, \A k \in 1..n : s[k] \in V
  PROVE  s \in Seq(V) /\ Len(s) = n
<1>1. s \in [1..n -> V]
  OBVIOUS
<1>. QED  BY <1>1

(* A sequence with one element more.                                                             *)
LEMMA AppendOf ==
  ASSUME NEW V, NEW s \in Seq(V), NEW x \in V
  PROVE  /\ Append(s, x) \in Seq(V) /\ Append(s, x) # << >> /\ Len(Append(s, x)) = Len(s) + 1
         /\ Append(s, x)[Len(s) + 1] = x
         /\ \A i \in 1..(Len(s) + 1) : i # Len(s) + 1 => Append(s, x)[i] = s[i]
OBVIOUS

(* What is of a line among units is a sum over the units;                                        *)
LEMMA SharesType ==
  ASSUME NEW units \in Seq(Units), NEW i \in Nat
  PROVE  /\ Shares(units, i) \in Seq(Nat)
         /\ Len(Shares(units, i)) = Len(units)
         /\ \A k \in 1..Len(units) : Shares(units, i)[k] = LenOn(units[k], i)
         /\ Share(units, i) = SumOf(Shares(units, i))
         /\ Share(units, i) \in Nat
<1>1. \A k \in 1..Len(units) : units[k].line \in Nat /\ units[k].len \in Nat
  <2>1. \A k \in 1..Len(units) : units[k] \in Units
    OBVIOUS
  <2>. QED  BY <2>1 DEF Units
<1>2. Shares(units, i) \in Seq(Nat) /\ Len(Shares(units, i)) = Len(units)
  <2>1. \A k \in 1..Len(units) : LenOn(units[k], i) \in Nat
    BY <1>1 DEF LenOn
  <2>2. [k \in 1..Len(units) |-> LenOn(units[k], i)] \in [1..Len(units) -> Nat]
    BY <2>1
  <2>. QED  BY <2>2 DEF Shares
<1>3. Share(units, i) = SumOf(Shares(units, i))
  BY DEF Share, Shares, LenOn
<1>4. SumOf(Shares(units, i)) \in Nat
  BY <1>2, SumNat
<1>. QED  BY <1>2, <1>3, <1>4 DEF Shares

(* of two runs of units together,                                                                *)
LEMMA ShareConcat ==
  ASSUME NEW s \in Seq(Units), NEW t \in Seq(Units), NEW i \in Nat
  PROVE  Share(s \o t, i) = Share(s, i) + Share(t, i)
<1>. DEFINE m == Len(s)
            n == Len(t)
<1>1. m \in Nat /\ n \in Nat
  OBVIOUS
<1>2. /\ s \o t \in Seq(Units) /\ Len(s \o t) = m + n
      /\ \A k \in 1..(m + n) : (s \o t)[k] = IF k <= m THEN s[k] ELSE t[k - m]
  BY ConcatProperties
<1>3. /\ Shares(s, i) \in Seq(Nat) /\ Len(Shares(s, i)) = m
      /\ Share(s, i) = SumOf(Shares(s, i))
      /\ \A k \in 1..m : Shares(s, i)[k] = LenOn(s[k], i)
  BY SharesType
<1>4. /\ Shares(t, i) \in Seq(Nat) /\ Len(Shares(t, i)) = n
      /\ Share(t, i) = SumOf(Shares(t, i))
      /\ \A k \in 1..n : Shares(t, i)[k] = LenOn(t[k], i)
  BY SharesType
<1>5. /\ Shares(s \o t, i) \in Seq(Nat) /\ Len(Shares(s \o t, i)) = m + n
      /\ Share(s \o t, i) = SumOf(Shares(s \o t, i))
      /\ \A k \in 1..(m + n) : Shares(s \o t, i)[k] = LenOn((s \o t)[k], i)
  <2>. DEFINE u == s \o t
  <2>1. u \in Seq(Units) /\ Len(u) = m + n
    BY <1>2
  <2>. HIDE DEF u, m, n
  <2>2. /\ Shares(u, i) \in Seq(Nat) /\ Len(Shares(u, i)) = m + n
        /\ Share(u, i) = SumOf(Shares(u, i))
        /\ \A k \in 1..(m + n) : Shares(u, i)[k] = LenOn(u[k], i)
    BY <2>1, SharesType
  <2>. QED  BY <2>2 DEF u
<1>6. Shares(s \o t, i) = Shares(s, i) \o Shares(t, i)
  <2>. DEFINE a == Shares(s, i)
              b == Shares(t, i)
              c == Shares(s \o t, i)
  <2>1. /\ a \o b \in Seq(Nat) /\ Len(a \o b) = m + n
        /\ \A k \in 1..(m + n) : (a \o b)[k] = IF k <= m THEN a[k] ELSE b[k - m]
    BY <1>3, <1>4, ConcatProperties
  <2>2. ASSUME NEW k \in 1..(m + n) PROVE c[k] = (a \o b)[k]
    <3>1. CASE k <= m
      <4>1. k \in 1..m
        BY <3>1, <1>1
      <4>. QED  BY <4>1, <3>1, <2>1, <1>2, <1>3, <1>5
    <3>2. CASE k > m
      <4>1. k - m \in 1..n /\ ~(k <= m)
        BY <3>2, <1>1
      <4>. QED  BY <4>1, <2>1, <1>2, <1>4, <1>5
    <3>3. k <= m \/ k > m
      BY <1>1
    <3>. QED  BY <3>1, <3>2, <3>3
  <2>3. c \in Seq(Nat) /\ Len(c) = m + n
    BY <1>5
  <2>. HIDE DEF a, b, c, m, n
  <2>. DEFINE d == a \o b
  <2>4. d \in Seq(Nat) /\ Len(d) = m + n /\ \A k \in 1..(m + n) : c[k] = d[k]
    BY <2>1, <2>2
  <2>. HIDE DEF d
  <2>5. c = d
    BY <2>3, <2>4, SeqEqual
  <2>. QED  BY <2>5 DEF a, b, c, d
<1>7. SumOf(Shares(s, i) \o Shares(t, i)) = SumOf(Shares(s, i)) + SumOf(Shares(t, i))
  BY <1>3, <1>4, SumConcat
<1>. QED  BY <1>3, <1>4, <1>5, <1>6, <1>7

(* of one unit,                                                                                  *)
LEMMA ShareOne ==
  ASSUME NEW u \in Units, NEW i \in Nat
  PROVE  Share(<<u>>, i) = LenOn(u, i)
<1>. DEFINE s == <<u>>
<1>1. s \in Seq(Units) /\ Len(s) = 1 /\ s[1] = u
  OBVIOUS
<1>2. LenOn(u, i) \in Nat
  BY DEF LenOn, Units
<1>. HIDE DEF s
<1>3. /\ Shares(s, i) \in Seq(Nat) /\ Len(Shares(s, i)) = 1 /\ Shares(s, i)[1] = LenOn(u, i)
      /\ Share(s, i) = SumOf(Shares(s, i))
  BY <1>1, SharesType
<1>4. SumOf(Shares(s, i)) = Shares(s, i)[1]
  <2>1. 1 \in 1..Len(Shares(s, i)) /\ \A k \in 1..Len(Shares(s, i)) : k = 1
    BY <1>3
  <2>. QED  BY <2>1, <1>3, SumAt
<1>. QED  BY <1>3, <1>4 DEF s

(* with one unit more,                                                                           *)
LEMMA ShareAppend ==
  ASSUME NEW s \in Seq(Units), NEW u \in Units, NEW i \in Nat
  PROVE  Share(Append(s, u), i) = Share(s, i) + LenOn(u, i)
<1>1. Append(s, u) = s \o <<u>> /\ <<u>> \in Seq(Units)
  OBVIOUS
<1>2. Share(s \o <<u>>, i) = Share(s, i) + Share(<<u>>, i)
  BY <1>1, ShareConcat
<1>. QED  BY <1>1, <1>2, ShareOne

(* and of none.                                                                                  *)
LEMMA ShareEmpty ==
  ASSUME NEW i \in Nat
  PROVE  Share(<< >>, i) = 0
<1>. DEFINE s == << >>
<1>1. s \in Seq(Units) /\ Len(s) = 0
  OBVIOUS
<1>. HIDE DEF s
<1>2. Shares(s, i) \in Seq(Nat) /\ Len(Shares(s, i)) = 0 /\ Share(s, i) = SumOf(Shares(s, i))
  BY <1>1, SharesType
<1>3. SumOf(Shares(s, i)) = 0
  <2>1. \A k \in 1..Len(Shares(s, i)) : Shares(s, i)[k] = 0
    BY <1>2
  <2>. QED  BY <2>1, <1>2, SumOfNone
<1>. QED  BY <1>2, <1>3 DEF s

(* What is in a list of chunks is what is in each. *)
LEMMA TotalType ==
  ASSUME NEW L \in Seq(Seq(Units)), NEW i \in Nat
  PROVE  /\ [a \in DOMAIN L |-> Share(L[a], i)] \in Seq(Nat)
         /\ Len([a \in DOMAIN L |-> Share(L[a], i)]) = Len(L)
         /\ Total(L, i) \in Nat
<1>1. \A a \in 1..Len(L) : Share(L[a], i) \in Nat
  BY SharesType
<1>2. [a \in 1..Len(L) |-> Share(L[a], i)] \in [1..Len(L) -> Nat]
  BY <1>1
<1>3. [a \in DOMAIN L |-> Share(L[a], i)] \in Seq(Nat)
      /\ Len([a \in DOMAIN L |-> Share(L[a], i)]) = Len(L)
  <2>. DEFINE n == Len(L)
              s == [a \in 1..n |-> Share(L[a], i)]
  <2>1. n \in Nat /\ DOMAIN L = 1..n /\ s \in [1..n -> Nat]
    BY <1>2
  <2>2. s \in Seq(Nat) /\ Len(s) = n
    <3>. HIDE DEF n
    <3>1. DOMAIN s = 1..n
      OBVIOUS
    <3>. HIDE DEF s
    <3>. QED  BY <3>1, <2>1
  <2>. QED  BY <2>1, <2>2
<1>. QED  BY <1>3, SumNat DEF Total

(* With one chunk more,                                                                          *)
LEMMA TotalAppend ==
  ASSUME NEW L \in Seq(Seq(Units)), NEW c \in Seq(Units), NEW i \in Nat
  PROVE  Total(Append(L, c), i) = Total(L, i) + Share(c, i)
<1>. DEFINE s == [a \in DOMAIN L |-> Share(L[a], i)]
            t == [a \in DOMAIN Append(L, c) |-> Share(Append(L, c)[a], i)]
<1>1. s \in Seq(Nat) /\ Len(s) = Len(L) /\ Share(c, i) \in Nat
  BY TotalType, SharesType
<1>2. /\ Append(L, c) \in Seq(Seq(Units)) /\ Len(Append(L, c)) = Len(L) + 1
      /\ \A a \in 1..Len(L) : Append(L, c)[a] = L[a]
      /\ Append(L, c)[Len(L) + 1] = c
  OBVIOUS
<1>3. t \in Seq(Nat) /\ Len(t) = Len(L) + 1
  BY <1>2, TotalType
<1>4. ASSUME NEW a \in 1..Len(t) PROVE t[a] = Append(s, Share(c, i))[a]
  <2>1. CASE a \in 1..Len(L)
    BY <2>1, <1>1, <1>2
  <2>2. CASE a = Len(L) + 1
    <3>1. a \in DOMAIN Append(L, c) /\ Append(L, c)[a] = c
      BY <2>2, <1>2
    <3>2. t[a] = Share(c, i)
      BY <3>1
    <3>3. Append(s, Share(c, i))[Len(s) + 1] = Share(c, i)
      BY <1>1
    <3>. QED  BY <2>2, <3>2, <3>3, <1>1
  <2>3. a \in 1..Len(L) \/ a = Len(L) + 1
    BY <1>3
  <2>. QED  BY <2>1, <2>2, <2>3
<1>. HIDE DEF s, t
<1>5. t = Append(s, Share(c, i))
  <2>. DEFINE d == Append(s, Share(c, i))
  <2>1. d \in Seq(Nat) /\ Len(d) = Len(t) /\ \A a \in 1..Len(t) : t[a] = d[a]
    BY <1>1, <1>3, <1>4
  <2>. HIDE DEF d
  <2>2. t = d
    BY <2>1, <1>3, SeqEqual
  <2>. QED  BY <2>2 DEF d
<1>6. SumOf(t) = SumOf(s) + Share(c, i)
  BY <1>1, <1>5, SumAppend
<1>. QED  BY <1>6 DEF Total, s, t

(* of none,                                                                                      *)
LEMMA TotalEmpty ==
  ASSUME NEW i \in Nat
  PROVE  Total(<< >>, i) = 0
<1>1. [a \in DOMAIN << >> |-> Share(<< >>[a], i)] = << >>
  OBVIOUS
<1>. QED  BY <1>1, SumEmpty DEF Total

(* What a unit adds to a rendered chunk: itself, a newline, and two fences if it begins a run.   *)
Width(units, i) ==
  units[i].len + 1
  + IF BeginsRun(units, i) THEN 2 * units[i].fence + units[i].info + 2 ELSE 0

Widths(units) == [i \in DOMAIN units |-> Width(units, i)]

(* The length of a rendered chunk is a sum of widths, each of a unit and of the one before it.   *)
LEMMA WidthsType ==
  ASSUME NEW units \in Seq(Units)
  PROVE  /\ Widths(units) \in Seq(Nat)
         /\ Len(Widths(units)) = Len(units)
         /\ \A i \in 1..Len(units) : Widths(units)[i] = Width(units, i)
         /\ RenderedLen(units) = SumOf(Widths(units)) - 1
         /\ RenderedLen(units) \in Int
<1>1. ASSUME NEW i \in 1..Len(units) PROVE Width(units, i) \in Nat
  <2>1. units[i] \in Units
    OBVIOUS
  <2>2. units[i].len \in Nat /\ units[i].fence \in Nat /\ units[i].info \in Nat
    BY <2>1 DEF Units
  <2>3. 2 * units[i].fence + units[i].info + 2 \in Nat
    BY <2>2, SMTT(30)
  <2>4. CASE BeginsRun(units, i)
    BY <2>2, <2>3, <2>4, SMTT(30) DEF Width
  <2>5. CASE ~BeginsRun(units, i)
    BY <2>2, <2>5 DEF Width
  <2>. QED  BY <2>4, <2>5
<1>2. Widths(units) \in Seq(Nat) /\ Len(Widths(units)) = Len(units)
  <2>1. [i \in 1..Len(units) |-> Width(units, i)] \in [1..Len(units) -> Nat]
    BY <1>1
  <2>. QED  BY <2>1 DEF Widths
<1>3. RenderedLen(units) = SumOf(Widths(units)) - 1
  BY DEF RenderedLen, Widths, Width
<1>4. SumOf(Widths(units)) \in Nat
  BY <1>2, SumNat
<1>. QED  BY <1>2, <1>3, <1>4 DEF Widths

(* A unit alone is as long as it and its fences,                                                 *)
LEMMA SoloNat ==
  ASSUME NEW u \in Units
  PROVE  SoloLen(u) \in Nat
<1>1. u.len \in Nat /\ u.fence \in Nat /\ u.info \in Nat
  BY DEF Units
<1>2. 2 * u.fence + u.info + u.len + 2 \in Nat
  BY <1>1
<1>. QED  BY <1>1, <1>2 DEF SoloLen

(* and so it is rendered.                                                                        *)
LEMMA RenderOne ==
  ASSUME NEW u \in Units
  PROVE  RenderedLen(<<u>>) = SoloLen(u)
<1>. DEFINE s == <<u>>
<1>1. s \in Seq(Units) /\ Len(s) = 1 /\ s[1] = u
  OBVIOUS
<1>2. u.len \in Nat /\ u.fence \in Nat /\ u.info \in Nat
  BY DEF Units
<1>. HIDE DEF s
<1>3. /\ Widths(s) \in Seq(Nat) /\ Len(Widths(s)) = 1 /\ Widths(s)[1] = Width(s, 1)
      /\ RenderedLen(s) = SumOf(Widths(s)) - 1
  BY <1>1, WidthsType
<1>4. SumOf(Widths(s)) = Widths(s)[1]
  <2>1. 1 \in 1..Len(Widths(s)) /\ \A k \in 1..Len(Widths(s)) : k = 1
    BY <1>3
  <2>. QED  BY <2>1, <1>3, SumAt
<1>5. BeginsRun(s, 1) <=> IsCode(u)
  BY <1>1 DEF BeginsRun
<1>6. Width(s, 1) = SoloLen(u) + 1
  <2>1. CASE IsCode(u)
    BY <2>1, <1>1, <1>2, <1>5 DEF Width, SoloLen
  <2>2. CASE ~IsCode(u)
    BY <2>2, <1>1, <1>2, <1>5 DEF Width, SoloLen
  <2>. QED  BY <2>1, <2>2
<1>7. SoloLen(u) \in Nat
  BY <1>2 DEF SoloLen
<1>. QED  BY <1>3, <1>4, <1>6, <1>7 DEF s

(* The code adds up sizes by AppendCost: it is just what the rendered chunk grows by.            *)
LEMMA RenderAppend ==
  ASSUME NEW s \in Seq(Units), s # << >>, NEW u \in Units
  PROVE  RenderedLen(Append(s, u)) = RenderedLen(s) + AppendCost(TailOf(Last(s)), u)
<1>. DEFINE n == Len(s)
            t == Append(s, u)
<1>1. n \in Nat /\ n > 0 /\ s[n] \in Units /\ Last(s) = s[n]
  BY DEF Last
<1>2. t \in Seq(Units) /\ Len(t) = n + 1 /\ t[n + 1] = u /\ \A i \in 1..n : t[i] = s[i]
  OBVIOUS
<1>3. u.len \in Nat /\ u.fence \in Nat /\ u.info \in Nat
  BY DEF Units
<1>4. /\ Widths(s) \in Seq(Nat) /\ Len(Widths(s)) = n
      /\ \A i \in 1..n : Widths(s)[i] = Width(s, i)
      /\ RenderedLen(s) = SumOf(Widths(s)) - 1
  BY WidthsType
<1>. HIDE DEF t, n
<1>5. /\ Widths(t) \in Seq(Nat) /\ Len(Widths(t)) = n + 1
      /\ \A i \in 1..(n + 1) : Widths(t)[i] = Width(t, i)
      /\ RenderedLen(t) = SumOf(Widths(t)) - 1
  BY <1>2, WidthsType
<1>6. ASSUME NEW i \in 1..n PROVE Width(t, i) = Width(s, i)
  <2>1. t[i] = s[i]
    BY <1>2
  <2>2. CASE i = 1
    BY <2>1, <2>2 DEF Width, BeginsRun
  <2>3. CASE i # 1
    <3>1. i - 1 \in 1..n
      BY <2>3, <1>1
    <3>2. t[i - 1] = s[i - 1]
      BY <3>1, <1>2
    <3>. QED  BY <2>1, <3>2 DEF Width, BeginsRun
  <2>. QED  BY <2>2, <2>3
<1>7. Width(t, n + 1) = AppendCost(TailOf(Last(s)), u)
  <2>1. n + 1 # 1 /\ (n + 1) - 1 = n /\ n \in 1..n
    BY <1>1
  <2>2. BeginsRun(t, n + 1) <=> IsCode(u) /\ (s[n].fence # u.fence \/ s[n].info # u.info)
    BY <2>1, <1>2 DEF BeginsRun
  <2>3. TailOf(Last(s)) = <<s[n].fence, s[n].info>>
    BY <1>1 DEF TailOf
  <2>4. TailOf(Last(s)) = <<u.fence, u.info>> <=> s[n].fence = u.fence /\ s[n].info = u.info
    BY <2>3
  <2>5. Width(t, n + 1) = u.len + 1 + IF BeginsRun(t, n + 1) THEN 2 * u.fence + u.info + 2 ELSE 0
    BY <1>2 DEF Width
  <2>6. CASE IsCode(u) /\ TailOf(Last(s)) = <<u.fence, u.info>>
    BY <2>2, <2>4, <2>5, <2>6, <1>3 DEF AppendCost
  <2>7. CASE IsCode(u) /\ TailOf(Last(s)) # <<u.fence, u.info>>
    <3>1a. BeginsRun(t, n + 1)
      BY <2>2, <2>4, <2>7
    <3>1b. AppendCost(TailOf(Last(s)), u) = 1 + SoloLen(u)
      BY <2>7 DEF AppendCost
    <3>1. BeginsRun(t, n + 1) /\ AppendCost(TailOf(Last(s)), u) = 1 + SoloLen(u)
      BY <3>1a, <3>1b
    <3>2. SoloLen(u) = 2 * u.fence + u.info + u.len + 2
      BY <2>7 DEF SoloLen
    <3>3. Width(t, n + 1) = u.len + 1 + (2 * u.fence + u.info + 2)
      BY <3>1, <2>5
    <3>4. 1 + SoloLen(u) = u.len + 1 + (2 * u.fence + u.info + 2)
      <4>1. \A x, y, z \in Nat : 1 + (2 * y + z + x + 2) = x + 1 + (2 * y + z + 2)
        OBVIOUS
      <4>2. 1 + (2 * u.fence + u.info + u.len + 2) = u.len + 1 + (2 * u.fence + u.info + 2)
        BY <4>1, <1>3
      <4>. QED  BY <3>2, <4>2
    <3>. QED  BY <3>1, <3>3, <3>4
  <2>8. CASE ~IsCode(u)
    BY <2>2, <2>5, <2>8, <1>3 DEF AppendCost, SoloLen
  <2>. QED  BY <2>6, <2>7, <2>8
<1>8. AppendCost(TailOf(Last(s)), u) \in Nat
  <2>1. 2 * u.fence + u.info + u.len + 2 \in Nat
    BY <1>3, SMTT(30)
  <2>2. SoloLen(u) \in Nat
    BY <2>1, <1>3 DEF SoloLen
  <2>. QED  BY <2>2, <1>3 DEF AppendCost
<1>9. Widths(t) = Append(Widths(s), AppendCost(TailOf(Last(s)), u))
  <2>. DEFINE c == AppendCost(TailOf(Last(s)), u)
              d == Append(Widths(s), c)
  <2>. HIDE DEF c
  <2>0. c \in Nat /\ Width(t, n + 1) = c
    BY <1>7, <1>8 DEF c
  <2>1. d \in Seq(Nat) /\ Len(d) = n + 1 /\ d[n + 1] = c /\ \A i \in 1..n : d[i] = Widths(s)[i]
    BY <1>4, <2>0
  <2>. HIDE DEF d
  <2>2. ASSUME NEW i \in 1..(n + 1) PROVE Widths(t)[i] = d[i]
    <3>1. CASE i \in 1..n
      BY <3>1, <2>1, <1>4, <1>5, <1>6
    <3>2. CASE i = n + 1
      BY <3>2, <2>0, <2>1, <1>5
    <3>3. i \in 1..n \/ i = n + 1
      BY <1>1
    <3>. QED  BY <3>1, <3>2, <3>3
  <2>3. Widths(t) = d
    BY <2>1, <2>2, <1>5, SeqEqual
  <2>. QED  BY <2>3 DEF c, d
<1>10. SumOf(Widths(t)) = SumOf(Widths(s)) + AppendCost(TailOf(Last(s)), u)
  BY <1>4, <1>8, <1>9, SumAppend
<1>11. SumOf(Widths(s)) \in Nat
  BY <1>4, SumNat
<1>. QED  BY <1>4, <1>5, <1>8, <1>10, <1>11 DEF t

(* Less of a chunk is not longer than all of it. *)
LEMMA RenderPrefix ==
  ASSUME NEW s \in Seq(Units), NEW m \in 0..Len(s), NEW t \in Seq(Units),
         Len(t) = m, \A i \in 1..m : t[i] = s[i]
  PROVE  RenderedLen(t) <= RenderedLen(s)
<1>1. /\ Widths(s) \in Seq(Nat) /\ Len(Widths(s)) = Len(s)
      /\ \A i \in 1..Len(s) : Widths(s)[i] = Width(s, i)
      /\ RenderedLen(s) = SumOf(Widths(s)) - 1
  BY WidthsType
<1>2. /\ Widths(t) \in Seq(Nat) /\ Len(Widths(t)) = m
      /\ \A i \in 1..m : Widths(t)[i] = Width(t, i)
      /\ RenderedLen(t) = SumOf(Widths(t)) - 1
  BY WidthsType
<1>3. ASSUME NEW i \in 1..m PROVE Widths(t)[i] = Widths(s)[i]
  <2>1. t[i] = s[i] /\ i \in 1..Len(s)
    OBVIOUS
  <2>2. CASE i = 1
    BY <2>1, <2>2, <1>1, <1>2, SMTT(30) DEF Width, BeginsRun
  <2>3. CASE i # 1
    <3>1. i - 1 \in 1..m
      BY <2>3
    <3>2. t[i - 1] = s[i - 1]
      BY <3>1
    <3>3. Width(t, i) = Width(s, i)
      BY <2>1, <3>2 DEF Width, BeginsRun
    <3>. QED  BY <2>1, <3>3, <1>1, <1>2
  <2>. QED  BY <2>2, <2>3
<1>4. SumOf(Widths(t)) <= SumOf(Widths(s))
  <2>. DEFINE a == Widths(s)
              b == Widths(t)
  <2>1. a \in Seq(Nat) /\ b \in Seq(Nat) /\ m \in 0..Len(a) /\ Len(b) = m
        /\ \A i \in 1..m : b[i] = a[i]
    BY <1>1, <1>2, <1>3
  <2>. HIDE DEF a, b
  <2>2. SumOf(b) <= SumOf(a)
    BY <2>1, SumPrefix
  <2>. QED  BY <2>2 DEF a, b
<1>5. SumOf(Widths(s)) \in Nat /\ SumOf(Widths(t)) \in Nat
  BY <1>1, <1>2, SumNat
<1>. QED  BY <1>1, <1>2, <1>4, <1>5

(* Where a piece of prose may end, and one unfolding of Cuts.                                    *)
Ends == LET half == IF MaxChars \div 2 > 1 THEN MaxChars \div 2 ELSE 1
        IN {c \in half..MaxChars : c > half \/ c = MaxChars}

CutStep(f, n) ==
  IF n <= MaxChars THEN {<<n>>}
  ELSE UNION {{<<cut>> \o rest : rest \in f[n - cut]} : cut \in Ends}

(* A piece of prose is not empty and fits.                                                       *)
LEMMA EndsFacts ==
  /\ MaxChars \in Nat /\ MaxChars > 0
  /\ \A c \in Ends : c \in Nat /\ c > 0 /\ c <= MaxChars
<1>. DEFINE half == IF MaxChars \div 2 > 1 THEN MaxChars \div 2 ELSE 1
<1>1. MaxChars \in Nat /\ MaxChars > 0
  BY ChunkingAssumption DEF ChunkingAssumption
<1>2. half \in Nat /\ half >= 1
  BY <1>1
<1>3. Ends = {c \in half..MaxChars : c > half \/ c = MaxChars}
  BY DEF Ends
<1>. HIDE DEF half
<1>. QED  BY <1>1, <1>2, <1>3

(* One unfolding looks at shorter lines only.                                                    *)
LEMMA CutStepSame ==
  ASSUME NEW n \in Nat, NEW f, NEW g, \A m \in Nat : m < n => f[m] = g[m]
  PROVE  CutStep(f, n) = CutStep(g, n)
<1>1. CASE n <= MaxChars
  BY <1>1 DEF CutStep
<1>2. CASE ~(n <= MaxChars)
  <2>1. ASSUME NEW c \in Ends PROVE f[n - c] = g[n - c]
    <3>1. n - c \in Nat /\ n - c < n
      BY <1>2, EndsFacts
    <3>. QED  BY <3>1
  <2>2. {{<<cut>> \o rest : rest \in f[n - cut]} : cut \in Ends}
        = {{<<cut>> \o rest : rest \in g[n - cut]} : cut \in Ends}
    BY <2>1
  <2>. QED  BY <1>2, <2>2 DEF CutStep
<1>. QED  BY <1>1, <1>2

(* A function that is what Cuts must be, up to n.                                                *)
CutsTo(f, n) == \A m \in Nat : m <= n => f[m] = CutStep(f, m)

(* There is one such function at most,                                                           *)
LEMMA CutsToSame ==
  ASSUME NEW n \in Nat, NEW f, NEW g, CutsTo(f, n), CutsTo(g, n)
  PROVE  \A m \in Nat : m <= n => f[m] = g[m]
<1>. DEFINE K == {k \in Nat : \A m \in Nat : m <= n /\ m <= k => f[m] = g[m]}
<1>1. ASSUME NEW k \in Nat, \A m \in Nat : m <= n /\ m < k => f[m] = g[m] PROVE k \in K
  <2>. SUFFICES ASSUME NEW m \in Nat, m <= n, m <= k PROVE f[m] = g[m]
    OBVIOUS
  <2>1. \A l \in Nat : l < m => f[l] = g[l]
    BY <1>1
  <2>2. CutStep(f, m) = CutStep(g, m)
    BY <2>1, CutStepSame
  <2>. QED  BY <2>2 DEF CutsTo
<1>2. 0 \in K
  BY <1>1
<1>3. ASSUME NEW k \in Nat, k \in K PROVE k + 1 \in K
  <2>1. \A m \in Nat : m <= n /\ m < k + 1 => f[m] = g[m]
    BY <1>3
  <2>. QED  BY <2>1, <1>1
<1>. HIDE DEF K
<1>4. n \in K
  BY <1>2, <1>3, Induction
<1>. QED  BY <1>4 DEF K

(* and there is one,                                                                             *)
LEMMA CutsToExists ==
  ASSUME NEW n \in Nat
  PROVE  \E f : CutsTo(f, n)
<1>. DEFINE K == {k \in Nat : \E f : CutsTo(f, k)}
<1>1. ASSUME NEW k \in Nat, NEW f, \A m \in Nat : m < k => f[m] = CutStep(f, m) PROVE k \in K
  <2>. DEFINE g == [m \in Nat |-> IF m = k THEN CutStep(f, k) ELSE f[m]]
  <2>1. \A m \in Nat : m < k => g[m] = f[m]
    OBVIOUS
  <2>2. g[k] = CutStep(f, k)
    OBVIOUS
  <2>. HIDE DEF g
  <2>3. ASSUME NEW m \in Nat, m <= k PROVE g[m] = CutStep(g, m)
    <3>1. \A l \in Nat : l < m => g[l] = f[l]
      BY <2>1, <2>3
    <3>2. CutStep(g, m) = CutStep(f, m)
      BY <3>1, CutStepSame
    <3>3. CASE m = k
      BY <3>2, <3>3, <2>2
    <3>4. CASE m < k
      BY <3>2, <3>4, <2>1, <1>1
    <3>. QED  BY <3>3, <3>4, <2>3
  <2>4. CutsTo(g, k)
    BY <2>3 DEF CutsTo
  <2>. QED  BY <2>4
<1>2. 0 \in K
  <2>1. \A m \in Nat : m < 0 => [i \in {} |-> 0][m] = CutStep([i \in {} |-> 0], m)
    OBVIOUS
  <2>. HIDE DEF K
  <2>. QED  BY <2>1, <1>1, Zenon
<1>3. ASSUME NEW k \in Nat, k \in K PROVE k + 1 \in K
  <2>1. PICK f : CutsTo(f, k)
    BY <1>3
  <2>2. \A m \in Nat : m < k + 1 => f[m] = CutStep(f, m)
    BY <2>1 DEF CutsTo
  <2>. HIDE DEF K
  <2>. QED  BY <2>2, <1>1
<1>. HIDE DEF K
<1>4. n \in K
  BY <1>2, <1>3, Induction
<1>. QED  BY <1>4 DEF K

(* so Cuts is what its definition says.                                                          *)
LEMMA CutsUnfold ==
  ASSUME NEW n \in Nat
  PROVE  Cuts[n] = CutStep(Cuts, n)
<1>. DEFINE best(m) == CHOOSE f : CutsTo(f, m)
            g == [m \in Nat |-> best(m)[m]]
<1>1. ASSUME NEW m \in Nat PROVE CutsTo(best(m), m)
  BY CutsToExists
<1>. HIDE DEF best
<1>2. ASSUME NEW m \in Nat PROVE g[m] = CutStep(g, m)
  <2>1. best(m)[m] = CutStep(best(m), m)
    BY <1>1 DEF CutsTo
  <2>2. ASSUME NEW l \in Nat, l < m PROVE best(m)[l] = g[l]
    <3>1. CutsTo(best(m), l)
      BY <1>1, <2>2 DEF CutsTo
    <3>2. CutsTo(best(l), l)
      BY <1>1
    <3>3. best(m)[l] = best(l)[l]
      BY <3>1, <3>2, CutsToSame
    <3>. QED  BY <3>3
  <2>3. CutStep(best(m), m) = CutStep(g, m)
    <3>. HIDE DEF g
    <3>. QED  BY <2>2, CutStepSame
  <2>. QED  BY <2>1, <2>3
<1>3. g = [m \in Nat |-> CutStep(g, m)]
  <2>1. g = [m \in Nat |-> g[m]]
    OBVIOUS
  <2>. HIDE DEF g
  <2>2. [m \in Nat |-> g[m]] = [m \in Nat |-> CutStep(g, m)]
    BY <1>2
  <2>. QED  BY <2>1, <2>2
<1>. HIDE DEF g
<1>4. Cuts = [m \in Nat |-> CutStep(Cuts, m)]
  BY <1>3 DEF Cuts, CutStep, Ends
<1>. QED  BY <1>4

(* The pieces that a line of prose is cut into are as long as it together, and each fits.        *)
CutOf(cut, n) ==
  /\ cut \in Seq(Nat) /\ Len(cut) > 0 /\ SumOf(cut) = n
  /\ \A i \in 1..Len(cut) : cut[i] <= MaxChars

(* So it is for every line, by induction over its length.                                        *)
LEMMA CutsGood ==
  ASSUME NEW n \in Nat, NEW cut \in Cuts[n]
  PROVE  CutOf(cut, n)
<1>. DEFINE K == {k \in Nat : \A m \in Nat : m <= k => \A c \in Cuts[m] : CutOf(c, m)}
<1>1. ASSUME NEW m \in Nat, \A l \in Nat : l < m => \A c \in Cuts[l] : CutOf(c, l),
             NEW c \in Cuts[m]
      PROVE  CutOf(c, m)
  <2>1. CASE m <= MaxChars
    <3>1. c = <<m>>
      BY <2>1, CutsUnfold DEF CutStep
    <3>2. <<m>> \in Seq(Nat) /\ Len(<<m>>) = 1 /\ <<m>>[1] = m
      OBVIOUS
    <3>. QED  BY <3>1, <3>2, <2>1, SumOfOne DEF CutOf
  <2>2. CASE ~(m <= MaxChars)
    <3>1. c \in UNION {{<<d>> \o rest : rest \in Cuts[m - d]} : d \in Ends}
      BY <2>2, CutsUnfold DEF CutStep
    <3>2. PICK d \in Ends : c \in {<<d>> \o rest : rest \in Cuts[m - d]}
      BY <3>1
    <3>3. PICK rest \in Cuts[m - d] : c = <<d>> \o rest
      BY <3>2
    <3>4. d \in Nat /\ d > 0 /\ d <= MaxChars /\ m - d \in Nat /\ m - d < m
      BY <2>2, EndsFacts
    <3>5. CutOf(rest, m - d)
      BY <3>4, <1>1
    <3>6. rest \in Seq(Nat) /\ Len(rest) > 0 /\ SumOf(rest) = m - d
          /\ \A i \in 1..Len(rest) : rest[i] <= MaxChars
      BY <3>5 DEF CutOf
    <3>7. <<d>> \in Seq(Nat) /\ Len(<<d>>) = 1 /\ <<d>>[1] = d
      BY <3>4
    <3>8. SumOf(c) = m
      <4>1. SumOf(<<d>> \o rest) = SumOf(<<d>>) + SumOf(rest)
        BY <3>6, <3>7, SumConcat
      <4>2. SumOf(<<d>>) = d
        BY <3>4, SumOfOne
      <4>. QED  BY <4>1, <4>2, <3>3, <3>4, <3>6
    <3>9. c \in Seq(Nat) /\ Len(c) = 1 + Len(rest)
          /\ \A i \in 1..Len(c) : c[i] = IF i <= 1 THEN <<d>>[i] ELSE rest[i - 1]
      <4>. DEFINE s == <<d>>
      <4>1. s \in Seq(Nat) /\ Len(s) = 1
        BY <3>7
      <4>. HIDE DEF s
      <4>2. rest \in Seq(Nat)
        BY <3>6
      <4>3. /\ s \o rest \in Seq(Nat) /\ Len(s \o rest) = Len(s) + Len(rest)
            /\ \A i \in 1..(Len(s) + Len(rest)) :
                 (s \o rest)[i] = IF i <= Len(s) THEN s[i] ELSE rest[i - Len(s)]
        BY <4>1, <4>2, ConcatProperties
      <4>. QED  BY <4>1, <4>3, <3>3 DEF s
    <3>10. ASSUME NEW i \in 1..Len(c) PROVE c[i] <= MaxChars
      <4>1. CASE i = 1
        BY <4>1, <3>9, <3>7, <3>4
      <4>2. CASE i # 1
        <5>1. i - 1 \in 1..Len(rest) /\ ~(i <= 1)
          BY <4>2, <3>6, <3>9
        <5>. QED  BY <5>1, <3>6, <3>9
      <4>. QED  BY <4>1, <4>2
    <3>. QED  BY <3>6, <3>8, <3>9, <3>10 DEF CutOf
  <2>. QED  BY <2>1, <2>2
<1>2. 0 \in K
  <2>1. \A l \in Nat : ~(l < 0)
    OBVIOUS
  <2>2. \A c \in Cuts[0] : CutOf(c, 0)
    BY <2>1, <1>1
  <2>. QED  BY <2>2
<1>3. ASSUME NEW k \in Nat, k \in K PROVE k + 1 \in K
  <2>. SUFFICES ASSUME NEW m \in Nat, m <= k + 1, NEW c \in Cuts[m] PROVE CutOf(c, m)
    OBVIOUS
  <2>1. \A l \in Nat : l < m => \A b \in Cuts[l] : CutOf(b, l)
    BY <1>3
  <2>. QED  BY <2>1, <1>1
<1>. HIDE DEF K
<1>4. n \in K
  BY <1>2, <1>3, Induction
<1>. QED  BY <1>4 DEF K

(* A unit of code leaves room in a message for its fences.                                       *)
Packable(u) == u \in Units /\ (IsCode(u) => 2 * u.fence + u.info + 2 < MaxChars)

(* A piece of a unit, and a way to cut one.                                                      *)
PieceOf(v, u) == v.len \in Nat /\ v = [u EXCEPT !.len = v.len]

PiecesOf(p, u) ==
  /\ p \in Seq(Units) /\ Len(p) > 0
  /\ \A j \in 1..Len(p) : PieceOf(p[j], u) /\ SoloLen(p[j]) <= MaxChars
  /\ \A i \in Nat : Share(p, i) = LenOn(u, i)

(* A piece of a unit is of its line and in its fence.                                            *)
LEMMA PieceType ==
  ASSUME NEW u \in Units, NEW n \in Nat
  PROVE  LET v == [u EXCEPT !.len = n]
         IN /\ v \in Units /\ v.len = n /\ v.line = u.line /\ v.fence = u.fence /\ v.info = u.info
            /\ IsCode(v) <=> IsCode(u)
BY DEF Units, IsCode

(* The same of a piece that is given.                                                            *)
LEMMA PieceFields ==
  ASSUME NEW u \in Units, NEW v, PieceOf(v, u)
  PROVE  /\ v \in Units /\ v.line = u.line /\ v.fence = u.fence /\ v.info = u.info
         /\ v.len \in Nat /\ v = [u EXCEPT !.len = v.len]
         /\ IsCode(v) <=> IsCode(u)
<1>. DEFINE n == v.len
<1>1. n \in Nat /\ v = [u EXCEPT !.len = n]
  BY DEF PieceOf
<1>. HIDE DEF n
<1>2. /\ v \in Units /\ v.line = u.line /\ v.fence = u.fence /\ v.info = u.info
      /\ IsCode(v) <=> IsCode(u)
  BY <1>1, PieceType
<1>. QED  BY <1>1, <1>2 DEF n

(* Lengths that add up to that of a unit, and fit, make pieces of it.                            *)
LEMMA PiecesOfLens ==
  ASSUME NEW u \in Units, NEW lens \in Seq(Nat), Len(lens) > 0, SumOf(lens) = u.len,
         \A j \in 1..Len(lens) : SoloLen([u EXCEPT !.len = lens[j]]) <= MaxChars
  PROVE  PiecesOf([j \in DOMAIN lens |-> [u EXCEPT !.len = lens[j]]], u)
<1>. DEFINE n == Len(lens)
            p == [j \in 1..n |-> [u EXCEPT !.len = lens[j]]]
<1>1. n \in Nat /\ n > 0 /\ DOMAIN lens = 1..n /\ \A j \in 1..n : lens[j] \in Nat
  OBVIOUS
<1>2. ASSUME NEW j \in 1..n
      PROVE  p[j] \in Units /\ p[j].len = lens[j] /\ p[j].line = u.line /\ PieceOf(p[j], u)
             /\ SoloLen(p[j]) <= MaxChars
  <2>1. lens[j] \in Nat /\ p[j] = [u EXCEPT !.len = lens[j]]
    BY <1>1
  <2>2. p[j] \in Units /\ p[j].len = lens[j] /\ p[j].line = u.line
    BY <2>1, PieceType
  <2>. QED  BY <2>1, <2>2 DEF PieceOf
<1>3. p \in Seq(Units) /\ Len(p) = n
  <2>1. p \in [1..n -> Units]
    <3>1. \A j \in 1..n : [u EXCEPT !.len = lens[j]] \in Units
      BY <1>2
    <3>. QED  BY <3>1
  <2>. HIDE DEF n
  <2>2. DOMAIN p = 1..n
    OBVIOUS
  <2>. HIDE DEF p
  <2>. QED  BY <1>1, <2>1, <2>2
<1>. HIDE DEF p
<1>4. ASSUME NEW i \in Nat PROVE Share(p, i) = LenOn(u, i)
  <2>1. /\ Shares(p, i) \in Seq(Nat) /\ Len(Shares(p, i)) = n
        /\ Share(p, i) = SumOf(Shares(p, i))
        /\ \A j \in 1..n : Shares(p, i)[j] = LenOn(p[j], i)
    BY <1>3, SharesType
  <2>2. CASE u.line = i
    <3>1. \A j \in 1..n : Shares(p, i)[j] = lens[j]
      BY <2>1, <2>2, <1>2 DEF LenOn
    <3>2. Shares(p, i) = lens
      <4>. DEFINE s == Shares(p, i)
      <4>1. s \in Seq(Nat) /\ Len(s) = Len(lens) /\ \A j \in 1..Len(s) : s[j] = lens[j]
        BY <2>1, <3>1
      <4>. HIDE DEF s
      <4>2. s = lens
        BY <4>1, SeqEqual
      <4>. QED  BY <4>2 DEF s
    <3>. QED  BY <2>1, <2>2, <3>2 DEF LenOn
  <2>3. CASE u.line # i
    <3>1. \A j \in 1..Len(Shares(p, i)) : Shares(p, i)[j] = 0
      BY <2>1, <2>3, <1>2 DEF LenOn
    <3>2. SumOf(Shares(p, i)) = 0
      BY <2>1, <3>1, SumOfNone
    <3>. QED  BY <2>1, <2>3, <3>2 DEF LenOn
  <2>. QED  BY <2>2, <2>3
<1>5. PiecesOf(p, u)
  BY <1>1, <1>2, <1>3, <1>4 DEF PiecesOf
<1>. QED  BY <1>1, <1>5 DEF p

(* Rounding up: the number of pieces is the least that is enough.                                *)
LEMMA Ceiling ==
  ASSUME NEW a \in Nat, NEW b \in Nat, a > 0, b > 0
  PROVE  LET c == (a + b - 1) \div b
         IN c \in Nat /\ c > 0 /\ b * (c - 1) < a /\ a <= b * c
<1>. DEFINE d == a + b - 1
            c == d \div b
<1>1. d \in Nat /\ d >= b
  OBVIOUS
<1>. HIDE DEF d
<1>2. c \in Nat /\ b * c <= d /\ d < b * (c + 1)
  BY <1>1
<1>. HIDE DEF c
<1>3. b * (c + 1) = b * c + b /\ b * (c - 1) = b * c - b /\ b * c \in Nat
  BY <1>2
<1>4. c # 0
  BY <1>1, <1>2, <1>3
<1>. QED  BY <1>2, <1>3, <1>4 DEF c, d

(* The pieces of code are full, but the last.                                                    *)
LEMMA CodePiecesGood ==
  ASSUME NEW u, Packable(u), IsCode(u), SoloLen(u) > MaxChars
  PROVE  PiecesOf(CodePieces(u), u)
<1>. DEFINE size == MaxChars - SoloLen([u EXCEPT !.len = 0])
            count == (u.len + size - 1) \div size
            lens == [i \in 1..count |-> IF i < count THEN size ELSE u.len - size * (count - 1)]
            h == [i \in 0..count |-> IF i < count THEN size * i ELSE u.len]
<1>1. u \in Units /\ u.len \in Nat /\ u.fence \in Nat /\ u.info \in Nat /\ MaxChars \in Nat
  BY EndsFacts DEF Packable, Units
<1>2. ASSUME NEW n \in Nat
      PROVE  SoloLen([u EXCEPT !.len = n]) = 2 * u.fence + u.info + n + 2
  <2>. DEFINE v == [u EXCEPT !.len = n]
  <2>1. IsCode(v) /\ v.len = n /\ v.fence = u.fence /\ v.info = u.info
    BY <1>1, PieceType
  <2>. HIDE DEF v
  <2>2. SoloLen(v) = 2 * u.fence + u.info + n + 2
    BY <2>1 DEF SoloLen
  <2>. QED  BY <2>2 DEF v
<1>3. size = MaxChars - (2 * u.fence + u.info + 2)
  <2>1. SoloLen([u EXCEPT !.len = 0]) = 2 * u.fence + u.info + 0 + 2
    BY <1>2
  <2>. QED  BY <2>1, <1>1
<1>4. size \in Nat /\ size > 0
  <2>1. 2 * u.fence + u.info + 2 \in Nat /\ 2 * u.fence + u.info + 2 < MaxChars
    BY <1>1 DEF Packable
  <2>. HIDE DEF size
  <2>. QED  BY <2>1, <1>1, <1>3
<1>5. u.len > size
  <2>1. SoloLen(u) = 2 * u.fence + u.info + u.len + 2
    BY DEF SoloLen
  <2>2. 2 * u.fence \in Nat
    BY <1>1
  <2>. HIDE DEF size
  <2>. QED  BY <2>1, <2>2, <1>1, <1>3
<1>. HIDE DEF size
<1>6. count \in Nat /\ count > 0 /\ size * (count - 1) < u.len /\ u.len <= size * count
  BY <1>1, <1>4, <1>5, Ceiling
<1>. HIDE DEF count
<1>7. u.len - size * (count - 1) \in Nat /\ u.len - size * (count - 1) <= size
  <2>1. size * count = size * (count - 1) + size /\ size * (count - 1) \in Nat
    BY <1>4, <1>6
  <2>. QED  BY <2>1, <1>1, <1>4, <1>6
<1>8. lens \in Seq(Nat) /\ Len(lens) = count
  <2>1. lens \in [1..count -> Nat]
    BY <1>4, <1>7
  <2>2. DOMAIN lens = 1..count
    OBVIOUS
  <2>. HIDE DEF lens
  <2>. QED  BY <2>1, <2>2, <1>6
<1>9. Adds(h, lens)
  <2>1. ASSUME NEW i \in 0..count PROVE (IF i < count THEN size * i ELSE u.len) \in Nat
    <3>1. size * i \in Nat
      BY <1>4, <1>6
    <3>. QED  BY <3>1, <1>1
  <2>2. h \in [0..count -> Nat] /\ h[0] = 0
    <3>1. size * 0 = 0 /\ 0 \in 0..count /\ 0 < count
      BY <1>4, <1>6
    <3>. QED  BY <2>1, <3>1
  <2>3. ASSUME NEW i \in 1..count PROVE h[i] = h[i - 1] + lens[i]
    <3>1. i \in 0..count /\ i - 1 \in 0..count /\ i - 1 < count
      BY <1>6
    <3>2. size * i = size * (i - 1) + size /\ size * (i - 1) \in Nat
      BY <1>4, <1>6
    <3>3. h[i - 1] = size * (i - 1)
      BY <3>1
    <3>4. CASE i < count
      <4>1. h[i] = size * i /\ lens[i] = size
        BY <3>1, <3>4
      <4>. HIDE DEF h, lens
      <4>. QED  BY <4>1, <3>2, <3>3
    <3>5. CASE i = count
      <4>1. h[i] = u.len /\ lens[i] = u.len - size * (i - 1)
        BY <3>1, <3>5
      <4>. HIDE DEF h, lens
      <4>. QED  BY <4>1, <3>2, <3>3, <1>1
    <3>6. i < count \/ i = count
      BY <1>6
    <3>. HIDE DEF h, lens
    <3>. QED  BY <3>4, <3>5, <3>6
  <2>. HIDE DEF h, lens
  <2>. QED  BY <2>2, <2>3, <1>8 DEF Adds
<1>10. SumOf(lens) = u.len
  <2>1. h[count] = u.len
    BY <1>6
  <2>. HIDE DEF h, lens
  <2>. QED  BY <2>1, <1>8, <1>9, SumIs
<1>11. ASSUME NEW j \in 1..count PROVE SoloLen([u EXCEPT !.len = lens[j]]) <= MaxChars
  <2>1. lens[j] \in Nat /\ lens[j] <= size
    BY <1>4, <1>7
  <2>. HIDE DEF lens
  <2>2. SoloLen([u EXCEPT !.len = lens[j]]) = 2 * u.fence + u.info + lens[j] + 2
    BY <2>1, <1>2
  <2>3. 2 * u.fence \in Nat
    BY <1>1
  <2>. QED  BY <2>1, <2>2, <2>3, <1>1, <1>3, <1>4
<1>12. PiecesOf([j \in DOMAIN lens |-> [u EXCEPT !.len = lens[j]]], u)
  <2>. HIDE DEF lens
  <2>. QED  BY <1>1, <1>6, <1>8, <1>10, <1>11, PiecesOfLens
<1>13. CodePieces(u) = [j \in DOMAIN lens |-> [u EXCEPT !.len = lens[j]]]
  BY DEF CodePieces, size, count
<1>. QED  BY <1>12, <1>13

(* A unit that fits no message is cut into pieces that do.                                       *)
LEMMA PiecesGood ==
  ASSUME NEW u, Packable(u), SoloLen(u) > MaxChars, NEW p \in Pieces(u)
  PROVE  PiecesOf(p, u)
<1>1. CASE IsCode(u)
  BY <1>1, CodePiecesGood DEF Pieces
<1>2. CASE ~IsCode(u)
  <2>1. PICK cut \in Cuts[u.len] : p = [i \in DOMAIN cut |-> [u EXCEPT !.len = cut[i]]]
    BY <1>2 DEF Pieces
  <2>2. u \in Units /\ u.len \in Nat
    BY DEF Packable, Units
  <2>3. CutOf(cut, u.len)
    BY <2>2, CutsGood
  <2>4. ASSUME NEW j \in 1..Len(cut) PROVE SoloLen([u EXCEPT !.len = cut[j]]) <= MaxChars
    <3>1. cut[j] \in Nat /\ cut[j] <= MaxChars
      BY <2>3 DEF CutOf
    <3>. DEFINE v == [u EXCEPT !.len = cut[j]]
    <3>2. ~IsCode(v) /\ v.len = cut[j]
      BY <1>2, <2>2, <3>1, PieceType
    <3>. HIDE DEF v
    <3>3. SoloLen(v) = cut[j]
      BY <3>2 DEF SoloLen
    <3>. QED  BY <3>1, <3>3 DEF v
  <2>. QED  BY <2>1, <2>2, <2>3, <2>4, PiecesOfLens DEF CutOf
<1>. QED  BY <1>1, <1>2

(* and of two lists of chunks together.                                                          *)
LEMMA TotalConcat ==
  ASSUME NEW s \in Seq(Seq(Units)), NEW t \in Seq(Seq(Units)), NEW i \in Nat
  PROVE  Total(s \o t, i) = Total(s, i) + Total(t, i)
<1>. DEFINE m == Len(s)
            n == Len(t)
            u == s \o t
            a == [x \in DOMAIN s |-> Share(s[x], i)]
            b == [x \in DOMAIN t |-> Share(t[x], i)]
            c == [x \in DOMAIN u |-> Share(u[x], i)]
<1>1. m \in Nat /\ n \in Nat /\ DOMAIN s = 1..m /\ DOMAIN t = 1..n
  OBVIOUS
<1>2. /\ u \in Seq(Seq(Units)) /\ Len(u) = m + n
      /\ \A k \in 1..(m + n) : u[k] = IF k <= m THEN s[k] ELSE t[k - m]
  BY ConcatProperties
<1>3. a \in Seq(Nat) /\ Len(a) = m /\ \A k \in 1..m : a[k] = Share(s[k], i)
  BY <1>1, TotalType
<1>4. b \in Seq(Nat) /\ Len(b) = n /\ \A k \in 1..n : b[k] = Share(t[k], i)
  BY <1>1, TotalType
<1>. HIDE DEF u
<1>5. DOMAIN u = 1..(m + n)
  BY <1>1, <1>2
<1>6. c \in Seq(Nat) /\ Len(c) = m + n /\ \A k \in 1..(m + n) : c[k] = Share(u[k], i)
  BY <1>2, <1>5, TotalType
<1>. DEFINE d == a \o b
<1>. HIDE DEF a, b, c, m, n
<1>7. /\ d \in Seq(Nat) /\ Len(d) = m + n
      /\ \A k \in 1..(m + n) : d[k] = IF k <= m THEN a[k] ELSE b[k - m]
  BY <1>3, <1>4, ConcatProperties
<1>. HIDE DEF d
<1>8. ASSUME NEW k \in 1..(m + n) PROVE c[k] = d[k]
  <2>1. CASE k <= m
    <3>1. k \in 1..m
      BY <2>1, <1>1
    <3>2. d[k] = a[k]
      BY <2>1, <1>7
    <3>3. u[k] = s[k]
      BY <2>1, <1>2
    <3>4. a[k] = Share(s[k], i)
      BY <3>1, <1>3
    <3>5. c[k] = Share(u[k], i)
      BY <1>6
    <3>. QED  BY <3>2, <3>3, <3>4, <3>5
  <2>2. CASE k > m
    <3>1. k - m \in 1..n /\ ~(k <= m)
      BY <2>2, <1>1
    <3>2. d[k] = b[k - m] /\ u[k] = t[k - m]
      BY <3>1, <1>2, <1>7
    <3>3. b[k - m] = Share(t[k - m], i)
      BY <3>1, <1>4
    <3>4. c[k] = Share(u[k], i)
      BY <1>6
    <3>. QED  BY <3>2, <3>3, <3>4
  <2>3. k <= m \/ k > m
    BY <1>1
  <2>. QED  BY <2>1, <2>2, <2>3
<1>9. c = d
  BY <1>6, <1>7, <1>8, SeqEqual
<1>10. SumOf(d) = SumOf(a) + SumOf(b)
  BY <1>3, <1>4, SumConcat DEF d
<1>. QED  BY <1>9, <1>10 DEF Total, a, b, c, u

(* Pieces, each a chunk.                                                                         *)
Singles(p) == [j \in 1..Len(p) |-> <<p[j]>>]

(* Pieces as chunks of their own.                                                                *)
LEMMA SinglesFacts ==
  ASSUME NEW p \in Seq(Units)
  PROVE  /\ Singles(p) \in Seq(Seq(Units)) /\ Len(Singles(p)) = Len(p)
         /\ \A j \in 1..Len(p) : Singles(p)[j] = <<p[j]>>
         /\ \A i \in Nat : Total(Singles(p), i) = Share(p, i)
<1>1. \A j \in 1..Len(p) : p[j] \in Units /\ <<p[j]>> \in Seq(Units)
  <2>1. ASSUME NEW j \in 1..Len(p) PROVE p[j] \in Units /\ <<p[j]>> \in Seq(Units)
    <3>1. p[j] \in Units
      OBVIOUS
    <3>. QED  BY <3>1
  <2>. QED  BY <2>1
<1>2. Singles(p) \in Seq(Seq(Units)) /\ Len(Singles(p)) = Len(p)
      /\ \A j \in 1..Len(p) : Singles(p)[j] = <<p[j]>>
  <2>. DEFINE n == Len(p)
  <2>1. n \in Nat /\ Singles(p) \in [1..n -> Seq(Units)] /\ DOMAIN Singles(p) = 1..n
    BY <1>1 DEF Singles
  <2>2. \A j \in 1..n : Singles(p)[j] = <<p[j]>>
    BY DEF Singles
  <2>. HIDE DEF n
  <2>3. Singles(p) \in Seq(Seq(Units)) /\ Len(Singles(p)) = n
    BY <2>1
  <2>. QED  BY <2>2, <2>3 DEF n
<1>3. ASSUME NEW i \in Nat PROVE Total(Singles(p), i) = Share(p, i)
  <2>1. DOMAIN Singles(p) = 1..Len(p) /\ DOMAIN p = 1..Len(p)
    BY DEF Singles
  <2>2. \A j \in 1..Len(p) : Share(Singles(p)[j], i) = LenOn(p[j], i)
    BY <1>1, <1>2, ShareOne
  <2>3. [a \in DOMAIN Singles(p) |-> Share(Singles(p)[a], i)] = Shares(p, i)
    BY <2>1, <2>2 DEF Shares
  <2>4. Share(p, i) = SumOf(Shares(p, i))
    BY SharesType
  <2>. QED  BY <2>3, <2>4 DEF Total
<1>. QED  BY <1>2, <1>3

(* Units as a text has them: each of a later line than the one before it.                        *)
UnitsUp(units) ==
  /\ units \in Seq(Units)
  /\ \A k \in 1..Len(units) : Packable(units[k])
  /\ \A k, l \in 1..Len(units) : k < l => units[k].line < units[l].line

(* The lines of a list of chunks are in order, and its pieces are of the first k units.          *)
LinesUp(L) ==
  \A a, b \in 1..Len(L) : \A j \in 1..Len(L[a]), k \in 1..Len(L[b]) :
    a < b \/ (a = b /\ j < k) => L[a][j].line <= L[b][k].line

PiecesFrom(L, units, k) ==
  \A a \in 1..Len(L) : \A j \in 1..Len(L[a]) : \E m \in 1..k : PieceOf(L[a][j], units[m])

(* A list of chunks that carries the first k units.                                              *)
Carries(L, units, k) ==
  /\ L \in Seq(Seq(Units))
  /\ \A a \in 1..Len(L) : L[a] # << >> /\ RenderedLen(L[a]) <= MaxChars
  /\ LinesUp(L)
  /\ PiecesFrom(L, units, k)
  /\ \A i \in Nat : Total(L, i) = Share(SubSeq(units, 1, k), i)

(* The next unit adds what it has of a line.                                                     *)
LEMMA ShareOfNext ==
  ASSUME NEW units \in Seq(Units), NEW k \in Nat, k + 1 <= Len(units), NEW i \in Nat
  PROVE  Share(SubSeq(units, 1, k + 1), i) = Share(SubSeq(units, 1, k), i) + LenOn(units[k + 1], i)
<1>. DEFINE s == SubSeq(units, 1, k)
            t == SubSeq(units, 1, k + 1)
            u == units[k + 1]
<1>1. s \in Seq(Units) /\ Len(s) = k /\ \A j \in 1..k : s[j] = units[j]
  OBVIOUS
<1>2. t \in Seq(Units) /\ Len(t) = k + 1 /\ \A j \in 1..(k + 1) : t[j] = units[j]
  OBVIOUS
<1>3. u \in Units
  OBVIOUS
<1>. HIDE DEF s, t, u
<1>. DEFINE d == Append(s, u)
<1>4. d \in Seq(Units) /\ Len(d) = k + 1 /\ d[k + 1] = u /\ \A j \in 1..k : d[j] = units[j]
  BY <1>1, <1>3
<1>. HIDE DEF d
<1>5. ASSUME NEW j \in 1..(k + 1) PROVE t[j] = d[j]
  <2>1. CASE j \in 1..k
    BY <2>1, <1>2, <1>4
  <2>2. CASE j = k + 1
    BY <2>2, <1>2, <1>4 DEF u
  <2>3. j \in 1..k \/ j = k + 1
    OBVIOUS
  <2>. QED  BY <2>1, <2>2, <2>3
<1>6. t = d
  BY <1>2, <1>4, <1>5, SeqEqual
<1>7. Share(d, i) = Share(s, i) + LenOn(u, i)
  BY <1>1, <1>3, ShareAppend DEF d
<1>. QED  BY <1>6, <1>7 DEF s, t, u

(* The pieces of the next unit, each a chunk of its own.                                         *)
LEMMA CarriesSingles ==
  ASSUME NEW units, UnitsUp(units), NEW k \in Nat, k + 1 <= Len(units),
         NEW L, Carries(L, units, k), NEW p, PiecesOf(p, units[k + 1])
  PROVE  Carries(L \o Singles(p), units, k + 1)
<1>. DEFINE u == units[k + 1]
            S == Singles(p)
            M == L \o S
            m == Len(L)
            n == Len(p)
<1>1. /\ units \in Seq(Units) /\ u \in Units /\ L \in Seq(Seq(Units)) /\ p \in Seq(Units)
      /\ k + 1 \in 1..Len(units)
  <2>1. k + 1 \in 1..Len(units)
    BY DEF UnitsUp
  <2>. QED  BY <2>1 DEF UnitsUp, Carries, PiecesOf
<1>2. /\ S \in Seq(Seq(Units)) /\ Len(S) = n
      /\ \A j \in 1..n : S[j] = <<p[j]>>
      /\ \A i \in Nat : Total(S, i) = Share(p, i)
  BY <1>1, SinglesFacts
<1>3. m \in Nat /\ n \in Nat
  BY <1>1
<1>. HIDE DEF S
<1>4. /\ M \in Seq(Seq(Units)) /\ Len(M) = m + n
      /\ \A a \in 1..(m + n) : M[a] = IF a <= m THEN L[a] ELSE S[a - m]
  <2>1. L \in Seq(Seq(Units)) /\ S \in Seq(Seq(Units)) /\ Len(S) = n
    BY <1>1, <1>2
  <2>2. /\ M \in Seq(Seq(Units)) /\ Len(M) = Len(L) + Len(S)
        /\ \A a \in 1..(Len(L) + Len(S)) :
             M[a] = IF a <= Len(L) THEN L[a] ELSE S[a - Len(L)]
    <3>. DEFINE V == Seq(Units)
    <3>1. L \in Seq(V) /\ S \in Seq(V)
      BY <2>1
    <3>. HIDE DEF V
    <3>2. /\ M \in Seq(V) /\ Len(M) = Len(L) + Len(S)
          /\ \A a \in 1..(Len(L) + Len(S)) :
               M[a] = IF a <= Len(L) THEN L[a] ELSE S[a - Len(L)]
      BY <3>1, ConcatProperties
    <3>. QED  BY <3>2 DEF V
  <2>. QED  BY <2>1, <2>2
<1>5. ASSUME NEW i \in Nat PROVE Total(M, i) = Share(SubSeq(units, 1, k + 1), i)
  <2>1. Total(M, i) = Total(L, i) + Total(S, i)
    BY <1>1, <1>2, TotalConcat
  <2>2. Total(S, i) = LenOn(u, i)
    BY <1>2 DEF PiecesOf
  <2>3. Total(L, i) = Share(SubSeq(units, 1, k), i)
    BY DEF Carries
  <2>. QED  BY <2>1, <2>2, <2>3, <1>1, ShareOfNext
<1>. HIDE DEF M, m, n
<1>6. ASSUME NEW a \in 1..(m + n)
      PROVE  \/ a \in 1..m /\ M[a] = L[a]
             \/ a > m /\ a - m \in 1..n /\ M[a] = <<p[a - m]>>
  <2>1. CASE a <= m
    BY <2>1, <1>3, <1>4
  <2>2. CASE a > m
    <3>1. a - m \in 1..n /\ ~(a <= m)
      BY <2>2, <1>3
    <3>. QED  BY <3>1, <2>2, <1>2, <1>4
  <2>3. a <= m \/ a > m
    BY <1>3
  <2>. QED  BY <2>1, <2>2, <2>3
<1>7. ASSUME NEW j \in 1..n
      PROVE  p[j] \in Units /\ PieceOf(p[j], u) /\ SoloLen(p[j]) <= MaxChars /\ p[j].line = u.line
  <2>1. p[j] \in Units /\ PieceOf(p[j], u) /\ SoloLen(p[j]) <= MaxChars
    BY <1>1 DEF PiecesOf, n
  <2>2. p[j].len \in Nat /\ p[j] = [u EXCEPT !.len = p[j].len]
    BY <2>1 DEF PieceOf
  <2>3. p[j].line = u.line
    <3>1. u \in Units
      BY <1>1
    <3>. QED  BY <2>1, <3>1, PieceFields
  <2>. QED  BY <2>1, <2>3
<1>8. ASSUME NEW a \in 1..(m + n) PROVE M[a] # << >> /\ RenderedLen(M[a]) <= MaxChars
  <2>1. CASE a \in 1..m /\ M[a] = L[a]
    BY <2>1 DEF Carries, m
  <2>2. CASE a - m \in 1..n /\ M[a] = <<p[a - m]>>
    <3>1. p[a - m] \in Units /\ SoloLen(p[a - m]) <= MaxChars
      BY <2>2, <1>7
    <3>. QED  BY <2>2, <3>1, RenderOne
  <2>. QED  BY <1>6, <2>1, <2>2
<1>9. PiecesFrom(M, units, k + 1)
  <2>. SUFFICES ASSUME NEW a \in 1..(m + n), NEW j \in 1..Len(M[a])
                PROVE  \E q \in 1..(k + 1) : PieceOf(M[a][j], units[q])
    BY <1>4 DEF PiecesFrom
  <2>1. CASE a \in 1..m /\ M[a] = L[a]
    <3>1. PICK q \in 1..k : PieceOf(L[a][j], units[q])
      BY <2>1 DEF Carries, PiecesFrom, m
    <3>2. q \in 1..(k + 1)
      OBVIOUS
    <3>. QED  BY <3>1, <3>2, <2>1
  <2>2. CASE a - m \in 1..n /\ M[a] = <<p[a - m]>>
    <3>1. j = 1 /\ M[a][j] = p[a - m]
      BY <2>2
    <3>2. PieceOf(M[a][j], units[k + 1]) /\ k + 1 \in 1..(k + 1)
      BY <3>1, <2>2, <1>7
    <3>. QED  BY <3>2
  <2>. QED  BY <1>6, <2>1, <2>2
<1>10. ASSUME NEW a \in 1..m, NEW j \in 1..Len(L[a]) PROVE L[a][j].line <= u.line
  <2>1. PICK q \in 1..k : PieceOf(L[a][j], units[q])
    BY DEF Carries, PiecesFrom, m
  <2>2. q \in 1..Len(units) /\ q < k + 1
    BY <1>1
  <2>3. units[q] \in Units /\ units[q].line < u.line /\ units[q].line \in Nat /\ u.line \in Nat
    <3>1. units[q] \in Units /\ units[q].line < u.line
      BY <2>2, <1>1 DEF UnitsUp
    <3>. QED  BY <3>1, <1>1 DEF Units
  <2>5. L[a][j].line = units[q].line
    BY <2>1, <2>3, PieceFields
  <2>. QED  BY <2>3, <2>5
<1>11. LinesUp(M)
  <2>. SUFFICES ASSUME NEW a \in 1..(m + n), NEW b \in 1..(m + n),
                       NEW j \in 1..Len(M[a]), NEW l \in 1..Len(M[b]),
                       a < b \/ (a = b /\ j < l)
                PROVE  M[a][j].line <= M[b][l].line
    BY <1>4 DEF LinesUp
  <2>1. CASE b \in 1..m /\ M[b] = L[b]
    <3>1. a \in 1..m /\ M[a] = L[a]
      BY <2>1, <1>3, <1>6, SMTT(30)
    <3>. QED  BY <2>1, <3>1 DEF Carries, LinesUp, m
  <2>2. CASE b > m /\ b - m \in 1..n /\ M[b] = <<p[b - m]>>
    <3>1. l = 1 /\ M[b][l].line = u.line
      BY <2>2, <1>7
    <3>2. CASE a \in 1..m /\ M[a] = L[a]
      BY <3>1, <3>2, <1>10
    <3>3. CASE a > m /\ a - m \in 1..n /\ M[a] = <<p[a - m]>>
      <4>1. M[a][j].line = u.line
        BY <3>3, <1>7
      <4>2. u.line \in Nat
        BY <1>1 DEF Units
      <4>. QED  BY <3>1, <4>1, <4>2
    <3>. QED  BY <1>6, <3>2, <3>3
  <2>. QED  BY <1>6, <2>1, <2>2
<1>. QED  BY <1>4, <1>5, <1>8, <1>9, <1>11 DEF Carries, M, S

(* The next unit behind the last chunk.                                                          *)
LEMMA CarriesGrown ==
  ASSUME NEW units, UnitsUp(units), NEW k \in Nat, k + 1 <= Len(units),
         NEW C \in Seq(Seq(Units)), NEW B \in Seq(Units), Carries(Append(C, B), units, k),
         RenderedLen(Append(B, units[k + 1])) <= MaxChars
  PROVE  Carries(Append(C, Append(B, units[k + 1])), units, k + 1)
<1>. DEFINE u == units[k + 1]
            L == Append(C, B)
            D == Append(B, u)
            M == Append(C, D)
            n == Len(C) + 1
            z == Len(B) + 1
<1>1. /\ units \in Seq(Units) /\ u \in Units /\ k + 1 \in 1..Len(units)
  <2>1. k + 1 \in 1..Len(units)
    BY DEF UnitsUp
  <2>. QED  BY <2>1 DEF UnitsUp
<1>2. n \in Nat /\ n > 0 /\ z \in Nat /\ z > 0
  OBVIOUS
<1>3. L \in Seq(Seq(Units)) /\ Len(L) = n /\ L[n] = B /\ \A a \in 1..n : a # n => L[a] = C[a]
  OBVIOUS
<1>4. /\ D \in Seq(Units) /\ Len(D) = z /\ D[z] = u /\ Len(B) = z - 1
      /\ \A j \in 1..z : j # z => D[j] = B[j] /\ j \in 1..Len(B)
  <2>1. u \in Units
    BY <1>1
  <2>. HIDE DEF u
  <2>. QED  BY <2>1
<1>5. /\ Carries(L, units, k) /\ RenderedLen(D) <= MaxChars
  OBVIOUS
<1>. HIDE DEF D
<1>6. M \in Seq(Seq(Units)) /\ Len(M) = n /\ M[n] = D /\ \A a \in 1..n : a # n => M[a] = C[a]
  <2>. DEFINE V == Seq(Units)
  <2>1. D \in V /\ C \in Seq(V)
    BY <1>4
  <2>. HIDE DEF V
  <2>2. M \in Seq(V) /\ Len(M) = n /\ M[n] = D /\ \A a \in 1..n : a # n => M[a] = C[a]
    BY <2>1, AppendOf
  <2>. QED  BY <2>2 DEF V
<1>7. ASSUME NEW i \in Nat PROVE Total(M, i) = Share(SubSeq(units, 1, k + 1), i)
  <2>1. Total(M, i) = Total(C, i) + Share(D, i)
    BY <1>4, TotalAppend
  <2>2. Total(L, i) = Total(C, i) + Share(B, i)
    BY TotalAppend
  <2>3. Share(D, i) = Share(B, i) + LenOn(u, i)
    BY <1>1, ShareAppend DEF D
  <2>4. Total(L, i) = Share(SubSeq(units, 1, k), i)
    BY DEF Carries
  <2>5. Share(SubSeq(units, 1, k + 1), i) = Share(SubSeq(units, 1, k), i) + LenOn(u, i)
    BY <1>1, ShareOfNext
  <2>6. Total(C, i) \in Nat /\ Share(B, i) \in Nat /\ LenOn(u, i) \in Nat
    BY <1>1, TotalType, SharesType DEF LenOn, Units
  <2>. QED  BY <2>1, <2>2, <2>3, <2>4, <2>5, <2>6
<1>. HIDE DEF L, M, n, z
<1>8. ASSUME NEW a \in 1..n, NEW j \in 1..Len(M[a])
      PROVE  \/ a # n /\ M[a] = L[a] /\ j \in 1..Len(L[a])
             \/ a = n /\ j # z /\ j \in 1..Len(L[a]) /\ M[a][j] = L[a][j]
             \/ a = n /\ j = z /\ M[a][j] = u
  <2>1. CASE a # n
    BY <2>1, <1>3, <1>6
  <2>2. CASE a = n
    <3>1. M[a] = D /\ L[a] = B /\ j \in 1..z
      BY <2>2, <1>3, <1>4, <1>6
    <3>. QED  BY <3>1, <2>2, <1>4
  <2>. QED  BY <2>1, <2>2
<1>9. ASSUME NEW a \in 1..n PROVE M[a] # << >> /\ RenderedLen(M[a]) <= MaxChars
  <2>1. CASE a # n
    <3>1. M[a] = L[a] /\ a \in 1..Len(L)
      BY <2>1, <1>3, <1>6
    <3>. QED  BY <3>1, <1>5 DEF Carries
  <2>2. CASE a = n
    <3>1. D # << >>
      BY <1>2, <1>4
    <3>. QED  BY <2>2, <3>1, <1>5, <1>6
  <2>. QED  BY <2>1, <2>2
<1>10. ASSUME NEW a \in 1..n, NEW j \in 1..Len(L[a])
       PROVE  \E q \in 1..k : PieceOf(L[a][j], units[q])
  BY <1>3, <1>5 DEF Carries, PiecesFrom
<1>11. u.len \in Nat /\ PieceOf(u, u) /\ u.line \in Nat
  BY <1>1 DEF PieceOf, Units
<1>12. PiecesFrom(M, units, k + 1)
  <2>. SUFFICES ASSUME NEW a \in 1..n, NEW j \in 1..Len(M[a])
                PROVE  \E q \in 1..(k + 1) : PieceOf(M[a][j], units[q])
    BY <1>6 DEF PiecesFrom
  <2>1. CASE j \in 1..Len(L[a]) /\ M[a][j] = L[a][j]
    <3>1. PICK q \in 1..k : PieceOf(L[a][j], units[q])
      BY <2>1, <1>10
    <3>2. q \in 1..(k + 1)
      OBVIOUS
    <3>. QED  BY <3>1, <3>2, <2>1
  <2>2. CASE M[a][j] = u
    <3>1. k + 1 \in 1..(k + 1)
      OBVIOUS
    <3>. QED  BY <3>1, <2>2, <1>11
  <2>. QED  BY <1>8, <2>1, <2>2
<1>13. ASSUME NEW a \in 1..n, NEW j \in 1..Len(L[a]) PROVE L[a][j].line <= u.line
  <2>1. PICK q \in 1..k : PieceOf(L[a][j], units[q])
    BY <1>10
  <2>2. q \in 1..Len(units) /\ q < k + 1
    BY <1>1
  <2>3. units[q] \in Units /\ units[q].line < u.line /\ units[q].line \in Nat
    <3>1. units[q] \in Units /\ units[q].line < u.line
      BY <2>2, <1>1 DEF UnitsUp
    <3>. QED  BY <3>1 DEF Units
  <2>4. L[a][j].line = units[q].line
    BY <2>1, <2>3, PieceFields
  <2>5. u.line \in Nat
    BY <1>11
  <2>6. units[q].line <= u.line
    BY <2>3, <2>5, SMTT(30)
  <2>. QED  BY <2>4, <2>6
<1>14. LinesUp(M)
  <2>. SUFFICES ASSUME NEW a \in 1..n, NEW b \in 1..n,
                       NEW j \in 1..Len(M[a]), NEW l \in 1..Len(M[b]),
                       a < b \/ (a = b /\ j < l)
                PROVE  M[a][j].line <= M[b][l].line
    BY <1>6 DEF LinesUp
  <2>1. CASE l \in 1..Len(L[b]) /\ M[b][l] = L[b][l]
    <3>1. j \in 1..Len(L[a]) /\ M[a][j] = L[a][j]
      <4>1. CASE a < b
        <5>1. a # n
          BY <4>1, <1>2
        <5>. QED  BY <5>1, <1>8
      <4>2. CASE a = b /\ j < l
        <5>1. M[a][j] = L[a][j] \/ (a = n /\ j = z)
          BY <1>8
        <5>2. j \in 1..Len(L[a])
          BY <4>2, <2>1
        <5>3. ~(a = n /\ j = z)
          <6>1. a = n => Len(L[a]) = z - 1
            BY <1>3, <1>4
          <6>. QED  BY <6>1, <5>2, <1>2
        <5>. QED  BY <5>1, <5>2, <5>3
      <4>. QED  BY <4>1, <4>2
    <3>2. a \in 1..Len(L) /\ b \in 1..Len(L)
      BY <1>3
    <3>. QED  BY <2>1, <3>1, <3>2, <1>5 DEF Carries, LinesUp
  <2>2. CASE b = n /\ l = z /\ M[b][l] = u
    <3>1. CASE j \in 1..Len(L[a]) /\ M[a][j] = L[a][j]
      BY <3>1, <2>2, <1>13
    <3>2. CASE a = n /\ j = z /\ M[a][j] = u
      BY <3>2, <2>2, <1>11
    <3>. QED  BY <1>8, <3>1, <3>2
  <2>. QED  BY <1>8, <2>1, <2>2
<1>. QED  BY <1>6, <1>7, <1>9, <1>12, <1>14 DEF Carries, M, D

(* What is packed so far carries the units so far, and size is the length of what is in buf.     *)
PackOf(pack, units, k) ==
  /\ pack \in [chunks : Seq(Seq(Units)), buf : Seq(Units), size : Int]
  /\ pack.buf # << >> => pack.size = RenderedLen(pack.buf)
  /\ Carries(Flushed(pack), units, k)

(* Taking the next unit, in each of the three ways.                                              *)
LEMMA TakeUnitGood ==
  ASSUME NEW units, UnitsUp(units), NEW k \in Nat, k + 1 <= Len(units),
         NEW pack, PackOf(pack, units, k), NEW next \in TakeUnit(pack, units[k + 1])
  PROVE  PackOf(next, units, k + 1)
<1>. DEFINE u == units[k + 1]
            C == pack.chunks
            B == pack.buf
            F == Flushed(pack)
            Types == [chunks : Seq(Seq(Units)), buf : Seq(Units), size : Int]
            tail == TailOf(Last(B))
            fits == B # << >> /\ pack.size + AppendCost(tail, u) <= MaxChars
<1>1. /\ units \in Seq(Units) /\ k + 1 \in 1..Len(units) /\ u \in Units /\ Packable(u)
  <2>1. k + 1 \in 1..Len(units)
    BY DEF UnitsUp
  <2>. QED  BY <2>1 DEF UnitsUp
<1>2. /\ pack \in Types /\ C \in Seq(Seq(Units)) /\ B \in Seq(Units) /\ pack.size \in Int
      /\ B # << >> => pack.size = RenderedLen(B)
      /\ Carries(F, units, k) /\ F \in Seq(Seq(Units))
  BY DEF PackOf, Carries
<1>. HIDE DEF u
<1>3. CASE fits
  <2>1. next = [pack EXCEPT !.buf = Append(B, u), !.size = pack.size + AppendCost(tail, u)]
    BY <1>3 DEF TakeUnit, u
  <2>2. RenderedLen(Append(B, u)) = RenderedLen(B) + AppendCost(tail, u)
    BY <1>1, <1>2, <1>3, RenderAppend
  <2>3. Append(B, u) \in Seq(Units) /\ Append(B, u) # << >>
    <3>1. u \in Units /\ B \in Seq(Units)
      BY <1>1, <1>2
    <3>. QED  BY <3>1, AppendOf
  <2>4. RenderedLen(Append(B, u)) \in Int /\ RenderedLen(Append(B, u)) <= MaxChars
    BY <2>2, <2>3, <1>2, <1>3, WidthsType
  <2>5. /\ next.chunks = C /\ next.buf = Append(B, u) /\ next.size = RenderedLen(Append(B, u))
        /\ next \in Types
    BY <2>1, <2>2, <2>3, <2>4, <1>2, <1>3
  <2>6. F = Append(C, B)
    BY <1>3 DEF Flushed
  <2>7. Flushed(next) = Append(C, Append(B, u))
    BY <2>3, <2>5 DEF Flushed
  <2>8. Carries(Append(C, Append(B, u)), units, k + 1)
    BY <2>4, <2>6, <1>2, CarriesGrown DEF u
  <2>. QED  BY <2>5, <2>7, <2>8 DEF PackOf
<1>4. ASSUME NEW p, PiecesOf(p, u), next.size = SoloLen(Last(p)), next.buf = <<Last(p)>>,
             next.chunks = F \o [i \in 1..(Len(p) - 1) |-> <<p[i]>>],
             next = [chunks |-> next.chunks, buf |-> next.buf, size |-> next.size]
      PROVE  PackOf(next, units, k + 1)
  <2>. DEFINE n == Len(p)
              S == Singles(p)
              H == [i \in 1..(n - 1) |-> <<p[i]>>]
              V == Seq(Units)
  <2>1. p \in Seq(Units) /\ n \in Nat /\ n > 0 /\ Last(p) = p[n] /\ n \in 1..n
    BY <1>4 DEF PiecesOf, Last
  <2>2. S \in Seq(V) /\ Len(S) = n /\ \A j \in 1..n : S[j] = <<p[j]>>
    BY <2>1, SinglesFacts
  <2>3. ASSUME NEW j \in 1..n PROVE p[j] \in Units /\ <<p[j]>> \in V /\ <<p[j]>> # << >>
    <3>1. p[j] \in Units
      BY <2>1
    <3>. QED  BY <3>1
  <2>4. H \in Seq(V) /\ Len(H) = n - 1 /\ \A j \in 1..(n - 1) : H[j] = <<p[j]>>
    <3>1. \A j \in 1..(n - 1) : <<p[j]>> \in V
      BY <2>1, <2>3
    <3>2. n - 1 \in Nat /\ H \in [1..(n - 1) -> V] /\ DOMAIN H = 1..(n - 1)
      BY <2>1, <3>1
    <3>3. \A j \in 1..(n - 1) : H[j] = <<p[j]>>
      OBVIOUS
    <3>. HIDE DEF V, H, n
    <3>. QED  BY <3>2, <3>3
  <2>5. <<p[n]>> \in V /\ <<p[n]>> # << >> /\ p[n] \in Units
    BY <2>1, <2>3
  <2>6. Append(F \o H, <<p[n]>>) = F \o S
    <3>. HIDE DEF V, H, S, n
    <3>1. F \in Seq(V)
      BY <1>2 DEF V
    <3>. DEFINE m == Len(F)
    <3>2. m \in Nat
      BY <3>1
    <3>. HIDE DEF F
    <3>3. /\ F \o H \in Seq(V) /\ Len(F \o H) = m + (n - 1)
          /\ \A a \in 1..(m + (n - 1)) : (F \o H)[a] = IF a <= m THEN F[a] ELSE H[a - m]
      <4>1. H \in Seq(V) /\ Len(H) = n - 1
        BY <2>4
      <4>2. /\ F \o H \in Seq(V) /\ Len(F \o H) = m + Len(H)
            /\ \A a \in 1..(m + Len(H)) : (F \o H)[a] = IF a <= m THEN F[a] ELSE H[a - m]
        <5>1. H \in Seq(V)
          BY <4>1
        <5>. QED  BY <3>1, <5>1, ConcatProperties DEF m
      <4>. QED  BY <4>1, <4>2
    <3>4. /\ F \o S \in Seq(V) /\ Len(F \o S) = m + n
          /\ \A a \in 1..(m + n) : (F \o S)[a] = IF a <= m THEN F[a] ELSE S[a - m]
      BY <3>1, <2>2, ConcatProperties
    <3>. DEFINE G == F \o H
                T == F \o S
                A == Append(G, <<p[n]>>)
    <3>. HIDE DEF m, G, T
    <3>5. G \in Seq(V) /\ Len(G) = m + (n - 1) /\ T \in Seq(V) /\ Len(T) = m + n
      BY <3>3, <3>4 DEF G, T
    <3>6. /\ A \in Seq(V) /\ Len(A) = m + n /\ A[m + n] = <<p[n]>>
          /\ \A a \in 1..(m + (n - 1)) : A[a] = G[a]
      BY <3>5, <2>1, <2>5, <3>2
    <3>7. ASSUME NEW a \in 1..(m + n) PROVE A[a] = T[a]
      <4>1. CASE a <= m
        <5>1. a \in 1..(m + (n - 1))
          BY <4>1, <3>2, <2>1
        <5>. QED  BY <5>1, <4>1, <3>3, <3>4, <3>6 DEF G, T
      <4>2. CASE a > m /\ a # m + n
        <5>1. a \in 1..(m + (n - 1)) /\ ~(a <= m) /\ a - m \in 1..(n - 1) /\ a - m \in 1..n
          BY <4>2, <3>2, <2>1
        <5>2. H[a - m] = S[a - m]
          BY <5>1, <2>2, <2>4
        <5>. QED  BY <5>1, <5>2, <3>3, <3>4, <3>6 DEF G, T
      <4>3. CASE a = m + n
        <5>1. ~(a <= m) /\ a - m = n /\ n \in 1..n
          BY <4>3, <3>2, <2>1
        <5>. QED  BY <5>1, <4>3, <2>2, <3>4, <3>6 DEF T
      <4>4. a <= m \/ (a > m /\ a # m + n) \/ a = m + n
        BY <3>2, <2>1
      <4>. QED  BY <4>1, <4>2, <4>3, <4>4
    <3>. HIDE DEF A
    <3>8. A = T
      BY <3>5, <3>6, <3>7, SeqEqual
    <3>. QED  BY <3>8 DEF A, G, T
  <2>7. Flushed(next) = F \o S
    BY <2>1, <2>5, <2>6, <1>4 DEF Flushed
  <2>8. Carries(F \o S, units, k + 1)
    BY <1>2, <1>4, CarriesSingles DEF u
  <2>9. next.size = RenderedLen(next.buf) /\ next.size \in Int
    <3>1. RenderedLen(<<p[n]>>) = SoloLen(p[n])
      BY <2>5, RenderOne
    <3>2. RenderedLen(<<p[n]>>) \in Int
      BY <2>5, WidthsType
    <3>. QED  BY <3>1, <3>2, <2>1, <1>4
  <2>10. F \o H \in Seq(V)
    <3>1. F \in Seq(V)
      BY <1>2
    <3>. HIDE DEF V, H, F
    <3>. QED  BY <3>1, <2>4
  <2>11. next \in Types
    BY <2>1, <2>5, <2>9, <2>10, <1>4
  <2>. QED  BY <2>7, <2>8, <2>9, <2>11 DEF PackOf
<1>5. CASE ~fits /\ SoloLen(u) <= MaxChars
  <2>1. next = [chunks |-> F, buf |-> <<u>>, size |-> SoloLen(u)]
    BY <1>5 DEF TakeUnit, u
  <2>. DEFINE p == <<u>>
  <2>2. p \in Seq(Units) /\ Len(p) = 1 /\ p[1] = u /\ Last(p) = u
    BY <1>1 DEF Last
  <2>3. PiecesOf(p, u)
    <3>1. PieceOf(u, u)
      BY <1>1 DEF PieceOf, Units
    <3>2. \A i \in Nat : Share(p, i) = LenOn(u, i)
      BY <1>1, ShareOne
    <3>. HIDE DEF p
    <3>. QED  BY <3>1, <3>2, <2>2, <1>5 DEF PiecesOf
  <2>4. F \o [i \in 1..(Len(p) - 1) |-> <<p[i]>>] = F
    <3>1. [i \in 1..(Len(p) - 1) |-> <<p[i]>>] = << >>
      BY <2>2
    <3>. QED  BY <3>1, <1>2
  <2>. HIDE DEF p
  <2>5. next.buf = <<Last(p)>>
    BY <2>1, <2>2
  <2>. QED  BY <2>1, <2>2, <2>3, <2>4, <2>5, <1>4
<1>6. CASE ~fits /\ SoloLen(u) > MaxChars
  <2>1. next \in TakeLarge(pack, u)
    <3>1. ~(SoloLen(u) <= MaxChars)
      <4>1. SoloLen(u) \in Nat
        BY <1>1, SoloNat
      <4>. QED  BY <4>1, <1>6, EndsFacts
    <3>. QED  BY <3>1, <1>6 DEF TakeUnit, u
  <2>2. PICK p \in Pieces(u) :
          next = [chunks |-> F \o [i \in 1..(Len(p) - 1) |-> <<p[i]>>],
                  buf |-> <<Last(p)>>, size |-> SoloLen(Last(p))]
    BY <2>1 DEF TakeLarge
  <2>3. PiecesOf(p, u)
    BY <1>1, <1>6, PiecesGood
  <2>. HIDE DEF F
  <2>. QED  BY <2>2, <2>3, <1>4
<1>7. SoloLen(u) <= MaxChars \/ SoloLen(u) > MaxChars
  <2>1. SoloLen(u) \in Nat
    BY <1>1, SoloNat
  <2>. QED  BY <2>1, EndsFacts
<1>. QED  BY <1>3, <1>5, <1>6, <1>7

(* What a pack is.                                                                               *)
PackType == [chunks : Seq(Seq(Units)), buf : Seq(Units), size : Int]

(* A pack is chunks, a buffer and a size; what is flushed is a list of chunks,                   *)
LEMMA FlushedType ==
  ASSUME NEW pack \in PackType
  PROVE  Flushed(pack) \in Seq(Seq(Units))
<1>1. pack.chunks \in Seq(Seq(Units)) /\ pack.buf \in Seq(Units)
  BY DEF PackType
<1>. DEFINE V == Seq(Units)
<1>2. pack.chunks \in Seq(V) /\ pack.buf \in V
  BY <1>1
<1>. HIDE DEF V
<1>3. Flushed(pack) \in Seq(V)
  BY <1>2, AppendOf DEF Flushed
<1>. QED  BY <1>3 DEF V

(* and taking a unit leaves a pack.                                                              *)
LEMMA TakeUnitType ==
  ASSUME NEW u, Packable(u), NEW pack \in PackType, NEW next \in TakeUnit(pack, u)
  PROVE  next \in PackType
<1>. DEFINE C == pack.chunks
            B == pack.buf
            F == Flushed(pack)
            fits == B # << >> /\ pack.size + AppendCost(TailOf(Last(B)), u) <= MaxChars
<1>1. u \in Units /\ SoloLen(u) \in Nat /\ MaxChars \in Nat
  BY SoloNat, EndsFacts DEF Packable
<1>2. C \in Seq(Seq(Units)) /\ B \in Seq(Units) /\ pack.size \in Int
  BY DEF PackType
<1>3. F \in Seq(Seq(Units))
  BY FlushedType
<1>4. AppendCost(TailOf(Last(B)), u) \in Nat
  <2>1. u.len \in Nat
    BY <1>1 DEF Units
  <2>. QED  BY <2>1, <1>1 DEF AppendCost
<1>5. CASE fits
  <2>1. next = [pack EXCEPT !.buf = Append(B, u),
                            !.size = pack.size + AppendCost(TailOf(Last(B)), u)]
    BY <1>5 DEF TakeUnit
  <2>2. Append(B, u) \in Seq(Units)
    BY <1>1, <1>2, AppendOf
  <2>3. pack.size + AppendCost(TailOf(Last(B)), u) \in Int
    BY <1>2, <1>4
  <2>. QED  BY <2>1, <2>2, <2>3, <1>2 DEF PackType
<1>6. CASE ~fits /\ SoloLen(u) <= MaxChars
  <2>1. next = [chunks |-> F, buf |-> <<u>>, size |-> SoloLen(u)]
    BY <1>6 DEF TakeUnit
  <2>2. <<u>> \in Seq(Units)
    BY <1>1
  <2>3. SoloLen(u) \in Int
    BY <1>1
  <2>. HIDE DEF F
  <2>. QED  BY <2>1, <2>2, <2>3, <1>3 DEF PackType
<1>7. CASE ~fits /\ ~(SoloLen(u) <= MaxChars)
  <2>1. next \in TakeLarge(pack, u)
    BY <1>7 DEF TakeUnit
  <2>2. PICK p \in Pieces(u) :
          next = [chunks |-> F \o [i \in 1..(Len(p) - 1) |-> <<p[i]>>],
                  buf |-> <<Last(p)>>, size |-> SoloLen(Last(p))]
    BY <2>1 DEF TakeLarge
  <2>. DEFINE n == Len(p)
              V == Seq(Units)
              H == [i \in 1..(n - 1) |-> <<p[i]>>]
  <2>3. p \in Seq(Units) /\ n \in Nat /\ n > 0
    BY <1>1, <1>7, PiecesGood DEF PiecesOf
  <2>4. ASSUME NEW j \in 1..n PROVE p[j] \in Units /\ <<p[j]>> \in V
    <3>1. p[j] \in Units
      BY <2>3
    <3>. QED  BY <3>1
  <2>5. Last(p) = p[n] /\ n \in 1..n
    BY <2>3 DEF Last
  <2>6. <<Last(p)>> \in V /\ SoloLen(Last(p)) \in Nat
    BY <2>4, <2>5, SoloNat
  <2>7. F \o H \in Seq(V)
    <3>1. \A j \in 1..(n - 1) : <<p[j]>> \in V
      BY <2>3, <2>4
    <3>2. n - 1 \in Nat /\ H \in [1..(n - 1) -> V] /\ F \in Seq(V)
      BY <2>3, <3>1, <1>3
    <3>. HIDE DEF V, H, n, F
    <3>3. H \in Seq(V)
      BY <3>2
    <3>. QED  BY <3>2, <3>3
  <2>8. SoloLen(Last(p)) \in Int
    BY <2>6
  <2>. HIDE DEF F, H
  <2>9. next = [chunks |-> F \o H, buf |-> <<Last(p)>>, size |-> SoloLen(Last(p))]
    BY <2>2 DEF H
  <2>. QED  BY <2>6, <2>7, <2>8, <2>9 DEF PackType
<1>. QED  BY <1>5, <1>6, <1>7

Taking(packs, unit) == UNION {TakeUnit(p, unit) : p \in packs}

Packs(units) ==
  FoldLeft(LAMBDA packs, unit : UNION {TakeUnit(p, unit) : p \in packs}, {EmptyPack}, units)

(* The packs that can be, unwound: h holds those behind each unit.                               *)
LEMMA PacksUnwind ==
  ASSUME NEW units, UnitsUp(units)
  PROVE  \E h \in [0..Len(units) -> (SUBSET PackType)] :
           /\ h[0] = {EmptyPack}
           /\ \A i \in 1..Len(units) : h[i] = Taking(h[i - 1], units[i])
           /\ Packs(units) = h[Len(units)]
<1>. DEFINE n == Len(units)
            D == 1..n
            It == CHOOSE it : it = [x \in SUBSET D |->
                     IF x = {} THEN {EmptyPack}
                     ELSE Taking(it[x \ {Max(x)}], units[Max(x)])]
            F == [v \in (SUBSET PackType) |-> [i \in D |-> Taking(v, units[i])]]
<1>1. n \in Nat /\ DOMAIN units = D /\ \A i \in D : units[i] \in Units
  BY DEF UnitsUp
<1>2. Packs(units) = It[D]
  BY <1>1 DEF Packs, Taking, FoldLeft, MapThenFoldSet
<1>3. F \in [(SUBSET PackType) -> [D -> (SUBSET PackType)]] /\ {EmptyPack} \in (SUBSET PackType)
  <2>1. ASSUME NEW v \in SUBSET PackType, NEW i \in D
        PROVE  Taking(v, units[i]) \in SUBSET PackType
    <3>1. Packable(units[i])
      BY DEF UnitsUp
    <3>. QED  BY <3>1, TakeUnitType DEF Taking
  <2>2. EmptyPack \in PackType
    BY DEF EmptyPack, PackType
  <2>. QED  BY <2>1, <2>2
<1>4. PICK g : FoldEq(g, (SUBSET PackType), n, {EmptyPack}, F)
  <2>. HIDE DEF F, n
  <2>. QED  BY <1>1, <1>3, FoldExists, Zenon
<1>5. \A x \in SUBSET D : x # {} => Max(x) \in D /\ x \ {Max(x)} \in SUBSET D
  BY <1>1, MaxOfSubset
<1>6. g = [x \in SUBSET D |-> IF x = {} THEN {EmptyPack}
                            ELSE Taking(g[x \ {Max(x)}], units[Max(x)])]
  BY <1>1, <1>4, <1>5 DEF FoldEq
<1>7. It = [x \in SUBSET D |-> IF x = {} THEN {EmptyPack}
                             ELSE Taking(It[x \ {Max(x)}], units[Max(x)])]
  <2>. HIDE DEF D, F
  <2>. QED  BY <1>6, Zenon
<1>. HIDE DEF It
<1>8. PICK h : Stages(h, It, (SUBSET PackType), n, {EmptyPack}, F)
  <2>1. FoldStep(It, (SUBSET PackType), n, {EmptyPack}, F)
    BY <1>7, <1>5 DEF FoldStep
  <2>. HIDE DEF F, n
  <2>. QED  BY <2>1, <1>1, <1>3, FoldRuns, Zenon
<1>9. ASSUME NEW i \in 1..n PROVE h[i] = Taking(h[i - 1], units[i])
  <2>1. i - 1 \in 0..n
    BY <1>1
  <2>. QED  BY <1>8, <2>1 DEF Stages
<1>. HIDE DEF F
<1>. QED  BY <1>2, <1>8, <1>9 DEF Stages

(* A packing carries all of its units.                                                           *)
LEMMA PackingsCarry ==
  ASSUME NEW units, UnitsUp(units), NEW L \in Packings(units)
  PROVE  Carries(L, units, Len(units))
<1>. DEFINE n == Len(units)
<1>1. units \in Seq(Units) /\ n \in Nat
  BY DEF UnitsUp
<1>2. PICK h \in [0..n -> SUBSET PackType] :
        /\ h[0] = {EmptyPack}
        /\ \A i \in 1..n : h[i] = Taking(h[i - 1], units[i])
        /\ Packs(units) = h[n]
  BY PacksUnwind
<1>3. PICK pack \in h[n] : L = Flushed(pack)
  BY <1>2 DEF Packings, Packs
<1>. DEFINE K == {k \in Nat : k <= n => \A p \in h[k] : PackOf(p, units, k)}
<1>. HIDE DEF n
<1>4. 0 \in K
  <2>. SUFFICES PackOf(EmptyPack, units, 0)
    BY <1>2
  <2>. DEFINE E == << >>
  <2>1. EmptyPack.buf = << >> /\ EmptyPack.chunks = << >> /\ Flushed(EmptyPack) = E
    BY DEF EmptyPack, Flushed
  <2>2. EmptyPack \in [chunks : Seq(Seq(Units)), buf : Seq(Units), size : Int]
    BY DEF EmptyPack
  <2>3. E \in Seq(Seq(Units)) /\ Len(E) = 0
    OBVIOUS
  <2>4. ASSUME NEW i \in Nat PROVE Total(E, i) = Share(SubSeq(units, 1, 0), i)
    <3>1. SubSeq(units, 1, 0) = << >>
      BY <1>1
    <3>. QED  BY <3>1, TotalEmpty, ShareEmpty
  <2>. HIDE DEF E
  <2>5. Carries(E, units, 0)
    BY <2>3, <2>4 DEF Carries, LinesUp, PiecesFrom
  <2>. QED  BY <2>1, <2>2, <2>5 DEF PackOf
<1>5. ASSUME NEW k \in Nat, k \in K PROVE k + 1 \in K
  <2>. SUFFICES ASSUME k + 1 <= n, NEW p \in h[k + 1] PROVE PackOf(p, units, k + 1)
    OBVIOUS
  <2>1. k + 1 \in 1..n /\ (k + 1) - 1 = k /\ k <= n
    BY <1>1
  <2>2. h[k + 1] = UNION {TakeUnit(q, units[k + 1]) : q \in h[k]}
    BY <2>1, <1>2 DEF Taking
  <2>3. PICK q \in h[k] : p \in TakeUnit(q, units[k + 1])
    BY <2>2
  <2>4. PackOf(q, units, k)
    BY <2>1, <2>3, <1>5
  <2>. QED  BY <2>3, <2>4, TakeUnitGood DEF n
<1>. HIDE DEF K
<1>6. n \in K
  BY <1>1, <1>4, <1>5, Induction
<1>. QED  BY <1>1, <1>3, <1>6 DEF K, PackOf, n

(* Stripping takes blank prose from the end, and no character.                                   *)
LEMMA StrippedFacts ==
  ASSUME NEW c \in Seq(Units)
  PROVE  /\ Stripped(c) \in Seq(Units) /\ Len(Stripped(c)) <= Len(c)
         /\ \A j \in 1..Len(Stripped(c)) : j \in 1..Len(c) /\ Stripped(c)[j] = c[j]
         /\ \A i \in Nat : Share(Stripped(c), i) = Share(c, i)
         /\ RenderedLen(Stripped(c)) <= RenderedLen(c)
<1>. DEFINE n == Len(c)
            full == {i \in 1..n : IsCode(c[i]) \/ c[i].len > 0}
            m == IF full = {} THEN 0 ELSE CHOOSE i \in full : \A j \in full : j <= i
            s == SubSeq(c, 1, m)
<1>1. n \in Nat /\ \A i \in 1..n : c[i] \in Units /\ c[i].len \in Nat
  <2>1. \A i \in 1..n : c[i] \in Units
    OBVIOUS
  <2>. QED  BY <2>1, SMTT(30) DEF Units
<1>2. m \in 0..n /\ \A i \in (m + 1)..n : c[i].len = 0
  <2>1. CASE full = {}
    <3>1. m = 0
      BY <2>1
    <3>2. ASSUME NEW i \in 1..n PROVE c[i].len = 0
      <4>1. ~(c[i].len > 0)
        BY <2>1
      <4>. QED  BY <4>1, <1>1
    <3>. HIDE DEF m, full
    <3>. QED  BY <3>1, <3>2, <1>1
  <2>2. CASE full # {}
    <3>1. Max(full) \in full /\ \A y \in full : y <= Max(full)
      BY <2>2, <1>1, MaxOfSubset
    <3>2. m = CHOOSE i \in full : \A j \in full : j <= i
      BY <2>2
    <3>3. m \in full /\ \A j \in full : j <= m
      <4>. HIDE DEF full, m
      <4>. QED  BY <3>1, <3>2
    <3>. HIDE DEF m
    <3>4. ASSUME NEW i \in (m + 1)..n PROVE c[i].len = 0
      <4>1. m \in 1..n
        BY <3>3
      <4>2. i \in 1..n /\ ~(i <= m)
        BY <4>1, <1>1
      <4>3. ~(c[i].len > 0)
        BY <4>2, <3>3
      <4>. QED  BY <4>2, <4>3, <1>1
    <3>. QED  BY <3>3, <3>4, <1>1
  <2>. QED  BY <2>1, <2>2
<1>3. Stripped(c) = s
  <2>1. DOMAIN c = 1..n
    OBVIOUS
  <2>. QED  BY <2>1 DEF Stripped
<1>. HIDE DEF full, m
<1>4. s \in Seq(Units) /\ Len(s) = m /\ \A j \in 1..m : s[j] = c[j] /\ j \in 1..n
  BY <1>1, <1>2
<1>. HIDE DEF s
<1>5. ASSUME NEW i \in Nat PROVE Share(s, i) = Share(c, i)
  <2>1. /\ Shares(s, i) \in Seq(Nat) /\ Len(Shares(s, i)) = m
        /\ Share(s, i) = SumOf(Shares(s, i))
        /\ \A k \in 1..m : Shares(s, i)[k] = LenOn(s[k], i)
    BY <1>4, SharesType
  <2>2. /\ Shares(c, i) \in Seq(Nat) /\ Len(Shares(c, i)) = n
        /\ Share(c, i) = SumOf(Shares(c, i))
        /\ \A k \in 1..n : Shares(c, i)[k] = LenOn(c[k], i)
    BY SharesType
  <2>. DEFINE A == Shares(s, i)
              B == Shares(c, i)
  <2>3. A \in Seq(Nat) /\ B \in Seq(Nat) /\ m \in 0..Len(B) /\ Len(A) = m
        /\ \A k \in 1..m : A[k] = B[k]
    BY <2>1, <2>2, <1>2, <1>4
  <2>4. \A k \in (m + 1)..Len(B) : B[k] = 0
    <3>1. ASSUME NEW k \in (m + 1)..n PROVE B[k] = 0
      <4>1. k \in 1..n /\ c[k].len = 0
        BY <1>1, <1>2
      <4>. QED  BY <4>1, <2>2 DEF LenOn
    <3>. QED  BY <3>1, <2>2
  <2>5. SumOf(A) = SumOf(B)
    <3>. HIDE DEF A, B
    <3>. QED  BY <2>3, <2>4, SumPrefix
  <2>. QED  BY <2>1, <2>2, <2>5
<1>6. RenderedLen(s) <= RenderedLen(c)
  BY <1>2, <1>4, RenderPrefix
<1>. QED  BY <1>2, <1>3, <1>4, <1>5, <1>6

(* Stripping one chunk more leaves a list of chunks.                                             *)
LEMMA StripType ==
  ASSUME NEW M \in Seq(Seq(Units)), NEW c \in Seq(Units)
  PROVE  Strip(M, c) \in Seq(Seq(Units))
<1>. DEFINE V == Seq(Units)
<1>1. Stripped(c) \in V /\ M \in Seq(V)
  BY StrippedFacts
<1>. HIDE DEF V
<1>2. Strip(M, c) \in Seq(V)
  BY <1>1, AppendOf DEF Strip
<1>. QED  BY <1>2 DEF V

(* What is left of the chunks, unwound.                                                          *)
LEMMA StripUnwinds ==
  ASSUME NEW L \in Seq(Seq(Units))
  PROVE  \E h \in [0..Len(L) -> Seq(Seq(Units))] :
           /\ h[0] = << >>
           /\ \A i \in 1..Len(L) : h[i] = Strip(h[i - 1], L[i])
           /\ FoldLeft(Strip, << >>, L) = h[Len(L)]
<1>. DEFINE n == Len(L)
            D == 1..n
            It == CHOOSE it : it = [x \in SUBSET D |->
                     IF x = {} THEN << >>
                     ELSE Strip(it[x \ {Max(x)}], L[Max(x)])]
            F == [v \in Seq(Seq(Units)) |-> [i \in D |-> Strip(v, L[i])]]
<1>1. n \in Nat /\ DOMAIN L = D /\ \A i \in D : L[i] \in Seq(Units)
  OBVIOUS
<1>2. FoldLeft(Strip, << >>, L) = It[D]
  BY <1>1 DEF FoldLeft, MapThenFoldSet
<1>3. F \in [Seq(Seq(Units)) -> [D -> Seq(Seq(Units))]] /\ << >> \in Seq(Seq(Units))
  <2>1. ASSUME NEW v \in Seq(Seq(Units)), NEW i \in D
        PROVE  Strip(v, L[i]) \in Seq(Seq(Units))
    BY <1>1, StripType
  <2>2. << >> \in Seq(Seq(Units))
    OBVIOUS
  <2>. QED  BY <2>1, <2>2
<1>4. PICK g : FoldEq(g, Seq(Seq(Units)), n, << >>, F)
  <2>. HIDE DEF F, n
  <2>. QED  BY <1>1, <1>3, FoldExists, Zenon
<1>5. \A x \in SUBSET D : x # {} => Max(x) \in D /\ x \ {Max(x)} \in SUBSET D
  BY <1>1, MaxOfSubset
<1>6. g = [x \in SUBSET D |-> IF x = {} THEN << >>
                            ELSE Strip(g[x \ {Max(x)}], L[Max(x)])]
  BY <1>1, <1>4, <1>5 DEF FoldEq
<1>7. It = [x \in SUBSET D |-> IF x = {} THEN << >>
                             ELSE Strip(It[x \ {Max(x)}], L[Max(x)])]
  <2>. HIDE DEF D, F
  <2>. QED  BY <1>6, Zenon
<1>. HIDE DEF It
<1>8. PICK h : Stages(h, It, Seq(Seq(Units)), n, << >>, F)
  <2>1. FoldStep(It, Seq(Seq(Units)), n, << >>, F)
    BY <1>7, <1>5 DEF FoldStep
  <2>. HIDE DEF F, n
  <2>. QED  BY <2>1, <1>1, <1>3, FoldRuns, Zenon
<1>9. ASSUME NEW i \in 1..n PROVE h[i] = Strip(h[i - 1], L[i])
  <2>1. i - 1 \in 0..n
    BY <1>1
  <2>. QED  BY <1>8, <2>1 DEF Stages
<1>. HIDE DEF F
<1>. QED  BY <1>2, <1>8, <1>9 DEF Stages

(* The next chunk adds what it has of a line.                                                    *)
LEMMA TotalOfNext ==
  ASSUME NEW L \in Seq(Seq(Units)), NEW k \in Nat, k + 1 <= Len(L), NEW i \in Nat
  PROVE  Total(SubSeq(L, 1, k + 1), i) = Total(SubSeq(L, 1, k), i) + Share(L[k + 1], i)
<1>. DEFINE s == SubSeq(L, 1, k)
            t == SubSeq(L, 1, k + 1)
            c == L[k + 1]
            V == Seq(Units)
<1>0. L \in Seq(V)
  OBVIOUS
<1>. HIDE DEF V
<1>1. s \in Seq(V) /\ Len(s) = k /\ \A j \in 1..k : s[j] = L[j]
  BY <1>0
<1>2. t \in Seq(V) /\ Len(t) = k + 1 /\ \A j \in 1..(k + 1) : t[j] = L[j]
  BY <1>0
<1>3. c \in V
  BY <1>0
<1>. HIDE DEF s, t, c
<1>. DEFINE d == Append(s, c)
<1>4. d \in Seq(V) /\ Len(d) = k + 1 /\ d[k + 1] = c /\ \A j \in 1..k : d[j] = L[j]
  BY <1>1, <1>3
<1>. HIDE DEF d
<1>5. ASSUME NEW j \in 1..(k + 1) PROVE t[j] = d[j]
  <2>1. CASE j \in 1..k
    BY <2>1, <1>2, <1>4
  <2>2. CASE j = k + 1
    BY <2>2, <1>2, <1>4 DEF c
  <2>3. j \in 1..k \/ j = k + 1
    OBVIOUS
  <2>. QED  BY <2>1, <2>2, <2>3
<1>6. t = d
  BY <1>2, <1>4, <1>5, SeqEqual
<1>7. Total(d, i) = Total(s, i) + Share(c, i)
  BY <1>1, <1>3, TotalAppend DEF d, V
<1>. QED  BY <1>6, <1>7 DEF s, t, c

(* What is left of the first k chunks: their beginnings, of those that have one.                 *)
HeadOf(c, L, k) ==
  \E b \in 1..k : \A j \in 1..Len(c) : j \in 1..Len(L[b]) /\ c[j] = L[b][j]

LeftOf(M, L, k) ==
  /\ M \in Seq(Seq(Units))
  /\ \A a \in 1..Len(M) : RenderedLen(M[a]) <= MaxChars /\ HeadOf(M[a], L, k)
  /\ LinesUp(M)
  /\ \A i \in Nat : Total(M, i) = Total(SubSeq(L, 1, k), i)

(* Stripping one chunk more,                                                                     *)
LEMMA StripGood ==
  ASSUME NEW L \in Seq(Seq(Units)), LinesUp(L),
         \A b \in 1..Len(L) : RenderedLen(L[b]) <= MaxChars,
         NEW k \in Nat, k + 1 <= Len(L), NEW M, LeftOf(M, L, k)
  PROVE  LeftOf(Strip(M, L[k + 1]), L, k + 1)
<1>. DEFINE c == L[k + 1]
            s == Stripped(c)
            V == Seq(Units)
            n == Len(M) + 1
            N == Append(M, s)
<1>1. k + 1 \in 1..Len(L) /\ c \in Seq(Units)
  OBVIOUS
<1>2. /\ s \in Seq(Units)
      /\ \A j \in 1..Len(s) : j \in 1..Len(c) /\ s[j] = c[j]
      /\ \A i \in Nat : Share(s, i) = Share(c, i)
      /\ RenderedLen(s) <= RenderedLen(c)
  BY <1>1, StrippedFacts
<1>3. M \in Seq(Seq(Units)) /\ LinesUp(M)
  BY DEF LeftOf
<1>4. ASSUME NEW a \in 1..Len(M)
      PROVE  RenderedLen(M[a]) <= MaxChars /\ HeadOf(M[a], L, k) /\ HeadOf(M[a], L, k + 1)
  <2>1. RenderedLen(M[a]) <= MaxChars /\ HeadOf(M[a], L, k)
    BY DEF LeftOf
  <2>2. PICK b \in 1..k : \A j \in 1..Len(M[a]) : j \in 1..Len(L[b]) /\ M[a][j] = L[b][j]
    BY <2>1 DEF HeadOf
  <2>3. b \in 1..(k + 1)
    OBVIOUS
  <2>. QED  BY <2>1, <2>2, <2>3 DEF HeadOf
<1>5. HeadOf(s, L, k + 1)
  <2>1. k + 1 \in 1..(k + 1)
    OBVIOUS
  <2>. HIDE DEF s
  <2>. QED  BY <2>1, <1>2 DEF HeadOf
<1>6. ASSUME NEW i \in Nat
      PROVE  Total(SubSeq(L, 1, k + 1), i) = Total(M, i) + Share(s, i) /\ Total(M, i) \in Nat
  <2>1. Total(M, i) = Total(SubSeq(L, 1, k), i)
    BY DEF LeftOf
  <2>2. Total(SubSeq(L, 1, k + 1), i) = Total(SubSeq(L, 1, k), i) + Share(c, i)
    BY TotalOfNext
  <2>3. Total(M, i) \in Nat
    BY <1>3, TotalType
  <2>. HIDE DEF s
  <2>. QED  BY <2>1, <2>2, <2>3, <1>2
<1>. HIDE DEF s
<1>7. CASE s = << >>
  <2>1. Strip(M, c) = M
    BY <1>7 DEF Strip, s
  <2>2. ASSUME NEW i \in Nat PROVE Total(M, i) = Total(SubSeq(L, 1, k + 1), i)
    <3>1. Share(s, i) = 0
      BY <1>7, ShareEmpty
    <3>. QED  BY <3>1, <1>6
  <2>3. LeftOf(M, L, k + 1)
    BY <2>2, <1>3, <1>4 DEF LeftOf
  <2>. QED  BY <2>1, <2>3
<1>8. CASE s # << >>
  <2>1. Strip(M, c) = N
    BY <1>8 DEF Strip, s
  <2>2. /\ N \in Seq(Seq(Units)) /\ Len(N) = n /\ N[n] = s /\ n \in Nat /\ n > 0
        /\ \A a \in 1..n : a # n => N[a] = M[a] /\ a \in 1..Len(M)
    <3>1. M \in Seq(V) /\ s \in V
      BY <1>2, <1>3
    <3>. HIDE DEF V
    <3>2. N \in Seq(V) /\ Len(N) = n /\ N[n] = s /\ \A a \in 1..n : a # n => N[a] = M[a]
      BY <3>1, AppendOf
    <3>3. n \in Nat /\ n > 0 /\ \A a \in 1..n : a # n => a \in 1..Len(M)
      <4>1. Len(M) \in Nat
        BY <3>1
      <4>2. n \in Nat /\ n > 0
        BY <4>1
      <4>3. ASSUME NEW a \in 1..n, a # n PROVE a \in 1..Len(M)
        <5>1. \A z \in Nat : \A b \in 1..(z + 1) : b # z + 1 => b \in 1..z
          OBVIOUS
        <5>. HIDE DEF N
        <5>. QED  BY <5>1, <4>1, <4>3
      <4>. HIDE DEF n, N
      <4>. QED  BY <4>2, <4>3
    <3>. HIDE DEF N, n
    <3>4. N \in Seq(Seq(Units))
      BY <3>2 DEF V
    <3>. QED  BY <3>2, <3>3, <3>4
  <2>3. ASSUME NEW i \in Nat PROVE Total(N, i) = Total(SubSeq(L, 1, k + 1), i)
    BY <1>2, <1>3, <1>6, TotalAppend
  <2>. HIDE DEF N, n
  <2>4. ASSUME NEW a \in 1..n
        PROVE  RenderedLen(N[a]) <= MaxChars /\ HeadOf(N[a], L, k + 1)
    <3>1. CASE a # n
      BY <3>1, <2>2, <1>4
    <3>2. CASE a = n
      <4>1. RenderedLen(s) <= MaxChars
        <5>1. RenderedLen(s) \in Int /\ RenderedLen(c) \in Int /\ RenderedLen(c) <= MaxChars
          BY <1>1, <1>2, WidthsType
        <5>. QED  BY <5>1, <1>2, EndsFacts
      <4>. QED  BY <3>2, <4>1, <2>2, <1>5
    <3>. QED  BY <3>1, <3>2
  <2>5. LinesUp(N)
    <3>. SUFFICES ASSUME NEW a \in 1..n, NEW b \in 1..n,
                         NEW j \in 1..Len(N[a]), NEW l \in 1..Len(N[b]),
                         a < b \/ (a = b /\ j < l)
                  PROVE  N[a][j].line <= N[b][l].line
      BY <2>2 DEF LinesUp
    <3>1. CASE b # n
      <4>1. a # n
        BY <3>1, <2>2
      <4>. QED  BY <3>1, <4>1, <2>2, <1>3 DEF LinesUp
    <3>2. CASE b = n
      <4>1. l \in 1..Len(c) /\ N[b][l] = c[l]
        BY <3>2, <2>2, <1>2
      <4>2. CASE a = n
        <5>1. j \in 1..Len(c) /\ N[a][j] = c[j] /\ j < l
          BY <3>2, <4>2, <2>2, <1>2
        <5>. QED  BY <4>1, <5>1, <1>1 DEF LinesUp
      <4>3. CASE a # n
        <5>1. N[a] = M[a] /\ a \in 1..Len(M)
          BY <4>3, <2>2
        <5>2. PICK q \in 1..k : \A x \in 1..Len(M[a]) : x \in 1..Len(L[q]) /\ M[a][x] = L[q][x]
          BY <5>1, <1>4 DEF HeadOf
        <5>3. j \in 1..Len(L[q]) /\ N[a][j] = L[q][j]
          BY <5>1, <5>2
        <5>4. q \in 1..Len(L) /\ q < k + 1
          BY <1>1
        <5>. QED  BY <4>1, <5>3, <5>4, <1>1 DEF LinesUp
      <4>. QED  BY <4>2, <4>3
    <3>. QED  BY <3>1, <3>2
  <2>6. LeftOf(N, L, k + 1)
    BY <2>2, <2>3, <2>4, <2>5 DEF LeftOf
  <2>. QED  BY <2>1, <2>6 DEF N
<1>. QED  BY <1>7, <1>8

(* and so all of them.                                                                           *)
LEMMA StripCarries ==
  ASSUME NEW L \in Seq(Seq(Units)), LinesUp(L),
         \A b \in 1..Len(L) : RenderedLen(L[b]) <= MaxChars
  PROVE  LeftOf(FoldLeft(Strip, << >>, L), L, Len(L))
<1>. DEFINE n == Len(L)
<1>1. PICK h \in [0..n -> Seq(Seq(Units))] :
        /\ h[0] = << >>
        /\ \A i \in 1..n : h[i] = Strip(h[i - 1], L[i])
        /\ FoldLeft(Strip, << >>, L) = h[n]
  BY StripUnwinds
<1>2. n \in Nat
  OBVIOUS
<1>. DEFINE K == {k \in Nat : k <= n => LeftOf(h[k], L, k)}
<1>3. 0 \in K
  <2>. DEFINE E == << >>
  <2>1. E \in Seq(Seq(Units)) /\ Len(E) = 0 /\ SubSeq(L, 1, 0) = E
    OBVIOUS
  <2>. HIDE DEF E
  <2>2. ~\E a \in 1..Len(E) : TRUE
    BY <2>1
  <2>3. LinesUp(E)
    BY <2>2 DEF LinesUp
  <2>4. LeftOf(E, L, 0)
    BY <2>1, <2>2, <2>3 DEF LeftOf
  <2>. QED  BY <2>4, <1>1 DEF E
<1>4. ASSUME NEW k \in Nat, k \in K PROVE k + 1 \in K
  <2>. SUFFICES ASSUME k + 1 <= n PROVE LeftOf(h[k + 1], L, k + 1)
    OBVIOUS
  <2>1. k + 1 \in 1..n /\ (k + 1) - 1 = k /\ LeftOf(h[k], L, k)
    BY <1>2, <1>4
  <2>2. h[k + 1] = Strip(h[k], L[k + 1])
    BY <2>1, <1>1
  <2>. QED  BY <2>1, <2>2, StripGood
<1>. HIDE DEF K
<1>5. n \in K
  BY <1>2, <1>3, <1>4, Induction
<1>. QED  BY <1>1, <1>2, <1>5 DEF K

(* A parse: the fence it is in, and the units so far.                                            *)
ParseType == [fence : Nat, info : Nat, units : Seq(Units)]

NoLine == [fence |-> 0, info |-> 0, units |-> << >>]

Numbers(text) == [i \in DOMAIN text |-> i]

(* A line changes the fence, or is one unit more.                                                *)
LEMMA TakeLineCases ==
  ASSUME NEW parse \in ParseType, NEW line \in Lines, NEW i \in Nat
  PROVE  /\ TakeLine(parse, line, i) \in ParseType
         /\ \/ /\ TakeLine(parse, line, i).units = parse.units
               /\ TakeLine(parse, line, i).fence > 0 =>
                    /\ 2 * line.fence + line.info + 2 < MaxChars
                    /\ TakeLine(parse, line, i).fence = line.fence
                    /\ TakeLine(parse, line, i).info = line.info
            \/ /\ TakeLine(parse, line, i).units =
                    Append(parse.units, Unit(i, line.len, parse.fence, parse.info))
               /\ TakeLine(parse, line, i).fence = parse.fence
               /\ TakeLine(parse, line, i).info = parse.info
<1>. DEFINE next == TakeLine(parse, line, i)
<1>1. /\ parse.fence \in Nat /\ parse.info \in Nat /\ parse.units \in Seq(Units)
      /\ line.fence \in Nat /\ line.info \in Nat /\ line.len \in Nat
  BY DEF ParseType, Lines
<1>2. CASE parse.fence = 0 /\ IsOpener(line)
  <2>1. next = [parse EXCEPT !.fence = line.fence, !.info = line.info]
    BY <1>2 DEF TakeLine
  <2>2. next \in ParseType /\ next.units = parse.units /\ next.fence = line.fence
        /\ next.info = line.info
    BY <2>1, <1>1 DEF ParseType
  <2>3. 2 * line.fence + line.info + 2 < MaxChars
    BY <1>2 DEF IsOpener, Wrappable
  <2>. QED  BY <2>2, <2>3
<1>3. CASE parse.fence > 0 /\ IsCloser(line, parse.fence)
  <2>1. next = [parse EXCEPT !.fence = 0, !.info = 0]
    BY <1>1, <1>3 DEF TakeLine
  <2>2. next = [fence |-> 0, info |-> 0, units |-> parse.units]
    BY <2>1 DEF ParseType
  <2>. HIDE DEF next
  <2>3. next \in ParseType /\ next.units = parse.units /\ next.fence = 0
    BY <2>2, <1>1 DEF ParseType
  <2>. QED  BY <2>3 DEF next
<1>4. CASE ~(parse.fence = 0 /\ IsOpener(line)) /\ ~(parse.fence > 0 /\ IsCloser(line, parse.fence))
  <2>. DEFINE u == Unit(i, line.len, parse.fence, parse.info)
  <2>1. next = [parse EXCEPT !.units = Append(parse.units, u)]
    BY <1>4 DEF TakeLine
  <2>2. u \in Units
    BY <1>1 DEF Unit, Units
  <2>. HIDE DEF u
  <2>3. Append(parse.units, u) \in Seq(Units)
    BY <2>2, <1>1, AppendOf
  <2>4. next \in ParseType /\ next.units = Append(parse.units, u) /\ next.fence = parse.fence
        /\ next.info = parse.info
    BY <2>1, <2>3, <1>1 DEF ParseType
  <2>. QED  BY <2>4 DEF u
<1>. QED  BY <1>2, <1>3, <1>4

Taken(parse, text, i) == TakeLine(parse, text[i], i)

(* A parse, unwound: h holds what each line leaves.                                              *)
LEMMA LinesUnwind ==
  ASSUME NEW text \in Seq(Lines)
  PROVE  \E h \in [0..Len(Numbers(text)) -> ParseType] :
           /\ h[0] = NoLine
           /\ \A i \in 1..Len(Numbers(text)) : h[i] = Taken(h[i - 1], text, Numbers(text)[i])
           /\ Parsed(text) = h[Len(Numbers(text))]
<1>. DEFINE n == Len(Numbers(text))
            D == 1..n
            It == CHOOSE it : it = [x \in SUBSET D |->
                     IF x = {} THEN NoLine
                     ELSE Taken(it[x \ {Max(x)}], text, Numbers(text)[Max(x)])]
            F == [v \in ParseType |-> [i \in D |-> Taken(v, text, Numbers(text)[i])]]
<1>1. n \in Nat /\ DOMAIN Numbers(text) = D /\ \A i \in D : Numbers(text)[i] \in Nat
  BY DEF Numbers
<1>2. Parsed(text) = It[D]
  BY <1>1 DEF Parsed, Taken, Numbers, NoLine, FoldLeft, MapThenFoldSet
<1>3. F \in [ParseType -> [D -> ParseType]] /\ NoLine \in ParseType
  <2>1. ASSUME NEW v \in ParseType, NEW i \in D
        PROVE  Taken(v, text, Numbers(text)[i]) \in ParseType
    <3>1. Numbers(text)[i] = i /\ i \in Nat /\ text[i] \in Lines
      BY DEF Numbers
    <3>. QED  BY <3>1, TakeLineCases DEF Taken
  <2>2. NoLine \in ParseType
    BY DEF ParseType, NoLine
  <2>. QED  BY <2>1, <2>2
<1>4. PICK g : FoldEq(g, ParseType, n, NoLine, F)
  <2>. HIDE DEF F, n
  <2>. QED  BY <1>1, <1>3, FoldExists, Zenon
<1>5. \A x \in SUBSET D : x # {} => Max(x) \in D /\ x \ {Max(x)} \in SUBSET D
  BY <1>1, MaxOfSubset
<1>6. g = [x \in SUBSET D |-> IF x = {} THEN NoLine
                            ELSE Taken(g[x \ {Max(x)}], text, Numbers(text)[Max(x)])]
  BY <1>1, <1>4, <1>5 DEF FoldEq
<1>7. It = [x \in SUBSET D |-> IF x = {} THEN NoLine
                             ELSE Taken(It[x \ {Max(x)}], text, Numbers(text)[Max(x)])]
  <2>. HIDE DEF D, F
  <2>. QED  BY <1>6, Zenon
<1>. HIDE DEF It
<1>8. PICK h : Stages(h, It, ParseType, n, NoLine, F)
  <2>1. FoldStep(It, ParseType, n, NoLine, F)
    BY <1>7, <1>5 DEF FoldStep
  <2>. HIDE DEF F, n
  <2>. QED  BY <2>1, <1>1, <1>3, FoldRuns, Zenon
<1>9. ASSUME NEW i \in 1..n PROVE h[i] = Taken(h[i - 1], text, Numbers(text)[i])
  <2>1. i - 1 \in 0..n
    BY <1>1
  <2>. QED  BY <1>8, <2>1 DEF Stages
<1>. HIDE DEF F
<1>. QED  BY <1>2, <1>8, <1>9 DEF Stages

(* What the first k lines have come to.                                                          *)
ParsedTo(parse, text, k) ==
  /\ parse \in ParseType
  /\ parse.fence > 0 => 2 * parse.fence + parse.info + 2 < MaxChars
  /\ \A m \in 1..Len(parse.units) :
       /\ Packable(parse.units[m]) /\ parse.units[m].line \in 1..k
       /\ parse.units[m].len = text[parse.units[m].line].len
  /\ \A m, l \in 1..Len(parse.units) : m < l => parse.units[m].line < parse.units[l].line

(* Taking the next line.                                                                         *)
LEMMA LineGood ==
  ASSUME NEW text \in Seq(Lines), NEW k \in Nat, k + 1 <= Len(text),
         NEW parse, ParsedTo(parse, text, k)
  PROVE  ParsedTo(TakeLine(parse, text[k + 1], k + 1), text, k + 1)
<1>. DEFINE line == text[k + 1]
            next == TakeLine(parse, line, k + 1)
            u == Unit(k + 1, line.len, parse.fence, parse.info)
            s == parse.units
            t == Append(s, u)
            n == Len(s) + 1
<1>1. line \in Lines /\ parse \in ParseType /\ k + 1 \in Nat
  BY DEF ParsedTo
<1>2. /\ parse.fence \in Nat /\ parse.info \in Nat /\ s \in Seq(Units) /\ line.len \in Nat
  BY <1>1 DEF ParseType, Lines
<1>3. ASSUME NEW m \in 1..Len(s)
      PROVE  /\ Packable(s[m]) /\ s[m].line \in 1..(k + 1) /\ s[m].line < k + 1
             /\ s[m].len = text[s[m].line].len
  <2>1. Packable(s[m]) /\ s[m].line \in 1..k /\ s[m].len = text[s[m].line].len
    BY DEF ParsedTo
  <2>. QED  BY <2>1
<1>4. \A m, l \in 1..Len(s) : m < l => s[m].line < s[l].line
  BY DEF ParsedTo
<1>5. parse.fence > 0 => 2 * parse.fence + parse.info + 2 < MaxChars
  BY DEF ParsedTo
<1>6. next \in ParseType
  BY <1>1, TakeLineCases
<1>. HIDE DEF line, next, u, s
<1>7. CASE /\ next.units = s
           /\ next.fence > 0 => /\ 2 * line.fence + line.info + 2 < MaxChars
                                /\ next.fence = line.fence /\ next.info = line.info
  <2>1. next.fence > 0 => 2 * next.fence + next.info + 2 < MaxChars
    BY <1>7
  <2>. QED  BY <2>1, <1>3, <1>4, <1>6, <1>7 DEF ParsedTo, next, line
<1>8. CASE next.units = t /\ next.fence = parse.fence /\ next.info = parse.info
  <2>1. /\ u \in Units /\ Packable(u) /\ u.line = k + 1 /\ u.len = line.len
    <3>1. u \in Units /\ u.line = k + 1 /\ u.len = line.len /\ u.fence = parse.fence
          /\ u.info = parse.info
      BY <1>1, <1>2 DEF u, Unit, Units
    <3>. QED  BY <3>1, <1>5 DEF Packable, IsCode
  <2>2. /\ t \in Seq(Units) /\ Len(t) = n /\ t[n] = u /\ n \in Nat /\ n > 0
        /\ \A m \in 1..n : m # n => t[m] = s[m] /\ m \in 1..Len(s)
    <3>1. /\ t \in Seq(Units) /\ Len(t) = n /\ t[n] = u
          /\ \A m \in 1..n : m # n => t[m] = s[m]
      BY <2>1, <1>2, AppendOf
    <3>2. Len(s) \in Nat
      BY <1>2
    <3>. HIDE DEF t
    <3>. QED  BY <3>1, <3>2
  <2>. HIDE DEF t, n
  <2>3. ASSUME NEW m \in 1..n
        PROVE  Packable(t[m]) /\ t[m].line \in 1..(k + 1) /\ t[m].len = text[t[m].line].len
    <3>1. CASE m # n
      BY <3>1, <2>2, <1>3
    <3>2. CASE m = n
      BY <3>2, <2>1, <2>2 DEF line
    <3>. QED  BY <3>1, <3>2
  <2>4. ASSUME NEW m \in 1..n, NEW l \in 1..n, m < l PROVE t[m].line < t[l].line
    <3>1. m # n /\ t[m] = s[m] /\ m \in 1..Len(s)
      BY <2>2, <2>4
    <3>2. CASE l # n
      BY <3>1, <3>2, <2>2, <2>4, <1>4
    <3>3. CASE l = n
      BY <3>1, <3>3, <2>1, <2>2, <1>3
    <3>. QED  BY <3>2, <3>3
  <2>5. next.fence > 0 => 2 * next.fence + next.info + 2 < MaxChars
    BY <1>5, <1>8
  <2>6. ParsedTo(next, text, k + 1)
    BY <2>2, <2>3, <2>4, <2>5, <1>6, <1>8 DEF ParsedTo
  <2>. QED  BY <2>6 DEF next, line
<1>9. \/ /\ next.units = s
         /\ next.fence > 0 => /\ 2 * line.fence + line.info + 2 < MaxChars
                              /\ next.fence = line.fence /\ next.info = line.info
      \/ next.units = t /\ next.fence = parse.fence /\ next.info = parse.info
  BY <1>1, TakeLineCases DEF next, s, u
<1>. QED  BY <1>7, <1>8, <1>9

(* The units of a text are of its lines, in order and as long.                                   *)
LEMMA ToUnitsGood ==
  ASSUME NEW text \in Seq(Lines)
  PROVE  /\ UnitsUp(ToUnits(text))
         /\ \A k \in 1..Len(ToUnits(text)) :
              /\ ToUnits(text)[k].line \in DOMAIN text
              /\ ToUnits(text)[k].len = text[ToUnits(text)[k].line].len
<1>. DEFINE n == Len(text)
<1>1. n \in Nat /\ DOMAIN text = 1..n /\ Len(Numbers(text)) = n
      /\ \A i \in 1..n : Numbers(text)[i] = i
  <2>1. Numbers(text) \in [1..n -> Nat] /\ DOMAIN Numbers(text) = 1..n
    BY DEF Numbers
  <2>2. Len(Numbers(text)) = n
    <3>1. n \in Nat
      OBVIOUS
    <3>. HIDE DEF n
    <3>. QED  BY <2>1, <3>1
  <2>. QED  BY <2>2 DEF Numbers
<1>2. Numbers(text) \in Seq(Nat)
  <2>1. Numbers(text) \in [1..n -> Nat]
    BY DEF Numbers
  <2>. QED  BY <2>1, <1>1
<1>3. PICK h \in [0..n -> ParseType] :
        /\ h[0] = NoLine
        /\ \A i \in 1..n : h[i] = Taken(h[i - 1], text, Numbers(text)[i])
        /\ Parsed(text) = h[n]
  BY <1>1, LinesUnwind
<1>. DEFINE K == {k \in Nat : k <= n => ParsedTo(h[k], text, k)}
<1>4. 0 \in K
  <2>1. NoLine \in ParseType /\ NoLine.fence = 0 /\ NoLine.units = << >>
    BY DEF NoLine, ParseType
  <2>2. ParsedTo(NoLine, text, 0)
    BY <2>1 DEF ParsedTo
  <2>. QED  BY <2>2, <1>3
<1>5. ASSUME NEW k \in Nat, k \in K PROVE k + 1 \in K
  <2>. SUFFICES ASSUME k + 1 <= n PROVE ParsedTo(h[k + 1], text, k + 1)
    OBVIOUS
  <2>1. k + 1 \in 1..n /\ (k + 1) - 1 = k /\ ParsedTo(h[k], text, k)
    BY <1>1, <1>5
  <2>2. h[k + 1] = TakeLine(h[k], text[k + 1], k + 1)
    BY <2>1, <1>1, <1>3 DEF Taken
  <2>. QED  BY <2>1, <2>2, LineGood
<1>. HIDE DEF K
<1>6. n \in K
  BY <1>1, <1>4, <1>5, Induction
<1>7. ParsedTo(Parsed(text), text, n) /\ ToUnits(text) = Parsed(text).units
  BY <1>1, <1>3, <1>6 DEF K, ToUnits
<1>. QED  BY <1>1, <1>7 DEF ParsedTo, UnitsUp, ParseType

(* Each content line is one unit.                                                                *)
LEMMA ContentShare ==
  ASSUME NEW text \in Seq(Lines), NEW i \in ContentLines(text)
  PROVE  i \in DOMAIN text /\ i \in Nat /\ Share(ToUnits(text), i) = text[i].len
<1>. DEFINE units == ToUnits(text)
            n == Len(units)
<1>1. /\ units \in Seq(Units)
      /\ \A k, l \in 1..n : k < l => units[k].line < units[l].line
      /\ \A k \in 1..n : units[k].line \in DOMAIN text /\ units[k].len = text[units[k].line].len
  BY ToUnitsGood DEF UnitsUp
<1>. HIDE DEF units
<1>2. PICK k \in 1..n : units[k].line = i
  <2>1. DOMAIN units = 1..n
    BY <1>1
  <2>. QED  BY <2>1 DEF ContentLines, units
<1>3. i \in DOMAIN text /\ i \in Nat /\ units[k].len = text[i].len
  <2>1. i \in DOMAIN text /\ units[k].len = text[i].len
    BY <1>1, <1>2
  <2>2. DOMAIN text = 1..Len(text)
    OBVIOUS
  <2>. QED  BY <2>1, <2>2
<1>4. n \in Nat /\ \A l \in 1..n : units[l].line \in Nat
  <2>1. \A l \in 1..n : units[l] \in Units
    BY <1>1
  <2>2. \A l \in 1..n : units[l].line \in Nat
    BY <2>1 DEF Units
  <2>. QED  BY <2>2, <1>1
<1>5. /\ Shares(units, i) \in Seq(Nat) /\ Len(Shares(units, i)) = n
      /\ Share(units, i) = SumOf(Shares(units, i))
      /\ \A l \in 1..n : Shares(units, i)[l] = LenOn(units[l], i)
  BY <1>1, <1>3, SharesType
<1>6. ASSUME NEW l \in 1..n, l # k PROVE Shares(units, i)[l] = 0
  <2>1. units[l].line # i
    <3>1. CASE l < k
      <4>1. units[l].line < units[k].line
        BY <3>1, <1>1
      <4>. QED  BY <4>1, <1>2, <1>4
    <3>2. CASE l > k
      <4>1. units[k].line < units[l].line
        BY <3>2, <1>1
      <4>. QED  BY <4>1, <1>2, <1>4
    <3>. QED  BY <3>1, <3>2, <1>4, <1>6
  <2>. QED  BY <2>1, <1>5 DEF LenOn
<1>7. SumOf(Shares(units, i)) = Shares(units, i)[k]
  <2>. DEFINE s == Shares(units, i)
  <2>1. s \in Seq(Nat) /\ k \in 1..Len(s) /\ \A l \in 1..Len(s) : l # k => s[l] = 0
    BY <1>5, <1>6
  <2>. HIDE DEF s
  <2>2. SumOf(s) = s[k]
    BY <2>1, SumAt
  <2>. QED  BY <2>2 DEF s
<1>8. Shares(units, i)[k] = text[i].len
  BY <1>2, <1>3, <1>5 DEF LenOn
<1>. QED  BY <1>3, <1>5, <1>7, <1>8 DEF units

(* All of a sequence.                                                                            *)
LEMMA WholeSeq ==
  ASSUME NEW V, NEW s \in Seq(V)
  PROVE  SubSeq(s, 1, Len(s)) = s
<1>. DEFINE t == SubSeq(s, 1, Len(s))
<1>1. t \in Seq(V) /\ Len(t) = Len(s) /\ \A i \in 1..Len(t) : t[i] = s[i]
  OBVIOUS
<1>. HIDE DEF t
<1>2. t = s
  BY <1>1, SeqEqual
<1>. QED  BY <1>2 DEF t

(* A text that fits is its own chunk.                                                            *)
LEMMA VerbatimGood ==
  ASSUME NEW text \in Seq(Lines), TextLen(text) <= MaxChars
  PROVE  LET chunks == <<Verbatim(text)>>
         IN chunks \in Seq(Seq(Units)) /\ ChunksFit(chunks) /\ ContentKept(text, chunks)
<1>. DEFINE c == Verbatim(text)
            chunks == <<c>>
            n == Len(text)
<1>1. n \in Nat /\ DOMAIN text = 1..n /\ \A i \in 1..n : text[i] \in Lines
  OBVIOUS
<1>2. ASSUME NEW i \in 1..n
      PROVE  /\ c[i] \in Units /\ c[i].line = i /\ c[i].len = text[i].len /\ ~IsCode(c[i])
             /\ text[i].len \in Nat
  <2>1. text[i].len \in Nat /\ i \in Nat
    BY <1>1 DEF Lines
  <2>2. c[i] = Unit(i, text[i].len, 0, 0)
    BY <1>1 DEF Verbatim
  <2>. HIDE DEF c
  <2>. QED  BY <2>1, <2>2 DEF Unit, Units, IsCode
<1>3. c \in Seq(Units) /\ Len(c) = n /\ DOMAIN c = 1..n
  <2>1. c = [i \in 1..n |-> c[i]] /\ DOMAIN c = 1..n
    BY <1>1 DEF Verbatim
  <2>2. \A i \in 1..n : c[i] \in Units
    BY <1>2
  <2>. HIDE DEF c, n
  <2>. QED  BY <2>1, <2>2, <1>1, SeqOfAll
<1>. HIDE DEF c
<1>4. chunks \in Seq(Seq(Units)) /\ Len(chunks) = 1 /\ chunks[1] = c /\ DOMAIN chunks = {1}
  BY <1>3
<1>5. RenderedLen(c) <= MaxChars
  <2>1. \A i \in 1..n : Width(c, i) = text[i].len + 1
    <3>1. ASSUME NEW i \in 1..n PROVE Width(c, i) = text[i].len + 1
      BY <1>2 DEF Width, BeginsRun
    <3>. QED  BY <3>1
  <2>2. Widths(c) = [i \in DOMAIN text |-> text[i].len + 1]
    BY <2>1, <1>1, <1>3 DEF Widths
  <2>3. RenderedLen(c) = SumOf(Widths(c)) - 1
    BY <1>3, WidthsType
  <2>. QED  BY <2>2, <2>3 DEF TextLen
<1>6. ASSUME NEW i \in ContentLines(text)
      PROVE  SumOf([a \in DOMAIN chunks |-> Share(chunks[a], i)]) = text[i].len
  <2>1. i \in 1..n /\ i \in Nat
    BY <1>1, ContentShare
  <2>2. /\ Shares(c, i) \in Seq(Nat) /\ Len(Shares(c, i)) = n
        /\ Share(c, i) = SumOf(Shares(c, i))
        /\ \A l \in 1..n : Shares(c, i)[l] = LenOn(c[l], i)
    BY <2>1, <1>3, SharesType
  <2>3. \A l \in 1..n : l # i => Shares(c, i)[l] = 0
    BY <2>2, <1>2 DEF LenOn
  <2>4. SumOf(Shares(c, i)) = Shares(c, i)[i]
    <3>. DEFINE s == Shares(c, i)
    <3>1. s \in Seq(Nat) /\ i \in 1..Len(s) /\ \A l \in 1..Len(s) : l # i => s[l] = 0
      BY <2>1, <2>2, <2>3
    <3>. HIDE DEF s
    <3>2. SumOf(s) = s[i]
      BY <3>1, SumAt
    <3>. QED  BY <3>2 DEF s
  <2>5. Share(c, i) = text[i].len /\ Share(c, i) \in Nat
    BY <2>1, <2>2, <2>4, <1>2 DEF LenOn
  <2>. DEFINE s == [a \in DOMAIN chunks |-> Share(chunks[a], i)]
  <2>6. s \in Seq(Nat) /\ Len(s) = 1
    BY <2>1, <1>4, TotalType
  <2>7. s[1] = text[i].len
    BY <2>5, <1>4
  <2>. HIDE DEF s, chunks
  <2>8. SumOf(s) = s[1]
    <3>1. 1 \in 1..Len(s) /\ \A l \in 1..Len(s) : l # 1 => s[l] = 0
      BY <2>6
    <3>. QED  BY <3>1, <2>6, SumAt
  <2>. QED  BY <2>7, <2>8 DEF s
<1>. HIDE DEF chunks
<1>7. ChunksFit(chunks)
  BY <1>4, <1>5 DEF ChunksFit
<1>8. \A a, b \in DOMAIN chunks : \A j \in DOMAIN chunks[a], k \in DOMAIN chunks[b] :
        a < b \/ (a = b /\ j < k) => chunks[a][j].line <= chunks[b][k].line
  <2>. SUFFICES ASSUME NEW a \in DOMAIN chunks, NEW b \in DOMAIN chunks,
                       NEW j \in DOMAIN chunks[a], NEW k \in DOMAIN chunks[b],
                       a < b \/ (a = b /\ j < k)
                PROVE  chunks[a][j].line <= chunks[b][k].line
    OBVIOUS
  <2>1. a = 1 /\ b = 1 /\ j \in 1..n /\ k \in 1..n /\ j < k
    BY <1>3, <1>4
  <2>2. chunks[a][j].line = j /\ chunks[b][k].line = k
    BY <2>1, <1>2, <1>4
  <2>. QED  BY <2>1, <2>2, <1>1
<1>9. ~(TextLen(text) > MaxChars)
  <2>1. RenderedLen(c) \in Int
    BY <1>3, WidthsType
  <2>2. [i \in DOMAIN text |-> text[i].len + 1] \in Seq(Nat)
    <3>. DEFINE s == [i \in 1..n |-> text[i].len + 1]
    <3>1. s \in [1..n -> Nat]
      BY <1>2
    <3>2. s \in Seq(Nat)
      <4>. HIDE DEF s, n
      <4>. QED  BY <3>1, <1>1
    <3>. QED  BY <3>2, <1>1
  <2>3. TextLen(text) \in Int
    BY <2>2, SumNat DEF TextLen
  <2>. QED  BY <2>3, EndsFacts
<1>10. ContentKept(text, chunks)
  BY <1>6, <1>8, <1>9 DEF ContentKept
<1>. QED  BY <1>4, <1>7, <1>10 DEF chunks, c

(* A blank text is no chunk.                                                                     *)
LEMMA BlankGood ==
  ASSUME NEW text \in Seq(Lines), IsBlank(text)
  PROVE  << >> \in Seq(Seq(Units)) /\ ChunksFit(<< >>) /\ ContentKept(text, << >>)
<1>. DEFINE chunks == << >>
<1>1. chunks \in Seq(Seq(Units)) /\ Len(chunks) = 0 /\ DOMAIN chunks = {}
  OBVIOUS
<1>2. ASSUME NEW i \in ContentLines(text)
      PROVE  SumOf([a \in DOMAIN chunks |-> Share(chunks[a], i)]) = text[i].len
  <2>1. i \in DOMAIN text /\ i \in Nat
    BY ContentShare
  <2>2. Total(chunks, i) = 0
    BY <2>1, TotalEmpty
  <2>. QED  BY <2>1, <2>2 DEF Total, IsBlank
<1>. HIDE DEF chunks
<1>3. ChunksFit(chunks) /\ ContentKept(text, chunks)
  BY <1>1, <1>2 DEF ChunksFit, ContentKept
<1>. QED  BY <1>1, <1>3 DEF chunks

(* What a long text is packed and stripped into.                                                 *)
LEMMA PackedGood ==
  ASSUME NEW text \in Seq(Lines), NEW L \in Packings(ToUnits(text))
  PROVE  LET chunks == FoldLeft(Strip, << >>, L)
         IN chunks \in Seq(Seq(Units)) /\ ChunksFit(chunks) /\ ContentKept(text, chunks)
<1>. DEFINE chunks == FoldLeft(Strip, << >>, L)
            units == ToUnits(text)
            n == Len(units)
<1>1. UnitsUp(units) /\ units \in Seq(Units)
  BY ToUnitsGood DEF UnitsUp
<1>2. Carries(L, units, n)
  BY <1>1, PackingsCarry
<1>. HIDE DEF units
<1>3. /\ L \in Seq(Seq(Units)) /\ LinesUp(L) /\ PiecesFrom(L, units, n)
      /\ \A b \in 1..Len(L) : RenderedLen(L[b]) <= MaxChars
      /\ \A i \in Nat : Total(L, i) = Share(SubSeq(units, 1, n), i)
  BY <1>2 DEF Carries
<1>4. LeftOf(chunks, L, Len(L))
  BY <1>3, StripCarries
<1>. HIDE DEF chunks
<1>5. /\ chunks \in Seq(Seq(Units)) /\ LinesUp(chunks)
      /\ \A a \in 1..Len(chunks) :
           RenderedLen(chunks[a]) <= MaxChars /\ HeadOf(chunks[a], L, Len(L))
      /\ \A i \in Nat : Total(chunks, i) = Total(SubSeq(L, 1, Len(L)), i)
  BY <1>4 DEF LeftOf
<1>6. /\ DOMAIN chunks = 1..Len(chunks) /\ DOMAIN units = 1..n
      /\ \A a \in 1..Len(chunks) : DOMAIN chunks[a] = 1..Len(chunks[a])
  <2>1. \A a \in 1..Len(chunks) : chunks[a] \in Seq(Units)
    BY <1>5
  <2>. QED  BY <2>1, <1>1, <1>5
<1>7. ChunksFit(chunks)
  BY <1>5, <1>6 DEF ChunksFit
<1>8. \A a, b \in DOMAIN chunks : \A j \in DOMAIN chunks[a], k \in DOMAIN chunks[b] :
        a < b \/ (a = b /\ j < k) => chunks[a][j].line <= chunks[b][k].line
  BY <1>5, <1>6 DEF LinesUp
<1>9. ASSUME NEW i \in ContentLines(text)
      PROVE  SumOf([a \in DOMAIN chunks |-> Share(chunks[a], i)]) = text[i].len
  <2>1. i \in Nat /\ Share(units, i) = text[i].len
    BY ContentShare DEF units
  <2>2. SubSeq(L, 1, Len(L)) = L /\ SubSeq(units, 1, n) = units
    BY <1>1, <1>3, WholeSeq
  <2>3. Total(chunks, i) = text[i].len
    BY <2>1, <2>2, <1>3, <1>5
  <2>. QED  BY <2>3 DEF Total
<1>10. ASSUME NEW a \in DOMAIN chunks, NEW j \in DOMAIN chunks[a]
       PROVE  \E k \in DOMAIN units : chunks[a][j] = [units[k] EXCEPT !.len = chunks[a][j].len]
  <2>1. a \in 1..Len(chunks) /\ j \in 1..Len(chunks[a])
    BY <1>6
  <2>2. PICK b \in 1..Len(L) :
          \A l \in 1..Len(chunks[a]) : l \in 1..Len(L[b]) /\ chunks[a][l] = L[b][l]
    BY <2>1, <1>5 DEF HeadOf
  <2>3. PICK k \in 1..n : PieceOf(L[b][j], units[k])
    BY <2>1, <2>2, <1>3 DEF PiecesFrom
  <2>4. PieceOf(chunks[a][j], units[k]) /\ k \in DOMAIN units
    BY <2>1, <2>2, <2>3, <1>6
  <2>. QED  BY <2>4 DEF PieceOf
<1>11. ContentKept(text, chunks)
  BY <1>8, <1>9, <1>10 DEF ContentKept, units
<1>. QED  BY <1>5, <1>7, <1>11 DEF chunks

(* Whatever the text and wherever its long lines are cut: no chunk is over the limit, and nothing *)
(* of the text is lost, doubled, out of order or out of its fence (chunking.py:80).              *)
THEOREM SplitGood ==
  ASSUME NEW text \in Seq(Lines), NEW chunks \in ChunkSplits(text)
  PROVE  chunks \in Seq(Seq(Units)) /\ ChunksFit(chunks) /\ ContentKept(text, chunks)
<1>1. CASE IsBlank(text)
  BY <1>1, BlankGood DEF ChunkSplits
<1>2. CASE ~IsBlank(text) /\ TextLen(text) <= MaxChars
  BY <1>2, VerbatimGood DEF ChunkSplits
<1>3. CASE ~IsBlank(text) /\ ~(TextLen(text) <= MaxChars)
  <2>1. PICK L \in Packings(ToUnits(text)) : chunks = FoldLeft(Strip, << >>, L)
    BY <1>3 DEF ChunkSplits
  <2>. QED  BY <2>1, PackedGood
<1>. QED  BY <1>1, <1>2, <1>3

-----------------------------------------------------------------------------
(* The step trace's budget.                                                   *)

\* A segment has room for each of its pending rows to grow by the reserve.
Booked(seg) ==
    /\ seg.length \in Int
    /\ seg.pending \subseteq PendingRow
    /\ IsFiniteSet(seg.pending)
    /\ seg.length + RowGrowthReserve * Cardinality(seg.pending) <= V2TextLimit

Booking ==
    /\ segments \in Seq([persona : Personas, length : Int, pending : SUBSET PendingRow])
    /\ appended \in Nat
    /\ \A i \in DOMAIN segments : Booked(segments[i])

\* _seal_entry runs on an entry that has a segment.
HasSegment == seal = "sealing" => segments # << >>

(* The lengths of hygienised texts (_plain).                                 *)
LEMMA TextLengths ==
    /\ \A head \in Heads : head \in Nat /\ head <= 3 * DetailMax + 2
    /\ \A clip \in Clips : clip \in Nat /\ clip <= DetailMax
    /\ \A tail \in Tails : tail \in Nat
  BY BudgetAssumption

(* A row grows by at most the reserve when it resolves, whatever its texts   *)
(* and its outcome (_ROW_GROWTH_RESERVE and render_row must move together).  *)
THEOREM GrowthReserved ==
    ASSUME NEW row \in PendingRow, NEW state \in RowStates,
           NEW note \in Clips \cup {0}, NEW duration \in Durations \cup {0}
    PROVE  /\ Growth(row, state, note, duration) \in Int
           /\ Growth(row, state, note, duration) <= RowGrowthReserve
  <1>1. /\ note \in Nat /\ note <= DetailMax
        /\ duration \in Nat /\ duration <= DetailMax
        /\ DetailMax \in Nat /\ DetailMax >= 11
        /\ RowGrowthReserve \in Nat /\ RowGrowthReserve >= DetailMax + 10
    BY BudgetAssumption, ReserveAssumption
  <1>2. CASE row \in ToolRow
    <2>0. row.kind = "tool" /\ row.head \in Heads
      BY <1>2 DEF ToolRow
    <2>1. row.kind = "tool" /\ row.head \in Nat
      BY <2>0, TextLengths
    <2>2. RenderRow(row, "pending", 0, 0) = 2 + row.head
      BY <2>1 DEF RenderRow, RenderTool
    <2>3. RenderRow(row, state, note, duration) = RenderTool(row, state, note, duration)
      BY <2>1 DEF RenderRow
    <2>4. /\ RenderTool(row, state, note, duration) \in Int
          /\ RenderTool(row, state, note, duration) <= 2 + row.head + RowGrowthReserve
      <3>1. CASE state = "ok"
        BY <1>1, <2>1, <3>1 DEF RenderTool, Elapsed
      <3>2. CASE state = "failed"
        BY <1>1, <2>1, <3>2 DEF RenderTool, Suffix
      <3>3. CASE state = "denied"
        BY <1>1, <2>1, <3>3 DEF RenderTool, Suffix, Struck
      <3>4. CASE state = "interrupted"
        BY <1>1, <2>1, <3>4 DEF RenderTool, Suffix, Struck
      <3> QED BY <3>1, <3>2, <3>3, <3>4 DEF RowStates
    <2> QED BY <2>1, <2>2, <2>3, <2>4, BudgetAssumption DEF Growth
  <1>3. CASE row \in ConsultRow
    <2>0. row.kind = "consult" /\ row.head \in Clips /\ row.caller \in Clips /\ row.tail \in Tails
      BY <1>3 DEF ConsultRow
    <2>1. row.kind = "consult" /\ row.head \in Nat /\ row.caller \in Nat /\ row.tail \in Nat
      BY <2>0, TextLengths
    <2> DEFINE slot == TailSlot(row.tail)
               open == 2 + (IF row.caller = 0 THEN 11 + row.head ELSE row.caller + 3 + row.head)
    <2>2. slot \in Nat
      BY <2>1 DEF TailSlot
    <2>3. RenderRow(row, "pending", 0, 0) = slot + open
      <3> HIDE DEF slot
      <3>1. RenderRow(row, "pending", 0, 0) = RenderConsult(row, "pending", 0)
        BY <2>1 DEF RenderRow
      <3>2. CASE row.caller = 0
        BY <2>1, <2>2, <3>1, <3>2 DEF RenderConsult, slot
      <3>3. CASE row.caller # 0
        BY <2>1, <2>2, <3>1, <3>3 DEF RenderConsult, slot
      <3> QED BY <3>2, <3>3
    <2>4. RenderRow(row, state, note, duration) = RenderConsult(row, state, note)
      BY <2>1 DEF RenderRow
    <2>5. /\ RenderConsult(row, state, note) \in Int
          /\ RenderConsult(row, state, note) <= slot + open + RowGrowthReserve
      <3> HIDE DEF slot
      <3>1. CASE state = "ok"
        BY <1>1, <2>1, <2>2, <3>1 DEF RenderConsult, slot
      <3>2. CASE state = "failed"
        BY <1>1, <2>1, <2>2, <3>2 DEF RenderConsult, slot
      <3>3. CASE state = "denied"
        BY <1>1, <2>1, <2>2, <3>3 DEF RenderConsult, Suffix, Struck, slot
      <3>4. CASE state = "interrupted"
        BY <1>1, <2>1, <2>2, <3>4 DEF RenderConsult, Suffix, Struck, slot
      <3> QED BY <3>1, <3>2, <3>3, <3>4 DEF RowStates
    <2> HIDE DEF slot
    <2>6. open \in Int
      BY <2>1
    <2> HIDE DEF open
    <2> QED BY <2>2, <2>3, <2>4, <2>5, <2>6, BudgetAssumption DEF Growth
  <1> QED BY <1>2, <1>3 DEF PendingRow

(* A row takes, pending, a length that fits a fresh segment with its reserve.*)
LEMMA PendingFits ==
    ASSUME NEW row \in PendingRow
    PROVE  /\ RenderRow(row, "pending", 0, 0) \in Nat
           /\ RenderRow(row, "pending", 0, 0) + RowGrowthReserve <= V2TextLimit
  <1>1. CASE row \in ToolRow
    <2>1. row.kind = "tool" /\ row.head \in 0 .. (3 * DetailMax + 2)
      BY <1>1, BudgetAssumption DEF ToolRow
    <2>2. RenderRow(row, "pending", 0, 0) = 2 + row.head
      BY <2>1 DEF RenderRow, RenderTool
    <2>3. 4 * DetailMax + 0 + RowGrowthReserve + 60 <= V2TextLimit
      BY ReserveAssumption
    <2> QED BY <2>1, <2>2, <2>3, BudgetAssumption
  <1>2. CASE row \in ConsultRow
    <2>1. /\ row.kind = "consult"
          /\ row.head \in 0 .. DetailMax
          /\ row.caller \in 0 .. DetailMax
          /\ row.tail \in Tails
          /\ row.tail \in Nat
      BY <1>2, BudgetAssumption DEF ConsultRow
    <2>2. 4 * DetailMax + row.tail + RowGrowthReserve + 60 <= V2TextLimit
      BY <2>1, ReserveAssumption
    <2>3. RenderRow(row, "pending", 0, 0) \in Nat
      BY <2>1, BudgetAssumption DEF RenderRow, RenderConsult, TailSlot
    <2>4. RenderRow(row, "pending", 0, 0) <= 16 + 2 * DetailMax + row.tail
      BY <2>1, BudgetAssumption, ReserveAssumption DEF RenderRow, RenderConsult, TailSlot
    <2> QED BY <2>1, <2>2, <2>3, <2>4, BudgetAssumption
  <1> QED BY <1>1, <1>2 DEF PendingRow

(* Booking survives the addition of a row that fits a fresh segment, whether *)
(* it joins the last segment or opens one.                                   *)
LEMMA AppendsBook ==
    ASSUME Booking, NEW p \in Personas, NEW length \in Int, NEW own \in SUBSET PendingRow,
           IsFiniteSet(own),
           length + RowGrowthReserve * Cardinality(own) <= V2TextLimit,
           appended' \in Nat,
           Appends(p, length, own)
    PROVE  Booking'
  <1> DEFINE last == segments[Len(segments)]
             S == [persona : Personas, length : Int, pending : SUBSET PendingRow]
  <1>1. /\ segments \in Seq(S)
        /\ \A i \in DOMAIN segments : Booked(segments[i])
    BY DEF Booking
  <1>2. Cardinality(own) \in Nat /\ RowGrowthReserve \in Nat /\ V2TextLimit \in Nat
    BY FS_CardinalityType, BudgetAssumption
  <1>3. CASE Extends(p, length, own)
    <2> DEFINE grown == [persona |-> p, length |-> Joined(last, length),
                         pending |-> last.pending \cup own]
    <2>0. segments # << >> /\ Len(segments) \in Nat /\ Len(segments) # 0
      <3> HIDE DEF S
      <3> QED BY <1>1, <1>3 DEF Extends
    <2>1. Len(segments) \in DOMAIN segments /\ last \in S /\ Booked(last)
      <3> HIDE DEF S
      <3>1. Len(segments) \in DOMAIN segments
        BY <1>1, <2>0
      <3> QED BY <1>1, <3>1
    <2>2. segments' = [segments EXCEPT ![Len(segments)] = grown]
      BY <1>3 DEF Appends
    <2>3. last.length \in Int /\ last.pending \subseteq PendingRow /\ IsFiniteSet(last.pending)
      BY <2>1 DEF Booked
    <2>4. IsFiniteSet(last.pending \cup own)
      BY <2>3, FS_Union
    <2>5. /\ Cardinality(last.pending) \in Nat
          /\ Cardinality(last.pending \cup own) \in Nat
          /\ Cardinality(last.pending \cup own) <= Cardinality(last.pending) + Cardinality(own)
      <3>1. Cardinality(last.pending \cup own) =
               Cardinality(last.pending) + Cardinality(own) - Cardinality(last.pending \cap own)
        BY <2>3, FS_Union
      <3>2. IsFiniteSet(last.pending \cap own)
        BY <2>3, FS_Intersection
      <3>3. /\ Cardinality(last.pending \cap own) \in Nat
            /\ Cardinality(last.pending) \in Nat
            /\ Cardinality(last.pending \cup own) \in Nat
        BY <2>3, <2>4, <3>2, FS_CardinalityType
      <3> QED BY <1>2, <3>1, <3>3
    <2>6. Joined(last, length)
             + RowGrowthReserve * (Cardinality(last.pending) + Cardinality(own)) <= V2TextLimit
      BY <1>3 DEF Extends, Fits
    <2>7. Joined(last, length) \in Int
      BY <2>3 DEF Joined
    <2>8. Joined(last, length) + RowGrowthReserve * Cardinality(last.pending \cup own)
             <= V2TextLimit
      <3> DEFINE a == Cardinality(last.pending \cup own)
                 b == Cardinality(last.pending) + Cardinality(own)
                 j == Joined(last, length)
      <3>1. a \in Nat /\ b \in Nat /\ a <= b /\ j \in Int
        BY <1>2, <2>5, <2>7
      <3>2. j + RowGrowthReserve * b <= V2TextLimit
        BY <2>6
      <3> HIDE DEF a, b, j
      <3>3. RowGrowthReserve * a <= RowGrowthReserve * b
        BY <1>2, <3>1
      <3>4. RowGrowthReserve * a \in Nat /\ RowGrowthReserve * b \in Nat
        BY <1>2, <3>1
      <3>5. j + RowGrowthReserve * a <= V2TextLimit
        BY <1>2, <3>1, <3>2, <3>3, <3>4
      <3> QED BY <3>5 DEF a, j
    <2>9. Booked(grown)
      BY <2>3, <2>4, <2>7, <2>8 DEF Booked
    <2>10. grown \in S
      BY <2>3, <2>7
    <2> HIDE DEF grown, last, S
    <2>11. segments' \in Seq(S) /\ \A i \in DOMAIN segments' : Booked(segments'[i])
      BY <1>1, <2>0, <2>1, <2>2, <2>9, <2>10
    <2> QED BY <2>11 DEF Booking, Booked, S
  <1>4. CASE ~Extends(p, length, own)
    <2> DEFINE fresh == [persona |-> p, length |-> length, pending |-> own]
    <2>1. segments' = Append(segments, fresh)
      BY <1>4 DEF Appends
    <2>2. fresh \in S /\ Booked(fresh)
      BY DEF Booked
    <2> HIDE DEF fresh, S
    <2>3. segments' \in Seq(S) /\ \A i \in DOMAIN segments' : Booked(segments'[i])
      BY <1>1, <2>1, <2>2
    <2> QED BY <2>3 DEF Booking, Booked, S
  <1> QED BY <1>3, <1>4

(* Booking survives a resolve: the reserve released covers the growth.       *)
LEMMA ReplacesBook ==
    ASSUME Booking, NEW i \in DOMAIN segments, NEW row \in segments[i].pending,
           NEW state \in RowStates, NEW note \in Clips \cup {0},
           NEW duration \in Durations \cup {0},
           Replaces(i, row, state, note, duration),
           appended' \in Nat
    PROVE  Booking'
  <1> DEFINE S == [persona : Personas, length : Int, pending : SUBSET PendingRow]
             seg == segments[i]
             grown == [persona |-> seg.persona,
                       length  |-> seg.length + Growth(row, state, note, duration),
                       pending |-> seg.pending \ {row}]
  <1>1. /\ segments \in Seq(S)
        /\ \A j \in DOMAIN segments : Booked(segments[j])
    BY DEF Booking
  <1>2. seg \in S /\ Booked(seg)
    <2> HIDE DEF S
    <2> QED BY <1>1
  <1>3. seg.length \in Int /\ seg.pending \subseteq PendingRow /\ IsFiniteSet(seg.pending)
    BY <1>2 DEF Booked
  <1>4. /\ Growth(row, state, note, duration) \in Int
        /\ Growth(row, state, note, duration) <= RowGrowthReserve
    BY <1>3, GrowthReserved
  <1>5. /\ IsFiniteSet(seg.pending \ {row})
        /\ Cardinality(seg.pending \ {row}) = Cardinality(seg.pending) - 1
        /\ Cardinality(seg.pending) \in Nat
        /\ Cardinality(seg.pending \ {row}) \in Nat
    BY <1>3, FS_RemoveElement, FS_CardinalityType
  <1>6. seg.length + Growth(row, state, note, duration)
           + RowGrowthReserve * Cardinality(seg.pending \ {row}) <= V2TextLimit
    <2> DEFINE a == Cardinality(seg.pending)
               b == Cardinality(seg.pending \ {row})
               g == Growth(row, state, note, duration)
               l == seg.length
    <2>1. /\ a \in Nat /\ b \in Nat /\ a = b + 1
          /\ g \in Int /\ g <= RowGrowthReserve
          /\ l \in Int
          /\ RowGrowthReserve \in Nat /\ V2TextLimit \in Nat
      BY <1>3, <1>4, <1>5, BudgetAssumption
    <2>2. l + RowGrowthReserve * a <= V2TextLimit
      BY <1>2 DEF Booked
    <2> HIDE DEF a, b, g, l
    <2>3. RowGrowthReserve * a = RowGrowthReserve * b + RowGrowthReserve
      BY <2>1
    <2>4. RowGrowthReserve * b \in Int
      BY <2>1
    <2>5. l + g + RowGrowthReserve * b <= V2TextLimit
      BY <2>1, <2>2, <2>3, <2>4
    <2> QED BY <2>5 DEF b, g, l
  <1>7. grown \in S /\ Booked(grown)
    BY <1>2, <1>3, <1>4, <1>5, <1>6 DEF Booked
  <1>8. segments' = [segments EXCEPT ![i] = grown]
    BY DEF Replaces
  <1> HIDE DEF grown, S, seg
  <1>9. segments' \in Seq(S) /\ \A j \in DOMAIN segments' : Booked(segments'[j])
    BY <1>1, <1>7, <1>8
  <1> QED BY <1>9 DEF Booking, Booked, S

(* Opens and Closes: a pending row books one reserve, a final one books none.*)
LEMMA OpensBook ==
    ASSUME Booking, NEW p \in Personas, NEW row \in PendingRow, Opens(p, row)
    PROVE  Booking'
  <1>1. IsFiniteSet({row}) /\ Cardinality({row}) = 1
    BY FS_Singleton
  <1>2. /\ RenderRow(row, "pending", 0, 0) \in Nat
        /\ RenderRow(row, "pending", 0, 0) + RowGrowthReserve * Cardinality({row})
              <= V2TextLimit
    BY <1>1, PendingFits, BudgetAssumption
  <1>3. appended' \in Nat
    BY DEF Opens, Booking
  <1>4. Appends(p, RenderRow(row, "pending", 0, 0), {row})
    BY DEF Opens
  <1> QED BY <1>1, <1>2, <1>3, <1>4, AppendsBook

LEMMA FinalBooks ==
    ASSUME Booking, NEW p \in Personas, NEW length \in Int, length <= V2TextLimit,
           appended' \in Nat, Appends(p, length, {})
    PROVE  Booking'
  <1>1. IsFiniteSet({}) /\ Cardinality({}) = 0
    BY FS_EmptySet
  <1>2. length + RowGrowthReserve * Cardinality({}) <= V2TextLimit
    BY <1>1, BudgetAssumption
  <1>3. {} \in SUBSET PendingRow
    OBVIOUS
  <1> QED BY <1>1, <1>2, <1>3, AppendsBook

LEMMA ClosesBook ==
    ASSUME Booking, NEW p \in Personas, NEW length \in Int, length <= V2TextLimit,
           Closes(p, length)
    PROVE  Booking'
  <1>1. appended' \in Nat /\ Appends(p, length, {})
    BY DEF Closes, Booking
  <1> QED BY <1>1, FinalBooks

LEMMA StepBooks ==
    ASSUME Booking, NEW p \in Personas, Step(p)
    PROVE  Booking'
  <1>0. /\ DetailMax \in Nat /\ RowGrowthReserve \in Nat /\ V2TextLimit \in Nat
        /\ MaxRows \in Nat
        /\ 4 * DetailMax + RowGrowthReserve + 60 <= V2TextLimit
        /\ appended \in Nat
    <2>1. 4 * DetailMax + 0 + RowGrowthReserve + 60 <= V2TextLimit
      BY ReserveAssumption
    <2> QED BY <2>1, BudgetAssumption DEF Booking
  <1>1. ASSUME NEW head \in Heads, Opens(p, Tool(head))
        PROVE  Booking'
    <2>1. appended + 1 \in 1 .. MaxRows
      BY <1>0, <1>1 DEF Opens
    <2>2. Tool(head) \in PendingRow
      BY <2>1 DEF Tool, PendingRow, ToolRow
    <2> QED BY <1>1, <2>2, OpensBook
  <1>2. CASE \E k \in Keys, head \in Heads : ToolCall(p, k, head)
    BY <1>1, <1>2 DEF ToolCall
  <1>3. CASE \E head \in Heads : UnkeyedCall(p, head)
    BY <1>1, <1>3 DEF UnkeyedCall
  <1>4. CASE \E k \in Keys, caller \in Clips, peer \in Clips, tail \in Tails :
                Consult(p, k, caller, peer, tail)
    <2> PICK k \in Keys, caller \in Clips, peer \in Clips, tail \in Tails :
               Consult(p, k, caller, peer, tail)
      BY <1>4
    <2>1. Opens(p, Consulting(caller, peer, tail))
      BY DEF Consult
    <2>2. appended + 1 \in 1 .. MaxRows
      BY <1>0, <2>1 DEF Opens
    <2>3. Consulting(caller, peer, tail) \in PendingRow
      BY <2>2 DEF Consulting, PendingRow, ConsultRow
    <2> QED BY <2>1, <2>3, OpensBook
  <1>5. CASE \E target \in Clips, reason \in Clips : Handoff(p, target, reason)
    <2> PICK target \in Clips, reason \in Clips : Handoff(p, target, reason)
      BY <1>5
    <2>1. /\ target \in Nat /\ target <= DetailMax
          /\ reason \in Nat /\ reason <= DetailMax
      BY TextLengths
    <2>2. RenderHandoff(target, reason) \in Int /\ RenderHandoff(target, reason) <= V2TextLimit
      BY <1>0, <2>1 DEF RenderHandoff, Suffix
    <2>3. Closes(p, RenderHandoff(target, reason))
      BY DEF Handoff
    <2> QED BY <2>2, <2>3, ClosesBook
  <1>6. CASE \E length \in Proses : Prose(p, length)
    <2> PICK length \in Proses : Prose(p, length)
      BY <1>6
    <2>1. length \in Int /\ length <= V2TextLimit
      BY BudgetAssumption
    <2>2. Closes(p, length)
      BY DEF Prose
    <2> QED BY <2>1, <2>2, ClosesBook
  <1>7. CASE \E head \in Heads, state \in {"ok", "failed", "denied"}, note \in Clips :
                OrphanResult(p, head, state, note)
    <2> PICK head \in Heads, state \in {"ok", "failed", "denied"}, note \in Clips :
               OrphanResult(p, head, state, note)
      BY <1>7
    <2> DEFINE row == Tool(head)
    <2>1. /\ row.head \in Nat /\ row.head <= 3 * DetailMax + 2
          /\ note \in Nat /\ note <= DetailMax
      BY TextLengths DEF Tool
    <2> HIDE DEF row
    <2>2. RenderTool(row, state, note, 0) \in Int
          /\ RenderTool(row, state, note, 0) <= V2TextLimit
      <3>1. CASE state = "ok"
        BY <1>0, <2>1, <3>1 DEF RenderTool, Elapsed
      <3>2. CASE state = "failed"
        BY <1>0, <2>1, <3>2 DEF RenderTool, Suffix
      <3>3. CASE state = "denied"
        BY <1>0, <2>1, <3>3 DEF RenderTool, Suffix, Struck
      <3> QED BY <3>1, <3>2, <3>3
    <2>3. Closes(p, RenderTool(row, state, note, 0))
      BY DEF OrphanResult, row
    <2> QED BY <2>2, <2>3, ClosesBook
  <1> QED BY <1>2, <1>3, <1>4, <1>5, <1>6, <1>7 DEF Step

LEMMA ResultBooks ==
    ASSUME Booking, NEW k \in Keys, Result(k)
    PROVE  Booking'
  <1>1. ASSUME NEW kind, NEW state \in RowStates, NEW note \in Clips \cup {0},
               NEW duration \in Durations \cup {0},
               Resolves(k, kind, state, note, duration), UNCHANGED appended
        PROVE  Booking'
    <2>1. appended' \in Nat
      BY <1>1 DEF Booking
    <2>2. PICK i \in DOMAIN segments : \E row \in segments[i].pending :
                 Replaces(i, row, state, note, duration)
      BY <1>1 DEF Resolves
    <2> QED BY <2>1, <2>2, ReplacesBook
  <1>2. PICK state \in {"ok", "failed", "denied"}, note \in Clips :
          \/ \E duration \in Durations : ToolResult(k, state, note, duration)
          \/ ConsultResult(k, state, note)
    BY DEF Result
  <1>3. state \in RowStates
    BY DEF RowStates
  <1>4. CASE \E duration \in Durations : ToolResult(k, state, note, duration)
    BY <1>1, <1>3, <1>4 DEF ToolResult
  <1>5. CASE ConsultResult(k, state, note)
    BY <1>1, <1>3, <1>5 DEF ConsultResult
  <1> QED BY <1>2, <1>4, <1>5

LEMMA SealingBooks ==
    ASSUME Booking, HasSegment, Sealing
    PROVE  Booking'
  <1>0. /\ DetailMax \in Nat /\ RowGrowthReserve \in Nat /\ V2TextLimit \in Nat
        /\ 4 * DetailMax + RowGrowthReserve + 60 <= V2TextLimit
    <2>1. 4 * DetailMax + 0 + RowGrowthReserve + 60 <= V2TextLimit
      BY ReserveAssumption
    <2> QED BY <2>1, BudgetAssumption
  <1>1. CASE SealBegins
    BY <1>1 DEF SealBegins, Booking, Booked
  <1>2. CASE \E i \in DOMAIN segments : \E row \in segments[i].pending : Interrupts(i, row)
    <2>1. PICK i \in DOMAIN segments : \E row \in segments[i].pending : Interrupts(i, row)
      BY <1>2
    <2>2. PICK row \in segments[i].pending : Interrupts(i, row)
      BY <2>1
    <2>3. /\ Replaces(i, row, "interrupted", 0, 0)
          /\ appended' \in Nat
          /\ "interrupted" \in RowStates
      BY <2>2 DEF Interrupts, Booking, RowStates
    <2> QED BY <2>3, ReplacesBook
  <1>3. CASE \E outcome \in {"ok", "faulted", "interrupted"}, tools \in Clips,
                duration \in Durations : SealEnds(outcome, tools, duration)
    <2> PICK outcome \in {"ok", "faulted", "interrupted"}, tools \in Clips,
             duration \in Durations : SealEnds(outcome, tools, duration)
      BY <1>3
    <2>1. /\ tools \in Nat /\ tools <= DetailMax
          /\ duration \in Nat /\ duration <= DetailMax
      BY TextLengths, BudgetAssumption
    <2>2. RenderSeal(outcome, tools, duration) \in Int
          /\ RenderSeal(outcome, tools, duration) <= V2TextLimit
      BY <1>0, <2>1 DEF RenderSeal, Elapsed
    <2> DEFINE p == segments[Len(segments)].persona
    <2>3. p \in Personas
      <3> DEFINE S == [persona : Personas, length : Int, pending : SUBSET PendingRow]
      <3>1. segments \in Seq(S) /\ segments # << >>
        BY DEF SealEnds, HasSegment, Booking
      <3> HIDE DEF S
      <3>2. segments[Len(segments)] \in S
        BY <3>1
      <3> QED BY <3>2 DEF S
    <2>4. appended' \in Nat /\ Appends(p, RenderSeal(outcome, tools, duration), {})
      BY DEF SealEnds, Booking
    <2> HIDE DEF p
    <2> QED BY <2>2, <2>3, <2>4, FinalBooks
  <1> QED BY <1>1, <1>2, <1>3 DEF Sealing

LEMMA StepBooking ==
    ASSUME Booking, HasSegment, [BudgetNext]_budgetVars
    PROVE  Booking'
  <1>1. CASE \E p \in Personas : Step(p)
    BY <1>1, StepBooks
  <1>2. CASE \E k \in Keys : Result(k)
    BY <1>2, ResultBooks
  <1>3. CASE Sealing
    BY <1>3, SealingBooks
  <1>4. CASE UNCHANGED budgetVars
    BY <1>4 DEF budgetVars, Booking, Booked
  <1> QED BY <1>1, <1>2, <1>3, <1>4 DEF BudgetNext

LEMMA StepHasSegment ==
    ASSUME Booking, HasSegment, [BudgetNext]_budgetVars
    PROVE  HasSegment'
  <1>1. CASE \E p \in Personas : Step(p)
    BY <1>1 DEF Step, ToolCall, UnkeyedCall, Consult, Handoff, Prose, OrphanResult, Folding,
                HasSegment
  <1>2. CASE \E k \in Keys : Result(k)
    BY <1>2 DEF Result, ToolResult, ConsultResult, Folding, HasSegment
  <1>3. CASE SealBegins
    BY <1>3 DEF SealBegins, HasSegment
  <1>4. ASSUME NEW i \in DOMAIN segments, NEW row \in segments[i].pending, Interrupts(i, row)
        PROVE  HasSegment'
    <2> DEFINE S == [persona : Personas, length : Int, pending : SUBSET PendingRow]
    <2>1. segments \in Seq(S)
      BY DEF Booking
    <2>2. DOMAIN segments' = DOMAIN segments
      BY <1>4 DEF Interrupts, Replaces
    <2> QED BY <2>2 DEF HasSegment
  <1>5. CASE \E outcome \in {"ok", "faulted", "interrupted"}, tools \in Clips,
                duration \in Durations : SealEnds(outcome, tools, duration)
    BY <1>5 DEF SealEnds, HasSegment
  <1>6. CASE UNCHANGED budgetVars
    BY <1>6 DEF budgetVars, HasSegment
  <1> QED BY <1>1, <1>2, <1>3, <1>4, <1>5, <1>6 DEF BudgetNext, Sealing

(* No sequence of appends, rollovers, resolves and interruptions takes a     *)
(* body over the cap, so the truncation in _Segment.body is never reached.   *)
THEOREM BodiesPostable == BudgetSpec => []Postable
  <1>1. BudgetInit => Booking /\ HasSegment
    BY DEF BudgetInit, Booking, HasSegment
  <1>2. Booking /\ HasSegment /\ [BudgetNext]_budgetVars => (Booking /\ HasSegment)'
    BY StepBooking, StepHasSegment
  <1>3. Booking => Postable
    <2> SUFFICES ASSUME Booking, NEW i \in DOMAIN segments
                 PROVE  segments[i].length <= V2TextLimit
      BY DEF Postable
    <2> DEFINE a == Cardinality(segments[i].pending)
               l == segments[i].length
    <2>1. /\ l \in Int
          /\ a \in Nat
          /\ l + RowGrowthReserve * a <= V2TextLimit
      BY FS_CardinalityType DEF Booking, Booked
    <2> HIDE DEF a, l
    <2>2. RowGrowthReserve * a \in Nat
      BY <2>1, BudgetAssumption
    <2>3. l <= V2TextLimit
      BY <2>1, <2>2, BudgetAssumption
    <2> QED BY <2>3 DEF l
  <1> QED BY <1>1, <1>2, <1>3, PTL DEF BudgetSpec

-----------------------------------------------------------------------------
(* Deliveries.                                                                *)

Job == [chunk : Nat, retried : BOOLEAN, posted : BOOLEAN, key : Nat, tools : BOOLEAN]
Message == [by : Turns \union Unsticks, told : BOOLEAN]

\* Places of a turn before one of its chunks is posted for good, and those at which
\* a commit is due.
Sending == {"idle", "lock", "list", "create", "post", "sleep"}
Due == {"rowCommit", "ownerCommit", "clearCommit", "setCommit"}

PlacesOK ==
    /\ pc \in [Clients -> Places]
    /\ \A t \in Turns : pc[t] \in Sending \union {"row", "rowCommit", "owner", "ownerCommit",
                                               "notice", "done"}
    /\ \A u \in Unsticks : pc[u] \in {"idle", "clear", "clearCommit", "notice", "done"}
    /\ \A c \in Commands : pc[c] \in {"idle", "set", "setCommit", "done"}

StoreOK == db \in Store /\ draft \in Store

DataOK ==
    /\ job \in [Turns -> Job]
    /\ thread \in Seq(Message)
    /\ StoreOK /\ map \in Tiers
    /\ mixed \in BOOLEAN /\ brokeOff \in BOOLEAN /\ unstored \in BOOLEAN

QueueOK ==
    /\ queue \in Seq(Clients)
    /\ \A i \in 1..Len(queue) : pc[queue[i]] \in Due
    /\ \A i, j \in 1..Len(queue) : queue[i] = queue[j] => i = j
    /\ \A c \in Clients : pc[c] \in Due => \E i \in 1..Len(queue) : queue[i] = c

Held == PlacesOK /\ DataOK /\ QueueOK

-----------------------------------------------------------------------------
(* What the steps do.                                                         *)

LEMMA Apart ==
    /\ \A t \in Turns : t \notin Unsticks /\ t \notin Commands /\ t \in Clients
    /\ \A u \in Unsticks : u \notin Commands /\ u \in Clients
    /\ \A c \in Commands : c \in Clients
BY DeliveryAssumption DEF Clients

\* Of the clients only c moves, and of the turns only c's job changes.
OnlyMoves(c) ==
    /\ pc' \in [Clients -> Places]
    /\ job' \in [Turns -> Job]
    /\ \A d \in Clients : d # c => pc'[d] = pc[d]
    /\ \A t \in Turns : t # c => job'[t] = job[t]

LEMMA GotoMoves ==
    ASSUME PlacesOK, DataOK, NEW c \in Clients, NEW place \in Places, Goto(c, place), job' = job
    PROVE  OnlyMoves(c) /\ pc'[c] = place
BY DEF PlacesOK, DataOK, Goto, OnlyMoves

\* A turn goes on to its next chunk or to its end.
LEMMA AdvanceMoves ==
    ASSUME PlacesOK, DataOK, NEW t \in Turns, NEW posted \in BOOLEAN, NEW tools \in BOOLEAN,
           Advance(t, posted, tools)
    PROVE  /\ OnlyMoves(t)
           /\ pc'[t] \in {"post", "lock", "owner", "notice"}
           /\ pc'[t] = "owner" => posted = TRUE
           /\ pc'[t] = "notice" => posted = FALSE
           /\ job'[t].posted = posted /\ job'[t].tools = tools
<1> DEFINE place == Outcome(t, posted)
           counted == [job[t] EXCEPT !.chunk = @ + 1]
           fresh   == [counted EXCEPT !.retried = FALSE]
           marked  == [fresh EXCEPT !.posted = posted]
           new     == [marked EXCEPT !.tools = tools]
<1>1. /\ place \in {"post", "lock", "owner", "notice"}
      /\ place = "owner" => posted = TRUE
      /\ place = "notice" => posted = FALSE
  BY DEF Outcome, Send
<1>2. new \in Job /\ new.posted = posted /\ new.tools = tools
  <2>1. job[t] \in Job
    BY DEF DataOK
  <2>2. counted \in Job
    BY <2>1 DEF Job
  <2> HIDE DEF counted
  <2>3. fresh \in Job
    BY <2>2 DEF Job
  <2> HIDE DEF fresh
  <2>4. marked \in Job /\ marked.posted = posted
    BY <2>3 DEF Job
  <2> HIDE DEF marked
  <2> QED
    BY <2>4 DEF Job
<1>3. job' = [job EXCEPT ![t] = new] /\ pc' = [pc EXCEPT ![t] = place]
  BY DEF Advance, Goto
<1>4. t \in Clients /\ place \in Places
  BY <1>1, Apart DEF Places, InStore
<1> HIDE DEF place, counted, fresh, marked, new
<1> QED
  BY <1>1, <1>2, <1>3, <1>4 DEF PlacesOK, DataOK, OnlyMoves

\* A client of the conversation that begins while another is at work mixes the two.
BeginsAlone == mixed' = FALSE => mixed = FALSE /\ AtWork = {}

\* A turn works on its reply.  It posts nothing that Discord confirms ...
Quiet(t) ==
    /\ thread' = thread \/ thread' = Append(thread, [by |-> t, told |-> FALSE])
    /\ job'[t].posted = job[t].posted /\ job'[t].tools = job[t].tools
    /\ pc'[t] # "row"
    /\ pc'[t] = "owner" => job[t].posted = TRUE
    /\ pc'[t] = "notice" => job[t].posted = FALSE \/ brokeOff' = TRUE
    /\ pc'[t] = "done" => pc[t] = "idle"

\* ... or a chunk is posted.
Speaks(t) ==
    /\ pc[t] = "post"
    /\ thread' = Append(thread, [by |-> t, told |-> TRUE])
    /\ \/ /\ job[t].tools = TRUE
          /\ pc'[t] = "row" /\ job'[t].key = Len(thread) + 1
       \/ /\ job[t].tools = FALSE
          /\ pc'[t] \in {"post", "lock", "owner"}
          /\ job'[t].posted = TRUE /\ job'[t].tools = FALSE

TurnMoves(t) ==
    /\ OnlyMoves(t)
    /\ pc[t] \in Sending
    /\ pc'[t] \in (Sending \ {"idle"}) \union {"row", "owner", "notice", "done"}
    /\ UNCHANGED <<store, map, unstored>>
    /\ mixed = TRUE => mixed' = TRUE
    /\ brokeOff = TRUE => brokeOff' = TRUE
    /\ mixed' \in BOOLEAN /\ brokeOff' \in BOOLEAN
    /\ pc[t] = "idle" => BeginsAlone
    /\ Quiet(t) \/ Speaks(t)

TurnStep(t) ==
    Begin(t) \/ LockTaken(t) \/ Listed(t) \/ Created(t) \/ Posted(t) \/ CallFails(t) \/ Retry(t)

LEMMA PostedMoves ==
    ASSUME PlacesOK, DataOK, NEW t \in Turns, Posted(t)
    PROVE  TurnMoves(t)
<1>0. t \in Clients /\ job[t] \in Job /\ pc[t] = "post"
  BY Apart DEF DataOK, Posted
<1>1. /\ UNCHANGED <<store, map, mixed, brokeOff, unstored>>
      /\ mixed \in BOOLEAN /\ brokeOff \in BOOLEAN
      /\ thread' = Append(thread, [by |-> t, told |-> TRUE])
  BY DEF Posted, Arrives, history, DataOK
<1>2. CASE job[t].tools = TRUE
  <2>1. /\ pc' = [pc EXCEPT ![t] = "row"]
        /\ job' = [job EXCEPT ![t].key = Len(thread')]
    BY <1>2 DEF Posted, Goto
  <2>2. Len(thread') = Len(thread) + 1 /\ Len(thread') \in Nat
    BY <1>1 DEF DataOK
  <2>3. OnlyMoves(t) /\ pc'[t] = "row" /\ job'[t].key = Len(thread) + 1
    BY <1>0, <2>1, <2>2 DEF PlacesOK, DataOK, OnlyMoves, Job, Places, InStore
  <2> QED
    BY <1>0, <1>1, <1>2, <2>3 DEF TurnMoves, Speaks, Sending
<1>3. CASE job[t].tools = FALSE
  <2>1. Advance(t, TRUE, FALSE)
    BY <1>3 DEF Posted
  <2>2. /\ OnlyMoves(t)
        /\ pc'[t] \in {"post", "lock", "owner", "notice"}
        /\ pc'[t] = "notice" => TRUE = FALSE
        /\ job'[t].posted = TRUE /\ job'[t].tools = FALSE
    BY <2>1, AdvanceMoves
  <2> QED
    BY <1>0, <1>1, <1>3, <2>2 DEF TurnMoves, Speaks, Sending
<1> QED
  BY <1>0, <1>2, <1>3 DEF Job

LEMMA CallFailsMoves ==
    ASSUME PlacesOK, DataOK, NEW t \in Turns, CallFails(t)
    PROVE  TurnMoves(t)
<1>0. /\ t \in Clients /\ job[t] \in Job /\ pc[t] \in {"list", "create", "post"}
      /\ job[t].posted \in BOOLEAN /\ job[t].tools \in BOOLEAN
      /\ mixed \in BOOLEAN /\ brokeOff \in BOOLEAN
  BY Apart DEF DataOK, CallFails, Job
<1>1. /\ UNCHANGED <<store, map, mixed, unstored>>
      /\ thread' = thread \/ thread' = Append(thread, [by |-> t, told |-> FALSE])
  BY DEF CallFails, Arrives
<1>2. CASE Goto(t, "sleep") /\ job' = [job EXCEPT ![t].retried = TRUE] /\ UNCHANGED brokeOff
  <2>1. /\ OnlyMoves(t) /\ pc'[t] = "sleep"
        /\ job'[t].posted = job[t].posted /\ job'[t].tools = job[t].tools
    BY <1>0, <1>2 DEF Goto, PlacesOK, DataOK, OnlyMoves, Job, Places, InStore
  <2> QED
    BY <1>0, <1>1, <1>2, <2>1 DEF TurnMoves, Quiet, Sending
<1>3. CASE Advance(t, job[t].posted, job[t].tools) /\ UNCHANGED brokeOff
  <2>1. /\ OnlyMoves(t)
        /\ pc'[t] \in {"post", "lock", "owner", "notice"}
        /\ pc'[t] = "owner" => job[t].posted = TRUE
        /\ pc'[t] = "notice" => job[t].posted = FALSE
        /\ job'[t].posted = job[t].posted /\ job'[t].tools = job[t].tools
    BY <1>0, <1>3, AdvanceMoves
  <2> QED
    BY <1>0, <1>1, <1>3, <2>1 DEF TurnMoves, Quiet, Sending
<1>4. CASE Goto(t, "notice") /\ job' = job /\ brokeOff' = TRUE
  <2>1. OnlyMoves(t) /\ pc'[t] = "notice"
    BY <1>0, <1>4, GotoMoves DEF Places, InStore
  <2> QED
    BY <1>0, <1>1, <1>4, <2>1 DEF TurnMoves, Quiet, Sending
<1> QED
  BY <1>2, <1>3, <1>4 DEF CallFails, ChunkFails, Escapes

LEMMA TurnStepMoves ==
    ASSUME PlacesOK, DataOK, NEW t \in Turns, TurnStep(t)
    PROVE  TurnMoves(t)
<1>0. t \in Clients /\ mixed \in BOOLEAN /\ brokeOff \in BOOLEAN
  BY Apart DEF DataOK
<1>1. ASSUME NEW place \in {"lock", "list", "create", "post", "done"}, Goto(t, place),
             pc[t] \in Sending, place = "done" => pc[t] = "idle",
             UNCHANGED <<job, thread, store, map, brokeOff, unstored>>,
             mixed' = mixed \/ (mixed' = (mixed \/ AtWork # {})),
             pc[t] = "idle" => BeginsAlone
      PROVE  TurnMoves(t)
  <2>1. OnlyMoves(t) /\ pc'[t] = place
    BY <1>0, <1>1, GotoMoves DEF Places, InStore
  <2>2. (mixed = TRUE => mixed' = TRUE) /\ mixed' \in BOOLEAN
    BY <1>0, <1>1
  <2> QED
    BY <1>0, <1>1, <2>1, <2>2 DEF TurnMoves, Quiet, Sending
<1>2. CASE Begin(t)
  <2> DEFINE place == IF plan[t] = << >> THEN "done" ELSE Send
  <2>1. /\ place \in {"lock", "list", "create", "post", "done"} /\ Goto(t, place)
        /\ pc[t] = "idle"
        /\ UNCHANGED <<job, thread, store, map, brokeOff, unstored>>
        /\ mixed' = (mixed \/ AtWork # {})
    BY <1>2 DEF Begin, Send, discord
  <2>2. BeginsAlone
    BY <1>0, <2>1 DEF BeginsAlone
  <2> HIDE DEF place
  <2> QED
    BY <1>1, <2>1, <2>2 DEF Sending
<1>3. CASE LockTaken(t) \/ Listed(t) \/ Created(t) \/ Retry(t)
  <2>1. PICK place \in {"lock", "list", "create", "post", "done"} :
            /\ Goto(t, place) /\ place # "done"
            /\ pc[t] \in Sending \ {"idle"}
            /\ UNCHANGED <<job, thread, store, map, mixed, brokeOff, unstored>>
    BY <1>3 DEF LockTaken, Listed, Created, Retry, Send, discord, history, Sending
  <2> QED
    BY <1>1, <2>1
<1> QED
  BY <1>2, <1>3, PostedMoves, CallFailsMoves DEF TurnStep

\* The store has answered a client, one way or the other.
Settles(c) ==
    /\ OnlyMoves(c)
    /\ pc[c] \in {"row", "rowCommit"} =>
         /\ c \in Turns /\ pc'[c] \in {"post", "lock", "owner"}
         /\ job'[c].posted = TRUE /\ job'[c].tools = FALSE
    /\ pc[c] \notin {"row", "rowCommit"} => job' = job /\ pc'[c] \in {"notice", "done"}

LEMMA Kinds ==
    ASSUME PlacesOK, NEW c \in Clients
    PROVE  /\ pc[c] \in {"row", "rowCommit", "owner", "ownerCommit"} => c \in Turns
           /\ pc[c] \in {"clear", "clearCommit"} => c \in Unsticks
           /\ pc[c] \in {"set", "setCommit"} => c \in Commands
           /\ pc[c] = "notice" => c \in Turns \union Unsticks
BY DEF PlacesOK, Clients, Sending

LEMMA RowOverMoves ==
    ASSUME PlacesOK, DataOK, NEW c \in Clients, pc[c] \in {"row", "rowCommit"}, RowOver(c)
    PROVE  Settles(c)
<1>1. c \in Turns /\ TRUE \in BOOLEAN /\ FALSE \in BOOLEAN
  BY Kinds
<1>2. Advance(c, TRUE, FALSE)
  BY DEF RowOver
<1>3. /\ OnlyMoves(c)
      /\ pc'[c] \in {"post", "lock", "owner", "notice"}
      /\ pc'[c] = "notice" => TRUE = FALSE
      /\ job'[c].posted = TRUE /\ job'[c].tools = FALSE
  BY <1>1, <1>2, AdvanceMoves
<1> QED
  BY <1>1, <1>3 DEF Settles

LEMMA EndMoves ==
    ASSUME PlacesOK, DataOK, NEW c \in Clients, pc[c] \notin {"row", "rowCommit"},
           NEW place \in {"notice", "done"}, Goto(c, place), job' = job
    PROVE  Settles(c) /\ pc'[c] = place
<1>1. OnlyMoves(c) /\ pc'[c] = place
  BY GotoMoves DEF Places, InStore
<1> QED
  BY <1>1 DEF Settles

LEMMA StoredMoves ==
    ASSUME PlacesOK, DataOK, NEW c \in Clients, pc[c] \in Due, Stored(c)
    PROVE  /\ Settles(c)
           /\ pc[c] \in {"ownerCommit", "setCommit"} => pc'[c] = "done"
           /\ pc[c] = "clearCommit" => pc'[c] = "notice"
           /\ pc[c] = "setCommit" => map' = Effort[c]
           /\ pc[c] # "setCommit" => map' = map
<1>1. CASE pc[c] = "rowCommit"
  <2>1. RowOver(c) /\ map' = map
    BY <1>1 DEF Stored
  <2> QED
    BY <1>1, <2>1, RowOverMoves
<1>2. CASE pc[c] = "ownerCommit"
  <2>1. Goto(c, "done") /\ job' = job /\ map' = map
    BY <1>2 DEF Stored
  <2> QED
    BY <1>2, <2>1, EndMoves
<1>3. CASE pc[c] = "clearCommit"
  <2>1. Goto(c, "notice") /\ job' = job /\ map' = map
    BY <1>3 DEF Stored
  <2> QED
    BY <1>3, <2>1, EndMoves
<1>4. CASE pc[c] = "setCommit"
  <2>1. Goto(c, "done") /\ job' = job /\ map' = Effort[c]
    BY <1>4 DEF Stored
  <2> QED
    BY <1>4, <2>1, EndMoves
<1> QED
  BY <1>1, <1>2, <1>3, <1>4 DEF Due

LEMMA RefusedMoves ==
    ASSUME PlacesOK, DataOK, NEW c \in Clients, pc[c] \in InStore \union Due, Refused(c)
    PROVE  /\ Settles(c) /\ map' = map
           /\ pc[c] \in {"clear", "clearCommit", "set", "setCommit"} => pc'[c] = "done"
<1>1. CASE pc[c] \in {"row", "rowCommit"}
  <2>1. RowOver(c) /\ map' = map
    BY <1>1 DEF Refused
  <2> QED
    BY <1>1, <2>1, RowOverMoves
<1>2. CASE pc[c] \in {"owner", "ownerCommit"}
  <2>1. Goto(c, "notice") /\ job' = job /\ map' = map
    BY <1>2 DEF Refused
  <2> QED
    BY <1>2, <2>1, EndMoves
<1>3. CASE pc[c] \in {"clear", "clearCommit", "set", "setCommit"}
  <2>1. Goto(c, "done") /\ job' = job /\ map' = map
    BY <1>3 DEF Refused
  <2> QED
    BY <1>3, <2>1, EndMoves
<1> QED
  BY <1>1, <1>2, <1>3 DEF InStore, Due

\* A statement changes one part of the transaction and leaves its client waiting.
LEMMA ExecutesMoves ==
    ASSUME PlacesOK, DataOK, NEW c \in Clients, Executes(c)
    PROVE  /\ OnlyMoves(c) /\ job' = job /\ draft' \in Store
           /\ \/ /\ pc[c] = "row" /\ pc'[c] = "rowCommit"
                 /\ draft'.row[c] = job[c].key
                 /\ \A t \in Turns : t # c => draft'.row[t] = draft.row[t]
                 /\ draft'.owner = draft.owner /\ draft'.effort = draft.effort
              \/ /\ pc[c] = "owner" /\ pc'[c] = "ownerCommit"
                 /\ draft'.owner = Author[c]
                 /\ draft'.row = draft.row /\ draft'.effort = draft.effort
              \/ /\ pc[c] = "clear" /\ pc'[c] = "clearCommit"
                 /\ draft'.owner = Nobody
                 /\ draft'.row = draft.row /\ draft'.effort = draft.effort
              \/ /\ pc[c] = "set" /\ pc'[c] = "setCommit"
                 /\ draft'.effort = Effort[c]
                 /\ draft'.row = draft.row /\ draft'.owner = draft.owner
<1>1. pc[c] \in InStore /\ draft' = Changed(c) /\ Goto(c, Committing[pc[c]]) /\ job' = job
  BY DEF Executes
<1>2. draft \in [row : [Turns -> Nat], owner : Agents \union {Nobody}, effort : Tiers]
  BY DEF DataOK, StoreOK, Store
<1>3. CASE pc[c] = "row"
  <2>1. c \in Turns /\ job[c].key \in Nat
    BY <1>3, Kinds DEF DataOK, Job
  <2>2. draft' = [draft EXCEPT !.row[c] = job[c].key]
    BY <1>1, <1>3 DEF Changed
  <2>3. Goto(c, "rowCommit")
    BY <1>1, <1>3 DEF Committing
  <2>4. OnlyMoves(c) /\ pc'[c] = "rowCommit"
    BY <1>1, <2>3, GotoMoves DEF Places, InStore
  <2> QED
    BY <1>1, <1>2, <1>3, <2>1, <2>2, <2>4 DEF Store
<1>4. CASE pc[c] = "owner"
  <2>1. Author[c] \in Agents
    BY <1>4, Kinds, DeliveryAssumption
  <2>2. draft' = [draft EXCEPT !.owner = Author[c]]
    BY <1>1, <1>4 DEF Changed
  <2>3. Goto(c, "ownerCommit")
    BY <1>1, <1>4 DEF Committing
  <2>4. OnlyMoves(c) /\ pc'[c] = "ownerCommit"
    BY <1>1, <2>3, GotoMoves DEF Places, InStore
  <2> QED
    BY <1>1, <1>2, <1>4, <2>1, <2>2, <2>4 DEF Store
<1>5. CASE pc[c] = "clear"
  <2>2. draft' = [draft EXCEPT !.owner = Nobody]
    BY <1>1, <1>5 DEF Changed
  <2>3. Goto(c, "clearCommit")
    BY <1>1, <1>5 DEF Committing
  <2>4. OnlyMoves(c) /\ pc'[c] = "clearCommit"
    BY <1>1, <2>3, GotoMoves DEF Places, InStore
  <2> QED
    BY <1>1, <1>2, <1>5, <2>2, <2>4 DEF Store
<1>6. CASE pc[c] = "set"
  <2>1. Effort[c] \in Tiers
    BY <1>6, Kinds DEF Tiers
  <2>2. draft' = [draft EXCEPT !.effort = Effort[c]]
    BY <1>1, <1>6 DEF Changed
  <2>3. Goto(c, "setCommit")
    BY <1>1, <1>6 DEF Committing
  <2>4. OnlyMoves(c) /\ pc'[c] = "setCommit"
    BY <1>1, <2>3, GotoMoves DEF Places, InStore
  <2> QED
    BY <1>1, <1>2, <1>6, <2>1, <2>2, <2>4 DEF Store
<1> QED
  BY <1>1, <1>3, <1>4, <1>5, <1>6 DEF InStore

\* A notice of a command goes to the thread.
NoticeMoves(c) ==
    /\ OnlyMoves(c) /\ job' = job
    /\ c \in Turns \union Unsticks /\ pc[c] = "notice" /\ pc'[c] = "done"
    /\ UNCHANGED <<store, map, mixed, unstored>>
    /\ brokeOff' \in BOOLEAN
    /\ \/ /\ brokeOff' = brokeOff
          /\ IF c \in Unsticks THEN thread' = Append(thread, [by |-> c, told |-> TRUE])
             ELSE thread' = thread
       \/ brokeOff' = TRUE /\ thread' = thread

LEMMA NoticeEffect ==
    ASSUME PlacesOK, DataOK, NEW c \in Clients, Notice(c)
    PROVE  NoticeMoves(c)
<1>1. Goto(c, "done") /\ pc[c] = "notice" /\ job' = job
  BY DEF Notice
<1>2. OnlyMoves(c) /\ pc'[c] = "done"
  BY <1>1, GotoMoves DEF Places, InStore
<1>3. c \in Turns \union Unsticks
  BY <1>1, Kinds
<1>4. brokeOff \in BOOLEAN
  BY DEF DataOK
<1> QED
  BY <1>1, <1>2, <1>3, <1>4 DEF Notice, NoticeMoves, Arrives

-----------------------------------------------------------------------------
(* The queue, and Held.                                                       *)

LEMMA QueueKept ==
    ASSUME PlacesOK, QueueOK, NEW c \in Clients, OnlyMoves(c), pc[c] \notin Due,
           pc'[c] \notin Due, queue' = queue
    PROVE  QueueOK'
<1>1. ASSUME NEW i \in 1..Len(queue) PROVE queue[i] # c /\ queue[i] \in Clients
  BY <1>1 DEF QueueOK
<1>2. \A i \in 1..Len(queue) : pc'[queue[i]] = pc[queue[i]]
  BY <1>1 DEF OnlyMoves
<1> QED
  BY <1>2 DEF QueueOK, OnlyMoves

LEMMA Enqueued ==
    ASSUME PlacesOK, QueueOK, NEW c \in Clients, OnlyMoves(c), pc[c] \notin Due,
           pc'[c] \in Due, queue' = Append(queue, c)
    PROVE  /\ QueueOK'
           /\ Len(queue') = Len(queue) + 1 /\ Len(queue) \in Nat
           /\ \A i \in 1..Len(queue') : queue'[i] = IF i <= Len(queue) THEN queue[i] ELSE c
           /\ \A i \in 1..Len(queue) : queue[i] # c /\ pc'[queue[i]] = pc[queue[i]]
<1>1. ASSUME NEW i \in 1..Len(queue) PROVE queue[i] # c /\ queue[i] \in Clients
  BY <1>1 DEF QueueOK
<1>2. \A i \in 1..Len(queue) : pc'[queue[i]] = pc[queue[i]]
  BY <1>1 DEF OnlyMoves
<1>3. /\ queue' \in Seq(Clients) /\ Len(queue) \in Nat /\ Len(queue') = Len(queue) + 1
      /\ \A i \in 1..Len(queue') : queue'[i] = IF i <= Len(queue) THEN queue[i] ELSE c
  BY DEF QueueOK
<1>4. \A i \in 1..Len(queue') : pc'[queue'[i]] \in Due
  BY <1>2, <1>3 DEF QueueOK
<1>5. \A i, j \in 1..Len(queue') : queue'[i] = queue'[j] => i = j
  <2> SUFFICES ASSUME NEW i \in 1..Len(queue'), NEW j \in 1..Len(queue'), queue'[i] = queue'[j]
               PROVE  i = j
    OBVIOUS
  <2>1. CASE i <= Len(queue) /\ j <= Len(queue)
    BY <1>3, <2>1 DEF QueueOK
  <2>2. CASE ~(i <= Len(queue)) \/ ~(j <= Len(queue))
    BY <1>1, <1>3, <2>2
  <2> QED
    BY <2>1, <2>2
<1>6. ASSUME NEW d \in Clients, pc'[d] \in Due
      PROVE  \E i \in 1..Len(queue') : queue'[i] = d
  <2>1. CASE d = c
    BY <1>3, <2>1
  <2>2. CASE d # c
    <3>1. PICK i \in 1..Len(queue) : queue[i] = d
      BY <1>6, <2>2 DEF QueueOK, OnlyMoves
    <3> QED
      BY <1>3, <3>1
  <2> QED
    BY <2>1, <2>2
<1> QED
  BY <1>1, <1>2, <1>3, <1>4, <1>5, <1>6 DEF QueueOK

\* The commits that are due fall away from the head.
LEMMA Dequeued ==
    ASSUME PlacesOK, QueueOK, NEW c, queue # << >>, Head(queue) = c, OnlyMoves(c),
           pc'[c] \notin Due, queue' = Tail(queue)
    PROVE  /\ QueueOK'
           /\ Len(queue') = Len(queue) - 1 /\ Len(queue) \in Nat /\ Len(queue) >= 1
           /\ queue[1] = c
           /\ \A i \in 1..Len(queue') :
                /\ queue'[i] = queue[i + 1] /\ queue[i + 1] # c
                /\ pc'[queue'[i]] = pc[queue[i + 1]]
<1>1. /\ queue' \in Seq(Clients) /\ Len(queue) \in Nat /\ Len(queue) >= 1
      /\ Len(queue') = Len(queue) - 1
      /\ queue[1] = c
      /\ \A i \in 1..Len(queue') : queue'[i] = queue[i + 1] /\ i + 1 \in 1..Len(queue)
  BY DEF QueueOK
<1>2. \A i \in 1..Len(queue') : queue[i + 1] # c /\ queue[i + 1] \in Clients
  <2> SUFFICES ASSUME NEW i \in 1..Len(queue')
               PROVE  queue[i + 1] # c /\ queue[i + 1] \in Clients
    OBVIOUS
  <2>1. i + 1 \in 1..Len(queue) /\ i + 1 # 1 /\ 1 \in 1..Len(queue)
    BY <1>1
  <2> QED
    BY <1>1, <2>1 DEF QueueOK
<1>3. \A i \in 1..Len(queue') : pc'[queue'[i]] = pc[queue[i + 1]]
  BY <1>1, <1>2 DEF OnlyMoves
<1>4. \A i \in 1..Len(queue') : pc'[queue'[i]] \in Due
  BY <1>1, <1>3 DEF QueueOK
<1>5. \A i, j \in 1..Len(queue') : queue'[i] = queue'[j] => i = j
  <2> SUFFICES ASSUME NEW i \in 1..Len(queue'), NEW j \in 1..Len(queue'), queue'[i] = queue'[j]
               PROVE  i = j
    OBVIOUS
  <2>1. /\ i + 1 \in 1..Len(queue) /\ j + 1 \in 1..Len(queue)
        /\ queue[i + 1] = queue[j + 1]
    BY <1>1
  <2>2. i + 1 = j + 1
    BY <2>1 DEF QueueOK
  <2> QED
    BY <2>2
<1>6. ASSUME NEW d \in Clients, pc'[d] \in Due
      PROVE  \E i \in 1..Len(queue') : queue'[i] = d
  <2>1. d # c
    BY <1>6
  <2>2. PICK i \in 1..Len(queue) : queue[i] = d
    BY <1>6, <2>1 DEF QueueOK, OnlyMoves
  <2>3. i # 1
    BY <1>1, <2>1, <2>2
  <2>4. i - 1 \in 1..Len(queue') /\ (i - 1) + 1 = i
    BY <1>1, <2>3
  <2> QED
    BY <1>1, <2>2, <2>4
<1> QED
  BY <1>1, <1>2, <1>3, <1>4, <1>5, <1>6 DEF QueueOK

LEMMA DueClient ==
    ASSUME QueueOK, NEW c, queue # << >>, Head(queue) = c
    PROVE  c \in Clients /\ pc[c] \in Due
<1>1. 1 \in 1..Len(queue) /\ queue[1] = c
  BY DEF QueueOK
<1> QED
  BY <1>1 DEF QueueOK

\* What a client has done to itself keeps the places and the data.
LEMMA MovedPlaces ==
    ASSUME PlacesOK, NEW c \in Clients, OnlyMoves(c),
           c \in Turns => pc'[c] \in Sending \union {"row", "rowCommit", "owner", "ownerCommit",
                                                  "notice", "done"},
           c \in Unsticks => pc'[c] \in {"idle", "clear", "clearCommit", "notice", "done"},
           c \in Commands => pc'[c] \in {"idle", "set", "setCommit", "done"}
    PROVE  PlacesOK'
BY Apart DEF PlacesOK, OnlyMoves

LEMMA Posting ==
    ASSUME DataOK, NEW c \in Turns \union Unsticks, NEW noted \in BOOLEAN,
           thread' = Append(thread, [by |-> c, told |-> noted])
    PROVE  /\ thread' \in Seq(Message)
           /\ Len(thread') = Len(thread) + 1 /\ Len(thread) \in Nat
           /\ \A i \in 1..Len(thread) : thread'[i] = thread[i]
           /\ thread'[Len(thread) + 1] = [by |-> c, told |-> noted]
BY DEF DataOK, Message

LEMMA TurnHeld ==
    ASSUME Held, NEW t \in Turns, TurnMoves(t)
    PROVE  Held'
<1>0. t \in Clients /\ PlacesOK /\ DataOK /\ QueueOK
  BY Apart DEF Held
<1>1. OnlyMoves(t) /\ pc[t] \notin Due /\ pc'[t] \notin Due /\ queue' = queue
  BY DEF TurnMoves, Sending, Due, store
<1>2. QueueOK'
  BY <1>0, <1>1, QueueKept
<1>3. PlacesOK'
  BY <1>0, <1>1, Apart, MovedPlaces DEF TurnMoves
<1>4. thread' \in Seq(Message)
  BY <1>0, Posting DEF TurnMoves, Quiet, Speaks, DataOK
<1>5. DataOK'
  BY <1>0, <1>4 DEF TurnMoves, OnlyMoves, DataOK, StoreOK, store
<1> QED
  BY <1>2, <1>3, <1>5 DEF Held

LEMMA SettledHeld ==
    ASSUME Held, NEW c \in Clients, pc[c] \in InStore \union Due, Settles(c),
           pc[c] \in {"set", "setCommit"} => pc'[c] = "done",
           map' = map \/ (pc[c] = "setCommit" /\ map' = Effort[c]),
           StoreOK', UNCHANGED thread,
           mixed' = mixed, brokeOff' \in BOOLEAN, unstored' \in BOOLEAN
    PROVE  PlacesOK' /\ DataOK' /\ pc'[c] \notin Due
<1>0. PlacesOK /\ DataOK
  BY DEF Held
<1>1. OnlyMoves(c)
  BY DEF Settles
<1>2. /\ c \in Turns => pc'[c] \in {"post", "lock", "owner", "notice", "done"}
      /\ c \in Unsticks => pc'[c] \in {"notice", "done"}
      /\ c \in Commands => pc'[c] = "done"
      /\ pc'[c] \notin Due
  <2>1. CASE pc[c] \in {"row", "rowCommit"}
    BY <2>1, Apart DEF Settles, Due
  <2>2. CASE pc[c] \in {"owner", "ownerCommit", "clear", "clearCommit", "set", "setCommit"}
    <3>1. pc'[c] \in {"notice", "done"} /\ pc'[c] \notin Due
      BY <2>2 DEF Settles, Due
    <3>2. c \in Commands => pc'[c] = "done"
      BY <1>0, <2>2, Kinds, Apart
    <3> QED
      BY <3>1, <3>2
  <2> QED
    BY <2>1, <2>2 DEF InStore, Due
<1>3. PlacesOK'
  BY <1>0, <1>1, <1>2, MovedPlaces DEF Sending
<1>4. map' \in Tiers
  BY <1>0, Kinds DEF DataOK, Tiers
<1>5. DataOK'
  BY <1>0, <1>1, <1>4 DEF DataOK, OnlyMoves
<1> QED
  BY <1>2, <1>3, <1>5

LEMMA ExecutesHeld ==
    ASSUME Held, NEW c \in Clients, Executes(c)
    PROVE  Held'
<1>0. PlacesOK /\ DataOK /\ QueueOK
  BY DEF Held
<1>1. /\ OnlyMoves(c) /\ job' = job /\ draft' \in Store /\ db' = db
      /\ UNCHANGED <<thread, map, history>> /\ queue' = Append(queue, c)
  BY <1>0, ExecutesMoves DEF Executes, discord
<1>2. /\ pc[c] \notin Due /\ pc'[c] \in Due
      /\ \/ pc[c] = "row" /\ pc'[c] = "rowCommit"
         \/ pc[c] = "owner" /\ pc'[c] = "ownerCommit"
         \/ pc[c] = "clear" /\ pc'[c] = "clearCommit"
         \/ pc[c] = "set" /\ pc'[c] = "setCommit"
  BY <1>0, ExecutesMoves DEF Due
<1>3. QueueOK'
  BY <1>0, <1>1, <1>2, Enqueued
<1>4. PlacesOK'
  BY <1>0, <1>1, <1>2, Kinds, Apart, MovedPlaces
<1>5. DataOK'
  BY <1>0, <1>1 DEF DataOK, StoreOK, OnlyMoves, history
<1> QED
  BY <1>3, <1>4, <1>5 DEF Held

LEMMA CommitsHeld ==
    ASSUME Held, NEW c \in Clients, Commits(c) \/ CommitFails(c)
    PROVE  Held'
<1>0. PlacesOK /\ DataOK /\ QueueOK
  BY DEF Held
<1>1. /\ queue # << >> /\ Head(queue) = c /\ queue' = Tail(queue) /\ UNCHANGED thread
      /\ mixed' = mixed
  BY DEF Commits, CommitFails, discord, history
<1>2. pc[c] \in Due
  BY <1>0, <1>1, DueClient
<1>3. /\ Settles(c)
      /\ pc[c] = "setCommit" => pc'[c] = "done"
      /\ map' = map \/ (pc[c] = "setCommit" /\ map' = Effort[c])
  <2>1. CASE Stored(c)
    BY <1>0, <1>2, <2>1, StoredMoves
  <2>2. CASE Refused(c)
    BY <1>0, <1>2, <2>2, RefusedMoves
  <2> QED
    BY <2>1, <2>2 DEF Commits, CommitFails
<1>4. StoreOK' /\ brokeOff' \in BOOLEAN /\ unstored' \in BOOLEAN
  BY <1>0 DEF Commits, CommitFails, DataOK, StoreOK, history
<1>5. PlacesOK' /\ DataOK' /\ pc'[c] \notin Due
  BY <1>1, <1>2, <1>3, <1>4, SettledHeld DEF Due
<1>6. QueueOK'
  BY <1>0, <1>1, <1>3, <1>5, Dequeued DEF Settles
<1> QED
  BY <1>5, <1>6 DEF Held

LEMMA StatementFailsHeld ==
    ASSUME Held, NEW c \in Clients, StatementFails(c)
    PROVE  Held'
<1>0. PlacesOK /\ DataOK /\ QueueOK
  BY DEF Held
<1>1. /\ pc[c] \in InStore /\ UNCHANGED <<thread, store, mixed, unstored>> /\ Refused(c)
      /\ brokeOff' \in BOOLEAN
  BY DEF StatementFails, discord
<1>2. /\ Settles(c) /\ map' = map
      /\ pc[c] \in {"set", "setCommit"} => pc'[c] = "done"
  BY <1>0, <1>1, RefusedMoves
<1>3. StoreOK' /\ unstored' \in BOOLEAN
  BY <1>0, <1>1 DEF DataOK, StoreOK, store
<1>4. PlacesOK' /\ DataOK' /\ pc'[c] \notin Due
  BY <1>1, <1>2, <1>3, SettledHeld
<1>5. QueueOK'
  BY <1>0, <1>1, <1>2, <1>4, QueueKept DEF Settles, InStore, Due, store
<1> QED
  BY <1>4, <1>5 DEF Held

LEMMA NoticeHeld ==
    ASSUME Held, NEW c \in Clients, Notice(c)
    PROVE  Held'
<1>0. PlacesOK /\ DataOK /\ QueueOK
  BY DEF Held
<1>1. NoticeMoves(c)
  BY <1>0, NoticeEffect
<1>2. PlacesOK'
  BY <1>0, <1>1, Apart, MovedPlaces DEF NoticeMoves
<1>3. QueueOK'
  BY <1>0, <1>1, QueueKept DEF NoticeMoves, store, Due
<1>4. thread' \in Seq(Message)
  BY <1>0, <1>1, Posting DEF NoticeMoves, DataOK
<1>5. DataOK'
  BY <1>0, <1>1, <1>4 DEF NoticeMoves, OnlyMoves, DataOK, StoreOK, store
<1> QED
  BY <1>2, <1>3, <1>5 DEF Held

\* A command, or an !unstick, begins.
LEMMA CommandsHeld ==
    ASSUME Held,
           \/ \E u \in Unsticks : Unstick(u)
           \/ \E c \in Commands : ThinkingEffort(c)
    PROVE  Held'
<1>0. PlacesOK /\ DataOK /\ QueueOK
  BY DEF Held
<1>1. PICK c \in Unsticks \union Commands, place \in {"clear", "set"} :
          /\ Goto(c, place) /\ pc[c] = "idle" /\ place = (IF c \in Unsticks THEN "clear" ELSE "set")
          /\ UNCHANGED <<job, thread, store, map, brokeOff, unstored>> /\ mixed' \in BOOLEAN
  BY <1>0, Apart DEF Unstick, ThinkingEffort, discord, history, DataOK
<1>2. c \in Clients
  BY Apart
<1>3. OnlyMoves(c) /\ pc'[c] = place
  BY <1>0, <1>1, <1>2, GotoMoves DEF Places, InStore
<1>4. PlacesOK'
  BY <1>0, <1>1, <1>2, <1>3, Apart, MovedPlaces
<1>5. QueueOK'
  BY <1>0, <1>1, <1>2, <1>3, QueueKept DEF store, Due
<1>6. DataOK'
  BY <1>0, <1>1 DEF DataOK, StoreOK, store
<1> QED
  BY <1>4, <1>5, <1>6 DEF Held

LEMMA CrashHeld ==
    ASSUME Held, Crash
    PROVE  Held'
<1>0. PlacesOK /\ DataOK /\ QueueOK
  BY DEF Held
<1>1. /\ pc' = [c \in Clients |-> IF pc[c] = "idle" THEN "idle" ELSE "done"]
      /\ job' = job /\ queue' = << >> /\ mixed' = mixed
      /\ brokeOff' = (brokeOff \/ AtWork # {})
      /\ db' \in {db, draft} /\ draft' = db'
  BY DEF Crash
<1>2. PlacesOK'
  BY <1>1, Apart DEF PlacesOK, Places, InStore, Sending
<1>3. QueueOK'
  <2>1. << >> \in Seq(Clients) /\ Len(<< >>) = 0 /\ \A c \in Clients : pc'[c] \notin Due
    BY <1>1 DEF Due
  <2> QED
    BY <1>1, <2>1 DEF QueueOK
<1>4. (map' = db'.effort /\ unstored' = unstored) \/ (map' = Unset /\ unstored' = TRUE)
  BY DEF Crash
<1>5. db' \in Store
  BY <1>0, <1>1 DEF DataOK, StoreOK
<1>6. map' \in Tiers /\ unstored' \in BOOLEAN
  BY <1>0, <1>4, <1>5 DEF DataOK, Store, Tiers
<1>7. thread' = thread \/ \E t \in Turns : Arrives(t, FALSE)
  BY DEF Crash
<1>8. thread' \in Seq(Message)
  BY <1>0, <1>7, Posting DEF Arrives, DataOK
<1>9. DataOK'
  BY <1>0, <1>1, <1>5, <1>6, <1>8 DEF DataOK, StoreOK
<1> QED
  BY <1>2, <1>3, <1>9 DEF Held

\* The steps by kind; the invariants are proved one kind at a time.
LEMMA StepKinds ==
    ASSUME Next
    PROVE  \/ \E t \in Turns : TurnStep(t)
           \/ \E c \in Clients : Executes(c)
           \/ \E c \in Clients : Commits(c) \/ CommitFails(c)
           \/ \E c \in Clients : StatementFails(c)
           \/ \E c \in Clients : Notice(c)
           \/ (\E u \in Unsticks : Unstick(u)) \/ (\E c \in Commands : ThinkingEffort(c))
           \/ Crash
           \/ UNCHANGED vars
BY DEF Next, TurnStep, Done

LEMMA HeldStep ==
    ASSUME Held, [Next]_vars
    PROVE  Held'
<1>1. ASSUME NEW t \in Turns, TurnStep(t) PROVE Held'
  BY <1>1, TurnStepMoves, TurnHeld DEF Held
<1>2. CASE UNCHANGED vars
  <2>1. UNCHANGED <<pc, job, thread, db, draft, queue, map, mixed, brokeOff, unstored>>
    BY <1>2 DEF vars, discord, store, history
  <2> QED
    BY <2>1 DEF Held, PlacesOK, DataOK, StoreOK, QueueOK
<1> QED
  BY <1>1, <1>2, StepKinds, ExecutesHeld, CommitsHeld, StatementFailsHeld, NoticeHeld,
     CommandsHeld, CrashHeld

LEMMA HeldAlways == Spec => []Held
<1>1. Init => Held
  <2> SUFFICES ASSUME Init PROVE Held
    OBVIOUS
  <2>1. PlacesOK
    BY Apart DEF Init, PlacesOK, Places, InStore, Sending
  <2>2. QueueOK
    BY DEF Init, QueueOK, Due
  <2>3. db \in Store
    <3>1. [t \in Turns |-> 0] \in [Turns -> Nat] /\ Unset \in Tiers
      BY DEF Tiers
    <3> QED
      BY <3>1 DEF Init, Store
  <2>4. job \in [Turns -> Job]
    <3> SUFFICES ASSUME NEW t \in Turns
                 PROVE  [chunk |-> 1, retried |-> FALSE, posted |-> FALSE, key |-> 0,
                         tools |-> t \in Tooled] \in Job
      BY DEF Init
    <3> DEFINE tools == t \in Tooled
    <3>1. tools \in BOOLEAN
      OBVIOUS
    <3> HIDE DEF tools
    <3>2. [chunk |-> 1, retried |-> FALSE, posted |-> FALSE, key |-> 0, tools |-> tools] \in Job
      BY <3>1 DEF Job
    <3> QED
      BY <3>2 DEF tools
  <2>5. thread \in Seq(Message) /\ map \in Tiers
    BY DEF Init, Tiers
  <2>6. /\ draft = db /\ mixed \in BOOLEAN /\ brokeOff \in BOOLEAN /\ unstored \in BOOLEAN
    BY DEF Init
  <2>7. DataOK
    BY <2>3, <2>4, <2>5, <2>6 DEF DataOK, StoreOK
  <2> QED
    BY <2>1, <2>2, <2>7 DEF Held
<1>2. Held /\ [Next]_vars => Held'
  BY HeldStep
<1> QED
  BY <1>1, <1>2, PTL DEF Spec

-----------------------------------------------------------------------------
(* The webhook.  The lock excludes all but one turn from the discovery, and a *)
(* turn that creates has found none.                                          *)

Discovering(t) == pc[t] \in {"list", "create"}

WebhookInv ==
    /\ hooks \in {0, 1}
    /\ \A t \in Turns : pc[t] = "create" => hooks = 0
    /\ \A t, o \in Turns : Discovering(t) /\ Discovering(o) => t = o

LEMMA NobodyEnters ==
    ASSUME WebhookInv, hooks' = hooks,
           \A t \in Turns : pc'[t] = pc[t] \/ pc'[t] \notin {"list", "create"}
    PROVE  WebhookInv'
BY DEF WebhookInv, Discovering

\* The turn that is in the discovery leaves it, with one webhook more or not.
LEMMA DiscovererLeaves ==
    ASSUME WebhookInv, NEW t \in Turns, OnlyMoves(t), Discovering(t),
           pc'[t] \notin {"list", "create"},
           hooks' = hooks \/ (pc[t] = "create" /\ hooks' = hooks + 1)
    PROVE  WebhookInv'
<1>1. \A o \in Turns : o # t => pc'[o] = pc[o] /\ ~Discovering(o)
  BY Apart DEF WebhookInv, OnlyMoves
<1>2. \A o \in Turns : pc'[o] \notin {"list", "create"}
  BY <1>1 DEF Discovering
<1>3. hooks' \in {0, 1}
  BY DEF WebhookInv
<1> QED
  BY <1>2, <1>3 DEF WebhookInv, Discovering

LEMMA WebhookTurn ==
    ASSUME Held, WebhookInv, NEW t \in Turns, TurnStep(t)
    PROVE  WebhookInv'
<1>0. /\ t \in Clients /\ OnlyMoves(t)
      /\ \A o \in Turns : o # t => pc'[o] = pc[o]
  BY TurnStepMoves, Apart DEF Held, TurnMoves, OnlyMoves
<1>1. t \in DOMAIN pc
  BY <1>0 DEF Held, PlacesOK
<1>2. CASE LockTaken(t)
  <2>1. /\ \A o \in Turns : ~Discovering(o)
        /\ pc'[t] \in {"post", "list"} /\ hooks' = hooks
    BY <1>1, <1>2 DEF LockTaken, LockFree, Discovering, Goto, discord
  <2> QED
    BY <1>0, <2>1 DEF WebhookInv, Discovering
<1>3. CASE Listed(t)
  <2>1. pc[t] = "list" /\ hooks' = hooks /\ pc'[t] = (IF hooks > 0 THEN "post" ELSE "create")
    BY <1>1, <1>3 DEF Listed, Goto
  <2>2. pc'[t] = "create" => hooks = 0
    BY <2>1 DEF WebhookInv
  <2> QED
    BY <1>0, <2>1, <2>2 DEF WebhookInv, Discovering
<1>4. CASE Created(t)
  <2>1. pc[t] = "create" /\ pc'[t] = "post" /\ hooks' = hooks + 1
    BY <1>1, <1>4 DEF Created, Goto
  <2> QED
    BY <1>0, <2>1, DiscovererLeaves DEF Discovering
<1>5. CASE CallFails(t)
  <2>1. pc'[t] \notin {"list", "create"}
    BY <1>1, <1>5 DEF CallFails, ChunkFails, Escapes, Advance, Outcome, Send, Goto
  <2>2. CASE Discovering(t)
    <3>1. hooks' = hooks \/ (pc[t] = "create" /\ hooks' = hooks + 1)
      BY <1>5 DEF CallFails
    <3> QED
      BY <1>0, <2>1, <2>2, <3>1, DiscovererLeaves
  <2>3. CASE ~Discovering(t)
    <3>1. hooks' = hooks
      BY <1>5, <2>3 DEF CallFails, Discovering
    <3> QED
      BY <1>0, <2>1, <3>1, NobodyEnters
  <2> QED
    BY <2>2, <2>3
<1>6. CASE Begin(t) \/ Posted(t) \/ Retry(t)
  <2>1. pc'[t] \notin {"list", "create"} /\ hooks' = hooks
    BY <1>1, <1>6 DEF Begin, Posted, Retry, Advance, Outcome, Send, Goto, discord
  <2> QED
    BY <1>0, <2>1, NobodyEnters
<1> QED
  BY <1>2, <1>3, <1>4, <1>5, <1>6 DEF TurnStep

\* No other client comes near the discovery.
LEMMA ClientPlaces ==
    ASSUME Held, NEW c \in Clients,
           Executes(c) \/ Commits(c) \/ CommitFails(c) \/ StatementFails(c) \/ Notice(c)
    PROVE  /\ OnlyMoves(c)
           /\ pc'[c] \notin {"list", "create"}
           /\ pc[c] \notin {"idle", "lock", "list", "create", "sleep"}
           /\ hooks' = hooks
<1>0. PlacesOK /\ DataOK /\ QueueOK
  BY DEF Held
<1>1. CASE Executes(c)
  BY <1>0, <1>1, ExecutesMoves DEF Executes, discord
<1>2. CASE Commits(c) \/ CommitFails(c)
  <2>1. queue # << >> /\ Head(queue) = c /\ hooks' = hooks
    BY <1>2 DEF Commits, CommitFails, discord
  <2>2. pc[c] \in Due
    BY <1>0, <2>1, DueClient
  <2>3. Settles(c)
    BY <1>0, <1>2, <2>2, StoredMoves, RefusedMoves DEF Commits, CommitFails
  <2> QED
    BY <2>1, <2>2, <2>3 DEF Settles, Due
<1>3. CASE StatementFails(c)
  <2>1. Settles(c) /\ pc[c] \in InStore /\ hooks' = hooks
    BY <1>0, <1>3, RefusedMoves DEF StatementFails, discord
  <2> QED
    BY <2>1 DEF Settles, InStore
<1>4. CASE Notice(c)
  BY <1>0, <1>4, NoticeEffect DEF NoticeMoves, Notice
<1> QED
  BY <1>1, <1>2, <1>3, <1>4

\* A command that begins is none of the turns.
LEMMA CommandsMove ==
    ASSUME Held, (\E u \in Unsticks : Unstick(u)) \/ (\E c \in Commands : ThinkingEffort(c))
    PROVE  /\ \A t \in Turns : pc'[t] = pc[t]
           /\ UNCHANGED <<job, hooks, thread, store, map, brokeOff, unstored>>
           /\ mixed = TRUE => mixed' = TRUE
<1>1. PICK c \in Unsticks \union Commands, place \in {"clear", "set"} : Goto(c, place)
  BY DEF Unstick, ThinkingEffort
<1>2. \A t \in Turns : pc'[t] = pc[t]
  BY <1>1, Apart DEF Goto, Held, PlacesOK
<1> QED
  BY <1>2 DEF Unstick, ThinkingEffort, discord, history, Held, DataOK

LEMMA WebhookStep ==
    ASSUME Held, WebhookInv, [Next]_vars
    PROVE  WebhookInv'
<1>1. ASSUME NEW c \in Clients,
             Executes(c) \/ Commits(c) \/ CommitFails(c) \/ StatementFails(c) \/ Notice(c)
      PROVE  WebhookInv'
  BY <1>1, ClientPlaces, NobodyEnters, Apart DEF OnlyMoves
<1>2. CASE (\E u \in Unsticks : Unstick(u)) \/ (\E c \in Commands : ThinkingEffort(c))
  BY <1>2, CommandsMove, NobodyEnters
<1>3. CASE Crash
  <2>1. \A t \in Turns : pc'[t] \notin {"list", "create"}
    BY <1>3, Apart DEF Crash
  <2>2. hooks' \in {0, 1}
    <3>1. hooks' = hooks \/ (\E t \in Turns : pc[t] = "create" /\ hooks' = hooks + 1)
      BY <1>3 DEF Crash
    <3> QED
      BY <3>1 DEF WebhookInv
  <2> QED
    BY <2>1, <2>2 DEF WebhookInv, Discovering
<1>4. CASE UNCHANGED vars
  BY <1>4 DEF vars, discord, WebhookInv, Discovering
<1> QED
  BY <1>1, <1>2, <1>3, <1>4, StepKinds, WebhookTurn

(* A channel never gets a second persona webhook: whatever turns look for one at *)
(* once, whichever call fails or took effect unseen, and however often the       *)
(* bridge forgets it with a crash (persona.py: the discovery lock, and the       *)
(* search by name and user before a webhook is created).                         *)
THEOREM WebhookAlone == Spec => []OneWebhook
<1>1. Init => WebhookInv
  <2>1. ASSUME Init, NEW t \in Turns PROVE pc[t] = "idle"
    BY <2>1, Apart DEF Init
  <2> QED
    BY <2>1 DEF Init, WebhookInv, Discovering
<1>2. Held /\ WebhookInv /\ [Next]_vars => WebhookInv'
  BY WebhookStep
<1>3. WebhookInv => OneWebhook
  BY DEF WebhookInv, OneWebhook
<1> QED
  BY <1>1, <1>2, <1>3, HeldAlways, PTL DEF Spec

-----------------------------------------------------------------------------
(* The rows.                                                                  *)

FirstOf(t, id) ==
    /\ id \in 1..Len(thread)
    /\ thread[id] = [by |-> t, told |-> TRUE]
    /\ \A i \in 1..(id - 1) : thread[i].by = t => thread[i].told = FALSE

Silent(t) == \A i \in 1..Len(thread) : thread[i].by = t => thread[i].told = FALSE

\* A row that is written, or that a turn is about to write, is joined to the turn's
\* first message; until it has one, a turn with tools to record is silent.
RowInv ==
    \A t \in Turns :
      /\ \A id \in Nat : id # 0 /\ (db.row[t] = id \/ draft.row[t] = id) => FirstOf(t, id)
      /\ \A id \in Nat : pc[t] \in {"row", "rowCommit"} /\ job[t].key = id => FirstOf(t, id)
      /\ job[t].tools = TRUE /\ pc[t] \in Sending => Silent(t)

ThreadGrows ==
    \/ thread' = thread
    \/ \E by \in Turns \union Unsticks, noted \in BOOLEAN : Arrives(by, noted)

\* Nothing that t said for good is added.
NotBy(t) ==
    \/ thread' = thread
    \/ \E by \in Turns \union Unsticks, noted \in BOOLEAN :
         Arrives(by, noted) /\ (by = t => noted = FALSE)

LEMMA FirstKept ==
    ASSUME DataOK, ThreadGrows, NEW t \in Turns, NEW id \in Nat, FirstOf(t, id)
    PROVE  FirstOf(t, id)'
<1>1. CASE thread' = thread
  BY <1>1 DEF FirstOf
<1>2. CASE \E by \in Turns \union Unsticks, noted \in BOOLEAN : Arrives(by, noted)
  <2>1. PICK by \in Turns \union Unsticks, noted \in BOOLEAN : Arrives(by, noted)
    BY <1>2
  <2>2. /\ Len(thread') = Len(thread) + 1 /\ Len(thread) \in Nat
        /\ \A i \in 1..Len(thread) : thread'[i] = thread[i]
    BY <2>1, Posting DEF Arrives
  <2> QED
    BY <2>2 DEF FirstOf
<1> QED
  BY <1>1, <1>2 DEF ThreadGrows

LEMMA SilentKept ==
    ASSUME DataOK, NEW t \in Turns, NotBy(t), Silent(t)
    PROVE  Silent(t)'
<1>1. CASE thread' = thread
  BY <1>1 DEF Silent
<1>2. CASE \E by \in Turns \union Unsticks, noted \in BOOLEAN :
             Arrives(by, noted) /\ (by = t => noted = FALSE)
  <2>1. PICK by \in Turns \union Unsticks, noted \in BOOLEAN :
               Arrives(by, noted) /\ (by = t => noted = FALSE)
    BY <1>2
  <2>2. /\ Len(thread') = Len(thread) + 1 /\ Len(thread) \in Nat
        /\ \A i \in 1..Len(thread) : thread'[i] = thread[i]
        /\ thread'[Len(thread) + 1] = [by |-> by, told |-> noted]
    BY <2>1, Posting DEF Arrives
  <2> QED
    BY <2>1, <2>2 DEF Silent
<1> QED
  BY <1>1, <1>2 DEF NotBy

LEMMA SilentSpeaks ==
    ASSUME DataOK, NEW t \in Turns, thread' = Append(thread, [by |-> t, told |-> TRUE]), Silent(t)
    PROVE  \A id \in Nat : id = Len(thread) + 1 => FirstOf(t, id)'
<1>1. /\ Len(thread') = Len(thread) + 1 /\ Len(thread) \in Nat
      /\ \A i \in 1..Len(thread) : thread'[i] = thread[i]
      /\ thread'[Len(thread) + 1] = [by |-> t, told |-> TRUE]
  BY Posting
<1> QED
  BY <1>1 DEF FirstOf, Silent

\* What a step may do to the rows of a turn.
LEMMA RowKept ==
    ASSUME Held, RowInv, ThreadGrows, NEW t \in Turns,
           db'.row[t] \in {db.row[t], draft.row[t]},
           \/ draft'.row[t] \in {db.row[t], draft.row[t]}
           \/ pc[t] = "row" /\ draft'.row[t] = job[t].key,
           pc'[t] \in {"row", "rowCommit"} =>
             \/ pc[t] \in {"row", "rowCommit"} /\ job'[t].key = job[t].key
             \/ \A id \in Nat : job'[t].key = id => FirstOf(t, id)',
           job'[t].tools = TRUE /\ pc'[t] \in Sending =>
             job[t].tools = TRUE /\ pc[t] \in Sending /\ NotBy(t)
    PROVE  /\ \A id \in Nat : id # 0 /\ (db'.row[t] = id \/ draft'.row[t] = id) => FirstOf(t, id)'
           /\ \A id \in Nat : pc'[t] \in {"row", "rowCommit"} /\ job'[t].key = id => FirstOf(t, id)'
           /\ job'[t].tools = TRUE /\ pc'[t] \in Sending => Silent(t)'
<1>0. DataOK
  BY DEF Held
<1>1. \A id \in Nat : FirstOf(t, id) => FirstOf(t, id)'
  BY <1>0, FirstKept
<1>2. \A id \in Nat : id # 0 /\ (db'.row[t] = id \/ draft'.row[t] = id) => FirstOf(t, id)
  BY DEF RowInv
<1>3. \A id \in Nat : pc'[t] \in {"row", "rowCommit"} /\ job'[t].key = id => FirstOf(t, id)'
  BY <1>1 DEF RowInv
<1>4. job'[t].tools = TRUE /\ pc'[t] \in Sending => Silent(t)'
  BY <1>0, SilentKept DEF RowInv
<1> QED
  BY <1>1, <1>2, <1>3, <1>4

LEMMA RowTurn ==
    ASSUME Held, RowInv, NEW t \in Turns, TurnStep(t)
    PROVE  RowInv'
<1>0. Held /\ PlacesOK /\ DataOK /\ TurnMoves(t)
  BY TurnStepMoves DEF Held
<1>1. OnlyMoves(t) /\ db' = db /\ draft' = draft /\ pc[t] \in Sending
  BY <1>0 DEF TurnMoves, store
<1>2. \/ thread' = thread
      \/ Arrives(t, FALSE)
      \/ Arrives(t, TRUE)
  BY <1>0 DEF TurnMoves, Quiet, Speaks, Arrives
<1>3. ThreadGrows /\ \A o \in Turns : o # t => NotBy(o)
  BY <1>2 DEF ThreadGrows, NotBy
<1> SUFFICES ASSUME NEW o \in Turns
             PROVE  /\ \A id \in Nat : id # 0 /\ (db'.row[o] = id \/ draft'.row[o] = id)
                                         => FirstOf(o, id)'
                    /\ \A id \in Nat : pc'[o] \in {"row", "rowCommit"} /\ job'[o].key = id
                                         => FirstOf(o, id)'
                    /\ job'[o].tools = TRUE /\ pc'[o] \in Sending => Silent(o)'
  BY DEF RowInv
<1>4. CASE o # t
  <2>1. pc'[o] = pc[o] /\ job'[o] = job[o]
    BY <1>1, <1>4, Apart DEF OnlyMoves
  <2> QED
    BY <1>0, <1>1, <1>3, <1>4, <2>1, RowKept
<1>5. CASE o = t /\ Quiet(t)
  <2>1. /\ job'[o].tools = job[o].tools /\ pc'[o] \notin {"row", "rowCommit"}
        /\ NotBy(o)
    BY <1>0, <1>5 DEF Quiet, TurnMoves, NotBy, Arrives, Sending
  <2> QED
    BY <1>0, <1>1, <1>3, <1>5, <2>1, RowKept
<1>6. CASE o = t /\ Speaks(t)
  <2>1. CASE job[t].tools = TRUE
    <3>1. Silent(t)
      BY <1>1, <2>1 DEF RowInv
    <3>2. thread' = Append(thread, [by |-> t, told |-> TRUE])
      BY <1>6 DEF Speaks
    <3>3. \A id \in Nat : id = Len(thread) + 1 => FirstOf(t, id)'
      BY <1>0, <3>1, <3>2, SilentSpeaks
    <3>4. pc'[o] = "row" /\ job'[o].key = Len(thread) + 1
      BY <1>6, <2>1 DEF Speaks
    <3> QED
      BY <1>0, <1>1, <1>3, <1>6, <3>3, <3>4, RowKept DEF Sending
  <2>2. CASE job[t].tools = FALSE
    <3>1. pc'[o] \notin {"row", "rowCommit"} /\ job'[o].tools = FALSE
      BY <1>6, <2>2 DEF Speaks
    <3> QED
      BY <1>0, <1>1, <1>3, <1>6, <3>1, RowKept
  <2> QED
    BY <1>6, <2>1, <2>2 DEF Speaks
<1> QED
  BY <1>0, <1>4, <1>5, <1>6 DEF TurnMoves

\* A step that leaves the thread to others: each turn stands still, is settled, or ends.
LEMMA RowQuiet ==
    ASSUME Held, RowInv, ThreadGrows, \A t \in Turns : NotBy(t),
           \A t \in Turns :
             /\ db'.row[t] \in {db.row[t], draft.row[t]}
             /\ \/ draft'.row[t] \in {db.row[t], draft.row[t]}
                \/ pc[t] = "row" /\ draft'.row[t] = job[t].key
             /\ \/ pc'[t] = pc[t] /\ job'[t] = job[t]
                \/ pc[t] = "row" /\ pc'[t] = "rowCommit" /\ job'[t] = job[t]
                \/ pc'[t] \notin {"row", "rowCommit"} /\ job'[t].tools = FALSE
                \/ pc'[t] \in {"owner", "ownerCommit", "notice", "done"}
    PROVE  RowInv'
<1> SUFFICES ASSUME NEW t \in Turns
             PROVE  /\ \A id \in Nat : id # 0 /\ (db'.row[t] = id \/ draft'.row[t] = id)
                                         => FirstOf(t, id)'
                    /\ \A id \in Nat : pc'[t] \in {"row", "rowCommit"} /\ job'[t].key = id
                                         => FirstOf(t, id)'
                    /\ job'[t].tools = TRUE /\ pc'[t] \in Sending => Silent(t)'
  BY DEF RowInv
<1>1. /\ pc'[t] \in {"row", "rowCommit"} =>
             pc[t] \in {"row", "rowCommit"} /\ job'[t].key = job[t].key
      /\ job'[t].tools = TRUE /\ pc'[t] \in Sending =>
             job[t].tools = TRUE /\ pc[t] \in Sending /\ NotBy(t)
  BY DEF Sending
<1> QED
  BY <1>1, RowKept

LEMMA SettlesTurns ==
    ASSUME Held, NEW c \in Clients, Settles(c), pc[c] \in InStore \union Due
    PROVE  \A t \in Turns :
             \/ pc'[t] = pc[t] /\ job'[t] = job[t]
             \/ pc'[t] \notin {"row", "rowCommit"} /\ job'[t].tools = FALSE
             \/ pc'[t] \in {"notice", "done"}
<1> SUFFICES ASSUME NEW t \in Turns
             PROVE  \/ pc'[t] = pc[t] /\ job'[t] = job[t]
                    \/ pc'[t] \notin {"row", "rowCommit"} /\ job'[t].tools = FALSE
                    \/ pc'[t] \in {"notice", "done"}
  OBVIOUS
<1>1. CASE t # c
  BY <1>1, Apart DEF Settles, OnlyMoves
<1>2. CASE t = c
  BY <1>2 DEF Settles
<1> QED
  BY <1>1, <1>2

LEMMA RowClient ==
    ASSUME Held, RowInv, NEW c \in Clients,
           Executes(c) \/ Commits(c) \/ CommitFails(c) \/ StatementFails(c) \/ Notice(c)
    PROVE  RowInv'
<1>0. PlacesOK /\ DataOK /\ QueueOK
  BY DEF Held
<1>1. CASE Executes(c)
  <2>1. thread' = thread /\ db' = db
    BY <1>1 DEF Executes, discord
  <2>2. OnlyMoves(c) /\ job' = job
    BY <1>0, <1>1, ExecutesMoves
  <2>3. \A t \in Turns :
          /\ \/ draft'.row[t] = draft.row[t]
             \/ pc[t] = "row" /\ draft'.row[t] = job[t].key
          /\ \/ pc'[t] = pc[t]
             \/ pc[t] = "row" /\ pc'[t] = "rowCommit"
             \/ pc'[t] \in {"owner", "ownerCommit", "notice", "done"}
    <3> SUFFICES ASSUME NEW t \in Turns
                 PROVE  /\ \/ draft'.row[t] = draft.row[t]
                           \/ pc[t] = "row" /\ draft'.row[t] = job[t].key
                        /\ \/ pc'[t] = pc[t]
                           \/ pc[t] = "row" /\ pc'[t] = "rowCommit"
                           \/ pc'[t] \in {"owner", "ownerCommit", "notice", "done"}
      OBVIOUS
    <3>1. CASE t # c
      BY <1>0, <1>1, <2>2, <3>1, ExecutesMoves, Apart DEF OnlyMoves
    <3>2. CASE t = c
      BY <1>0, <1>1, <3>2, ExecutesMoves, Kinds, Apart
    <3> QED
      BY <3>1, <3>2
  <2>4. ThreadGrows /\ \A t \in Turns : NotBy(t)
    BY <2>1 DEF ThreadGrows, NotBy
  <2> QED
    BY <2>1, <2>2, <2>3, <2>4, RowQuiet
<1>2. CASE Commits(c) \/ CommitFails(c)
  <2>1. /\ queue # << >> /\ Head(queue) = c /\ thread' = thread
        /\ db' \in {db, draft} /\ draft' \in {db, draft}
    BY <1>2 DEF Commits, CommitFails, discord
  <2>2. pc[c] \in Due
    BY <1>0, <2>1, DueClient
  <2>3. Settles(c)
    BY <1>0, <1>2, <2>2, StoredMoves, RefusedMoves DEF Commits, CommitFails
  <2>4. ThreadGrows /\ \A t \in Turns : NotBy(t)
    BY <2>1 DEF ThreadGrows, NotBy
  <2> QED
    BY <2>1, <2>2, <2>3, <2>4, SettlesTurns, RowQuiet
<1>3. CASE StatementFails(c)
  <2>1. Settles(c) /\ pc[c] \in InStore /\ thread' = thread /\ db' = db /\ draft' = draft
    BY <1>0, <1>3, RefusedMoves DEF StatementFails, discord, store
  <2>2. ThreadGrows /\ \A t \in Turns : NotBy(t)
    BY <2>1 DEF ThreadGrows, NotBy
  <2> QED
    BY <2>1, <2>2, SettlesTurns, RowQuiet
<1>4. CASE Notice(c)
  <2>1. NoticeMoves(c)
    BY <1>0, <1>4, NoticeEffect
  <2>2. \/ thread' = thread
        \/ c \in Unsticks /\ Arrives(c, TRUE)
    BY <2>1 DEF NoticeMoves, Arrives
  <2>3. ThreadGrows /\ \A t \in Turns : NotBy(t)
    BY <2>2, Apart DEF ThreadGrows, NotBy
  <2>4. \A t \in Turns : (pc'[t] = pc[t] \/ pc'[t] = "done") /\ job'[t] = job[t]
    BY <2>1, Apart DEF NoticeMoves, OnlyMoves
  <2>5. db' = db /\ draft' = draft
    BY <2>1 DEF NoticeMoves, store
  <2> QED
    BY <2>3, <2>4, <2>5, RowQuiet
<1> QED
  BY <1>1, <1>2, <1>3, <1>4

LEMMA RowCrash ==
    ASSUME Held, RowInv, Crash
    PROVE  RowInv'
<1>1. /\ db' \in {db, draft} /\ draft' \in {db, draft} /\ job' = job
      /\ \A t \in Turns : pc'[t] = pc[t] \/ pc'[t] = "done"
  BY Apart DEF Crash
<1>2. thread' = thread \/ \E t \in Turns : Arrives(t, FALSE)
  BY DEF Crash
<1>3. ThreadGrows /\ \A t \in Turns : NotBy(t)
  BY <1>2 DEF ThreadGrows, NotBy
<1> QED
  BY <1>1, <1>3, RowQuiet

(* The row that replays the tools of a turn is committed under the id of the     *)
(* first message of its reply, or not at all: whatever chunk is lost, sent twice *)
(* or stands unconfirmed, whatever the store refuses or rolls back, and whenever *)
(* the bridge dies (reply_poster.py: the transcript is recorded with the first   *)
(* message that is posted).                                                      *)
THEOREM RowsJoinFirst == Spec => []RowJoinsFirst
<1>1. Init => RowInv
  <2> SUFFICES ASSUME Init, NEW t \in Turns
               PROVE  /\ db.row[t] = 0 /\ draft.row[t] = 0
                      /\ pc[t] = "idle"
                      /\ Silent(t)
    BY DEF RowInv
  <2>1. thread = << >> /\ Len(<< >>) = 0
    BY DEF Init
  <2> QED
    BY <2>1, Apart DEF Init, Silent
<1>2. Held /\ RowInv /\ [Next]_vars => RowInv'
  <2> SUFFICES ASSUME Held, RowInv, [Next]_vars PROVE RowInv'
    OBVIOUS
  <2>1. CASE (\E u \in Unsticks : Unstick(u)) \/ (\E c \in Commands : ThinkingEffort(c))
    <3>1. /\ \A t \in Turns : pc'[t] = pc[t]
          /\ UNCHANGED <<job, thread, db, draft>>
      BY <2>1, CommandsMove DEF store
    <3>2. ThreadGrows /\ \A t \in Turns : NotBy(t)
      BY <3>1 DEF ThreadGrows, NotBy
    <3> QED
      BY <3>1, <3>2, RowQuiet
  <2>2. CASE UNCHANGED vars
    BY <2>2 DEF vars, discord, store, RowInv, FirstOf, Silent
  <2> QED
    BY <2>1, <2>2, StepKinds, RowTurn, RowClient, RowCrash
<1>3. Held /\ RowInv => RowJoinsFirst
  <2> SUFFICES ASSUME Held, RowInv, NEW t \in Turns, db.row[t] # 0
               PROVE  /\ thread[db.row[t]] = [by |-> t, told |-> TRUE]
                      /\ \A i \in 1..(db.row[t] - 1) : thread[i].by = t => ~thread[i].told
    BY DEF RowJoinsFirst
  <2>1. db.row[t] \in Nat
    BY DEF Held, DataOK, StoreOK, Store
  <2>2. PICK id \in Nat : id = db.row[t]
    BY <2>1
  <2>3. FirstOf(t, id)
    BY <2>2 DEF RowInv
  <2> QED
    BY <2>2, <2>3 DEF FirstOf
<1> QED
  BY <1>1, <1>2, <1>3, HeldAlways, PTL DEF Spec

-----------------------------------------------------------------------------
(* The sticky owner.  An owner has spoken, whatever happens; and while no two *)
(* clients of the conversation meet and none breaks off, the owner follows    *)
(* from where the one that is at work stands.                                 *)

Spoke(t) == \E i \in 1..Len(thread) : thread[i] = [by |-> t, told |-> TRUE]

SpokeInv ==
    /\ \A o \in Agents : (db.owner = o \/ draft.owner = o) =>
         \E t \in Turns : Author[t] = o /\ Spoke(t)
    /\ \A t \in Turns :
         (job[t].posted = TRUE \/ pc[t] \in {"row", "rowCommit", "owner", "ownerCommit"})
           => Spoke(t)

\* A chunk of the reply stands in the thread, and the owner is not yet stored.
HasPosted(t) == job[t].posted = TRUE \/ pc[t] \in {"row", "rowCommit", "owner", "ownerCommit"}

TurnOwner(t) ==
    /\ pc[t] # "ownerCommit" => draft.owner = db.owner
    /\ pc[t] = "ownerCommit" => draft.owner = Author[t]
    /\ HasPosted(t) => OwnsByThread(Author[t])
    /\ ~HasPosted(t) => \A o \in Agents \union {Nobody} : db.owner = o => OwnsByThread(o)
    /\ pc[t] = "notice" => job[t].posted = FALSE

UnstickOwner(u) ==
    /\ pc[u] = "clear" => draft.owner = db.owner
    /\ pc[u] = "clearCommit" => draft.owner = Nobody
    /\ pc[u] = "notice" => draft.owner = Nobody /\ db.owner = Nobody

Settled ==
    /\ draft.owner = db.owner
    /\ \A o \in Agents \union {Nobody} : db.owner = o => OwnsByThread(o)

Orderly == mixed = FALSE /\ brokeOff = FALSE

OwnerInv ==
    /\ \A t \in Turns : pc[t] = "idle" => job[t].posted = FALSE
    /\ Orderly =>
         /\ \A c, d \in AtWork : c = d
         /\ AtWork = {} => Settled
         /\ \A t \in Turns : t \in AtWork => TurnOwner(t)
         /\ \A u \in Unsticks : u \in AtWork => UnstickOwner(u)

LEMMA SpokeKept ==
    ASSUME DataOK, ThreadGrows, NEW t \in Turns, Spoke(t)
    PROVE  Spoke(t)'
<1>1. CASE thread' = thread
  BY <1>1 DEF Spoke
<1>2. CASE \E by \in Turns \union Unsticks, noted \in BOOLEAN : Arrives(by, noted)
  <2>1. PICK by \in Turns \union Unsticks, noted \in BOOLEAN : Arrives(by, noted)
    BY <1>2
  <2>2. /\ Len(thread') = Len(thread) + 1 /\ Len(thread) \in Nat
        /\ \A i \in 1..Len(thread) : thread'[i] = thread[i]
    BY <2>1, Posting DEF Arrives
  <2> QED
    BY <2>2 DEF Spoke
<1> QED
  BY <1>1, <1>2 DEF ThreadGrows

LEMMA SpeaksSpoke ==
    ASSUME DataOK, NEW t \in Turns, thread' = Append(thread, [by |-> t, told |-> TRUE])
    PROVE  Spoke(t)'
<1>1. /\ Len(thread') = Len(thread) + 1 /\ Len(thread) \in Nat
      /\ thread'[Len(thread) + 1] = [by |-> t, told |-> TRUE]
  BY Posting
<1> QED
  BY <1>1 DEF Spoke

\* What a step may do to the owners and to what a turn has posted.
LEMMA SpokeGoesOn ==
    ASSUME Held, SpokeInv, ThreadGrows,
           db'.owner \in {db.owner, draft.owner},
           \/ draft'.owner \in {db.owner, draft.owner, Nobody}
           \/ \E t \in Turns : pc[t] = "owner" /\ draft'.owner = Author[t],
           \A t \in Turns :
             job'[t].posted = TRUE \/ pc'[t] \in {"row", "rowCommit", "owner", "ownerCommit"} =>
               \/ job[t].posted = TRUE \/ pc[t] \in {"row", "rowCommit", "owner", "ownerCommit"}
               \/ Spoke(t)'
    PROVE  SpokeInv'
<1>0. DataOK /\ Nobody \notin Agents
  BY DeliveryAssumption DEF Held
<1>1. \A t \in Turns : Spoke(t) => Spoke(t)'
  BY <1>0, SpokeKept
<1>2. \A t \in Turns :
        (job'[t].posted = TRUE \/ pc'[t] \in {"row", "rowCommit", "owner", "ownerCommit"})
          => Spoke(t)'
  BY <1>1 DEF SpokeInv
<1>3. ASSUME NEW o \in Agents, db'.owner = o \/ draft'.owner = o
      PROVE  \E t \in Turns : Author[t] = o /\ Spoke(t)'
  <2>1. CASE db.owner = o \/ draft.owner = o
    BY <1>1, <2>1 DEF SpokeInv
  <2>2. CASE \E t \in Turns : pc[t] = "owner" /\ o = Author[t]
    BY <1>1, <2>2 DEF SpokeInv
  <2> QED
    BY <1>0, <1>3, <2>1, <2>2
<1> QED
  BY <1>2, <1>3 DEF SpokeInv

LEMMA SpokeClient ==
    ASSUME Held, SpokeInv, NEW c \in Clients,
           Executes(c) \/ Commits(c) \/ CommitFails(c) \/ StatementFails(c) \/ Notice(c)
    PROVE  SpokeInv'
<1>0. PlacesOK /\ DataOK /\ QueueOK
  BY DEF Held
<1>1. ASSUME Settles(c), pc[c] \in InStore \union Due
      PROVE  \A t \in Turns :
               (job'[t].posted = TRUE \/ pc'[t] \in {"row", "rowCommit", "owner", "ownerCommit"})
                 => \/ job[t].posted = TRUE
                    \/ pc[t] \in {"row", "rowCommit", "owner", "ownerCommit"}
  BY <1>1, Apart DEF Settles, OnlyMoves
<1>2. CASE Executes(c)
  <2>1. thread' = thread /\ db' = db /\ job' = job
    BY <1>2 DEF Executes, discord
  <2>2. \/ draft'.owner \in {draft.owner, Nobody}
        \/ \E t \in Turns : pc[t] = "owner" /\ draft'.owner = Author[t]
    BY <1>0, <1>2, ExecutesMoves, Kinds
  <2>3. \A t \in Turns : pc'[t] \in {"row", "rowCommit", "owner", "ownerCommit"} =>
          pc[t] \in {"row", "rowCommit", "owner", "ownerCommit"}
    BY <1>0, <1>2, ExecutesMoves, Apart DEF OnlyMoves
  <2> QED
    BY <2>1, <2>2, <2>3, SpokeGoesOn DEF ThreadGrows
<1>3. CASE Commits(c) \/ CommitFails(c)
  <2>1. /\ queue # << >> /\ Head(queue) = c /\ thread' = thread
        /\ db' \in {db, draft} /\ draft' \in {db, draft}
    BY <1>3 DEF Commits, CommitFails, discord
  <2>2. pc[c] \in Due
    BY <1>0, <2>1, DueClient
  <2>3. Settles(c)
    BY <1>0, <1>3, <2>2, StoredMoves, RefusedMoves DEF Commits, CommitFails
  <2> QED
    BY <1>1, <2>1, <2>2, <2>3, SpokeGoesOn DEF ThreadGrows
<1>4. CASE StatementFails(c)
  <2>1. Settles(c) /\ pc[c] \in InStore /\ thread' = thread /\ db' = db /\ draft' = draft
    BY <1>0, <1>4, RefusedMoves DEF StatementFails, discord, store
  <2> QED
    BY <1>1, <2>1, SpokeGoesOn DEF ThreadGrows
<1>5. CASE Notice(c)
  <2>1. NoticeMoves(c)
    BY <1>0, <1>5, NoticeEffect
  <2>2. ThreadGrows
    BY <2>1, Apart DEF NoticeMoves, ThreadGrows, Arrives
  <2>3. \A t \in Turns : (pc'[t] = pc[t] \/ pc'[t] = "done") /\ job'[t] = job[t]
    BY <2>1, Apart DEF NoticeMoves, OnlyMoves
  <2>4. db' = db /\ draft' = draft
    BY <2>1 DEF NoticeMoves, store
  <2> QED
    BY <2>2, <2>3, <2>4, SpokeGoesOn
<1> QED
  BY <1>2, <1>3, <1>4, <1>5

LEMMA SpokeStep ==
    ASSUME Held, SpokeInv, [Next]_vars
    PROVE  SpokeInv'
<1>0. PlacesOK /\ DataOK
  BY DEF Held
<1>1. ASSUME NEW t \in Turns, TurnStep(t)
      PROVE  SpokeInv'
  <2>1. TurnMoves(t)
    BY <1>0, <1>1, TurnStepMoves
  <2>2. OnlyMoves(t) /\ db' = db /\ draft' = draft
    BY <2>1 DEF TurnMoves, store
  <2>3. ThreadGrows
    BY <2>1 DEF TurnMoves, Quiet, Speaks, ThreadGrows, Arrives
  <2>4. (job'[t].posted = TRUE \/ pc'[t] \in {"row", "rowCommit", "owner", "ownerCommit"})
          => job[t].posted = TRUE \/ Spoke(t)'
    BY <1>0, <2>1, SpeaksSpoke DEF TurnMoves, Quiet, Speaks, Sending
  <2>5. \A o \in Turns : o # t => pc'[o] = pc[o] /\ job'[o] = job[o]
    BY <2>2, Apart DEF OnlyMoves
  <2> QED
    BY <2>2, <2>3, <2>4, <2>5, SpokeGoesOn
<1>2. CASE (\E u \in Unsticks : Unstick(u)) \/ (\E c \in Commands : ThinkingEffort(c))
  <2>1. /\ \A t \in Turns : pc'[t] = pc[t]
        /\ UNCHANGED <<job, thread, db, draft>>
    BY <1>2, CommandsMove DEF store
  <2> QED
    BY <2>1, SpokeGoesOn DEF ThreadGrows
<1>3. CASE Crash
  <2>1. /\ db' \in {db, draft} /\ draft' \in {db, draft} /\ job' = job
        /\ \A t \in Turns : pc'[t] \in {"idle", "done"}
    BY <1>3, Apart DEF Crash
  <2>2. ThreadGrows
    BY <1>3 DEF Crash, ThreadGrows
  <2> QED
    BY <2>1, <2>2, SpokeGoesOn
<1>4. CASE UNCHANGED vars
  BY <1>4 DEF vars, discord, store, SpokeInv, Spoke
<1> QED
  BY <1>1, <1>2, <1>3, <1>4, StepKinds, SpokeClient

\* Who spoke last is the owner by the thread; what is unconfirmed does not count.
LEMMA OwnsSpoken ==
    ASSUME DataOK, NEW by \in Turns \union Unsticks, Arrives(by, TRUE),
           NEW o, o = IF by \in Unsticks THEN Nobody ELSE Author[by]
    PROVE  OwnsByThread(o)'
<1>1. /\ thread' \in Seq(Message)
      /\ Len(thread') = Len(thread) + 1 /\ Len(thread) \in Nat
      /\ thread'[Len(thread) + 1] = [by |-> by, told |-> TRUE]
  BY Posting DEF Arrives
<1>2. Len(thread) + 1 \in Told' /\ \A i \in Told' : i <= Len(thread) + 1
  BY <1>1 DEF Told
<1>3. ASSUME NEW last \in Told', \A i \in Told' : i <= last
      PROVE  last = Len(thread) + 1
  <2>1. last \in Nat
    BY <1>1 DEF Told
  <2> QED
    BY <1>1, <1>2, <1>3, <2>1
<1> QED
  BY <1>1, <1>2, <1>3 DEF OwnsByThread

LEMMA OwnsUntold ==
    ASSUME DataOK, NEW by \in Turns \union Unsticks, Arrives(by, FALSE), NEW o, OwnsByThread(o)
    PROVE  OwnsByThread(o)'
<1>1. /\ thread \in Seq(Message) /\ thread' \in Seq(Message)
      /\ Len(thread') = Len(thread) + 1 /\ Len(thread) \in Nat
      /\ \A i \in 1..Len(thread) : thread'[i] = thread[i]
      /\ thread'[Len(thread) + 1] = [by |-> by, told |-> FALSE]
  BY Posting DEF Arrives, DataOK
<1>2. \A i : i \in Told' <=> i \in Told
  <2>1. ~thread'[Len(thread) + 1].told
    BY <1>1
  <2> QED
    BY <1>1, <2>1 DEF Told
<1>3. \A i \in Told : thread'[i] = thread[i]
  BY <1>1 DEF Told
<1>4. Told' = Told
  BY <1>2
<1> QED
  BY <1>3, <1>4 DEF OwnsByThread

LEMMA OwnsStands ==
    ASSUME thread' = thread
    PROVE  \A o : OwnsByThread(o) <=> OwnsByThread(o)'
BY DEF OwnsByThread, Told

\* Only c of the conversation is at work after the step, if it was the only one that
\* could be before.
LEMMA AloneAtWork ==
    ASSUME Held, NEW c \in Turns \union Unsticks, OnlyMoves(c), AtWork \subseteq {c}
    PROVE  /\ AtWork' \subseteq {c}
           /\ \A d \in AtWork' : d = c
           /\ pc'[c] \in {"idle", "done"} => AtWork' = {}
           /\ pc'[c] \notin {"idle", "done"} => AtWork' = {c}
BY Apart DEF AtWork, OnlyMoves

\* The invariant from where the one client at work stands.
LEMMA TurnOwnerInv ==
    ASSUME Held, OwnerInv, NEW t \in Turns, OnlyMoves(t), pc'[t] # "idle",
           Orderly' => /\ AtWork \subseteq {t}
                       /\ pc'[t] = "done" => Settled'
                       /\ pc'[t] # "done" => TurnOwner(t)'
    PROVE  OwnerInv'
<1>1. \A o \in Turns : pc'[o] = "idle" => job'[o].posted = FALSE
  BY Apart DEF OwnerInv, OnlyMoves
<1>2. ASSUME Orderly'
      PROVE  /\ \A c, d \in AtWork' : c = d
             /\ AtWork' = {} => Settled'
             /\ \A o \in Turns : o \in AtWork' => TurnOwner(o)'
             /\ \A u \in Unsticks : u \in AtWork' => UnstickOwner(u)'
  <2>1. /\ \A d \in AtWork' : d = t
        /\ pc'[t] = "done" => AtWork' = {}
        /\ pc'[t] # "done" => AtWork' = {t}
    BY <1>2, AloneAtWork
  <2> QED
    BY <1>2, <2>1, Apart
<1> QED
  BY <1>1, <1>2 DEF OwnerInv

LEMMA UnstickOwnerInv ==
    ASSUME Held, OwnerInv, NEW u \in Unsticks, OnlyMoves(u), pc'[u] # "idle",
           Orderly' => /\ AtWork \subseteq {u}
                       /\ pc'[u] = "done" => Settled'
                       /\ pc'[u] # "done" => UnstickOwner(u)'
    PROVE  OwnerInv'
<1>1. \A o \in Turns : pc'[o] = "idle" => job'[o].posted = FALSE
  BY Apart DEF OwnerInv, OnlyMoves
<1>2. ASSUME Orderly'
      PROVE  /\ \A c, d \in AtWork' : c = d
             /\ AtWork' = {} => Settled'
             /\ \A o \in Turns : o \in AtWork' => TurnOwner(o)'
             /\ \A v \in Unsticks : v \in AtWork' => UnstickOwner(v)'
  <2>1. /\ \A d \in AtWork' : d = u
        /\ pc'[u] = "done" => AtWork' = {}
        /\ pc'[u] # "done" => AtWork' = {u}
    BY <1>2, AloneAtWork
  <2> QED
    BY <1>2, <2>1, Apart
<1> QED
  BY <1>1, <1>2 DEF OwnerInv

\* A command of the override is none of the conversation's; it may commit what another's
\* statement did, or take it back when none of those was about the owner.
LEMMA OthersOwner ==
    ASSUME Held, OwnerInv, \A c \in Turns \union Unsticks : pc'[c] = pc[c],
           \A t \in Turns : job'[t] = job[t], thread' = thread,
           Orderly' =>
             /\ Orderly
             /\ \/ UNCHANGED <<db, draft>>
                \/ db' = draft /\ draft' = draft
                \/ /\ db' = db /\ draft' \in {draft, db}
                   /\ \A c \in AtWork : pc[c] \notin {"ownerCommit", "clearCommit"}
    PROVE  OwnerInv'
<1>1. AtWork' = AtWork
  BY DEF AtWork
<1>2. \A o : OwnsByThread(o) <=> OwnsByThread(o)'
  BY OwnsStands
<1>3. \A t \in Turns : pc'[t] = "idle" => job'[t].posted = FALSE
  BY DEF OwnerInv
<1>4. ASSUME Orderly'
      PROVE  /\ \A c, d \in AtWork' : c = d
             /\ AtWork' = {} => Settled'
             /\ \A t \in Turns : t \in AtWork' => TurnOwner(t)'
             /\ \A u \in Unsticks : u \in AtWork' => UnstickOwner(u)'
  <2>1. Orderly
    BY <1>4
  <2>2. \A c, d \in AtWork' : c = d
    BY <1>1, <2>1 DEF OwnerInv
  <2>3. AtWork' = {} => Settled'
    BY <1>1, <1>2, <1>4, <2>1 DEF OwnerInv, Settled
  <2>4. ASSUME NEW t \in Turns, t \in AtWork' PROVE TurnOwner(t)'
    <3>1. TurnOwner(t) /\ pc'[t] = pc[t] /\ job'[t] = job[t] /\ t \in AtWork
      BY <1>1, <2>1, <2>4 DEF OwnerInv
    <3>2. HasPosted(t)' <=> HasPosted(t)
      BY <3>1 DEF HasPosted
    <3>3. CASE pc[t] = "ownerCommit"
      <4>1. HasPosted(t) /\ draft'.owner = draft.owner
        BY <1>4, <3>1, <3>3 DEF HasPosted
      <4> QED
        BY <1>2, <3>1, <3>2, <3>3, <4>1 DEF TurnOwner
    <3>4. CASE pc[t] # "ownerCommit"
      <4>1. draft.owner = db.owner /\ draft'.owner = db.owner /\ db'.owner = db.owner
        BY <1>4, <3>1, <3>4 DEF TurnOwner
      <4> QED
        BY <1>2, <3>1, <3>2, <3>4, <4>1 DEF TurnOwner
    <3> QED
      BY <3>3, <3>4
  <2>5. ASSUME NEW u \in Unsticks, u \in AtWork' PROVE UnstickOwner(u)'
    <3>1. UnstickOwner(u) /\ pc'[u] = pc[u] /\ u \in AtWork
      BY <1>1, <2>1, <2>5 DEF OwnerInv
    <3> QED
      BY <1>4, <3>1 DEF UnstickOwner
  <2> QED
    BY <2>2, <2>3, <2>4, <2>5
<1> QED
  BY <1>3, <1>4 DEF OwnerInv

\* The one client at work before a step of its own.
LEMMA OnlyWorker ==
    ASSUME OwnerInv, Orderly, NEW c \in Turns \union Unsticks, pc[c] \notin {"idle", "done"}
    PROVE  /\ AtWork = {c}
           /\ c \in Turns => TurnOwner(c)
           /\ c \in Unsticks => UnstickOwner(c)
<1>1. c \in AtWork
  BY DEF AtWork
<1> QED
  BY <1>1 DEF OwnerInv

LEMMA OwnerTurn ==
    ASSUME Held, OwnerInv, NEW t \in Turns, TurnStep(t)
    PROVE  OwnerInv'
<1>0. PlacesOK /\ DataOK /\ TurnMoves(t)
  BY TurnStepMoves DEF Held
<1>1. /\ OnlyMoves(t) /\ db' = db /\ draft' = draft /\ pc[t] \in Sending
      /\ pc'[t] \in (Sending \ {"idle"}) \union {"row", "owner", "notice", "done"}
      /\ mixed \in BOOLEAN /\ brokeOff \in BOOLEAN
  BY <1>0 DEF TurnMoves, store, DataOK
<1>2. Orderly' => Orderly
  BY <1>0, <1>1 DEF TurnMoves, Orderly
<1>3. ASSUME Orderly'
      PROVE  /\ AtWork \subseteq {t}
             /\ pc'[t] = "done" => Settled'
             /\ pc'[t] # "done" => TurnOwner(t)'
  \* Before the step: nothing of the reply stands, or all that does is this turn's.
  <2>1. /\ AtWork \subseteq {t} /\ draft.owner = db.owner
        /\ job[t].posted = TRUE => OwnsByThread(Author[t])
        /\ job[t].posted # TRUE => \A o \in Agents \union {Nobody} : db.owner = o => OwnsByThread(o)
    <3>1. CASE pc[t] = "idle"
      <4>1. BeginsAlone
        BY <1>0, <3>1 DEF TurnMoves
      <4>2. AtWork = {} /\ Settled /\ job[t].posted = FALSE
        BY <1>2, <1>3, <3>1, <4>1 DEF BeginsAlone, Orderly, OwnerInv
      <4> QED
        BY <4>2 DEF Settled
    <3>2. CASE pc[t] # "idle"
      <4>1. AtWork = {t} /\ TurnOwner(t)
        BY <1>1, <1>2, <1>3, <3>2, OnlyWorker DEF Sending
      <4> QED
        BY <1>1, <4>1 DEF TurnOwner, HasPosted, Sending
    <3> QED
      BY <3>1, <3>2
  <2>2. CASE Quiet(t)
    <3>1. \A o : OwnsByThread(o) => OwnsByThread(o)'
      BY <1>0, <2>2, OwnsUntold, OwnsStands DEF Quiet, Arrives
    <3>2. CASE pc'[t] = "done"
      <4>1. pc[t] = "idle" /\ job[t].posted = FALSE
        BY <2>2, <3>2 DEF Quiet, OwnerInv
      <4> QED
        BY <1>1, <2>1, <3>1, <3>2, <4>1 DEF Settled
    <3>3. CASE pc'[t] # "done"
      <4>1. /\ job'[t].posted = job[t].posted
            /\ pc'[t] = "owner" => job[t].posted = TRUE
            /\ pc'[t] = "notice" => job[t].posted = FALSE
            /\ pc'[t] \notin {"row", "rowCommit", "ownerCommit"}
        BY <1>1, <1>3, <2>2 DEF Quiet, Orderly, Sending
      <4>2. HasPosted(t)' <=> job[t].posted = TRUE
        BY <4>1 DEF HasPosted
      <4> QED
        BY <1>1, <2>1, <3>1, <3>3, <4>1, <4>2 DEF TurnOwner
    <3> QED
      BY <2>1, <3>2, <3>3
  <2>3. CASE Speaks(t)
    <3>1. Arrives(t, TRUE)
      BY <2>3 DEF Speaks, Arrives
    <3>2. Author[t] = IF t \in Unsticks THEN Nobody ELSE Author[t]
      BY Apart
    <3>3. \A o : o = Author[t] => OwnsByThread(o)'
      BY <1>0, <3>1, <3>2, OwnsSpoken
    <3>4. HasPosted(t)' /\ pc'[t] \in {"row", "post", "lock", "owner"}
      BY <2>3 DEF Speaks, HasPosted
    <3>5. OwnsByThread(Author[t])'
      BY <3>3
    <3> QED
      BY <1>1, <2>1, <3>4, <3>5 DEF TurnOwner
  <2> QED
    BY <1>0, <2>2, <2>3 DEF TurnMoves
<1>4. pc'[t] # "idle"
  BY <1>1 DEF Sending
<1> QED
  BY <1>1, <1>3, <1>4, TurnOwnerInv

LEMMA OwnerExecutes ==
    ASSUME Held, OwnerInv, NEW c \in Clients, Executes(c)
    PROVE  OwnerInv'
<1>0. PlacesOK /\ DataOK
  BY DEF Held
<1>1. /\ OnlyMoves(c) /\ job' = job /\ thread' = thread /\ db' = db
      /\ (Orderly' <=> Orderly)
  BY <1>0, ExecutesMoves DEF Executes, discord, history, Orderly
<1>2. \A o : OwnsByThread(o) <=> OwnsByThread(o)'
  BY <1>1, OwnsStands
<1>3. CASE pc[c] = "row" /\ pc'[c] = "rowCommit" /\ draft'.owner = draft.owner
  <2>1. c \in Turns
    BY <1>0, <1>3, Kinds
  <2>2. ASSUME Orderly' PROVE AtWork = {c} /\ TurnOwner(c)'
    <3>1. AtWork = {c} /\ TurnOwner(c)
      BY <1>1, <1>3, <2>1, <2>2, OnlyWorker
    <3>2. HasPosted(c) /\ HasPosted(c)'
      BY <1>3 DEF HasPosted
    <3> QED
      BY <1>1, <1>2, <1>3, <3>1, <3>2 DEF TurnOwner
  <2> QED
    BY <1>1, <1>3, <2>1, <2>2, TurnOwnerInv
<1>4. CASE pc[c] = "owner" /\ pc'[c] = "ownerCommit" /\ draft'.owner = Author[c]
  <2>1. c \in Turns
    BY <1>0, <1>4, Kinds
  <2>2. ASSUME Orderly' PROVE AtWork = {c} /\ TurnOwner(c)'
    <3>1. AtWork = {c} /\ TurnOwner(c)
      BY <1>1, <1>4, <2>1, <2>2, OnlyWorker
    <3>2. HasPosted(c) /\ HasPosted(c)'
      BY <1>4 DEF HasPosted
    <3> QED
      BY <1>1, <1>2, <1>4, <3>1, <3>2 DEF TurnOwner
  <2> QED
    BY <1>1, <1>4, <2>1, <2>2, TurnOwnerInv
<1>5. CASE pc[c] = "clear" /\ pc'[c] = "clearCommit" /\ draft'.owner = Nobody
  <2>1. c \in Unsticks
    BY <1>0, <1>5, Kinds
  <2>2. ASSUME Orderly' PROVE AtWork = {c} /\ UnstickOwner(c)'
    <3>1. AtWork = {c}
      BY <1>1, <1>5, <2>1, <2>2, OnlyWorker
    <3> QED
      BY <1>5, <3>1 DEF UnstickOwner
  <2> QED
    BY <1>1, <1>5, <2>1, <2>2, UnstickOwnerInv
<1>6. CASE pc[c] = "set" /\ draft'.owner = draft.owner
  <2>1. c \in Commands
    BY <1>0, <1>6, Kinds
  <2>2. \A d \in Turns \union Unsticks : pc'[d] = pc[d]
    BY <1>1, <2>1, Apart DEF OnlyMoves
  <2>3. AtWork' = AtWork
    BY <2>2 DEF AtWork
  <2> QED
    BY <1>1, <1>2, <1>6, <2>2, <2>3
    DEF OwnerInv, Settled, TurnOwner, UnstickOwner, HasPosted
<1> QED
  BY <1>0, <1>3, <1>4, <1>5, <1>6, ExecutesMoves

\* A row is over, its reply stands.
LEMMA OwnerRowOver ==
    ASSUME Held, OwnerInv, NEW c \in Clients, pc[c] \in {"row", "rowCommit"}, Settles(c),
           thread' = thread, Orderly' => Orderly,
           db'.owner \in {db.owner, draft.owner}, draft'.owner \in {db.owner, draft.owner}
    PROVE  OwnerInv'
<1>0. c \in Turns
  BY Kinds DEF Held
<1>1. /\ OnlyMoves(c) /\ pc'[c] \in {"post", "lock", "owner"}
      /\ job'[c].posted = TRUE
  BY DEF Settles
<1>2. ASSUME Orderly' PROVE AtWork = {c} /\ TurnOwner(c)'
  <2>1. AtWork = {c} /\ TurnOwner(c)
    BY <1>0, <1>2, OnlyWorker
  <2>2. HasPosted(c) /\ HasPosted(c)'
    BY <1>1 DEF HasPosted
  <2>3. \A o : OwnsByThread(o) <=> OwnsByThread(o)'
    BY OwnsStands
  <2> QED
    BY <1>1, <2>1, <2>2, <2>3 DEF TurnOwner
<1> QED
  BY <1>0, <1>1, <1>2, TurnOwnerInv

\* A command of the override is over.
LEMMA OwnerSetOver ==
    ASSUME Held, OwnerInv, NEW c \in Clients, pc[c] \in {"set", "setCommit"}, Settles(c),
           thread' = thread,
           Orderly' =>
             /\ Orderly
             /\ \/ UNCHANGED <<db, draft>>
                \/ db' = draft /\ draft' = draft
                \/ /\ db' = db /\ draft' \in {draft, db}
                   /\ \A d \in AtWork : pc[d] \notin {"ownerCommit", "clearCommit"}
    PROVE  OwnerInv'
<1>0. c \in Commands
  BY Kinds DEF Held
<1>1. OnlyMoves(c) /\ job' = job
  BY DEF Settles
<1>2. \A d \in Turns \union Unsticks : pc'[d] = pc[d]
  BY <1>0, <1>1, Apart DEF OnlyMoves
<1> QED
  BY <1>1, <1>2, OthersOwner

LEMMA OwnerCommits ==
    ASSUME Held, OwnerInv, NEW c \in Clients, Commits(c)
    PROVE  OwnerInv'
<1>0. PlacesOK /\ DataOK /\ QueueOK
  BY DEF Held
<1>1. /\ queue # << >> /\ Head(queue) = c /\ thread' = thread
      /\ db' = draft /\ draft' = draft /\ Stored(c)
      /\ (Orderly' <=> Orderly)
  BY DEF Commits, discord, history, Orderly
<1>2. pc[c] \in Due
  BY <1>0, <1>1, DueClient
<1>3. /\ Settles(c) /\ OnlyMoves(c)
      /\ pc[c] \in {"ownerCommit", "setCommit"} => pc'[c] = "done"
      /\ pc[c] = "clearCommit" => pc'[c] = "notice"
  BY <1>0, <1>1, <1>2, StoredMoves DEF Settles
<1>4. \A o : OwnsByThread(o) <=> OwnsByThread(o)'
  BY <1>1, OwnsStands
<1>5. CASE pc[c] = "rowCommit"
  BY <1>1, <1>3, <1>5, OwnerRowOver
<1>6. CASE pc[c] = "setCommit"
  BY <1>1, <1>3, <1>6, OwnerSetOver
<1>7. CASE pc[c] = "ownerCommit"
  <2>1. c \in Turns
    BY <1>0, <1>7, Kinds
  <2>2. ASSUME Orderly' PROVE AtWork = {c} /\ Settled'
    <3>1. AtWork = {c} /\ TurnOwner(c)
      BY <1>1, <1>7, <2>1, <2>2, OnlyWorker
    <3>2. HasPosted(c)
      BY <1>7 DEF HasPosted
    <3>3. draft.owner = Author[c] /\ OwnsByThread(Author[c])
      BY <1>7, <3>1, <3>2 DEF TurnOwner
    <3>4. \A o : o = Author[c] => OwnsByThread(o)'
      BY <1>4, <3>3
    <3> QED
      BY <1>1, <3>1, <3>3, <3>4 DEF Settled
  <2> QED
    BY <1>3, <1>7, <2>1, <2>2, TurnOwnerInv
<1>8. CASE pc[c] = "clearCommit"
  <2>1. c \in Unsticks
    BY <1>0, <1>8, Kinds
  <2>2. ASSUME Orderly' PROVE AtWork = {c} /\ UnstickOwner(c)'
    <3>1. AtWork = {c} /\ UnstickOwner(c)
      BY <1>1, <1>8, <2>1, <2>2, OnlyWorker
    <3> QED
      BY <1>1, <1>3, <1>8, <3>1 DEF UnstickOwner
  <2> QED
    BY <1>3, <1>8, <2>1, <2>2, UnstickOwnerInv
<1> QED
  BY <1>2, <1>5, <1>6, <1>7, <1>8 DEF Due

\* A failure that is not charged to the history met a row or an override.
LEMMA OwnerRefused ==
    ASSUME Held, OwnerInv, NEW c \in Clients, pc[c] \in InStore \union Due, Refused(c),
           thread' = thread, mixed' = mixed, brokeOff \in BOOLEAN,
           brokeOff' = FALSE =>
             brokeOff = FALSE /\ pc[c] \notin OwnerChanges,
           brokeOff' = FALSE =>
             \/ UNCHANGED <<db, draft>>
             \/ /\ db' = db /\ draft' \in {draft, db}
                /\ \A d \in AtWork : pc[d] \notin {"ownerCommit", "clearCommit"},
           db' = db, draft' \in {draft, db}
    PROVE  OwnerInv'
<1>0. PlacesOK /\ DataOK
  BY DEF Held
<1>1. Settles(c) /\ OnlyMoves(c)
  BY <1>0, RefusedMoves DEF Settles
<1>2. Orderly' => Orderly /\ pc[c] \notin OwnerChanges
  BY DEF Orderly
<1>3. CASE pc[c] \in {"row", "rowCommit"}
  BY <1>1, <1>2, <1>3, OwnerRowOver
<1>4. CASE pc[c] \in {"set", "setCommit"}
  BY <1>1, <1>2, <1>4, OwnerSetOver DEF Orderly
<1>5. CASE pc[c] \in OwnerChanges
  <2>1. ~Orderly'
    BY <1>2, <1>5
  <2>2. \A t \in Turns : pc'[t] = "idle" => job'[t].posted = FALSE
    BY <1>1, <1>5, Apart DEF Settles, OnlyMoves, OwnerInv, OwnerChanges
  <2> QED
    BY <2>1, <2>2 DEF OwnerInv
<1> QED
  BY <1>3, <1>4, <1>5 DEF InStore, Due, OwnerChanges

LEMMA OwnerCommitFails ==
    ASSUME Held, OwnerInv, NEW c \in Clients, CommitFails(c)
    PROVE  OwnerInv'
<1>0. PlacesOK /\ DataOK /\ QueueOK
  BY DEF Held
<1>1. /\ queue # << >> /\ Head(queue) = c /\ thread' = thread /\ mixed' = mixed
      /\ db' = db /\ draft' \in {draft, db} /\ Refused(c)
      /\ brokeOff \in BOOLEAN
      /\ brokeOff' = (brokeOff \/ \E o \in Range(queue) : pc[o] \in OwnerChanges)
  BY <1>0 DEF CommitFails, discord, DataOK
<1>2. pc[c] \in Due
  BY <1>0, <1>1, DueClient
<1>3. ASSUME brokeOff' = FALSE
      PROVE  /\ brokeOff = FALSE
             /\ \A d \in Clients : pc[d] \in Due => pc[d] \notin OwnerChanges
  <2>1. brokeOff = FALSE /\ \A o \in Range(queue) : pc[o] \notin OwnerChanges
    BY <1>1, <1>3
  <2>2. ASSUME NEW d \in Clients, pc[d] \in Due PROVE d \in Range(queue)
    <3>1. PICK i \in 1..Len(queue) : queue[i] = d
      BY <1>0, <2>2 DEF QueueOK
    <3>2. i \in DOMAIN queue
      BY <1>0, <3>1 DEF QueueOK
    <3> QED
      BY <3>1, <3>2 DEF Range
  <2> QED
    BY <2>1, <2>2
<1>4. brokeOff' = FALSE => \A d \in AtWork : pc[d] \notin {"ownerCommit", "clearCommit"}
  BY <1>3, Apart DEF AtWork, Due, OwnerChanges
<1> QED
  BY <1>0, <1>1, <1>2, <1>3, <1>4, OwnerRefused

LEMMA OwnerStatementFails ==
    ASSUME Held, OwnerInv, NEW c \in Clients, StatementFails(c)
    PROVE  OwnerInv'
<1>1. /\ pc[c] \in InStore /\ thread' = thread /\ mixed' = mixed
      /\ db' = db /\ draft' = draft /\ Refused(c)
      /\ brokeOff \in BOOLEAN
      /\ brokeOff' = (brokeOff \/ pc[c] \in OwnerChanges)
  BY DEF StatementFails, discord, store, Held, DataOK
<1> QED
  BY <1>1, OwnerRefused

LEMMA OwnerNotice ==
    ASSUME Held, OwnerInv, NEW c \in Clients, Notice(c)
    PROVE  OwnerInv'
<1>0. PlacesOK /\ DataOK /\ NoticeMoves(c)
  BY NoticeEffect DEF Held
<1>1. /\ OnlyMoves(c) /\ pc[c] = "notice" /\ pc'[c] = "done" /\ c \in Turns \union Unsticks
      /\ db' = db /\ draft' = draft /\ mixed' = mixed
  BY <1>0 DEF NoticeMoves, store
<1>2. ASSUME Orderly'
      PROVE  /\ Orderly
             /\ IF c \in Unsticks THEN Arrives(c, TRUE) ELSE thread' = thread
  BY <1>0, <1>1, <1>2 DEF Orderly, NoticeMoves, Arrives
<1>3. CASE c \in Turns
  <2>1. ASSUME Orderly' PROVE AtWork = {c} /\ Settled'
    <3>1. AtWork = {c} /\ TurnOwner(c) /\ Orderly /\ thread' = thread
      BY <1>1, <1>2, <1>3, <2>1, Apart, OnlyWorker
    <3>2. ~HasPosted(c) /\ draft.owner = db.owner
      BY <1>1, <3>1 DEF TurnOwner, HasPosted
    <3>3. \A o : OwnsByThread(o) <=> OwnsByThread(o)'
      BY <3>1, OwnsStands
    <3> QED
      BY <1>1, <3>1, <3>2, <3>3 DEF TurnOwner, Settled
  <2> QED
    BY <1>1, <1>3, <2>1, TurnOwnerInv
<1>4. CASE c \in Unsticks
  <2>1. ASSUME Orderly' PROVE AtWork = {c} /\ Settled'
    <3>1. AtWork = {c} /\ UnstickOwner(c) /\ Arrives(c, TRUE)
      BY <1>1, <1>2, <1>4, <2>1, OnlyWorker
    <3>2. draft.owner = Nobody /\ db.owner = Nobody
      BY <1>1, <3>1 DEF UnstickOwner
    <3>3. \A o : o = Nobody => OwnsByThread(o)'
      BY <1>0, <1>4, <3>1, OwnsSpoken
    <3> QED
      BY <1>1, <3>1, <3>2, <3>3 DEF Settled
  <2> QED
    BY <1>1, <1>4, <2>1, UnstickOwnerInv
<1> QED
  BY <1>1, <1>3, <1>4

LEMMA OwnerCommands ==
    ASSUME Held, OwnerInv,
           \/ \E u \in Unsticks : Unstick(u)
           \/ \E c \in Commands : ThinkingEffort(c)
    PROVE  OwnerInv'
<1>0. /\ PlacesOK /\ DataOK /\ mixed \in BOOLEAN
      /\ job' = job /\ thread' = thread /\ db' = db /\ draft' = draft /\ brokeOff' = brokeOff
  BY CommandsMove DEF Held, DataOK, store
<1>1. ASSUME NEW u \in Unsticks, Unstick(u) PROVE OwnerInv'
  <2>1. OnlyMoves(u) /\ pc'[u] = "clear" /\ pc[u] = "idle"
    BY <1>0, <1>1, GotoMoves, Apart DEF Unstick, Places, InStore
  <2>2. ASSUME Orderly' PROVE AtWork = {} /\ Settled
    <3>1. Orderly /\ AtWork = {}
      BY <1>0, <1>1, <2>2 DEF Unstick, Orderly
    <3> QED
      BY <3>1 DEF OwnerInv
  <2>3. Orderly' => UnstickOwner(u)'
    BY <1>0, <2>1, <2>2 DEF Settled, UnstickOwner
  <2> QED
    BY <2>1, <2>2, <2>3, UnstickOwnerInv
<1>2. ASSUME NEW c \in Commands, ThinkingEffort(c) PROVE OwnerInv'
  <2>1. \A d \in Turns \union Unsticks : pc'[d] = pc[d]
    BY <1>0, <1>2, Apart DEF ThinkingEffort, Goto, PlacesOK
  <2>2. Orderly' => Orderly
    BY <1>2 DEF ThinkingEffort, history, Orderly
  <2> QED
    BY <1>0, <2>1, <2>2, OthersOwner
<1> QED
  BY <1>1, <1>2

\* A crash that breaks nothing off finds nobody at work.
LEMMA OwnerCrash ==
    ASSUME Held, OwnerInv, Crash
    PROVE  OwnerInv'
<1>0. brokeOff \in BOOLEAN
  BY DEF Held, DataOK
<1>1. /\ pc' = [c \in Clients |-> IF pc[c] = "idle" THEN "idle" ELSE "done"]
      /\ job' = job /\ mixed' = mixed
      /\ db' \in {db, draft} /\ draft' = db'
      /\ brokeOff' = (brokeOff \/ AtWork # {})
  BY DEF Crash
<1>2. AtWork' = {}
  BY <1>1, Apart DEF AtWork
<1>3. \A t \in Turns : pc'[t] = "idle" => job'[t].posted = FALSE
  BY <1>1, Apart DEF OwnerInv
<1>4. ASSUME Orderly' PROVE Settled'
  <2>1. Orderly /\ AtWork = {}
    BY <1>0, <1>1, <1>4 DEF Orderly
  <2>2. Settled
    BY <2>1 DEF OwnerInv
  <2>3. thread' = thread
    <3>1. \A t \in Turns : pc[t] # "post"
      BY <2>1 DEF AtWork
    <3> QED
      BY <3>1 DEF Crash
  <2>4. \A o : OwnsByThread(o) <=> OwnsByThread(o)'
    BY <2>3, OwnsStands
  <2> QED
    BY <1>1, <2>2, <2>4 DEF Settled
<1> QED
  BY <1>2, <1>3, <1>4 DEF OwnerInv

LEMMA OwnerStep ==
    ASSUME Held, OwnerInv, [Next]_vars
    PROVE  OwnerInv'
<1>1. CASE UNCHANGED vars
  BY <1>1 DEF vars, discord, store, history, OwnerInv, AtWork, Orderly, Settled, TurnOwner,
              UnstickOwner, HasPosted, OwnsByThread, Told
<1> QED
  BY <1>1, StepKinds, OwnerTurn, OwnerExecutes, OwnerCommits, OwnerCommitFails,
     OwnerStatementFails, OwnerNotice, OwnerCommands, OwnerCrash

(* The owner that the next message of the thread is routed to has spoken in it,  *)
(* whatever failed and whenever the bridge died; and while no two deliveries     *)
(* overlapped and none broke off, it is the last to have spoken, or nobody after *)
(* an !unstick (mention_handler.py: the owner is stored when a reply was posted).*)
THEOREM StickyFollowsThread == Spec => []StickyFollows
<1>1. Init => SpokeInv /\ OwnerInv
  <2> SUFFICES ASSUME Init PROVE SpokeInv /\ OwnerInv
    OBVIOUS
  <2>1. /\ \A c \in Clients : pc[c] = "idle"
        /\ \A t \in Turns : job[t].posted = FALSE
        /\ db.owner = Nobody /\ draft.owner = Nobody /\ Nobody \notin Agents
    BY DeliveryAssumption DEF Init
  <2>2. SpokeInv
    BY <2>1, Apart DEF SpokeInv
  <2>3. AtWork = {}
    BY <2>1, Apart DEF AtWork
  <2>4. Told = {}
    <3>1. thread = << >> /\ DOMAIN << >> = {}
      BY DEF Init
    <3> QED
      BY <3>1 DEF Told
  <2>5. Settled
    BY <2>1, <2>4 DEF Settled, OwnsByThread
  <2>6. OwnerInv
    BY <2>1, <2>3, <2>5 DEF OwnerInv
  <2> QED
    BY <2>2, <2>6
<1>2. Held /\ SpokeInv /\ OwnerInv /\ [Next]_vars => SpokeInv' /\ OwnerInv'
  BY SpokeStep, OwnerStep
<1>3. Held /\ SpokeInv /\ OwnerInv => StickyFollows
  <2> SUFFICES ASSUME Held, SpokeInv, OwnerInv PROVE StickyFollows
    OBVIOUS
  <2>1. /\ db.owner \in Agents \union {Nobody}
        /\ thread \in Seq(Message)
        /\ mixed \in BOOLEAN /\ brokeOff \in BOOLEAN
    BY DEF Held, DataOK, StoreOK, Store
  <2>2. ASSUME db.owner # Nobody
        PROVE  \E t \in Turns : Author[t] = db.owner /\ [by |-> t, told |-> TRUE] \in Range(thread)
    <3>1. PICK t \in Turns : Author[t] = db.owner /\ Spoke(t)
      BY <2>1, <2>2 DEF SpokeInv
    <3>2. PICK i \in 1..Len(thread) : thread[i] = [by |-> t, told |-> TRUE]
      BY <3>1 DEF Spoke
    <3>3. i \in DOMAIN thread
      BY <2>1, <3>2
    <3> QED
      BY <3>1, <3>2, <3>3 DEF Range
  <2>3. ASSUME AtWork = {}, ~mixed, ~brokeOff PROVE OwnsByThread(db.owner)
    <3>1. Settled
      BY <2>1, <2>3 DEF OwnerInv, Orderly
    <3> QED
      BY <2>1, <3>1 DEF Settled
  <2> QED
    BY <2>2, <2>3 DEF StickyFollows
<1> QED
  BY <1>1, <1>2, <1>3, HeldAlways, PTL DEF Spec

-----------------------------------------------------------------------------
(* The override.  While no commit fails, the map is what is stored, except    *)
(* between the commits of commands that overlap; the last of them in the      *)
(* queue set what the transaction holds, and its answer sets the map.         *)

LastSet(i) ==
    /\ i \in 1..Len(queue) /\ pc[queue[i]] = "setCommit"
    /\ \A j \in 1..Len(queue) : j > i => pc[queue[j]] # "setCommit"

MapInv ==
    unstored = FALSE =>
      /\ (\A c \in Commands : pc[c] # "setCommit") => draft.effort = db.effort /\ map = db.effort
      /\ \A i \in 1..Len(queue) : LastSet(i) => draft.effort = Effort[queue[i]]

\* What has no part in the override.
LEMMA MapStands ==
    ASSUME Held, MapInv, NEW c \in Clients, OnlyMoves(c), pc[c] \notin Due, pc'[c] # "setCommit",
           queue' = queue \/ (queue' = Append(queue, c) /\ pc'[c] \in Due),
           map' = map, db'.effort = db.effort, draft'.effort = draft.effort,
           unstored' = unstored
    PROVE  MapInv'
<1>0. PlacesOK /\ QueueOK
  BY DEF Held
<1>1. \A d \in Clients : pc'[d] = "setCommit" <=> pc[d] = "setCommit"
  BY DEF OnlyMoves, Due
<1>2. (\A d \in Commands : pc'[d] # "setCommit") => \A d \in Commands : pc[d] # "setCommit"
  BY <1>1, Apart
<1>3. /\ Len(queue') \in Nat /\ Len(queue) \in Nat /\ Len(queue) <= Len(queue')
      /\ \A i \in 1..Len(queue) : queue'[i] = queue[i] /\ queue[i] \in Clients
      /\ \A i \in 1..Len(queue') : i > Len(queue) => queue'[i] = c
  <2>1. CASE queue' = queue
    BY <1>0, <2>1 DEF QueueOK
  <2>2. CASE queue' = Append(queue, c) /\ pc'[c] \in Due
    BY <1>0, <2>2, Enqueued DEF QueueOK
  <2> QED
    BY <2>1, <2>2
<1>4. ASSUME NEW i \in 1..Len(queue'), LastSet(i)'
      PROVE  i \in 1..Len(queue) /\ LastSet(i) /\ queue'[i] = queue[i]
  <2>1. pc'[queue'[i]] = "setCommit" /\ i \in 1..Len(queue)
    BY <1>3, <1>4 DEF LastSet
  <2>2. \A j \in 1..Len(queue) : pc'[queue'[j]] = "setCommit" <=> pc[queue[j]] = "setCommit"
    BY <1>1, <1>3
  <2> QED
    BY <1>3, <1>4, <2>1, <2>2 DEF LastSet
<1> QED
  BY <1>2, <1>3, <1>4 DEF MapInv

LEMMA MapExecutes ==
    ASSUME Held, MapInv, NEW c \in Clients, Executes(c)
    PROVE  MapInv'
<1>0. PlacesOK /\ DataOK /\ QueueOK
  BY DEF Held
<1>1. /\ OnlyMoves(c) /\ db' = db /\ map' = map /\ unstored' = unstored
      /\ queue' = Append(queue, c)
  BY <1>0, ExecutesMoves DEF Executes, history
<1>2. /\ pc[c] \notin Due /\ pc'[c] \in Due
      /\ \/ pc'[c] # "setCommit" /\ draft'.effort = draft.effort
         \/ pc'[c] = "setCommit" /\ draft'.effort = Effort[c] /\ pc[c] = "set"
  BY <1>0, ExecutesMoves DEF Due
<1>3. CASE pc'[c] # "setCommit"
  BY <1>1, <1>2, <1>3, MapStands
<1>4. CASE pc'[c] = "setCommit"
  <2>1. c \in Commands /\ draft'.effort = Effort[c]
    BY <1>0, <1>2, <1>4, Kinds
  <2>2. /\ Len(queue') = Len(queue) + 1 /\ Len(queue) \in Nat
        /\ queue'[Len(queue) + 1] = c
    BY <1>0, <1>1, <1>2, Enqueued
  <2>3. \A i \in 1..Len(queue') : LastSet(i)' => queue'[i] = c
    BY <1>4, <2>2 DEF LastSet
  <2> QED
    BY <1>4, <2>1, <2>3 DEF MapInv
<1> QED
  BY <1>3, <1>4

LEMMA MapCommits ==
    ASSUME Held, MapInv, NEW c \in Clients, Commits(c)
    PROVE  MapInv'
<1>0. PlacesOK /\ DataOK /\ QueueOK
  BY DEF Held
<1>1. /\ queue # << >> /\ Head(queue) = c /\ queue' = Tail(queue)
      /\ db' = draft /\ draft' = draft /\ Stored(c) /\ unstored' = unstored
  BY DEF Commits, history
<1>2. pc[c] \in Due
  BY <1>0, <1>1, DueClient
<1>3. /\ OnlyMoves(c) /\ pc'[c] \notin Due
      /\ pc[c] = "setCommit" => map' = Effort[c]
      /\ pc[c] # "setCommit" => map' = map
  BY <1>0, <1>1, <1>2, StoredMoves DEF Settles, Due
<1>4. /\ Len(queue') = Len(queue) - 1 /\ Len(queue) \in Nat /\ Len(queue) >= 1
      /\ queue[1] = c
      /\ \A i \in 1..Len(queue') :
           /\ queue'[i] = queue[i + 1] /\ queue[i + 1] # c
           /\ pc'[queue'[i]] = pc[queue[i + 1]]
  BY <1>0, <1>1, <1>3, Dequeued
<1> SUFFICES ASSUME unstored = FALSE
             PROVE  /\ (\A d \in Commands : pc'[d] # "setCommit") => map' = draft.effort
                    /\ \A i \in 1..Len(queue') : LastSet(i)' => draft.effort = Effort[queue'[i]]
  BY <1>1 DEF MapInv
<1>5. ASSUME NEW i \in 1..Len(queue'), LastSet(i)'
      PROVE  draft.effort = Effort[queue'[i]]
  <2>1. i + 1 \in 1..Len(queue) /\ pc[queue[i + 1]] = "setCommit"
    BY <1>4, <1>5 DEF LastSet
  <2>2. ASSUME NEW j \in 1..Len(queue), j > i + 1 PROVE pc[queue[j]] # "setCommit"
    <3>1. j - 1 \in 1..Len(queue') /\ j - 1 > i /\ (j - 1) + 1 = j
      BY <1>4, <2>2
    <3> QED
      BY <1>4, <1>5, <3>1 DEF LastSet
  <2>3. LastSet(i + 1)
    BY <2>1, <2>2 DEF LastSet
  <2> QED
    BY <1>4, <2>1, <2>3 DEF MapInv
<1>6. ASSUME \A d \in Commands : pc'[d] # "setCommit"
      PROVE  map' = draft.effort
  <2>1. CASE pc[c] = "setCommit"
    <3>1. \A j \in 1..Len(queue) : j > 1 => pc[queue[j]] # "setCommit"
      <4> SUFFICES ASSUME NEW j \in 1..Len(queue), j > 1, pc[queue[j]] = "setCommit"
                   PROVE  FALSE
        OBVIOUS
      <4>1. j - 1 \in 1..Len(queue') /\ (j - 1) + 1 = j
        BY <1>4
      <4>2. queue[j] \in Clients /\ queue[j] # c
        BY <1>0, <1>4, <4>1 DEF QueueOK
      <4>3. queue[j] \in Commands /\ pc'[queue[j]] = "setCommit"
        BY <1>0, <1>3, <4>2, Kinds DEF OnlyMoves
      <4> QED
        BY <1>6, <4>3
    <3>2. LastSet(1)
      BY <1>4, <2>1, <3>1 DEF LastSet
    <3>3. draft.effort = Effort[c]
      BY <1>4, <3>2 DEF MapInv
    <3> QED
      BY <1>3, <2>1, <3>3
  <2>2. CASE pc[c] # "setCommit"
    <3>1. \A d \in Commands : pc[d] # "setCommit"
      BY <1>3, <1>6, <2>2, Apart DEF OnlyMoves
    <3> QED
      BY <1>3, <2>2, <3>1 DEF MapInv
  <2> QED
    BY <2>1, <2>2
<1> QED
  BY <1>5, <1>6

LEMMA MapStep ==
    ASSUME Held, MapInv, [Next]_vars
    PROVE  MapInv'
<1>0. PlacesOK /\ DataOK /\ QueueOK
  BY DEF Held
<1>1. ASSUME NEW t \in Turns, TurnStep(t) PROVE MapInv'
  <2>1. TurnMoves(t)
    BY <1>0, <1>1, TurnStepMoves
  <2>2. /\ OnlyMoves(t) /\ pc[t] \notin Due /\ pc'[t] # "setCommit" /\ t \in Clients
        /\ db' = db /\ draft' = draft /\ queue' = queue /\ map' = map /\ unstored' = unstored
    BY <2>1, Apart DEF TurnMoves, Sending, Due, store
  <2> QED
    BY <2>2, MapStands
<1>2. ASSUME NEW c \in Clients, CommitFails(c) PROVE MapInv'
  BY <1>2 DEF CommitFails, MapInv
<1>3. ASSUME NEW c \in Clients, StatementFails(c) PROVE MapInv'
  <2>1. /\ pc[c] \in InStore /\ Refused(c) /\ UNCHANGED <<store, unstored>>
    BY <1>3 DEF StatementFails
  <2>2. /\ OnlyMoves(c) /\ map' = map /\ pc[c] \notin Due /\ pc'[c] # "setCommit"
    BY <1>0, <2>1, RefusedMoves DEF Settles, InStore, Due
  <2> QED
    BY <2>1, <2>2, MapStands DEF store
<1>4. ASSUME NEW c \in Clients, Notice(c) PROVE MapInv'
  BY <1>0, <1>4, NoticeEffect, MapStands DEF NoticeMoves, store, Due
<1>5. CASE (\E u \in Unsticks : Unstick(u)) \/ (\E c \in Commands : ThinkingEffort(c))
  <2>1. UNCHANGED <<store, map, unstored>> /\ job' = job
    BY <1>5, CommandsMove
  <2>2. PICK c \in Unsticks \union Commands, place \in {"clear", "set"} :
            Goto(c, place) /\ pc[c] = "idle"
    BY <1>5 DEF Unstick, ThinkingEffort
  <2>3. OnlyMoves(c) /\ pc'[c] = place /\ c \in Clients
    BY <1>0, <2>1, <2>2, GotoMoves, Apart DEF Places, InStore
  <2> QED
    BY <2>1, <2>2, <2>3, MapStands DEF store, Due
<1>6. CASE Crash
  <2>1. /\ \A c \in Commands : pc'[c] # "setCommit"
        /\ draft' = db' /\ queue' = << >>
        /\ (map' = db'.effort \/ unstored' = TRUE)
    BY <1>6, Apart DEF Crash
  <2>2. Len(<< >>) = 0
    OBVIOUS
  <2> QED
    BY <2>1, <2>2 DEF MapInv
<1>7. CASE UNCHANGED vars
  BY <1>7 DEF vars, store, history, MapInv, LastSet
<1> QED
  BY <1>1, <1>2, <1>3, <1>4, <1>5, <1>6, <1>7, StepKinds, MapExecutes, MapCommits

(* The override that turns are started with is the committed one, which the next *)
(* start will load, once no command is between its statement and its answer:     *)
(* commands may overlap, be refused or be cut off by a crash; a commit must not  *)
(* have failed (overrides.py: the map is set after the store answered).          *)
THEOREM OverridesAgree == Spec => []OverrideAgrees
<1>1. Init => MapInv
  <2> SUFFICES ASSUME Init PROVE MapInv
    OBVIOUS
  <2>1. queue = << >> /\ Len(<< >>) = 0
    BY DEF Init
  <2> QED
    BY <2>1 DEF Init, MapInv
<1>2. Held /\ MapInv /\ [Next]_vars => MapInv'
  BY MapStep
<1>3. Held /\ MapInv => OverrideAgrees
  BY DEF Held, DataOK, MapInv, OverrideAgrees
<1> QED
  BY <1>1, <1>2, <1>3, HeldAlways, PTL DEF Spec

-----------------------------------------------------------------------------
(* Types.                                                                     *)

CountsOK ==
    /\ plan \in [Turns -> Seq(Seq(Units))]
    /\ cached \in BOOLEAN
    /\ faults \in 0..MaxFaults /\ crashes \in 0..MaxCrashes

LEMMA CountsStep ==
    ASSUME Held, CountsOK, [Next]_vars
    PROVE  CountsOK'
<1>0. MaxFaults \in Nat /\ MaxCrashes \in Nat
  BY DeliveryAssumption
<1>1. plan' = plan
  BY DEF Next, Begin, LockTaken, Listed, Created, Posted, CallFails, Retry, Unstick,
         ThinkingEffort, Executes, Commits, StatementFails, CommitFails, Notice, Crash, Done, vars
<1>2. cached' = cached \/ cached' \in BOOLEAN
  <2>1. ASSUME NEW t \in Turns, Listed(t) PROVE cached' \in BOOLEAN
    <3> DEFINE found == hooks > 0
    <3>1. cached' = found /\ found \in BOOLEAN
      BY <2>1 DEF Listed
    <3> QED
      BY <3>1
  <2>2. ASSUME NEW t \in Turns, TurnStep(t), ~Listed(t) PROVE cached' = cached \/ cached' = TRUE
    BY <2>2 DEF TurnStep, Begin, LockTaken, Created, Posted, CallFails, Retry, discord
  <2>3. CASE (\E u \in Unsticks : Unstick(u)) \/ (\E c \in Commands : ThinkingEffort(c))
    BY <2>3 DEF Unstick, ThinkingEffort, discord
  <2>4. ASSUME NEW c \in Clients,
               Executes(c) \/ Commits(c) \/ CommitFails(c) \/ StatementFails(c) \/ Notice(c)
      PROVE  cached' = cached
    BY <2>4 DEF Executes, Commits, CommitFails, StatementFails, Notice, discord
  <2>5. CASE Crash
    BY <2>5 DEF Crash
  <2>6. CASE UNCHANGED vars
    BY <2>6 DEF vars, discord
  <2> QED
    BY <2>1, <2>2, <2>3, <2>4, <2>5, <2>6, StepKinds
<1>3. faults' = faults \/ (faults < MaxFaults /\ faults' = faults + 1)
  <2>1. ASSUME NEW t \in Turns, TurnStep(t) PROVE faults' = faults \/ Fault
    BY <2>1 DEF TurnStep, Begin, LockTaken, Listed, Created, Posted, CallFails, Retry
  <2>2. CASE (\E u \in Unsticks : Unstick(u)) \/ (\E c \in Commands : ThinkingEffort(c))
    BY <2>2 DEF Unstick, ThinkingEffort
  <2>3. ASSUME NEW c \in Clients, Executes(c) \/ Commits(c) \/ CommitFails(c)
      PROVE  faults' = faults \/ Fault
    BY <2>3 DEF Executes, Commits, CommitFails
  <2>4. ASSUME NEW c \in Clients, StatementFails(c) \/ Notice(c)
      PROVE  faults' = faults \/ Fault
    BY <2>4 DEF StatementFails, Notice
  <2>5. CASE Crash
    BY <2>5 DEF Crash, Fault
  <2>6. CASE UNCHANGED vars
    BY <2>6 DEF vars
  <2> QED
    BY <2>1, <2>2, <2>3, <2>4, <2>5, <2>6, StepKinds DEF Fault
<1>4. crashes' = crashes \/ (crashes < MaxCrashes /\ crashes' = crashes + 1)
  BY DEF Next, Begin, LockTaken, Listed, Created, Posted, CallFails, Retry, Unstick,
         ThinkingEffort, Executes, Commits, StatementFails, CommitFails, Notice, Crash, Done, vars
<1>5. faults' \in 0..MaxFaults /\ crashes' \in 0..MaxCrashes
  BY <1>0, <1>3, <1>4 DEF CountsOK
<1>6. plan' \in [Turns -> Seq(Seq(Units))]
  BY <1>1 DEF CountsOK
<1>7. cached' \in BOOLEAN
  BY <1>2 DEF CountsOK
<1> QED
  BY <1>5, <1>6, <1>7 DEF CountsOK

(* Type correctness: a plan is chunks of units, because a split of any text is.  *)
THEOREM DeliveryTyped == Spec => []TypeOK
<1>1. Init => CountsOK /\ WebhookInv
  <2> SUFFICES ASSUME Init PROVE CountsOK /\ WebhookInv
    OBVIOUS
  <2>1. plan \in [Turns -> UNION {Plans(t) : t \in Turns}] /\ \A t \in Turns : plan[t] \in Plans(t)
    BY DEF Init
  <2>2. plan \in [Turns -> Seq(Seq(Units))]
    <3>1. \A t \in Turns : Plans(t) \subseteq Seq(Seq(Units))
      <4>. SUFFICES ASSUME NEW t \in Turns, NEW text \in Replies[t],
                         NEW chunks \in ChunkSplits(text)
                    PROVE  chunks \in Seq(Seq(Units))
        BY DEF Plans
      <4>1. text \in Seq(Lines)
        BY DeliveryAssumption
      <4>. QED  BY <4>1, SplitGood
    <3>. QED  BY <2>1, <3>1
  <2>3. MaxFaults \in Nat /\ MaxCrashes \in Nat
    BY DeliveryAssumption
  <2>4. CountsOK
    <3>1. cached = FALSE /\ faults = 0 /\ crashes = 0
      BY DEF Init
    <3>2. faults \in 0..MaxFaults /\ crashes \in 0..MaxCrashes
      BY <2>3, <3>1
    <3> QED
      BY <2>2, <3>1, <3>2 DEF CountsOK
  <2>5. \A t \in Turns : pc[t] = "idle"
    BY Apart DEF Init
  <2>6. WebhookInv
    BY <2>5 DEF Init, WebhookInv, Discovering
  <2> QED
    BY <2>4, <2>6
<1>2. Held /\ CountsOK /\ WebhookInv /\ [Next]_vars => CountsOK' /\ WebhookInv'
  BY CountsStep, WebhookStep
<1>3. Held /\ CountsOK /\ WebhookInv => TypeOK
  BY DEF Held, PlacesOK, DataOK, StoreOK, QueueOK, CountsOK, WebhookInv, TypeOK, Job, Message
<1> QED
  BY <1>1, <1>2, <1>3, HeldAlways, PTL DEF Spec

(* Delivery: every text, whatever its lines and fences, is split into messages within the limit   *)
(* that together have all of its content, in order and in its fences, wherever long lines are cut *)
(* (chunking.py:80).                                                                             *)
THEOREM SplitsCarry == Spec => []SplitsCarryTexts
<1>1. SplitsCarryTexts
  <2>. SUFFICES ASSUME NEW text \in Texts, NEW chunks \in ChunkSplits(text)
                PROVE  ChunksFit(chunks) /\ ContentKept(text, chunks)
    BY DEF SplitsCarryTexts
  <2>1. text \in Seq(Lines)
    BY DeliveryAssumption
  <2>. QED  BY <2>1, SplitGood
<1>. QED  BY <1>1, PTL

-----------------------------------------------------------------------------
(* What an agent is told (History).                                           *)

(* The records of a page. *)
Recs == [id : 0..MaxPosts, kind : PostKinds]

(* Projecting a record keeps its id. *)
LEMMA RecordType ==
  ASSUME NEW m \in Recs
  PROVE  Record(m) \in Recs /\ Record(m).id = m.id
BY DEF Recs, Record, PostKinds

(* The folds of the module, unwound: h holds what the fold has come to after each record.  First  *)
(* what is kept of a page,                                                                       *)
LEMMA ProjectedUnwinds ==
  ASSUME NEW page \in Seq(Recs)
  PROVE  \E h \in [0..Len(page) -> Seq(Recs)] :
           /\ h[0] = << >>
           /\ \A i \in 1..Len(page) : h[i] = Keep(h[i - 1], page[i])
           /\ Projected(page) = h[Len(page)]
<1>. DEFINE n == Len(page)
            D == 1..n
            It == CHOOSE it : it = [x \in SUBSET D |->
                     IF x = {} THEN << >>
                     ELSE Keep(it[x \ {Max(x)}], page[Max(x)])]
            F == [v \in Seq(Recs) |-> [i \in D |-> Keep(v, page[i])]]
<1>1. n \in Nat /\ DOMAIN page = D /\ \A i \in D : page[i] \in Recs
  OBVIOUS
<1>2. Projected(page) = It[D]
  BY <1>1 DEF Projected, FoldLeft, MapThenFoldSet
<1>3. F \in [Seq(Recs) -> [D -> Seq(Recs)]] /\ << >> \in Seq(Recs)
  BY <1>1, RecordType DEF Keep
<1>4. PICK g : FoldEq(g, Seq(Recs), n, << >>, F)
  <2>. HIDE DEF F, n
  <2>. QED  BY <1>1, <1>3, FoldExists, Zenon
<1>5. \A x \in SUBSET D : x # {} => Max(x) \in D /\ x \ {Max(x)} \in SUBSET D
  BY <1>1, MaxOfSubset
<1>6. g = [x \in SUBSET D |-> IF x = {} THEN << >>
                            ELSE Keep(g[x \ {Max(x)}], page[Max(x)])]
  BY <1>1, <1>4, <1>5 DEF FoldEq
<1>7. It = [x \in SUBSET D |-> IF x = {} THEN << >>
                             ELSE Keep(It[x \ {Max(x)}], page[Max(x)])]
  <2>. HIDE DEF D, F
  <2>. QED  BY <1>6, Zenon
<1>. HIDE DEF It
<1>8. PICK h : Stages(h, It, Seq(Recs), n, << >>, F)
  <2>1. FoldStep(It, Seq(Recs), n, << >>, F)
    BY <1>7, <1>5 DEF FoldStep
  <2>. HIDE DEF F, n
  <2>. QED  BY <2>1, <1>1, <1>3, FoldRuns, Zenon
<1>9. ASSUME NEW i \in 1..n PROVE h[i] = Keep(h[i - 1], page[i])
  <2>1. i - 1 \in 0..n
    BY <1>1
  <2>. QED  BY <1>8, <2>1 DEF Stages
<1>. HIDE DEF F
<1>. QED  BY <1>2, <1>8, <1>9 DEF Stages

(* One record more on a history. *)
LEMMA AddRecordType ==
  ASSUME NEW m \in Recs, NEW v \in Seq(Messages)
  PROVE  AddRecord(v, m) \in Seq(Messages)
<1>1. Replay(m) \in Seq(Messages)
  <2>1. Part(m.id, "call") \in Messages /\ Part(m.id, "return") \in Messages
    BY DEF Part, Messages, Parts, Recs
  <2>. QED  BY <2>1 DEF Replay
<1>2. (IF \E i \in DOMAIN v : v[i].part = "user" THEN v \o Replay(m) ELSE v) \in Seq(Messages)
  BY <1>1
<1>3. Part(m.id, "user") \in Messages /\ Part(m.id, "text") \in Messages
  BY DEF Part, Messages, Parts, Recs
<1>. QED  BY <1>2, <1>3 DEF AddRecord, Recs, PostKinds

(* the parts that the records come to,                                                          *)
LEMMA BuildUnwinds ==
  ASSUME NEW recs \in Seq(Recs)
  PROVE  \E h \in [0..Len(recs) -> Seq(Messages)] :
           /\ h[0] = << >>
           /\ \A i \in 1..Len(recs) : h[i] = AddRecord(h[i - 1], recs[i])
           /\ FoldLeft(AddRecord, << >>, recs) = h[Len(recs)]
<1>. DEFINE n == Len(recs)
            D == 1..n
            It == CHOOSE it : it = [x \in SUBSET D |->
                     IF x = {} THEN << >>
                     ELSE AddRecord(it[x \ {Max(x)}], recs[Max(x)])]
            F == [v \in Seq(Messages) |-> [i \in D |-> AddRecord(v, recs[i])]]
<1>1. n \in Nat /\ DOMAIN recs = D /\ \A i \in D : recs[i] \in Recs
  OBVIOUS
<1>2. FoldLeft(AddRecord, << >>, recs) = It[D]
  BY <1>1 DEF FoldLeft, MapThenFoldSet
<1>3. F \in [Seq(Messages) -> [D -> Seq(Messages)]] /\ << >> \in Seq(Messages)
  BY <1>1, AddRecordType
<1>4. PICK g : FoldEq(g, Seq(Messages), n, << >>, F)
  <2>. HIDE DEF F, n
  <2>. QED  BY <1>1, <1>3, FoldExists, Zenon
<1>5. \A x \in SUBSET D : x # {} => Max(x) \in D /\ x \ {Max(x)} \in SUBSET D
  BY <1>1, MaxOfSubset
<1>6. g = [x \in SUBSET D |-> IF x = {} THEN << >>
                            ELSE AddRecord(g[x \ {Max(x)}], recs[Max(x)])]
  BY <1>1, <1>4, <1>5 DEF FoldEq
<1>7. It = [x \in SUBSET D |-> IF x = {} THEN << >>
                             ELSE AddRecord(It[x \ {Max(x)}], recs[Max(x)])]
  <2>. HIDE DEF D, F
  <2>. QED  BY <1>6, Zenon
<1>. HIDE DEF It
<1>8. PICK h : Stages(h, It, Seq(Messages), n, << >>, F)
  <2>1. FoldStep(It, Seq(Messages), n, << >>, F)
    BY <1>7, <1>5 DEF FoldStep
  <2>. HIDE DEF F, n
  <2>. QED  BY <2>1, <1>1, <1>3, FoldRuns, Zenon
<1>9. ASSUME NEW i \in 1..n PROVE h[i] = AddRecord(h[i - 1], recs[i])
  <2>1. i - 1 \in 0..n
    BY <1>1
  <2>. QED  BY <1>8, <2>1 DEF Stages
<1>. HIDE DEF F
<1>. QED  BY <1>2, <1>8, <1>9 DEF Stages

(* and the bytes that they cost.                                                                *)
LEMMA BytesUnwinds ==
  ASSUME NEW s \in Seq(Messages)
  PROVE  \E h \in [0..Len(s) -> Nat] :
           /\ h[0] = 1
           /\ \A i \in 1..Len(s) : h[i] = h[i - 1] + Cost[s[i].part]
           /\ Bytes(s) = h[Len(s)]
<1>. DEFINE n == Len(s)
            D == 1..n
            It == CHOOSE it : it = [x \in SUBSET D |->
                     IF x = {} THEN 1
                     ELSE it[x \ {Max(x)}] + Cost[s[Max(x)].part]]
            F == [v \in Nat |-> [i \in D |-> v + Cost[s[i].part]]]
<1>1. n \in Nat /\ DOMAIN s = D /\ \A i \in D : s[i] \in Messages
  OBVIOUS
<1>2. Bytes(s) = It[D]
  BY <1>1 DEF Bytes, FoldLeft, MapThenFoldSet
<1>3. F \in [Nat -> [D -> Nat]] /\ 1 \in Nat
  BY <1>1, HistoryAssumption DEF Messages, HistoryAssumption
<1>4. PICK g : FoldEq(g, Nat, n, 1, F)
  <2>. HIDE DEF F, n
  <2>. QED  BY <1>1, <1>3, FoldExists, Zenon
<1>5. \A x \in SUBSET D : x # {} => Max(x) \in D /\ x \ {Max(x)} \in SUBSET D
  BY <1>1, MaxOfSubset
<1>6. g = [x \in SUBSET D |-> IF x = {} THEN 1
                            ELSE g[x \ {Max(x)}] + Cost[s[Max(x)].part]]
  BY <1>1, <1>4, <1>5 DEF FoldEq
<1>7. It = [x \in SUBSET D |-> IF x = {} THEN 1
                             ELSE It[x \ {Max(x)}] + Cost[s[Max(x)].part]]
  <2>. HIDE DEF D, F
  <2>. QED  BY <1>6, Zenon
<1>. HIDE DEF It
<1>8. PICK h : Stages(h, It, Nat, n, 1, F)
  <2>1. FoldStep(It, Nat, n, 1, F)
    BY <1>7, <1>5 DEF FoldStep
  <2>. HIDE DEF F, n
  <2>. QED  BY <2>1, <1>1, <1>3, FoldRuns, Zenon
<1>9. ASSUME NEW i \in 1..n PROVE h[i] = h[i - 1] + Cost[s[i].part]
  <2>1. i - 1 \in 0..n
    BY <1>1
  <2>. QED  BY <1>8, <2>1 DEF Stages
<1>. HIDE DEF F
<1>. QED  BY <1>2, <1>8, <1>9 DEF Stages

(* What a suffix is made of, and a suffix of it. *)
LEMMA SuffixFacts ==
  ASSUME NEW S, NEW s \in Seq(S), NEW k \in 1..(Len(s) + 1)
  PROVE  /\ Since(s, k) \in Seq(S)
         /\ Len(Since(s, k)) = Len(s) - k + 1
         /\ \A i \in 1..(Len(s) - k + 1) : Since(s, k)[i] = s[k + i - 1]
<1>1. k \in Int /\ Len(s) \in Int /\ \A i \in k..Len(s) : s[i] \in S
  OBVIOUS
<1>2. /\ SubSeq(s, k, Len(s)) \in Seq(S)
      /\ Len(SubSeq(s, k, Len(s))) = IF k <= Len(s) THEN Len(s) - k + 1 ELSE 0
      /\ \A i \in 1..(Len(s) - k + 1) : SubSeq(s, k, Len(s))[i] = s[k + i - 1]
  BY <1>1, SubSeqProperties
<1>3. (IF k <= Len(s) THEN Len(s) - k + 1 ELSE 0) = Len(s) - k + 1
  BY <1>1
<1>. QED  BY <1>2, <1>3 DEF Since

LEMMA SuffixOfSuffix ==
  ASSUME NEW S, NEW s \in Seq(S), NEW k \in 1..(Len(s) + 1), NEW j \in 1..(Len(s) - k + 2)
  PROVE  Since(Since(s, k), j) = Since(s, k + j - 1)
<1>1. /\ Since(s, k) \in Seq(S) /\ Len(Since(s, k)) = Len(s) - k + 1
      /\ \A i \in 1..(Len(s) - k + 1) : Since(s, k)[i] = s[k + i - 1]
  BY SuffixFacts
<1>. DEFINE t == Since(s, k)
            a == Since(t, j)
            b == Since(s, k + j - 1)
<1>2. t \in Seq(S) /\ j \in 1..(Len(t) + 1) /\ Len(t) = Len(s) - k + 1
  BY <1>1
<1>3. k + j - 1 \in 1..(Len(s) + 1)
  OBVIOUS
<1>. HIDE DEF t
<1>4. /\ a \in Seq(S) /\ Len(a) = Len(t) - j + 1
      /\ \A i \in 1..(Len(t) - j + 1) : a[i] = t[j + i - 1]
  BY <1>2, SuffixFacts
<1>5. /\ b \in Seq(S) /\ Len(b) = Len(s) - (k + j - 1) + 1
      /\ \A i \in 1..(Len(s) - (k + j - 1) + 1) : b[i] = s[(k + j - 1) + i - 1]
  BY <1>3, SuffixFacts
<1>6. Len(a) = Len(b) /\ Len(a) = Len(s) - k - j + 2
  BY <1>2, <1>4, <1>5
<1>7. ASSUME NEW i \in 1..Len(a) PROVE a[i] = b[i]
  <2>1. j + i - 1 \in 1..(Len(s) - k + 1)
    BY <1>6
  <2>2. t[j + i - 1] = s[k + (j + i - 1) - 1]
    BY <2>1, <1>1 DEF t
  <2>3. k + (j + i - 1) - 1 = (k + j - 1) + i - 1
    OBVIOUS
  <2>4. i \in 1..(Len(t) - j + 1) /\ i \in 1..(Len(s) - (k + j - 1) + 1)
    BY <1>6, <1>4, <1>5
  <2>. QED  BY <2>2, <2>3, <2>4, <1>4, <1>5
<1>. HIDE DEF a, b
<1>8. a = b
  BY <1>4, <1>5, <1>6, <1>7, SeqEqual
<1>. QED  BY <1>8 DEF a, b, t

(* Cut leaves what is behind the last marker. *)
LEMMA CutFacts ==
  ASSUME NEW page \in Seq(Recs)
  PROVE  \E k \in 1..(Len(page) + 1) :
           /\ Cut(page) = Since(page, k)
           /\ \A i \in k..Len(page) : page[i].kind # "marker"
<1>. DEFINE markers == {i \in DOMAIN page : page[i].kind = "marker"}
<1>1. DOMAIN page = 1..Len(page) /\ Len(page) \in Nat
  OBVIOUS
<1>2. CASE markers = {}
  <2>1. Cut(page) = page
    BY <1>2 DEF Cut
  <2>2. Since(page, 1) = page
    BY SubSeqFull DEF Since
  <2>. QED  BY <2>1, <2>2, <1>2, <1>1
<1>3. CASE markers # {}
  <2>. DEFINE last == CHOOSE i \in markers : \A j \in markers : j <= i
  <2>1. Cut(page) = Since(page, 1 + last)
    BY <1>3 DEF Cut, Since
  <2>2. Max(markers) \in markers /\ \A j \in markers : j <= Max(markers)
    <3>. DEFINE n == Len(page)
    <3>1. n \in Nat /\ markers \in SUBSET (1..n)
      BY <1>1
    <3>. HIDE DEF n, markers
    <3>. QED  BY <3>1, <1>3, MaxOfSubset
  <2>3. last \in markers /\ \A j \in markers : j <= last
    <3>1. \E i \in markers : \A j \in markers : j <= i
      BY <2>2
    <3>. HIDE DEF markers
    <3>. QED  BY <3>1, Zenon
  <2>. HIDE DEF last
  <2>4. last \in 1..Len(page) /\ 1 + last \in 1..(Len(page) + 1)
    BY <2>3, <1>1
  <2>5. ASSUME NEW i \in (1 + last)..Len(page) PROVE page[i].kind # "marker"
    <3>1. i \in DOMAIN page /\ ~(i <= last)
      BY <2>4, <1>1
    <3>. QED  BY <3>1, <2>3
  <2>6. \A i \in (1 + last)..Len(page) : page[i].kind # "marker"
    BY <2>5
  <2>. QED  BY <2>1, <2>4, <2>6
<1>. HIDE DEF markers
<1>. QED  BY <1>2, <1>3

(* What has a legal head begins with the first request of a user. *)
LEMMA LegalHeadFacts ==
  ASSUME NEW s \in Seq(Messages)
  PROVE  \E u \in 1..(Len(s) + 1) :
           /\ LegalHead(s) = Since(s, u)
           /\ u <= Len(s) => s[u].part = "user"
           /\ \A i \in 1..(u - 1) : s[i].part # "user"
<1>. DEFINE users == {i \in DOMAIN s : s[i].part = "user"}
<1>1. DOMAIN s = 1..Len(s) /\ Len(s) \in Nat
  OBVIOUS
<1>2. CASE users = {}
  <2>1. LegalHead(s) = << >>
    BY <1>2 DEF LegalHead
  <2>2. Since(s, Len(s) + 1) = << >>
    BY <1>1, SubSeqEmpty DEF Since
  <2>3. \A i \in 1..((Len(s) + 1) - 1) : s[i].part # "user"
    BY <1>1, <1>2
  <2>. QED  BY <2>1, <2>2, <2>3, <1>1
<1>3. CASE users # {}
  <2>. DEFINE first == CHOOSE i \in users : \A j \in users : i <= j
  <2>1. LegalHead(s) = Since(s, first)
    BY <1>3 DEF LegalHead, Since
  <2>2. first \in users /\ \A j \in users : first <= j
    <3>1. users \subseteq Nat
      BY <1>1
    <3>. HIDE DEF users
    <3>2. \E i \in users : \A j \in users : i <= j
      BY <3>1, <1>3, LeastNumber
    <3>. QED  BY <3>2, Zenon
  <2>. HIDE DEF first
  <2>3. first \in 1..Len(s) /\ s[first].part = "user"
    BY <2>2, <1>1
  <2>4. ASSUME NEW i \in 1..(first - 1) PROVE s[i].part # "user"
    <3>1. i \in DOMAIN s /\ ~(first <= i)
      BY <2>3, <1>1
    <3>. QED  BY <3>1, <2>2
  <2>5. \A i \in 1..(first - 1) : s[i].part # "user"
    BY <2>4
  <2>6. first \in 1..(Len(s) + 1)
    BY <2>3, <1>1
  <2>. QED  BY <2>1, <2>3, <2>5, <2>6
<1>. HIDE DEF users
<1>. QED  BY <1>2, <1>3

(* A suffix that begins with a user takes no call from its return.                               *)
LEMMA SuffixPaired ==
  ASSUME NEW s \in Seq(Messages), NEW u \in 1..(Len(s) + 1),
         u <= Len(s) => s[u].part = "user",
         Paired(s), InOrder(s)
  PROVE  Paired(Since(s, u)) /\ InOrder(Since(s, u))
<1>. DEFINE t == Since(s, u)
<1>1. /\ t \in Seq(Messages) /\ Len(t) = Len(s) - u + 1
      /\ \A i \in 1..(Len(s) - u + 1) : t[i] = s[u + i - 1]
  BY SuffixFacts
<1>. HIDE DEF t
<1>2. DOMAIN t = 1..Len(t) /\ DOMAIN s = 1..Len(s) /\ Len(s) \in Nat /\ Len(t) \in Nat
  BY <1>1
<1>3. ASSUME NEW i \in DOMAIN t
      PROVE  /\ u + i - 1 \in DOMAIN s /\ t[i] = s[u + i - 1]
             /\ i < Len(t) <=> u + i - 1 < Len(s)
             /\ i < Len(t) => t[i + 1] = s[(u + i - 1) + 1]
             /\ i > 1 => t[i - 1] = s[(u + i - 1) - 1]
  <2>1. i \in 1..(Len(s) - u + 1)
    BY <1>1, <1>2
  <2>2. i < Len(t) => i + 1 \in 1..(Len(s) - u + 1) /\ u + (i + 1) - 1 = (u + i - 1) + 1
    BY <2>1, <1>1
  <2>3. i > 1 => i - 1 \in 1..(Len(s) - u + 1) /\ u + (i - 1) - 1 = (u + i - 1) - 1
    BY <2>1, <1>1
  <2>4. u + i - 1 \in 1..Len(s) /\ (i < Len(t) <=> u + i - 1 < Len(s))
    BY <2>1, <1>1, SMTT(30)
  <2>5. t[i] = s[u + i - 1]
    BY <2>1, <1>1
  <2>6. i < Len(t) => t[i + 1] = s[u + (i + 1) - 1]
    BY <2>2, <1>1
  <2>7. i > 1 => t[i - 1] = s[u + (i - 1) - 1]
    BY <2>3, <1>1
  <2>. QED  BY <2>2, <2>3, <2>4, <2>5, <2>6, <2>7, <1>2
<1>4. ASSUME NEW i \in DOMAIN t, t[i].part = "call"
      PROVE  i < Len(t) /\ t[i + 1] = Part(t[i].id, "return")
  BY <1>3, <1>4 DEF Paired
<1>5. ASSUME NEW i \in DOMAIN t, t[i].part = "return"
      PROVE  /\ i > 1 /\ t[i - 1] = Part(t[i].id, "call")
             /\ i < Len(t) /\ t[i + 1] = Part(t[i].id, "text")
  <2>1. i > 1
    <3>1. CASE i = 1
      <4>1. u + i - 1 = u /\ u <= Len(s)
        BY <3>1, <1>2, <1>1
      <4>. QED  BY <4>1, <1>3, <1>5
    <3>. QED  BY <3>1, <1>2
  <2>. QED  BY <2>1, <1>3, <1>5 DEF Paired
<1>6. ASSUME NEW i \in DOMAIN t, NEW j \in DOMAIN t, i < j
      PROVE  t[i].id <= t[j].id /\ t[i] # t[j]
  <2>1. u + i - 1 < u + j - 1
    BY <1>6, <1>2
  <2>. QED  BY <2>1, <1>3 DEF InOrder
<1>7. Paired(t)
  BY <1>4, <1>5 DEF Paired
<1>8. InOrder(t)
  BY <1>6 DEF InOrder
<1>. QED  BY <1>7, <1>8 DEF t

(* The fields of records and of parts. *)
LEMMA RecFields ==
  ASSUME NEW m \in Recs
  PROVE  m.id \in 0..MaxPosts /\ m.id \in Nat /\ m.kind \in PostKinds
BY HistoryAssumption DEF Recs, HistoryAssumption

LEMMA MessageFields ==
  ASSUME NEW m \in Messages
  PROVE  m.id \in 0..MaxPosts /\ m.id \in Nat /\ m.part \in Parts
BY HistoryAssumption DEF Messages, HistoryAssumption

(* One record more: nothing, one part, or an answer behind its call and its return.              *)
LEMMA AddRecordFacts ==
  ASSUME NEW m \in Recs, NEW v \in Seq(Messages)
  PROVE  LET w == AddRecord(v, m)
             L == Len(v)
         IN /\ w \in Seq(Messages)
            /\ \A i \in 1..L : w[i] = v[i]
            /\ \/ w = v
               \/ Len(w) = L + 1 /\ w[L + 1] \in {Part(m.id, "user"), Part(m.id, "text")}
               \/ /\ Len(w) = L + 3
                  /\ w[L + 1] = Part(m.id, "call") /\ w[L + 2] = Part(m.id, "return")
                  /\ w[L + 3] = Part(m.id, "text")
<1>. DEFINE w == AddRecord(v, m)
            L == Len(v)
<1>1. w \in Seq(Messages) /\ L \in Nat
  BY AddRecordType
<1>2. Part(m.id, "user") \in Messages /\ Part(m.id, "text") \in Messages
      /\ Part(m.id, "call") \in Messages /\ Part(m.id, "return") \in Messages
  BY DEF Part, Messages, Parts, Recs
<1>3. \/ w = v
      \/ w = Append(v, Part(m.id, "user"))
      \/ w = Append(v, Part(m.id, "text"))
      \/ w = Append(v \o <<Part(m.id, "call"), Part(m.id, "return")>>, Part(m.id, "text"))
  <2>1. v \o << >> = v
    BY ConcatEmptySeq
  <2>. QED  BY <2>1 DEF AddRecord, Replay
<1>. HIDE DEF w
<1>4. ASSUME NEW e \in Messages, w = Append(v, e)
      PROVE  Len(w) = L + 1 /\ w[L + 1] = e /\ \A i \in 1..L : w[i] = v[i]
  BY <1>4, AppendProperties
<1>5. CASE w = Append(v \o <<Part(m.id, "call"), Part(m.id, "return")>>, Part(m.id, "text"))
  <2>. DEFINE c == <<Part(m.id, "call"), Part(m.id, "return")>>
              x == v \o c
              e == Part(m.id, "text")
  <2>1. c \in Seq(Messages) /\ Len(c) = 2 /\ c[1] = Part(m.id, "call")
        /\ c[2] = Part(m.id, "return")
    BY <1>2
  <2>. HIDE DEF c
  <2>2. /\ x \in Seq(Messages) /\ Len(x) = L + 2
        /\ \A i \in 1..(L + 2) : x[i] = IF i <= L THEN v[i] ELSE c[i - L]
    <3>1. /\ x \in Seq(Messages) /\ Len(x) = Len(v) + Len(c)
          /\ \A i \in 1..(Len(v) + Len(c)) :
               x[i] = IF i <= Len(v) THEN v[i] ELSE c[i - Len(v)]
      BY <2>1, ConcatProperties
    <3>2. Len(v) + Len(c) = L + 2
      BY <2>1
    <3>. QED  BY <3>1, <3>2
  <2>3. x[L + 1] = c[1] /\ x[L + 2] = c[2] /\ \A i \in 1..L : x[i] = v[i]
    <3>1. L + 1 \in 1..(L + 2) /\ L + 2 \in 1..(L + 2) /\ ~(L + 1 <= L) /\ ~(L + 2 <= L)
          /\ (L + 1) - L = 1 /\ (L + 2) - L = 2
      BY <1>1
    <3>2. \A i \in 1..L : i \in 1..(L + 2) /\ i <= L
      BY <1>1
    <3>. QED  BY <3>1, <3>2, <2>2
  <2>. HIDE DEF x, e
  <2>4. w = Append(x, e) /\ e \in Messages
    BY <1>5, <1>2 DEF x, c, e
  <2>5. /\ Len(w) = Len(x) + 1 /\ w[Len(x) + 1] = e
        /\ \A i \in 1..Len(x) : w[i] = x[i]
    BY <2>2, <2>4, AppendProperties
  <2>6. Len(w) = L + 3 /\ w[L + 3] = e
    BY <2>2, <2>5, <1>1
  <2>7. w[L + 1] = c[1] /\ w[L + 2] = c[2] /\ \A i \in 1..L : w[i] = v[i]
    <3>1. L + 1 \in 1..Len(x) /\ L + 2 \in 1..Len(x) /\ \A i \in 1..L : i \in 1..Len(x)
      BY <2>2, <1>1
    <3>. QED  BY <3>1, <2>3, <2>5
  <2>. QED  BY <1>1, <2>1, <2>6, <2>7 DEF w, e
<1>6. CASE w = v
  BY <1>1, <1>6 DEF w
<1>7. CASE w = Append(v, Part(m.id, "user")) \/ w = Append(v, Part(m.id, "text"))
  BY <1>1, <1>2, <1>4, <1>7 DEF w
<1>. QED  BY <1>3, <1>5, <1>6, <1>7

(* The ids of a said are ids of these records.                                                *)
FromRecords(said, recs, n) ==
  \A i \in DOMAIN said : \E p \in 1..n : said[i].id = recs[p].id

Ordered(recs) == \A i, j \in DOMAIN recs : i < j => recs[i].id < recs[j].id

(* One record more keeps calls, returns and answers together, and in order.                      *)
LEMMA AddRecordWell ==
  ASSUME NEW recs \in Seq(Recs), NEW k \in Nat, k + 1 <= Len(recs), Ordered(recs),
         NEW v \in Seq(Messages), Paired(v), InOrder(v), FromRecords(v, recs, k)
  PROVE  LET w == AddRecord(v, recs[k + 1])
         IN Paired(w) /\ InOrder(w) /\ FromRecords(w, recs, k + 1)
<1>. DEFINE m == recs[k + 1]
            w == AddRecord(v, m)
            L == Len(v)
<1>1. m \in Recs /\ L \in Nat /\ k + 1 \in DOMAIN recs /\ m.id \in Nat
  <2>1. k + 1 \in 1..Len(recs)
    OBVIOUS
  <2>2. m \in Recs
    BY <2>1
  <2>. QED  BY <2>1, <2>2, RecFields
<1>. HIDE DEF m
<1>2. /\ w \in Seq(Messages)
      /\ \A i \in 1..L : w[i] = v[i]
      /\ \/ w = v
         \/ Len(w) = L + 1 /\ w[L + 1] \in {Part(m.id, "user"), Part(m.id, "text")}
         \/ /\ Len(w) = L + 3
            /\ w[L + 1] = Part(m.id, "call") /\ w[L + 2] = Part(m.id, "return")
            /\ w[L + 3] = Part(m.id, "text")
  BY <1>1, AddRecordFacts
<1>. HIDE DEF w
<1>3. DOMAIN w = 1..Len(w) /\ DOMAIN v = 1..L /\ Len(w) \in Nat
  BY <1>2
<1>3a. \A i \in 1..L : w[i] = v[i]
  BY <1>2
<1>3b. L <= Len(w)
  BY <1>1, <1>2
<1>4. ASSUME NEW i \in DOMAIN w, i > L PROVE w[i].id = m.id
  <2>1. Len(w) = L + 1 => i = L + 1
    BY <1>1, <1>3, <1>4
  <2>2. Len(w) = L + 3 => i \in {L + 1, L + 2, L + 3}
    BY <1>1, <1>3, <1>4
  <2>3. w # v
    BY <1>1, <1>3, <1>4
  <2>4. \A part : Part(m.id, part).id = m.id
    BY DEF Part
  <2>. QED  BY <1>2, <2>1, <2>2, <2>3, <2>4
<1>5. ASSUME NEW i \in DOMAIN w PROVE i <= L => i \in DOMAIN v /\ w[i] = v[i]
  <2>1. i <= L => i \in 1..L
    BY <1>1, <1>3
  <2>. QED  BY <2>1, <1>3, <1>3a
<1>6. ASSUME NEW i \in DOMAIN v PROVE v[i].id < m.id
  <2>1. PICK p \in 1..k : v[i].id = recs[p].id
    BY DEF FromRecords
  <2>2. p \in DOMAIN recs /\ p < k + 1
    OBVIOUS
  <2>. QED  BY <2>1, <2>2, <1>1 DEF Ordered, m
<1>7. Paired(w)
  <2>1. \A i \in 1..L : i < L => i < Len(w)
    BY <1>1, <1>3, <1>3b
  <2>2. ASSUME NEW i \in DOMAIN w, w[i].part = "call"
        PROVE  i < Len(w) /\ w[i + 1] = Part(w[i].id, "return")
    <3>1. CASE i <= L
      <4>1. i \in DOMAIN v /\ w[i] = v[i]
        BY <3>1, <1>5
      <4>2. i < L /\ v[i + 1] = Part(v[i].id, "return")
        BY <4>1, <2>2 DEF Paired
      <4>3. i + 1 \in 1..L
        BY <4>1, <4>2, <1>1, <1>3
      <4>. QED  BY <4>1, <4>2, <4>3, <2>1, <1>3, <1>3a
    <3>2. CASE i > L
      <4>1. i = L + 1 /\ Len(w) = L + 3
        <5>1. Len(w) = L + 1 => i = L + 1
          BY <1>1, <1>3, <3>2
        <5>2. Len(w) = L + 3 => i \in {L + 1, L + 2, L + 3}
          BY <1>1, <1>3, <3>2
        <5>3. w # v
          BY <1>1, <1>3, <3>2
        <5>. QED  BY <1>2, <5>1, <5>2, <5>3, <2>2 DEF Part
      <4>2. w[L + 1].id = m.id
        BY <1>4, <3>2, <4>1
      <4>3. Len(w) # L + 1 /\ w # v /\ (L + 1) + 1 = L + 2
        BY <4>1, <1>1, <1>3
      <4>. QED  BY <4>1, <4>2, <4>3, <1>2, <1>1
    <3>. QED  BY <3>1, <3>2, <1>1, <1>3
  <2>3. ASSUME NEW i \in DOMAIN w, w[i].part = "return"
        PROVE  /\ i > 1 /\ w[i - 1] = Part(w[i].id, "call")
               /\ i < Len(w) /\ w[i + 1] = Part(w[i].id, "text")
    <3>1. CASE i <= L
      <4>1. i \in DOMAIN v /\ w[i] = v[i]
        BY <3>1, <1>5
      <4>2. /\ i > 1 /\ v[i - 1] = Part(v[i].id, "call")
            /\ i < L /\ v[i + 1] = Part(v[i].id, "text")
        BY <4>1, <2>3 DEF Paired
      <4>3. i + 1 \in 1..L /\ i - 1 \in 1..L
        BY <4>1, <4>2, <1>1, <1>3
      <4>. QED  BY <4>1, <4>2, <4>3, <2>1, <1>3, <1>3a
    <3>2. CASE i > L
      <4>1. i = L + 2 /\ Len(w) = L + 3
        <5>1. Len(w) = L + 1 => i = L + 1
          BY <1>1, <1>3, <3>2
        <5>2. Len(w) = L + 3 => i \in {L + 1, L + 2, L + 3}
          BY <1>1, <1>3, <3>2
        <5>3. w # v
          BY <1>1, <1>3, <3>2
        <5>. QED  BY <1>2, <5>1, <5>2, <5>3, <2>3 DEF Part
      <4>2. w[L + 2].id = m.id
        BY <1>4, <3>2, <4>1
      <4>3. Len(w) # L + 1 /\ w # v /\ (L + 2) + 1 = L + 3 /\ (L + 2) - 1 = L + 1
            /\ L + 2 > 1 /\ L + 2 < L + 3
        BY <4>1, <1>1, <1>3
      <4>. QED  BY <4>1, <4>2, <4>3, <1>2, <1>1
    <3>. QED  BY <3>1, <3>2, <1>1, <1>3
  <2>. QED  BY <2>2, <2>3 DEF Paired
<1>8. InOrder(w)
  <2>. SUFFICES ASSUME NEW i \in DOMAIN w, NEW j \in DOMAIN w, i < j
                PROVE  w[i].id <= w[j].id /\ w[i] # w[j]
    BY DEF InOrder
  <2>1. CASE j <= L
    <3>1. i <= L
      BY <2>1, <1>1, <1>3
    <3>. QED  BY <2>1, <3>1, <1>5 DEF InOrder
  <2>2. CASE j > L
    <3>1. w[j].id = m.id
      BY <2>2, <1>4
    <3>2. CASE i <= L
      <4>1. i \in DOMAIN v /\ w[i].id = v[i].id
        BY <3>2, <1>5
      <4>2. v[i].id < m.id /\ v[i].id \in Nat
        <5>1. v[i] \in Messages
          BY <4>1
        <5>. QED  BY <4>1, <5>1, <1>6, MessageFields
      <4>. QED  BY <4>1, <4>2, <3>1, <1>1
    <3>3. CASE i > L
      <4>1. w[i].id <= w[j].id
        BY <3>1, <3>3, <1>4, <1>1
      <4>2. Len(w) = L + 3 /\ w # v
        <5>1. j \in Nat /\ j >= L + 2 /\ j <= Len(w) /\ Len(w) \in Nat
          BY <3>3, <1>1, <1>3
        <5>2. Len(w) >= L + 2
          BY <5>1, <1>1, <1>3
        <5>. QED  BY <5>2, <1>1, <1>2
      <4>3. \/ i = L + 1 /\ j \in {L + 2, L + 3}
            \/ i = L + 2 /\ j = L + 3
        BY <4>2, <3>3, <1>1, <1>3
      <4>4. /\ w[L + 1].part = "call" /\ w[L + 2].part = "return"
            /\ w[L + 3].part = "text"
        <5>1. /\ w[L + 1] = Part(m.id, "call") /\ w[L + 2] = Part(m.id, "return")
              /\ w[L + 3] = Part(m.id, "text")
          BY <4>2, <1>1, <1>2
        <5>. QED  BY <5>1 DEF Part
      <4>. QED  BY <4>1, <4>3, <4>4
    <3>. QED  BY <3>2, <3>3, <1>1, <1>3
  <2>. QED  BY <2>1, <2>2, <1>1, <1>3
<1>9. FromRecords(w, recs, k + 1)
  <2>. SUFFICES ASSUME NEW i \in DOMAIN w
                PROVE  \E p \in 1..(k + 1) : w[i].id = recs[p].id
    BY DEF FromRecords
  <2>1. CASE i <= L
    <3>1. PICK p \in 1..k : v[i].id = recs[p].id
      BY <2>1, <1>5 DEF FromRecords
    <3>2. p \in 1..(k + 1) /\ w[i] = v[i]
      BY <2>1, <1>5
    <3>. QED  BY <3>1, <3>2
  <2>2. CASE i > L
    <3>1. w[i].id = recs[k + 1].id /\ k + 1 \in 1..(k + 1)
      BY <2>2, <1>4 DEF m
    <3>. QED  BY <3>1
  <2>. QED  BY <2>1, <2>2, <1>1, <1>3
<1>. QED  BY <1>7, <1>8, <1>9 DEF w, m

(* What is built of records that are in order begins with a user, is paired, in order, and of     *)
(* these records only.                                                                           *)
LEMMA BuildFacts ==
  ASSUME NEW recs \in Seq(Recs), Ordered(recs)
  PROVE  LET b == Build(recs)
         IN /\ b \in Seq(Messages) /\ Paired(b) /\ InOrder(b)
            /\ FromRecords(b, recs, Len(recs))
            /\ b # << >> => b[1].part = "user"
<1>. DEFINE n == Len(recs)
            all == FoldLeft(AddRecord, << >>, recs)
<1>1. n \in Nat
  OBVIOUS
<1>2. PICK h \in [0..n -> Seq(Messages)] :
        /\ h[0] = << >>
        /\ \A i \in 1..n : h[i] = AddRecord(h[i - 1], recs[i])
        /\ all = h[n]
  BY BuildUnwinds
<1>. DEFINE Well(k) == Paired(h[k]) /\ InOrder(h[k]) /\ FromRecords(h[k], recs, k)
            K == {k \in Nat : k <= n => Well(k)}
<1>3. 0 \in K
  <2>1. DOMAIN << >> = {}
    OBVIOUS
  <2>2. Paired(<< >>) /\ InOrder(<< >>) /\ FromRecords(<< >>, recs, 0)
    BY <2>1 DEF Paired, InOrder, FromRecords
  <2>. QED  BY <1>2, <2>2
<1>4. ASSUME NEW k \in Nat, k \in K PROVE k + 1 \in K
  <2>. SUFFICES ASSUME k + 1 <= n PROVE Well(k + 1)
    OBVIOUS
  <2>. HIDE DEF Well
  <2>1. k \in 0..n /\ k + 1 \in 1..n /\ (k + 1) - 1 = k /\ Well(k)
    BY <1>1, <1>4
  <2>2. h[k + 1] = AddRecord(h[k], recs[k + 1]) /\ h[k] \in Seq(Messages)
    BY <1>2, <2>1
  <2>3. Paired(h[k]) /\ InOrder(h[k]) /\ FromRecords(h[k], recs, k)
    BY <2>1 DEF Well
  <2>. DEFINE v == h[k]
  <2>4. v \in Seq(Messages) /\ Paired(v) /\ InOrder(v) /\ FromRecords(v, recs, k)
    BY <2>2, <2>3
  <2>. HIDE DEF v
  <2>5. LET w == AddRecord(v, recs[k + 1])
        IN Paired(w) /\ InOrder(w) /\ FromRecords(w, recs, k + 1)
    BY <2>4, AddRecordWell
  <2>. QED  BY <2>2, <2>5 DEF v, Well
<1>. HIDE DEF K
<1>5. n \in K
  BY <1>1, <1>3, <1>4, Induction
<1>. HIDE DEF Well
<1>6. Well(n)
  BY <1>5, <1>1 DEF K
<1>7. all \in Seq(Messages) /\ Paired(all) /\ InOrder(all) /\ FromRecords(all, recs, n)
  BY <1>6, <1>2, <1>1 DEF Well
<1>. HIDE DEF all
<1>8. PICK u \in 1..(Len(all) + 1) :
        /\ LegalHead(all) = Since(all, u)
        /\ u <= Len(all) => all[u].part = "user"
  BY <1>7, LegalHeadFacts
<1>. DEFINE b == Build(recs)
<1>9. b = Since(all, u)
  BY <1>8 DEF Build, all
<1>. HIDE DEF b
<1>10. Paired(b) /\ InOrder(b)
  BY <1>7, <1>8, <1>9, SuffixPaired
<1>11. /\ b \in Seq(Messages) /\ Len(b) = Len(all) - u + 1
       /\ \A i \in 1..(Len(all) - u + 1) : b[i] = all[u + i - 1]
  BY <1>7, <1>9, SuffixFacts
<1>12. FromRecords(b, recs, n)
  <2>. SUFFICES ASSUME NEW i \in DOMAIN b PROVE \E p \in 1..n : b[i].id = recs[p].id
    BY DEF FromRecords
  <2>1. i \in 1..(Len(all) - u + 1) /\ u + i - 1 \in DOMAIN all
    BY <1>7, <1>11
  <2>2. b[i] = all[u + i - 1]
    BY <2>1, <1>11
  <2>. QED  BY <2>1, <2>2, <1>7 DEF FromRecords
<1>13. b # << >> => b[1].part = "user"
  <2>. SUFFICES ASSUME b # << >> PROVE b[1].part = "user"
    OBVIOUS
  <2>1. Len(b) >= 1
    BY <1>11
  <2>2. 1 \in 1..(Len(all) - u + 1) /\ u + 1 - 1 = u /\ u <= Len(all)
    BY <2>1, <1>7, <1>11
  <2>3. b[1] = all[u]
    BY <2>2, <1>11
  <2>. QED  BY <2>2, <2>3, <1>8
<1>. QED  BY <1>10, <1>11, <1>12, <1>13 DEF b

(* A sum that starts later is not larger.                                                        *)
Sums(h, n, base, C, off) ==
  /\ h \in [0..n -> Nat]
  /\ h[0] = base
  /\ \A i \in 1..n : h[i] = h[i - 1] + C[off + i]

LEMMA LaterSum ==
  ASSUME NEW N \in Nat, NEW n \in Nat, NEW off \in Nat, off + n = N, NEW base \in Nat,
         NEW C \in [1..N -> Nat], NEW h, Sums(h, N, base, C, 0), NEW g, Sums(g, n, base, C, off)
  PROVE  g[n] <= h[N] /\ g[n] \in Nat /\ h[N] \in Nat
<1>. /\ h \in [0..N -> Nat] /\ h[0] = base /\ g \in [0..n -> Nat] /\ g[0] = base
     /\ \A i \in 1..N : h[i] = h[i - 1] + C[i]
     /\ \A i \in 1..n : g[i] = g[i - 1] + C[off + i]
  BY DEF Sums
<1>. DEFINE P == {i \in Nat : i <= N => h[i] >= base}
            K == {i \in Nat : i <= n => g[i] <= h[off + i]}
<1>1. off \in P
  <2>1. 0 \in P
    OBVIOUS
  <2>2. ASSUME NEW i \in Nat, i \in P PROVE i + 1 \in P
    <3>. SUFFICES ASSUME i + 1 <= N PROVE h[i + 1] >= base
      OBVIOUS
    <3>1. i + 1 \in 1..N /\ (i + 1) - 1 = i /\ i \in 0..N /\ h[i] >= base
      BY <2>2
    <3>. QED  BY <3>1
  <2>. HIDE DEF P
  <2>. QED  BY <2>1, <2>2, Induction
<1>2. 0 \in K
  BY <1>1
<1>3. ASSUME NEW i \in Nat, i \in K PROVE i + 1 \in K
  <2>. SUFFICES ASSUME i + 1 <= n PROVE g[i + 1] <= h[off + (i + 1)]
    OBVIOUS
  <2>1. i + 1 \in 1..n /\ (i + 1) - 1 = i /\ i \in 0..n /\ g[i] <= h[off + i]
    BY <1>3
  <2>2. off + (i + 1) \in 1..N /\ (off + (i + 1)) - 1 = off + i /\ off + i \in 0..N
    BY <2>1
  <2>3. g[i + 1] = g[i] + C[off + (i + 1)] /\ h[off + (i + 1)] = h[off + i] + C[off + (i + 1)]
    BY <2>1, <2>2
  <2>. QED  BY <2>1, <2>2, <2>3, SMTT(30)
<1>. HIDE DEF K
<1>4. n \in K
  BY <1>2, <1>3, Induction
<1>5. g[n] <= h[off + n]
  BY <1>4 DEF K
<1>6. n \in 0..n /\ N \in 0..N
  OBVIOUS
<1>. QED  BY <1>5, <1>6

(* What is left off in front makes a said cheaper.                                            *)
LEMMA SuffixCheaper ==
  ASSUME NEW s \in Seq(Messages), NEW k \in 1..(Len(s) + 1)
  PROVE  Bytes(s) \in Nat /\ Bytes(Since(s, k)) \in Nat /\ Bytes(Since(s, k)) <= Bytes(s)
<1>. DEFINE t == Since(s, k)
            N == Len(s)
            n == Len(t)
            off == k - 1
            C == [i \in 1..N |-> Cost[s[i].part]]
<1>1. /\ t \in Seq(Messages) /\ Len(t) = Len(s) - k + 1
      /\ \A i \in 1..(Len(s) - k + 1) : t[i] = s[k + i - 1]
  BY SuffixFacts
<1>2. n \in Nat /\ off \in Nat /\ off + n = N /\ N \in Nat
  BY <1>1
<1>3. ASSUME NEW i \in 1..n PROVE t[i] = s[off + i] /\ off + i \in 1..N
  <2>. HIDE DEF t
  <2>1. i \in 1..(Len(s) - k + 1)
    BY <1>1
  <2>2. off + i = k + i - 1 /\ off + i \in 1..Len(s)
    BY <2>1
  <2>. QED  BY <2>1, <2>2, <1>1
<1>4. PICK h \in [0..Len(s) -> Nat] :
        /\ h[0] = 1
        /\ \A i \in 1..Len(s) : h[i] = h[i - 1] + Cost[s[i].part]
        /\ Bytes(s) = h[Len(s)]
  BY BytesUnwinds
<1>. HIDE DEF t
<1>5. PICK g \in [0..Len(t) -> Nat] :
        /\ g[0] = 1
        /\ \A i \in 1..Len(t) : g[i] = g[i - 1] + Cost[t[i].part]
        /\ Bytes(t) = g[Len(t)]
  BY <1>1, BytesUnwinds
<1>6. C \in [1..N -> Nat]
  BY MessageFields, HistoryAssumption DEF HistoryAssumption
<1>7. Sums(h, N, 1, C, 0)
  BY <1>2, <1>4 DEF Sums
<1>8. Sums(g, n, 1, C, off)
  BY <1>3, <1>5 DEF Sums
<1>9. Bytes(s) = h[N] /\ Bytes(t) = g[n] /\ 1 \in Nat
  BY <1>4, <1>5
<1>. HIDE DEF N, n, off, C
<1>10. g[n] <= h[N] /\ g[n] \in Nat /\ h[N] \in Nat
  BY <1>2, <1>6, <1>7, <1>8, <1>9, LaterSum, Zenon
<1>. QED  BY <1>9, <1>10 DEF t

(* What is left when it is trimmed fits the budget, begins with a user again, and leaves out no   *)
(* request that could have been told with all behind it.                                         *)
LEMMA TrimFacts ==
  ASSUME NEW b \in Seq(Messages), Paired(b), InOrder(b), b # << >> => b[1].part = "user"
  PROVE  \E i \in 1..(Len(b) + 1) :
           LET said == Since(b, i)
           IN /\ Trim(b) = said
              /\ \A j \in 1..(i - 1) : b[j].part = "user" => Bytes(Since(b, j)) > MaxBytes
              /\ said # << >> => said[1].part = "user" /\ Bytes(said) <= MaxBytes
              /\ Paired(said) /\ InOrder(said)
<1>. DEFINE Room(i) == Bytes(Since(b, i)) <= MaxBytes \/ i > Len(b)
            T == {i \in 1..(Len(b) + 1) : Room(i)}
            Cheap(i) == /\ Room(i)
                        /\ \A j \in 1..(i - 1) : Bytes(Since(b, j)) > MaxBytes
            c == CHOOSE i \in 1..(Len(b) + 1) : Cheap(i)
<1>1. Len(b) \in Nat /\ MaxBytes \in Nat
  BY HistoryAssumption DEF HistoryAssumption
<1>2. ASSUME NEW i \in 1..(Len(b) + 1) PROVE Bytes(Since(b, i)) \in Nat
  BY SuffixCheaper
<1>3. \E i \in 1..(Len(b) + 1) : Cheap(i)
  <2>1. Len(b) + 1 \in T
    BY <1>1
  <2>2. T \subseteq Nat /\ T # {}
    BY <2>1, <1>1
  <2>. HIDE DEF T
  <2>3. PICK i \in T : \A j \in T : i <= j
    BY <2>2, LeastNumber
  <2>4. i \in 1..(Len(b) + 1) /\ Room(i)
    BY <2>3 DEF T
  <2>5. ASSUME NEW j \in 1..(i - 1) PROVE Bytes(Since(b, j)) > MaxBytes
    <3>1. j \in 1..(Len(b) + 1) /\ ~(i <= j)
      BY <2>4, <1>1
    <3>2. ~Room(j)
      BY <3>1, <2>3 DEF T
    <3>. QED  BY <3>1, <3>2, <1>1, <1>2
  <2>. QED  BY <2>4, <2>5
<1>4. c \in 1..(Len(b) + 1) /\ Cheap(c)
  <2>. HIDE DEF Cheap
  <2>. QED  BY <1>3, Zenon
<1>5. Trim(b) = LegalHead(Since(b, c))
  BY DEF Trim
<1>. HIDE DEF c
<1>. DEFINE s == Since(b, c)
<1>6. /\ s \in Seq(Messages) /\ Len(s) = Len(b) - c + 1
      /\ \A i \in 1..(Len(b) - c + 1) : s[i] = b[c + i - 1]
  BY <1>4, SuffixFacts
<1>7. PICK u \in 1..(Len(s) + 1) :
        /\ LegalHead(s) = Since(s, u)
        /\ u <= Len(s) => s[u].part = "user"
        /\ \A i \in 1..(u - 1) : s[i].part # "user"
  BY <1>6, LegalHeadFacts
<1>. DEFINE i == c + u - 1
            said == Since(b, i)
<1>8. i \in 1..(Len(b) + 1) /\ u \in 1..(Len(b) - c + 2) /\ i >= c
  BY <1>1, <1>4, <1>6, <1>7
<1>9. Since(s, u) = said
  BY <1>4, <1>8, SuffixOfSuffix
<1>10. Trim(b) = said
  BY <1>5, <1>7, <1>9
<1>11. i <= Len(b) => b[i].part = "user"
  <2>. SUFFICES ASSUME i <= Len(b) PROVE b[i].part = "user"
    OBVIOUS
  <2>1. u <= Len(s) /\ u \in 1..(Len(b) - c + 1)
    BY <1>1, <1>4, <1>6, <1>7
  <2>. QED  BY <2>1, <1>6, <1>7
<1>12. Paired(said) /\ InOrder(said)
  <2>. HIDE DEF i
  <2>. QED  BY <1>8, <1>11, SuffixPaired
<1>13. ASSUME NEW j \in 1..(i - 1), b[j].part = "user" PROVE Bytes(Since(b, j)) > MaxBytes
  <2>1. CASE j < c
    BY <2>1, <1>4
  <2>2. CASE j >= c
    <3>1. j - c + 1 \in 1..(u - 1) /\ j - c + 1 \in 1..(Len(b) - c + 1)
          /\ c + (j - c + 1) - 1 = j
      BY <2>2, <1>1, <1>4, <1>6, <1>7, <1>8
    <3>2. s[j - c + 1] = b[j]
      BY <3>1, <1>6
    <3>. QED  BY <3>1, <3>2, <1>7, <1>13
  <2>. QED  BY <2>1, <2>2, <1>4
<1>14. /\ said \in Seq(Messages) /\ Len(said) = Len(b) - i + 1
       /\ \A j \in 1..(Len(b) - i + 1) : said[j] = b[i + j - 1]
  <2>. HIDE DEF i
  <2>. QED  BY <1>8, SuffixFacts
<1>15. ASSUME said # << >> PROVE said[1].part = "user" /\ Bytes(said) <= MaxBytes
  <2>1. i <= Len(b)
    <3>1. Len(said) >= 1
      <4>. HIDE DEF said
      <4>. QED  BY <1>14, <1>15
    <3>. QED  BY <3>1, <1>14, <1>1, <1>8
  <2>2. said[1] = b[i]
    <3>1. 1 \in 1..(Len(b) - i + 1) /\ i + 1 - 1 = i
      BY <2>1, <1>1, <1>8
    <3>. QED  BY <3>1, <1>14
  <2>3. c <= Len(b)
    BY <2>1, <1>8, <1>1, <1>4, <1>7
  <2>4. Bytes(s) <= MaxBytes /\ Bytes(s) \in Nat
    BY <2>3, <1>4, <1>1, <1>2
  <2>5. Bytes(Since(s, u)) <= Bytes(s) /\ Bytes(Since(s, u)) \in Nat
    <3>. HIDE DEF s
    <3>. QED  BY <1>6, <1>7, SuffixCheaper
  <2>6. Bytes(said) <= MaxBytes
    BY <2>4, <2>5, <1>9, <1>1
  <2>. QED  BY <2>1, <2>2, <2>6, <1>11
<1>. HIDE DEF i
<1>. QED  BY <1>8, <1>10, <1>12, <1>13, <1>15

(* What is kept of a page is in order, and every record of it is one of the page.                *)
LEMMA ProjectedFacts ==
  ASSUME NEW page \in Seq(Recs), Ordered(page)
  PROVE  LET kept == Projected(page)
         IN kept \in Seq(Recs) /\ Ordered(kept) /\ FromRecords(kept, page, Len(page))
<1>1. PICK h \in [0..Len(page) -> Seq(Recs)] :
        /\ h[0] = << >>
        /\ \A i \in 1..Len(page) : h[i] = Keep(h[i - 1], page[i])
        /\ Projected(page) = h[Len(page)]
  BY ProjectedUnwinds
<1>. DEFINE Good(v, i) == v \in Seq(Recs) /\ Ordered(v) /\ FromRecords(v, page, i)
            K == {i \in Nat : i <= Len(page) => Good(h[i], i)}
<1>2. Len(page) \in Nat
  OBVIOUS
<1>3. 0 \in K
  BY <1>1 DEF Ordered, FromRecords
<1>4. ASSUME NEW i \in Nat, i \in K PROVE i + 1 \in K
  <2>. SUFFICES ASSUME i + 1 <= Len(page) PROVE Good(h[i + 1], i + 1)
    OBVIOUS
  <2>. DEFINE v == h[i]
              m == page[i + 1]
              w == Append(v, Record(m))
  <2>1. i + 1 \in 1..Len(page) /\ (i + 1) - 1 = i /\ i <= Len(page)
    BY <1>2
  <2>2. v \in Seq(Recs) /\ Ordered(v) /\ FromRecords(v, page, i)
    BY <1>4, <2>1
  <2>3. h[i + 1] = IF m.kind = "step" THEN v ELSE w
    BY <1>1, <2>1 DEF Keep
  <2>4. m \in Recs /\ Record(m) \in Recs /\ Record(m).id = m.id
    BY <2>1, RecordType
  <2>. HIDE DEF v, m
  <2>5. FromRecords(v, page, i + 1)
    BY <2>2 DEF FromRecords
  <2>6. w \in Seq(Recs) /\ Len(w) = Len(v) + 1 /\ w[Len(v) + 1] = Record(m)
        /\ \A a \in 1..Len(v) : w[a] = v[a]
    BY <2>2, <2>4
  <2>7. Ordered(w)
    <3>. SUFFICES ASSUME NEW a \in DOMAIN w, NEW b \in DOMAIN w, a < b
                  PROVE  w[a].id < w[b].id
      BY DEF Ordered
    <3>1. a \in 1..Len(v) /\ (b \in 1..Len(v) \/ b = Len(v) + 1)
      BY <2>6, <2>2
    <3>2. CASE b \in 1..Len(v)
      BY <3>1, <3>2, <2>2, <2>6 DEF Ordered
    <3>3. CASE b = Len(v) + 1
      <4>1. PICK p \in 1..i : v[a].id = page[p].id
        BY <3>1, <2>2 DEF FromRecords
      <4>2. p \in DOMAIN page /\ i + 1 \in DOMAIN page /\ p < i + 1
        BY <2>1
      <4>3. page[p].id < m.id
        BY <4>2 DEF Ordered, m
      <4>. QED  BY <4>1, <4>3, <3>1, <3>3, <2>4, <2>6
    <3>. QED  BY <3>1, <3>2, <3>3
  <2>8. FromRecords(w, page, i + 1)
    <3>. SUFFICES ASSUME NEW a \in DOMAIN w PROVE \E p \in 1..(i + 1) : w[a].id = page[p].id
      BY DEF FromRecords
    <3>1. CASE a \in 1..Len(v)
      <4>1. w[a] = v[a] /\ a \in DOMAIN v
        BY <3>1, <2>2, <2>6
      <4>2. \E p \in 1..(i + 1) : v[a].id = page[p].id
        BY <4>1, <2>5 DEF FromRecords
      <4>. QED  BY <4>1, <4>2
    <3>2. CASE a = Len(v) + 1
      <4>1. w[a].id = page[i + 1].id /\ i + 1 \in 1..(i + 1)
        BY <3>2, <2>4, <2>6 DEF m
      <4>. QED  BY <4>1
    <3>. QED  BY <3>1, <3>2, <2>6, <2>2
  <2>9. CASE m.kind = "step"
    BY <2>9, <2>3, <2>2, <2>5 DEF v
  <2>10. CASE m.kind # "step"
    BY <2>10, <2>3, <2>6, <2>7, <2>8
  <2>. QED  BY <2>9, <2>10
<1>. HIDE DEF K
<1>5. Len(page) \in K
  BY <1>2, <1>3, <1>4, Induction
<1>. QED  BY <1>1, <1>2, <1>5 DEF K

First(t) == IF trigger[t] > Limit THEN trigger[t] - Limit ELSE 1

(* The page of a fetch: the messages from First(t) on, up to the one that calls.                 *)
LEMMA PageFacts ==
  ASSUME HistoryTypeOK, NEW t \in Fetches, trigger[t] <= Len(posts), trigger[t] >= 1
  PROVE  /\ First(t) \in 1..trigger[t] /\ trigger[t] \in Nat /\ Len(posts) \in Nat
         /\ Page(t) \in Seq(Recs) /\ Len(Page(t)) = trigger[t] - First(t)
         /\ \A i \in 1..(trigger[t] - First(t)) : /\ Page(t)[i].id = First(t) + i - 1
                                                  /\ Page(t)[i].kind = posts[First(t) + i - 1]
<1>1. trigger[t] \in Nat /\ trigger[t] <= MaxPosts /\ Limit \in Nat \ {0} /\ MaxPosts \in Nat
      /\ Len(posts) \in Nat /\ Len(posts) <= MaxPosts
      /\ \A m \in 1..Len(posts) : posts[m] \in PostKinds
  BY HistoryAssumption DEF HistoryTypeOK, HistoryAssumption
<1>2. First(t) \in 1..trigger[t]
  BY <1>1 DEF First
<1>. DEFINE a == First(t)
            n == trigger[t] - a
            F(i) == [id |-> a + i - 1, kind |-> posts[a + i - 1]]
<1>3. Page(t) = [i \in 1..n |-> F(i)]
  BY DEF Page, First
<1>4. n \in Nat /\ a \in Nat /\ n = trigger[t] - First(t)
  BY <1>1, <1>2
<1>5. ASSUME NEW i \in 1..n
      PROVE  F(i) \in Recs /\ F(i).id = a + i - 1 /\ F(i).kind = posts[a + i - 1]
  <2>1. a + i - 1 \in 0..MaxPosts /\ a + i - 1 \in 1..Len(posts)
    BY <1>1, <1>2
  <2>2. posts[a + i - 1] \in PostKinds
    BY <2>1, <1>1
  <2>. QED  BY <2>1, <2>2 DEF Recs
<1>. HIDE DEF a, n, F
<1>6. Page(t) \in Seq(Recs) /\ Len(Page(t)) = n /\ \A i \in 1..n : Page(t)[i] = F(i)
  BY <1>3, <1>4, <1>5
<1>. QED  BY <1>1, <1>2, <1>4, <1>5, <1>6 DEF a

(* The starter in the parent channel that calls has no page. *)
LEMMA NoPage ==
  ASSUME HistoryTypeOK, NEW t \in Fetches, trigger[t] = 0
  PROVE  Page(t) = << >>
<1>1. Limit \in Nat
  BY HistoryAssumption DEF HistoryAssumption
<1>2. DOMAIN Page(t) = {}
  BY <1>1 DEF Page
<1>3. Page(t) = [i \in DOMAIN Page(t) |-> Page(t)[i]]
  BY DEF Page
<1>. QED  BY <1>2, <1>3

(* With the starter in front or without it.  A marker that a message of the page is gone for is  *)
(* behind it on the page.                                                                        *)
LEMMA WholePage ==
  ASSUME HistoryTypeOK, NEW t \in Fetches, trigger[t] <= Len(posts), trigger[t] >= 1,
         NEW pre \in {<< >>, <<[id |-> StarterId, kind |-> Kind(StarterId)]>>},
         pre # << >> => /\ starter # "none" /\ StarterId < trigger[t]
                        /\ \A i \in DOMAIN Page(t) : Page(t)[i].id # StarterId
  PROVE  LET page == pre \o Page(t)
         IN /\ page \in Seq(Recs) /\ Ordered(page)
            /\ \A i \in DOMAIN page :
                 /\ page[i].id < trigger[t]
                 /\ Gone(t, page[i].id) =>
                      \E j \in DOMAIN page : i < j /\ page[j].kind = "marker"
<1>. DEFINE P == Page(t)
            a == First(t)
            n == trigger[t] - a
            off == Len(pre)
            page == pre \o P
<1>1. /\ a \in 1..trigger[t] /\ trigger[t] \in Nat /\ Len(posts) \in Nat
      /\ P \in Seq(Recs) /\ Len(P) = n
      /\ \A i \in 1..n : P[i].id = a + i - 1 /\ P[i].kind = posts[a + i - 1]
  BY PageFacts
<1>2. n \in Nat /\ a \in Nat /\ trigger[t] \in Nat /\ a + n = trigger[t] /\ a >= 1
  BY <1>1
<1>2a. StarterId \in 0..1
  BY DEF StarterId
<1>3. /\ pre \in Seq(Recs) /\ off \in 0..1 /\ \A i \in 1..off : pre[i].id = StarterId
      /\ off = 1 => StarterId < trigger[t] /\ \A i \in 1..n : P[i].id # StarterId
  <2>2. CASE pre = << >>
    BY <2>2
  <2>3. CASE pre # << >>
    <3>. DEFINE rec == [id |-> StarterId, kind |-> Kind(StarterId)]
    <3>0. /\ pre = <<rec>> /\ starter # "none" /\ StarterId < trigger[t]
          /\ \A i \in DOMAIN P : P[i].id # StarterId
      BY <2>3
    <3>1. Kind(StarterId) \in PostKinds
      <4>1. CASE starter = "inside"
        <5>1. StarterId = 1 /\ 1 \in 1..Len(posts) /\ posts \in Seq(PostKinds)
          BY <4>1, <3>0, <1>1 DEF StarterId, HistoryTypeOK
        <5>. QED  BY <5>1 DEF Kind
      <4>2. CASE starter # "inside"
        BY <4>2, <3>0 DEF StarterId, Kind, HistoryTypeOK, Starters, PostKinds
      <4>. QED  BY <4>1, <4>2
    <3>2. StarterId \in 0..MaxPosts
      BY <3>0, <1>1, <1>2a, HistoryAssumption DEF HistoryTypeOK, HistoryAssumption
    <3>3. rec \in Recs /\ rec.id = StarterId
      BY <3>1, <3>2 DEF Recs
    <3>. HIDE DEF rec
    <3>4. pre \in Seq(Recs) /\ off = 1 /\ pre[1] = rec
      BY <3>0, <3>3
    <3>5. \A i \in 1..n : i \in DOMAIN P
      BY <1>1
    <3>. QED  BY <3>0, <3>3, <3>4, <3>5
  <2>. QED  BY <2>2, <2>3
<1>. HIDE DEF P, a, n
<1>4. /\ page \in Seq(Recs) /\ Len(page) = off + n
      /\ \A i \in 1..off : page[i] = pre[i]
      /\ \A i \in 1..n : page[off + i] = P[i]
  BY <1>1, <1>2, <1>3, ConcatProperties, SMTT(30)
<1>. HIDE DEF page, off
<1>5. ASSUME NEW i \in DOMAIN page
      PROVE  /\ i \in 1..(off + n) /\ i \in Nat
             /\ \/ i <= off /\ off = 1 /\ i = 1 /\ page[i].id = StarterId
                \/ /\ i > off /\ i - off \in 1..n
                   /\ page[i].id = a + (i - off) - 1 /\ page[i].kind = posts[a + (i - off) - 1]
  <2>1. i \in 1..(off + n)
    BY <1>4
  <2>2. CASE i <= off
    BY <2>1, <2>2, <1>3, <1>4
  <2>3. CASE i > off
    <3>1. i - off \in 1..n /\ off + (i - off) = i
      BY <2>1, <2>3, <1>2, <1>3
    <3>2. page[i] = P[i - off]
      BY <3>1, <1>4
    <3>. QED  BY <2>1, <2>3, <3>1, <3>2, <1>1
  <2>4. i \in Nat
    BY <2>1
  <2>. QED  BY <2>1, <2>2, <2>3, <2>4, <1>3
<1>6. Ordered(page)
  <2>. SUFFICES ASSUME NEW i \in DOMAIN page, NEW j \in DOMAIN page, i < j
                PROVE  page[i].id < page[j].id
    BY DEF Ordered
  <2>1. i \in Nat /\ j \in Nat
    BY <1>5
  <2>1a. off \in Nat /\ a \in Nat /\ a >= 1
    BY <1>2, <1>3
  <2>2. j > off /\ j - off \in 1..n /\ page[j].id = a + (j - off) - 1
    BY <1>5, <2>1, <2>1a, <1>3
  <2>3. CASE i <= off
    <3>1. off = 1 /\ page[i].id = StarterId
      BY <2>3, <1>5, <2>1, <2>1a
    <3>2. page[j].id = P[j - off].id
      BY <2>2, <1>1
    <3>3. page[j].id # StarterId
      BY <3>1, <3>2, <2>2, <1>3
    <3>4. page[j].id >= 1 /\ page[j].id \in Nat
      BY <2>1, <2>1a, <2>2
    <3>. QED  BY <3>1, <3>3, <3>4, <1>2a
  <2>4. CASE i > off
    <3>1. page[i].id = a + (i - off) - 1
      BY <2>4, <1>5, <2>1, <2>1a
    <3>. QED  BY <3>1, <2>1, <2>1a, <2>2
  <2>. QED  BY <2>1, <2>1a, <2>3, <2>4
<1>7. ASSUME NEW i \in DOMAIN page PROVE page[i].id < trigger[t]
  <2>1. i \in Nat
    BY <1>5
  <2>1a. off \in Nat /\ a \in Nat /\ a >= 1 /\ n \in Nat /\ a + n = trigger[t]
         /\ trigger[t] \in Nat
    BY <1>2, <1>3
  <2>2. \/ page[i].id = StarterId /\ StarterId < trigger[t]
        \/ i - off \in 1..n /\ page[i].id = a + (i - off) - 1
    BY <1>5, <1>3
  <2>. QED  BY <2>1, <2>1a, <2>2
<1>8. ASSUME NEW i \in DOMAIN page, Gone(t, page[i].id)
      PROVE  \E j \in DOMAIN page : i < j /\ page[j].kind = "marker"
  <2>1. \/ i = 1 /\ off = 1 /\ page[i].id = StarterId
        \/ i > off /\ i - off \in 1..n /\ page[i].id = a + (i - off) - 1
    BY <1>5
  <2>2. PICK m \in DOMAIN posts :
          /\ posts[m] = "marker" /\ page[i].id < m /\ m < trigger[t]
          /\ page[i].id = StarterId => trigger[t] <= m + Limit
    BY <1>8 DEF Gone
  <2>3. m \in Nat /\ i \in Nat /\ off \in Nat /\ a \in Nat /\ n \in Nat /\ trigger[t] \in Nat
        /\ a + n = trigger[t]
    <3>1. m \in 1..Len(posts)
      BY DEF HistoryTypeOK
    <3>2. m \in Nat
      BY <3>1, <1>1
    <3>3. i \in Nat
      BY <1>5
    <3>. QED  BY <3>2, <3>3, <1>2, <1>3
  <2>. DEFINE k == m - a + 1
  <2>4. k \in 1..n /\ a + k - 1 = m /\ off + k > i
    <3>1. m < a + n
      BY <2>2, <2>3
    <3>2. m >= a /\ off + k > i
      <4>1. CASE i = 1 /\ off = 1 /\ page[i].id = StarterId
        <5>1. trigger[t] <= m + Limit /\ m >= 1
          BY <4>1, <2>2, <2>3, <1>2a
        <5>2. m >= a
          BY <5>1, <2>3, HistoryAssumption DEF a, First, HistoryAssumption
        <5>. QED  BY <4>1, <5>2, <2>3
      <4>2. CASE i > off /\ i - off \in 1..n /\ page[i].id = a + (i - off) - 1
        <5>1. a + (i - off) - 1 < m
          BY <4>2, <2>2
        <5>2. \A o, r \in Nat : o > r /\ a + (o - r) - 1 < m => r + k > o
          BY <2>3
        <5>3. off + k > i
          BY <4>2, <5>1, <5>2, <2>3
        <5>. QED  BY <4>2, <5>1, <5>3, <2>3
      <4>. QED  BY <2>1, <4>1, <4>2
    <3>3. k \in 1..n /\ a + k - 1 = m
      BY <3>1, <3>2, <2>3
    <3>. QED  BY <3>2, <3>3
  <2>. HIDE DEF k
  <2>5. off + k \in 1..(off + n) /\ DOMAIN page = 1..(off + n)
    BY <2>3, <2>4, <1>4
  <2>6. page[off + k].kind = posts[m]
    BY <2>4, <1>4, <1>1
  <2>. QED  BY <2>2, <2>4, <2>5, <2>6
<1>. QED  BY <1>4, <1>6, <1>7, <1>8 DEF page, P

(* What _do_fetch leaves of it: nothing above a marker.                                          *)
LEMMA KeptOfPage ==
  ASSUME HistoryTypeOK, NEW t \in Fetches, trigger[t] <= Len(posts), records[t] = Page(t),
         NEW page \in {records[t]} \cup (IF starter = "none" THEN {} ELSE {WithStarter(t)})
  PROVE  LET recs == Projected(Cut(page))
         IN /\ recs \in Seq(Recs) /\ Ordered(recs)
            /\ \A i \in DOMAIN recs : recs[i].id < trigger[t] /\ ~Gone(t, recs[i].id)
<1>. DEFINE cut == Cut(page)
            recs == Projected(cut)
<1>1. /\ page \in Seq(Recs) /\ Ordered(page)
      /\ \A i \in DOMAIN page :
           /\ page[i].id < trigger[t]
           /\ Gone(t, page[i].id) =>
                \E j \in DOMAIN page : i < j /\ page[j].kind = "marker"
  <2>1. CASE trigger[t] = 0
    <3>1. ~(StarterId < trigger[t])
      BY <2>1 DEF StarterId
    <3>2. page = << >>
      BY <2>1, <3>1, NoPage DEF WithStarter
    <3>3. page \in Seq(Recs) /\ DOMAIN page = {}
      BY <3>2
    <3>. QED  BY <3>3 DEF Ordered
  <2>2. CASE trigger[t] # 0
    <3>1. trigger[t] >= 1
      BY <2>2 DEF HistoryTypeOK
    <3>2. CASE page = Page(t)
      <4>1. Page(t) \in Seq(Recs)
        BY <3>1, PageFacts
      <4>2. page = << >> \o Page(t)
        BY <3>2, <4>1, ConcatEmptySeq
      <4>. QED  BY <3>1, <4>2, WholePage
    <3>3. CASE page # Page(t)
      <4>1. /\ page = <<[id |-> StarterId, kind |-> Kind(StarterId)]>> \o Page(t)
            /\ starter # "none" /\ StarterId < trigger[t]
            /\ \A i \in DOMAIN Page(t) : Page(t)[i].id # StarterId
        BY <3>3 DEF WithStarter
      <4>. QED  BY <3>1, <4>1, WholePage
    <3>. QED  BY <3>2, <3>3
  <2>. QED  BY <2>1, <2>2
<1>2. PICK k \in 1..(Len(page) + 1) : /\ cut = Since(page, k)
                                      /\ \A i \in k..Len(page) : page[i].kind # "marker"
  BY <1>1, CutFacts
<1>3. /\ cut \in Seq(Recs) /\ Len(cut) = Len(page) - k + 1
      /\ \A i \in 1..(Len(page) - k + 1) : cut[i] = page[k + i - 1]
  <2>1. page \in Seq(Recs)
    BY <1>1
  <2>2. /\ Since(page, k) \in Seq(Recs) /\ Len(Since(page, k)) = Len(page) - k + 1
        /\ \A i \in 1..(Len(page) - k + 1) : Since(page, k)[i] = page[k + i - 1]
    BY <2>1, SuffixFacts
  <2>3. cut = Since(page, k)
    BY <1>2
  <2>. HIDE DEF cut
  <2>. QED  BY <2>2, <2>3
<1>. HIDE DEF cut
<1>4. Len(page) \in Nat /\ DOMAIN page = 1..Len(page) /\ DOMAIN cut = 1..(Len(page) - k + 1)
  BY <1>1, <1>3
<1>5. ASSUME NEW i \in DOMAIN cut
      PROVE  k + i - 1 \in DOMAIN page /\ k + i - 1 >= k /\ cut[i] = page[k + i - 1] /\ i \in Nat
  <2>1. i \in 1..(Len(page) - k + 1) /\ k \in Nat
    BY <1>4
  <2>2. k + i - 1 \in 1..Len(page) /\ k + i - 1 >= k /\ i \in Nat
    BY <2>1, <1>4
  <2>. QED  BY <2>1, <2>2, <1>3, <1>4
<1>6. Ordered(cut)
  <2>. SUFFICES ASSUME NEW i \in DOMAIN cut, NEW j \in DOMAIN cut, i < j
                PROVE  cut[i].id < cut[j].id
    BY DEF Ordered
  <2>1. k + i - 1 < k + j - 1
    BY <1>5
  <2>. QED  BY <2>1, <1>5, <1>1 DEF Ordered
<1>7. recs \in Seq(Recs) /\ Ordered(recs) /\ FromRecords(recs, cut, Len(cut))
  BY <1>3, <1>6, ProjectedFacts
<1>. HIDE DEF recs
<1>8. ASSUME NEW i \in DOMAIN recs
      PROVE  recs[i].id < trigger[t] /\ ~Gone(t, recs[i].id)
  <2>1. PICK p \in 1..Len(cut) : recs[i].id = cut[p].id
    BY <1>7 DEF FromRecords
  <2>. DEFINE q == k + p - 1
  <2>2. q \in DOMAIN page /\ q >= k /\ recs[i].id = page[q].id
    BY <2>1, <1>3, <1>4, <1>5
  <2>. HIDE DEF q
  <2>3. ASSUME Gone(t, recs[i].id) PROVE FALSE
    <3>1. PICK j \in DOMAIN page : q < j /\ page[j].kind = "marker"
      BY <2>2, <2>3, <1>1
    <3>2. j \in k..Len(page)
      BY <3>1, <2>2, <1>4
    <3>. QED  BY <3>1, <3>2, <1>2
  <2>. QED  BY <2>2, <2>3, <1>1
<1>. QED  BY <1>7, <1>8 DEF recs, cut

(***************************************************************************)
(* The inductive invariant                                                  *)
(***************************************************************************)

(* How far the fetch of a turn is: it was called, has a page, or has what is kept of it.         *)
FetchOf(t) ==
  /\ trigger[t] <= Len(posts)
  /\ stage[t] # "done" => built[t] = << >> /\ told[t] = << >>
  /\ stage[t] = "starter" => records[t] = Page(t)
  /\ stage[t] = "rows" =>
       /\ Ordered(records[t])
       /\ \A i \in DOMAIN records[t] :
            records[t][i].id < trigger[t] /\ ~Gone(t, records[t][i].id)

(* What the turn of message n, told said of b, may be told. *)
IsLegal(said, b, n) ==
  /\ said # << >> => said[1].part = "user" /\ Bytes(said) <= MaxBytes
  /\ Paired(said) /\ InOrder(said)
  /\ \A i \in DOMAIN said : said[i].id < n
  /\ \E i \in 1..(Len(b) + 1) :
       /\ said = Since(b, i)
       /\ \A j \in 1..(i - 1) : b[j].part = "user" => Bytes(Since(b, j)) > MaxBytes

LegalTo(t) == IsLegal(told[t], built[t], trigger[t])

GoneFor(t) == \A i \in DOMAIN told[t] : ~Gone(t, told[t][i].id)

TurnInv(t) == FetchOf(t) /\ LegalTo(t) /\ GoneFor(t)

HistoryInv == HistoryTypeOK /\ \A t \in Fetches : TurnInv(t)

(* The inductive invariant is what the properties need. *)
LEMMA InvImplies == HistoryInv => HistoryTypeOK /\ HistoryLegal /\ ClearedGone
BY DEF HistoryInv, TurnInv, LegalTo, IsLegal, GoneFor, HistoryLegal, ClearedGone

(* Nothing told is well told. *)
LEMMA NothingTold ==
  ASSUME NEW n
  PROVE  IsLegal(<< >>, << >>, n)
<1>. DEFINE e == << >>
<1>1. e \in Seq(Messages) /\ 1 \in 1..(Len(e) + 1) /\ DOMAIN e = {} /\ Len(e) = 0
  OBVIOUS
<1>2. e = Since(e, 1)
  <2>1. Since(e, 1) \in Seq(Messages) /\ Len(Since(e, 1)) = Len(e) - 1 + 1
    BY <1>1, SuffixFacts
  <2>. QED  BY <2>1
<1>. HIDE DEF e
<1>3. \E i \in 1..(Len(e) + 1) :
        /\ e = Since(e, i)
        /\ \A j \in 1..(i - 1) : e[j].part = "user" => Bytes(Since(e, j)) > MaxBytes
  BY <1>1, <1>2
<1>. QED  BY <1>1, <1>3 DEF IsLegal, Paired, InOrder, e

(* The thread only grows. *)
Grows ==
  /\ Len(posts) <= Len(posts')
  /\ \A m \in DOMAIN posts : posts'[m] = posts[m]
  /\ starter' = starter

(* The steps that post and those that do not. *)
LEMMA PostGrows ==
  ASSUME HistoryTypeOK, NEW kind \in PostKinds, Post(kind), UNCHANGED starter
  PROVE  /\ Grows /\ posts' \in Seq(PostKinds) /\ Len(posts') <= MaxPosts
         /\ Len(posts') \in Nat /\ Len(posts') >= 1
<1>1. posts \in Seq(PostKinds) /\ MaxPosts \in Nat
  BY HistoryAssumption DEF HistoryTypeOK, HistoryAssumption
<1>2. posts' = Append(posts, kind) /\ Len(posts) < MaxPosts
  BY DEF Post
<1>3. posts' \in Seq(PostKinds) /\ Len(posts') = Len(posts) + 1
      /\ \A m \in 1..Len(posts) : posts'[m] = posts[m]
  BY <1>1, <1>2
<1>. QED  BY <1>1, <1>2, <1>3 DEF Grows

LEMMA SameThread ==
  ASSUME HistoryTypeOK, UNCHANGED <<posts, starter>>
  PROVE  Grows
BY DEF HistoryTypeOK, Grows

(* What was cleared of what a turn may be told does not change as the thread grows.              *)
LEMMA ClearedKept ==
  ASSUME HistoryTypeOK, HistoryTypeOK', Grows,
         NEW t \in Fetches, trigger[t] <= Len(posts), trigger'[t] = trigger[t],
         NEW id
  PROVE  Gone(t, id)' <=> Gone(t, id)
<1>1. /\ DOMAIN posts = 1..Len(posts) /\ DOMAIN posts' = 1..Len(posts')
      /\ Len(posts) \in Nat /\ Len(posts') \in Nat /\ trigger[t] \in Nat
  BY HistoryAssumption DEF HistoryTypeOK, HistoryAssumption
<1>2. ASSUME NEW m \in DOMAIN posts', m < trigger[t] PROVE m \in DOMAIN posts
  BY <1>1, <1>2
<1>3. \A m \in DOMAIN posts : m \in DOMAIN posts' /\ posts'[m] = posts[m]
  BY <1>1 DEF Grows
<1>4. StarterId' = StarterId
  BY DEF Grows, StarterId
<1>. QED  BY <1>2, <1>3, <1>4 DEF Gone

(* Nor does its page. *)
LEMMA PageKept ==
  ASSUME HistoryTypeOK, HistoryTypeOK', Grows,
         NEW t \in Fetches, trigger[t] <= Len(posts), trigger'[t] = trigger[t]
  PROVE  Page(t)' = Page(t)
<1>. SUFFICES ASSUME trigger[t] >= 1 PROVE Page(t)' = Page(t)
  <2>1. CASE trigger[t] = 0
    <3>1. Page(t) = << >>
      BY <2>1, NoPage
    <3>2. DOMAIN Page(t)' = {} /\ Page(t)' = [i \in DOMAIN Page(t)' |-> Page(t)'[i]]
      BY <2>1, HistoryAssumption DEF Page, HistoryAssumption
    <3>3. Page(t)' = << >>
      BY <3>2
    <3>. QED  BY <3>1, <3>3
  <2>. QED  BY <2>1 DEF HistoryTypeOK
<1>0. DOMAIN posts = 1..Len(posts)
  BY DEF HistoryTypeOK
<1>1. Len(posts) \in Nat /\ trigger[t] \in Nat /\ First(t) \in 1..trigger[t]
  BY PageFacts
<1>. DEFINE n == trigger[t] - First(t)
            P == [i \in 1..n |-> [id |-> First(t) + i - 1, kind |-> posts[First(t) + i - 1]]]
            Q == [i \in 1..n |-> [id |-> First(t) + i - 1, kind |-> posts'[First(t) + i - 1]]]
<1>2. Page(t) = P
  BY DEF Page, First
<1>3. Page(t)' = Q
  BY DEF Page, First
<1>4. ASSUME NEW i \in 1..n PROVE posts'[First(t) + i - 1] = posts[First(t) + i - 1]
  <2>1. First(t) + i - 1 \in DOMAIN posts
    BY <1>0, <1>1
  <2>. QED  BY <2>1 DEF Grows
<1>. HIDE DEF n
<1>5. P = Q
  BY <1>4
<1>. QED  BY <1>2, <1>3, <1>5

(* A turn that is not told anything in a step, and has not got its records in it.                *)
LEMMA TurnKept ==
  ASSUME HistoryTypeOK, HistoryTypeOK', Grows, NEW t \in Fetches, TurnInv(t),
         trigger'[t] = trigger[t], records'[t] = records[t],
         built'[t] = built[t], told'[t] = told[t],
         \/ stage'[t] = stage[t]
         \/ stage[t] \notin {"idle", "done"} /\ stage'[t] \in {"raised", "done"}
  PROVE  TurnInv(t)'
<1>1. FetchOf(t) /\ LegalTo(t) /\ GoneFor(t)
  BY DEF TurnInv
<1>2. trigger[t] <= Len(posts')
  <2>1. trigger[t] \in Nat /\ Len(posts) \in Nat /\ Len(posts') \in Nat
    BY HistoryAssumption DEF HistoryTypeOK, HistoryAssumption
  <2>. QED  BY <2>1, <1>1 DEF FetchOf, Grows
<1>3. \A id : Gone(t, id)' <=> Gone(t, id)
  BY <1>1, ClearedKept DEF FetchOf
<1>4. FetchOf(t)'
  <2>1. stage'[t] = "starter" => Page(t)' = Page(t) /\ stage[t] = "starter"
    BY <1>1, PageKept DEF FetchOf
  <2>2. stage'[t] = "rows" => stage[t] = "rows"
    OBVIOUS
  <2>3. stage'[t] = "starter" => records'[t] = Page(t)'
    BY <2>1, <1>1 DEF FetchOf
  <2>4. stage'[t] = "rows" =>
          /\ Ordered(records[t])
          /\ \A i \in DOMAIN records[t] :
               records[t][i].id < trigger[t] /\ ~Gone(t, records[t][i].id)'
    BY <2>2, <1>1, <1>3 DEF FetchOf
  <2>5. stage'[t] # "done" => built[t] = << >> /\ told[t] = << >>
    BY <1>1 DEF FetchOf
  <2>. QED  BY <1>2, <2>3, <2>4, <2>5 DEF FetchOf
<1>5. LegalTo(t)'
  BY <1>1 DEF LegalTo
<1>6. GoneFor(t)'
  BY <1>1, <1>3 DEF GoneFor
<1>. QED  BY <1>4, <1>5, <1>6 DEF TurnInv

(* The invariant holds at first, and each step keeps it. *)
LEMMA InitInv == HistoryInit => HistoryInv
<1>. SUFFICES ASSUME HistoryInit PROVE HistoryInv
  OBVIOUS
<1>1. HistoryTypeOK
  <2>1. MaxPosts \in Nat
    BY HistoryAssumption DEF HistoryAssumption
  <2>1a. posts = << >> /\ Len(<< >>) = 0
    BY DEF HistoryInit
  <2>2. posts \in Seq(PostKinds) /\ Len(posts) <= MaxPosts
    BY <2>1, <2>1a
  <2>2b. starter \in Starters /\ owned \in BOOLEAN
    BY DEF HistoryInit
  <2>2a. rows \in [0..MaxPosts -> Rows]
    BY DEF HistoryInit, Rows
  <2>3. /\ stage \in [Fetches -> {"idle", "page", "starter", "rows", "done", "raised"}]
    BY DEF HistoryInit
  <2>3a. trigger \in [Fetches -> 0..MaxPosts]
    BY <2>1 DEF HistoryInit
  <2>4. \A S : << >> \in Seq(S)
    OBVIOUS
  <2>5. /\ records \in [Fetches -> Seq([id : 0..MaxPosts, kind : PostKinds])]
        /\ built \in [Fetches -> Seq(Messages)] /\ told \in [Fetches -> Seq(Messages)]
    BY <2>4 DEF HistoryInit
  <2>. QED  BY <2>2, <2>2a, <2>2b, <2>3, <2>3a, <2>5 DEF HistoryTypeOK
<1>2. ASSUME NEW t \in Fetches PROVE TurnInv(t)
  <2>1. LegalTo(t) /\ GoneFor(t)
    BY NothingTold DEF HistoryInit, LegalTo, GoneFor
  <2>2. FetchOf(t)
    BY DEF HistoryInit, FetchOf
  <2>. QED  BY <2>1, <2>2 DEF TurnInv
<1>. QED  BY <1>1, <1>2 DEF HistoryInv

(* The records of a type invariant are those of a page. *)
LEMMA TypeRecs ==
  HistoryTypeOK <=>
    /\ posts \in Seq(PostKinds) /\ Len(posts) <= MaxPosts
    /\ starter \in Starters /\ owned \in BOOLEAN
    /\ rows \in [0..MaxPosts -> Rows]
    /\ stage \in [Fetches -> {"idle", "page", "starter", "rows", "done", "raised"}]
    /\ trigger \in [Fetches -> 0..MaxPosts]
    /\ records \in [Fetches -> Seq(Recs)]
    /\ built \in [Fetches -> Seq(Messages)] /\ told \in [Fetches -> Seq(Messages)]
BY DEF HistoryTypeOK, Recs

(* The steps of no turn. *)
LEMMA ThreadSteps ==
  ASSUME HistoryInv, Writes \/ AgentPosts \/ RowWritten \/ Restart
  PROVE  HistoryInv'
<1>1. HistoryTypeOK /\ \A t \in Fetches : TurnInv(t)
  BY DEF HistoryInv
<1>2. Grows /\ HistoryTypeOK' /\ UNCHANGED <<trigger, records, built, told>>
      /\ \A t \in Fetches : \/ stage'[t] = stage[t]
                            \/ stage[t] \notin {"idle", "done"} /\ stage'[t] = "raised"
  <2>1. CASE Writes
    <3>1. PICK kind \in {"human", "blank", "marker"} : Post(kind)
      BY <2>1 DEF Writes
    <3>2. UNCHANGED <<starter, rows, owned, stage, trigger, records, built, told>>
      BY <2>1 DEF Writes, turns
    <3>3. Grows /\ posts' \in Seq(PostKinds) /\ Len(posts') <= MaxPosts
      BY <1>1, <3>1, <3>2, PostGrows DEF PostKinds
    <3>. QED  BY <1>1, <3>2, <3>3 DEF HistoryTypeOK
  <2>2. CASE AgentPosts
    <3>1. PICK kind \in {"agent", "step"} : Post(kind)
      BY <2>2 DEF AgentPosts
    <3>2. UNCHANGED <<starter, rows, stage, trigger, records, built, told>> /\ owned' = TRUE
      BY <2>2 DEF AgentPosts, turns
    <3>3. Grows /\ posts' \in Seq(PostKinds) /\ Len(posts') <= MaxPosts
      BY <1>1, <3>1, <3>2, PostGrows DEF PostKinds
    <3>. QED  BY <1>1, <3>2, <3>3 DEF HistoryTypeOK
  <2>3. CASE RowWritten
    <3>1. PICK m \in 0..Len(posts), row \in {"good", "corrupt"} : rows' = [rows EXCEPT ![m] = row]
      BY <2>3 DEF RowWritten
    <3>2. UNCHANGED <<posts, starter, owned, stage, trigger, records, built, told>>
      BY <2>3 DEF RowWritten, turns
    <3>3. rows' \in [0..MaxPosts -> Rows]
      BY <1>1, <3>1 DEF HistoryTypeOK, Rows
    <3>. QED  BY <1>1, <3>2, <3>3, SameThread DEF HistoryTypeOK
  <2>4. CASE Restart
    <3>1. UNCHANGED <<posts, starter, rows, trigger, records, built, told>> /\ owned' = FALSE
      BY <2>4 DEF Restart
    <3>2. \A t \in Fetches : \/ stage'[t] = stage[t]
                             \/ stage[t] \notin {"idle", "done"} /\ stage'[t] = "raised"
      <4>. SUFFICES ASSUME NEW t \in Fetches
                    PROVE  \/ stage'[t] = stage[t]
                           \/ stage[t] \notin {"idle", "done"} /\ stage'[t] = "raised"
        BY Zenon
      <4>1. stage'[t] = IF stage[t] \in {"page", "starter", "rows"} THEN "raised" ELSE stage[t]
        BY <2>4 DEF Restart
      <4>. QED  BY <4>1
    <3>3. stage' \in [Fetches -> {"idle", "page", "starter", "rows", "done", "raised"}]
      BY <1>1, <2>4 DEF Restart, HistoryTypeOK
    <3>. QED  BY <1>1, <3>1, <3>2, <3>3, SameThread DEF HistoryTypeOK
  <2>. QED  BY <2>1, <2>2, <2>3, <2>4
<1>3. ASSUME NEW t \in Fetches PROVE TurnInv(t)'
  BY <1>1, <1>2, TurnKept
<1>. QED  BY <1>2, <1>3 DEF HistoryInv

(* In a step of one turn the others stay as they were. *)
LEMMA OthersKept ==
  ASSUME HistoryInv, HistoryTypeOK', Grows, NEW t \in Fetches,
         \A u \in Fetches \ {t} : /\ stage'[u] = stage[u] /\ trigger'[u] = trigger[u]
                                  /\ records'[u] = records[u] /\ built'[u] = built[u]
                                  /\ told'[u] = told[u],
         TurnInv(t)'
  PROVE  HistoryInv'
<1>1. HistoryTypeOK /\ \A u \in Fetches : TurnInv(u)
  BY DEF HistoryInv
<1>2. ASSUME NEW u \in Fetches, u # t PROVE TurnInv(u)'
  BY <1>1, <1>2, TurnKept
<1>. QED  BY <1>2 DEF HistoryInv

LEMMA CallsStep ==
  ASSUME HistoryInv, NEW t \in Fetches, Calls(t)
  PROVE  HistoryInv'
<1>1. HistoryTypeOK /\ TurnInv(t)
  BY DEF HistoryInv
<1>2. /\ stage[t] = "idle" /\ Post("human")
      /\ stage' = [stage EXCEPT ![t] = "page"] /\ trigger' = [trigger EXCEPT ![t] = Len(posts')]
      /\ UNCHANGED <<starter, rows, owned, records, built, told>>
  BY DEF Calls
<1>3. /\ Grows /\ posts' \in Seq(PostKinds) /\ Len(posts') <= MaxPosts
      /\ Len(posts') \in Nat /\ Len(posts') >= 1
  BY <1>1, <1>2, PostGrows DEF PostKinds
<1>4. stage' \in [Fetches -> {"idle", "page", "starter", "rows", "done", "raised"}]
      /\ stage'[t] = "page"
  BY <1>1, <1>2 DEF HistoryTypeOK
<1>5. trigger' \in [Fetches -> 0..MaxPosts] /\ trigger'[t] = Len(posts')
  <2>1. Len(posts') \in 0..MaxPosts
    BY <1>3, HistoryAssumption DEF HistoryAssumption
  <2>. QED  BY <1>1, <1>2, <2>1 DEF HistoryTypeOK
<1>6. HistoryTypeOK'
  BY <1>1, <1>2, <1>3, <1>4, <1>5 DEF HistoryTypeOK
<1>7. TurnInv(t)'
  <2>1. told[t] = << >> /\ built[t] = << >>
    BY <1>1, <1>2 DEF TurnInv, FetchOf
  <2>2. told'[t] = << >> /\ built'[t] = << >>
    BY <1>2, <2>1
  <2>3. LegalTo(t)' /\ GoneFor(t)'
    BY <2>2, NothingTold DEF LegalTo, GoneFor
  <2>4. FetchOf(t)'
    BY <1>3, <1>4, <1>5, <2>2 DEF FetchOf
  <2>. QED  BY <2>3, <2>4 DEF TurnInv
<1>8. \A u \in Fetches \ {t} : /\ stage'[u] = stage[u] /\ trigger'[u] = trigger[u]
                               /\ records'[u] = records[u] /\ built'[u] = built[u]
                               /\ told'[u] = told[u]
  BY <1>1, <1>2 DEF HistoryTypeOK
<1>. QED  BY <1>3, <1>6, <1>7, <1>8, OthersKept

LEMMA StarterCallsStep ==
  ASSUME HistoryInv, NEW t \in Fetches, StarterCalls(t)
  PROVE  HistoryInv'
<1>1. HistoryTypeOK /\ TurnInv(t)
  BY DEF HistoryInv
<1>2. /\ stage[t] = "idle" /\ stage' = [stage EXCEPT ![t] = "page"]
      /\ UNCHANGED <<posts, starter, rows, owned, trigger, records, built, told>>
  BY DEF StarterCalls
<1>3. HistoryTypeOK' /\ Grows /\ stage'[t] = "page"
  BY <1>1, <1>2, SameThread DEF HistoryTypeOK
<1>4. TurnInv(t)'
  <2>1. trigger[t] <= Len(posts) /\ told[t] = << >> /\ built[t] = << >>
    BY <1>1, <1>2 DEF TurnInv, FetchOf
  <2>2. LegalTo(t)' /\ GoneFor(t)'
    BY <2>1, <1>2, NothingTold DEF LegalTo, GoneFor
  <2>3. FetchOf(t)'
    BY <2>1, <1>2, <1>3 DEF FetchOf
  <2>. QED  BY <2>2, <2>3 DEF TurnInv
<1>5. \A u \in Fetches \ {t} : /\ stage'[u] = stage[u] /\ trigger'[u] = trigger[u]
                               /\ records'[u] = records[u] /\ built'[u] = built[u]
                               /\ told'[u] = told[u]
  BY <1>1, <1>2 DEF HistoryTypeOK
<1>. QED  BY <1>3, <1>4, <1>5, OthersKept

LEMMA FetchedStep ==
  ASSUME HistoryInv, NEW t \in Fetches, Fetched(t)
  PROVE  HistoryInv'
<1>1. HistoryTypeOK /\ TurnInv(t)
  BY DEF HistoryInv
<1>2. /\ stage[t] = "page" /\ stage' = [stage EXCEPT ![t] = "starter"]
      /\ records' = [records EXCEPT ![t] = Page(t)]
      /\ UNCHANGED <<posts, starter, rows, owned, trigger, built, told>>
  BY DEF Fetched
<1>3. trigger[t] <= Len(posts) /\ built[t] = << >> /\ told[t] = << >>
  BY <1>1, <1>2 DEF TurnInv, FetchOf
<1>4. Page(t) \in Seq(Recs)
  <2>1. CASE trigger[t] = 0
    <3>1. Page(t) = << >> /\ << >> \in Seq(Recs)
      BY <2>1, <1>1, NoPage
    <3>. QED  BY <3>1
  <2>2. CASE trigger[t] # 0
    <3>1. trigger[t] >= 1
      BY <2>2, <1>1 DEF HistoryTypeOK
    <3>. QED  BY <3>1, <1>1, <1>3, PageFacts
  <2>. QED  BY <2>1, <2>2
<1>5. HistoryTypeOK'
  BY <1>1, <1>2, <1>4, TypeRecs, TypeRecs DEF HistoryTypeOK, Recs
<1>6. Grows
  BY <1>1, <1>2, SameThread
<1>7. Page(t)' = Page(t)
  BY <1>2 DEF Page
<1>8. /\ stage'[t] = "starter" /\ records'[t] = Page(t) /\ trigger'[t] = trigger[t]
      /\ built'[t] = << >> /\ told'[t] = << >> /\ posts' = posts
  BY <1>1, <1>2, <1>3, TypeRecs
<1>9. TurnInv(t)'
  <2>1. LegalTo(t)' /\ GoneFor(t)'
    BY <1>8, NothingTold DEF LegalTo, GoneFor
  <2>2. FetchOf(t)'
    BY <1>3, <1>7, <1>8 DEF FetchOf
  <2>. QED  BY <2>1, <2>2 DEF TurnInv
<1>10. \A u \in Fetches \ {t} : /\ stage'[u] = stage[u] /\ trigger'[u] = trigger[u]
                                /\ records'[u] = records[u] /\ built'[u] = built[u]
                                /\ told'[u] = told[u]
  BY <1>1, <1>2, TypeRecs
<1>. QED  BY <1>5, <1>6, <1>9, <1>10, OthersKept

(* The turn ends with nothing told. *)
LEMMA EndSteps ==
  ASSUME HistoryInv, NEW t \in Fetches, FetchFails(t) \/ StoreFails(t)
  PROVE  HistoryInv'
<1>1. HistoryTypeOK /\ TurnInv(t)
  BY DEF HistoryInv
<1>2. /\ stage[t] \notin {"idle", "done"}
      /\ stage' = [stage EXCEPT ![t] = "done"] \/ stage' = [stage EXCEPT ![t] = "raised"]
      /\ UNCHANGED <<posts, starter, rows, owned, trigger, records, built, told>>
  BY DEF FetchFails, StoreFails
<1>3. HistoryTypeOK' /\ Grows /\ stage'[t] \in {"raised", "done"}
  BY <1>1, <1>2, SameThread DEF HistoryTypeOK
<1>4. TurnInv(t)'
  BY <1>1, <1>2, <1>3, TurnKept
<1>5. \A u \in Fetches \ {t} : /\ stage'[u] = stage[u] /\ trigger'[u] = trigger[u]
                               /\ records'[u] = records[u] /\ built'[u] = built[u]
                               /\ told'[u] = told[u]
  BY <1>1, <1>2 DEF HistoryTypeOK
<1>. QED  BY <1>3, <1>4, <1>5, OthersKept

LEMMA StarterReadStep ==
  ASSUME HistoryInv, NEW t \in Fetches, StarterRead(t)
  PROVE  HistoryInv'
<1>1. HistoryTypeOK /\ TurnInv(t)
  BY DEF HistoryInv
<1>2. /\ stage[t] = "starter" /\ stage' = [stage EXCEPT ![t] = "rows"]
      /\ UNCHANGED <<posts, starter, rows, owned, trigger, built, told>>
  BY DEF StarterRead
<1>3. PICK page \in {records[t]} \cup (IF starter = "none" THEN {} ELSE {WithStarter(t)}) :
        records' = [records EXCEPT ![t] = Projected(Cut(page))]
  BY DEF StarterRead
<1>4. /\ trigger[t] <= Len(posts) /\ built[t] = << >> /\ told[t] = << >>
      /\ records[t] = Page(t)
  BY <1>1, <1>2 DEF TurnInv, FetchOf
<1>. DEFINE recs == Projected(Cut(page))
<1>5. /\ recs \in Seq(Recs) /\ Ordered(recs)
      /\ \A i \in DOMAIN recs : recs[i].id < trigger[t] /\ ~Gone(t, recs[i].id)
  BY <1>1, <1>4, KeptOfPage
<1>6. records' = [records EXCEPT ![t] = recs]
  BY <1>3, <1>4
<1>. HIDE DEF recs
<1>7. HistoryTypeOK'
  BY <1>1, <1>2, <1>5, <1>6 DEF HistoryTypeOK, Recs
<1>8. Grows
  BY <1>1, <1>2, SameThread
<1>9. /\ stage'[t] = "rows" /\ records'[t] = recs /\ trigger'[t] = trigger[t]
      /\ built'[t] = << >> /\ told'[t] = << >> /\ posts' = posts
  BY <1>1, <1>2, <1>4, <1>6, TypeRecs
<1>10. \A id : Gone(t, id)' <=> Gone(t, id)
  BY <1>1, <1>4, <1>7, <1>8, <1>9, ClearedKept
<1>11. TurnInv(t)'
  <2>1. LegalTo(t)' /\ GoneFor(t)'
    BY <1>9, NothingTold DEF LegalTo, GoneFor
  <2>2. FetchOf(t)'
    BY <1>4, <1>5, <1>9, <1>10 DEF FetchOf
  <2>. QED  BY <2>1, <2>2 DEF TurnInv
<1>12. \A u \in Fetches \ {t} : /\ stage'[u] = stage[u] /\ trigger'[u] = trigger[u]
                                /\ records'[u] = records[u] /\ built'[u] = built[u]
                                /\ told'[u] = told[u]
  BY <1>1, <1>2, <1>6, TypeRecs
<1>. QED  BY <1>7, <1>8, <1>11, <1>12, OthersKept

(* What is told of records that are in order and before the message that calls is legal.         *)
LEMMA ToldLegal ==
  ASSUME NEW recs \in Seq(Recs), Ordered(recs), NEW n \in Nat,
         \A i \in DOMAIN recs : recs[i].id < n
  PROVE  LET b == Build(recs)
             said == Trim(b)
         IN /\ b \in Seq(Messages) /\ said \in Seq(Messages)
            /\ IsLegal(said, b, n)
            /\ FromRecords(said, recs, Len(recs))
<1>. DEFINE b == Build(recs)
            said == Trim(b)
<1>1. /\ b \in Seq(Messages) /\ Paired(b) /\ InOrder(b)
      /\ FromRecords(b, recs, Len(recs))
      /\ b # << >> => b[1].part = "user"
  BY BuildFacts
<1>. HIDE DEF b
<1>2. PICK i \in 1..(Len(b) + 1) :
        /\ said = Since(b, i)
        /\ \A j \in 1..(i - 1) : b[j].part = "user" => Bytes(Since(b, j)) > MaxBytes
        /\ said # << >> => said[1].part = "user" /\ Bytes(said) <= MaxBytes
        /\ Paired(said) /\ InOrder(said)
  BY <1>1, TrimFacts
<1>3. /\ said \in Seq(Messages) /\ Len(said) = Len(b) - i + 1
      /\ \A j \in 1..(Len(b) - i + 1) : said[j] = b[i + j - 1]
  BY <1>1, <1>2, SuffixFacts
<1>. HIDE DEF said
<1>4. FromRecords(said, recs, Len(recs))
  <2>. SUFFICES ASSUME NEW j \in DOMAIN said
                PROVE  \E p \in 1..Len(recs) : said[j].id = recs[p].id
    BY DEF FromRecords
  <2>1. j \in 1..(Len(b) - i + 1) /\ i + j - 1 \in DOMAIN b
    BY <1>1, <1>3
  <2>. QED  BY <2>1, <1>1, <1>3 DEF FromRecords
<1>5. \A j \in DOMAIN said : said[j].id < n
  <2>1. DOMAIN recs = 1..Len(recs)
    OBVIOUS
  <2>. QED  BY <2>1, <1>4 DEF FromRecords
<1>6. IsLegal(said, b, n)
  BY <1>2, <1>5 DEF IsLegal
<1>. QED  BY <1>1, <1>3, <1>4, <1>6 DEF b, said

LEMMA ToldStep ==
  ASSUME HistoryInv, NEW t \in Fetches, Tells(t)
  PROVE  HistoryInv'
<1>1. HistoryTypeOK /\ TurnInv(t)
  BY DEF HistoryInv
<1>. DEFINE recs == records[t]
            b == Build(recs)
            said == Trim(b)
<1>2. recs \in Seq(Recs) /\ trigger[t] \in Nat /\ trigger[t] <= Len(posts)
  BY <1>1, HistoryAssumption, TypeRecs DEF HistoryAssumption, TurnInv, FetchOf, Tells
<1>3. stage[t] = "rows"
  BY DEF Tells
<1>4. /\ Ordered(recs)
      /\ \A i \in DOMAIN recs : recs[i].id < trigger[t] /\ ~Gone(t, recs[i].id)
  BY <1>1, <1>3 DEF TurnInv, FetchOf
<1>5. built' = [built EXCEPT ![t] = b]
  BY DEF Tells
<1>6. built'[t] = b
  BY <1>1, <1>5, TypeRecs
<1>7. /\ told' = [told EXCEPT ![t] = said] /\ stage' = [stage EXCEPT ![t] = "done"]
      /\ UNCHANGED <<posts, starter, rows, owned, trigger, records>>
  BY <1>6 DEF Tells
<1>. HIDE DEF recs
<1>8. /\ b \in Seq(Messages) /\ said \in Seq(Messages)
      /\ IsLegal(said, b, trigger[t])
      /\ FromRecords(said, recs, Len(recs))
  BY <1>2, <1>4, ToldLegal
<1>. HIDE DEF b, said
<1>9. HistoryTypeOK'
  BY <1>1, <1>5, <1>7, <1>8 DEF HistoryTypeOK
<1>10. Grows
  BY <1>1, <1>7, SameThread
<1>11. stage'[t] = "done" /\ told'[t] = said /\ trigger'[t] = trigger[t] /\ posts' = posts
  BY <1>1, <1>7, TypeRecs
<1>12. \A id : Gone(t, id)' <=> Gone(t, id)
  BY <1>1, <1>2, <1>9, <1>10, <1>11, ClearedKept
<1>13. TurnInv(t)'
  <2>1. LegalTo(t)'
    BY <1>6, <1>8, <1>11 DEF LegalTo
  <2>2. GoneFor(t)'
    <3>. SUFFICES ASSUME NEW i \in DOMAIN said
                  PROVE  ~Gone(t, said[i].id)
      BY <1>11, <1>12 DEF GoneFor
    <3>1. PICK p \in 1..Len(recs) : said[i].id = recs[p].id
      BY <1>8 DEF FromRecords
    <3>2. p \in DOMAIN recs
      BY <1>2
    <3>. QED  BY <3>1, <3>2, <1>4
  <2>3. FetchOf(t)'
    BY <1>2, <1>11 DEF FetchOf
  <2>. QED  BY <2>1, <2>2, <2>3 DEF TurnInv
<1>14. \A u \in Fetches \ {t} : /\ stage'[u] = stage[u] /\ trigger'[u] = trigger[u]
                                /\ records'[u] = records[u] /\ built'[u] = built[u]
                                /\ told'[u] = told[u]
  BY <1>1, <1>5, <1>7, TypeRecs
<1>. QED  BY <1>9, <1>10, <1>13, <1>14, OthersKept

LEMMA StutterStep ==
  ASSUME HistoryInv, UNCHANGED historyVars
  PROVE  HistoryInv'
<1>1. UNCHANGED <<posts, starter, rows, owned, stage, trigger, records, built, told>>
  BY DEF historyVars, turns
<1>2. HistoryTypeOK /\ HistoryTypeOK' /\ \A t \in Fetches : TurnInv(t)
  BY <1>1 DEF HistoryInv, HistoryTypeOK
<1>3. Grows
  BY <1>1, <1>2, SameThread
<1>4. ASSUME NEW t \in Fetches PROVE TurnInv(t)'
  BY <1>1, <1>2, <1>3, TurnKept
<1>. QED  BY <1>2, <1>4 DEF HistoryInv

(* Every reachable state has the inductive invariant: where a fetch stands, its records are the   *)
(* page or what is kept of it, in order, before the trigger and below every marker; and nothing  *)
(* is told before it is all fetched.                                                             *)
THEOREM HistoryInductive == HistorySpec => []HistoryInv
<1>1. HistoryInit => HistoryInv
  BY InitInv
<1>2. HistoryInv /\ [HistoryNext]_historyVars => HistoryInv'
  BY ThreadSteps, CallsStep, StarterCallsStep, FetchedStep, EndSteps, StarterReadStep, ToldStep, StutterStep
     DEF HistoryNext
<1>. QED  BY <1>1, <1>2, PTL DEF HistorySpec

(* History: every variable keeps its type, for any turns, limits, costs and thread lengths. *)
THEOREM HistoryTypeCorrect == HistorySpec => []HistoryTypeOK
BY HistoryInductive, InvImplies, PTL

(* History: whatever is told begins with a user, keeps each call with its return and its answer,  *)
(* is in order and told once, came before the trigger, be it the starter itself, fits the        *)
(* budget, and drops nothing that could have been told: for any page size, budget, costs and     *)
(* number of fetches (history.py:526, 946).                                                      *)
THEOREM HistoriesLegal == HistorySpec => []HistoryLegal
BY HistoryInductive, InvImplies, PTL

(* History: nothing above a /clear is ever told, for any number of markers, on the page or above  *)
(* it; of the starter, above a marker of the page (history.py:534).                              *)
THEOREM ClearedStaysGone == HistorySpec => []ClearedGone
BY HistoryInductive, InvImplies, PTL

=============================================================================
