------------------------------ MODULE FoldFacts ------------------------------
(***************************************************************************)
(* Induction over the naturals and over the folds of the community         *)
(* modules, in a form without operator parameters: a predicate is the set  *)
(* of the numbers that have it, a fold is the function it is chosen from.  *)
(***************************************************************************)
EXTENDS Naturals, FiniteSetsExt, WellFoundedInduction, TLAPS

LEMMA Smallest ==
  ASSUME NEW S \in SUBSET Nat, S # {}
  PROVE  \E x \in S : \A y \in S : x <= y
<1>1. PICK x \in S : \A y \in S : ~(<<y, x>> \in OpToRel(<, Nat))
  BY NatLessThanWellFounded, WFMin
<1>2. \A y \in S : ~(y < x)
  BY <1>1 DEF OpToRel
<1> QED BY <1>2

LEMMA Largest ==
  ASSUME NEW n \in Nat, NEW S \in SUBSET (1 .. n), S # {}
  PROVE  \E x \in S : \A y \in S : x >= y
<1> DEFINE below == {n - x : x \in S}
<1>1. below \in SUBSET Nat /\ below # {}
  <2>1. \A x \in S : n - x \in Nat
    OBVIOUS
  <2> QED BY <2>1
<1>2. PICK d \in below : \A e \in below : d <= e
  BY <1>1, Smallest
<1>3. PICK x \in S : d = n - x
  OBVIOUS
<1>4. \A y \in S : x >= y
  <2> SUFFICES ASSUME NEW y \in S PROVE x >= y
    OBVIOUS
  <2>1. n - y \in below /\ x \in Nat /\ y \in Nat
    OBVIOUS
  <2>2. n - x <= n - y
    BY <1>2, <1>3, <2>1
  <2> QED BY <2>1, <2>2
<1> QED BY <1>4

\* Max is the operator that the folds choose with.
LEMMA MaxOf ==
  ASSUME NEW n \in Nat, NEW S \in SUBSET (1 .. n), S # {}
  PROVE  /\ Max(S) \in S /\ Max(S) \in 1 .. n
         /\ S \ {Max(S)} \in SUBSET (1 .. Max(S) - 1)
<1>1. \E x \in S : \A y \in S : x >= y
  BY Largest
<1>2. Max(S) \in S /\ \A y \in S : Max(S) >= y
  BY <1>1 DEF Max
<1>3. \A y \in S : y \in 1 .. n
  OBVIOUS
<1>4. Max(S) \in 1 .. n
  BY <1>2, <1>3
<1>5. ASSUME NEW y \in S, y # Max(S) PROVE y \in 1 .. Max(S) - 1
  <2>1. Max(S) >= y /\ y \in 1 .. n /\ Max(S) \in 1 .. n
    BY <1>2, <1>3, <1>4
  <2> QED BY <1>5, <2>1
<1> QED BY <1>2, <1>4, <1>5

LEMMA Induction ==
  ASSUME NEW P, 0 \in P, \A k \in Nat : k \in P => k + 1 \in P
  PROVE  Nat \subseteq P
<1> SUFFICES ASSUME Nat \ P # {} PROVE FALSE
  OBVIOUS
<1>1. PICK k \in Nat \ P : \A j \in Nat \ P : k <= j
  BY Smallest
<1>2. k # 0 /\ k - 1 \in Nat /\ k = (k - 1) + 1
  OBVIOUS
<1>3. k - 1 \in P
  BY <1>1, <1>2
<1> QED BY <1>2, <1>3

\* Without its largest element a set of numbers up to k + 1 is one of numbers up to k.
LEMMA WithoutMax ==
  ASSUME NEW k \in Nat, NEW s \in SUBSET (1 .. k + 1), s # {}
  PROVE  Max(s) \in 1 .. k + 1 /\ s \ {Max(s)} \in SUBSET (1 .. k)
<1>1. k + 1 \in Nat
  OBVIOUS
<1>2. Max(s) \in 1 .. k + 1 /\ s \ {Max(s)} \in SUBSET (1 .. Max(s) - 1)
  BY <1>1, MaxOf
<1>3. ASSUME NEW y \in s \ {Max(s)} PROVE y \in 1 .. k
  <2>1. y \in 1 .. Max(s) - 1
    BY <1>2
  <2> QED BY <1>2, <2>1
<1> QED BY <1>2, <1>3

\* What a fold over 1 .. n goes through stays in T when each step does.
LEMMA FoldTyped ==
  ASSUME NEW n \in Nat, NEW T, NEW it,
         it[{}] \in T,
         \A s \in SUBSET (1 .. n) : s # {} /\ it[s \ {Max(s)}] \in T => it[s] \in T
  PROVE  \A s \in SUBSET (1 .. n) : it[s] \in T
<1> DEFINE Typed(k) == k <= n => \A s \in SUBSET (1 .. k) : it[s] \in T
           P == {k \in Nat : Typed(k)}
<1>1. Typed(0)
  <2>1. ASSUME NEW s \in SUBSET (1 .. 0) PROVE s = {}
    <3>1. 1 .. 0 = {}
      OBVIOUS
    <3> QED BY <3>1
  <2> QED BY <2>1
<1>2. ASSUME NEW k \in Nat, Typed(k) PROVE Typed(k + 1)
  <2> SUFFICES ASSUME k + 1 <= n, NEW s \in SUBSET (1 .. k + 1), s # {}
               PROVE  it[s] \in T
    OBVIOUS
  <2>1. s \ {Max(s)} \in SUBSET (1 .. k)
    BY WithoutMax
  <2>2. k <= n /\ (1 .. k + 1) \subseteq 1 .. n
    OBVIOUS
  <2>3. it[s \ {Max(s)}] \in T
    BY <1>2, <2>1, <2>2
  <2>4. s \in SUBSET (1 .. n)
    BY <2>2
  <2> QED BY <2>3, <2>4
<1> HIDE DEF Typed
<1>3. 0 \in P /\ \A k \in Nat : k \in P => k + 1 \in P
  BY <1>1, <1>2
<1> HIDE DEF P
<1>4. n \in P
  BY <1>3, Induction
<1> QED BY <1>4 DEF P, Typed

\* The equations of a fold over 1 .. k: step[i][v] is what comes of v at i.
FoldStep(base, step, it, s) ==
  IF s = {} THEN base ELSE step[Max(s)][it[s \ {Max(s)}]]

Solves(it, k, T, base, step) ==
  /\ it \in [SUBSET (1 .. k) -> T]
  /\ \A s \in SUBSET (1 .. k) : it[s] = FoldStep(base, step, it, s)

\* They have a solution.
LEMMA FoldExists ==
  ASSUME NEW n \in Nat, NEW T, NEW base \in T,
         NEW step, \A i \in 1 .. n : \A v \in T : step[i][v] \in T
  PROVE  \E it : Solves(it, n, T, base, step)
<1> DEFINE Solvable(k) == k <= n => \E it : Solves(it, k, T, base, step)
           P == {k \in Nat : Solvable(k)}
<1>1. Solvable(0)
  <2> DEFINE it == [s \in SUBSET (1 .. 0) |-> base]
  <2>1. ASSUME NEW s \in SUBSET (1 .. 0) PROVE s = {}
    <3>1. 1 .. 0 = {}
      OBVIOUS
    <3> QED BY <3>1
  <2>2. Solves(it, 0, T, base, step)
    BY <2>1 DEF Solves, FoldStep
  <2> QED BY <2>2
<1>2. ASSUME NEW k \in Nat, Solvable(k) PROVE Solvable(k + 1)
  <2> SUFFICES ASSUME k + 1 <= n PROVE \E it : Solves(it, k + 1, T, base, step)
    OBVIOUS
  <2>1. k <= n
    OBVIOUS
  <2>2. PICK g : Solves(g, k, T, base, step)
    BY <1>2, <2>1
  <2>3. ASSUME NEW s \in SUBSET (1 .. k) PROVE g[s] = FoldStep(base, step, g, s) /\ g[s] \in T
    BY <2>2 DEF Solves
  <2> DEFINE it == [s \in SUBSET (1 .. k + 1) |-> FoldStep(base, step, g, s)]
  <2>4. ASSUME NEW s \in SUBSET (1 .. k + 1) PROVE FoldStep(base, step, g, s) \in T
    <3>1. CASE s = {}
      BY <3>1 DEF FoldStep
    <3>2. CASE s # {}
      <4>1. Max(s) \in 1 .. k + 1 /\ s \ {Max(s)} \in SUBSET (1 .. k)
        BY <3>2, WithoutMax
      <4>2. Max(s) \in 1 .. n
        BY <4>1
      <4>3. g[s \ {Max(s)}] \in T
        BY <2>3, <4>1
      <4> QED BY <3>2, <4>2, <4>3 DEF FoldStep
    <3> QED BY <3>1, <3>2
  <2>5. it \in [SUBSET (1 .. k + 1) -> T]
    BY <2>4
  <2>6. ASSUME NEW s \in SUBSET (1 .. k) PROVE it[s] = g[s]
    <3>1. s \in SUBSET (1 .. k + 1)
      OBVIOUS
    <3> QED BY <2>3, <3>1
  <2>7. ASSUME NEW s \in SUBSET (1 .. k + 1)
        PROVE  it[s] = FoldStep(base, step, it, s)
    <3>1. it[s] = FoldStep(base, step, g, s)
      OBVIOUS
    <3> HIDE DEF it
    <3>2. s # {} => it[s \ {Max(s)}] = g[s \ {Max(s)}]
      BY <2>6, WithoutMax
    <3> QED BY <3>1, <3>2 DEF FoldStep
  <2> HIDE DEF it
  <2>8. Solves(it, k + 1, T, base, step)
    BY <2>5, <2>7 DEF Solves
  <2> QED BY <2>8
<1> HIDE DEF Solvable
<1>3. 0 \in P /\ \A k \in Nat : k \in P => k + 1 \in P
  BY <1>1, <1>2
<1> HIDE DEF P
<1>4. n \in P
  BY <1>3, Induction
<1> QED BY <1>4 DEF P, Solvable

==============================================================================
