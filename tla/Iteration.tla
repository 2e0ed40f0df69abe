----------------------------- MODULE Iteration -----------------------------
(***************************************************************************)
(* What the proofs about loops need: least elements, induction over an     *)
(* interval in terms of sets, that a loop over an interval has a run, and  *)
(* two facts of counting.                                                  *)
(***************************************************************************)
EXTENDS Integers, FiniteSetTheorems, WellFoundedInduction, TLAPS

\* A set of naturals has a least element.
LEMMA Least ==
  ASSUME NEW S \in SUBSET Nat, S # {}
  PROVE  \E i \in S : \A j \in S : i <= j
<1> DEFINE R == OpToRel(<, Nat)
<1>1. IsWellFoundedOn(R, Nat) BY NatLessThanWellFounded
<1> HIDE DEF R
<1>2. PICK x \in S : \A y \in S : ~(<<y, x>> \in R) BY <1>1, WFMin
<1>3. \A y \in S : ~(y < x) BY <1>2 DEF R, OpToRel
<1> QED BY <1>3

\* A bounded one has a greatest.
LEMMA Greatest ==
  ASSUME NEW n \in Nat, NEW S \in SUBSET (0..n), S # {}
  PROVE  \E i \in S : \A j \in S : j <= i
<1> DEFINE D == {n - j : j \in S}
<1>1. D \in SUBSET Nat /\ D # {}
  <2>1. \A j \in S : j \in 0..n /\ n - j \in Nat OBVIOUS
  <2> QED BY <2>1
<1>2. PICK d \in D : \A e \in D : d <= e BY <1>1, Least
<1>3. PICK i \in S : d = n - i OBVIOUS
<1>4. ASSUME NEW j \in S PROVE j <= i
  <2>1. n - j \in D OBVIOUS
  <2>2. d <= n - j BY <1>2, <2>1
  <2>3. i \in 0..n /\ j \in 0..n OBVIOUS
  <2> QED BY <1>3, <2>2, <2>3
<1> QED BY <1>4

\* Induction from 0 to n, for a set instead of a predicate.
LEMMA Ladder ==
  ASSUME NEW n \in Nat, NEW S, 0 \in S, \A k \in 1..n : k - 1 \in S => k \in S
  PROVE  \A k \in 0..n : k \in S
<1> DEFINE Missing == {k \in 0..n : k \notin S}
<1> SUFFICES ASSUME Missing # {} PROVE FALSE OBVIOUS
<1>1. PICK k \in Missing : \A j \in Missing : k <= j
  <2>1. Missing \in SUBSET Nat OBVIOUS
  <2> QED BY <2>1, Least
<1>2. k \in 1..n /\ k - 1 \in 0..n OBVIOUS
<1>3. k - 1 \notin Missing BY <1>1, <1>2
<1> QED BY <1>2, <1>3

\* n steps on the states X, and a run of them: the state it starts in and one
\* after each step.
Steps(X, n) == [1..n -> [X -> X]]
IsRun(f, X, base, step, n) ==
  f \in [0..n -> X] /\ f[0] = base /\ \A k \in 1..n : f[k] = step[k][f[k - 1]]

\* A loop of n steps has a run.
LEMMA LoopHasRun ==
  ASSUME NEW X, NEW base \in X, NEW n \in Nat, NEW step \in Steps(X, n)
  PROVE  \E f : IsRun(f, X, base, step, n)
<1> USE DEF Steps
<1> DEFINE Run(f, m) == f[0] = base /\ \A k \in 1..m : f[k] = step[k][f[k - 1]]
           S == {m \in 0..n : \E f \in [0..m -> X] : Run(f, m)}
<1>1. 0 \in S
  <2> DEFINE f == [k \in 0..0 |-> base]
  <2>1. f \in [0..0 -> X] OBVIOUS
  <2>2. f[0] = base OBVIOUS
  <2>3. \A k \in 1..0 : f[k] = step[k][f[k - 1]] OBVIOUS
  <2> HIDE DEF f
  <2>4. Run(f, 0) BY <2>2, <2>3
  <2> QED BY <2>1, <2>4
<1>2. ASSUME NEW m \in 1..n, m - 1 \in S PROVE m \in S
  <2>1. PICK f \in [0..(m - 1) -> X] : Run(f, m - 1) BY <1>2
  <2> DEFINE g == [k \in 0..m |-> IF k = m THEN step[m][f[m - 1]] ELSE f[k]]
  <2>2. step[m][f[m - 1]] \in X
    <3>1. f[m - 1] \in X /\ step[m] \in [X -> X] OBVIOUS
    <3> QED BY <3>1
  <2>3. g \in [0..m -> X]
    <3>1. \A k \in 0..m : k # m => f[k] \in X OBVIOUS
    <3> QED BY <2>2, <3>1
  <2>4. g[0] = base BY <2>1
  <2>5. ASSUME NEW k \in 1..m PROVE g[k] = step[k][g[k - 1]]
    <3>1. g[k - 1] = f[k - 1] OBVIOUS
    <3>2. CASE k = m BY <3>1, <3>2
    <3>3. CASE k # m
      <4>1. k \in 1..(m - 1) BY <3>3
      <4> QED BY <2>1, <3>1, <4>1
    <3> QED BY <3>2, <3>3
  <2> HIDE DEF g
  <2>6. Run(g, m) BY <2>4, <2>5
  <2> QED BY <2>3, <2>6
<1> HIDE DEF S
<1>3. n \in S
  <2>1. \A k \in 0..n : k \in S BY <1>1, <1>2, Ladder
  <2> QED BY <2>1
<1> QED BY <1>3 DEF S, IsRun

\* The values of a function on a finite set are finitely many.
LEMMA FiniteRange ==
  ASSUME NEW S, IsFiniteSet(S), NEW f, DOMAIN f = S
  PROVE  IsFiniteSet({f[x] : x \in S})
<1> DEFINE T == {f[x] : x \in S}
           g == [x \in S |-> f[x]]
<1>1. g \in Surjection(S, T)
  <2>1. g \in [S -> T] OBVIOUS
  <2>2. \A t \in T : \E x \in S : g[x] = t OBVIOUS
  <2> HIDE DEF g, T
  <2> QED BY <2>1, <2>2 DEF Surjection
<1> QED BY <1>1, FS_Surjection

OneToOne(f, S, T) == (\A x \in S : f[x] \in T) /\ \A x, y \in S : f[x] = f[y] => x = y

\* A function to a set of the same size that takes no value twice takes each.
LEMMA InjectiveIsOnto ==
  ASSUME NEW S, NEW T, IsFiniteSet(S), IsFiniteSet(T), Cardinality(S) = Cardinality(T),
         NEW f, OneToOne(f, S, T)
  PROVE  \A t \in T : \E x \in S : f[x] = t
<1> DEFINE g == [x \in S |-> f[x]]
<1>1. g \in Injection(S, T)
  <2>1. g \in [S -> T] /\ \A x, y \in S : g[x] = g[y] => x = y BY DEF OneToOne
  <2> HIDE DEF g
  <2> QED BY <2>1 DEF Injection, IsInjective
<1>2. \A x \in S : g[x] = f[x] OBVIOUS
<1> HIDE DEF g
<1>3. g \in Surjection(S, T) BY <1>1, FS_Injection
<1> QED BY <1>2, <1>3 DEF Surjection
=============================================================================
