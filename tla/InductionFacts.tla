--------------------------- MODULE InductionFacts ---------------------------
(***************************************************************************)
(* Induction and recursion over the natural numbers, and over any set      *)
(* whose elements have a depth, in terms of sets and functions only.  The  *)
(* theorems of NaturalsInduction take an operator; the facts below say the *)
(* same of a set, or of a step that is a function, so that a proof can     *)
(* cite them for a value at hand.                                          *)
(***************************************************************************)
EXTENDS Integers, FiniteSetTheorems, TLAPS

(* A set of natural numbers that is not empty has a least element: of the  *)
(* intervals that end in one of them, one contains no other.               *)
LEMMA Least ==
  ASSUME NEW S \in SUBSET Nat, S # {}
  PROVE  \E n \in S : \A m \in S : n <= m
<1> DEFINE R == StrictSubsetOrdering(Nat)
           T == {0 .. k : k \in S}
<1>1. T \subseteq FiniteSubsetsOf(Nat)
  <2>1. ASSUME NEW k \in S PROVE IsFiniteSet(0 .. k) /\ 0 .. k \in SUBSET Nat
    <3>1. k \in Int /\ 0 \in Int  OBVIOUS
    <3>2. IsFiniteSet(0 .. k)  BY <3>1, FS_Interval
    <3> QED BY <3>2
  <2> QED BY <2>1 DEF FiniteSubsetsOf
<1>2. T # {}
  OBVIOUS
<1>3. IsWellFoundedOn(R, FiniteSubsetsOf(Nat))
  BY FS_StrictSubsetOrderingWellFounded
<1> HIDE DEF R, T
<1>4. PICK x \in T : \A y \in T : ~(<<y, x>> \in R)
  BY <1>1, <1>2, <1>3, WFMin
<1>5. PICK n \in S : x = 0 .. n
  BY DEF T
<1>6. ASSUME NEW m \in S, m < n PROVE FALSE
  <2>1. 0 .. m \in T
    BY DEF T
  <2>2. 0 .. m \subseteq 0 .. n /\ n \in 0 .. n /\ n \notin 0 .. m
    BY <1>6
  <2>3. 0 .. m \in SUBSET Nat /\ 0 .. n \in SUBSET Nat /\ 0 .. m # 0 .. n
    BY <2>2
  <2>4. <<0 .. m, 0 .. n>> \in R
    BY <2>2, <2>3 DEF R, StrictSubsetOrdering
  <2> QED BY <2>1, <1>4, <1>5, <2>4
<1> QED BY <1>6

(* A set of natural numbers up to a bound has a greatest one.              *)
LEMMA Greatest ==
  ASSUME NEW b \in Nat, NEW S \in SUBSET (0 .. b), S # {}
  PROVE  \E n \in S : \A m \in S : m <= n
<1> DEFINE T == {k \in Nat : b - k \in S}
<1>1. \A m \in S : b - m \in T
  OBVIOUS
<1>2. T \in SUBSET Nat /\ T # {}
  BY <1>1
<1>3. PICK k \in T : \A j \in T : k <= j
  BY <1>2, Least
<1>4. b - k \in S
  OBVIOUS
<1>5. ASSUME NEW m \in S PROVE m <= b - k
  <2>1. b - m \in T /\ k <= b - m
    BY <1>1, <1>3
  <2> QED BY <2>1
<1> QED BY <1>4, <1>5

(* Induction: a set that has 0, and n + 1 with n, has every number.        *)
LEMMA Induct ==
  ASSUME NEW S \in SUBSET Nat, 0 \in S, \A n \in S : n + 1 \in S
  PROVE  S = Nat
<1> SUFFICES ASSUME Nat \ S # {} PROVE FALSE
  OBVIOUS
<1>1. PICK n \in Nat \ S : \A m \in Nat \ S : n <= m
  BY Least
<1>2. n # 0 /\ n - 1 \in Nat /\ n - 1 \in S
  BY <1>1
<1> QED BY <1>2, <1>1

(* The sequences of states from a first one by a step that is a function.  *)
Run(g, n, first, step) ==
  g[0] = first /\ \A i \in 0 .. (n - 1) : g[i + 1] = step[<<i, g[i]>>]

(* The same without an end.                                                *)
Iterates(f, first, step) ==
  f[0] = first /\ \A n \in Nat : f[n + 1] = step[<<n, f[n]>>]

(* Recursion: there is a function that begins with first and goes on by    *)
(* the step.  It is put together from the finite runs, of which there is   *)
(* one for every length and no two that differ.                            *)
LEMMA Recursion ==
  ASSUME NEW V, NEW first \in V, NEW step \in [Nat \X V -> V]
  PROVE  \E f \in [Nat -> V] : Iterates(f, first, step)
<1> DEFINE IsRun(n, g) == g \in [0 .. n -> V] /\ Run(g, n, first, step)
<1>1. \A n \in Nat : \E g \in [0 .. n -> V] : Run(g, n, first, step)
  <2> DEFINE S == {n \in Nat : \E g \in [0 .. n -> V] : Run(g, n, first, step)}
  <2>1. 0 \in S
    <3>1. [i \in 0 .. 0 |-> first] \in [0 .. 0 -> V]  OBVIOUS
    <3>2. Run([i \in 0 .. 0 |-> first], 0, first, step)  BY DEF Run
    <3> QED BY <3>1, <3>2
  <2>2. ASSUME NEW n \in S PROVE n + 1 \in S
    <3>1. PICK g \in [0 .. n -> V] : Run(g, n, first, step)
      OBVIOUS
    <3> DEFINE h == [i \in 0 .. (n + 1) |-> IF i = n + 1 THEN step[<<n, g[n]>>] ELSE g[i]]
    <3>2. h \in [0 .. (n + 1) -> V]
      <4>1. \A i \in 0 .. (n + 1) : i # n + 1 => i \in 0 .. n  OBVIOUS
      <4>2. n \in 0 .. n /\ n \in Nat  OBVIOUS
      <4> QED BY <4>1, <4>2
    <3>3. h[0] = first
      BY <3>1 DEF Run
    <3>4. ASSUME NEW i \in 0 .. ((n + 1) - 1) PROVE h[i + 1] = step[<<i, h[i]>>]
      <4>1. i \in 0 .. n /\ i \in 0 .. (n + 1) /\ i + 1 \in 0 .. (n + 1) /\ h[i] = g[i]
        OBVIOUS
      <4>2. CASE i = n
        BY <4>1, <4>2
      <4>3. CASE i # n
        <5>1. i \in 0 .. (n - 1) /\ i + 1 # n + 1 /\ h[i + 1] = g[i + 1]  BY <4>1, <4>3
        <5> QED BY <5>1, <4>1, <3>1 DEF Run
      <4> QED BY <4>2, <4>3
    <3>5. Run(h, n + 1, first, step)
      <4> HIDE DEF h
      <4> QED BY <3>3, <3>4 DEF Run
    <3> QED BY <3>2, <3>5
  <2>3. S = Nat
    <3> HIDE DEF S
    <3>1. S \in SUBSET Nat  BY DEF S
    <3> QED BY <3>1, <2>1, <2>2, Induct
  <2> QED BY <2>3
<1>2. ASSUME NEW n \in Nat, NEW m \in Nat, n <= m,
             NEW g \in [0 .. n -> V], Run(g, n, first, step),
             NEW h \in [0 .. m -> V], Run(h, m, first, step)
      PROVE  \A i \in 0 .. n : g[i] = h[i]
  <2> DEFINE D == {i \in 0 .. n : g[i] # h[i]}
  <2> SUFFICES ASSUME D # {} PROVE FALSE
    OBVIOUS
  <2>1. PICK i \in D : \A j \in D : i <= j
    <3>1. D \in SUBSET Nat  OBVIOUS
    <3> QED BY <3>1, Least
  <2>2. i # 0
    BY <1>2 DEF Run
  <2>3. i - 1 \in 0 .. n /\ i - 1 \notin D /\ i - 1 \in 0 .. (n - 1) /\ i - 1 \in 0 .. (m - 1)
    BY <2>1, <2>2, <1>2
  <2>4. g[(i - 1) + 1] = step[<<i - 1, g[i - 1]>>] /\ h[(i - 1) + 1] = step[<<i - 1, h[i - 1]>>]
    BY <2>3, <1>2 DEF Run
  <2>5. (i - 1) + 1 = i /\ g[i - 1] = h[i - 1]
    BY <2>3
  <2> QED BY <2>4, <2>5
<1> DEFINE G(n) == CHOOSE g \in [0 .. n -> V] : Run(g, n, first, step)
           f == [n \in Nat |-> G(n)[n]]
<1>3. ASSUME NEW n \in Nat PROVE G(n) \in [0 .. n -> V] /\ Run(G(n), n, first, step)
  BY <1>1
<1> HIDE DEF G
<1>4. f \in [Nat -> V]
  <2>1. \A n \in Nat : n \in 0 .. n  OBVIOUS
  <2> QED BY <1>3, <2>1
<1>5. f[0] = first
  BY <1>3 DEF Run
<1>6. ASSUME NEW n \in Nat PROVE f[n + 1] = step[<<n, f[n]>>]
  <2>1. n + 1 \in Nat /\ n <= n + 1 /\ n \in 0 .. n /\ n \in 0 .. ((n + 1) - 1)
    OBVIOUS
  <2>2. G(n)[n] = G(n + 1)[n]
    <3> DEFINE m == n + 1
               g == G(n)
               h == G(m)
    <3>1. m \in Nat /\ n <= m
      BY <2>1
    <3>2. g \in [0 .. n -> V] /\ Run(g, n, first, step)
      BY <1>3
    <3>3. h \in [0 .. m -> V] /\ Run(h, m, first, step)
      BY <1>3, <3>1
    <3> HIDE DEF m, g, h
    <3>4. \A i \in 0 .. n : g[i] = h[i]
      BY <1>2, <3>1, <3>2, <3>3
    <3>5. g[n] = h[n]
      BY <2>1, <3>4
    <3> QED BY <3>5 DEF m, g, h
  <2>3. G(n + 1)[n + 1] = step[<<n, G(n + 1)[n]>>]
    BY <2>1, <1>3 DEF Run
  <2> QED BY <2>1, <2>2, <2>3
<1> HIDE DEF f
<1>7. Iterates(f, first, step)
  BY <1>5, <1>6 DEF Iterates
<1> QED BY <1>4, <1>7

(* Induction over a set whose elements have a depth: a set that has an     *)
(* element with all that are less deep has every element.                  *)
LEMMA DepthInduct ==
  ASSUME NEW S, NEW d \in [S -> Nat], NEW P,
         \A x \in S : (\A y \in S : d[y] < d[x] => y \in P) => x \in P
  PROVE  \A x \in S : x \in P
<1> DEFINE D == {d[x] : x \in S \ P}
<1> SUFFICES ASSUME S \ P # {} PROVE FALSE
  OBVIOUS
<1>1. D \in SUBSET Nat /\ D # {}
  OBVIOUS
<1>2. PICK n \in D : \A m \in D : n <= m
  BY <1>1, Least
<1>3. PICK x \in S \ P : d[x] = n
  OBVIOUS
<1>4. ASSUME NEW y \in S, d[y] < d[x] PROVE y \in P
  <2> SUFFICES ASSUME y \notin P PROVE FALSE
    OBVIOUS
  <2>1. d[y] \in D /\ d[y] \in Nat /\ d[x] \in Nat
    OBVIOUS
  <2> QED BY <2>1, <1>2, <1>3, <1>4
<1> QED BY <1>3, <1>4

(* A step makes a value at an element of S from a function on S; to look   *)
(* below is to look at the values at elements less deep only.              *)
Steps(S, V) == [S \X [S -> V] -> V]

LooksBelow(step, S, V, d) ==
  \A x \in S : \A f, g \in [S -> V] :
    (\A y \in S : d[y] < d[x] => f[y] = g[y]) => step[<<x, f>>] = step[<<x, g>>]

Solves(f, S, step) == \A x \in S : f[x] = step[<<x, f>>]

(* Recursion over such a set: there is a function whose value at each      *)
(* element is made by the step from its values at those less deep.  It is  *)
(* the limit of what n steps make of any function: they settle its values  *)
(* at depths below n.                                                      *)
LEMMA DepthRecursion ==
  ASSUME NEW S, NEW V, NEW v \in V, NEW d \in [S -> Nat],
         NEW step \in Steps(S, V), LooksBelow(step, S, V, d)
  PROVE  \E f \in [S -> V] : Solves(f, S, step)
<1> USE DEF Steps
<1> DEFINE W == [S -> V]
           first == [x \in S |-> v]
           all == [p \in Nat \X W |-> [x \in S |-> step[<<x, p[2]>>]]]
<1>1. first \in W /\ all \in [Nat \X W -> W]
  OBVIOUS
<1>2. PICK F \in [Nat -> W] : Iterates(F, first, all)
  <2> HIDE DEF W, first, all
  <2> QED BY <1>1, Recursion
<1>3. ASSUME NEW n \in Nat, NEW x \in S PROVE F[n + 1][x] = step[<<x, F[n]>>]
  <2>1. F[n + 1] = all[<<n, F[n]>>] /\ F[n] \in W
    BY <1>2 DEF Iterates
  <2> QED BY <2>1
<1> HIDE DEF first, all
<1>4. \A n \in Nat : \A x \in S : d[x] < n => F[n + 1][x] = F[n][x]
  <2> DEFINE T == {n \in Nat : \A x \in S : d[x] < n => F[n + 1][x] = F[n][x]}
  <2>1. 0 \in T
    OBVIOUS
  <2>2. ASSUME NEW n \in T PROVE n + 1 \in T
    <3>1. n \in Nat /\ n + 1 \in Nat
      OBVIOUS
    <3>2. ASSUME NEW x \in S, d[x] < n + 1 PROVE F[(n + 1) + 1][x] = F[n + 1][x]
      <4>1. F[(n + 1) + 1][x] = step[<<x, F[n + 1]>>] /\ F[n + 1][x] = step[<<x, F[n]>>]
        BY <1>3, <3>1
      <4>2. ASSUME NEW y \in S, d[y] < d[x] PROVE F[n + 1][y] = F[n][y]
        <5>1. d[y] \in Nat /\ d[x] \in Nat /\ d[y] < n
          BY <3>1, <3>2, <4>2
        <5> QED BY <5>1
      <4>3. F[n + 1] \in [S -> V] /\ F[n] \in [S -> V]
        BY <3>1
      <4> QED BY <4>1, <4>2, <4>3 DEF LooksBelow
    <3> QED BY <3>1, <3>2
  <2>3. T = Nat
    <3> HIDE DEF T
    <3>1. T \in SUBSET Nat  BY DEF T
    <3> QED BY <3>1, <2>1, <2>2, Induct
  <2> QED BY <2>3
<1>5. ASSUME NEW x \in S, NEW n \in Nat, d[x] < n PROVE F[n][x] = F[d[x] + 1][x]
  <2> DEFINE T == {k \in Nat : F[(d[x] + 1) + k][x] = F[d[x] + 1][x]}
  <2>1. d[x] \in Nat /\ d[x] + 1 \in Nat
    OBVIOUS
  <2>2. 0 \in T
    BY <2>1
  <2>3. ASSUME NEW k \in T PROVE k + 1 \in T
    <3>1. k + 1 \in Nat /\ (d[x] + 1) + k \in Nat /\ d[x] < (d[x] + 1) + k
           /\ (d[x] + 1) + (k + 1) = ((d[x] + 1) + k) + 1
      BY <2>1
    <3>2. F[((d[x] + 1) + k) + 1][x] = F[(d[x] + 1) + k][x]
      BY <3>1, <1>4
    <3> QED BY <3>1, <3>2
  <2>4. T = Nat
    <3> HIDE DEF T
    <3>1. T \in SUBSET Nat  BY DEF T
    <3> QED BY <3>1, <2>2, <2>3, Induct
  <2>5. n - (d[x] + 1) \in Nat /\ (d[x] + 1) + (n - (d[x] + 1)) = n
    BY <2>1, <1>5
  <2>6. n - (d[x] + 1) \in T
    <3> HIDE DEF T
    <3> QED BY <2>4, <2>5
  <2> QED BY <2>5, <2>6
<1> DEFINE f == [x \in S |-> F[d[x] + 1][x]]
<1>6. f \in [S -> V]
  <2>1. ASSUME NEW x \in S PROVE F[d[x] + 1][x] \in V
    <3>1. d[x] + 1 \in Nat  OBVIOUS
    <3>2. F[d[x] + 1] \in [S -> V]  BY <3>1
    <3> QED BY <3>2
  <2> QED BY <2>1
<1>7. ASSUME NEW x \in S PROVE f[x] = step[<<x, f>>]
  <2>1. d[x] \in Nat /\ F[d[x]] \in [S -> V]
    OBVIOUS
  <2>2. f[x] = step[<<x, F[d[x]]>>]
    BY <1>3, <2>1
  <2>3. ASSUME NEW y \in S, d[y] < d[x] PROVE F[d[x]][y] = f[y]
    BY <1>5, <2>1, <2>3
  <2> HIDE DEF f
  <2> QED BY <2>1, <2>2, <2>3, <1>6 DEF LooksBelow
<1>8. Solves(f, S, step)
  BY <1>7 DEF Solves
<1> QED BY <1>6, <1>8
=============================================================================
