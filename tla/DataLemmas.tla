----------------------------- MODULE DataLemmas ------------------------------
(***************************************************************************)
(* Facts about numbers, finite sets and sequences that the proofs about    *)
(* Recording and McpServer rest on: extrema, induction, recursive          *)
(* functions and sums.                                                     *)
(*                                                                         *)
(* Induction is stated with a set T of the numbers (or subsets) that have  *)
(* the property, and is shown from the existence of minimal elements.  A   *)
(* function that is defined by recursion on 0 .. n exists and has its type *)
(* (Iterates).  MapThenSumSet takes the elements of a set in an order of   *)
(* its own; the sum does not depend on it (SumsCommute), so that adding an *)
(* element adds its value (SumsStep).                                      *)
(***************************************************************************)
EXTENDS Integers, Sequences, FiniteSets, FiniteSetsExt, WellFoundedInduction,
        FiniteSetTheorems, TLAPS

-----------------------------------------------------------------------------
(* Numbers.                                                                *)

\* A set of numbers has a least one.
LEMMA NatMin ==
  ASSUME NEW T, T \subseteq Nat, T # {}
  PROVE  Min(T) \in T /\ \A y \in T : Min(T) <= y
<1>1. PICK x \in T : \A y \in T : ~(<<y, x>> \in OpToRel(<, Nat))
  BY NatLessThanWellFounded, WFMin, Zenon
<1>2. \A y \in T : y < x => <<y, x>> \in OpToRel(<, Nat) BY DEF OpToRel
<1>3. \A y \in T : ~(y < x) BY <1>1, <1>2, Zenon
<1>4. \A y \in T : x <= y BY <1>3
<1> QED BY <1>4 DEF Min

\* A bounded one has a greatest.
LEMMA NatMax ==
  ASSUME NEW T, NEW n \in Nat, T \subseteq 0 .. n, T # {}
  PROVE  Max(T) \in T /\ \A y \in T : y <= Max(T)
<1> DEFINE U == {n - y : y \in T}
<1>1. U \subseteq Nat /\ U # {}
  <2>1. \A y \in T : n - y \in Nat OBVIOUS
  <2>2. U \subseteq Nat BY <2>1
  <2>3. PICK y \in T : TRUE OBVIOUS
  <2>4. n - y \in U OBVIOUS
  <2> QED BY <2>2, <2>4
<1>2. Min(U) \in U /\ \A z \in U : Min(U) <= z BY <1>1, NatMin
<1>3. PICK x \in T : Min(U) = n - x BY <1>2
<1>4. \A y \in T : n - y \in U OBVIOUS
<1> HIDE DEF U
<1>5. \A y \in T : n - x <= n - y BY <1>2, <1>3, <1>4
<1>6. \A y \in T : y <= x BY <1>5
<1> QED BY <1>6 DEF Max

\* Induction over the numbers, for the members of a set.
LEMMA SetInduction ==
  ASSUME NEW T, 0 \in T, \A n \in Nat : n \in T => n + 1 \in T
  PROVE  Nat \subseteq T
<1> DEFINE U == Nat \ T
<1>1. SUFFICES ASSUME U # {} PROVE FALSE BY Zenon
<1>2. Min(U) \in U /\ \A y \in U : Min(U) <= y BY <1>1, NatMin
<1> DEFINE m == Min(U)
<1>3. m \in Nat /\ m # 0 BY <1>2
<1>4. m - 1 \in Nat /\ m - 1 \notin U
  <2> HIDE DEF U
  <2>1. m \in Nat /\ \A y \in U : m <= y BY <1>2, <1>3
  <2> HIDE DEF m
  <2> QED BY <1>3, <2>1
<1>5. m - 1 \in T BY <1>4
<1>6. (m - 1) + 1 = m BY <1>3
<1> QED BY <1>2, <1>4, <1>5, <1>6, Zenon

\* f[i] is what n steps from base on have led to after the i-th.
Iteration(f, n, base, step) ==
  f[0] = base /\ \A i \in 1 .. n : f[i] = step[i][f[i - 1]]

\* So many steps can be made, and do not leave V.
LEMMA Iterates ==
  ASSUME NEW n \in Nat, NEW V, NEW base \in V, NEW step \in [1 .. n -> [V -> V]]
  PROVE  \E f \in [0 .. n -> V] : Iteration(f, n, base, step)
<1> DEFINE Good(m, f) == \A i \in 0 .. m : f[i] = IF i = 0 THEN base ELSE step[i][f[i - 1]]
           T == {m \in Nat : m <= n => \E f \in [0 .. m -> V] : Good(m, f)}
<1>1. 0 \in T
  <2>1. [i \in 0 .. 0 |-> base] \in [0 .. 0 -> V] OBVIOUS
  <2>2. Good(0, [i \in 0 .. 0 |-> base]) OBVIOUS
  <2> QED BY <2>1, <2>2
<1>2. ASSUME NEW m \in Nat, m \in T PROVE m + 1 \in T
  <2>1. SUFFICES ASSUME m + 1 <= n PROVE \E g \in [0 .. m + 1 -> V] : Good(m + 1, g)
    OBVIOUS
  <2>2. PICK f \in [0 .. m -> V] : Good(m, f) BY <1>2, <2>1
  <2> DEFINE g == [i \in 0 .. m + 1 |-> IF i = m + 1 THEN step[m + 1][f[m]] ELSE f[i]]
  <2>3. step[m + 1][f[m]] \in V
    <3>1. m + 1 \in 1 .. n /\ m \in 0 .. m BY <2>1
    <3>2. step[m + 1] \in [V -> V] /\ f[m] \in V BY <3>1
    <3> QED BY <3>2
  <2>4. g \in [0 .. m + 1 -> V] BY <2>3
  <2>5. Good(m + 1, g)
    <3>1. SUFFICES ASSUME NEW i \in 0 .. m + 1
                   PROVE  g[i] = IF i = 0 THEN base ELSE step[i][g[i - 1]]
      OBVIOUS
    <3>2. CASE i = m + 1 BY <3>2
    <3>3. CASE i \in 0 .. m
      <4>1. g[i] = f[i] BY <3>3
      <4>2. i # 0 => g[i - 1] = f[i - 1] BY <3>3
      <4> QED BY <2>2, <3>3, <4>1, <4>2
    <3> QED BY <3>2, <3>3
  <2> QED BY <2>4, <2>5
<1>3. n \in T
  <2> HIDE DEF T
  <2> QED BY <1>1, <1>2, SetInduction
<1>4. PICK f \in [0 .. n -> V] : Good(n, f) BY <1>3
<1>5. Iteration(f, n, base, step) BY <1>4 DEF Iteration
<1> QED BY <1>5

-----------------------------------------------------------------------------
(* Sums over finite sets.                                                 *)

\* Induction over the subsets of a finite set, by taking away one element.
LEMMA SubsetInduction ==
  ASSUME NEW S, IsFiniteSet(S), NEW T,
         \A s \in SUBSET S : (\A x \in s : s \ {x} \in T) => s \in T
  PROVE  SUBSET S \subseteq T
<1> DEFINE U == (SUBSET S) \ T
<1>1. SUFFICES ASSUME U # {} PROVE FALSE BY Zenon
<1>2. IsWellFoundedOn(StrictSubsetOrdering(S), SUBSET S)
  BY FS_StrictSubsetOrderingWellFounded, FS_FiniteSubsetsOfFinite
<1>3. PICK s \in U : \A y \in U : ~(<<y, s>> \in StrictSubsetOrdering(S))
  <2>1. U \subseteq SUBSET S BY Zenon
  <2> HIDE DEF U
  <2> QED BY <1>1, <1>2, <2>1, WFMin, Zenon
<1>4. ASSUME NEW x \in s PROVE s \ {x} \in T
  <2>1. s \ {x} \in SUBSET S /\ s \in SUBSET S /\ s \ {x} # s BY <1>3
  <2>2. <<s \ {x}, s>> \in StrictSubsetOrdering(S) BY <2>1 DEF StrictSubsetOrdering
  <2> QED BY <1>3, <2>1, <2>2, Zenon
<1>5. s \in SUBSET S /\ s \notin T BY <1>3
<1> QED BY <1>4, <1>5, Zenon

\* The element that MapThenFoldSet takes next.
Pick(s) == CHOOSE x \in s : TRUE

\* t[s] is the sum of f over s, taken in the order of Pick, for every s \subseteq S.
SumsOf(t, f, S) ==
  t = [s \in SUBSET S |-> IF s = {} THEN 0 ELSE f[Pick(s)] + t[s \ {Pick(s)}]]

\* The recursion over the subsets is well founded.
LEMMA SumsExist ==
  ASSUME NEW S, IsFiniteSet(S), NEW f \in [S -> Nat]
  PROVE  \E t \in [SUBSET S -> Nat] : SumsOf(t, f, S)
<1> DEFINE n == Cardinality(S)
           V == [SUBSET S -> Nat]
           Once(t) == [s \in SUBSET S |-> IF s = {} THEN 0 ELSE f[Pick(s)] + t[s \ {Pick(s)}]]
           base == [s \in SUBSET S |-> 0]
           step == [i \in 1 .. n |-> [t \in V |-> Once(t)]]
<1>1. n \in Nat BY FS_CardinalityType
<1>2. \A s \in SUBSET S : s # {} => Pick(s) \in s /\ s \ {Pick(s)} \in SUBSET S BY DEF Pick
<1>3. \A s \in SUBSET S : IsFiniteSet(s) /\ Cardinality(s) \in Nat /\ Cardinality(s) <= n
  BY FS_Subset, FS_CardinalityType
<1>4. \A s \in SUBSET S : s # {} => Cardinality(s \ {Pick(s)}) = Cardinality(s) - 1
  BY <1>2, <1>3, FS_RemoveElement
<1>5. \A s \in SUBSET S : Cardinality(s) = 0 <=> s = {} BY <1>3, FS_EmptySet
<1>6. ASSUME NEW t \in V PROVE Once(t) \in V
  <2>1. ASSUME NEW s \in SUBSET S
        PROVE  (IF s = {} THEN 0 ELSE f[Pick(s)] + t[s \ {Pick(s)}]) \in Nat
    <3>1. CASE s = {} BY <3>1
    <3>2. CASE s # {}
      <4>1. f[Pick(s)] \in Nat /\ t[s \ {Pick(s)}] \in Nat BY <1>2, <3>2
      <4> QED BY <3>2, <4>1
    <3> QED BY <3>1, <3>2
  <2> QED BY <2>1
<1>7. base \in V OBVIOUS
<1>8. step \in [1 .. n -> [V -> V]]
  <2> HIDE DEF Once, V, n
  <2> QED BY <1>6
<1> HIDE DEF n
<1>9. PICK F \in [0 .. n -> V] : Iteration(F, n, base, step)
  <2> HIDE DEF V, base, step
  <2> QED BY <1>1, <1>7, <1>8, Iterates
<1>10. F[0] = base BY <1>9 DEF Iteration
<1>11. \A k \in 0 .. n : k # n => F[k + 1] = Once(F[k])
  <2>1. SUFFICES ASSUME NEW k \in 0 .. n, k # n PROVE F[k + 1] = Once(F[k]) OBVIOUS
  <2> HIDE DEF Once, V, base
  <2>2. k + 1 \in 0 .. n /\ k + 1 # 0 /\ k + 1 \in 1 .. n /\ (k + 1) - 1 = k BY <1>1, <2>1
  <2>3. F[k + 1] = step[k + 1][F[k]]
    <3> HIDE DEF step
    <3> QED BY <1>9, <2>2 DEF Iteration
  <2>4. F[k] \in V BY <2>1
  <2>5. step[k + 1] = [t \in V |-> Once(t)] BY <2>2
  <2> QED BY <2>3, <2>4, <2>5
<1> DEFINE Stable(k) == \A s \in SUBSET S : Cardinality(s) <= k => Once(F[k])[s] = F[k][s]
           T == {k \in Nat : k <= n => Stable(k)}
<1>12. 0 \in T
  <2>1. \A s \in SUBSET S : Cardinality(s) <= 0 => s = {} BY <1>3, <1>5
  <2>2. ASSUME NEW s \in SUBSET S, Cardinality(s) <= 0 PROVE Once(F[0])[s] = F[0][s]
    <3>1. s = {} BY <2>1, <2>2
    <3>2. F[0][s] = 0 BY <1>10
    <3>3. Once(F[0])[s] = 0 BY <3>1
    <3> QED BY <3>2, <3>3
  <2> QED BY <2>2
<1>13. ASSUME NEW k \in Nat, k \in T PROVE k + 1 \in T
  <2> HIDE DEF Once
  <2>1. SUFFICES ASSUME k + 1 <= n, NEW s \in SUBSET S, Cardinality(s) <= k + 1
                 PROVE  Once(F[k + 1])[s] = F[k + 1][s]
    OBVIOUS
  <2>2. k \in 0 .. n /\ k # n /\ Stable(k) BY <1>1, <1>13, <2>1
  <2>3. F[k + 1] = Once(F[k]) BY <1>11, <2>2
  <2> USE DEF Once
  <2>4. CASE s = {}
    <3>1. Once(F[k + 1])[s] = 0 /\ Once(F[k])[s] = 0 BY <2>4
    <3> QED BY <2>3, <3>1
  <2>5. CASE s # {}
    <3> DEFINE u == s \ {Pick(s)}
    <3>1. u \in SUBSET S /\ Cardinality(u) <= k
      <4> HIDE DEF Once, V, base, step, T, Stable
      <4>1. u \in SUBSET S OBVIOUS
      <4>2. Cardinality(u) = Cardinality(s) - 1 BY <1>4, <2>5
      <4>3. Cardinality(s) \in Nat BY <1>3
      <4> HIDE DEF u
      <4> QED BY <2>1, <4>1, <4>2, <4>3
    <3>2. Once(F[k])[u] = F[k][u] BY <2>2, <3>1
    <3>3. F[k + 1][u] = F[k][u] BY <2>3, <3>2
    <3>4. Once(F[k + 1])[s] = f[Pick(s)] + F[k + 1][u] BY <2>5
    <3>5. Once(F[k])[s] = f[Pick(s)] + F[k][u] BY <2>5
    <3> HIDE DEF Once, u
    <3> QED BY <2>3, <3>3, <3>4, <3>5
  <2> QED BY <2>4, <2>5
<1>14. Stable(n)
  <2> HIDE DEF Once
  <2>1. n \in T
    <3> HIDE DEF T
    <3> QED BY <1>1, <1>12, <1>13, SetInduction
  <2> QED BY <1>1, <2>1
<1>15. F[n] \in V /\ \A s \in SUBSET S : Once(F[n])[s] = F[n][s]
  <2> HIDE DEF Once
  <2>1. F[n] \in V
    <3> HIDE DEF V
    <3> QED BY <1>1
  <2>2. \A s \in SUBSET S : Cardinality(s) <= n => Once(F[n])[s] = F[n][s] BY <1>14
  <2> QED BY <1>3, <2>1, <2>2, Zenon
<1>16. SumsOf(F[n], f, S)
  <2>1. F[n] = [s \in SUBSET S |-> Once(F[n])[s]]
    <3> HIDE DEF Once
    <3> QED BY <1>15
  <2>2. Once(F[n]) = [s \in SUBSET S |-> Once(F[n])[s]] OBVIOUS
  <2> QED BY <2>1, <2>2 DEF SumsOf
<1> QED BY <1>15, <1>16

\* t is the sum of f, whichever element is taken last.
Additive(t, f, S) ==
  /\ t \in [SUBSET S -> Nat] /\ t[{}] = 0
  /\ \A s \in SUBSET S : \A x \in s : t[s] = f[x] + t[s \ {x}]

\* Any element may be added last.
LEMMA SumsCommute ==
  ASSUME NEW S, IsFiniteSet(S), NEW f \in [S -> Nat], NEW t, SumsOf(t, f, S)
  PROVE  Additive(t, f, S)
<1>1. \A s \in SUBSET S : s # {} => Pick(s) \in s /\ s \ {Pick(s)} \in SUBSET S BY DEF Pick
<1>2. /\ DOMAIN t = SUBSET S /\ t[{}] = 0
      /\ t = [s \in SUBSET S |-> t[s]]
      /\ \A s \in SUBSET S : s # {} => t[s] = f[Pick(s)] + t[s \ {Pick(s)}]
  BY DEF SumsOf
<1> DEFINE N == {s \in SUBSET S : t[s] \in Nat}
           T == {s \in SUBSET S : \A x \in s : t[s] = f[x] + t[s \ {x}]}
<1>0. \A s \in SUBSET S : t[s] \in Nat
  <2>1. ASSUME NEW s \in SUBSET S, \A x \in s : s \ {x} \in N PROVE s \in N
    <3>1. CASE s = {} BY <1>2, <3>1
    <3>2. CASE s # {}
      <4>1. f[Pick(s)] \in Nat /\ t[s \ {Pick(s)}] \in Nat BY <1>1, <2>1, <3>2
      <4>2. t[s] = f[Pick(s)] + t[s \ {Pick(s)}] BY <1>2, <3>2
      <4>3. t[s] \in Nat BY <4>1, <4>2
      <4> QED BY <4>3
    <3> QED BY <3>1, <3>2
  <2>2. SUBSET S \subseteq N
    <3> HIDE DEF N
    <3> QED BY <2>1, SubsetInduction
  <2> QED BY <2>2
<1>3. ASSUME NEW s \in SUBSET S, \A x \in s : s \ {x} \in T PROVE s \in T
  <2>1. CASE s = {} BY <1>2, <2>1
  <2>2. CASE s # {}
    <3> DEFINE p == Pick(s)
    <3>1. p \in s /\ s \ {p} \in T /\ f[p] \in Nat BY <1>1, <1>3, <2>2
    <3>2. t[s] = f[p] + t[s \ {p}] BY <1>2, <2>2
    <3>3. t[s] \in Nat BY <1>0
    <3>4. ASSUME NEW x \in s PROVE t[s] = f[x] + t[s \ {x}]
      <4>1. CASE x = p BY <3>2, <4>1
      <4>2. CASE x # p
        <5>1. s \ {x} \in T /\ f[x] \in Nat BY <1>3
        <5>2. x \in s \ {p} /\ p \in s \ {x} BY <3>1, <4>2
        <5>3. t[s \ {p}] = f[x] + t[(s \ {p}) \ {x}] BY <3>1, <5>2
        <5>4. t[s \ {x}] = f[p] + t[(s \ {x}) \ {p}] BY <5>1, <5>2
        <5>5. t[(s \ {p}) \ {x}] = t[(s \ {x}) \ {p}]
          <6>1. (s \ {p}) \ {x} = (s \ {x}) \ {p} OBVIOUS
          <6> QED BY <6>1
        <5>6. t[(s \ {x}) \ {p}] \in Nat BY <1>0
        <5> HIDE DEF p, T
        <5> QED BY <3>1, <3>2, <5>1, <5>3, <5>4, <5>5, <5>6
      <4> QED BY <4>1, <4>2
    <3> QED BY <3>3, <3>4
  <2> QED BY <2>1, <2>2
<1>4. SUBSET S \subseteq T
  <2> HIDE DEF T
  <2> QED BY <1>3, SubsetInduction
<1>5. t \in [SUBSET S -> Nat] BY <1>0, <1>2
<1> QED BY <1>2, <1>4, <1>5 DEF Additive

\* What is summed up decides the sum.
LEMMA SumsUnique ==
  ASSUME NEW S, IsFiniteSet(S), NEW T \in SUBSET S,
         NEW f \in [S -> Nat], NEW g \in [T -> Nat], \A x \in T : f[x] = g[x],
         NEW t, SumsOf(t, f, S), NEW u, SumsOf(u, g, T)
  PROVE  \A s \in SUBSET T : t[s] = u[s]
<1>1. IsFiniteSet(T) BY FS_Subset
<1>2. Additive(t, f, S) /\ Additive(u, g, T) BY <1>1, SumsCommute
<1>3. t[{}] = u[{}] BY <1>2 DEF Additive
<1> DEFINE E == {s \in SUBSET T : t[s] = u[s]}
<1>4. ASSUME NEW s \in SUBSET T, \A x \in s : s \ {x} \in E PROVE s \in E
  <2>1. CASE s = {} BY <1>3, <2>1
  <2>2. CASE s # {}
    <3>1. PICK x \in s : TRUE BY <2>2
    <3>2. s \in SUBSET S /\ s \ {x} \in E /\ f[x] = g[x] BY <1>4
    <3>3. t[s] = f[x] + t[s \ {x}] BY <1>2, <3>2 DEF Additive
    <3>4. u[s] = g[x] + u[s \ {x}] BY <1>2 DEF Additive
    <3> QED BY <3>2, <3>3, <3>4
  <2> QED BY <2>1, <2>2
<1>5. SUBSET T \subseteq E
  <2> HIDE DEF E
  <2> QED BY <1>1, <1>4, SubsetInduction
<1> QED BY <1>5

\* One element more.
LEMMA SumsStep ==
  ASSUME NEW T, IsFiniteSet(T), NEW x, x \notin T, NEW S, S = T \cup {x},
         NEW f \in [S -> Nat], NEW g \in [T -> Nat], \A y \in T : f[y] = g[y],
         NEW t, SumsOf(t, f, S), NEW u, SumsOf(u, g, T)
  PROVE  t[S] = u[T] + f[x]
<1>1. T \in SUBSET S /\ x \in S /\ S \ {x} = T OBVIOUS
<1>2. IsFiniteSet(S) BY FS_AddElement
<1>3. t[T] = u[T]
  <2>1. \A s \in SUBSET T : t[s] = u[s] BY <1>1, <1>2, SumsUnique
  <2> QED BY <2>1
<1>4. Additive(t, f, S) BY <1>2, SumsCommute
<1>5. t[S] = f[x] + t[T] BY <1>1, <1>4 DEF Additive
<1>6. f[x] \in Nat /\ t[T] \in Nat BY <1>1, <1>4 DEF Additive
<1> QED BY <1>3, <1>5, <1>6

-----------------------------------------------------------------------------
(* Sequences.                                                              *)

\* One element more at the end.
LEMMA RangeAppend ==
  ASSUME NEW T, NEW s \in Seq(T), NEW e \in T
  PROVE  Append(s, e) \in Seq(T) /\ Range(Append(s, e)) = Range(s) \cup {e}
<1>1. Append(s, e) \in Seq(T) OBVIOUS
<1>2. /\ Len(Append(s, e)) = Len(s) + 1
      /\ Append(s, e)[Len(s) + 1] = e
      /\ \A i \in 1 .. Len(s) : Append(s, e)[i] = s[i]
  OBVIOUS
<1>3. ASSUME NEW x \in Range(Append(s, e)) PROVE x \in Range(s) \cup {e}
  <2>1. PICK i \in 1 .. Len(s) + 1 : x = Append(s, e)[i] BY <1>1, <1>2 DEF Range
  <2>2. CASE i = Len(s) + 1 BY <1>2, <2>1, <2>2
  <2>3. CASE i \in 1 .. Len(s) BY <1>2, <2>1, <2>3 DEF Range
  <2> QED BY <2>1, <2>2, <2>3
<1>4. ASSUME NEW x \in Range(s) PROVE x \in Range(Append(s, e))
  <2>1. PICK i \in 1 .. Len(s) : x = s[i] BY DEF Range
  <2>2. i \in DOMAIN Append(s, e) BY <1>1, <1>2
  <2> QED BY <1>2, <2>1, <2>2 DEF Range
<1>5. e \in Range(Append(s, e)) BY <1>1, <1>2 DEF Range
<1> QED BY <1>1, <1>3, <1>4, <1>5

\* A sequence has finitely many elements.
LEMMA RangeFinite ==
  ASSUME NEW T, NEW s \in Seq(T)
  PROVE  IsFiniteSet(Range(s))
<1>1. s \in [1 .. Len(s) -> T] /\ Len(s) \in Nat OBVIOUS
<1>2. IsFiniteSet(1 .. Len(s)) BY <1>1, FS_Interval
<1>3. s \in Surjection(1 .. Len(s), Range(s)) BY <1>1 DEF Surjection, Range
<1> QED BY <1>2, <1>3, FS_Surjection
=============================================================================
