--------------------------------- MODULE Sums ---------------------------------
(***************************************************************************)
(* Facts about sums over finite sets, for the proofs about TradingLoop     *)
(* and FillLedger.  A sum is the fold MapThenSumSet of the community       *)
(* modules, a recursive function over the subsets of the set.  What it     *)
(* computes is shown by induction over these subsets.  The induction       *)
(* theorems of the library take an operator as a parameter; here the       *)
(* induction hypothesis is a set instead, and the ground of the induction  *)
(* is that a set of natural numbers has a least element.                   *)
(***************************************************************************)
EXTENDS Naturals, FiniteSetsExt, FiniteSetTheorems, WellFoundedInduction, TLAPS

\* The sum of f over S.
Total(f, S) == LET value(x) == f[x] IN MapThenSumSet(value, S)

\* Every non-empty set of natural numbers has a least element.
LEMMA LeastNumber ==
    ASSUME NEW T, T \subseteq Nat, T # {}
    PROVE  \E n \in T : \A m \in T : n <= m
<1> DEFINE R == OpToRel(<, Nat)
<1>1. IsWellFoundedOn(R, Nat)
  BY NatLessThanWellFounded
<1>2. \A x, y \in Nat : <<y, x>> \in R <=> y < x
  BY DEF OpToRel
<1> HIDE DEF R
<1>3. PICK n \in T : \A y \in T : <<y, n>> \notin R
  BY <1>1, WFMin
<1>4. ASSUME NEW m \in T
      PROVE  n <= m
  <2>1. n \in Nat /\ m \in Nat /\ <<m, n>> \notin R
    BY <1>3
  <2>2. ~(m < n)
    BY <1>2, <2>1
  <2> QED
    BY <2>1, <2>2
<1> QED
  BY <1>4

\* Induction over the subsets of a finite set: T is the set of those that
\* have the property to be shown.
LEMMA SubsetInduction ==
    ASSUME NEW S, IsFiniteSet(S), NEW T,
           \A s \in SUBSET S : (\A x \in s : s \ {x} \in T) => s \in T
    PROVE  SUBSET S \subseteq T
<1> DEFINE Bad == {s \in SUBSET S : s \notin T}
           Sizes == {Cardinality(s) : s \in Bad}
<1> SUFFICES ASSUME Bad # {}
             PROVE  FALSE
  OBVIOUS
<1>1. \A s \in SUBSET S : IsFiniteSet(s) /\ Cardinality(s) \in Nat
  BY FS_Subset, FS_CardinalityType
<1>2. PICK n \in Sizes : \A m \in Sizes : n <= m
  <2>1. Sizes \subseteq Nat /\ Sizes # {}
    BY <1>1
  <2> HIDE DEF Sizes
  <2> QED
    BY <2>1, LeastNumber
<1>3. PICK s \in Bad : n = Cardinality(s)
  OBVIOUS
<1>4. ASSUME NEW x \in s
      PROVE  s \ {x} \in T
  <2>1. Cardinality(s \ {x}) = n - 1 /\ n \in Nat
    BY <1>1, <1>3, FS_RemoveElement
  <2>2. s \ {x} \in Bad => Cardinality(s \ {x}) \in Sizes
    OBVIOUS
  <2>3. s \ {x} \notin Bad
    BY <1>2, <2>1, <2>2
  <2> QED
    BY <2>3
<1> QED
  BY <1>4

-----------------------------------------------------------------------------
\* The recursion behind a sum: g gives every subset of S its sum, adding the
\* elements in the order in which CHOOSE picks them.

Pick(s) == CHOOSE x \in s : TRUE

SumsUp(g, f, S) ==
    g = [s \in SUBSET S |-> IF s = {} THEN 0 ELSE f[Pick(s)] + g[s \ {Pick(s)}]]

\* The recursion has a solution, built up from the small subsets to the large.
LEMMA SumExists ==
    ASSUME NEW S, IsFiniteSet(S), NEW f
    PROVE  \E g : SumsUp(g, f, S)
<1> DEFINE Part(n) == {s \in SUBSET S : Cardinality(s) <= n}
           Solves(g, n) ==
               g = [s \in Part(n) |-> IF s = {} THEN 0 ELSE f[Pick(s)] + g[s \ {Pick(s)}]]
           T == {n \in Nat : \E g : Solves(g, n)}
<1>1. \A s \in SUBSET S : IsFiniteSet(s) /\ Cardinality(s) \in Nat
  BY FS_Subset, FS_CardinalityType
<1>2. 0 \in T
  <2>1. Part(0) = {{}}
    BY <1>1, FS_EmptySet
  <2>2. Solves([s \in Part(0) |-> 0], 0)
    BY <2>1
  <2> QED
    BY <2>2
<1>3. ASSUME NEW n \in Nat, n \in T
      PROVE  n + 1 \in T
  <2>1. PICK g : Solves(g, n)
    BY <1>3
  <2> DEFINE h == [s \in Part(n + 1) |-> IF s = {} THEN 0 ELSE f[Pick(s)] + g[s \ {Pick(s)}]]
  <2>2. ASSUME NEW s \in Part(n + 1), s # {}
        PROVE  h[s \ {Pick(s)}] = g[s \ {Pick(s)}]
    <3> DEFINE r == s \ {Pick(s)}
    <3>1. Pick(s) \in s
      BY <2>2 DEF Pick
    <3>2. r \in Part(n)
      BY <1>1, <2>2, <3>1, FS_RemoveElement
    <3>3. r \in Part(n + 1)
      BY <1>1, <3>2
    <3>4. g[r] = IF r = {} THEN 0 ELSE f[Pick(r)] + g[r \ {Pick(r)}]
      BY <2>1, <3>2
    <3> QED
      BY <3>3, <3>4
  <2>3. h = [s \in Part(n + 1) |-> IF s = {} THEN 0 ELSE f[Pick(s)] + h[s \ {Pick(s)}]]
    BY <2>2
  <2>4. Solves(h, n + 1)
    BY <2>3
  <2> HIDE DEF h, Solves
  <2> QED
    BY <2>4
<1>4. Cardinality(S) \in T
  <2> DEFINE B == Nat \ T
  <2>1. B = {}
    <3> SUFFICES ASSUME B # {}
                 PROVE  FALSE
      OBVIOUS
    <3> HIDE DEF T
    <3>1. PICK n \in B : \A m \in B : n <= m
      <4>1. B \subseteq Nat
        OBVIOUS
      <4> HIDE DEF B
      <4> QED
        BY <4>1, LeastNumber
    <3>2. n # 0
      BY <1>2
    <3>3. n - 1 \in Nat /\ n - 1 \notin B
      BY <3>1, <3>2
    <3> QED
      BY <1>3, <3>1, <3>3
  <2> QED
    BY <1>1, <2>1
<1>5. Part(Cardinality(S)) = SUBSET S
  BY <1>1, FS_Subset
<1> QED
  BY <1>4, <1>5 DEF SumsUp

\* Sums of natural numbers are natural numbers.
LEMMA SumType ==
    ASSUME NEW S, IsFiniteSet(S), NEW f, \A x \in S : f[x] \in Nat, NEW g, SumsUp(g, f, S)
    PROVE  \A s \in SUBSET S : g[s] \in Nat
<1> DEFINE T == {s \in SUBSET S : g[s] \in Nat}
<1>1. ASSUME NEW s \in SUBSET S, \A x \in s : s \ {x} \in T
      PROVE  s \in T
  <2>1. CASE s = {}
    BY <2>1 DEF SumsUp
  <2>2. CASE s # {}
    <3>1. Pick(s) \in s
      BY <2>2 DEF Pick
    <3>2. g[s] = f[Pick(s)] + g[s \ {Pick(s)}]
      BY <2>2 DEF SumsUp
    <3>3. f[Pick(s)] \in Nat /\ g[s \ {Pick(s)}] \in Nat
      BY <1>1, <3>1
    <3> QED
      BY <3>2, <3>3
  <2> QED
    BY <2>1, <2>2
<1>2. SUBSET S \subseteq T
  <2> HIDE DEF T
  <2> QED
    BY <1>1, SubsetInduction
<1> QED
  BY <1>2

\* Whatever element is taken out first, the sum is the same.
LEMMA SumTakesOut ==
    ASSUME NEW S, IsFiniteSet(S), NEW f, \A x \in S : f[x] \in Nat, NEW g, SumsUp(g, f, S)
    PROVE  \A s \in SUBSET S : \A x \in s : g[s] = f[x] + g[s \ {x}]
<1> DEFINE T == {s \in SUBSET S : \A x \in s : g[s] = f[x] + g[s \ {x}]}
<1>1. \A s \in SUBSET S : g[s] \in Nat
  BY SumType
<1>2. ASSUME NEW s \in SUBSET S, \A x \in s : s \ {x} \in T, NEW x \in s
      PROVE  g[s] = f[x] + g[s \ {x}]
  <2> DEFINE c == Pick(s)
  <2>1. c \in s
    BY DEF Pick
  <2>2. g[s] = f[c] + g[s \ {c}]
    BY DEF SumsUp
  <2> HIDE DEF c
  <2>3. CASE x = c
    BY <2>2, <2>3
  <2>4. CASE x # c
    <3> DEFINE r == (s \ {c}) \ {x}
    <3>1. g[s \ {c}] = f[x] + g[r]
      BY <1>2, <2>1, <2>4
    <3>2. r = (s \ {x}) \ {c}
      OBVIOUS
    <3>3. g[s \ {x}] = f[c] + g[r]
      BY <1>2, <2>1, <2>4, <3>2
    <3>4. f[x] \in Nat /\ f[c] \in Nat /\ g[r] \in Nat
      BY <1>1, <2>1
    <3> HIDE DEF r
    <3> QED
      BY <2>2, <3>1, <3>3, <3>4
  <2> QED
    BY <2>3, <2>4
<1>3. SUBSET S \subseteq T
  <2>1. \A s \in SUBSET S : (\A x \in s : s \ {x} \in T) => s \in T
    BY <1>2
  <2> HIDE DEF T
  <2> QED
    BY <2>1, SubsetInduction
<1> QED
  BY <1>3

\* Two sums agree wherever their terms do.
LEMMA SumAgrees ==
    ASSUME NEW S, IsFiniteSet(S), NEW f, NEW e, NEW g, NEW h,
           NEW R, NEW Q, S \subseteq R, S \subseteq Q,
           SumsUp(g, f, R), SumsUp(h, e, Q), \A x \in S : f[x] = e[x]
    PROVE  g[S] = h[S]
<1> DEFINE T == {s \in SUBSET S : g[s] = h[s]}
<1>1. ASSUME NEW s \in SUBSET S, \A x \in s : s \ {x} \in T
      PROVE  s \in T
  <2>0. s \in SUBSET R /\ s \in SUBSET Q
    OBVIOUS
  <2>1. CASE s = {}
    BY <2>0, <2>1 DEF SumsUp
  <2>2. CASE s # {}
    <3>1. Pick(s) \in s
      BY <2>2 DEF Pick
    <3>2. g[s] = f[Pick(s)] + g[s \ {Pick(s)}] /\ h[s] = e[Pick(s)] + h[s \ {Pick(s)}]
      BY <2>0, <2>2 DEF SumsUp
    <3> QED
      BY <1>1, <3>1, <3>2
  <2> QED
    BY <2>1, <2>2
<1>2. SUBSET S \subseteq T
  <2> HIDE DEF T
  <2> QED
    BY <1>1, SubsetInduction
<1> QED
  BY <1>2

-----------------------------------------------------------------------------
\* Total is such a sum.
LEMMA TotalSumsUp ==
    ASSUME NEW S, IsFiniteSet(S), NEW f
    PROVE  \E g : SumsUp(g, f, S) /\ Total(f, S) = g[S]
<1> DEFINE g == CHOOSE iter :
                    iter = [s \in SUBSET S |-> IF s = {} THEN 0
                               ELSE f[CHOOSE x \in s : TRUE] + iter[s \ {CHOOSE x \in s : TRUE}]]
<1>1. Total(f, S) = g[S]
  BY DEF Total, MapThenSumSet, MapThenFoldSet
<1>2. \E h : h = [s \in SUBSET S |-> IF s = {} THEN 0
                     ELSE f[CHOOSE x \in s : TRUE] + h[s \ {CHOOSE x \in s : TRUE}]]
  <2>1. PICK h : SumsUp(h, f, S)
    BY SumExists
  <2>2. h = [s \in SUBSET S |-> IF s = {} THEN 0
                ELSE f[CHOOSE x \in s : TRUE] + h[s \ {CHOOSE x \in s : TRUE}]]
    BY <2>1 DEF SumsUp, Pick
  <2> QED
    BY <2>2
<1>3. g = [s \in SUBSET S |-> IF s = {} THEN 0
              ELSE f[CHOOSE x \in s : TRUE] + g[s \ {CHOOSE x \in s : TRUE}]]
  BY <1>2
<1> HIDE DEF g
<1>4. SumsUp(g, f, S)
  BY <1>3 DEF SumsUp, Pick
<1> QED
  BY <1>1, <1>4

\* What the proofs use: the type of a sum, the empty sum, an element taken
\* out, and sums with the same terms.
LEMMA TotalType ==
    ASSUME NEW S, IsFiniteSet(S), NEW f, \A x \in S : f[x] \in Nat
    PROVE  Total(f, S) \in Nat
<1>1. PICK g : SumsUp(g, f, S) /\ Total(f, S) = g[S]
  BY TotalSumsUp
<1> QED
  BY <1>1, SumType

LEMMA TotalEmpty ==
    ASSUME NEW f
    PROVE  Total(f, {}) = 0
<1>1. PICK g : SumsUp(g, f, {}) /\ Total(f, {}) = g[{}]
  BY TotalSumsUp, FS_EmptySet
<1> QED
  BY <1>1 DEF SumsUp

LEMMA TotalSame ==
    ASSUME NEW S, IsFiniteSet(S), NEW f, NEW e, \A x \in S : f[x] = e[x]
    PROVE  Total(f, S) = Total(e, S)
<1>1. PICK g : SumsUp(g, f, S) /\ Total(f, S) = g[S]
  BY TotalSumsUp
<1>2. PICK h : SumsUp(h, e, S) /\ Total(e, S) = h[S]
  BY TotalSumsUp
<1>3. g[S] = h[S]
  BY <1>1, <1>2, SumAgrees
<1> QED
  BY <1>1, <1>2, <1>3

LEMMA TotalRemove ==
    ASSUME NEW S, IsFiniteSet(S), NEW f, \A x \in S : f[x] \in Nat, NEW x \in S
    PROVE  Total(f, S) = f[x] + Total(f, S \ {x})
<1>1. PICK g : SumsUp(g, f, S) /\ Total(f, S) = g[S]
  BY TotalSumsUp
<1>2. IsFiniteSet(S \ {x})
  BY FS_RemoveElement
<1>3. PICK h : SumsUp(h, f, S \ {x}) /\ Total(f, S \ {x}) = h[S \ {x}]
  BY <1>2, TotalSumsUp
<1>4. g[S \ {x}] = h[S \ {x}]
  BY <1>1, <1>2, <1>3, SumAgrees
<1>5. g[S] = f[x] + g[S \ {x}]
  BY <1>1, SumTakesOut
<1> QED
  BY <1>1, <1>3, <1>4, <1>5

LEMMA TotalSplit ==
    ASSUME NEW S, IsFiniteSet(S), NEW f, \A x \in S : f[x] \in Nat, NEW x
    PROVE  /\ Total(f, S) = (IF x \in S THEN f[x] ELSE 0) + Total(f, S \ {x})
           /\ Total(f, S \ {x}) \in Nat
<1> DEFINE rest == S \ {x}
<1>1. IsFiniteSet(rest) /\ \A y \in rest : f[y] \in Nat
  BY FS_Subset
<1>2. Total(f, rest) \in Nat
  <2> HIDE DEF rest
  <2> QED
    BY <1>1, TotalType
<1>3. CASE x \in S
  BY <1>2, <1>3, TotalRemove
<1>4. CASE x \notin S
  <2>1. rest = S
    BY <1>4
  <2> QED
    BY <1>2, <1>4, <2>1
<1> QED
  BY <1>2, <1>3, <1>4

=============================================================================
