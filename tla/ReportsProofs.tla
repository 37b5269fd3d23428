----------------------------- MODULE ReportsProofs -----------------------------
(***************************************************************************)
(* Proofs about the readings of a tank, the events detected in them, its   *)
(* alerts and its reports, for any number of readings in any order of      *)
(* arrival.                                                                *)
(*                                                                         *)
(* The definitions choose from, and sum over, finite sets.  Induction over *)
(* a finite set is SetInduction: a set of sets that has U whenever it has  *)
(* U without any one of its members has every finite set.                  *)
(***************************************************************************)
EXTENDS Reports, FiniteSetTheorems, WellFoundedInduction, TLAPS

-----------------------------------------------------------------------------
(* Induction, extremes and sums                                            *)

\* A family of subsets of a finite set has a least member: induction over sets.
LEMMA MinimalSubset ==
  ASSUME NEW S, IsFiniteSet(S), NEW F \in SUBSET (SUBSET S), F # {}
  PROVE  \E U \in F : \A V \in F : V \subseteq U => V = U
<1>1. F \subseteq FiniteSubsetsOf(S)
  BY FS_FiniteSubsetsOfFinite
<1>2. PICK U \in F : \A V \in F : ~(<<V, U>> \in StrictSubsetOrdering(S))
  BY <1>1, FS_StrictSubsetOrderingWellFounded, WFMin
<1>3. \A V \in F : V \subseteq U => V = U
  BY <1>1, <1>2 DEF StrictSubsetOrdering
<1> WITNESS U \in F
<1> QED BY <1>3

\* Induction over the subsets of a finite set, and over the naturals.
LEMMA SetInduction ==
  ASSUME NEW S, IsFiniteSet(S), NEW G,
         \A U \in SUBSET S : (\A x \in U : U \ {x} \in G) => U \in G
  PROVE  S \in G
<1> DEFINE F == {U \in SUBSET S : U \notin G}
<1> SUFFICES ASSUME F # {} PROVE FALSE
  OBVIOUS
<1>1. PICK U \in F : \A V \in F : V \subseteq U => V = U
  <2>1. F \in SUBSET (SUBSET S)
    OBVIOUS
  <2>2. \E U \in F : \A V \in F : V \subseteq U => V = U
    <3> HIDE DEF F
    <3> QED BY <2>1, MinimalSubset
  <2> QED BY <2>2
<1>2. ASSUME NEW x \in U PROVE U \ {x} \in G
  BY <1>1
<1> QED BY <1>2

LEMMA NatInductionOn ==
  ASSUME NEW G, 0 \in G, \A n \in Nat : n \in G => n + 1 \in G
  PROVE  Nat \subseteq G
<1> SUFFICES ASSUME NEW n \in Nat PROVE n \in G
  OBVIOUS
<1> DEFINE Counted == {U \in SUBSET (1..n) : Cardinality(U) \in G}
<1>1. IsFiniteSet(1..n) /\ Cardinality(1..n) = n
  BY FS_Interval
<1>2. ASSUME NEW U \in SUBSET (1..n), \A x \in U : U \ {x} \in Counted PROVE U \in Counted
  <2>1. IsFiniteSet(U)
    BY <1>1, FS_Subset
  <2>2. CASE U = {}
    BY <2>2, FS_EmptySet
  <2>3. CASE U # {}
    <3>1. PICK x \in U : TRUE
      BY <2>3
    <3>2. Cardinality(U \ {x}) = Cardinality(U) - 1 /\ Cardinality(U \ {x}) \in Nat
      BY <2>1, <3>1, FS_RemoveElement, FS_CardinalityType
    <3>3. Cardinality(U \ {x}) \in G /\ Cardinality(U) \in Int
      BY <1>2, <3>1, <2>1, FS_CardinalityType
    <3>4. Cardinality(U \ {x}) + 1 \in G
      BY <3>2, <3>3
    <3> QED BY <3>2, <3>3, <3>4
  <2> QED BY <2>2, <2>3
<1>3. 1..n \in Counted
  <2> HIDE DEF Counted
  <2> QED BY <1>1, <1>2, SetInduction
<1> QED BY <1>1, <1>3

LEMMA Extremes ==
  ASSUME NEW S, IsFiniteSet(S), S \subseteq Int, S # {}
  PROVE  /\ Min(S) \in S /\ \A x \in S : Min(S) <= x
         /\ Max(S) \in S /\ \A x \in S : x <= Max(S)
<1> DEFINE Bounded(U) == \E a, b \in U : \A x \in U : a <= x /\ x <= b
           G == {U \in SUBSET S : U = {} \/ Bounded(U)}
<1>1. ASSUME NEW U \in SUBSET S, \A x \in U : U \ {x} \in G PROVE U \in G
  <2> SUFFICES ASSUME U # {} PROVE Bounded(U)
    OBVIOUS
  <2>1. PICK x \in U : TRUE
    OBVIOUS
  <2>2. x \in Int /\ U \subseteq Int
    BY <2>1
  <2>3. CASE U \ {x} = {}
    <3>1. U = {x}
      BY <2>1, <2>3
    <3> QED BY <3>1, <2>2
  <2>4. CASE U \ {x} # {}
    <3>1. Bounded(U \ {x})
      <4>1. U \ {x} \in G
        BY <1>1, <2>1
      <4> HIDE DEF Bounded
      <4> QED BY <4>1, <2>4
    <3>2. PICK a, b \in U \ {x} : \A y \in U \ {x} : a <= y /\ y <= b
      BY <3>1
    <3>3. PICK lo \in {a, x} : lo <= a /\ lo <= x
      BY <2>2
    <3>4. PICK hi \in {b, x} : b <= hi /\ x <= hi
      BY <2>2
    <3>5. ASSUME NEW y \in U PROVE lo <= y /\ y <= hi
      <4>1. y = x \/ (a <= y /\ y <= b)
        BY <3>2
      <4> QED BY <4>1, <3>3, <3>4, <2>2
    <3> QED BY <3>3, <3>4, <3>5, <2>1
  <2> QED BY <2>3, <2>4
<1>2. S \in G
  <2> HIDE DEF G
  <2> QED BY <1>1, SetInduction
<1>3. (\E a \in S : \A y \in S : a =< y) /\ (\E b \in S : \A y \in S : b >= y)
  BY <1>2
<1> QED BY <1>3 DEF Min, Max

\* A strict order that is total on a finite set has a greatest element in it.
LEMMA GreatestExists ==
  ASSUME NEW S, IsFiniteSet(S), S # {}, NEW R,
         \A a, b \in S : a = b \/ <<a, b>> \in R \/ <<b, a>> \in R,
         \A a, b, c \in S : <<a, b>> \in R /\ <<b, c>> \in R => <<a, c>> \in R
  PROVE  \E a \in S : \A b \in S : b = a \/ <<b, a>> \in R
<1> DEFINE Topped(U) == \E a \in U : \A b \in U : b = a \/ <<b, a>> \in R
           G == {U \in SUBSET S : U = {} \/ Topped(U)}
<1>1. ASSUME NEW U \in SUBSET S, \A x \in U : U \ {x} \in G PROVE U \in G
  <2> SUFFICES ASSUME U # {} PROVE Topped(U)
    OBVIOUS
  <2>1. PICK x \in U : TRUE
    OBVIOUS
  <2>2. CASE U \ {x} = {}
    BY <2>1, <2>2
  <2>3. CASE U \ {x} # {}
    <3>1. Topped(U \ {x})
      <4>1. U \ {x} \in G
        BY <1>1, <2>1
      <4> HIDE DEF Topped
      <4> QED BY <4>1, <2>3
    <3>2. PICK a \in U \ {x} : \A b \in U \ {x} : b = a \/ <<b, a>> \in R
      BY <3>1
    <3>3. CASE <<x, a>> \in R
      BY <3>2, <3>3
    <3>4. CASE <<a, x>> \in R
      <4>1. \A b \in U : b = x \/ <<b, x>> \in R
        BY <3>2, <3>4, <2>1
      <4> QED BY <4>1, <2>1
    <3> QED BY <3>3, <3>4, <2>1, <3>2
  <2> QED BY <2>2, <2>3
<1>2. S \in G
  <2> HIDE DEF G
  <2> QED BY <1>1, SetInduction
<1> QED BY <1>2

SumRecorded(S) == MapThenSumSet(LAMBDA d : d.recorded, S)
Picked(s) == CHOOSE x \in s : TRUE
Summed(g, s) == IF s = {} THEN 0 ELSE Picked(s).recorded + g[s \ {Picked(s)}]
Sums(g, S) == g = [s \in SUBSET S |-> Summed(g, s)]

LEMMA SumIsOfSums ==
  ASSUME NEW S PROVE SumRecorded(S) = (CHOOSE g : Sums(g, S))[S]
BY DEF SumRecorded, MapThenSumSet, MapThenFoldSet, Sums, Summed, Picked

LEMMA PickedIsIn == ASSUME NEW s, s # {} PROVE Picked(s) \in s
BY DEF Picked

LEMMA SumsExist ==
  ASSUME NEW S, IsFiniteSet(S) PROVE \E g : Sums(g, S)
<1> DEFINE Stage(n) == {s \in SUBSET S : Cardinality(s) <= n}
           Good(n) == \E g : g = [s \in Stage(n) |-> Summed(g, s)]
           G == {n \in Nat : Good(n)}
<1>1. 0 \in G
  <2>1. Stage(0) = {{}}
    <3>1. ASSUME NEW s \in SUBSET S, Cardinality(s) <= 0 PROVE s = {}
      <4>1. IsFiniteSet(s)
        BY FS_Subset
      <4>2. Cardinality(s) \in Nat /\ Cardinality(s) = 0
        BY <4>1, <3>1, FS_CardinalityType
      <4> QED BY <4>1, <4>2, FS_EmptySet
    <3>2. {} \in SUBSET S /\ Cardinality({}) <= 0
      BY FS_EmptySet
    <3> QED BY <3>1, <3>2
  <2> DEFINE g == [s \in {{}} |-> 0]
  <2>2. g = [s \in {{}} |-> Summed(g, s)]
    BY DEF Summed
  <2>3. g = [s \in Stage(0) |-> Summed(g, s)]
    BY <2>1, <2>2
  <2> QED BY <2>3
<1>2. ASSUME NEW n \in Nat, n \in G PROVE n + 1 \in G
  <2>1. PICK g : g = [s \in Stage(n) |-> Summed(g, s)]
    BY <1>2
  <2> DEFINE h == [s \in Stage(n + 1) |-> Summed(g, s)]
  <2>2. ASSUME NEW s \in Stage(n) PROVE h[s] = g[s]
    <3>1. s \in Stage(n + 1)
      <4>1. Cardinality(s) \in Nat
        BY FS_Subset, FS_CardinalityType
      <4> QED BY <4>1
    <3>2. h[s] = Summed(g, s)
      BY <3>1
    <3>3. g[s] = Summed(g, s)
      BY <2>1
    <3> QED BY <3>2, <3>3
  <2>3. ASSUME NEW s \in Stage(n + 1) PROVE Summed(h, s) = Summed(g, s)
    <3>1. CASE s = {}
      BY <3>1 DEF Summed
    <3>2. CASE s # {}
      <4>1. IsFiniteSet(s) /\ Cardinality(s) \in Nat /\ Picked(s) \in s
        BY <3>2, FS_Subset, FS_CardinalityType, PickedIsIn
      <4>2. Cardinality(s \ {Picked(s)}) = Cardinality(s) - 1
        BY <4>1, FS_RemoveElement
      <4>3. s \ {Picked(s)} \in Stage(n)
        BY <4>1, <4>2
      <4>4. h[s \ {Picked(s)}] = g[s \ {Picked(s)}]
        BY <4>3, <2>2
      <4> QED BY <4>4, <3>2 DEF Summed
    <3> QED BY <3>1, <3>2
  <2>4. h = [s \in Stage(n + 1) |-> Summed(h, s)]
    <3>1. ASSUME NEW s \in Stage(n + 1) PROVE h[s] = Summed(h, s)
      <4>1. h[s] = Summed(g, s)
        OBVIOUS
      <4> QED BY <4>1, <2>3
    <3>2. h = [s \in Stage(n + 1) |-> h[s]]
      OBVIOUS
    <3> HIDE DEF h, Stage
    <3> QED BY <3>1, <3>2
  <2> HIDE DEF h, Stage
  <2> QED BY <2>4
<1>3. Cardinality(S) \in G
  <2>1. Nat \subseteq G
    <3> HIDE DEF G
    <3> QED BY <1>1, <1>2, NatInductionOn
  <2> QED BY <2>1, FS_CardinalityType
<1>4. Stage(Cardinality(S)) = SUBSET S
  BY FS_Subset
<1>5. PICK g : g = [s \in Stage(Cardinality(S)) |-> Summed(g, s)]
  BY <1>3
<1> HIDE DEF Stage
<1> QED BY <1>4, <1>5 DEF Sums

LEMMA SumsAgree ==
  ASSUME NEW S, IsFiniteSet(S), NEW T \in SUBSET S,
         NEW g, Sums(g, S), NEW h, Sums(h, T)
  PROVE  g[T] = h[T]
<1> DEFINE G == {U \in SUBSET T : g[U] = h[U]}
<1>1. ASSUME NEW U \in SUBSET T, \A x \in U : U \ {x} \in G PROVE U \in G
  <2>1. g[U] = Summed(g, U) /\ h[U] = Summed(h, U)
    BY DEF Sums
  <2>2. U # {} => g[U \ {Picked(U)}] = h[U \ {Picked(U)}]
    BY <1>1, PickedIsIn
  <2> QED BY <2>1, <2>2 DEF Summed
<1>2. T \in G
  <2>1. IsFiniteSet(T)
    BY FS_Subset
  <2> HIDE DEF G
  <2> QED BY <2>1, <1>1, SetInduction
<1> QED BY <1>2

LEMMA SumStep ==
  ASSUME NEW S, IsFiniteSet(S), S # {}
  PROVE  SumRecorded(S) = Picked(S).recorded + SumRecorded(S \ {Picked(S)})
<1> DEFINE T == S \ {Picked(S)}
           g == CHOOSE f : Sums(f, S)
           h == CHOOSE f : Sums(f, T)
<1>1. IsFiniteSet(T) /\ T \in SUBSET S
  BY FS_Subset
<1>2. Sums(g, S)
  BY SumsExist
<1>3. Sums(h, T)
  BY <1>1, SumsExist
<1>4. SumRecorded(S) = g[S] /\ SumRecorded(T) = h[T]
  BY SumIsOfSums
<1> HIDE DEF g, h
<1>5. g[T] = h[T]
  <2> HIDE DEF T
  <2> QED BY <1>1, <1>2, <1>3, SumsAgree
<1>6. g[S] = Picked(S).recorded + g[T]
  BY <1>2 DEF Sums, Summed
<1> QED BY <1>4, <1>5, <1>6

LEMMA SumOfNone == SumRecorded({}) = 0
<1>1. PICK g : Sums(g, {})
  BY SumsExist, FS_EmptySet
<1>2. Sums(CHOOSE f : Sums(f, {}), {})
  BY <1>1
<1> QED BY <1>2, SumIsOfSums DEF Sums, Summed

LEMMA SumIsNatural ==
  ASSUME NEW S, IsFiniteSet(S), \A d \in S : d.recorded \in Nat
  PROVE  SumRecorded(S) \in Nat
<1> DEFINE G == {U \in SUBSET S : SumRecorded(U) \in Nat}
<1>1. ASSUME NEW U \in SUBSET S, \A x \in U : U \ {x} \in G PROVE U \in G
  <2>1. CASE U = {}
    BY <2>1, SumOfNone
  <2>2. CASE U # {}
    <3>1. Picked(U) \in U /\ IsFiniteSet(U)
      BY <2>2, PickedIsIn, FS_Subset
    <3>2. SumRecorded(U) = Picked(U).recorded + SumRecorded(U \ {Picked(U)})
      BY <2>2, <3>1, SumStep
    <3>3. SumRecorded(U \ {Picked(U)}) \in Nat
      BY <1>1, <3>1
    <3> QED BY <3>1, <3>2, <3>3
  <2> QED BY <2>1, <2>2
<1>2. S \in G
  <2> HIDE DEF G
  <2> QED BY <1>1, SetInduction
<1> QED BY <1>2

\* The sum does not depend on the member that is taken first.
LEMMA SumWithout ==
  ASSUME NEW S, IsFiniteSet(S), \A d \in S : d.recorded \in Nat, NEW y \in S
  PROVE  SumRecorded(S) = y.recorded + SumRecorded(S \ {y})
<1> DEFINE Splits(U) == \A z \in U : SumRecorded(U) = z.recorded + SumRecorded(U \ {z})
           G == {U \in SUBSET S : Splits(U)}
<1>1. ASSUME NEW U \in SUBSET S, \A x \in U : U \ {x} \in G PROVE U \in G
  <2> SUFFICES ASSUME NEW z \in U PROVE SumRecorded(U) = z.recorded + SumRecorded(U \ {z})
    OBVIOUS
  <2> DEFINE x == Picked(U)
  <2>1. x \in U /\ IsFiniteSet(U)
    BY PickedIsIn, FS_Subset
  <2>2. SumRecorded(U) = x.recorded + SumRecorded(U \ {x})
    BY <2>1, SumStep
  <2> HIDE DEF x
  <2>3. CASE z = x
    BY <2>2, <2>3
  <2>4. CASE z # x
    <3>1. SumRecorded(U \ {x}) = z.recorded + SumRecorded((U \ {x}) \ {z})
      BY <1>1, <2>1, <2>4
    <3>2. SumRecorded(U \ {z}) = x.recorded + SumRecorded((U \ {z}) \ {x})
      BY <1>1, <2>1, <2>4
    <3>3. SumRecorded((U \ {x}) \ {z}) = SumRecorded((U \ {z}) \ {x})
      <4>1. (U \ {x}) \ {z} = (U \ {z}) \ {x}
        OBVIOUS
      <4> QED BY <4>1
    <3>4. SumRecorded((U \ {z}) \ {x}) \in Nat
      <4>1. IsFiniteSet((U \ {z}) \ {x}) /\ (U \ {z}) \ {x} \subseteq S
        BY <2>1, FS_Subset
      <4> QED BY <4>1, SumIsNatural
    <3>5. x.recorded \in Nat /\ z.recorded \in Nat
      BY <2>1
    <3> QED BY <2>2, <3>1, <3>2, <3>3, <3>4, <3>5
  <2> QED BY <2>3, <2>4
<1>2. S \in G
  <2> HIDE DEF G
  <2> QED BY <1>1, SetInduction
<1> QED BY <1>2

\* What two sets share counts twice in the sum of their sums.
LEMMA SumOfUnion ==
  ASSUME NEW A, IsFiniteSet(A), NEW B, IsFiniteSet(B), \A d \in A \union B : d.recorded \in Nat
  PROVE  SumRecorded(A) + SumRecorded(B)
           = SumRecorded(A \union B) + SumRecorded(A \intersect B)
<1> DEFINE Adds(U) == SumRecorded(A) + SumRecorded(U)
                        = SumRecorded(A \union U) + SumRecorded(A \intersect U)
           G == {U \in SUBSET B : Adds(U)}
<1>1. ASSUME NEW U \in SUBSET B, \A x \in U : U \ {x} \in G PROVE U \in G
  <2>1. CASE U = {}
    <3>1. A \union U = A /\ A \intersect U = U
      BY <2>1
    <3> QED BY <3>1
  <2>2. CASE U # {}
    <3>1. PICK x \in U : TRUE
      BY <2>2
    <3> DEFINE V == U \ {x}
    <3>2. Adds(V) /\ x \notin V /\ V \in SUBSET B
      BY <1>1, <3>1
    <3>3. /\ IsFiniteSet(U) /\ IsFiniteSet(V)
          /\ IsFiniteSet(A \union U) /\ IsFiniteSet(A \intersect U)
          /\ IsFiniteSet(A \union V) /\ IsFiniteSet(A \intersect V)
      BY FS_Subset, FS_Union
    <3>4. SumRecorded(U) = x.recorded + SumRecorded(V)
      BY <3>1, <3>3, SumWithout
    <3>5. /\ SumRecorded(A) \in Nat /\ SumRecorded(V) \in Nat /\ x.recorded \in Nat
          /\ SumRecorded(A \union V) \in Nat /\ SumRecorded(A \intersect V) \in Nat
      BY <3>3, SumIsNatural
    <3>6. CASE x \in A
      <4>1. A \union U = A \union V /\ A \intersect V = (A \intersect U) \ {x} /\ x \in A \intersect U
        BY <3>1, <3>6
      <4>2. SumRecorded(A \intersect U) = x.recorded + SumRecorded(A \intersect V)
        BY <3>3, <4>1, SumWithout
      <4>3. SumRecorded(A \union U) = SumRecorded(A \union V)
        BY <4>1
      <4>4. Adds(U)
        <5> HIDE DEF V
        <5> QED BY <3>2, <3>4, <3>5, <4>2, <4>3
      <4> QED BY <4>4
    <3>7. CASE x \notin A
      <4>1. A \union V = (A \union U) \ {x} /\ A \intersect V = A \intersect U /\ x \in A \union U
        BY <3>1, <3>7
      <4>2. SumRecorded(A \union U) = x.recorded + SumRecorded(A \union V)
        BY <3>3, <4>1, SumWithout
      <4>3. SumRecorded(A \intersect U) = SumRecorded(A \intersect V)
        BY <4>1
      <4>4. Adds(U)
        <5> HIDE DEF V
        <5> QED BY <3>2, <3>4, <3>5, <4>2, <4>3
      <4> QED BY <4>4
    <3> QED BY <3>6, <3>7
  <2> QED BY <2>1, <2>2
<1>2. B \in G
  <2> HIDE DEF G
  <2> QED BY <1>1, SetInduction
<1> QED BY <1>2

-----------------------------------------------------------------------------
(* The order of the ledger                                                 *)

\* Readings that may be told apart.
Ledger(S) ==
  /\ IsFiniteSet(S)
  /\ \A a \in S : a.at \in Int /\ a.id \in Int /\ a.vol \in Int
  /\ \A a, b \in S : a.at = b.at /\ a.id = b.id => a = b

LEMMA LatestIsLast ==
  ASSUME NEW S, Ledger(S), S # {}
  PROVE  LatestOf(S) \in S /\ \A b \in S : b = LatestOf(S) \/ Before(b, LatestOf(S))
<1> DEFINE R == {p \in S \X S : Before(p[1], p[2])}
<1>1. \A a, b \in S : <<a, b>> \in R <=> Before(a, b)
  OBVIOUS
<1>2. \A a, b \in S : a = b \/ <<a, b>> \in R \/ <<b, a>> \in R
  <2>1. \A a, b \in S : a = b \/ Before(a, b) \/ Before(b, a)
    BY DEF Ledger, Before
  <2> HIDE DEF R
  <2> QED BY <1>1, <2>1
<1>3. \A a, b, c \in S : <<a, b>> \in R /\ <<b, c>> \in R => <<a, c>> \in R
  BY <1>1 DEF Ledger, Before
<1>4. \E a \in S : \A b \in S : b = a \/ <<b, a>> \in R
  <2> HIDE DEF R
  <2> QED BY <1>2, <1>3, GreatestExists DEF Ledger
<1>5. \E a \in S : \A b \in S : b = a \/ Before(b, a)
  BY <1>1, <1>4
<1> QED BY <1>5 DEF LatestOf

LEMMA LastIsLatest ==
  ASSUME NEW S, Ledger(S), NEW a \in S, \A b \in S : b = a \/ Before(b, a)
  PROVE  LatestOf(S) = a
BY LatestIsLast DEF Ledger, Before

\* What follows one of the last n readings is one of them.
LEMMA LastAreUpper ==
  ASSUME NEW S, Ledger(S), NEW n \in Nat, NEW a \in LastOf(S, n), NEW b \in S, Before(a, b)
  PROVE  b \in LastOf(S, n)
<1> DEFINE Later(x) == {c \in S : Before(x, c)}
<1>1. a \in S /\ Cardinality(Later(a)) < n
  BY DEF LastOf
<1>2. Later(b) \subseteq Later(a)
  BY <1>1 DEF Ledger, Before
<1>3. IsFiniteSet(Later(a))
  BY FS_Subset DEF Ledger
<1>4. Cardinality(Later(b)) <= Cardinality(Later(a)) /\ IsFiniteSet(Later(b))
  <2> HIDE DEF Later
  <2> QED BY <1>2, <1>3, FS_Subset
<1>5. Cardinality(Later(a)) \in Nat /\ Cardinality(Later(b)) \in Nat
  BY <1>3, <1>4, FS_CardinalityType
<1>6. Cardinality(Later(b)) < n
  <2> HIDE DEF Later
  <2> QED BY <1>1, <1>4, <1>5
<1> QED BY <1>6 DEF LastOf

\* The last of all is the last of the last n.
LEMMA LastIsAmong ==
  ASSUME NEW S, Ledger(S), S # {}, NEW n \in Nat \ {0}
  PROVE  LatestOf(S) \in LastOf(S, n) /\ LatestOf(LastOf(S, n)) = LatestOf(S)
<1> DEFINE a == LatestOf(S)
<1>1. a \in S /\ \A b \in S : b = a \/ Before(b, a)
  BY LatestIsLast
<1> HIDE DEF a
<1>2. {c \in S : Before(a, c)} = {}
  BY <1>1 DEF Ledger, Before
<1>3. Cardinality({c \in S : Before(a, c)}) < n
  BY <1>2, FS_EmptySet
<1>4. a \in LastOf(S, n)
  BY <1>1, <1>3 DEF LastOf
<1>5. LastOf(S, n) \subseteq S
  BY DEF LastOf
<1>6. Ledger(LastOf(S, n))
  BY <1>5, FS_Subset DEF Ledger
<1>7. LatestOf(LastOf(S, n)) = a
  <2> DEFINE L == LastOf(S, n)
  <2> HIDE DEF L
  <2> SUFFICES LatestOf(L) = a
    BY DEF L
  <2> QED BY <1>1, <1>4, <1>5, <1>6, LastIsLatest DEF L
<1> QED BY <1>4, <1>7 DEF a

LEMMA LowestIsLow ==
  ASSUME NEW S, Ledger(S), S # {}
  PROVE  Lowest(S) \in S /\ \A b \in S : Lowest(S).vol <= b.vol
<1> DEFINE Better(a, b) == a.vol < b.vol \/ (a.vol = b.vol /\ Before(a, b))
           R == {p \in S \X S : Better(p[2], p[1])}
<1>1. \A a, b \in S : <<a, b>> \in R <=> Better(b, a)
  OBVIOUS
<1>2. \A a, b \in S : a = b \/ <<a, b>> \in R \/ <<b, a>> \in R
  <2>1. \A a, b \in S : a = b \/ Better(a, b) \/ Better(b, a)
    BY DEF Ledger, Before
  <2> HIDE DEF R, Better
  <2> QED BY <1>1, <2>1
<1>3. \A a, b, c \in S : <<a, b>> \in R /\ <<b, c>> \in R => <<a, c>> \in R
  BY <1>1 DEF Ledger, Before
<1>4. \E a \in S : \A b \in S : b = a \/ <<b, a>> \in R
  <2> HIDE DEF R
  <2> QED BY <1>2, <1>3, GreatestExists DEF Ledger
<1>5. \E a \in S : \A b \in S : b = a \/ Better(a, b)
  BY <1>1, <1>4
<1>6. Lowest(S) \in S /\ \A b \in S : b = Lowest(S) \/ Better(Lowest(S), b)
  BY <1>5 DEF Lowest
<1> QED BY <1>6 DEF Ledger

LEMMA HighestIsHigh ==
  ASSUME NEW S, Ledger(S), S # {}
  PROVE  /\ Highest(S) \in S
         /\ \A b \in S : \/ b = Highest(S) \/ b.vol < Highest(S).vol
                         \/ b.vol = Highest(S).vol /\ Before(Highest(S), b)
<1> DEFINE Better(a, b) == a.vol > b.vol \/ (a.vol = b.vol /\ Before(a, b))
           R == {p \in S \X S : Better(p[2], p[1])}
<1>1. \A a, b \in S : <<a, b>> \in R <=> Better(b, a)
  OBVIOUS
<1>2. \A a, b \in S : a = b \/ <<a, b>> \in R \/ <<b, a>> \in R
  <2>1. \A a, b \in S : a = b \/ Better(a, b) \/ Better(b, a)
    BY DEF Ledger, Before
  <2> HIDE DEF R, Better
  <2> QED BY <1>1, <2>1
<1>3. \A a, b, c \in S : <<a, b>> \in R /\ <<b, c>> \in R => <<a, c>> \in R
  BY <1>1 DEF Ledger, Before
<1>4. \E a \in S : \A b \in S : b = a \/ <<b, a>> \in R
  <2> HIDE DEF R
  <2> QED BY <1>2, <1>3, GreatestExists DEF Ledger
<1>5. \E a \in S : \A b \in S : b = a \/ Better(a, b)
  BY <1>1, <1>4
<1>6. Highest(S) \in S /\ \A b \in S : b = Highest(S) \/ Better(Highest(S), b)
  BY <1>5 DEF Highest
<1> QED BY <1>6 DEF Ledger

\* A score short of twice the threshold is a share of a thousand.
LEMMA ScoreIsShare ==
  ASSUME NEW observed \in Int, NEW threshold \in Nat, threshold > 0, NEW doubted
  PROVE  Score(observed, threshold, doubted) \in Nat /\ Score(observed, threshold, doubted) <= 1000
<1>1. PICK full \in {400, 500} : full = IF doubted # {} THEN 400 ELSE 500
  OBVIOUS
<1>2. PICK x \in Int : x = full * observed /\ 2 * full \in 0..1000
  OBVIOUS
<1>3. ASSUME observed >= threshold, observed < 2 * threshold
      PROVE  RoundedDiv(x, threshold) \in 0..1000
  <2> DEFINE n == 2 * x + threshold
             m == 2 * threshold
  <2>1. n \in Nat /\ m \in Nat \ {0}
    BY <1>2, <1>3
  <2>2. n < (1000 + 1) * m
    BY <1>2, <1>3
  <2> HIDE DEF n, m
  <2>3. n \div m \in 0..1000
    BY <2>1, <2>2
  <2> QED BY <2>3 DEF RoundedDiv, n, m
<1> QED BY <1>1, <1>2, <1>3 DEF Score

-----------------------------------------------------------------------------
(* The events                                                              *)

KnownReadings ==
  /\ IsFiniteSet(readings)
  /\ \A a \in readings : a.at <= now
  /\ \A a, b \in readings : a.at = b.at /\ a.id = b.id => a = b

\* What every event rests on: its last reading is usable, a delivery rose.
KnownEvents ==
  /\ IsFiniteSet(events)
  /\ \A e \in events : e.last.quality # "invalid"
  /\ \A e \in events : e.type = "candidate_delivery" => e.change > 0

DetInv == DetTypeOK /\ KnownReadings /\ KnownEvents /\ OneEventPerObservation /\ DecreasesDisjoint

LEMMA ReadingIs ==
  ASSUME DetTypeOK, NEW a \in readings
  PROVE  a.at \in Nat /\ a.id \in Nat /\ a.vol \in Nat /\ a.quality \in Qualities
<1>1. a \in TankReading
  BY DEF DetTypeOK
<1>2. a.at \in 0..Horizon /\ a.id \in 1..Ties /\ a.vol \in Volumes /\ a.quality \in Qualities
  BY <1>1 DEF TankReading
<1>3. Volumes \subseteq Nat /\ Horizon \in Nat /\ Ties \in Nat
  BY DetectionAssumption
<1>4. a.at \in Nat /\ a.id \in Nat
  BY <1>2, <1>3
<1>5. a.vol \in Nat
  BY <1>2, <1>3
<1> QED BY <1>2, <1>4, <1>5

LEMMA ReadingsAreLedger ==
  ASSUME DetTypeOK, KnownReadings, NEW S \in SUBSET readings
  PROVE  Ledger(S)
<1>1. IsFiniteSet(S)
  BY FS_Subset DEF KnownReadings
<1>2. \A a \in S : a.at \in Int /\ a.id \in Int /\ a.vol \in Int
  BY ReadingIs
<1> QED BY <1>1, <1>2 DEF Ledger, KnownReadings

\* The rules see readings that arrived, and the last of all among them.
LEMMA RecentAreReadings ==
  ASSUME DetTypeOK, KnownReadings
  PROVE  /\ Recent \in SUBSET readings /\ Usable \in SUBSET readings
         /\ Usable \subseteq Recent
         /\ \A a \in Recent, b \in readings : Before(a, b) => b \in Recent
         /\ readings # {} => LatestOf(readings) \in Recent
<1>1. Recent \in SUBSET readings
  BY DEF Recent, LastOf
<1>2. Usable \subseteq Recent
  BY DEF Usable
<1>3. Ledger(readings) /\ RecentReadings \in Nat \ {0}
  BY ReadingsAreLedger, DetectionAssumption
<1>4. \A a \in Recent, b \in readings : Before(a, b) => b \in Recent
  BY <1>3, LastAreUpper DEF Recent
<1>5. readings # {} => LatestOf(readings) \in Recent
  BY <1>3, LastIsAmong DEF Recent
<1> QED BY <1>1, <1>2, <1>4, <1>5

\* Two readings at least: a last one, and another one before it.
LEMMA SeveralHaveLast ==
  ASSUME DetTypeOK, KnownReadings, NEW S \in SUBSET readings, Cardinality(S) >= 2
  PROVE  /\ LatestOf(S) \in S /\ \A b \in S : b = LatestOf(S) \/ Before(b, LatestOf(S))
         /\ LatestOf(S \ {LatestOf(S)}) \in S \ {LatestOf(S)}
         /\ \A b \in S \ {LatestOf(S)} :
              \/ b = LatestOf(S \ {LatestOf(S)})
              \/ Before(b, LatestOf(S \ {LatestOf(S)}))
<1>1. Ledger(S) /\ IsFiniteSet(S)
  BY ReadingsAreLedger DEF Ledger
<1>2. S # {}
  BY FS_EmptySet
<1>3. LatestOf(S) \in S /\ \A b \in S : b = LatestOf(S) \/ Before(b, LatestOf(S))
  BY <1>1, <1>2, LatestIsLast
<1> DEFINE T == S \ {LatestOf(S)}
<1>4. T # {}
  <2>1. Cardinality(T) = Cardinality(S) - 1 /\ Cardinality(S) \in Nat
    BY <1>1, <1>3, FS_RemoveElement, FS_CardinalityType
  <2> QED BY <2>1, FS_EmptySet
<1>5. Ledger(T)
  BY ReadingsAreLedger
<1>6. LatestOf(T) \in T /\ \A b \in T : b = LatestOf(T) \/ Before(b, LatestOf(T))
  <2> HIDE DEF T
  <2> QED BY <1>4, <1>5, LatestIsLast
<1> QED BY <1>3, <1>6

\* A candidate event, as the rules draft it from the usable readings.
Drafted(d) ==
  LET latest == LatestOf(Usable) IN
  /\ d.type \in EventTypes /\ d.last = latest
  /\ {d.first, d.last} \subseteq d.seen /\ d.seen \subseteq Usable
  /\ d.change \in Int /\ d.confidence \in 0..1000
  /\ d.type = "candidate_delivery" => d.change > 0
  /\ d.type = "candidate_unexplained_decrease" => d.first = LatestOf(Usable \ {latest})
  /\ ~IsDuplicate(d.type, latest, Existing)

LEMMA DeliveriesAreDrafted ==
  ASSUME DetTypeOK, KnownReadings, Cardinality(Usable) >= 2,
         NEW d \in DeliveryDrafts(Usable, Existing)
  PROVE  Drafted(d) /\ d.type = "candidate_delivery"
<1> DEFINE latest == LatestOf(Usable)
           w == {a \in Usable : a.at >= latest.at - DeliveryWindow}
           rise == latest.vol - Lowest(w).vol
           score == Score(rise, AtLeastOne(DeliveryLitres), Suspects(w))
<1>1. /\ Cardinality(w) >= 2 /\ Highest(w) = latest
      /\ ~IsDuplicate("candidate_delivery", latest, Existing)
      /\ d = Draft("candidate_delivery", Lowest(w), latest, w, score)
  BY DEF DeliveryDrafts
<1>2. Usable \in SUBSET readings /\ w \in SUBSET readings
  BY RecentAreReadings
<1>3. latest \in Usable /\ \A b \in Usable : b = latest \/ Before(b, latest)
  BY <1>2, SeveralHaveLast
<1>4. Ledger(w) /\ IsFiniteSet(w)
  BY <1>2, ReadingsAreLedger DEF Ledger
<1>5. PICK b \in w : b # latest
  <2> HIDE DEF w, latest
  <2>1. w # {latest}
    BY <1>1, FS_Singleton
  <2>2. w # {}
    BY <1>1, FS_EmptySet
  <2> QED BY <2>1, <2>2
<1>6. Lowest(w) \in w /\ \A a \in w : Lowest(w).vol <= a.vol
  <2> HIDE DEF w
  <2> QED BY <1>4, <1>5, LowestIsLow
<1>7. /\ latest \in w
      /\ \A a \in w : a = latest \/ a.vol < latest.vol \/ (a.vol = latest.vol /\ Before(latest, a))
  <2> HIDE DEF w, latest
  <2>1. w # {}
    BY <1>5
  <2> QED BY <1>1, <1>4, <2>1, HighestIsHigh
<1>8. b.vol < latest.vol
  <2>1. Before(b, latest) /\ b \in Usable
    BY <1>3, <1>5
  <2>2. ~Before(latest, b)
    BY <2>1, <1>2, <1>3, ReadingIs DEF Before
  <2> HIDE DEF latest, w
  <2> QED BY <1>5, <1>7, <2>2
<1>9. rise \in Int /\ rise > 0
  <2>1. Lowest(w).vol \in Nat /\ latest.vol \in Nat /\ b.vol \in Nat /\ Lowest(w).vol <= b.vol
    BY <1>2, <1>5, <1>6, <1>7, ReadingIs
  <2> HIDE DEF latest, w
  <2> QED BY <2>1, <1>8
<1>10. score \in 0..1000
  <2>1. AtLeastOne(DeliveryLitres) \in Nat /\ AtLeastOne(DeliveryLitres) > 0
    BY DetectionAssumption DEF AtLeastOne
  <2>2. score \in Nat /\ score <= 1000
    <3> HIDE DEF rise, w
    <3> QED BY <2>1, <1>9, ScoreIsShare
  <2> HIDE DEF score
  <2> QED BY <2>2
<1>11. w \subseteq Usable
  OBVIOUS
<1> HIDE DEF latest, w, rise, score
<1>12. /\ d.type = "candidate_delivery" /\ d.first = Lowest(w) /\ d.last = latest /\ d.seen = w
       /\ d.change = rise /\ d.confidence = score
  BY <1>1 DEF Draft, rise
<1> QED BY <1>1, <1>6, <1>7, <1>9, <1>10, <1>11, <1>12 DEF Drafted, EventTypes, latest

LEMMA DecreasesAreDrafted ==
  ASSUME DetTypeOK, KnownReadings, Cardinality(Usable) >= 2,
         NEW d \in DecreaseDrafts(Usable, Existing)
  PROVE  Drafted(d) /\ d.type = "candidate_unexplained_decrease"
<1> DEFINE latest == LatestOf(Usable)
           previous == LatestOf(Usable \ {latest})
           minutes == latest.at - previous.at
           lost == previous.vol - latest.vol
           score == Score(lost * 60, AtLeastOne(DropPerHour * minutes), Suspects({previous, latest}))
<1>1. /\ ~IsDuplicate("candidate_unexplained_decrease", latest, Existing)
      /\ d = Draft("candidate_unexplained_decrease", previous, latest, {previous, latest}, score)
  BY DEF DecreaseDrafts
<1>2. Usable \in SUBSET readings
  BY RecentAreReadings
<1>3. latest \in Usable /\ previous \in Usable
  BY <1>2, SeveralHaveLast
<1>4. lost \in Int /\ minutes \in Int /\ latest.vol - previous.vol \in Int
  <2> HIDE DEF latest, previous
  <2> QED BY <1>2, <1>3, ReadingIs
<1>5. score \in 0..1000
  <2>1. AtLeastOne(DropPerHour * minutes) \in Nat /\ AtLeastOne(DropPerHour * minutes) > 0
    <3> HIDE DEF minutes
    <3>1. DropPerHour * minutes \in Int
      BY <1>4, DetectionAssumption
    <3> QED BY <3>1 DEF AtLeastOne
  <2>2. lost * 60 \in Int
    BY <1>4
  <2>3. score \in Nat /\ score <= 1000
    <3> HIDE DEF lost, minutes, latest, previous
    <3> QED BY <2>1, <2>2, ScoreIsShare
  <2> HIDE DEF score
  <2> QED BY <2>3
<1>6. /\ d.type = "candidate_unexplained_decrease" /\ d.first = previous /\ d.last = latest
      /\ d.seen = {previous, latest} /\ d.change = latest.vol - previous.vol /\ d.confidence = score
  <2> HIDE DEF latest, previous, score
  <2> QED BY <1>1 DEF Draft
<1> HIDE DEF score, lost, minutes
<1> QED BY <1>1, <1>3, <1>4, <1>5, <1>6 DEF Drafted, EventTypes

LEMMA TankEventsAreDrafted ==
  ASSUME DetTypeOK, KnownReadings
  PROVE  /\ \A d \in TankEvents(Existing) : Drafted(d)
         /\ \A c, d \in TankEvents(Existing) : c.type = d.type => c = d
         /\ IsFiniteSet(TankEvents(Existing))
<1> DEFINE X == DeliveryDrafts(Usable, Existing)
           Y == DecreaseDrafts(Usable, Existing)
<1>1. CASE Cardinality(Usable) < 2
  BY <1>1, FS_EmptySet DEF TankEvents
<1>2. CASE ~(Cardinality(Usable) < 2)
  <2>1. TankEvents(Existing) = X \union Y /\ Cardinality(Usable) >= 2
    <3>1. IsFiniteSet(Usable)
      BY RecentAreReadings, FS_Subset DEF KnownReadings
    <3>2. Cardinality(Usable) \in Nat
      BY <3>1, FS_CardinalityType
    <3> QED BY <1>2, <3>2 DEF TankEvents
  <2>2. \A d \in X : Drafted(d) /\ d.type = "candidate_delivery"
    BY <2>1, DeliveriesAreDrafted
  <2>3. \A d \in Y : Drafted(d) /\ d.type = "candidate_unexplained_decrease"
    BY <2>1, DecreasesAreDrafted
  <2>4. X = {} \/ \E d : X = {d}
    BY DEF DeliveryDrafts
  <2>5. Y = {} \/ \E d : Y = {d}
    BY DEF DecreaseDrafts
  <2>6. IsFiniteSet(X) /\ IsFiniteSet(Y)
    <3> HIDE DEF X, Y
    <3>1. IsFiniteSet(X)
      BY <2>4, FS_EmptySet, FS_Singleton, Zenon
    <3>2. IsFiniteSet(Y)
      BY <2>5, FS_EmptySet, FS_Singleton, Zenon
    <3> QED BY <3>1, <3>2
  <2>7. IsFiniteSet(X \union Y)
    BY <2>6, FS_Union
  <2> HIDE DEF X, Y
  <2> QED BY <2>1, <2>2, <2>3, <2>4, <2>5, <2>7
<1> QED BY <1>1, <1>2

\* The row of a draft.
RowOf(d, k) ==
  [id |-> k, type |-> d.type, status |-> "candidate", first |-> d.first, last |-> d.last,
   seen |-> d.seen, change |-> d.change, confidence |-> d.confidence, created |-> now]

\* An event of either type at most is recorded, under the next free ids.
LEMMA RecordedEvents ==
  ASSUME DetInv, DetectAndRecord
  PROVE  /\ events \subseteq events' /\ IsFiniteSet(events')
         /\ \A e \in events' \ events :
              \E d \in TankEvents(Existing), k \in 1..MaxEvents : e = RowOf(d, k)
         /\ \A e, f \in events' \ events : e.type = f.type => e = f
<1> DEFINE drafts == TankEvents(Existing)
           delivery == {d \in drafts : d.type = "candidate_delivery"}
           n == Cardinality(events)
           i == n + 1
           j == n + 1 + Cardinality(delivery)
           New1 == {RowOf(d, i) : d \in delivery}
           New2 == {RowOf(d, j) : d \in drafts \ delivery}
<1>1. /\ n + Cardinality(drafts) <= MaxEvents
      /\ events' = events \union New1 \union New2
  BY DEF DetectAndRecord, RowOf
<1>2. /\ \A d \in drafts : Drafted(d)
      /\ \A c, d \in drafts : c.type = d.type => c = d
      /\ IsFiniteSet(drafts)
  BY TankEventsAreDrafted DEF DetInv
<1>3. /\ n \in Nat /\ MaxEvents \in Nat
      /\ IsFiniteSet(delivery) /\ Cardinality(delivery) \in Nat /\ Cardinality(drafts) \in Nat
  BY <1>2, FS_Subset, FS_CardinalityType, DetectionAssumption DEF DetInv, KnownEvents
<1>4. IsFiniteSet(New1)
  <2> HIDE DEF drafts, i
  <2>1. New1 = {} \/ \E x : New1 = {x}
    BY <1>2
  <2> HIDE DEF New1
  <2> QED BY <2>1, FS_EmptySet, FS_Singleton, Zenon
<1>5. IsFiniteSet(New2)
  <2> HIDE DEF drafts, j
  <2>1. \A c, d \in drafts \ delivery : c.type = d.type
    BY <1>2 DEF Drafted, EventTypes
  <2>2. New2 = {} \/ \E x : New2 = {x}
    BY <1>2, <2>1
  <2> HIDE DEF New2
  <2> QED BY <2>2, FS_EmptySet, FS_Singleton, Zenon
<1>6. IsFiniteSet(events')
  <2> HIDE DEF New1, New2
  <2>1. IsFiniteSet(events \union New1)
    BY <1>4, FS_Union DEF DetInv, KnownEvents
  <2> QED BY <1>1, <1>5, <2>1, FS_Union
<1>7. ASSUME NEW d \in delivery PROVE i \in 1..MaxEvents
  <2>1. drafts # {}
    OBVIOUS
  <2> HIDE DEF drafts, n
  <2>2. Cardinality(drafts) # 0
    BY <1>2, <2>1, FS_EmptySet
  <2> QED BY <1>1, <1>3, <2>2
<1>8. ASSUME NEW d \in drafts \ delivery PROVE j \in 1..MaxEvents
  <2>1. delivery \subseteq drafts /\ delivery # drafts
    BY <1>8
  <2> HIDE DEF drafts, n, delivery
  <2>2. Cardinality(delivery) < Cardinality(drafts)
    BY <1>2, <1>3, <2>1, FS_Subset
  <2> QED BY <1>1, <1>3, <2>2
<1>9. events \subseteq events' /\ \A e \in events' \ events : e \in New1 \/ e \in New2
  <2> HIDE DEF New1, New2
  <2> QED BY <1>1
<1>10. \A e \in New1 : \E d \in delivery : e = RowOf(d, i)
  BY Zenon
<1>11. \A e \in New2 : \E d \in drafts \ delivery : e = RowOf(d, j)
  BY Zenon
<1> HIDE DEF New1, New2, i, j
<1>12. ASSUME NEW e \in events' \ events
       PROVE  \E d \in drafts, k \in 1..MaxEvents : e = RowOf(d, k)
  <2>1. CASE e \in New1
    BY <2>1, <1>7, <1>10
  <2>2. CASE e \in New2
    BY <2>2, <1>8, <1>11
  <2> QED BY <1>9, <2>1, <2>2
<1>13. ASSUME NEW e \in events' \ events, NEW f \in events' \ events, e.type = f.type
       PROVE  e = f
  <2>1. \A d \in drafts : \A k : RowOf(d, k).type = d.type
    BY DEF RowOf
  <2>2. CASE e \in New1 /\ f \in New1
    BY <2>1, <2>2, <1>2, <1>10, <1>13
  <2>3. CASE e \in New2 /\ f \in New2
    BY <2>1, <2>3, <1>2, <1>11, <1>13
  <2>4. ASSUME NEW g \in New1, NEW h \in New2 PROVE g.type # h.type
    BY <2>1, <1>10, <1>11
  <2> QED BY <1>9, <1>13, <2>2, <2>3, <2>4
<1> HIDE DEF drafts, delivery, n
<1> QED BY <1>6, <1>9, <1>12, <1>13 DEF drafts

LEMMA DetectKeeps ==
  ASSUME DetInv, DetectAndRecord
  PROVE  DetInv'
<1> USE DEF DetInv
<1>1. now' = now /\ readings' = readings
  BY DEF DetectAndRecord
<1>2. events \subseteq events' /\ IsFiniteSet(events')
  BY RecordedEvents
<1> DEFINE latest == LatestOf(Usable)
\* What is new was drafted now, one event of a type at most.
<1>4. ASSUME NEW e \in events' \ events
      PROVE  /\ e \in FuelEvent /\ {e.first, e.last} \subseteq e.seen /\ e.seen \subseteq Usable
             /\ e.created = now /\ e.last = latest /\ ~IsDuplicate(e.type, latest, Existing)
             /\ e.type = "candidate_delivery" => e.change > 0
             /\ e.type = "candidate_unexplained_decrease" => e.first = LatestOf(Usable \ {latest})
  <2>1. PICK d \in TankEvents(Existing), k \in 1..MaxEvents : e = RowOf(d, k)
    BY RecordedEvents
  <2>2. Drafted(d)
    BY TankEventsAreDrafted
  <2>3. /\ e.type = d.type /\ e.first = d.first /\ e.last = d.last /\ e.seen = d.seen
        /\ e.change = d.change /\ e.confidence = d.confidence /\ e.created = now
        /\ e.status = "candidate"
    BY <2>1 DEF RowOf
  <2>4. d.seen \subseteq TankReading /\ d.first \in TankReading /\ d.last \in TankReading
    BY <2>2, RecentAreReadings DEF Drafted, DetTypeOK
  <2>5. e \in FuelEvent
    <3>1. now \in 0..Horizon
      BY DEF DetTypeOK
    <3>2. d.type \in EventTypes /\ d.change \in Int /\ d.confidence \in 0..1000
      BY <2>2 DEF Drafted
    <3> QED BY <3>1, <3>2, <2>1, <2>4 DEF RowOf, FuelEvent, Statuses
  <2> HIDE DEF latest
  <2> QED BY <2>2, <2>3, <2>5 DEF Drafted, latest
<1>5. \A e, f \in events' \ events : e.type = f.type => e = f
  BY RecordedEvents
<1>6. ASSUME NEW a \in Usable PROVE a = latest \/ Before(a, latest)
  <2>1. Usable \in SUBSET readings /\ Ledger(Usable)
    BY RecentAreReadings, ReadingsAreLedger
  <2> QED BY <2>1, LatestIsLast
<1> HIDE DEF latest
<1>7. DetTypeOK' /\ KnownReadings' /\ KnownEvents'
  <2>1. \A e \in events' \ events : e.seen \subseteq readings /\ e.last.quality # "invalid"
    BY <1>4, RecentAreReadings DEF Usable
  <2>2. now \in Int
    BY DEF DetTypeOK
  <2> QED BY <1>1, <1>2, <1>4, <2>1, <2>2 DEF DetTypeOK, KnownReadings, KnownEvents
\* An event of the last reading that stands was out of the lookback.
<1>8. ASSUME NEW e \in events, NEW f \in events' \ events, e.type = f.type,
             e.status # "rejected", e.last = f.last
      PROVE  f.created - f.last.at > Lookback
  <2>1. f.last = latest /\ f.created = now /\ ~IsDuplicate(f.type, latest, Existing)
    BY <1>4
  <2>2. e.last \in e.seen /\ e.last \in readings
    BY DEF DetTypeOK
  <2>3. ~(e.last.at >= now - Lookback)
    BY <1>8, <2>1, <2>2 DEF IsDuplicate, Existing
  <2> QED BY <1>8, <2>1, <2>2, <2>3, ReadingIs, DetectionAssumption DEF DetTypeOK
<1>9. OneEventPerObservation'
  <2> SUFFICES ASSUME NEW type \in EventTypes, NEW e \in events', NEW f \in events',
                      e.type = type, e.status # "rejected", f.type = type, f.status # "rejected",
                      e # f, e.last = f.last
               PROVE  \E g \in {e, f} : g.created - g.last.at > Lookback
    BY DEF OneEventPerObservation, Standing
  <2>1. CASE e \in events /\ f \in events
    BY <2>1 DEF OneEventPerObservation, Standing
  <2>2. CASE e \in events /\ f \notin events
    BY <2>2, <1>8
  <2>3. CASE e \notin events /\ f \in events
    BY <2>3, <1>8
  <2>4. CASE e \notin events /\ f \notin events
    BY <2>4, <1>5
  <2> QED BY <2>1, <2>2, <2>3, <2>4
\* Nothing usable lies between the two last readings, and what the rules do not
\* see is before both.
<1>10. ASSUME NEW e \in events, NEW f \in events' \ events,
              f.type = "candidate_unexplained_decrease"
       PROVE  e.last = f.last \/ ~Before(f.first, e.last)
  <2> DEFINE previous == LatestOf(Usable \ {latest})
  <2>1. f.last = latest /\ f.first = previous
    BY <1>4, <1>10
  <2>2. e.last \in readings /\ e.last.quality # "invalid"
    BY DEF DetTypeOK, KnownEvents
  <2> SUFFICES ASSUME e.last # latest, Before(previous, e.last) PROVE FALSE
    BY <2>1
  <2> DEFINE S == Usable \ {latest}
  <2>3. Ledger(S) /\ S # {} /\ S \in SUBSET readings
    <3>1. f.first \in Usable /\ f.last \in Usable
      BY <1>4
    <3>2. Cardinality(Usable) >= 2
      <4>1. PICK d \in TankEvents(Existing) : TRUE
        BY RecordedEvents
      <4>2. ~(Cardinality(Usable) < 2)
        BY <4>1 DEF TankEvents
      <4>3. Cardinality(Usable) \in Nat
        BY RecentAreReadings, FS_Subset, FS_CardinalityType DEF KnownReadings
      <4> QED BY <4>2, <4>3
    <3>3. S # {}
      <4>1. LatestOf(Usable \ {LatestOf(Usable)}) \in Usable \ {LatestOf(Usable)}
        BY <3>2, RecentAreReadings, SeveralHaveLast
      <4> QED BY <4>1 DEF latest
    <3> QED BY <3>3, RecentAreReadings, ReadingsAreLedger
  <2>4. previous \in S /\ \A b \in S : b = previous \/ Before(b, previous)
    <3> HIDE DEF S
    <3>1. LatestOf(S) \in S /\ \A b \in S : b = LatestOf(S) \/ Before(b, LatestOf(S))
      BY <2>3, LatestIsLast
    <3> QED BY <3>1 DEF S
  <2>5. previous \in readings /\ previous \in Recent
    BY <2>3, <2>4, RecentAreReadings
  <2> HIDE DEF previous
  <2>6. e.last \in S
    BY <2>2, <2>5, RecentAreReadings DEF Usable
  <2>7. e.last = previous \/ Before(e.last, previous)
    BY <2>4, <2>6
  <2> HIDE DEF S
  <2> QED BY <2>2, <2>5, <2>7, ReadingIs DEF Before
<1>11. DecreasesDisjoint'
  <2> DEFINE fall == "candidate_unexplained_decrease"
  <2> SUFFICES ASSUME NEW e \in events', NEW f \in events',
                      e.type = fall, e.status # "rejected", f.type = fall, f.status # "rejected"
               PROVE  e.last = f.last \/ ~Before(e.first, f.last) \/ ~Before(f.first, e.last)
    BY DEF DecreasesDisjoint, Standing, Before
  <2>1. CASE e \in events /\ f \in events
    BY <2>1 DEF DecreasesDisjoint, Standing
  <2>2. CASE e \in events /\ f \notin events
    BY <2>2, <1>10
  <2>3. CASE e \notin events /\ f \in events
    BY <2>3, <1>10
  <2>4. CASE e \notin events /\ f \notin events
    BY <2>4, <1>5
  <2> QED BY <2>1, <2>2, <2>3, <2>4
<1> QED BY <1>7, <1>9, <1>11

\* A decision changes the status of one event, and nothing else of any.
LEMMA DecidedEvents ==
  ASSUME DetInv, NEW e \in events, NEW status \in Statuses, Decide(e, status)
  PROVE  /\ now' = now /\ readings' = readings
         /\ status # "candidate" /\ e.status = "candidate"
         /\ status = "confirmed" => e.type = "candidate_delivery"
         /\ IsFiniteSet(events')
         /\ \A g \in events' : \E o \in events :
              /\ o.id = g.id /\ o.type = g.type /\ o.first = g.first /\ o.last = g.last
              /\ o.seen = g.seen /\ o.change = g.change /\ o.created = g.created
              /\ g \in FuelEvent /\ o.status \in {"candidate", g.status}
              /\ g = o \/ (o = e /\ g = [e EXCEPT !.status = status])
         /\ [e EXCEPT !.status = status] \in events'
         /\ \A o \in events : o \in events' \/ o = e
<1> USE DEF DetInv
<1> DEFINE d == [e EXCEPT !.status = status]
<1>1. /\ now' = now /\ readings' = readings /\ events' = (events \ {e}) \union {d}
      /\ e.status = "candidate" /\ status # "candidate"
      /\ status = "confirmed" => e.type = "candidate_delivery"
  BY DEF Decide
<1>2. IsFiniteSet(events')
  <2>1. IsFiniteSet(events \ {e})
    BY FS_Subset DEF KnownEvents
  <2> HIDE DEF d
  <2> QED BY <1>1, <2>1, FS_AddElement
<1>3. events \subseteq FuelEvent
  BY DEF DetTypeOK
<1>4. /\ d \in FuelEvent /\ d.status = status /\ d.id = e.id /\ d.type = e.type
      /\ d.first = e.first /\ d.last = e.last /\ d.seen = e.seen /\ d.change = e.change
      /\ d.created = e.created
  BY <1>3 DEF FuelEvent
<1>5. ASSUME NEW g \in events'
      PROVE  \E o \in events :
              /\ o.id = g.id /\ o.type = g.type /\ o.first = g.first /\ o.last = g.last
              /\ o.seen = g.seen /\ o.change = g.change /\ o.created = g.created
              /\ g \in FuelEvent /\ o.status \in {"candidate", g.status}
              /\ g = o \/ (o = e /\ g = d)
  <2> HIDE DEF d
  <2>1. CASE g = d
    <3> WITNESS e \in events
    <3> QED BY <1>1, <1>4, <2>1
  <2>2. CASE g \in events
    <3> WITNESS g \in events
    <3> QED BY <1>3, <2>2
  <2> QED BY <1>1, <2>1, <2>2
<1>6. d \in events' /\ \A o \in events : o \in events' \/ o = e
  <2> HIDE DEF d
  <2> QED BY <1>1
<1> QED BY <1>1, <1>2, <1>5, <1>6

LEMMA DecideKeeps ==
  ASSUME DetInv, NEW e \in events, NEW status \in Statuses, Decide(e, status)
  PROVE  DetInv'
<1> USE DEF DetInv
<1> DEFINE Was(g, o) ==
      /\ o.id = g.id /\ o.type = g.type /\ o.first = g.first /\ o.last = g.last
      /\ o.seen = g.seen /\ o.change = g.change /\ o.created = g.created
      /\ g \in FuelEvent /\ o.status \in {"candidate", g.status}
      /\ g = o \/ (o = e /\ g = [e EXCEPT !.status = status])
<1>1. now' = now /\ readings' = readings /\ IsFiniteSet(events')
  BY DecidedEvents
<1>2. \A g \in events' : \E o \in events : Was(g, o)
  BY DecidedEvents
<1>3. DetTypeOK' /\ KnownReadings' /\ KnownEvents'
  <2> HIDE DEF Was
  <2>1. ASSUME NEW g \in events'
        PROVE  /\ g \in FuelEvent /\ {g.first, g.last} \subseteq g.seen /\ g.seen \subseteq readings
               /\ g.created <= now /\ g.last.quality # "invalid"
               /\ g.type = "candidate_delivery" => g.change > 0
    <3>1. PICK o \in events : Was(g, o)
      BY <1>2
    <3> QED BY <3>1 DEF DetTypeOK, KnownEvents, Was
  <2> QED BY <1>1, <2>1 DEF DetTypeOK, KnownReadings, KnownEvents
<1>4. \A g, o : Was(g, o) /\ g.status # "rejected" => o.status # "rejected"
  OBVIOUS
\* Different rows were different before.
<1>5. ASSUME NEW g \in events', NEW h \in events', NEW o \in events, Was(g, o), Was(h, o)
      PROVE  g = h
  <2> DEFINE d == [e EXCEPT !.status = status]
  <2>1. /\ e \notin events' \/ e = d
        /\ g = o \/ (o = e /\ g = d)
        /\ h = o \/ (o = e /\ h = d)
    BY <1>5 DEF Decide
  <2> HIDE DEF d
  <2> QED BY <2>1
<1>6. OneEventPerObservation'
  <2> SUFFICES ASSUME NEW type \in EventTypes, NEW g \in events', NEW h \in events',
                      g.type = type, g.status # "rejected", h.type = type, h.status # "rejected",
                      g # h, g.last = h.last
               PROVE  \E x \in {g, h} : x.created - x.last.at > Lookback
    BY DEF OneEventPerObservation, Standing
  <2>1. PICK o \in events : Was(g, o)
    BY <1>2
  <2>2. PICK p \in events : Was(h, p)
    BY <1>2
  <2>3. o # p
    BY <1>5, <2>1, <2>2
  <2>4. o.status # "rejected" /\ p.status # "rejected"
    BY <1>4, <2>1, <2>2
  <2>5. \E x \in {o, p} : x.created - x.last.at > Lookback
    BY <2>1, <2>2, <2>3, <2>4 DEF OneEventPerObservation, Standing
  <2> QED BY <2>1, <2>2, <2>5
<1>7. DecreasesDisjoint'
  <2> SUFFICES ASSUME NEW g \in Standing("candidate_unexplained_decrease")',
                      NEW h \in Standing("candidate_unexplained_decrease")'
               PROVE  g.last = h.last \/ ~Before(g.first, h.last) \/ ~Before(h.first, g.last)
    BY DEF DecreasesDisjoint, Before
  <2>0. g \in events' /\ h \in events' /\ g.status # "rejected" /\ h.status # "rejected"
    BY DEF Standing
  <2>1. PICK o \in events : Was(g, o)
    BY <1>2, <2>0
  <2>2. PICK p \in events : Was(h, p)
    BY <1>2, <2>0
  <2>3. /\ o \in Standing("candidate_unexplained_decrease")
        /\ p \in Standing("candidate_unexplained_decrease")
    BY <1>4, <2>0, <2>1, <2>2 DEF Standing
  <2>4. o.last = p.last \/ ~Before(o.first, p.last) \/ ~Before(p.first, o.last)
    BY <2>3 DEF DecreasesDisjoint
  <2>5. g.first = o.first /\ g.last = o.last /\ h.first = p.first /\ h.last = p.last
    BY <2>1, <2>2
  <2> QED BY <2>4, <2>5
<1> QED BY <1>3, <1>6, <1>7

\* A reading that arrives, of whatever instant, moves no event.
LEMMA ArriveKeeps ==
  ASSUME DetInv, NEW a \in TankReading, Arrive(a)
  PROVE  DetInv'
<1> USE DEF DetInv
<1>2. /\ now' = now /\ events' = events /\ readings' = readings \union {a}
      /\ a.at <= now /\ \A b \in readings : b.at # a.at \/ b.id # a.id
  BY DEF Arrive
<1>3. DetTypeOK'
  BY <1>2 DEF DetTypeOK
<1>4. KnownReadings'
  BY <1>2, FS_AddElement DEF KnownReadings
<1>5. KnownEvents' /\ OneEventPerObservation' /\ DecreasesDisjoint'
  BY <1>2 DEF KnownEvents, OneEventPerObservation, DecreasesDisjoint, Standing, Before
<1> QED BY <1>3, <1>4, <1>5

LEMMA TickKeeps ==
  ASSUME DetInv, Tick
  PROVE  DetInv'
<1> USE DEF DetInv
<1>1. now' = now + 1 /\ now' \in 0..Horizon /\ now \in Nat /\ readings' = readings /\ events' = events
  BY DetectionAssumption DEF Tick, DetTypeOK
<1>2. \A e \in events : e.created \in Int
  BY DetectionAssumption DEF DetTypeOK, FuelEvent
<1>3. DetTypeOK'
  BY <1>1, <1>2 DEF DetTypeOK
<1>4. KnownReadings'
  BY <1>1, ReadingIs DEF KnownReadings
<1>5. KnownEvents' /\ OneEventPerObservation' /\ DecreasesDisjoint'
  BY <1>1 DEF KnownEvents, OneEventPerObservation, DecreasesDisjoint, Standing, Before
<1> QED BY <1>3, <1>4, <1>5

-----------------------------------------------------------------------------
(* The deliveries                                                          *)

\* An event is confirmed by one request at a time.
OneDecision == \A p, q \in confirming : p.event = q.event => p = q

RepInv == DetInv /\ RepTypeOK /\ OneDecision /\ IsFiniteSet(deliveries)

LEMMA RepInitial == RepInit => RepInv
<1> SUFFICES ASSUME RepInit PROVE RepInv
  OBVIOUS
<1>1. now = 0 /\ readings = {} /\ events = {} /\ deliveries = {} /\ confirming = {}
  BY DEF RepInit, DetInit
<1>2. RepTypeOK /\ DetTypeOK /\ OneDecision
  BY <1>1, DetectionAssumption DEF RepTypeOK, DetTypeOK, OneDecision
<1>3. KnownReadings /\ KnownEvents /\ IsFiniteSet(deliveries)
  BY <1>1, FS_EmptySet DEF KnownReadings, KnownEvents
<1>4. OneEventPerObservation /\ DecreasesDisjoint
  BY <1>1 DEF OneEventPerObservation, DecreasesDisjoint, Standing
<1> QED BY <1>2, <1>3, <1>4 DEF RepInv, DetInv

LEMMA DetUnchanged == ASSUME DetInv, UNCHANGED detVars PROVE DetInv'
BY DEF DetInv, detVars, DetTypeOK, KnownReadings, KnownEvents, OneEventPerObservation,
   DecreasesDisjoint, Standing, Before

\* Deliveries and confirmations that were known stay so while no event loses its
\* confirmation and none that is being confirmed changes.
LEMMA DeliveriesKept ==
  ASSUME RepInv, deliveries' = deliveries, DetInv', now <= now',
         \A e \in events : e.status = "confirmed" => e \in events',
         confirming' \subseteq confirming, \A p \in confirming' : p.event \in events'
  PROVE  RepInv'
<1>1. now \in Int /\ now' \in Int /\ DetTypeOK'
  BY DEF RepInv, DetInv, DetTypeOK
<1>2. \A d \in deliveries : d.at \in Int
  BY DEF RepInv, RepTypeOK, Delivery
<1>3. \A p \in confirming : p.at \in Int
  BY DEF RepInv, RepTypeOK, Confirmation
<1>4. \A d \in deliveries : d.at <= now' /\ \E e \in events' : e.id = d.of /\ e.status = "confirmed"
  BY <1>1, <1>2 DEF RepInv, RepTypeOK
<1>5. \A p \in confirming' : p.at <= now' /\ p.event \in events' /\ p.event.status = "candidate"
  BY <1>1, <1>3 DEF RepInv, RepTypeOK
<1>6. RepTypeOK'
  BY <1>1, <1>4, <1>5 DEF RepInv, RepTypeOK
<1> QED BY <1>6 DEF RepInv, OneDecision

LEMMA BeginKeeps ==
  ASSUME RepInv, NEW e \in events, NEW stated \in StatedVolumes, ConfirmBegins(e, stated)
  PROVE  RepInv'
<1> DEFINE recorded == IF stated = Nil THEN e.change ELSE stated
           p == [event |-> e, recorded |-> recorded, at |-> now]
<1>1. /\ UNCHANGED detVars /\ deliveries' = deliveries /\ confirming' = confirming \union {p}
      /\ e.status = "candidate" /\ \A q \in confirming : q.event # e
      /\ e.type = "candidate_delivery" /\ recorded > 0
  BY DEF ConfirmBegins, Undecided
<1>2. now' = now /\ events' = events /\ readings' = readings
  BY <1>1 DEF detVars
<1>3. DetInv'
  BY <1>1, DetUnchanged DEF RepInv
<1>4. p \in Confirmation
  <2>1. e \in FuelEvent /\ now \in 0..Horizon
    BY DEF RepInv, DetInv, DetTypeOK
  <2>2. e.change \in Int
    BY <2>1 DEF FuelEvent
  <2>3. recorded \in Nat \ {0}
    BY <1>1, <2>2, ReportsAssumption
  <2> HIDE DEF recorded
  <2> QED BY <2>1, <2>3 DEF Confirmation
<1>5. p.at = now /\ p.event = e
  OBVIOUS
<1> HIDE DEF p, recorded
<1>6. now \in Int
  BY DEF RepInv, DetInv, DetTypeOK
<1>7. RepTypeOK'
  BY <1>1, <1>2, <1>3, <1>4, <1>5, <1>6 DEF RepInv, RepTypeOK, DetInv
<1>8. OneDecision'
  BY <1>1, <1>5 DEF RepInv, OneDecision
<1> QED BY <1>1, <1>3, <1>7, <1>8 DEF RepInv

LEMMA FailKeeps ==
  ASSUME RepInv, NEW p \in confirming, ConfirmFails(p)
  PROVE  RepInv'
<1>1. UNCHANGED detVars /\ deliveries' = deliveries /\ confirming' = confirming \ {p}
  BY DEF ConfirmFails
<1>2. DetInv' /\ now' = now /\ events' = events /\ now \in Int
  BY <1>1, DetUnchanged DEF RepInv, detVars, DetInv, DetTypeOK
<1>3. \A q \in confirming : q.event \in events
  BY DEF RepInv, RepTypeOK
<1> QED BY <1>1, <1>2, <1>3, DeliveriesKept

LEMMA EndKeeps ==
  ASSUME RepInv, NEW p \in confirming, ConfirmEnds(p)
  PROVE  RepInv'
<1>0. PICK e \in events : e = p.event
  BY DEF RepInv, RepTypeOK
<1> DEFINE row == [of |-> e.id, measured |-> e.change, recorded |-> p.recorded, at |-> p.at]
           d == [e EXCEPT !.status = "confirmed"]
<1>1. /\ Decide(e, "confirmed") /\ deliveries' = deliveries \union {row}
      /\ confirming' = confirming \ {p}
  BY <1>0 DEF ConfirmEnds
<1>2. DetInv /\ "confirmed" \in Statuses
  BY DEF RepInv, Statuses
<1>3. DetInv'
  BY <1>1, <1>2, DecideKeeps
<1>4. /\ now' = now /\ e.status = "candidate" /\ e.type = "candidate_delivery"
      /\ d \in events' /\ \A o \in events : o \in events' \/ o = e
  BY <1>1, <1>2, DecidedEvents
<1>5. e \in FuelEvent /\ e.change > 0 /\ e.id \in 1..MaxEvents /\ e.change \in Nat \ {0}
  <2>1. e \in FuelEvent /\ e.change > 0
    BY <1>2, <1>4 DEF DetInv, DetTypeOK, KnownEvents
  <2> QED BY <2>1 DEF FuelEvent
<1>6. d.id = e.id /\ d.status = "confirmed"
  BY <1>5 DEF FuelEvent
<1>7. row \in Delivery /\ row.at <= now /\ row.of = e.id
  BY <1>5 DEF RepInv, RepTypeOK, Delivery, Confirmation
<1> HIDE DEF row, d
<1>8. \A x \in deliveries : x \in Delivery /\ x.at <= now /\ \E g \in events' : g.id = x.of /\ g.status = "confirmed"
  BY <1>4 DEF RepInv, RepTypeOK
<1>9. \A q \in confirming' : q.event \in events' /\ q.event.status = "candidate" /\ q.at <= now
  <2>1. \A q \in confirming' : q.event # e
    BY <1>0, <1>1 DEF RepInv, OneDecision
  <2> QED BY <1>1, <1>4, <2>1 DEF RepInv, RepTypeOK
<1>10. RepTypeOK'
  <2>1. now \in Int /\ deliveries' \subseteq Delivery
    BY <1>1, <1>2, <1>7, <1>8 DEF DetInv, DetTypeOK
  <2>2. \A x \in deliveries' : x.at <= now /\ \E g \in events' : g.id = x.of /\ g.status = "confirmed"
    BY <1>1, <1>4, <1>6, <1>7, <1>8
  <2>3. DetTypeOK' /\ confirming' \subseteq Confirmation
    BY <1>1, <1>3 DEF DetInv, RepInv, RepTypeOK
  <2> QED BY <1>4, <1>9, <2>1, <2>2, <2>3 DEF RepTypeOK
<1>11. IsFiniteSet(deliveries') /\ OneDecision'
  BY <1>1, FS_AddElement DEF RepInv, OneDecision
<1> QED BY <1>3, <1>10, <1>11 DEF RepInv

LEMMA RejectKeeps ==
  ASSUME RepInv, NEW e \in events, Reject(e)
  PROVE  RepInv'
<1>1. Decide(e, "rejected") /\ deliveries' = deliveries /\ confirming' = confirming
  BY DEF Reject
<1>2. DetInv /\ "rejected" \in Statuses
  BY DEF RepInv, Statuses
<1>3. DetInv'
  BY <1>1, <1>2, DecideKeeps
<1>4. /\ now' = now /\ e.status = "candidate"
      /\ \A o \in events : o \in events' \/ o = e
  BY <1>1, <1>2, DecidedEvents
<1>5. \A o \in events : o.status = "confirmed" => o \in events'
  BY <1>4
<1>6. \A p \in confirming' : p.event \in events'
  BY <1>1, <1>4 DEF Reject, Undecided, RepInv, RepTypeOK
<1>7. now <= now'
  BY <1>2, <1>4 DEF DetInv, DetTypeOK
<1> QED BY <1>1, <1>3, <1>5, <1>6, <1>7, DeliveriesKept

LEMMA RepStep ==
  ASSUME RepInv, [RepNext]_repVars
  PROVE  RepInv'
<1>0. DetInv /\ now \in Int /\ \A p \in confirming : p.event \in events
  BY DEF RepInv, DetInv, DetTypeOK, RepTypeOK
\* Events are added and none changes.
<1>1. ASSUME DetInv', now <= now', events \subseteq events', UNCHANGED <<deliveries, confirming>>
      PROVE  RepInv'
  BY <1>0, <1>1, DeliveriesKept
<1>2. CASE Tick /\ UNCHANGED <<deliveries, confirming>>
  <2>1. DetInv' /\ now' = now + 1 /\ events' = events
    BY <1>0, <1>2, TickKeeps DEF Tick
  <2> QED BY <1>0, <1>1, <1>2, <2>1
<1>3. ASSUME NEW s \in Samples, NEW at \in 0..Horizon, NEW id \in 1..Ties,
             Arrive(ReadingOf(s, at, id)), UNCHANGED <<deliveries, confirming>>
      PROVE  RepInv'
  <2>1. ReadingOf(s, at, id) \in TankReading
    BY ReportsAssumption DEF ReadingOf, TankReading
  <2>2. DetInv' /\ now' = now /\ events' = events
    BY <1>0, <1>3, <2>1, ArriveKeeps DEF Arrive
  <2> QED BY <1>0, <1>1, <1>3, <2>2
<1>4. CASE DetectAndRecord /\ UNCHANGED <<deliveries, confirming>>
  <2>1. DetInv' /\ now' = now /\ events \subseteq events'
    BY <1>0, <1>4, DetectKeeps, RecordedEvents DEF DetectAndRecord
  <2> QED BY <1>0, <1>1, <1>4, <2>1
<1>5. CASE UNCHANGED repVars
  <2>1. DetInv' /\ now' = now /\ events' = events /\ UNCHANGED <<deliveries, confirming>>
    BY <1>0, <1>5, DetUnchanged DEF repVars, detVars
  <2> QED BY <1>0, <1>1, <2>1
<1> QED BY <1>2, <1>3, <1>4, <1>5, BeginKeeps, EndKeeps, FailKeeps, RejectKeeps DEF RepNext

LEMMA RepInvariant == RepSpec => []RepInv
<1>1. RepInv /\ [RepNext]_repVars => RepInv'
  BY RepStep
<1> QED BY <1>1, RepInitial, PTL DEF RepSpec

-----------------------------------------------------------------------------
(* The rules and the summary                                               *)

LEMMA NowIsNatural == ASSUME RepInv PROVE now \in Nat /\ DetTypeOK /\ KnownReadings
BY DetectionAssumption DEF RepInv, DetInv, DetTypeOK

\* The last of some readings, as the code takes it.
LEMMA LatestOfReadings ==
  ASSUME RepInv, NEW S \in SUBSET readings, S # {}
  PROVE  LatestOf(S) \in S /\ \A b \in S : b = LatestOf(S) \/ Before(b, LatestOf(S))
BY NowIsNatural, ReadingsAreLedger, LatestIsLast

LEMMA LatestIsLatest ==
  ASSUME RepInv, NEW S \in SUBSET readings, NEW a \in S, \A b \in S : b = a \/ Before(b, a)
  PROVE  LatestOf(S) = a
BY NowIsNatural, ReadingsAreLedger, LastIsLatest

\* The devices add nothing but their own finding.
LEMMA DevicesAside ==
  ASSUME NEW assigned
  PROVE  /\ DeviceDrafts(assigned) \subseteq {Finding("device_offline", "warning")}
         /\ Finding("stale_data", "warning") \notin DeviceDrafts(assigned)
<1>1. Finding("stale_data", "warning") # Finding("device_offline", "warning")
  BY DEF Finding
<1>2. DeviceDrafts(assigned) \subseteq {Finding("device_offline", "warning")}
  BY DEF DeviceDrafts, When
<1> QED BY <1>1, <1>2

LEMMA SilentIsStale == RepInv => SilenceIsReported
<1> SUFFICES ASSUME RepInv PROVE SilenceIsReported
  OBVIOUS
<1> DEFINE stale == Finding("stale_data", "warning")
           latest == LatestOf(Usable)
           found == AlertDrafts(AssignedDevice)
           Silent == \A a \in readings : a.quality = "invalid" \/ now - a.at > StaleAfter
           Hidden == \A a \in Recent : a.quality = "invalid"
<1>0. /\ Recent \in SUBSET readings /\ Usable \in SUBSET readings /\ Usable \subseteq Recent
      /\ \A a \in Recent, b \in readings : Before(a, b) => b \in Recent
      /\ stale \notin DeviceDrafts(AssignedDevice)
  BY NowIsNatural, RecentAreReadings, DevicesAside
<1>1. CASE Usable = {}
  <2>1. stale \in found
    BY <1>1 DEF AlertDrafts, DraftsFromMissingData
  <2>2. Hidden
    BY <1>1 DEF Usable
  <2> QED BY <2>1, <2>2 DEF SilenceIsReported
<1>2. CASE Usable # {}
  <2>2. latest \in Usable /\ \A b \in Usable : b = latest \/ Before(b, latest)
    BY <1>0, <1>2, LatestOfReadings
  <2>3. \A type, severity : Finding(type, severity) = stale => type = "stale_data"
    BY DEF Finding
  <2>4. stale \notin StockDrafts(latest.vol) /\ stale \notin FaultDrafts
    <3> HIDE DEF stale, latest
    <3> QED BY <2>3 DEF StockDrafts, FaultDrafts, When
  <2>5. Finding("probe_quality", "warning") # stale /\ Finding("water_level", "warning") # stale
    BY <2>3
  <2>6. stale \in found <=> Stale(latest)
    <3> DEFINE X == StockDrafts(latest.vol)
               V == When(latest.water >= WaterAlarm, Finding("water_level", "warning"))
               Y == When(latest.quality = "suspect", Finding("probe_quality", "warning"))
               Z == When(Stale(latest), stale)
               D == DeviceDrafts(AssignedDevice)
    <3>1. found = D \union ((X \union V \union Y \union Z) \union FaultDrafts)
      BY <1>2 DEF AlertDrafts, ReadingDrafts
    <3>2. stale \notin Y /\ stale \notin V
      BY <2>5 DEF When
    <3>3. stale \in Z <=> Stale(latest)
      BY DEF When
    <3>4. stale \notin X /\ stale \notin D
      BY <1>0, <2>4
    <3> HIDE DEF X, V, Y, Z, D, stale, latest, found
    <3> QED BY <2>4, <3>1, <3>2, <3>3, <3>4
  <2>7. Stale(latest) <=> Silent
    <3>1. \A a \in readings : a.at \in Nat
      BY NowIsNatural, ReadingIs
    <3>2. now \in Nat /\ StaleAfter \in Nat
      BY NowIsNatural, AlertRulesAssumption
    <3>3. latest \in readings /\ latest \in Recent /\ latest.quality # "invalid"
      BY <1>0, <2>2 DEF Usable
    <3> HIDE DEF latest
\* A usable reading that the rules do not see is before those they see.
    <3>4. \A a \in readings : a.quality # "invalid" => a.at <= latest.at
      <4> SUFFICES ASSUME NEW a \in readings, a.quality # "invalid", ~(a.at <= latest.at)
                   PROVE  FALSE
        OBVIOUS
      <4>1. Before(latest, a)
        BY <3>1, <3>3 DEF Before
      <4>2. a \in Usable
        BY <1>0, <3>3, <4>1 DEF Usable
      <4> QED BY <2>2, <3>1, <3>3, <4>2 DEF Before
    <3> QED BY <3>1, <3>2, <3>3, <3>4 DEF Stale, Age
  <2>8. ~Hidden
    BY <1>0, <2>2 DEF Usable
  <2> HIDE DEF stale, latest, found, Silent, Hidden
  <2> QED BY <2>6, <2>7, <2>8 DEF SilenceIsReported, stale, found, Silent, Hidden
<1> QED BY <1>1, <1>2

LEMMA HealthyIsQuiet == RepInv => HealthyIsUnalarmed
<1> SUFFICES ASSUME RepInv, ~NeedsAttention(0)
             PROVE  AlertDrafts(AssignedDevice) \subseteq Unseen
  BY DEF HealthyIsUnalarmed
<1> DEFINE a == LatestOf(readings)
<1>1. ~Summary.missing /\ Summary.status # "low" /\ Summary.status # "critical"
  BY DEF NeedsAttention
<1>2. readings # {} /\ Summary = SummaryOf(a)
  BY <1>1 DEF Summary, NoReading
<1>3. a \in readings /\ \A b \in readings : b = a \/ Before(b, a)
  BY <1>2, LatestOfReadings
<1>3a. a \in Recent /\ Recent \in SUBSET readings /\ Usable \in SUBSET readings
  BY <1>2, NowIsNatural, RecentAreReadings
<1> HIDE DEF a
<1>4. a.quality # "invalid" /\ ~Stale(a)
  BY <1>1, <1>2 DEF SummaryOf
<1>5. StockStatus(a.vol) # "low" /\ StockStatus(a.vol) # "critical"
  BY <1>1, <1>2, <1>4 DEF SummaryOf
<1>6. ~AtMost(a.vol, CriticalPercent) /\ ~AtMost(a.vol, LowPercent)
  BY <1>5 DEF StockStatus
<1>7. a \in Usable /\ LatestOf(Usable) = a
  <2>1. a \in Usable
    BY <1>3a, <1>4 DEF Usable
  <2> QED BY <1>3, <1>3a, <2>1, LatestIsLatest
<1>8. ~Faulty
  <2>1. {b \in Recent : Before(a, b)} = {}
    BY <1>3, <1>3a, NowIsNatural, ReadingIs DEF Before
  <2>2. Cardinality({b \in Recent : Before(a, b)}) < FaultRun
    BY <2>1, FS_EmptySet, AlertRulesAssumption
  <2>3. a \in LastOf(Recent, FaultRun)
    BY <1>3a, <2>2 DEF LastOf
  <2> QED BY <1>4, <2>3 DEF Faulty
<1>9. StockDrafts(a.vol) = {} /\ FaultDrafts = {}
  BY <1>6, <1>8 DEF StockDrafts, FaultDrafts, When
<1>10. AlertDrafts(AssignedDevice)
         = DeviceDrafts(AssignedDevice) \union (ReadingDrafts(a) \union FaultDrafts)
  BY <1>7 DEF AlertDrafts
<1>11. ReadingDrafts(a) \subseteq {Finding("water_level", "warning"), Finding("probe_quality", "warning")}
  BY <1>4, <1>9 DEF ReadingDrafts, When
<1>12. DeviceDrafts(AssignedDevice) \subseteq {Finding("device_offline", "warning")}
  BY DevicesAside
<1> QED BY <1>9, <1>10, <1>11, <1>12 DEF Unseen

-----------------------------------------------------------------------------
(* The reports                                                             *)

LEMMA InstantIs ==
  ASSUME RepInv, NEW at \in Instants
  PROVE  at \in Nat /\ at <= now /\ at # Nil
BY NowIsNatural, AlertRulesAssumption DEF Instants

\* A list that is bounded on both sides is bounded in either adapter.
LEMMA WindowOfInstants ==
  ASSUME RepInv, NEW from \in Instants, NEW to \in Instants
  PROVE  /\ \A at : InWindow(at, from, to) <=> from <= at /\ at <= to
         /\ \A a : a \in ReadingsIn(from, to) <=> a \in readings /\ from <= a.at /\ a.at <= to
         /\ \A d : d \in DeliveriesIn(from, to) <=> d \in deliveries /\ from <= d.at /\ d.at <= to
<1>1. from # Nil /\ to # Nil
  BY InstantIs
<1>2. \A at : InWindow(at, from, to) <=> from <= at /\ at <= to
  BY <1>1 DEF InWindow
<1> QED BY <1>2 DEF ReadingsIn, DeliveriesIn

\* The list of a window has its last reading, whatever its limit.
LEMMA ListKeepsLatest ==
  ASSUME RepInv, NEW from, NEW to
  PROVE  /\ NewestOf(Within(from, to)) = NewestOf(ReadingsIn(from, to))
         /\ Within(from, to) = {} <=> ReadingsIn(from, to) = {}
         /\ Within(from, to) \subseteq ReadingsIn(from, to)
<1> DEFINE S == ReadingsIn(from, to)
<1>1. S \in SUBSET readings
  BY DEF ReadingsIn
<1>2. Ledger(S) /\ ListRows \in Nat \ {0}
  BY <1>1, NowIsNatural, ReadingsAreLedger, ReportsAssumption
<1> HIDE DEF S
<1>3. LastOf(S, ListRows) \subseteq S
  BY DEF LastOf
<1>4. S # {} => LatestOf(S) \in LastOf(S, ListRows) /\ LatestOf(LastOf(S, ListRows)) = LatestOf(S)
  BY <1>2, LastIsAmong
<1> QED BY <1>3, <1>4 DEF Within, NewestOf, S

\* All that arrived before an instant, if nothing arrived from then on.
LEMMA OpeningIsLatest ==
  ASSUME RepInv, NEW from \in Instants, \A a \in readings : a.at < from
  PROVE  Opening(from) = NewestOf(readings)
<1>1. \A a \in readings : InWindow(a.at, Nil, from)
  <2>1. \A a \in readings : a.at \in Int /\ from \in Int
    BY InstantIs, NowIsNatural, ReadingIs
  <2> QED BY <2>1 DEF InWindow
<1>2. ReadingsIn(Nil, from) = readings
  BY <1>1 DEF ReadingsIn
<1> QED BY <1>2 DEF Opening

\* Up to now, the stock movement closes with the reading of the summary.
LEMMA ClosingIsLatest ==
  ASSUME RepInv, NEW from \in Instants
  PROVE  LET within == Within(from, now) IN
         (IF within = {} THEN Opening(from) ELSE NewestOf(within)) = NewestOf(readings)
<1> DEFINE within == ReadingsIn(from, now)
<1>0. NewestOf(Within(from, now)) = NewestOf(within) /\ (Within(from, now) = {} <=> within = {})
  BY ListKeepsLatest
<1> SUFFICES (IF within = {} THEN Opening(from) ELSE NewestOf(within)) = NewestOf(readings)
  BY <1>0
<1>1. now \in Instants
  BY NowIsNatural DEF Instants
<1>2. \A a : a \in within <=> a \in readings /\ from <= a.at /\ a.at <= now
  BY <1>1, WindowOfInstants
<1>3. \A a \in readings : a.at \in Nat /\ a.at <= now /\ from \in Nat
  BY NowIsNatural, ReadingIs, InstantIs DEF KnownReadings
<1> HIDE DEF within
<1>4. CASE within = {}
  <2>1. \A a \in readings : a.at < from
    BY <1>2, <1>3, <1>4
  <2> QED BY <1>4, <2>1, OpeningIsLatest DEF within
<1>5. CASE within # {}
  <2>1. within \in SUBSET readings
    BY <1>2
  <2>2. LatestOf(within) \in within /\ \A b \in within : b = LatestOf(within) \/ Before(b, LatestOf(within))
    BY <1>5, <2>1, LatestOfReadings
  <2> DEFINE l == LatestOf(within)
  <2>3. l \in readings /\ \A b \in readings : b = l \/ Before(b, l)
    <3> HIDE DEF l
    <3> SUFFICES ASSUME NEW b \in readings, b \notin within PROVE l \in readings /\ Before(b, l)
      BY <2>1, <2>2 DEF l
    <3>1. b.at < from /\ from <= l.at /\ l \in readings
      BY <1>2, <1>3, <2>2 DEF l
    <3> QED BY <3>1, <1>3 DEF Before
  <2>4. LatestOf(readings) = l
    <3> HIDE DEF l
    <3> QED BY <2>3, LatestIsLatest
  <2> QED BY <1>5, <2>1, <2>4 DEF NewestOf, within
<1> QED BY <1>4, <1>5 DEF within

\* What the summary shows is the volume of the last reading.
LEMMA InventoryIsLatest ==
  ASSUME NewestOf(readings) # Nil
  PROVE  Inventory.volume \in {Nil, NewestOf(readings).vol}
<1>1. readings # {} /\ NewestOf(readings) = LatestOf(readings)
  BY DEF NewestOf
<1>2. Summary = SummaryOf(LatestOf(readings))
  BY <1>1 DEF Summary
<1>3. Inventory.volume = Summary.volume
  BY DEF Inventory
<1> DEFINE a == LatestOf(readings)
<1>4. Summary.volume = IF a.quality # "invalid" THEN a.vol ELSE Nil
  <2> HIDE DEF a
  <2>1. SummaryOf(a).volume = IF a.quality # "invalid" THEN a.vol ELSE Nil
    BY DEF SummaryOf
  <2> QED BY <1>2, <2>1 DEF a
<1> QED BY <1>1, <1>3, <1>4

\* The extremes of a window are those of its usable readings.
LEMMA ClosingWithinExtremes ==
  ASSUME RepInv, NEW from \in Instants, NEW to \in Instants,
         LET moved == StockMovement(from, to) IN
         moved.minimum # Nil /\ moved.closing.quality # "invalid"
  PROVE  LET moved == StockMovement(from, to) IN
         moved.minimum <= moved.closing.vol /\ moved.closing.vol <= moved.maximum
<1> DEFINE within == Within(from, to)
           usable == {a \in within : a.quality # "invalid"}
           volumes == {a.vol : a \in usable}
           closing == IF within = {} THEN Opening(from) ELSE NewestOf(within)
           moved == StockMovement(from, to)
<1>1. /\ moved.closing = closing
      /\ moved.minimum = IF volumes = {} THEN Nil ELSE Min(volumes)
      /\ moved.maximum = IF volumes = {} THEN Nil ELSE Max(volumes)
  BY DEF StockMovement
<1> HIDE DEF moved
<1>2. volumes # {} /\ moved.minimum = Min(volumes) /\ moved.maximum = Max(volumes)
  <2> HIDE DEF volumes, closing
  <2> QED BY <1>1 DEF moved
<1>3. within \in SUBSET readings /\ usable \in SUBSET readings
  BY ListKeepsLatest DEF ReadingsIn
<1>4. within # {} /\ closing = LatestOf(within)
  BY <1>2 DEF NewestOf
<1>5. LatestOf(within) \in within
  <2> HIDE DEF within
  <2> QED BY <1>3, <1>4, LatestOfReadings
<1>6. LatestOf(within).quality # "invalid"
  <2> HIDE DEF within, closing
  <2> QED BY <1>1, <1>4 DEF moved
<1>7. closing.vol \in volumes
  <2> HIDE DEF within, closing
  <2> QED BY <1>4, <1>5, <1>6
<1>8. IsFiniteSet(volumes) /\ volumes \subseteq Int
  <2>1. IsFiniteSet(usable)
    <3> HIDE DEF usable
    <3> QED BY <1>3, FS_Subset, NowIsNatural DEF KnownReadings
  <2>2. \A a \in usable : a.vol \in Int
    BY <1>3, NowIsNatural, ReadingIs
  <2> HIDE DEF usable
  <2> DEFINE vol == [a \in usable |-> a.vol]
  <2>3. vol \in Surjection(usable, volumes)
    BY DEF Surjection
  <2>4. IsFiniteSet(volumes)
    <3> HIDE DEF vol, volumes
    <3> QED BY <2>1, <2>3, FS_Surjection
  <2> QED BY <2>2, <2>4
<1> HIDE DEF volumes, closing
<1>9. Min(volumes) <= closing.vol /\ closing.vol <= Max(volumes)
  BY <1>2, <1>7, <1>8, Extremes
<1> QED BY <1>1, <1>2, <1>9 DEF moved

LEMMA ReportsAreOne == RepInv => ReportsAgree
<1> SUFFICES ASSUME RepInv, NEW from \in Instants, NEW to \in Instants, from <= to
             PROVE
      LET moved == StockMovement(from, to)
          balance == Reconciliation(from, to)
          docket == DeliveriesReport(from, to)
      IN /\ moved.delivered = docket.recorded /\ balance.delivered = docket.recorded
         /\ balance.closing # Nil => balance.closing = moved.closing
         /\ balance.residual # Nil => balance.residual = moved.change - docket.recorded
         /\ moved.minimum # Nil /\ moved.closing.quality # "invalid" =>
              moved.minimum <= moved.closing.vol /\ moved.closing.vol <= moved.maximum
         /\ to = now /\ moved.closing # Nil => Inventory.volume \in {Nil, moved.closing.vol}
  BY DEF ReportsAgree
<1> DEFINE moved == StockMovement(from, to)
           balance == Reconciliation(from, to)
           docket == DeliveriesReport(from, to)
           within == Within(from, to)
           closing == IF within = {} THEN Opening(from) ELSE NewestOf(within)
           sum == Delivered(from, to)
<1>1. moved.delivered = sum /\ moved.closing = closing /\ moved.change = Change(Opening(from), closing)
  BY DEF StockMovement
<1>2. /\ balance.delivered = sum /\ balance.closing = NewestOf(within)
      /\ balance.residual = Residual(from, to)
  BY DEF Reconciliation, Residual
<1>3. docket.recorded = sum
  BY DEF DeliveriesReport, Delivered
<1>4. within = {} => NewestOf(within) = Nil
  BY DEF NewestOf
<1>5. /\ Residual(from, to) # Nil => NewestOf(within) # Nil
      /\ Residual(from, to) # Nil => Residual(from, to) = Change(Opening(from), NewestOf(within)) - sum
  BY DEF Residual, ResidualOf
<1>6. to = now => closing = NewestOf(readings)
  BY ClosingIsLatest
<1>7. NewestOf(readings) # Nil => Inventory.volume \in {Nil, NewestOf(readings).vol}
  BY InventoryIsLatest
<1>8. moved.minimum # Nil /\ moved.closing.quality # "invalid" =>
        moved.minimum <= moved.closing.vol /\ moved.closing.vol <= moved.maximum
  BY ClosingWithinExtremes
<1>9. NewestOf(within) # Nil => closing = NewestOf(within)
  BY <1>4
<1> HIDE DEF moved, balance, docket, closing, sum, within
<1>10. balance.closing # Nil => balance.closing = moved.closing
  BY <1>1, <1>2, <1>9
<1>11. balance.residual # Nil => balance.residual = moved.change - docket.recorded
  BY <1>1, <1>2, <1>3, <1>5, <1>9
<1>12. to = now /\ moved.closing # Nil => Inventory.volume \in {Nil, moved.closing.vol}
  BY <1>1, <1>6, <1>7
<1> QED BY <1>1, <1>2, <1>3, <1>8, <1>10, <1>11, <1>12 DEF moved, balance, docket

\* In the adapter that keeps one-sided bounds, the opening is the last reading
\* at or before the start.
LEMMA OpeningBefore ==
  ASSUME RepInv, ~Database, NEW from \in Instants
  PROVE  /\ \A a : a \in ReadingsIn(Nil, from) <=> a \in readings /\ a.at <= from
         /\ Opening(from) # Nil => Opening(from).at <= from
<1>1. from # Nil
  BY InstantIs
<1>2. \A a : a \in ReadingsIn(Nil, from) <=> a \in readings /\ a.at <= from
  BY <1>1 DEF ReadingsIn, InWindow
<1>3. ReadingsIn(Nil, from) \in SUBSET readings
  BY <1>2
<1>4. ASSUME Opening(from) # Nil PROVE Opening(from).at <= from
  <2>1. Opening(from) = LatestOf(ReadingsIn(Nil, from)) /\ ReadingsIn(Nil, from) # {}
    BY <1>4 DEF Opening, NewestOf
  <2>2. LatestOf(ReadingsIn(Nil, from)) \in ReadingsIn(Nil, from)
    BY <1>3, <2>1, LatestOfReadings
  <2> QED BY <1>2, <2>1, <2>2
<1> QED BY <1>2, <1>4

\* The last reading of a set is that of a part that holds all its later ones.
LEMMA LatestOfPart ==
  ASSUME RepInv, NEW S \in SUBSET readings, NEW T \in SUBSET S, T # {},
         \A a \in T, b \in S \ T : b.at < a.at
  PROVE  LatestOf(S) = LatestOf(T)
<1> DEFINE l == LatestOf(T)
<1>1. l \in T /\ \A b \in T : b = l \/ Before(b, l)
  BY LatestOfReadings
<1> HIDE DEF l
<1>2. \A b \in S : b = l \/ Before(b, l)
  BY <1>1 DEF Before
<1>3. LatestOf(S) = l
  BY <1>1, <1>2, LatestIsLatest
<1> QED BY <1>3 DEF l

LEMMA DeliveriesCounted ==
  ASSUME RepInv, NEW from \in Instants, NEW to \in Instants
  PROVE  /\ Delivered(from, to) = SumRecorded(DeliveriesIn(from, to))
         /\ IsFiniteSet(DeliveriesIn(from, to))
         /\ \A d \in DeliveriesIn(from, to) : d.recorded \in Nat /\ d.at \in Nat
         /\ Delivered(from, to) \in Nat
<1>1. Delivered(from, to) = SumRecorded(DeliveriesIn(from, to))
  BY DEF Delivered, SumRecorded
<1>2. DeliveriesIn(from, to) \subseteq deliveries
  BY DEF DeliveriesIn
<1>3. IsFiniteSet(DeliveriesIn(from, to))
  BY <1>2, FS_Subset DEF RepInv
<1>4. \A d \in DeliveriesIn(from, to) : d.recorded \in Nat /\ d.at \in Nat
  BY <1>2, DetectionAssumption DEF RepInv, RepTypeOK, Delivery
<1> QED BY <1>1, <1>3, <1>4, SumIsNatural

\* Two windows share the deliveries of the instant where they meet.
LEMMA DeliveredAddsUp ==
  ASSUME RepInv, NEW from \in Instants, NEW mid \in Instants, NEW to \in Instants,
         from <= mid, mid <= to
  PROVE  Delivered(from, mid) + Delivered(mid, to) = Delivered(from, to) + Delivered(mid, mid)
<1> DEFINE A == DeliveriesIn(from, mid)
           B == DeliveriesIn(mid, to)
<1>1. from \in Nat /\ mid \in Nat /\ to \in Nat /\ \A d \in deliveries : d.at \in Int
  BY InstantIs, DetectionAssumption DEF RepInv, RepTypeOK, Delivery
<1>2. A \union B = DeliveriesIn(from, to) /\ A \intersect B = DeliveriesIn(mid, mid)
  BY <1>1, WindowOfInstants
<1>3. IsFiniteSet(A) /\ IsFiniteSet(B) /\ \A d \in A \union B : d.recorded \in Nat
  BY DeliveriesCounted
<1>4. /\ Delivered(from, mid) = SumRecorded(A) /\ Delivered(mid, to) = SumRecorded(B)
      /\ Delivered(from, to) = SumRecorded(A \union B)
      /\ Delivered(mid, mid) = SumRecorded(A \intersect B)
  BY <1>2, DeliveriesCounted
<1> HIDE DEF A, B
<1> QED BY <1>3, <1>4, SumOfUnion

\* The residual is that of all readings of the window, whatever the limit.
LEMMA ResidualIs ==
  ASSUME RepInv, NEW from, NEW to
  PROVE  Residual(from, to)
           = ResidualOf(Opening(from), NewestOf(ReadingsIn(from, to)), Delivered(from, to))
BY ListKeepsLatest DEF Residual

LEMMA ResidualsAdd == RepInv /\ ~Database => ResidualsAddUp
<1> SUFFICES ASSUME RepInv, ~Database,
                    NEW from \in Instants, NEW mid \in Instants, NEW to \in mid..now,
                    from <= mid, Residual(from, mid) # Nil, Residual(mid, to) # Nil
             PROVE  Residual(from, mid) + Residual(mid, to)
                      = Residual(from, to) - Delivered(mid, mid)
  BY DEF ResidualsAddUp
<1>0. to \in Instants /\ mid <= to
  BY InstantIs, NowIsNatural DEF Instants
<1> DEFINE open == Opening(from)
           half == LatestOf(ReadingsIn(from, mid))
           close == LatestOf(ReadingsIn(mid, to))
<1>1. /\ open # Nil /\ open = LatestOf(ReadingsIn(Nil, from)) /\ ReadingsIn(Nil, from) # {}
      /\ half # Nil /\ ReadingsIn(from, mid) # {}
      /\ Residual(from, mid) = half.vol - open.vol - Delivered(from, mid)
  BY ResidualIs DEF ResidualOf, Change, NewestOf, Opening
<1>2. close # Nil /\ ReadingsIn(mid, to) # {}
  BY ResidualIs DEF ResidualOf, NewestOf
<1>3. from \in Nat /\ mid \in Nat /\ to \in Nat /\ \A a \in readings : a.at \in Nat
  BY <1>0, InstantIs, NowIsNatural, ReadingIs
<1>4. Opening(mid) = half
  <2>1. /\ ReadingsIn(from, mid) \subseteq ReadingsIn(Nil, mid)
        /\ ReadingsIn(Nil, mid) \in SUBSET readings
        /\ \A a \in ReadingsIn(from, mid), b \in ReadingsIn(Nil, mid) \ ReadingsIn(from, mid) :
              b.at < a.at
    BY <1>3, WindowOfInstants, OpeningBefore
  <2>2. LatestOf(ReadingsIn(Nil, mid)) = half
    BY <1>1, <2>1, LatestOfPart
  <2> QED BY <1>1, <2>1, <2>2 DEF Opening, NewestOf
<1>5. ReadingsIn(from, to) # {} /\ LatestOf(ReadingsIn(from, to)) = close
  <2>1. /\ ReadingsIn(mid, to) \subseteq ReadingsIn(from, to)
        /\ ReadingsIn(from, to) \in SUBSET readings
        /\ \A a \in ReadingsIn(mid, to), b \in ReadingsIn(from, to) \ ReadingsIn(mid, to) :
              b.at < a.at
    BY <1>0, <1>3, WindowOfInstants
  <2> QED BY <1>2, <2>1, LatestOfPart
<1>6. open.vol \in Int /\ half.vol \in Int /\ close.vol \in Int
  <2>1. /\ ReadingsIn(Nil, from) \in SUBSET readings /\ ReadingsIn(from, mid) \in SUBSET readings
        /\ ReadingsIn(mid, to) \in SUBSET readings
    BY DEF ReadingsIn
  <2>2. open \in readings /\ half \in readings /\ close \in readings
    BY <1>1, <1>2, <2>1, LatestOfReadings
  <2> HIDE DEF open, half, close
  <2> QED BY <2>2, NowIsNatural, ReadingIs
<1>7. Residual(mid, to) = close.vol - half.vol - Delivered(mid, to)
  <2> HIDE DEF half
  <2> QED BY <1>1, <1>2, <1>4, ResidualIs DEF ResidualOf, Change, NewestOf
<1>8. Residual(from, to) = close.vol - open.vol - Delivered(from, to)
  <2>1. Change(open, close) = close.vol - open.vol
    <3> HIDE DEF open, close
    <3> QED BY <1>1, <1>2 DEF Change
  <2>2. NewestOf(ReadingsIn(from, to)) = close
    BY <1>5 DEF NewestOf
  <2>3. Residual(from, to) = ResidualOf(open, close, Delivered(from, to))
    <3> HIDE DEF close
    <3> QED BY <2>2, ResidualIs
  <2> HIDE DEF open, close
  <2> QED BY <1>1, <1>2, <2>1, <2>3 DEF ResidualOf
<1> HIDE DEF open, half, close
<1> QED BY <1>0, <1>1, <1>6, <1>7, <1>8, DeliveredAddsUp, DeliveriesCounted

\* No step begins or ends a confirmation of a window that is settled.
LEMMA SettledStep ==
  ASSUME RepInv, [RepNext]_repVars
  PROVE  \A to \in Instants : \A from \in 0..to :
           Settled(from, to) => Settled(from, to)' /\ Delivered(from, to)' = Delivered(from, to)
<1> SUFFICES ASSUME NEW to \in Instants, NEW from \in 0..to, Settled(from, to)
             PROVE  Settled(from, to)' /\ Delivered(from, to)' = Delivered(from, to)
  OBVIOUS
<1>1. from # Nil /\ to # Nil /\ now \in Nat /\ to \in Nat /\ to < now
  <2>1. to \in Nat /\ now \in Nat /\ from \in Int /\ to < now
    BY InstantIs, NowIsNatural DEF Settled
  <2> QED BY <2>1, AlertRulesAssumption
<1>2. now' \in Nat /\ now <= now'
  <2>1. CASE Tick
    BY <1>1, <2>1 DEF Tick
  <2>2. CASE now' = now
    BY <1>1, <2>2
  <2> QED BY <2>1, <2>2 DEF RepNext, Reject, Decide, ConfirmBegins, ConfirmEnds, ConfirmFails,
                             Arrive, DetectAndRecord, repVars, detVars
<1>3. (\A p \in confirming' : ~InWindow(p.at, from, to)) /\ DeliveriesIn(from, to)' = DeliveriesIn(from, to)
  <2>1. CASE UNCHANGED <<deliveries, confirming>>
    BY <2>1 DEF DeliveriesIn, Settled
  <2>2. ASSUME NEW e \in events, NEW stated \in StatedVolumes, ConfirmBegins(e, stated)
        PROVE  deliveries' = deliveries /\ \A p \in confirming' : ~InWindow(p.at, from, to)
    <3>1. PICK p : p.at = now /\ confirming' = confirming \union {p}
      BY <2>2 DEF ConfirmBegins
    <3>2. ~InWindow(p.at, from, to)
      BY <1>1, <3>1 DEF InWindow
    <3> QED BY <2>2, <3>1, <3>2 DEF Settled, ConfirmBegins
  <2>3. ASSUME NEW p \in confirming, ConfirmEnds(p)
        PROVE  /\ \A q \in confirming' : ~InWindow(q.at, from, to)
               /\ DeliveriesIn(from, to)' = DeliveriesIn(from, to)
    <3>1. PICK row : row.at = p.at /\ deliveries' = deliveries \union {row}
      BY <2>3 DEF ConfirmEnds
    <3>2. ~InWindow(row.at, from, to) /\ confirming' \subseteq confirming
      BY <2>3, <3>1 DEF Settled, ConfirmEnds
    <3> QED BY <3>1, <3>2 DEF DeliveriesIn, Settled
  <2>4. ASSUME NEW p \in confirming, ConfirmFails(p)
        PROVE  deliveries' = deliveries /\ \A q \in confirming' : ~InWindow(q.at, from, to)
    BY <2>4 DEF ConfirmFails, Settled
  <2>5. deliveries' = deliveries => DeliveriesIn(from, to)' = DeliveriesIn(from, to)
    BY DEF DeliveriesIn
  <2> QED BY <2>1, <2>2, <2>3, <2>4, <2>5 DEF RepNext, Reject, repVars
<1>4. Settled(from, to)'
  BY <1>1, <1>2, <1>3 DEF Settled
<1>5. (Delivered(from, to) = SumRecorded(DeliveriesIn(from, to)))'
  BY DEF Delivered, SumRecorded
<1>6. Delivered(from, to) = SumRecorded(DeliveriesIn(from, to))
  BY DEF Delivered, SumRecorded
<1>7. SumRecorded(DeliveriesIn(from, to))' = SumRecorded(DeliveriesIn(from, to)')
  OBVIOUS
<1> QED BY <1>3, <1>4, <1>5, <1>6, <1>7

\* Bucketing: the quotient that is cut off at the last bucket keeps the span.
LEMMA CutQuotient ==
  ASSUME NEW x \in Nat, NEW d \in Nat \ {0}, NEW n \in Nat \ {0}, x <= d * n,
         NEW k \in Nat, k = x \div d \/ (k = n - 1 /\ k <= x \div d)
  PROVE  k * d <= x /\ x <= (k + 1) * d
<1> DEFINE q == x \div d
<1>1. q \in Nat /\ q * d <= x /\ x <= (q + 1) * d
  OBVIOUS
<1>2. k <= q
  BY <1>1
<1> HIDE DEF q
<1>3. k * d <= q * d
  BY <1>1, <1>2
<1>4. k * d <= x
  BY <1>1, <1>3
<1>5. CASE k = q
  BY <1>1, <1>4, <1>5
<1>6. CASE k = n - 1
  BY <1>4, <1>6
<1> QED BY <1>5, <1>6 DEF q

\* A reading that is not charted follows as many as a list has.
LEMMA ChartedAreOldest ==
  ASSUME RepInv, NEW from
  PROVE  /\ Charted(from, now) \subseteq ReadingsIn(from, now)
         /\ \A a \in ReadingsIn(from, now) \ Charted(from, now) :
              Cardinality({b \in ReadingsIn(from, now) : Before(b, a)}) >= ListRows
<1> DEFINE S == ReadingsIn(from, now)
           Earlier(a) == {b \in S : Before(b, a)}
<1>1. \A a : Cardinality(Earlier(a)) \in Nat
  <2> SUFFICES ASSUME NEW a PROVE Cardinality(Earlier(a)) \in Nat
    OBVIOUS
  <2>1. Earlier(a) \subseteq readings /\ IsFiniteSet(readings)
    BY NowIsNatural DEF ReadingsIn, KnownReadings
  <2> HIDE DEF Earlier
  <2> QED BY <2>1, FS_Subset, FS_CardinalityType
<1>2. ListRows \in Nat
  BY ReportsAssumption
<1>3. Charted(from, now) = {a \in S : Cardinality(Earlier(a)) < ListRows}
  BY DEF Charted, FirstOf
<1> HIDE DEF S
<1>4. ASSUME NEW a \in S, a \notin Charted(from, now) PROVE Cardinality(Earlier(a)) >= ListRows
  <2>1. ~(Cardinality(Earlier(a)) < ListRows)
    BY <1>3, <1>4
  <2> HIDE DEF Earlier
  <2> QED BY <1>1, <1>2, <2>1
<1> QED BY <1>3, <1>4 DEF S

LEMMA TrendIsWhole == RepInv => TrendKeepsReadings
<1> SUFFICES ASSUME RepInv, NEW from \in Instants, NEW n \in Buckets,
                    NEW a \in Charted(from, now)
             PROVE  LET k == Bucket(a, from, now, n) IN
                    /\ k \in 0..n - 1
                    /\ (a.at - from) * n >= k * (now - from)
                    /\ (a.at - from) * n <= (k + 1) * (now - from)
  BY ChartedAreOldest DEF TrendKeepsReadings, BucketOf
<1> DEFINE k == Bucket(a, from, now, n)
           d == IF now > from THEN now - from ELSE 1
           x == (a.at - from) * n
<1>1. /\ a.at \in Nat /\ from \in Nat /\ now \in Nat /\ from <= a.at /\ a.at <= now
      /\ n \in Nat \ {0} /\ from <= now
  <2>1. now \in Instants
    BY NowIsNatural DEF Instants
  <2>2. a \in readings /\ from <= a.at /\ a.at <= now
    BY <2>1, WindowOfInstants, ChartedAreOldest
  <2> QED BY <2>2, InstantIs, NowIsNatural, ReadingIs, ReportsAssumption
<1>2. d \in Nat \ {0} /\ a.at - from \in Nat /\ a.at - from <= d
  BY <1>1
<1>3. x \in Nat /\ x <= d * n
  <2> HIDE DEF d
  <2> DEFINE y == a.at - from
  <2> HIDE DEF y
  <2>1. y * n \in Nat /\ y * n <= d * n
    BY <1>1, <1>2 DEF y
  <2> QED BY <2>1 DEF y
<1>4. k = Min({n - 1, x \div d})
  BY DEF Bucket
<1> HIDE DEF x, d, k
<1>5. x \div d \in Nat
  BY <1>2, <1>3
<1>6. /\ k \in {n - 1, x \div d} /\ k <= n - 1 /\ k <= x \div d
  <2>1. IsFiniteSet({n - 1, x \div d})
    <3>1. \A u, v : IsFiniteSet({u} \union {v})
      BY FS_Singleton, FS_AddElement
    <3>2. {n - 1, x \div d} = {n - 1} \union {x \div d}
      OBVIOUS
    <3> QED BY <3>1, <3>2, Zenon
  <2> DEFINE S == {n - 1, x \div d}
  <2>2. S \subseteq Int /\ S # {} /\ n - 1 \in S /\ x \div d \in S
    BY <1>1, <1>5
  <2>3. Min(S) \in S /\ \A y \in S : Min(S) <= y
    <3> HIDE DEF S
    <3> QED BY <2>1, <2>2, Extremes DEF S
  <2> QED BY <1>4, <2>2, <2>3
<1>7. k \in Nat /\ (k = x \div d \/ (k = n - 1 /\ k <= x \div d))
  BY <1>1, <1>5, <1>6
<1>8. k * d <= x /\ x <= (k + 1) * d
  BY <1>1, <1>2, <1>3, <1>7, CutQuotient
<1>9. CASE now > from
  <2>1. d = now - from
    BY <1>9 DEF d
  <2> QED BY <1>1, <1>6, <1>7, <1>8, <2>1 DEF x, k
<1>10. CASE ~(now > from)
  <2>1. now = from /\ a.at = from
    BY <1>1, <1>10
  <2>2. x = 0 /\ now - from = 0
    BY <1>1, <2>1 DEF x
  <2> QED BY <1>1, <1>6, <1>7, <2>2 DEF x, k
<1> QED BY <1>9, <1>10

-----------------------------------------------------------------------------
(* Theorems                                                                *)

\* Type correctness of the readings, the events and the deliveries: whatever
\* arrives in whatever order, an event rests on readings that did arrive, and a
\* delivery on a confirmed event, with a date that is past.
THEOREM RepTypeCorrect == RepSpec => []RepTypeOK
<1>1. RepInv => RepTypeOK
  BY DEF RepInv
<1> QED BY <1>1, RepInvariant, PTL

\* detectAndRecord, run after every upload and on a timer, does not record an
\* observation twice unless the first record has left the lookback.
THEOREM DetectedOnce == RepSpec => []OneEventPerObservation
<1>1. RepInv => OneEventPerObservation
  BY DEF RepInv, DetInv
<1> QED BY <1>1, RepInvariant, PTL

\* Late and batched readings do not make two unexplained decreases of one fall.
THEOREM FallsCountedOnce == RepSpec => []DecreasesDisjoint
<1>1. RepInv => DecreasesDisjoint
  BY DEF RepInv, DetInv
<1> QED BY <1>1, RepInvariant, PTL

\* evaluateTankAlerts reports stale data of the tanks that are silent, and of
\* those others of which all the readings that the rules see are invalid.
THEOREM StaleIsSilent == RepSpec => []SilenceIsReported
<1> QED BY SilentIsStale, RepInvariant, PTL

\* The dashboard and the alert rules agree on which tank is well but for water, a
\* suspect reading and devices, although each has rules of its own and a query of
\* its own: the memory adapter gives both the same last reading.
THEOREM DashboardAgreesInMemory ==
  ASSUME ~Database PROVE RepSpec => []HealthyIsUnalarmed
<1> QED BY HealthyIsQuiet, RepInvariant, PTL

\* Stock movement, reconciliation, deliveries and inventory agree on a window,
\* in the memory adapter, where readings of one instant are in one order.
THEOREM ReportsAgreeInMemory ==
  ASSUME ~Database PROVE RepSpec => []ReportsAgree
<1> QED BY ReportsAreOne, RepInvariant, PTL

\* Residuals of adjacent windows add up, where a list that is bounded on one
\* side only keeps that bound: in the memory adapter.
THEOREM ResidualsAddInMemory ==
  ASSUME ~Database PROVE RepSpec => []ResidualsAddUp
<1>1. RepInv => ResidualsAddUp
  BY ResidualsAdd
<1> QED BY <1>1, RepInvariant, PTL

\* There, the opening of a report is a reading at or before its start.
THEOREM OpensBeforeInMemory ==
  ASSUME ~Database PROVE RepSpec => []OpeningIsBefore
<1>1. RepInv => OpeningIsBefore
  BY OpeningBefore DEF OpeningIsBefore
<1> QED BY <1>1, RepInvariant, PTL

\* Each reading of a window is in the bucket of the trend in whose span it lies,
\* for any number of buckets, or as many readings as a list has are older.
THEOREM TrendKeepsAll == RepSpec => []TrendKeepsReadings
<1> QED BY TrendIsWhole, RepInvariant, PTL

\* What a window had delivered does not change any more once it is over and the
\* confirmations that began in it have ended, in any step of the system.
THEOREM DeliveredStaysSettled == RepSpec => DeliveredIsSettled
<1> DEFINE Stays ==
      \A to \in Instants : \A from \in 0..to :
        Settled(from, to) => Settled(from, to)' /\ Delivered(from, to)' = Delivered(from, to)
<1>1. RepInv /\ [RepNext]_repVars => [Stays]_repVars
  BY SettledStep
<1>2. DeliveredIsSettled <=> [][Stays]_repVars
  BY DEF DeliveredIsSettled
<1> HIDE DEF Stays
<1> QED BY <1>1, <1>2, RepInvariant, PTL DEF RepSpec
===============================================================================
