-------------------------- MODULE FiniteInduction --------------------------
(***************************************************************************)
(* Induction over finite sets, stated with sets of sets in place of        *)
(* predicates, so that the provers can apply it; and sums over a finite    *)
(* set, as a function that has the sum of every subset.                    *)
(***************************************************************************)
EXTENDS Naturals, FiniteSetTheorems, WellFoundedInduction, TLAPS

\* Among some subsets of a finite set there is one with no smaller one.
LEMMA MinimalSubset ==
  ASSUME NEW S, IsFiniteSet(S), NEW T \in SUBSET SUBSET S, T # {}
  PROVE  \E A \in T : \A B \in T : B \subseteq A => B = A
<1>1. IsWellFoundedOn(StrictSubsetOrdering(S), FiniteSubsetsOf(S))
  BY FS_StrictSubsetOrderingWellFounded
<1>2. T \subseteq FiniteSubsetsOf(S)
  BY FS_Subset DEF FiniteSubsetsOf
<1>3. \E A \in T : \A B \in T : ~(<<B, A>> \in StrictSubsetOrdering(S))
  BY <1>1, <1>2, WFMin
<1> QED
  BY <1>3 DEF StrictSubsetOrdering

\* A family that has the empty set and grows by single elements has every subset.
LEMMA SubsetInduction ==
  ASSUME NEW S, IsFiniteSet(S), NEW T, {} \in T,
         \A A \in SUBSET S : \A x \in S \ A : A \in T => A \cup {x} \in T
  PROVE  \A A \in SUBSET S : A \in T
<1> DEFINE Missing == (SUBSET S) \ T
<1> SUFFICES ASSUME Missing # {} PROVE FALSE
  OBVIOUS
<1>1. Missing \in SUBSET SUBSET S
  OBVIOUS
<1>2. \E A \in Missing : \A B \in Missing : B \subseteq A => B = A
  <2> HIDE DEF Missing
  <2> QED
    BY <1>1, MinimalSubset
<1>3. PICK A \in Missing : \A B \in Missing : B \subseteq A => B = A
  BY <1>2
<1>4. PICK x \in A : x \in S
  BY <1>3
<1>5. A \ {x} \in SUBSET S /\ A \ {x} \in T
  BY <1>3, <1>4
<1>6. (A \ {x}) \cup {x} \in T
  BY <1>4, <1>5
<1>7. (A \ {x}) \cup {x} = A
  BY <1>4
<1> QED
  BY <1>3, <1>6, <1>7

-----------------------------------------------------------------------------
\* f has, of each subset of S, the sum of the weights of its members.
IsTally(f, S, w) ==
  /\ f \in [SUBSET S -> Nat]
  /\ f[{}] = 0
  /\ \A A \in SUBSET S : \A x \in S \ A : f[A \cup {x}] = f[A] + w[x]

\* f turned into g by giving c the weight n.
IsReweighed(g, f, S, c, n) ==
  \A A \in SUBSET S : g[A] = IF c \in A THEN f[A \ {c}] + n ELSE f[A]

\* Without weights every sum is zero.
LEMMA TallyOfNothing ==
  ASSUME NEW S, NEW w, \A x \in S : w[x] = 0
  PROVE  IsTally([A \in SUBSET S |-> 0], S, w)
BY DEF IsTally

\* A sum is that of the others and the weight taken out.
LEMMA TallyRemove ==
  ASSUME NEW S, NEW w, NEW f, IsTally(f, S, w), NEW A \in SUBSET S, NEW x \in A
  PROVE  f[A] = f[A \ {x}] + w[x]
<1>1. A \ {x} \in SUBSET S /\ x \in S \ (A \ {x}) /\ (A \ {x}) \cup {x} = A
  OBVIOUS
<1>2. f[(A \ {x}) \cup {x}] = f[A \ {x}] + w[x]
  BY <1>1 DEF IsTally
<1> QED
  BY <1>1, <1>2

\* The weight of one element changes, and with it the sums it is part of.
LEMMA TallyUpdated ==
  ASSUME NEW S, NEW w, NEW v, NEW f, NEW c \in S, IsTally(f, S, w),
         v[c] \in Nat, \A x \in S \ {c} : v[x] = w[x] /\ w[x] \in Nat
  PROVE  \E g : IsTally(g, S, v) /\ IsReweighed(g, f, S, c, v[c])
<1> DEFINE g == [A \in SUBSET S |-> IF c \in A THEN f[A \ {c}] + v[c] ELSE f[A]]
<1> USE DEF IsTally
<1>1. g \in [SUBSET S -> Nat]
  <2>1. \A A \in SUBSET S : f[A \ {c}] + v[c] \in Nat /\ f[A] \in Nat
    <3> SUFFICES ASSUME NEW A \in SUBSET S PROVE f[A \ {c}] + v[c] \in Nat /\ f[A] \in Nat
      OBVIOUS
    <3>1. A \ {c} \in SUBSET S
      OBVIOUS
    <3> QED
      BY <3>1
  <2> QED
    BY <2>1
<1>2. g[{}] = 0
  OBVIOUS
<1>3. ASSUME NEW A \in SUBSET S, NEW x \in S \ A PROVE g[A \cup {x}] = g[A] + v[x]
  <2>1. A \cup {x} \in SUBSET S /\ A \ {c} \in SUBSET S
    OBVIOUS
  <2>2. CASE x = c
    <3>1. (A \cup {c}) \ {c} = A /\ c \notin A
      BY <2>2
    <3> QED
      BY <2>1, <2>2, <3>1
  <2>3. CASE x # c /\ c \in A
    <3>1. (A \cup {x}) \ {c} = (A \ {c}) \cup {x} /\ x \in S \ (A \ {c})
      BY <2>3
    <3>2. f[(A \ {c}) \cup {x}] = f[A \ {c}] + w[x]
      BY <2>1, <3>1
    <3>3. f[A \ {c}] \in Nat /\ f[(A \ {c}) \cup {x}] \in Nat /\ w[x] = v[x] /\ w[x] \in Nat
      BY <2>1, <2>3, <3>1
    <3>4. g[A \cup {x}] = f[(A \ {c}) \cup {x}] + v[c] /\ g[A] = f[A \ {c}] + v[c]
      BY <2>1, <2>3, <3>1
    <3> HIDE DEF g
    <3> QED
      BY <3>2, <3>3, <3>4
  <2>4. CASE x # c /\ c \notin A
    BY <2>1, <2>4
  <2> QED
    BY <2>2, <2>3, <2>4
<1>4. IsReweighed(g, f, S, c, v[c])
  BY DEF IsReweighed
<1> HIDE DEF g
<1> QED
  BY <1>1, <1>2, <1>3, <1>4

\* Weights of at most m sum up to at most m for each member.
LEMMA TallyBound ==
  ASSUME NEW S, IsFiniteSet(S), NEW w, NEW f, IsTally(f, S, w), NEW m \in Nat,
         \A x \in S : w[x] \in 0..m
  PROVE  \A A \in SUBSET S : f[A] <= m * Cardinality(A)
<1> DEFINE T == {A \in SUBSET S : f[A] <= m * Cardinality(A)}
<1>1. {} \in T
  BY FS_EmptySet DEF IsTally
<1>2. ASSUME NEW A \in SUBSET S, NEW x \in S \ A, A \in T PROVE A \cup {x} \in T
  <2>1. IsFiniteSet(A) /\ Cardinality(A) \in Nat /\ Cardinality(A \cup {x}) = Cardinality(A) + 1
    BY FS_Subset, FS_AddElement, FS_CardinalityType
  <2>2. f[A \cup {x}] = f[A] + w[x] /\ f[A] \in Nat
    BY DEF IsTally
  <2>3. f[A] <= m * Cardinality(A) /\ w[x] <= m /\ w[x] \in Nat
    BY <1>2
  <2>4. m * (Cardinality(A) + 1) = m * Cardinality(A) + m
    BY <2>1
  <2>5. m * Cardinality(A) \in Nat
    BY <2>1
  <2>6. f[A] + w[x] <= m * Cardinality(A) + m
    BY <2>2, <2>3, <2>5
  <2> QED
    BY <2>1, <2>2, <2>4, <2>6
<1>3. \A A \in SUBSET S : A \in T
  <2> HIDE DEF T
  <2> QED
    BY <1>1, <1>2, SubsetInduction
<1> QED
  BY <1>3
=============================================================================
