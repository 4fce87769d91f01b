--------------------------- MODULE Induction_proofs ---------------------------
(***************************************************************************)
(* Induction, stated with sets instead of predicates so that the lemmas    *)
(* can be cited, and what it says of the two recursions the other proofs   *)
(* meet: a function on numbers that is defined by what it is one number    *)
(* before, and the sum over a finite set (MapThenSumSet).                  *)
(***************************************************************************)
EXTENDS Naturals, FiniteSets, FiniteSetsExt, FiniteSetTheorems, WellFoundedInduction, TLAPS

-----------------------------------------------------------------------------
(* Induction over numbers and over finite sets.                            *)

\* A set that holds 0 and the successors of what it holds is all of Nat.
LEMMA NatInduct ==
    ASSUME NEW T \in SUBSET Nat, 0 \in T, \A n \in T : n + 1 \in T
    PROVE  T = Nat
<1> DEFINE R == OpToRel(<, Nat)
<1>1. SUFFICES ASSUME Nat \ T # {} PROVE FALSE
  OBVIOUS
<1>2. IsWellFoundedOn(R, Nat) /\ Nat \ T \subseteq Nat
  BY NatLessThanWellFounded
<1>3. \E n \in Nat \ T : \A m \in Nat \ T : <<m, n>> \notin R
  <2> HIDE DEF R
  <2> QED BY ONLY <1>1, <1>2, WFMin
<1>4. PICK n \in Nat \ T : \A m \in Nat \ T : ~(m < n)
  BY <1>3 DEF OpToRel
<1>5. n # 0 /\ n \in Nat
  BY <1>4
<1>6. n - 1 \in Nat /\ n = (n - 1) + 1 /\ n - 1 < n
  BY <1>5
<1> QED BY <1>4, <1>6

\* A family that holds {} and, with a set, the set and one element more holds all.
LEMMA SetInduct ==
    ASSUME NEW S, IsFiniteSet(S), NEW T \in SUBSET SUBSET S,
           {} \in T, \A A \in T : \A x \in S \ A : A \cup {x} \in T
    PROVE  T = SUBSET S
<1> DEFINE Sizes == {n \in Nat : \A A \in SUBSET S : Cardinality(A) = n => A \in T}
<1>1. \A A \in SUBSET S : IsFiniteSet(A) /\ Cardinality(A) \in Nat
  BY FS_Subset, FS_CardinalityType
<1>2. 0 \in Sizes
  BY <1>1, FS_EmptySet
<1>3. ASSUME NEW n \in Sizes PROVE n + 1 \in Sizes
  <2> SUFFICES ASSUME NEW A \in SUBSET S, Cardinality(A) = n + 1 PROVE A \in T
    OBVIOUS
  <2>1. A # {}
    <3>1. Cardinality({}) = 0 /\ n + 1 # 0
      BY FS_EmptySet
    <3> QED BY <3>1
  <2>2. PICK x \in A : TRUE
    BY <2>1
  <2>3. Cardinality(A \ {x}) = n
    BY <1>1, FS_RemoveElement
  <2>4. A \ {x} \in T
    BY <2>3
  <2>5. A = (A \ {x}) \cup {x} /\ x \in S \ (A \ {x})
    OBVIOUS
  <2> QED BY <2>4, <2>5
<1>4. Sizes = Nat
  <2> HIDE DEF Sizes
  <2>1. Sizes \in SUBSET Nat
    BY DEF Sizes
  <2> QED BY <1>2, <1>3, <2>1, NatInduct
<1> QED BY <1>1, <1>4

-----------------------------------------------------------------------------
(* Recursion over numbers.                                                 *)

\* f begins with a, and G says how it goes on.
Iterates(f, a, G, n) == f[0] = a /\ \A k \in 1..n : f[k] = G[k][f[k - 1]]

\* There is such an f for every beginning and every way to go on within a set.
LEMMA Iteration ==
    ASSUME NEW S, NEW a \in S, NEW G \in [Nat -> [S -> S]], NEW n \in Nat
    PROVE  \E f \in [0..n -> S] : Iterates(f, a, G, n)
<1> DEFINE T == {m \in Nat : \E f \in [0..m -> S] : Iterates(f, a, G, m)}
<1>1. 0 \in T
  <2>1. [k \in 0..0 |-> a] \in [0..0 -> S] /\ Iterates([k \in 0..0 |-> a], a, G, 0)
    BY DEF Iterates
  <2> QED BY <2>1
<1>2. ASSUME NEW m \in T PROVE m + 1 \in T
  <2>1. PICK f \in [0..m -> S] : Iterates(f, a, G, m)
    OBVIOUS
  <2>2. m \in Nat /\ m + 1 \in Nat
    OBVIOUS
  <2> DEFINE g == [k \in 0..m + 1 |-> IF k = m + 1 THEN G[m + 1][f[m]] ELSE f[k]]
  <2>3. f[m] \in S /\ G[m + 1] \in [S -> S]
    BY <2>2
  <2>4. g \in [0..m + 1 -> S]
    BY <2>2, <2>3
  <2>5. Iterates(g, a, G, m + 1)
    <3>1. g[0] = a
      BY <2>1, <2>2 DEF Iterates
    <3>2. ASSUME NEW k \in 1..m + 1 PROVE g[k] = G[k][g[k - 1]]
      <4>1. CASE k = m + 1
        BY <2>2, <4>1
      <4>2. CASE k # m + 1
        BY <2>1, <2>2, <4>2 DEF Iterates
      <4> QED BY <4>1, <4>2
    <3> HIDE DEF g
    <3> QED BY <3>1, <3>2 DEF Iterates
  <2> HIDE DEF g
  <2>6. \E h \in [0..m + 1 -> S] : Iterates(h, a, G, m + 1)
    BY <2>4, <2>5
  <2> QED BY <2>2, <2>6
<1>3. T = Nat
  <2> HIDE DEF T
  <2>1. T \in SUBSET Nat
    BY DEF T
  <2> QED BY <1>1, <1>2, <2>1, NatInduct
<1> QED BY <1>3

-----------------------------------------------------------------------------
(* Sums over finite sets.                                                  *)

SumOf(w, S) == MapThenSumSet(LAMBDA x : w[x], S)

Some(A) == CHOOSE x \in A : TRUE

\* f is the recursion behind SumOf on the sets of a family.
Sums(w, f, family) ==
    \A A \in family : f[A] = IF A = {} THEN 0 ELSE w[Some(A)] + f[A \ {Some(A)}]

\* The library's definition, unfolded.
LEMMA SumOfUnfolds ==
    ASSUME NEW w, NEW S
    PROVE  SumOf(w, S) =
             (CHOOSE f : f = [A \in SUBSET S |->
                                  IF A = {} THEN 0 ELSE w[Some(A)] + f[A \ {Some(A)}]])[S]
  BY Zenon DEF SumOf, MapThenSumSet, MapThenFoldSet, Some

LEMMA SomeIsIn == \A A : A # {} => Some(A) \in A
  BY DEF Some

\* The recursion has a solution.
LEMMA SumsExist ==
    ASSUME NEW S, IsFiniteSet(S), NEW w \in [S -> Nat]
    PROVE  \E f \in [SUBSET S -> Nat] : Sums(w, f, SUBSET S)
<1> DEFINE Small(n) == {A \in SUBSET S : Cardinality(A) <= n}
           Sizes == {n \in Nat : \E f \in [Small(n) -> Nat] : Sums(w, f, Small(n))}
<1>1. \A A \in SUBSET S : /\ IsFiniteSet(A) /\ Cardinality(A) \in Nat
                          /\ Cardinality(A) <= Cardinality(S)
                          /\ Cardinality(A) = 0 <=> A = {}
  BY FS_Subset, FS_CardinalityType, FS_EmptySet
<1>2. \A A \in SUBSET S : A # {} =>
          /\ Some(A) \in S /\ A \ {Some(A)} \in SUBSET S
          /\ Cardinality(A \ {Some(A)}) = Cardinality(A) - 1
  BY <1>1, SomeIsIn, FS_RemoveElement
<1>3. 0 \in Sizes
  <2>1. \A A \in Small(0) : A = {}
    BY <1>1
  <2>2. [A \in Small(0) |-> 0] \in [Small(0) -> Nat]
    OBVIOUS
  <2>3. Sums(w, [A \in Small(0) |-> 0], Small(0))
    BY <2>1 DEF Sums
  <2> QED BY <2>2, <2>3
<1>4. ASSUME NEW n \in Sizes PROVE n + 1 \in Sizes
  <2>1. PICK f \in [Small(n) -> Nat] : Sums(w, f, Small(n))
    OBVIOUS
  <2> DEFINE g == [A \in Small(n + 1) |-> IF A = {} THEN 0 ELSE w[Some(A)] + f[A \ {Some(A)}]]
  <2>2. \A A \in Small(n + 1) : A # {} => Some(A) \in S /\ A \ {Some(A)} \in Small(n)
    BY <1>1, <1>2
  <2>3. g \in [Small(n + 1) -> Nat]
    BY <2>2
  <2>4. \A A \in Small(n) : A \in Small(n + 1) /\ g[A] = f[A]
    BY <1>1, <2>1 DEF Sums
  <2>5. Sums(w, g, Small(n + 1))
    <3> SUFFICES ASSUME NEW A \in Small(n + 1)
                 PROVE  g[A] = IF A = {} THEN 0 ELSE w[Some(A)] + g[A \ {Some(A)}]
      BY DEF Sums
    <3> QED BY <2>2, <2>4
  <2> HIDE DEF g
  <2>6. \E h \in [Small(n + 1) -> Nat] : Sums(w, h, Small(n + 1))
    BY <2>3, <2>5
  <2>7. n + 1 \in Nat
    OBVIOUS
  <2> HIDE DEF Small
  <2> QED BY ONLY <2>6, <2>7
<1>5. Sizes = Nat
  <2> HIDE DEF Sizes
  <2>1. Sizes \in SUBSET Nat
    BY DEF Sizes
  <2> QED BY <1>3, <1>4, <2>1, NatInduct
<1>6. Small(Cardinality(S)) = SUBSET S /\ Cardinality(S) \in Nat
  BY <1>1
<1>7. Cardinality(S) \in Sizes
  BY <1>5, <1>6
<1> QED BY <1>6, <1>7

\* Two solutions agree where both are defined, if the weights do.
LEMMA SumsAgree ==
    ASSUME NEW S, IsFiniteSet(S), NEW v, NEW w, \A x \in S : v[x] = w[x],
           NEW f, Sums(v, f, SUBSET S), NEW g, Sums(w, g, SUBSET S)
    PROVE  f[S] = g[S]
<1> DEFINE Sizes == {n \in Nat : \A A \in SUBSET S : Cardinality(A) = n => f[A] = g[A]}
<1>1. \A A \in SUBSET S : IsFiniteSet(A) /\ Cardinality(A) \in Nat /\ (Cardinality(A) = 0 <=> A = {})
  BY FS_Subset, FS_CardinalityType, FS_EmptySet
<1>2. 0 \in Sizes
  BY <1>1 DEF Sums
<1>3. ASSUME NEW n \in Sizes PROVE n + 1 \in Sizes
  <2> SUFFICES ASSUME NEW A \in SUBSET S, Cardinality(A) = n + 1 PROVE f[A] = g[A]
    OBVIOUS
  <2>1. A # {} /\ Some(A) \in A
    BY <1>1, SomeIsIn
  <2>2. A \ {Some(A)} \in SUBSET S /\ Cardinality(A \ {Some(A)}) = n
    <3>1. IsFiniteSet(A) /\ n \in Nat
      BY <1>1
    <3>2. Cardinality(A \ {Some(A)}) = Cardinality(A) - 1
      BY <2>1, <3>1, FS_RemoveElement
    <3> QED BY <3>1, <3>2
  <2>3. f[A \ {Some(A)}] = g[A \ {Some(A)}] /\ v[Some(A)] = w[Some(A)]
    BY <2>1, <2>2
  <2> QED BY <2>1, <2>3 DEF Sums
<1>4. Sizes = Nat
  <2> HIDE DEF Sizes
  <2>1. Sizes \in SUBSET Nat
    BY DEF Sizes
  <2> QED BY <1>2, <1>3, <2>1, NatInduct
<1> QED BY <1>1, <1>4

\* Any element can be the one that is added first.
Commutes(w, f, family) == \A A \in family : \A x \in A : f[A] = w[x] + f[A \ {x}]

\* The order in which the elements are taken does not matter.
LEMMA SumsCommute ==
    ASSUME NEW S, IsFiniteSet(S), NEW w, \A x \in S : w[x] \in Nat,
           NEW f, \A A \in SUBSET S : f[A] \in Nat, Sums(w, f, SUBSET S)
    PROVE  Commutes(w, f, SUBSET S)
<1> DEFINE Sizes == {n \in Nat : \A A \in SUBSET S : Cardinality(A) = n =>
                                    \A x \in A : f[A] = w[x] + f[A \ {x}]}
<1>1. \A A \in SUBSET S : IsFiniteSet(A) /\ Cardinality(A) \in Nat /\ (Cardinality(A) = 0 <=> A = {})
  BY FS_Subset, FS_CardinalityType, FS_EmptySet
<1>2. 0 \in Sizes
  BY <1>1
<1>3. ASSUME NEW n \in Sizes PROVE n + 1 \in Sizes
  <2> SUFFICES ASSUME NEW A \in SUBSET S, Cardinality(A) = n + 1, NEW x \in A
               PROVE  f[A] = w[x] + f[A \ {x}]
    OBVIOUS
  <2> DEFINE c == Some(A)
  <2>1. c \in A /\ f[A] = w[c] + f[A \ {c}]
    BY SomeIsIn DEF Sums
  <2>2. CASE c = x
    BY <2>1, <2>2
  <2>3. CASE c # x
    <3> HIDE DEF c
    <3>1. /\ A \ {c} \in SUBSET S /\ Cardinality(A \ {c}) = n /\ x \in A \ {c}
          /\ A \ {x} \in SUBSET S /\ Cardinality(A \ {x}) = n /\ c \in A \ {x}
      <4>1. IsFiniteSet(A) /\ n \in Nat
        BY <1>1
      <4>2. Cardinality(A \ {c}) = n /\ Cardinality(A \ {x}) = n
        <5>1. \A z \in A : Cardinality(A \ {z}) = Cardinality(A) - 1
          BY ONLY <4>1, FS_RemoveElement
        <5>2. Cardinality(A) - 1 = n
          BY <4>1
        <5> QED BY ONLY <2>1, <5>1, <5>2, x \in A
      <4> QED BY <2>1, <2>3, <4>2
    <3>2. /\ f[A \ {c}] = w[x] + f[(A \ {c}) \ {x}]
          /\ f[A \ {x}] = w[c] + f[(A \ {x}) \ {c}]
      BY <3>1
    <3>3. (A \ {c}) \ {x} = (A \ {x}) \ {c} /\ (A \ {x}) \ {c} \in SUBSET S
      OBVIOUS
    <3>4. w[x] \in Nat /\ w[c] \in Nat /\ f[(A \ {x}) \ {c}] \in Nat
      BY <2>1, <3>3
    <3>5. f[A] = w[c] + (w[x] + f[(A \ {x}) \ {c}])
      BY <2>1, <3>2, <3>3
    <3>6. w[x] + f[A \ {x}] = w[x] + (w[c] + f[(A \ {x}) \ {c}])
      BY <3>2
    <3> HIDE DEF Sizes
    <3> QED BY <3>4, <3>5, <3>6
  <2> QED BY <2>2, <2>3
<1>4. Sizes = Nat
  <2> HIDE DEF Sizes
  <2>1. Sizes \in SUBSET Nat
    BY DEF Sizes
  <2> QED BY <1>2, <1>3, <2>1, NatInduct
<1> QED BY <1>1, <1>4 DEF Commutes

\* What a sum is, in terms of any solution on a set around it.
LEMMA SumOfIsSum ==
    ASSUME NEW S, IsFiniteSet(S), NEW w, \A x \in S : w[x] \in Nat,
           NEW f, Sums(w, f, SUBSET S)
    PROVE  SumOf(w, S) = f[S]
<1> DEFINE v == [x \in S |-> w[x]]
           Eq(g) == g = [A \in SUBSET S |-> IF A = {} THEN 0 ELSE w[Some(A)] + g[A \ {Some(A)}]]
<1>1. PICK h \in [SUBSET S -> Nat] : Sums(v, h, SUBSET S)
  <2>1. v \in [S -> Nat]
    OBVIOUS
  <2> HIDE DEF v
  <2> QED BY <2>1, SumsExist
<1>2. Eq(h)
  <2>1. \A A \in SUBSET S : A # {} => v[Some(A)] = w[Some(A)]
    BY SomeIsIn
  <2>2. \A A \in SUBSET S : h[A] = IF A = {} THEN 0 ELSE w[Some(A)] + h[A \ {Some(A)}]
    BY <1>1, <2>1 DEF Sums
  <2> QED BY <2>2
<1>3. Eq(CHOOSE g : Eq(g))
  <2> HIDE DEF Eq
  <2> QED BY <1>2
<1>4. Sums(w, CHOOSE g : Eq(g), SUBSET S)
  <2> SUFFICES ASSUME NEW g, Eq(g) PROVE Sums(w, g, SUBSET S)
    <3> HIDE DEF Eq
    <3> QED BY <1>3
  <2> QED BY DEF Sums
<1>5. SumOf(w, S) = (CHOOSE g : Eq(g))[S]
  BY SumOfUnfolds
<1> HIDE DEF Eq
<1> QED BY <1>4, <1>5, SumsAgree

\* A sum depends on the weights of its elements only.
LEMMA SumOfSame ==
    ASSUME NEW S, IsFiniteSet(S), NEW v, NEW w,
           \A x \in S : w[x] \in Nat /\ v[x] = w[x]
    PROVE  SumOf(v, S) = SumOf(w, S)
<1>1. PICK f \in [SUBSET S -> Nat] : Sums([x \in S |-> w[x]], f, SUBSET S)
  BY SumsExist
<1>2. Sums(v, f, SUBSET S) /\ Sums(w, f, SUBSET S)
  BY <1>1, SomeIsIn DEF Sums
<1> QED BY <1>2, SumOfIsSum

\* The sum over nothing.
LEMMA SumOfEmpty == ASSUME NEW w PROVE SumOf(w, {}) = 0
<1>1. PICK f \in [SUBSET {} -> Nat] : Sums([x \in {} |-> w[x]], f, SUBSET {})
  BY SumsExist, FS_EmptySet
<1>2. Sums(w, f, SUBSET {}) /\ f[{}] = 0
  BY <1>1 DEF Sums
<1> QED BY <1>2, SumOfIsSum, FS_EmptySet

\* One element more adds its weight.
LEMMA SumOfAdd ==
    ASSUME NEW S, IsFiniteSet(S), NEW x, x \notin S,
           NEW w, \A y \in S \cup {x} : w[y] \in Nat
    PROVE  SumOf(w, S) \in Nat /\ SumOf(w, S \cup {x}) = SumOf(w, S) + w[x]
<1> DEFINE U == S \cup {x}
           v == [y \in U |-> w[y]]
<1>1. IsFiniteSet(U) /\ v \in [U -> Nat]
  BY FS_AddElement
<1>2. PICK f \in [SUBSET U -> Nat] : Sums(v, f, SUBSET U)
  <2> HIDE DEF U, v
  <2> QED BY <1>1, SumsExist
<1>3. f[U] = v[x] + f[U \ {x}]
  <2>1. U \in SUBSET U /\ x \in U
    OBVIOUS
  <2>2. Commutes(v, f, SUBSET U)
    <3>1. /\ IsFiniteSet(U) /\ \A y \in U : v[y] \in Nat
          /\ \A A \in SUBSET U : f[A] \in Nat
          /\ Sums(v, f, SUBSET U)
      BY <1>1, <1>2
    <3> HIDE DEF U, v
    <3> QED BY ONLY <3>1, SumsCommute
  <2> QED BY <2>1, <2>2 DEF Commutes
<1>4. Sums(w, f, SUBSET U) /\ Sums(w, f, SUBSET S)
  BY <1>2, SomeIsIn DEF Sums
<1>5. SumOf(w, U) = f[U]
  <2>1. \A y \in U : w[y] \in Nat
    OBVIOUS
  <2> HIDE DEF U, v
  <2> QED BY <1>1, <1>4, <2>1, SumOfIsSum
<1>6. SumOf(w, S) = f[S]
  BY <1>4, SumOfIsSum
<1>7. U \ {x} = S /\ v[x] = w[x] /\ f[S] \in Nat /\ w[x] \in Nat
  OBVIOUS
<1>8. SumOf(w, U) = SumOf(w, S) + w[x]
  <2>1. f[U \ {x}] = SumOf(w, S)
    BY <1>6, <1>7
  <2>2. f[U] = w[x] + SumOf(w, S)
    <3> HIDE DEF U, v
    <3> QED BY <1>3, <1>7, <2>1
  <2> HIDE DEF U, v
  <2> QED BY <1>5, <1>6, <1>7, <2>2
<1> QED BY <1>6, <1>7, <1>8
=============================================================================
