----------------------------- MODULE SumProofs -----------------------------
(***************************************************************************)
(* Facts about numbers, finite sets and sums over them that the proofs of  *)
(* several components need: induction over sets as least counterexamples,  *)
(* and what a sum of amounts is when a row is added or changed.             *)
(***************************************************************************)
EXTENDS Integers, FiniteSets, Functions, FiniteSetTheorems, WellFoundedInduction, TLAPS

-----------------------------------------------------------------------------
(* Numbers and finite sets. *)

\* A set of natural numbers that is not empty has a least one.
LEMMA LeastNumber ==
    ASSUME NEW S, S \subseteq Nat, S # {}
    PROVE  \E i \in S : \A j \in S : i <= j
<1> DEFINE R == OpToRel(<, Nat)
<1>1. IsWellFoundedOn(R, Nat)
  BY NatLessThanWellFounded
<1>2. \A x, y \in Nat : x < y => <<x, y>> \in R
  BY DEF OpToRel
<1> HIDE DEF R
<1>3. PICK i \in S : \A j \in S : ~(<<j, i>> \in R)
  BY <1>1, WFMin
<1>4. ASSUME NEW j \in S PROVE i <= j
  <2>1. i \in Nat /\ j \in Nat /\ ~(j < i)
    BY <1>2, <1>3
  <2> QED
    BY <2>1
<1> QED
  BY <1>4

\* What holds of 0, and of n + 1 whenever it holds of n, holds of every number.
LEMMA CountingUp ==
    ASSUME NEW S, 0 \in S, \A n \in Nat : n \in S => n + 1 \in S
    PROVE  \A n \in Nat : n \in S
<1> DEFINE Bad == {n \in Nat : n \notin S}
<1>1. SUFFICES ASSUME Bad # {} PROVE FALSE
  OBVIOUS
<1>2. Bad \subseteq Nat
  OBVIOUS
<1>3. PICK m \in Bad : \A k \in Bad : m <= k
  <2> HIDE DEF Bad
  <2> QED
    BY <1>1, <1>2, LeastNumber
<1>4. m \in Nat /\ m \notin S
  OBVIOUS
<1>5. PICK l \in Nat : m = l + 1
  BY <1>4
<1>6. l \notin Bad
  <2> HIDE DEF Bad
  <2> QED
    BY <1>3, <1>5
<1> QED
  BY <1>4, <1>5, <1>6

\* The element of a set that a fold takes first.
One(S) == CHOOSE x \in S : TRUE

\* A set without its chosen element is smaller by one.
LEMMA OneLess ==
    ASSUME NEW D, IsFiniteSet(D), NEW S \in SUBSET D, S # {}
    PROVE  /\ One(S) \in S /\ One(S) \in D /\ S \ {One(S)} \in SUBSET D
           /\ Cardinality(S) \in Nat /\ Cardinality(S \ {One(S)}) = Cardinality(S) - 1
           /\ Cardinality(S \ {One(S)}) \in Nat
<1>1. PICK x : x = One(S) /\ x \in S
  BY DEF One
<1>2. IsFiniteSet(S)
  BY FS_Subset
<1>3. Cardinality(S) \in Nat /\ Cardinality(S \ {x}) = Cardinality(S) - 1 /\ IsFiniteSet(S \ {x})
  BY <1>1, <1>2, FS_RemoveElement, FS_CardinalityType
<1>4. Cardinality(S \ {x}) \in Nat
  BY <1>3, FS_CardinalityType
<1> QED
  BY <1>1, <1>3, <1>4

\* What holds of {}, and of a set whenever it holds of the set without its chosen
\* element, holds of every finite set.
LEMMA OneByOne ==
    ASSUME NEW D, IsFiniteSet(D), NEW P, {} \in P,
           \A S \in SUBSET D : S # {} /\ S \ {One(S)} \in P => S \in P
    PROVE  \A S \in SUBSET D : S \in P
<1> DEFINE N == {n \in Nat : \A S \in SUBSET D : Cardinality(S) = n => S \in P}
<1>1. 0 \in N
  <2>1. ASSUME NEW S \in SUBSET D, Cardinality(S) = 0 PROVE S \in P
    <3>1. IsFiniteSet(S)
      BY FS_Subset
    <3>2. S = {}
      BY <2>1, <3>1, FS_EmptySet
    <3> QED
      BY <3>2
  <2> QED
    BY <2>1
<1>2. ASSUME NEW n \in Nat, n \in N PROVE n + 1 \in N
  <2>1. ASSUME NEW S \in SUBSET D, Cardinality(S) = n + 1 PROVE S \in P
    <3>1. S # {}
      <4>1. Cardinality({}) = 0 /\ n + 1 # 0
        BY FS_EmptySet
      <4> QED
        BY <2>1, <4>1
    <3>2. S \ {One(S)} \in SUBSET D /\ Cardinality(S \ {One(S)}) = n
      BY <2>1, <3>1, OneLess
    <3> QED
      BY <1>2, <3>1, <3>2
  <2> QED
    BY <2>1
<1>3. \A n \in Nat : n \in N
  <2> HIDE DEF N
  <2> QED
    BY <1>1, <1>2, CountingUp
<1>4. ASSUME NEW S \in SUBSET D PROVE S \in P
  <2>1. IsFiniteSet(S)
    BY FS_Subset
  <2>2. Cardinality(S) \in Nat
    BY <2>1, FS_CardinalityType
  <2> QED
    BY <1>3, <2>2
<1> QED
  BY <1>4

-----------------------------------------------------------------------------
(* Sums over finite sets. *)

\* The sums of f over every subset of D, as a fold takes them.
TallyOf(f, D, g) == g = [S \in SUBSET D |-> IF S = {} THEN 0 ELSE f[One(S)] + g[S \ {One(S)}]]

\* The sum is the tally of the whole set.
LEMMA SumIsTallied == ASSUME NEW f, NEW D PROVE SumFunctionOnSet(f, D) = (CHOOSE g : TallyOf(f, D, g))[D]
BY Zenon DEF SumFunctionOnSet, FoldFunctionOnSet, MapThenFoldSet, TallyOf, One

\* The tally of the sets of no more than n rows.
Few(D, n) == {S \in SUBSET D : Cardinality(S) <= n}
TallyUpTo(f, D, n, g) ==
    g = [S \in Few(D, n) |-> IF S = {} THEN 0 ELSE f[One(S)] + g[S \ {One(S)}]]

\* A tally of the small sets goes on to sets of one row more.
LEMMA TallyGoesOn ==
    ASSUME NEW f, NEW D, IsFiniteSet(D), NEW n \in Nat, NEW g, TallyUpTo(f, D, n, g)
    PROVE  \E h : TallyUpTo(f, D, n + 1, h)
<1> DEFINE h == [S \in Few(D, n + 1) |->
                    IF S = {} THEN 0 ELSE f[One(S)] + g[S \ {One(S)}]]
<1>1. ASSUME NEW S \in Few(D, n) PROVE g[S] = IF S = {} THEN 0 ELSE f[One(S)] + g[S \ {One(S)}]
  BY DEF TallyUpTo
<1>2. ASSUME NEW S \in Few(D, n) PROVE S \in Few(D, n + 1) /\ h[S] = g[S]
  <2>1. IsFiniteSet(S)
    BY FS_Subset DEF Few
  <2>2. Cardinality(S) \in Nat /\ Cardinality(S) <= n
    BY <2>1, FS_CardinalityType DEF Few
  <2>3. S \in Few(D, n + 1)
    BY <2>2 DEF Few
  <2>4. h[S] = IF S = {} THEN 0 ELSE f[One(S)] + g[S \ {One(S)}]
    BY <2>3
  <2> QED
    BY <1>1, <2>3, <2>4
<1>3. ASSUME NEW S \in Few(D, n + 1), S # {} PROVE S \ {One(S)} \in Few(D, n)
  <2>1. S \in SUBSET D /\ Cardinality(S) <= n + 1
    BY DEF Few
  <2>2. /\ S \ {One(S)} \in SUBSET D /\ Cardinality(S) \in Nat
        /\ Cardinality(S \ {One(S)}) = Cardinality(S) - 1
    BY <1>3, <2>1, OneLess
  <2> QED
    BY <2>1, <2>2 DEF Few
<1>4. ASSUME NEW S \in Few(D, n + 1)
      PROVE  h[S] = IF S = {} THEN 0 ELSE f[One(S)] + h[S \ {One(S)}]
  <2>1. CASE S = {}
    BY <2>1
  <2>2. CASE S # {}
    <3>1. h[S] = f[One(S)] + g[S \ {One(S)}]
      BY <2>2
    <3>2. h[S \ {One(S)}] = g[S \ {One(S)}]
      BY <1>2, <1>3, <2>2
    <3> QED
      BY <2>2, <3>1, <3>2
  <2> QED
    BY <2>1, <2>2
<1>5. h = [S \in Few(D, n + 1) |-> h[S]]
  OBVIOUS
<1> HIDE DEF h
<1>6. TallyUpTo(f, D, n + 1, h)
  BY <1>4, <1>5 DEF TallyUpTo
<1> QED
  BY <1>6

\* Of finitely many rows there is one.
LEMMA TallyIsThere == ASSUME NEW f, NEW D, IsFiniteSet(D) PROVE \E g : TallyOf(f, D, g)
<1> DEFINE N == {n \in Nat : \E g : TallyUpTo(f, D, n, g)}
<1>1. 0 \in N
  <2> DEFINE g == [S \in Few(D, 0) |-> 0]
  <2>1. ASSUME NEW S \in Few(D, 0) PROVE S = {}
    <3>1. S \in SUBSET D /\ Cardinality(S) <= 0
      BY DEF Few
    <3>2. IsFiniteSet(S)
      BY <3>1, FS_Subset
    <3>3. Cardinality(S) \in Nat
      BY <3>2, FS_CardinalityType
    <3>4. Cardinality(S) = 0
      BY <3>1, <3>3
    <3> QED
      BY <3>2, <3>4, FS_EmptySet
  <2>2. ASSUME NEW S \in Few(D, 0) PROVE g[S] = IF S = {} THEN 0 ELSE f[One(S)] + g[S \ {One(S)}]
    BY <2>1
  <2>3. TallyUpTo(f, D, 0, g)
    BY <2>2 DEF TallyUpTo
  <2> QED
    BY <2>3
<1>2. ASSUME NEW n \in Nat, n \in N PROVE n + 1 \in N
  BY <1>2, TallyGoesOn
<1>3. \A n \in Nat : n \in N
  <2> HIDE DEF N
  <2> QED
    BY <1>1, <1>2, CountingUp
<1>4. PICK n \in Nat : n = Cardinality(D)
  BY FS_CardinalityType
<1>5. PICK g : TallyUpTo(f, D, n, g)
  BY <1>3
<1>6. Few(D, n) = SUBSET D
  <2>1. ASSUME NEW S \in SUBSET D PROVE Cardinality(S) <= n
    BY <1>4, FS_Subset
  <2> QED
    BY <2>1 DEF Few
<1>7. TallyOf(f, D, g)
  BY <1>5, <1>6 DEF TallyUpTo, TallyOf
<1> QED
  BY <1>7

Same(f, h, T) == \A x \in T : f[x] = h[x]
Whole(f, T) == \A x \in T : f[x] \in Int
AnyFirst(f, D, u) == \A S \in SUBSET D : u[S] \in Int /\ \A z \in S : u[S] = f[z] + u[S \ {z}]

\* Two tallies agree on the sets on which their terms do.
LEMMA TalliesAgree ==
    ASSUME NEW f, NEW h, NEW D, NEW E, NEW u, NEW v, NEW T, TallyOf(f, D, u), TallyOf(h, E, v), IsFiniteSet(D),
           T \in SUBSET D, T \in SUBSET E, Same(f, h, T)
    PROVE  u[T] = v[T]
<1>1. IsFiniteSet(T)
  BY FS_Subset
<1>2. ASSUME NEW S \in SUBSET T
      PROVE  /\ u[S] = IF S = {} THEN 0 ELSE f[One(S)] + u[S \ {One(S)}]
             /\ v[S] = IF S = {} THEN 0 ELSE h[One(S)] + v[S \ {One(S)}]
  <2>1. S \in SUBSET D /\ S \in SUBSET E
    OBVIOUS
  <2> QED
    BY <2>1 DEF TallyOf
<1> DEFINE P == {S \in SUBSET T : u[S] = v[S]}
<1>p. \A S \in SUBSET T : S \in P <=> u[S] = v[S]
  OBVIOUS
<1> HIDE DEF P
<1>3. {} \in P
  <2>1. PICK none \in SUBSET T : none = {}
    OBVIOUS
  <2>2. u[none] = 0 /\ v[none] = 0
    BY <1>2, <2>1
  <2> QED
    BY <1>p, <2>1, <2>2
<1>4. ASSUME NEW S \in SUBSET T, S # {}, S \ {One(S)} \in P PROVE S \in P
  <2>1. One(S) \in T /\ S \ {One(S)} \in SUBSET T
    BY <1>1, <1>4, OneLess
  <2>2. u[S \ {One(S)}] = v[S \ {One(S)}]
    BY <1>4, <1>p, <2>1
  <2>3. f[One(S)] = h[One(S)]
    BY <2>1 DEF Same
  <2>4. u[S] = v[S]
    BY <1>2, <1>4, <2>2, <2>3
  <2> QED
    BY <1>p, <2>4
<1>5. \A S \in SUBSET T : S \in P
  BY <1>1, <1>3, <1>4, OneByOne
<1>6. T \in SUBSET T
  OBVIOUS
<1> QED
  BY <1>5, <1>6, <1>p

\* A tally of whole numbers is one, whichever element is taken first.
LEMMA TallyInAnyOrder ==
    ASSUME NEW f, NEW D, NEW u, TallyOf(f, D, u), IsFiniteSet(D), Whole(f, D)
    PROVE  AnyFirst(f, D, u)
<1>0. \A x \in D : f[x] \in Int
  BY DEF Whole
<1>1. ASSUME NEW S \in SUBSET D PROVE u[S] = IF S = {} THEN 0 ELSE f[One(S)] + u[S \ {One(S)}]
  BY DEF TallyOf
<1> DEFINE P == {S \in SUBSET D : u[S] \in Int}
<1>p. \A S \in SUBSET D : S \in P <=> u[S] \in Int
  OBVIOUS
<1> HIDE DEF P
<1>2. \A S \in SUBSET D : S \in P
  <2>1. {} \in P
    <3>1. PICK none \in SUBSET D : none = {}
      OBVIOUS
    <3>2. u[none] = 0
      BY <1>1, <3>1
    <3> QED
      BY <1>p, <3>1, <3>2
  <2>2. ASSUME NEW S \in SUBSET D, S # {}, S \ {One(S)} \in P PROVE S \in P
    <3>1. One(S) \in D /\ S \ {One(S)} \in SUBSET D
      BY <2>2, OneLess
    <3>2. u[S \ {One(S)}] \in Int /\ f[One(S)] \in Int
      BY <1>0, <1>p, <2>2, <3>1
    <3>3. PICK a \in Int : a = u[S \ {One(S)}]
      BY <3>2
    <3>4. PICK b \in Int : b = f[One(S)]
      BY <3>2
    <3>5. u[S] = b + a
      BY <1>1, <2>2, <3>3, <3>4
    <3> QED
      BY <1>p, <3>5
  <2> QED
    BY <2>1, <2>2, OneByOne
<1> DEFINE N == {n \in Nat : \A S \in SUBSET D : Cardinality(S) = n => \A z \in S : u[S] = f[z] + u[S \ {z}]}
<1>n. \A n \in Nat : n \in N <=> \A S \in SUBSET D : Cardinality(S) = n => \A z \in S : u[S] = f[z] + u[S \ {z}]
  OBVIOUS
<1> HIDE DEF N
<1>3. 0 \in N
  <2>1. ASSUME NEW S \in SUBSET D, Cardinality(S) = 0 PROVE S = {}
    <3>1. IsFiniteSet(S)
      BY FS_Subset
    <3> QED
      BY <2>1, <3>1, FS_EmptySet
  <2> QED
    BY <1>n, <2>1
<1>4. ASSUME NEW n \in Nat, n \in N PROVE n + 1 \in N
  <2>1. ASSUME NEW S \in SUBSET D, Cardinality(S) = n + 1, NEW z \in S PROVE u[S] = f[z] + u[S \ {z}]
    <3>1. PICK y : y = One(S)
      OBVIOUS
    <3>2. y \in S /\ u[S] = f[y] + u[S \ {y}]
      BY <1>1, <3>1, OneLess
    <3>3. CASE y = z
      BY <3>2, <3>3
    <3>4. CASE y # z
      <4>1. IsFiniteSet(S)
        BY FS_Subset
      <4>2. Cardinality(S \ {y}) = Cardinality(S) - 1 /\ Cardinality(S \ {z}) = Cardinality(S) - 1
        BY <3>2, <4>1, FS_RemoveElement
      <4>3. Cardinality(S \ {y}) = n /\ Cardinality(S \ {z}) = n
        BY <2>1, <4>2
      <4>4. PICK A \in SUBSET D : A = S \ {y}
        OBVIOUS
      <4>5. PICK B \in SUBSET D : B = S \ {z}
        OBVIOUS
      <4>6. PICK C \in SUBSET D : C = S \ {y, z}
        OBVIOUS
      <4>7. z \in A /\ y \in B /\ A \ {z} = C /\ B \ {y} = C
        BY <3>2, <3>4, <4>4, <4>5, <4>6
      <4>i. \A R \in SUBSET D : Cardinality(R) = n => \A w \in R : u[R] = f[w] + u[R \ {w}]
        BY <1>4, <1>n
      <4>8. u[A] = f[z] + u[A \ {z}] /\ u[B] = f[y] + u[B \ {y}]
        BY <4>i, <4>3, <4>4, <4>5, <4>7
      <4>9. u[A] = f[z] + u[C] /\ u[B] = f[y] + u[C] /\ u[S] = f[y] + u[A]
        BY <3>2, <4>4, <4>7, <4>8
      <4>10. f[z] \in Int /\ f[y] \in Int /\ u[C] \in Int
        BY <1>0, <1>2, <1>p, <3>2
      <4>11. u[S] = f[z] + u[B]
        BY <4>9, <4>10
      <4> QED
        BY <4>5, <4>11
    <3> QED
      BY <3>3, <3>4
  <2>2. \A S \in SUBSET D : Cardinality(S) = n + 1 => \A z \in S : u[S] = f[z] + u[S \ {z}]
    BY <2>1
  <2>3. n + 1 \in Nat
    OBVIOUS
  <2> QED
    BY <1>n, <2>2, <2>3
<1>5. \A n \in Nat : n \in N
  BY <1>3, <1>4, CountingUp
<1>6. ASSUME NEW S \in SUBSET D PROVE u[S] \in Int /\ \A z \in S : u[S] = f[z] + u[S \ {z}]
  <2>1. IsFiniteSet(S)
    BY FS_Subset
  <2>2. Cardinality(S) \in Nat
    BY <2>1, FS_CardinalityType
  <2>3. \A z \in S : u[S] = f[z] + u[S \ {z}]
    BY <1>5, <1>n, <2>2
  <2> QED
    BY <1>2, <1>p, <2>3
<1> QED
  BY <1>6 DEF AnyFirst

\* The sum over a finite set is the tally of it.
LEMMA SumIsThere ==
    ASSUME NEW f, NEW D, IsFiniteSet(D)
    PROVE  \E u : TallyOf(f, D, u) /\ SumFunctionOnSet(f, D) = u[D]
<1>1. PICK u : u = (CHOOSE g : TallyOf(f, D, g))
  OBVIOUS
<1>2. TallyOf(f, D, u)
  BY <1>1, TallyIsThere
<1>3. SumFunctionOnSet(f, D) = u[D]
  BY <1>1, SumIsTallied
<1> QED
  BY <1>2, <1>3

\* The sum over nothing.
LEMMA SumOfNothing == ASSUME NEW f PROVE SumFunctionOnSet(f, {}) = 0
<1>1. PICK none : none = {}
  OBVIOUS
<1>2. IsFiniteSet(none)
  BY <1>1, FS_EmptySet
<1>3. PICK u : TallyOf(f, none, u) /\ SumFunctionOnSet(f, none) = u[none]
  BY <1>2, SumIsThere
<1>4. none \in SUBSET none
  OBVIOUS
<1>5. u[none] = 0
  BY <1>1, <1>3, <1>4 DEF TallyOf
<1> QED
  BY <1>1, <1>3, <1>5

\* The same terms have the same sum.
LEMMA SumAgrees ==
    ASSUME NEW f, NEW h, NEW D, IsFiniteSet(D), \A x \in D : f[x] = h[x]
    PROVE  SumFunctionOnSet(f, D) = SumFunctionOnSet(h, D)
<1>1. PICK u : TallyOf(f, D, u) /\ SumFunctionOnSet(f, D) = u[D]
  BY SumIsThere
<1>2. PICK v : TallyOf(h, D, v) /\ SumFunctionOnSet(h, D) = v[D]
  BY SumIsThere
<1>3. D \in SUBSET D
  OBVIOUS
<1>4. u[D] = v[D]
  <2>1. Same(f, h, D)
    BY DEF Same
  <2> QED
    BY <1>1, <1>2, <1>3, <2>1, TalliesAgree
<1> QED
  BY <1>1, <1>2, <1>4

\* h has a term more than f, that of x, and otherwise the same; or that of x is larger.
TermMore(f, h, D, x, E) ==
    IsFiniteSet(D) /\ x \notin D /\ E = D \cup {x} /\ Whole(f, D) /\ Same(h, f, D) /\ h[x] \in Int
TermMoved(f, h, D, x, more) ==
    IsFiniteSet(D) /\ x \in D /\ more \in Int /\ Whole(f, D) /\ Same(h, f, D \ {x}) /\ h[x] = f[x] + more

\* One element more adds its term, where the others keep theirs.
LEMMA SumOneMore ==
    ASSUME NEW f, NEW h, NEW D, NEW x, NEW E, TermMore(f, h, D, x, E)
    PROVE  SumFunctionOnSet(f, D) \in Int /\ SumFunctionOnSet(h, E) = SumFunctionOnSet(f, D) + h[x]
<1>1. /\ IsFiniteSet(D) /\ IsFiniteSet(E) /\ D \in SUBSET E /\ D \in SUBSET D /\ E \in SUBSET E /\ x \in E /\ E \ {x} = D
      /\ Same(h, f, D) /\ h[x] \in Int
  BY FS_AddElement DEF TermMore
<1>2. Whole(h, E)
  BY DEF Whole, Same, TermMore
<1>3. PICK u : TallyOf(f, D, u) /\ SumFunctionOnSet(f, D) = u[D]
  BY <1>1, SumIsThere
<1>4. PICK v : TallyOf(h, E, v) /\ SumFunctionOnSet(h, E) = v[E]
  BY <1>1, SumIsThere
<1>5. AnyFirst(h, E, v)
  BY <1>1, <1>2, <1>4, TallyInAnyOrder
<1>6. v[D] = u[D]
  BY <1>1, <1>3, <1>4, TalliesAgree
<1>7. v[E] = h[x] + v[D] /\ v[D] \in Int
  BY <1>1, <1>5 DEF AnyFirst
<1> QED
  BY <1>1, <1>3, <1>4, <1>6, <1>7

\* Where one element's term is larger by so much, so is the sum.
LEMMA SumMoves ==
    ASSUME NEW f, NEW h, NEW D, NEW x, NEW more, TermMoved(f, h, D, x, more)
    PROVE  SumFunctionOnSet(f, D) \in Int /\ SumFunctionOnSet(h, D) = SumFunctionOnSet(f, D) + more
<1>1. PICK C : C = D \ {x}
  OBVIOUS
<1>2. more \in Int /\ f[x] \in Int /\ h[x] = f[x] + more
  BY DEF TermMoved, Whole
<1>3. TermMore(f, f, C, x, D) /\ TermMore(f, h, C, x, D)
  BY <1>1, <1>2, FS_Subset DEF TermMore, TermMoved, Whole, Same
<1>4. SumFunctionOnSet(f, C) \in Int /\ SumFunctionOnSet(f, D) = SumFunctionOnSet(f, C) + f[x]
  BY <1>3, SumOneMore
<1>5. SumFunctionOnSet(h, D) = SumFunctionOnSet(f, C) + h[x]
  BY <1>3, SumOneMore
<1> QED
  BY <1>2, <1>4, <1>5

\* The sum of numbers that are not negative is not negative.
LEMMA SumOfNaturals ==
    ASSUME NEW f, NEW D, IsFiniteSet(D), \A x \in D : f[x] \in Nat
    PROVE  SumFunctionOnSet(f, D) \in Nat
<1>1. PICK u : TallyOf(f, D, u) /\ SumFunctionOnSet(f, D) = u[D]
  BY SumIsThere
<1>2. ASSUME NEW S \in SUBSET D PROVE u[S] = IF S = {} THEN 0 ELSE f[One(S)] + u[S \ {One(S)}]
  BY <1>1 DEF TallyOf
<1> DEFINE P == {S \in SUBSET D : u[S] \in Nat}
<1>p. \A S \in SUBSET D : S \in P <=> u[S] \in Nat
  OBVIOUS
<1> HIDE DEF P
<1>3. {} \in P
  <2>1. PICK none \in SUBSET D : none = {}
    OBVIOUS
  <2>2. u[none] = 0
    BY <1>2, <2>1
  <2> QED
    BY <1>p, <2>1, <2>2
<1>4. ASSUME NEW S \in SUBSET D, S # {}, S \ {One(S)} \in P PROVE S \in P
  <2>1. One(S) \in D /\ S \ {One(S)} \in SUBSET D
    BY <1>4, OneLess
  <2>2. u[S \ {One(S)}] \in Nat /\ f[One(S)] \in Nat
    BY <1>4, <1>p, <2>1
  <2>3. PICK a \in Nat : a = u[S \ {One(S)}]
    BY <2>2
  <2>4. PICK b \in Nat : b = f[One(S)]
    BY <2>2
  <2>5. u[S] = b + a
    BY <1>2, <1>4, <2>3, <2>4
  <2> QED
    BY <1>p, <2>5
<1>5. D \in SUBSET D /\ \A S \in SUBSET D : S \in P
  BY <1>3, <1>4, OneByOne
<1> QED
  BY <1>1, <1>5, <1>p

=============================================================================
