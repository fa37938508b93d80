--------------------------- MODULE OfficeProofs ----------------------------
(***************************************************************************)
(* What the components behind the counter promise, for any number of        *)
(* requests, orders, lots, receipts, sales, codes, vouchers and carts; and  *)
(* all of it of the whole BackOffice.                                       *)
(*                                                                          *)
(* Each part's proof has the same parts.  Typed says what its rows are.     *)
(* Hands says what a request has in hand whoever overtakes it, and Checks   *)
(* what besides is still true of a request that nobody has overtaken: that  *)
(* what it read is what it writes over.  The property itself follows with   *)
(* these, from the commit of one request to the commit of the next.         *)
(***************************************************************************)
EXTENDS BackOffice, FiniteSetTheorems, SequenceTheorems, WellFoundedInduction, TLAPS

-----------------------------------------------------------------------------
(* Numbers. *)

\* A set of natural numbers that is not empty has a least one.
LEMMA LeastNumber ==
    ASSUME NEW S, S \subseteq Nat, S # {}
    PROVE  \E i \in S : \A j \in S : i <= j
<1> DEFINE R == OpToRel(<, Nat)
<1>1. IsWellFoundedOn(R, Nat)
  BY NatLessThanWellFounded
<1>2. \A x, y \in Nat : x < y => <<x, y>> \in R
  BY DEF OpToRel
<1> HIDE DEF R
<1>3. PICK i \in S : \A j \in S : ~(<<j, i>> \in R)
  BY <1>1, WFMin
<1>4. ASSUME NEW j \in S PROVE i <= j
  <2>1. i \in Nat /\ j \in Nat /\ ~(j < i)
    BY <1>2, <1>3
  <2> QED
    BY <2>1
<1> QED
  BY <1>4

\* What holds of 0, and of n + 1 whenever it holds of n, holds of every number.
LEMMA CountingUp ==
    ASSUME NEW S, 0 \in S, \A n \in Nat : n \in S => n + 1 \in S
    PROVE  \A n \in Nat : n \in S
<1> DEFINE Bad == {n \in Nat : n \notin S}
<1>1. SUFFICES ASSUME Bad # {} PROVE FALSE
  OBVIOUS
<1>2. Bad \subseteq Nat
  OBVIOUS
<1>3. PICK m \in Bad : \A k \in Bad : m <= k
  <2> HIDE DEF Bad
  <2> QED
    BY <1>1, <1>2, LeastNumber
<1>4. m \in Nat /\ m \notin S
  OBVIOUS
<1>5. PICK l \in Nat : m = l + 1
  BY <1>4
<1>6. l \notin Bad
  <2> HIDE DEF Bad
  <2> QED
    BY <1>3, <1>5
<1> QED
  BY <1>4, <1>5, <1>6

-----------------------------------------------------------------------------
(* Sums. *)

\* upTo of Added, for the first n terms.
SumUpTo(terms, n, g) == g = [i \in 0 .. n |-> IF i = 0 THEN 0 ELSE g[i - 1] + terms[i]]

\* The sum of the first n terms.
PartialSum(terms, n) == (CHOOSE g : SumUpTo(terms, n, g))[n]

\* A function that has the sums of the first n terms has those of fewer; one term more makes a longer one.
LEMMA SumUpToGoesOn ==
    ASSUME NEW t, NEW n \in Nat, NEW g, SumUpTo(t, n, g)
    PROVE  \E h : SumUpTo(t, n + 1, h)
<1> DEFINE h == [i \in 0 .. n + 1 |-> IF i = n + 1 THEN g[n] + t[n + 1] ELSE g[i]]
<1>1. \A i \in 0 .. n : g[i] = IF i = 0 THEN 0 ELSE g[i - 1] + t[i]
  BY DEF SumUpTo
<1>2. h[n + 1] = g[n] + t[n + 1] /\ \A i \in 0 .. n : h[i] = g[i]
  OBVIOUS
<1>3. h = [i \in 0 .. n + 1 |-> h[i]]
  OBVIOUS
<1> HIDE DEF h
<1>4. ASSUME NEW i \in 0 .. n + 1 PROVE h[i] = IF i = 0 THEN 0 ELSE h[i - 1] + t[i]
  <2>1. CASE i = n + 1
    <3>1. i # 0 /\ i - 1 = n /\ h[n] = g[n]
      BY <1>2, <2>1
    <3> QED
      BY <1>2, <2>1, <3>1
  <2>2. CASE i # n + 1 /\ i # 0
    <3>1. i \in 0 .. n /\ i - 1 \in 0 .. n
      BY <2>2
    <3> QED
      BY <1>1, <1>2, <2>2, <3>1
  <2>3. CASE i = 0
    BY <1>1, <1>2, <2>3
  <2> QED
    BY <2>1, <2>2, <2>3
<1>5. SumUpTo(t, n + 1, h)
  BY <1>3, <1>4 DEF SumUpTo
<1> QED
  BY <1>5

\* There is one for every number of terms.
LEMMA SumUpToIsThere == ASSUME NEW t PROVE \A n \in Nat : \E g : SumUpTo(t, n, g)
<1> DEFINE S == {n \in Nat : \E g : SumUpTo(t, n, g)}
<1>1. 0 \in S
  <2> DEFINE g == [i \in 0 .. 0 |-> 0]
  <2>1. SumUpTo(t, 0, g)
    BY DEF SumUpTo
  <2> QED
    BY <2>1
<1>2. ASSUME NEW n \in Nat, n \in S PROVE n + 1 \in S
  BY <1>2, SumUpToGoesOn
<1>3. \A n \in Nat : n \in S
  <2> HIDE DEF S
  <2> QED
    BY <1>1, <1>2, CountingUp
<1> QED
  BY <1>3

\* Two of them agree as far as their terms do.
LEMMA SumUpToAgrees ==
    ASSUME NEW t, NEW u, NEW n \in Nat, NEW m \in Nat, NEW g, NEW h, SumUpTo(t, n, g), SumUpTo(u, m, h),
           NEW k \in Nat, k <= n, k <= m, \A i \in 1 .. k : t[i] = u[i]
    PROVE  g[k] = h[k]
<1> DEFINE S == {i \in Nat : i <= k => g[i] = h[i]}
<1>1. \A i \in 0 .. n : g[i] = IF i = 0 THEN 0 ELSE g[i - 1] + t[i]
  BY DEF SumUpTo
<1>2. \A i \in 0 .. m : h[i] = IF i = 0 THEN 0 ELSE h[i - 1] + u[i]
  BY DEF SumUpTo
<1>3. 0 \in S
  BY <1>1, <1>2
<1>4. ASSUME NEW i \in Nat, i \in S PROVE i + 1 \in S
  <2>1. SUFFICES ASSUME i + 1 <= k PROVE g[i + 1] = h[i + 1]
    OBVIOUS
  <2>2. g[i] = h[i] /\ t[i + 1] = u[i + 1]
    BY <1>4, <2>1
  <2>3. i + 1 \in 0 .. n /\ i + 1 \in 0 .. m /\ i + 1 # 0 /\ (i + 1) - 1 = i
    BY <2>1
  <2>4. g[i + 1] = g[i] + t[i + 1] /\ h[i + 1] = h[i] + u[i + 1]
    BY <1>1, <1>2, <2>3
  <2> QED
    BY <2>2, <2>4
<1>5. k \in S
  <2> HIDE DEF S
  <2> QED
    BY <1>3, <1>4, CountingUp
<1> QED
  BY <1>5

\* The sum of no term is 0, that of one more is larger by it.
LEMMA PartialSumSteps ==
    ASSUME NEW t
    PROVE  /\ PartialSum(t, 0) = 0
           /\ \A n \in Nat : PartialSum(t, n + 1) = PartialSum(t, n) + t[n + 1]
<1>1. \A n \in Nat : SumUpTo(t, n, CHOOSE g : SumUpTo(t, n, g))
  BY SumUpToIsThere
<1>2. PartialSum(t, 0) = 0
  <2>1. PICK g : g = (CHOOSE f : SumUpTo(t, 0, f))
    OBVIOUS
  <2>2. SumUpTo(t, 0, g) /\ PartialSum(t, 0) = g[0]
    BY <1>1, <2>1 DEF PartialSum
  <2> QED
    BY <2>2 DEF SumUpTo
<1>3. ASSUME NEW n \in Nat PROVE PartialSum(t, n + 1) = PartialSum(t, n) + t[n + 1]
  <2>1. PICK g : g = (CHOOSE f : SumUpTo(t, n, f))
    OBVIOUS
  <2>2. PICK h : h = (CHOOSE f : SumUpTo(t, n + 1, f))
    OBVIOUS
  <2>3. SumUpTo(t, n, g) /\ PartialSum(t, n) = g[n]
    BY <1>1, <2>1 DEF PartialSum
  <2>4. SumUpTo(t, n + 1, h) /\ PartialSum(t, n + 1) = h[n + 1]
    BY <1>1, <2>2 DEF PartialSum
  <2>5. g[n] = h[n]
    <3>1. n + 1 \in Nat /\ n <= n /\ n <= n + 1 /\ \A i \in 1 .. n : t[i] = t[i]
      OBVIOUS
    <3> QED
      BY <2>3, <2>4, <3>1, SumUpToAgrees
  <2>6. h[n + 1] = h[n] + t[n + 1]
    <3>1. n + 1 \in 0 .. n + 1 /\ n + 1 # 0 /\ (n + 1) - 1 = n
      OBVIOUS
    <3> QED
      BY <2>4, <3>1 DEF SumUpTo
  <2> QED
    BY <2>3, <2>4, <2>5, <2>6
<1> QED
  BY <1>2, <1>3

\* Added is the sum of all terms.
LEMMA AddedIsPartialSum ==
    ASSUME NEW n \in Nat, NEW s, s \in [1 .. n -> Int]
    PROVE  Added(s) = PartialSum(s, n)
<1>1. s \in Seq(Int) /\ Len(s) = n /\ <<>> \in Seq(Int)
  OBVIOUS
<1>2. PICK t : t = s \o <<>>
  OBVIOUS
<1>3. t = s
  BY <1>1, <1>2, ConcatProperties
<1>4. Added(s) = (CHOOSE g : SumUpTo(t, n, g))[n]
  BY <1>1, <1>2, <1>3 DEF Added, SumUpTo
<1> QED
  BY <1>3, <1>4 DEF PartialSum

\* The sum of whole numbers is one, and the same whatever comes after.
LEMMA PartialSumIsWhole ==
    ASSUME NEW t, NEW n \in Nat, \A i \in 1 .. n : t[i] \in Int
    PROVE  PartialSum(t, n) \in Int
<1> DEFINE S == {k \in Nat : k <= n => PartialSum(t, k) \in Int}
<1>1. 0 \in S
  BY PartialSumSteps
<1>2. ASSUME NEW k \in Nat, k \in S PROVE k + 1 \in S
  <2>1. SUFFICES ASSUME k + 1 <= n PROVE PartialSum(t, k + 1) \in Int
    OBVIOUS
  <2>2. PartialSum(t, k) \in Int /\ t[k + 1] \in Int
    BY <1>2, <2>1
  <2> QED
    BY <2>2, PartialSumSteps
<1>3. n \in S
  <2> HIDE DEF S
  <2> QED
    BY <1>1, <1>2, CountingUp
<1> QED
  BY <1>3

\* Terms that are no larger add up to no more.
LEMMA PartialSumRises ==
    ASSUME NEW t, NEW u, NEW n \in Nat, \A i \in 1 .. n : t[i] \in Int /\ u[i] \in Int /\ t[i] <= u[i]
    PROVE  PartialSum(t, n) \in Int /\ PartialSum(u, n) \in Int /\ PartialSum(t, n) <= PartialSum(u, n)
<1> DEFINE S == {k \in Nat : k <= n => PartialSum(t, k) \in Int /\ PartialSum(u, k) \in Int /\ PartialSum(t, k) <= PartialSum(u, k)}
<1>1. 0 \in S
  BY PartialSumSteps
<1>2. ASSUME NEW k \in Nat, k \in S PROVE k + 1 \in S
  <2>1. SUFFICES ASSUME k + 1 <= n
                 PROVE  PartialSum(t, k + 1) \in Int /\ PartialSum(u, k + 1) \in Int /\ PartialSum(t, k + 1) <= PartialSum(u, k + 1)
    OBVIOUS
  <2>2. /\ PartialSum(t, k) \in Int /\ PartialSum(u, k) \in Int /\ PartialSum(t, k) <= PartialSum(u, k)
        /\ t[k + 1] \in Int /\ u[k + 1] \in Int /\ t[k + 1] <= u[k + 1]
    BY <1>2, <2>1
  <2>3. PartialSum(t, k + 1) = PartialSum(t, k) + t[k + 1] /\ PartialSum(u, k + 1) = PartialSum(u, k) + u[k + 1]
    BY PartialSumSteps
  <2> QED
    BY <2>2, <2>3
<1>3. n \in S
  <2> HIDE DEF S
  <2> QED
    BY <1>1, <1>2, CountingUp
<1> QED
  BY <1>3

\* The same terms have the same sum.
LEMMA PartialSumAgrees ==
    ASSUME NEW t, NEW u, NEW n \in Nat, \A i \in 1 .. n : t[i] = u[i]
    PROVE  PartialSum(t, n) = PartialSum(u, n)
<1> DEFINE S == {k \in Nat : k <= n => PartialSum(t, k) = PartialSum(u, k)}
<1>1. 0 \in S
  BY PartialSumSteps
<1>2. ASSUME NEW k \in Nat, k \in S PROVE k + 1 \in S
  <2>1. SUFFICES ASSUME k + 1 <= n PROVE PartialSum(t, k + 1) = PartialSum(u, k + 1)
    OBVIOUS
  <2>2. PartialSum(t, k) = PartialSum(u, k) /\ t[k + 1] = u[k + 1]
    BY <1>2, <2>1
  <2> QED
    BY <2>2, PartialSumSteps
<1>3. n \in S
  <2> HIDE DEF S
  <2> QED
    BY <1>1, <1>2, CountingUp
<1> QED
  BY <1>3

\* The sum of whole numbers is one.
LEMMA AddedIsWhole == ASSUME NEW s, s \in Seq(Int) PROVE Added(s) \in Int
<1>1. PICK n \in Nat : n = Len(s)
  OBVIOUS
<1>2. s \in [1 .. n -> Int]
  BY <1>1
<1> QED
  BY <1>2, AddedIsPartialSum, PartialSumIsWhole

\* The sum of no numbers.
LEMMA AddedNothing == Added(<<>>) = 0
<1>1. <<>> \in [1 .. 0 -> Int]
  OBVIOUS
<1> QED
  BY <1>1, AddedIsPartialSum, PartialSumSteps

\* The sum of one number more.
LEMMA AddedOneMore ==
    ASSUME NEW n \in Nat, NEW s, s \in [1 .. n -> Int], NEW t, t \in [1 .. n + 1 -> Int], \A i \in 1 .. n : t[i] = s[i]
    PROVE  Added(t) = Added(s) + t[n + 1]
<1>1. Added(s) = PartialSum(s, n) /\ Added(t) = PartialSum(t, n + 1)
  BY AddedIsPartialSum
<1>2. PartialSum(t, n) = PartialSum(s, n)
  BY PartialSumAgrees
<1> QED
  BY <1>1, <1>2, PartialSumSteps

\* The sum of natural numbers is one.
LEMMA AddedNaturals == ASSUME NEW s, s \in Seq(Nat) PROVE Added(s) \in Nat
<1>1. PICK n \in Nat : n = Len(s)
  OBVIOUS
<1>2. s \in [1 .. n -> Int] /\ \A i \in 1 .. n : s[i] \in Nat
  BY <1>1
<1>3. PICK zeros : zeros = [i \in 1 .. n |-> 0]
  OBVIOUS
<1>4. Added(s) = PartialSum(s, n)
  BY <1>2, AddedIsPartialSum
<1>5. PartialSum(zeros, n) = 0
  <2> DEFINE S == {k \in Nat : k <= n => PartialSum(zeros, k) = 0}
  <2>1. 0 \in S
    BY PartialSumSteps
  <2>2. ASSUME NEW k \in Nat, k \in S PROVE k + 1 \in S
    <3>1. SUFFICES ASSUME k + 1 <= n PROVE PartialSum(zeros, k + 1) = 0
      OBVIOUS
    <3>2. PartialSum(zeros, k) = 0 /\ zeros[k + 1] = 0
      BY <1>3, <2>2, <3>1
    <3>3. PartialSum(zeros, k + 1) = PartialSum(zeros, k) + zeros[k + 1]
      BY PartialSumSteps
    <3> QED
      BY <3>2, <3>3
  <2>3. n \in S
    <3> HIDE DEF S
    <3> QED
      BY <2>1, <2>2, CountingUp
  <2> QED
    BY <2>3
<1>6. \A i \in 1 .. n : zeros[i] \in Int /\ s[i] \in Int /\ zeros[i] <= s[i]
  BY <1>2, <1>3
<1>7. PartialSum(s, n) \in Int /\ PartialSum(zeros, n) <= PartialSum(s, n)
  BY <1>6, PartialSumRises
<1> QED
  BY <1>4, <1>5, <1>7

\* The sum of natural numbers climbs, and is no less than each of them.
LEMMA PartialSumClimbs ==
    ASSUME NEW t, NEW k \in Nat, \A i \in 1 .. k : t[i] \in Nat
    PROVE  /\ \A i \in 0 .. k : PartialSum(t, i) \in Nat
           /\ \A i, j \in 0 .. k : i <= j => PartialSum(t, i) <= PartialSum(t, j)
           /\ \A i \in 1 .. k : t[i] <= PartialSum(t, k) /\ PartialSum(t, i) = PartialSum(t, i - 1) + t[i]
<1> DEFINE S == {j \in Nat : j <= k => \A i \in 0 .. j : PartialSum(t, i) \in Nat /\ PartialSum(t, i) <= PartialSum(t, j)}
<1>1. 0 \in S
  <2>1. PartialSum(t, 0) = 0
    BY PartialSumSteps
  <2>2. \A i \in 0 .. 0 : i = 0
    OBVIOUS
  <2> QED
    BY <2>1, <2>2
<1>2. ASSUME NEW j \in Nat, j \in S PROVE j + 1 \in S
  <2>1. SUFFICES ASSUME j + 1 <= k, NEW i \in 0 .. j + 1 PROVE PartialSum(t, i) \in Nat /\ PartialSum(t, i) <= PartialSum(t, j + 1)
    OBVIOUS
  <2>2. \A l \in 0 .. j : PartialSum(t, l) \in Nat /\ PartialSum(t, l) <= PartialSum(t, j)
    BY <1>2, <2>1
  <2>3. j \in 0 .. j /\ j + 1 \in 1 .. k
    BY <2>1
  <2>4. PartialSum(t, j + 1) = PartialSum(t, j) + t[j + 1] /\ PartialSum(t, j) \in Nat /\ t[j + 1] \in Nat
    BY <2>2, <2>3, PartialSumSteps
  <2>5. CASE i \in 0 .. j
    <3>1. PartialSum(t, i) \in Nat /\ PartialSum(t, i) <= PartialSum(t, j)
      BY <2>2, <2>5
    <3> QED
      BY <2>4, <3>1
  <2>6. CASE i = j + 1
    BY <2>4, <2>6
  <2> QED
    BY <2>5, <2>6
<1>3. \A j \in Nat : j \in S
  <2> HIDE DEF S
  <2> QED
    BY <1>1, <1>2, CountingUp
<1>4. \A j \in 0 .. k : \A i \in 0 .. j : PartialSum(t, i) \in Nat /\ PartialSum(t, i) <= PartialSum(t, j)
  BY <1>3
<1>5. \A i \in 0 .. k : PartialSum(t, i) \in Nat
  <2>1. ASSUME NEW i \in 0 .. k PROVE PartialSum(t, i) \in Nat
    <3>1. i \in 0 .. i
      OBVIOUS
    <3> QED
      BY <1>4, <3>1
  <2> QED
    BY <2>1
<1>6. \A i, j \in 0 .. k : i <= j => PartialSum(t, i) <= PartialSum(t, j)
  <2>1. ASSUME NEW i \in 0 .. k, NEW j \in 0 .. k, i <= j PROVE PartialSum(t, i) <= PartialSum(t, j)
    <3>1. i \in 0 .. j
      BY <2>1
    <3> QED
      BY <1>4, <3>1
  <2> QED
    BY <2>1
<1>7. ASSUME NEW i \in 1 .. k PROVE t[i] <= PartialSum(t, k) /\ PartialSum(t, i) = PartialSum(t, i - 1) + t[i]
  <2>1. PICK h \in Nat : i = h + 1
    <3>1. i - 1 \in Nat /\ i = (i - 1) + 1
      OBVIOUS
    <3> QED
      BY <3>1
  <2>2. i - 1 = h /\ h \in 0 .. k /\ i \in 0 .. k /\ k \in 0 .. k /\ i <= k
    BY <2>1
  <2>3. PICK a \in Nat : a = PartialSum(t, h)
    BY <1>5, <2>2
  <2>4. PICK b \in Nat : b = PartialSum(t, i)
    BY <1>5, <2>2
  <2>5. PICK c \in Nat : c = PartialSum(t, k)
    BY <1>5, <2>2
  <2>6. b <= c
    BY <1>6, <2>2, <2>4, <2>5
  <2>7. b = a + t[i]
    BY <2>1, <2>3, <2>4, PartialSumSteps
  <2>8. t[i] <= b
    BY <2>3, <2>4, <2>7
  <2>9. t[i] <= c
    BY <2>4, <2>5, <2>6, <2>8
  <2> QED
    BY <2>2, <2>3, <2>4, <2>5, <2>7, <2>9
<1> QED
  BY <1>5, <1>6, <1>7

\* Taken from one after the other, n is taken as a whole, or all there is.
LEMMA TakenInOrder ==
    ASSUME NEW k \in Nat, NEW s, NEW left, NEW n \in Nat, \A i \in 1 .. k : s[i] \in Nat,
           \A i \in 1 .. k :
              left[i] = s[i] - Smaller(s[i], IF n > PartialSum(s, i - 1) THEN n - PartialSum(s, i - 1) ELSE 0)
    PROVE  /\ \A i \in 1 .. k : left[i] \in Nat /\ left[i] <= s[i]
           /\ PartialSum(s, k) \in Nat /\ PartialSum(left, k) = PartialSum(s, k) - Smaller(n, PartialSum(s, k))
<1>1. \A i \in 0 .. k : PartialSum(s, i) \in Nat
  BY PartialSumClimbs
<1>2. \A i \in 1 .. k : left[i] \in Nat /\ left[i] <= s[i]
  <2>1. ASSUME NEW i \in 1 .. k PROVE left[i] \in Nat /\ left[i] <= s[i]
    <3>1. i - 1 \in 0 .. k
      OBVIOUS
    <3>2. PICK older \in Nat : older = PartialSum(s, i - 1)
      BY <1>1, <3>1
    <3>3. PICK x \in Nat : x = s[i]
      OBVIOUS
    <3>4. left[i] = x - Smaller(x, IF n > older THEN n - older ELSE 0)
      BY <3>2, <3>3
    <3> QED
      BY <3>3, <3>4 DEF Smaller
  <2> QED
    BY <2>1
<1> DEFINE S == {i \in Nat : i <= k => PartialSum(left, i) = PartialSum(s, i) - Smaller(n, PartialSum(s, i))}
<1>3. 0 \in S
  <2>1. PartialSum(s, 0) = 0 /\ PartialSum(left, 0) = 0
    BY PartialSumSteps
  <2>2. Smaller(n, 0) = 0
    BY DEF Smaller
  <2> QED
    BY <2>1, <2>2
<1>4. ASSUME NEW i \in Nat, i \in S PROVE i + 1 \in S
  <2>1. SUFFICES ASSUME i + 1 <= k
                 PROVE  PartialSum(left, i + 1) = PartialSum(s, i + 1) - Smaller(n, PartialSum(s, i + 1))
    OBVIOUS
  <2>2. i + 1 \in 1 .. k /\ (i + 1) - 1 = i /\ i \in 0 .. k
    BY <2>1
  <2>3. PICK p \in Nat : p = PartialSum(s, i) /\ PartialSum(left, i) = p - Smaller(n, p)
    BY <1>1, <1>4, <2>1, <2>2
  <2>4. PICK x \in Nat : x = s[i + 1]
    BY <2>2
  <2>5. left[i + 1] = x - Smaller(x, IF n > p THEN n - p ELSE 0)
    BY <2>2, <2>3, <2>4
  <2>6. PartialSum(s, i + 1) = p + x
    BY <2>3, <2>4, PartialSumSteps
  <2>7. PartialSum(left, i + 1) = (p - Smaller(n, p)) + (x - Smaller(x, IF n > p THEN n - p ELSE 0))
    BY <2>3, <2>5, PartialSumSteps
  <2>8. (p - Smaller(n, p)) + (x - Smaller(x, IF n > p THEN n - p ELSE 0)) = (p + x) - Smaller(n, p + x)
    BY DEF Smaller
  <2> QED
    BY <2>6, <2>7, <2>8
<1>5. k \in S
  <2> HIDE DEF S
  <2> QED
    BY <1>3, <1>4, CountingUp
<1>6. k \in 0 .. k
  OBVIOUS
<1> QED
  BY <1>1, <1>2, <1>5, <1>6

\* The sum of the terms up to one is that of the sequence without the others.
LEMMA AddedBefore ==
    ASSUME NEW k \in Nat, NEW s, \A i \in 1 .. k : s[i] \in Int, NEW n \in 1 .. k,
           NEW before, before = [m \in 1 .. k |-> IF m < n THEN s[m] ELSE 0]
    PROVE  Added(before) = PartialSum(s, n - 1)
<1>1. before \in [1 .. k -> Int]
  OBVIOUS
<1>2. Added(before) = PartialSum(before, k)
  BY <1>1, AddedIsPartialSum
<1>3. n - 1 \in Nat /\ n - 1 <= k /\ \A i \in 1 .. n - 1 : i \in 1 .. k /\ i < n
  OBVIOUS
<1>4. \A i \in 1 .. n - 1 : before[i] = s[i]
  BY <1>3
<1>5. PartialSum(before, n - 1) = PartialSum(s, n - 1)
  BY <1>3, <1>4, PartialSumAgrees
<1>6. PartialSum(s, n - 1) \in Int
  BY <1>3, PartialSumIsWhole
<1> DEFINE S == {i \in Nat : n - 1 <= i /\ i <= k => PartialSum(before, i) = PartialSum(s, n - 1)}
<1>7. 0 \in S
  <2>1. 0 >= n - 1 => n - 1 = 0
    BY <1>3
  <2> QED
    BY <1>5, <2>1
<1>8. ASSUME NEW i \in Nat, i \in S PROVE i + 1 \in S
  <2>1. SUFFICES ASSUME n - 1 <= i + 1, i + 1 <= k PROVE PartialSum(before, i + 1) = PartialSum(s, n - 1)
    OBVIOUS
  <2>2. CASE i + 1 = n - 1
    BY <1>5, <2>2
  <2>3. CASE i + 1 # n - 1
    <3>1. n - 1 <= i /\ i <= k /\ i + 1 \in 1 .. k /\ ~(i + 1 < n)
      BY <2>1, <2>3
    <3>2. PartialSum(before, i) = PartialSum(s, n - 1) /\ before[i + 1] = 0
      BY <1>8, <3>1
    <3>3. PartialSum(before, i + 1) = PartialSum(before, i) + before[i + 1]
      BY PartialSumSteps
    <3> QED
      BY <1>6, <3>2, <3>3
  <2> QED
    BY <2>2, <2>3
<1>9. k \in S
  <2> HIDE DEF S
  <2> QED
    BY <1>7, <1>8, CountingUp
<1> QED
  BY <1>2, <1>3, <1>9

\* The sum of naughts is naught.
LEMMA AddedNaughts ==
    ASSUME NEW k \in Nat, NEW s, s \in [1 .. k -> Int], \A i \in 1 .. k : s[i] = 0
    PROVE  Added(s) = 0
<1> DEFINE S == {i \in Nat : i <= k => PartialSum(s, i) = 0}
<1>1. 0 \in S
  BY PartialSumSteps
<1>2. ASSUME NEW i \in Nat, i \in S PROVE i + 1 \in S
  <2>1. SUFFICES ASSUME i + 1 <= k PROVE PartialSum(s, i + 1) = 0
    OBVIOUS
  <2>2. PartialSum(s, i) = 0 /\ s[i + 1] = 0
    BY <1>2, <2>1
  <2>3. PartialSum(s, i + 1) = PartialSum(s, i) + s[i + 1]
    BY PartialSumSteps
  <2> QED
    BY <2>2, <2>3
<1>3. k \in S
  <2> HIDE DEF S
  <2> QED
    BY <1>1, <1>2, CountingUp
<1> QED
  BY <1>3, AddedIsPartialSum

-----------------------------------------------------------------------------
(* Requests. *)

\* A set without two members.
LEMMA AtMostOne ==
    ASSUME NEW S, \A i, j \in S : i = j
    PROVE  Cardinality(S) <= 1
<1>1. CASE S = {}
  BY <1>1, FS_EmptySet
<1>2. CASE S # {}
  <2>1. PICK i \in S : S = {i}
    BY <1>2
  <2>2. Cardinality({i}) = 1
    BY FS_Singleton
  <2> QED
    BY <2>1, <2>2
<1> QED
  BY <1>1, <1>2

-----------------------------------------------------------------------------
(* The desks. *)

OneRequestEach == desk = [q \in Desks |-> desk[q]]

\* A request that begins is the only one to move.
LEMMA DeskChecks ==
    ASSUME OneRequestEach, NEW r \in Desks, NEW e, Checked(r, e)
    PROVE  /\ OneRequestEach' /\ desk'[r] = e /\ UNCHANGED <<overtaken, blind>>
           /\ \A q \in Desks \ {r} : desk'[q] = desk[q]
BY DEF Checked, OneRequestEach

\* A commit overtakes every other request under way; what an overtaken one writes is blind.
LEMMA DeskCommits ==
    ASSUME OneRequestEach, NEW r \in Desks, NEW rows, Committed(r, rows)
    PROVE  /\ OneRequestEach'
           /\ \A q \in Desks : desk'[q].op = "none" \/ desk'[q] = desk[q]
           /\ \A q \in Desks : q \notin overtaken' => desk'[q].op = "none"
           /\ blind \subseteq blind'
           /\ r \in overtaken => rows \subseteq blind'
<1>1. desk' = [desk EXCEPT ![r] = Idle] /\ Idle.op = "none"
  BY DEF Committed, Idle
<1>2. OneRequestEach' /\ desk'[r] = Idle /\ \A q \in Desks \ {r} : desk'[q] = desk[q]
  BY <1>1 DEF OneRequestEach
<1>3. \A q \in Desks : q \notin overtaken' => desk'[q] = Idle
  BY <1>2 DEF Committed
<1> QED
  BY <1>1, <1>2, <1>3 DEF Committed

\* So does a request that is one step.
LEMMA DeskAtOnce ==
    ASSUME AtOnce
    PROVE  /\ UNCHANGED <<desk, blind>>
           /\ \A q \in Desks : q \notin overtaken' => desk[q].op = "none"
BY DEF AtOnce, Idle

\* One that fails leaves the others as they were.
LEMMA DeskRollsBack ==
    ASSUME OneRequestEach, NEW r \in Desks, RolledBack(r)
    PROVE  /\ OneRequestEach' /\ UNCHANGED blind
           /\ desk'[r].op = "none" /\ r \notin overtaken'
           /\ \A q \in Desks \ {r} : desk'[q] = desk[q] /\ (q \in overtaken' <=> q \in overtaken)
<1>1. desk' = [desk EXCEPT ![r] = Idle] /\ Idle.op = "none"
  BY DEF RolledBack, Idle
<1> QED
  BY <1>1 DEF RolledBack, OneRequestEach

\* A fact more leaves those before it, and what came before them.
LEMMA OneFactMore ==
    ASSUME NEW S, NEW l, l \in Seq(S), NEW f \in S, NEW m, m = Append(l, f)
    PROVE  /\ m \in Seq(S) /\ Len(m) = Len(l) + 1 /\ DOMAIN m = 1 .. Len(l) + 1 /\ m[Len(l) + 1] = f
           /\ SubSeq(m, 1, Len(l)) = l
           /\ \A n \in DOMAIN l : m[n] = l[n] /\ SubSeq(m, 1, n - 1) = SubSeq(l, 1, n - 1)
<1>1. PICK k \in Nat : k = Len(l)
  OBVIOUS
<1>2. m \in Seq(S) /\ Len(m) = k + 1 /\ m[k + 1] = f /\ \A n \in 1 .. k : m[n] = l[n]
  BY <1>1
<1>3. DOMAIN l = 1 .. k /\ DOMAIN m = 1 .. k + 1
  <2>1. DOMAIN l = 1 .. Len(l) /\ DOMAIN m = 1 .. Len(m)
    BY <1>2
  <2> QED
    BY <1>1, <1>2, <2>1
<1>4. ASSUME NEW n \in 0 .. k PROVE SubSeq(m, 1, n) = SubSeq(l, 1, n)
  <2>1. PICK a : a = SubSeq(m, 1, n)
    OBVIOUS
  <2>2. PICK b : b = SubSeq(l, 1, n)
    OBVIOUS
  <2>3. n <= Len(m) /\ n <= Len(l) /\ n \in Nat
    BY <1>1, <1>2
  <2>4. a \in Seq(S) /\ Len(a) = n /\ \A i \in 1 .. n : a[i] = m[i]
    BY <1>2, <2>1, <2>3, SubSeqProperties
  <2>5. b \in Seq(S) /\ Len(b) = n /\ \A i \in 1 .. n : b[i] = l[i]
    BY <2>2, <2>3, SubSeqProperties
  <2>6. \A i \in 1 .. n : a[i] = b[i]
    BY <1>2, <2>4, <2>5
  <2>7. a = b
    BY <2>4, <2>5, <2>6
  <2> QED
    BY <2>1, <2>2, <2>7
<1>5. SubSeq(m, 1, k) = SubSeq(l, 1, k)
  <2>1. k \in 0 .. k
    BY <1>1
  <2> QED
    BY <1>4, <2>1
<1>6. SubSeq(l, 1, k) = l
  <2>1. PICK b : b = SubSeq(l, 1, k)
    OBVIOUS
  <2>2. b \in Seq(S) /\ Len(b) = k /\ \A i \in 1 .. k : b[i] = l[i]
    BY <1>1, <2>1, SubSeqProperties
  <2>3. b = l
    BY <1>1, <2>2
  <2> QED
    BY <2>1, <2>3
<1>7. \A n \in DOMAIN l : SubSeq(m, 1, n - 1) = SubSeq(l, 1, n - 1)
  <2>1. ASSUME NEW n \in DOMAIN l PROVE n - 1 \in 0 .. k
    BY <1>3
  <2> QED
    BY <1>4, <2>1
<1> QED
  BY <1>1, <1>2, <1>3, <1>5, <1>6, <1>7

-----------------------------------------------------------------------------
(* The export of invoices to the tax portal. *)

-----------------------------------------------------------------------------
(* Exports of invoices. *)

ExportStatuses == {"NONE", "QUEUED", "RETRY_QUEUED", "ACTION_REQUIRED", "IRN_ATTACHED"}
ExportRow == [status : ExportStatuses, prepared : BOOLEAN]
ExportTaskRow == [sale : ExportSales, status : {"QUEUED", "RUNNING", "SUCCEEDED"}]
HandlerErrand == [op : {"prepare", "attach", "refuse"}, task : Nat, sale : ExportSales,
                  status : ExportStatuses, prepared : BOOLEAN, profile : BOOLEAN]
InHand == {"prepare", "attach", "refuse"}

GstTyped ==
    /\ exports \in [ExportSales -> ExportRow] /\ saleIrn \in [ExportSales -> {"IRN_PENDING", "IRN_ATTACHED"}]
    /\ exportTasks \in Seq(ExportTaskRow) /\ irnOf \subseteq ExportSales /\ irpProfile \in BOOLEAN
    /\ OneRequestEach

\* What a request has in hand, whoever overtakes it: a handler its job's sale, of which the portal
\* has what is to be attached; an export that was read as attached is attached for good.
GstHands(r) ==
    /\ desk[r].op \in {"create", "retry"} => desk[r].sale \in ExportSales
    /\ desk[r].op = "retry" => desk[r].status # "IRN_ATTACHED" /\ desk[r].active \in BOOLEAN
    /\ desk[r].op \in InHand =>
         /\ desk[r] \in HandlerErrand
         /\ desk[r].task \in DOMAIN exportTasks /\ exportTasks[desk[r].task].sale = desk[r].sale
         /\ desk[r].status = "IRN_ATTACHED" => desk[r].op = "prepare" /\ desk[r].sale \in irnOf
    /\ desk[r].op = "attach" => desk[r].sale \in registered

\* What a request that was not overtaken has read is so.
GstChecks(r) ==
    /\ desk[r].op \in InHand \cup {"retry"} => exports[desk[r].sale].status = desk[r].status
    /\ desk[r].op = "retry" /\ desk[r].active => ActiveTask(desk[r].sale)

GstStillTrue == \A r \in Desks : r \notin overtaken => GstChecks(r)

\* Attached is an export that was there.
AttachedIsThere == \A s \in irnOf : exports[s].status # "NONE"

GstInv ==
    /\ GstTyped /\ (\A r \in Desks : GstHands(r)) /\ GstStillTrue
    /\ AttachedIsThere /\ AttachmentAgrees /\ PendingHasTask

\* Sales of which none has an export.
GstEmpty ==
    /\ exports = [s \in ExportSales |-> NoExport] /\ irnOf = {} /\ exportTasks = <<>>
    /\ saleIrn = [s \in ExportSales |-> "IRN_PENDING"] /\ irpProfile = FALSE

\* Where no sale has an export nothing is attached or waits.
LEMMA GstBegins ==
    ASSUME GstEmpty, OneRequestEach
    PROVE  GstTyped /\ AttachedIsThere /\ AttachmentAgrees /\ PendingHasTask
<1>1. NoExport \in ExportRow /\ NoExport.status = "NONE"
  BY DEF NoExport, ExportRow, ExportStatuses
<1>2. GstTyped
  <2>1. exports \in [ExportSales -> ExportRow] /\ saleIrn \in [ExportSales -> {"IRN_PENDING", "IRN_ATTACHED"}]
    BY <1>1 DEF GstEmpty
  <2>2. exportTasks \in Seq(ExportTaskRow)
    BY DEF GstEmpty
  <2> QED
    BY <2>1, <2>2 DEF GstTyped, GstEmpty
<1> QED
  BY <1>1, <1>2 DEF GstEmpty, AttachedIsThere, AttachmentAgrees, PendingHasTask

\* The export begins with no request in hand.
LEMMA GstInitInv == GstExportInit => GstInv
<1> SUFFICES ASSUME GstExportInit PROVE GstInv
  OBVIOUS
<1>1. GstEmpty /\ OneRequestEach
  BY DEF GstExportInit, DeskInit, GstEmpty, OneRequestEach
<1>2. \A r \in Desks : desk[r].op = "none"
  BY DEF GstExportInit, DeskInit, Idle
<1>3. (\A r \in Desks : GstHands(r)) /\ GstStillTrue
  BY <1>2 DEF GstHands, GstStillTrue, GstChecks, InHand
<1> QED
  BY <1>1, <1>3, GstBegins DEF GstInv

\* A request that reads, or a handler that goes on, has in hand what it may have; the rows stay.
LEMMA GstGoesOn ==
    ASSUME GstInv, NEW r \in Desks, NEW d,
           desk' = [desk EXCEPT ![r] = d], UNCHANGED <<exports, irnOf, saleIrn, irpProfile, overtaken, blind>>,
           registered \subseteq registered', exportTasks' \in Seq(ExportTaskRow), DOMAIN exportTasks' = DOMAIN exportTasks,
           \A t \in DOMAIN exportTasks : exportTasks'[t].sale = exportTasks[t].sale,
           \A s \in ExportSales : ActiveTask(s) => ActiveTask(s)',
           GstHands(r)', r \notin overtaken => GstChecks(r)'
    PROVE  GstInv'
<1>1. \A q \in Desks : desk'[q] = IF q = r THEN d ELSE desk[q]
  BY DEF GstInv, GstTyped, OneRequestEach
<1>2. GstTyped'
  BY DEF GstInv, GstTyped, OneRequestEach
<1>3. ASSUME NEW q \in Desks PROVE GstHands(q)'
  <2>1. CASE q = r
    BY <2>1
  <2>2. CASE q # r
    <3>1. desk'[q] = desk[q] /\ GstHands(q)
      BY <1>1, <2>2 DEF GstInv
    <3> QED
      BY <3>1 DEF GstHands, InHand
  <2> QED
    BY <2>1, <2>2
<1>4. ASSUME NEW q \in Desks, q \notin overtaken PROVE GstChecks(q)'
  <2>1. CASE q = r
    BY <1>4, <2>1
  <2>2. CASE q # r
    <3>1. desk'[q] = desk[q] /\ GstChecks(q) /\ GstHands(q)
      BY <1>1, <1>4, <2>2 DEF GstInv, GstStillTrue
    <3> QED
      BY <3>1 DEF GstChecks, GstHands, InHand
  <2> QED
    BY <2>1, <2>2
<1>5. GstStillTrue'
  BY <1>4 DEF GstStillTrue
<1>6. AttachedIsThere' /\ AttachmentAgrees'
  BY DEF GstInv, AttachedIsThere, AttachmentAgrees, Seen
<1>7. PendingHasTask'
  BY DEF GstInv, PendingHasTask, Seen
<1> QED
  BY <1>2, <1>3, <1>5, <1>6, <1>7 DEF GstInv

\* Requests that read the rows.
LEMMA GstReads ==
    ASSUME GstInv, NEW r \in Desks, NEW s \in ExportSales, CreateExport(r, s) \/ RetryExport(r, s)
    PROVE  GstInv'
<1>1. UNCHANGED gstVars /\ UNCHANGED <<overtaken, blind>>
  BY DEF CreateExport, RetryExport, Checked
<1>2. UNCHANGED <<exports, irnOf, saleIrn, irpProfile, exportTasks, registered>>
  BY <1>1 DEF gstVars
<1>3. /\ exportTasks' \in Seq(ExportTaskRow) /\ registered \subseteq registered'
      /\ DOMAIN exportTasks' = DOMAIN exportTasks
      /\ \A t \in DOMAIN exportTasks : exportTasks'[t].sale = exportTasks[t].sale
      /\ \A s_1 \in ExportSales : ActiveTask(s_1) => ActiveTask(s_1)'
  BY <1>2 DEF GstInv, GstTyped, ActiveTask
<1>4. CASE CreateExport(r, s)
  <2>1. PICK d : d = [op |-> "create", sale |-> s]
    OBVIOUS
  <2>2. desk' = [desk EXCEPT ![r] = d] /\ d.op = "create" /\ d.sale = s
    BY <1>4, <2>1 DEF CreateExport, Checked
  <2>3. desk'[r] = d
    BY <2>2 DEF GstInv, GstTyped, OneRequestEach
  <2>4. GstHands(r)' /\ GstChecks(r)'
    BY <2>2, <2>3 DEF GstHands, GstChecks, InHand
  <2> QED
    BY <1>1, <1>2, <1>3, <2>2, <2>4, GstGoesOn
<1>5. CASE RetryExport(r, s)
  <2>1. PICK d : d = [op |-> "retry", sale |-> s, status |-> exports[s].status, active |-> ActiveTask(s)]
    OBVIOUS
  <2>2. /\ desk' = [desk EXCEPT ![r] = d] /\ d.op = "retry" /\ d.sale = s
        /\ d.status = exports[s].status /\ d.status # "IRN_ATTACHED"
    BY <1>5, <2>1 DEF RetryExport, Checked, Retriable
  <2>3. desk'[r] = d
    BY <2>2 DEF GstInv, GstTyped, OneRequestEach
  <2>4. d.active = ActiveTask(s)
    BY <2>1
  <2>5. d.active \in BOOLEAN
    BY <2>4 DEF ActiveTask
  <2>6. d.active => ActiveTask(s)'
    BY <1>3, <2>4
  <2>7. GstHands(r)'
    BY <2>2, <2>3, <2>5 DEF GstHands, InHand
  <2>8. GstChecks(r)'
    BY <1>2, <2>2, <2>3, <2>6 DEF GstChecks, InHand
  <2> QED
    BY <1>1, <1>2, <1>3, <2>2, <2>7, <2>8, GstGoesOn
<1> QED
  BY <1>4, <1>5

\* A commit leaves what the other requests have in hand, which it overtakes.
LEMMA GstLands ==
    ASSUME GstInv, NEW r \in Desks, NEW rows, Committed(r, rows),
           exports' \in [ExportSales -> ExportRow], saleIrn' \in [ExportSales -> {"IRN_PENDING", "IRN_ATTACHED"}],
           exportTasks' \in Seq(ExportTaskRow), DOMAIN exportTasks \subseteq DOMAIN exportTasks',
           \A t \in DOMAIN exportTasks : exportTasks'[t].sale = exportTasks[t].sale,
           irnOf \subseteq irnOf', irnOf' \subseteq ExportSales, UNCHANGED <<irpProfile, registered>>,
           AttachedIsThere', AttachmentAgrees', PendingHasTask'
    PROVE  GstInv'
<1>0. OneRequestEach
  BY DEF GstInv, GstTyped
<1>1. /\ OneRequestEach' /\ \A q \in Desks : desk'[q].op = "none" \/ desk'[q] = desk[q]
      /\ \A q \in Desks : q \notin overtaken' => desk'[q].op = "none"
  BY <1>0, DeskCommits
<1>2. GstTyped'
  BY <1>1 DEF GstInv, GstTyped
<1>3. ASSUME NEW q \in Desks PROVE GstHands(q)'
  <2>1. CASE desk'[q].op = "none"
    BY <2>1 DEF GstHands, InHand
  <2>2. CASE desk'[q] = desk[q]
    <3>1. GstHands(q)
      BY DEF GstInv
    <3> QED
      BY <2>2, <3>1 DEF GstHands, InHand
  <2> QED
    BY <1>1, <2>1, <2>2
<1>4. GstStillTrue'
  BY <1>1 DEF GstStillTrue, GstChecks, InHand
<1> QED
  BY <1>2, <1>3, <1>4 DEF GstInv

\* A job that is queued is active, and so are those that were.
LEMMA GstEnqueued ==
    ASSUME exportTasks \in Seq(ExportTaskRow), NEW s \in ExportSales, exportTasks' = Enqueued(s)
    PROVE  /\ exportTasks' \in Seq(ExportTaskRow) /\ DOMAIN exportTasks \subseteq DOMAIN exportTasks'
           /\ \A t \in DOMAIN exportTasks : exportTasks'[t] = exportTasks[t]
           /\ ActiveTask(s)' /\ \A x \in ExportSales : ActiveTask(x) => ActiveTask(x)'
<1>1. PICK e : e = [sale |-> s, status |-> "QUEUED"]
  OBVIOUS
<1>2. e \in ExportTaskRow /\ e.sale = s /\ e.status = "QUEUED"
  BY <1>1 DEF ExportTaskRow
<1>3. exportTasks' = Append(exportTasks, e)
  BY <1>1 DEF Enqueued
<1>4. /\ exportTasks' \in Seq(ExportTaskRow) /\ Len(exportTasks') = Len(exportTasks) + 1
      /\ exportTasks'[Len(exportTasks) + 1] = e
      /\ \A t \in 1 .. Len(exportTasks) : exportTasks'[t] = exportTasks[t]
  BY <1>2, <1>3
<1>5. Len(exportTasks) \in Nat /\ DOMAIN exportTasks = 1 .. Len(exportTasks) /\ DOMAIN exportTasks' = 1 .. Len(exportTasks')
  BY <1>4
<1>6. DOMAIN exportTasks \subseteq DOMAIN exportTasks' /\ Len(exportTasks) + 1 \in DOMAIN exportTasks'
  BY <1>4, <1>5
<1>7. \A t \in DOMAIN exportTasks : exportTasks'[t] = exportTasks[t]
  BY <1>4, <1>5
<1>8. e \in [sale : {s}, status : {"QUEUED", "RUNNING"}]
  BY <1>1
<1>9. ActiveTask(s)'
  BY <1>4, <1>6, <1>8 DEF ActiveTask
<1>10. \A x \in ExportSales : ActiveTask(x) => ActiveTask(x)'
  BY <1>6, <1>7 DEF ActiveTask
<1> QED
  BY <1>4, <1>6, <1>7, <1>9, <1>10

\* A job whose status is set keeps its sale, and the others are as active as they were.
LEMMA GstTaskSet ==
    ASSUME exportTasks \in Seq(ExportTaskRow), NEW t \in DOMAIN exportTasks,
           NEW status \in {"QUEUED", "RUNNING", "SUCCEEDED"}, exportTasks' = [exportTasks EXCEPT ![t].status = status]
    PROVE  /\ exportTasks' \in Seq(ExportTaskRow) /\ DOMAIN exportTasks' = DOMAIN exportTasks
           /\ \A n \in DOMAIN exportTasks : exportTasks'[n].sale = exportTasks[n].sale
           /\ \A x \in ExportSales : ActiveTask(x) /\ (x # exportTasks[t].sale \/ status # "SUCCEEDED") => ActiveTask(x)'
<1>1. PICK n \in Nat : n = Len(exportTasks)
  OBVIOUS
<1>2. exportTasks \in [1 .. n -> ExportTaskRow] /\ DOMAIN exportTasks = 1 .. n
  BY <1>1
<1>3. exportTasks' \in [1 .. n -> ExportTaskRow]
  BY <1>2 DEF ExportTaskRow
<1>4. exportTasks' \in Seq(ExportTaskRow) /\ DOMAIN exportTasks' = DOMAIN exportTasks
  BY <1>2, <1>3
<1>5. /\ exportTasks'[t].sale = exportTasks[t].sale /\ exportTasks'[t].status = status
      /\ \A k \in DOMAIN exportTasks \ {t} : exportTasks'[k] = exportTasks[k]
  BY <1>2 DEF ExportTaskRow
<1>6. ASSUME NEW x \in ExportSales, ActiveTask(x), x # exportTasks[t].sale \/ status # "SUCCEEDED"
      PROVE ActiveTask(x)'
  <2>1. PICK k \in DOMAIN exportTasks : exportTasks[k] \in [sale : {x}, status : {"QUEUED", "RUNNING"}]
    BY <1>6 DEF ActiveTask
  <2>2. CASE k # t
    BY <1>4, <1>5, <2>1, <2>2 DEF ActiveTask
  <2>3. CASE k = t
    <3>1. exportTasks[t].sale = x
      BY <2>1, <2>3
    <3>2. status \in {"QUEUED", "RUNNING"} /\ exportTasks'[t].sale = x /\ exportTasks'[t].status = status
      BY <1>5, <1>6, <3>1
    <3>3. exportTasks'[t] \in ExportTaskRow
      BY <1>2, <1>3
    <3>4. exportTasks'[t] \in [sale : {x}, status : {"QUEUED", "RUNNING"}]
      BY <3>2, <3>3 DEF ExportTaskRow
    <3> QED
      BY <1>4, <3>4 DEF ActiveTask
  <2> QED
    BY <2>2, <2>3
<1> QED
  BY <1>4, <1>5, <1>6

\* A new export is queued with its job.
LEMMA GstStoreExportKeeps ==
    ASSUME GstInv, NEW r \in Desks, StoreExport(r)
    PROVE  GstInv'
<1>1. PICK s \in ExportSales : s = desk[r].sale
  BY DEF GstInv, GstHands, StoreExport, Doing
<1>2. GstTyped /\ exports[s].status = "NONE"
  BY <1>1 DEF GstInv, StoreExport, NoExport
<1>3. exportTasks' = Enqueued(s) /\ exports' = [exports EXCEPT ![s].status = "QUEUED"]
  BY <1>1 DEF StoreExport
<1>4. /\ exportTasks' \in Seq(ExportTaskRow) /\ DOMAIN exportTasks \subseteq DOMAIN exportTasks'
      /\ \A t \in DOMAIN exportTasks : exportTasks'[t] = exportTasks[t]
      /\ ActiveTask(s)' /\ \A x \in ExportSales : ActiveTask(x) => ActiveTask(x)'
  BY <1>2, <1>3, GstEnqueued DEF GstTyped
<1>5. exports' \in [ExportSales -> ExportRow] /\ exports'[s].status = "QUEUED" /\ \A x \in ExportSales \ {s} : exports'[x] = exports[x]
  BY <1>2, <1>3 DEF GstTyped, ExportRow, ExportStatuses
<1>6. UNCHANGED <<irnOf, saleIrn, irpProfile, registered>> /\ Committed(r, {<<"export", s>>})
  BY <1>1 DEF StoreExport
<1>7. blind \subseteq blind'
  BY <1>2, <1>6, DeskCommits DEF GstTyped
<1>8. s \notin irnOf /\ AttachedIsThere /\ AttachmentAgrees /\ PendingHasTask
  BY <1>2 DEF GstInv, AttachedIsThere
<1>9. AttachedIsThere'
  BY <1>2, <1>5, <1>6, <1>8 DEF AttachedIsThere, GstTyped
<1>10. AttachmentAgrees'
  BY <1>5, <1>6, <1>7, <1>8 DEF AttachmentAgrees, Seen
<1>11. PendingHasTask'
  BY <1>4, <1>5, <1>7, <1>8 DEF PendingHasTask, Seen
<1> QED
  BY <1>2, <1>4, <1>5, <1>6, <1>9, <1>10, <1>11, GstLands DEF GstTyped

\* A retry that was not overtaken has read an export that is not attached.
LEMMA GstStoreRetryKeeps ==
    ASSUME GstInv, NEW r \in Desks, StoreRetry(r)
    PROVE  GstInv'
<1>1. PICK s \in ExportSales : s = desk[r].sale
  BY DEF GstInv, GstHands, StoreRetry, Doing
<1>2. GstTyped /\ desk[r].op = "retry" /\ desk[r].status # "IRN_ATTACHED" /\ desk[r].active \in BOOLEAN
  BY DEF GstInv, GstHands, StoreRetry, Doing
<1>3. PICK status : status = StatusColumn(desk[r].status, "RETRY_QUEUED", exports[s].status)
  OBVIOUS
<1>4. status \in {"RETRY_QUEUED", exports[s].status}
  BY <1>3 DEF StatusColumn
<1>5. exports' = [exports EXCEPT ![s].status = status]
  BY <1>1, <1>3 DEF StoreRetry
<1>6. exports' \in [ExportSales -> ExportRow] /\ exports'[s].status = status /\ \A x \in ExportSales \ {s} : exports'[x] = exports[x]
  BY <1>2, <1>4, <1>5 DEF GstTyped, ExportRow, ExportStatuses
<1>7. UNCHANGED <<irnOf, saleIrn, irpProfile, registered>> /\ Committed(r, {<<"export", s>>})
  BY <1>1 DEF StoreRetry
<1>8. blind \subseteq blind' /\ (r \in overtaken => <<"export", s>> \in blind')
  BY <1>2, <1>7, DeskCommits DEF GstTyped
<1>9. /\ exportTasks' \in Seq(ExportTaskRow) /\ DOMAIN exportTasks \subseteq DOMAIN exportTasks'
      /\ \A t \in DOMAIN exportTasks : exportTasks'[t] = exportTasks[t]
      /\ \A x \in ExportSales : ActiveTask(x) => ActiveTask(x)'
      /\ ~desk[r].active => ActiveTask(s)'
  <2>1. CASE desk[r].active
    <3>1. exportTasks' = exportTasks
      BY <1>1, <2>1 DEF StoreRetry, RetriedTasks
    <3> QED
      BY <1>2, <2>1, <3>1 DEF GstTyped, ActiveTask
  <2>2. CASE ~desk[r].active
    <3>1. exportTasks' = Enqueued(s)
      BY <1>1, <2>2 DEF StoreRetry, RetriedTasks
    <3> QED
      BY <1>2, <2>2, <3>1, GstEnqueued DEF GstTyped
  <2> QED
    BY <2>1, <2>2
<1>10. r \notin overtaken => exports[s].status = desk[r].status /\ (desk[r].active => ActiveTask(s))
  BY <1>1, <1>2 DEF GstInv, GstStillTrue, GstChecks
<1>11. AttachedIsThere /\ AttachmentAgrees /\ PendingHasTask
  BY DEF GstInv
<1>12. AttachedIsThere'
  BY <1>2, <1>4, <1>6, <1>7, <1>11 DEF AttachedIsThere, GstTyped
<1>13. AttachmentAgrees'
  <2>1. exports'[s].status = "IRN_ATTACHED" => s \in irnOf
    BY <1>4, <1>6, <1>11 DEF AttachmentAgrees
  <2>2. ~(s \in irnOf /\ Seen("export", s)')
    BY <1>2, <1>8, <1>10, <1>11 DEF AttachmentAgrees, Seen
  <2>3. ASSUME NEW x \in ExportSales
        PROVE  /\ (x \in irnOf) = (saleIrn[x] = "IRN_ATTACHED") /\ (x \in irnOf => x \in registered)
               /\ exports'[x].status = "IRN_ATTACHED" => x \in irnOf
               /\ x \in irnOf /\ Seen("export", x)' => exports'[x].status = "IRN_ATTACHED"
    BY <1>6, <1>8, <1>11, <2>1, <2>2 DEF AttachmentAgrees, Seen
  <2> QED
    BY <1>7, <2>3 DEF AttachmentAgrees, Seen
<1>14. PendingHasTask'
  <2>1. Seen("export", s)' => ActiveTask(s)'
    BY <1>2, <1>8, <1>9, <1>10 DEF Seen
  <2> QED
    BY <1>6, <1>8, <1>9, <1>11, <2>1 DEF PendingHasTask, Seen
<1> QED
  BY <1>2, <1>6, <1>7, <1>9, <1>12, <1>13, <1>14, GstLands DEF GstTyped

\* A handler that finds the export attached ends its job.
LEMMA GstPrepareSkipsKeeps ==
    ASSUME GstInv, NEW r \in Desks, PrepareSkips(r)
    PROVE  GstInv'
<1>1. GstTyped /\ GstHands(r) /\ desk[r].op = "prepare" /\ desk[r].status = "IRN_ATTACHED"
  BY DEF GstInv, PrepareSkips, Doing
<1>2. PICK t \in DOMAIN exportTasks : t = desk[r].task
  BY <1>1 DEF GstHands, InHand
<1>3. PICK s \in ExportSales : s = desk[r].sale
  BY <1>1 DEF GstHands, InHand, HandlerErrand
<1>4. exportTasks[t].sale = s /\ s \in irnOf
  BY <1>1, <1>2, <1>3 DEF GstHands, InHand
<1>5. exportTasks' = [exportTasks EXCEPT ![t].status = "SUCCEEDED"]
  BY <1>2 DEF PrepareSkips, TaskDone
<1>6. /\ exportTasks' \in Seq(ExportTaskRow) /\ DOMAIN exportTasks' = DOMAIN exportTasks
      /\ \A n \in DOMAIN exportTasks : exportTasks'[n].sale = exportTasks[n].sale
      /\ \A x \in ExportSales : ActiveTask(x) /\ x # s => ActiveTask(x)'
  BY <1>1, <1>4, <1>5, GstTaskSet DEF GstTyped
<1>7. UNCHANGED <<exports, irnOf, saleIrn, irpProfile, registered>> /\ Committed(r, {})
  BY DEF PrepareSkips
<1>8. blind \subseteq blind'
  BY <1>1, <1>7, DeskCommits DEF GstTyped
<1>9. AttachedIsThere /\ AttachmentAgrees /\ PendingHasTask
  BY DEF GstInv
<1>10. AttachedIsThere' /\ AttachmentAgrees'
  BY <1>7, <1>8, <1>9 DEF AttachedIsThere, AttachmentAgrees, Seen
<1>11. PendingHasTask'
  <2>1. exports[s].status \notin {"QUEUED", "RETRY_QUEUED"} \/ ~Seen("export", s)
    BY <1>4, <1>9 DEF AttachmentAgrees
  <2> QED
    BY <1>6, <1>7, <1>8, <1>9, <2>1 DEF PendingHasTask, Seen
<1> QED
  BY <1>1, <1>6, <1>7, <1>10, <1>11, GstLands DEF GstTyped

\* What the portal has registered is attached, once.
LEMMA GstStoreAttachmentKeeps ==
    ASSUME GstInv, NEW r \in Desks, StoreAttachment(r)
    PROVE  GstInv'
<1>1. GstTyped /\ GstHands(r) /\ desk[r].op = "attach"
  BY DEF GstInv, StoreAttachment, Doing
<1>2. PICK t \in DOMAIN exportTasks : t = desk[r].task
  BY <1>1 DEF GstHands, InHand
<1>3. PICK s \in ExportSales : s = desk[r].sale
  BY <1>1 DEF GstHands, InHand, HandlerErrand
<1>4. exportTasks[t].sale = s /\ s \in registered
  BY <1>1, <1>2, <1>3 DEF GstHands, InHand
<1>5. exportTasks' = [exportTasks EXCEPT ![t].status = "SUCCEEDED"]
  BY <1>2 DEF StoreAttachment, TaskDone
<1>6. /\ exportTasks' \in Seq(ExportTaskRow) /\ DOMAIN exportTasks' = DOMAIN exportTasks
      /\ \A n \in DOMAIN exportTasks : exportTasks'[n].sale = exportTasks[n].sale
      /\ \A x \in ExportSales : ActiveTask(x) /\ x # s => ActiveTask(x)'
  BY <1>1, <1>4, <1>5, GstTaskSet DEF GstTyped
<1>7. /\ UNCHANGED <<irpProfile, registered>> /\ Committed(r, {<<"export", s>>})
      /\ irnOf' = irnOf \cup {s} /\ saleIrn' = [saleIrn EXCEPT ![s] = "IRN_ATTACHED"]
      /\ exports' = [exports EXCEPT ![s] = [status |-> "IRN_ATTACHED", prepared |-> TRUE]]
  BY <1>3 DEF StoreAttachment
<1>8. blind \subseteq blind'
  BY <1>1, <1>7, DeskCommits DEF GstTyped
<1>9. AttachedIsThere /\ AttachmentAgrees /\ PendingHasTask
  BY DEF GstInv
<1>10. /\ exports' \in [ExportSales -> ExportRow] /\ exports'[s].status = "IRN_ATTACHED"
       /\ \A x \in ExportSales \ {s} : exports'[x] = exports[x]
  BY <1>1, <1>7 DEF GstTyped, ExportRow, ExportStatuses
<1>11. /\ saleIrn' \in [ExportSales -> {"IRN_PENDING", "IRN_ATTACHED"}] /\ saleIrn'[s] = "IRN_ATTACHED"
       /\ \A x \in ExportSales \ {s} : saleIrn'[x] = saleIrn[x]
  BY <1>1, <1>7 DEF GstTyped
<1>12. irnOf \subseteq irnOf' /\ irnOf' \subseteq ExportSales
  BY <1>1, <1>7 DEF GstTyped
<1>13. AttachedIsThere'
  BY <1>7, <1>9, <1>10, <1>12 DEF AttachedIsThere
<1>14. AttachmentAgrees'
  <2>1. ASSUME NEW x \in ExportSales
        PROVE  /\ (x \in irnOf') = (saleIrn'[x] = "IRN_ATTACHED") /\ (x \in irnOf' => x \in registered)
               /\ exports'[x].status = "IRN_ATTACHED" => x \in irnOf'
               /\ x \in irnOf' /\ Seen("export", x)' => exports'[x].status = "IRN_ATTACHED"
    <3>1. CASE x = s
      BY <1>4, <1>7, <1>10, <1>11, <3>1
    <3>2. CASE x # s
      <4>1. x \in irnOf' <=> x \in irnOf
        BY <1>7, <3>2
      <4> QED
        BY <1>8, <1>9, <1>10, <1>11, <3>2, <4>1 DEF AttachmentAgrees, Seen
    <3> QED
      BY <3>1, <3>2
  <2> QED
    BY <1>7, <2>1 DEF AttachmentAgrees, Seen
<1>15. PendingHasTask'
  BY <1>6, <1>8, <1>9, <1>10 DEF PendingHasTask, Seen
<1> QED
  BY <1>6, <1>7, <1>10, <1>11, <1>12, <1>13, <1>14, <1>15, GstLands

\* A refusal that was not overtaken finds the export unattached, as it has read it.
LEMMA GstStoreRefusalKeeps ==
    ASSUME GstInv, NEW r \in Desks, StoreRefusal(r)
    PROVE  GstInv'
<1>1. GstTyped /\ GstHands(r) /\ desk[r].op \in InHand /\ desk[r].status # "IRN_ATTACHED"
  BY DEF GstInv, GstHands, StoreRefusal, Doing, InHand
<1>2. PICK t \in DOMAIN exportTasks : t = desk[r].task
  BY <1>1 DEF GstHands
<1>3. PICK s \in ExportSales : s = desk[r].sale
  BY <1>1 DEF GstHands, HandlerErrand
<1>4. exportTasks[t].sale = s /\ desk[r].prepared \in BOOLEAN
  BY <1>1, <1>2, <1>3 DEF GstHands, HandlerErrand
<1>5. exportTasks' = [exportTasks EXCEPT ![t].status = "SUCCEEDED"]
  BY <1>2 DEF StoreRefusal, TaskDone
<1>6. /\ exportTasks' \in Seq(ExportTaskRow) /\ DOMAIN exportTasks' = DOMAIN exportTasks
      /\ \A n \in DOMAIN exportTasks : exportTasks'[n].sale = exportTasks[n].sale
      /\ \A x \in ExportSales : ActiveTask(x) /\ x # s => ActiveTask(x)'
  BY <1>1, <1>4, <1>5, GstTaskSet DEF GstTyped
<1>7. UNCHANGED <<irnOf, saleIrn, irpProfile, registered>> /\ Committed(r, {<<"export", s>>})
  BY <1>3 DEF StoreRefusal
<1>8. blind \subseteq blind' /\ (r \in overtaken => <<"export", s>> \in blind')
  BY <1>1, <1>7, DeskCommits DEF GstTyped
<1>9. AttachedIsThere /\ AttachmentAgrees /\ PendingHasTask
  BY DEF GstInv
<1>10. PICK status : status = StatusColumn(desk[r].status, "ACTION_REQUIRED", exports[s].status)
  OBVIOUS
<1>11. PICK prepared \in BOOLEAN : prepared = (exports[s].prepared \/ desk[r].prepared)
  BY <1>4
<1>12. exports' = [exports EXCEPT ![s] = [status |-> status, prepared |-> prepared]]
  BY <1>3, <1>10, <1>11 DEF StoreRefusal
<1>13. status \in {"ACTION_REQUIRED", exports[s].status} /\ (exports[s].status = desk[r].status => status = "ACTION_REQUIRED")
  BY <1>10 DEF StatusColumn
<1>14. exports' \in [ExportSales -> ExportRow] /\ exports'[s].status = status /\ \A x \in ExportSales \ {s} : exports'[x] = exports[x]
  BY <1>1, <1>12, <1>13 DEF GstTyped, ExportRow, ExportStatuses
<1>15. r \notin overtaken => exports[s].status = desk[r].status
  BY <1>1, <1>3 DEF GstInv, GstStillTrue, GstChecks
<1>16. AttachedIsThere'
  BY <1>1, <1>7, <1>9, <1>13, <1>14 DEF AttachedIsThere, GstTyped
<1>17. AttachmentAgrees'
  <2>1. exports'[s].status = "IRN_ATTACHED" => s \in irnOf
    BY <1>9, <1>13, <1>14 DEF AttachmentAgrees
  <2>2. ~(s \in irnOf /\ Seen("export", s)')
    BY <1>1, <1>8, <1>9, <1>15 DEF AttachmentAgrees, Seen
  <2>3. ASSUME NEW x \in ExportSales
        PROVE  /\ (x \in irnOf) = (saleIrn[x] = "IRN_ATTACHED") /\ (x \in irnOf => x \in registered)
               /\ exports'[x].status = "IRN_ATTACHED" => x \in irnOf
               /\ x \in irnOf /\ Seen("export", x)' => exports'[x].status = "IRN_ATTACHED"
    BY <1>8, <1>9, <1>14, <2>1, <2>2 DEF AttachmentAgrees, Seen
  <2> QED
    BY <1>7, <2>3 DEF AttachmentAgrees, Seen
<1>18. PendingHasTask'
  <2>1. exports'[s].status \notin {"QUEUED", "RETRY_QUEUED"} \/ ~Seen("export", s)'
    BY <1>8, <1>13, <1>14, <1>15 DEF Seen
  <2> QED
    BY <1>6, <1>8, <1>9, <1>14, <2>1 DEF PendingHasTask, Seen
<1> QED
  BY <1>1, <1>6, <1>7, <1>14, <1>16, <1>17, <1>18, GstLands DEF GstTyped

\* A job that is leased has its handler, which reads the rows as they are.
LEMMA GstRunPrepareKeeps ==
    ASSUME GstInv, NEW r \in Desks, NEW t \in DOMAIN exportTasks, RunPrepare(r, t)
    PROVE  GstInv'
<1>1. GstTyped
  BY DEF GstInv
<1>2. PICK s \in ExportSales : s = exportTasks[t].sale
  <2>1. exportTasks[t] \in ExportTaskRow
    BY <1>1 DEF GstTyped
  <2> QED
    BY <2>1 DEF ExportTaskRow
<1>3. exportTasks' = [exportTasks EXCEPT ![t].status = "RUNNING"]
  BY DEF RunPrepare
<1>4. /\ exportTasks' \in Seq(ExportTaskRow) /\ DOMAIN exportTasks' = DOMAIN exportTasks
      /\ \A n \in DOMAIN exportTasks : exportTasks'[n].sale = exportTasks[n].sale
      /\ \A x \in ExportSales : ActiveTask(x) => ActiveTask(x)'
  BY <1>1, <1>3, GstTaskSet DEF GstTyped
<1>5. PICK d : d = [op |-> "prepare", task |-> t, sale |-> s, status |-> exports[s].status,
                    prepared |-> exports[s].prepared, profile |-> irpProfile]
  OBVIOUS
<1>6. /\ desk' = [desk EXCEPT ![r] = d] /\ UNCHANGED <<overtaken, blind>>
      /\ UNCHANGED <<exports, irnOf, saleIrn, irpProfile, registered>>
  BY <1>2, <1>5 DEF RunPrepare, Answered
<1>7. /\ d \in HandlerErrand /\ d.op = "prepare" /\ d.task = t /\ d.sale = s /\ d.status = exports[s].status
  BY <1>1, <1>5 DEF GstTyped, ExportRow, HandlerErrand
<1>8. desk'[r] = d
  BY <1>1, <1>6 DEF GstTyped, OneRequestEach
<1>9. d.status = "IRN_ATTACHED" => s \in irnOf
  BY <1>7 DEF GstInv, AttachmentAgrees
<1>10. GstHands(r)'
  BY <1>2, <1>4, <1>6, <1>7, <1>8, <1>9 DEF GstHands, InHand
<1>11. GstChecks(r)'
  BY <1>6, <1>7, <1>8 DEF GstChecks, InHand
<1> QED
  BY <1>4, <1>6, <1>10, <1>11, GstGoesOn

\* The portal's answer is in hand: the invoice is registered, or refused.
LEMMA GstSubmitKeeps ==
    ASSUME GstInv, NEW r \in Desks, SubmitIrn(r) \/ SubmitRefused(r)
    PROVE  GstInv'
<1>1. GstTyped /\ GstHands(r) /\ desk[r].op = "prepare" /\ desk[r].status # "IRN_ATTACHED"
  BY DEF GstInv, SubmitIrn, SubmitRefused, Submits, Doing
<1>2. PICK e \in HandlerErrand : e = desk[r]
  BY <1>1 DEF GstHands, InHand
<1>3. PICK op \in {"attach", "refuse"}, prepared \in BOOLEAN :
         /\ Answer(r, op, prepared) /\ (op = "attach" => e.sale \in registered') /\ registered \subseteq registered'
  BY <1>2 DEF SubmitIrn, SubmitRefused, gstVars
<1>4. UNCHANGED <<exports, irnOf, saleIrn, irpProfile, exportTasks>>
  BY DEF SubmitIrn, SubmitRefused, gstVars
<1>5. PICK d : d = [e EXCEPT !.op = op, !.prepared = prepared]
  OBVIOUS
<1>6. desk' = [desk EXCEPT ![r] = d] /\ UNCHANGED <<overtaken, blind>>
  BY <1>2, <1>3, <1>5 DEF Answer, Answered
<1>7. d \in HandlerErrand /\ d.op = op /\ d.task = e.task /\ d.sale = e.sale /\ d.status = e.status
  BY <1>5 DEF HandlerErrand
<1>8. desk'[r] = d
  BY <1>1, <1>6 DEF GstTyped, OneRequestEach
<1>9. GstHands(r)'
  <2>1. e.task \in DOMAIN exportTasks /\ exportTasks[e.task].sale = e.sale /\ e.status # "IRN_ATTACHED"
    BY <1>1, <1>2 DEF GstHands, InHand
  <2> QED
    BY <1>3, <1>4, <1>7, <1>8, <2>1 DEF GstHands, InHand
<1>10. r \notin overtaken => GstChecks(r)'
  <2>1. r \notin overtaken => exports[e.sale].status = e.status
    BY <1>1, <1>2 DEF GstInv, GstStillTrue, GstChecks, InHand
  <2> QED
    BY <1>3, <1>4, <1>7, <1>8, <2>1 DEF GstChecks
<1>11. /\ exportTasks' \in Seq(ExportTaskRow) /\ DOMAIN exportTasks' = DOMAIN exportTasks
       /\ \A n \in DOMAIN exportTasks : exportTasks'[n].sale = exportTasks[n].sale
       /\ \A x \in ExportSales : ActiveTask(x) => ActiveTask(x)'
  BY <1>1, <1>4 DEF GstTyped, ActiveTask
<1> QED
  BY <1>3, <1>4, <1>6, <1>9, <1>10, <1>11, GstGoesOn

\* A request that fails leaves the rows, and at most an invoice that the portal has registered.
LEMMA GstFailsKeeps ==
    ASSUME GstInv, NEW r \in Desks, GstRequestFails(r) \/ SubmitFails(r)
    PROVE  GstInv'
<1>1. GstTyped /\ RolledBack(r) /\ UNCHANGED <<exports, irnOf, saleIrn, irpProfile, exportTasks>> /\ registered \subseteq registered'
  BY DEF GstInv, GstRequestFails, SubmitFails, gstVars
<1>2. /\ OneRequestEach' /\ UNCHANGED blind /\ desk'[r].op = "none" /\ r \notin overtaken'
      /\ \A q \in Desks \ {r} : desk'[q] = desk[q] /\ (q \in overtaken' <=> q \in overtaken)
  BY <1>1, DeskRollsBack DEF GstTyped
<1>3. GstTyped'
  BY <1>1, <1>2 DEF GstTyped
<1>4. ASSUME NEW q \in Desks PROVE GstHands(q)' /\ (q \notin overtaken' => GstChecks(q)')
  <2>1. CASE q = r
    BY <1>2, <2>1 DEF GstHands, GstChecks, InHand
  <2>2. CASE q # r
    <3>1. desk'[q] = desk[q] /\ GstHands(q) /\ (q \notin overtaken' => GstChecks(q))
      BY <1>2, <2>2 DEF GstInv, GstStillTrue
    <3>2. ActiveTask(desk[q].sale) => ActiveTask(desk[q].sale)'
      BY <1>1, <3>1 DEF ActiveTask
    <3>3. GstHands(q)'
      BY <1>1, <3>1 DEF GstHands, InHand
    <3>4. GstChecks(q) => GstChecks(q)'
      BY <1>1, <3>1, <3>2 DEF GstChecks, ActiveTask
    <3> QED
      BY <3>1, <3>3, <3>4
  <2> QED
    BY <2>1, <2>2
<1>5. GstStillTrue'
  BY <1>4 DEF GstStillTrue
<1>6. AttachedIsThere' /\ AttachmentAgrees'
  BY <1>1, <1>2 DEF GstInv, AttachedIsThere, AttachmentAgrees, Seen
<1>7. PendingHasTask'
  BY <1>1, <1>2 DEF GstInv, PendingHasTask, Seen, ActiveTask
<1> QED
  BY <1>3, <1>4, <1>5, <1>6, <1>7 DEF GstInv

\* A lease that lapses puts its job back in the queue: it is as active as it was.
LEMMA GstLapsesKeeps ==
    ASSUME GstInv, NEW t \in DOMAIN exportTasks, TaskLapses(t)
    PROVE  GstInv'
<1>1. /\ GstTyped /\ exportTasks' = [exportTasks EXCEPT ![t].status = "QUEUED"]
      /\ UNCHANGED <<desk, overtaken, blind, exports, irnOf, saleIrn, irpProfile, registered>>
  BY DEF GstInv, TaskLapses, deskVars
<1>2. /\ exportTasks' \in Seq(ExportTaskRow) /\ DOMAIN exportTasks' = DOMAIN exportTasks
      /\ \A n \in DOMAIN exportTasks : exportTasks'[n].sale = exportTasks[n].sale
      /\ \A x \in ExportSales : ActiveTask(x) => ActiveTask(x)'
  BY <1>1, GstTaskSet DEF GstTyped
<1>3. GstTyped'
  BY <1>1, <1>2 DEF GstTyped, OneRequestEach
<1>4. ASSUME NEW q \in Desks PROVE GstHands(q)'
  <2>1. GstHands(q)
    BY DEF GstInv
  <2> QED
    BY <1>1, <1>2, <2>1 DEF GstHands, InHand
<1>5. GstStillTrue'
  <2>1. ASSUME NEW q \in Desks, q \notin overtaken PROVE GstChecks(q)'
    <3>1. GstChecks(q) /\ GstHands(q)
      BY <2>1 DEF GstInv, GstStillTrue
    <3> QED
      BY <1>1, <1>2, <3>1 DEF GstChecks, GstHands
  <2> QED
    BY <1>1, <2>1 DEF GstStillTrue
<1>6. AttachedIsThere' /\ AttachmentAgrees'
  BY <1>1 DEF GstInv, AttachedIsThere, AttachmentAgrees, Seen
<1>7. PendingHasTask'
  BY <1>1, <1>2 DEF GstInv, PendingHasTask, Seen
<1> QED
  BY <1>3, <1>4, <1>5, <1>6, <1>7 DEF GstInv

\* The profile is no part of what the rows agree on.
LEMMA GstProfileKeeps ==
    ASSUME GstInv, UpsertIrpProfile
    PROVE  GstInv'
<1>1. /\ GstTyped /\ irpProfile' = TRUE /\ AtOnce
      /\ UNCHANGED <<exports, irnOf, saleIrn, exportTasks, registered>>
  BY DEF GstInv, UpsertIrpProfile
<1>2. UNCHANGED <<desk, blind>> /\ \A q \in Desks : q \notin overtaken' => desk[q].op = "none"
  BY <1>1, DeskAtOnce
<1>3. GstTyped'
  BY <1>1, <1>2 DEF GstTyped, OneRequestEach
<1>4. ASSUME NEW q \in Desks PROVE GstHands(q)'
  <2>1. GstHands(q)
    BY DEF GstInv
  <2> QED
    BY <1>1, <1>2, <2>1 DEF GstHands, InHand
<1>5. GstStillTrue'
  BY <1>2 DEF GstStillTrue, GstChecks, InHand
<1>6. AttachedIsThere' /\ AttachmentAgrees'
  BY <1>1, <1>2 DEF GstInv, AttachedIsThere, AttachmentAgrees, Seen
<1>7. PendingHasTask'
  BY <1>1, <1>2 DEF GstInv, PendingHasTask, Seen, ActiveTask
<1> QED
  BY <1>3, <1>4, <1>5, <1>6, <1>7 DEF GstInv

\* A step without a move of the exports or the desks.
LEMMA GstStands == GstInv /\ UNCHANGED <<deskVars, gstVars>> => GstInv'
BY DEF GstInv, GstTyped, OneRequestEach, GstHands, GstStillTrue, GstChecks, InHand, AttachedIsThere,
       AttachmentAgrees, PendingHasTask, ActiveTask, Seen, deskVars, gstVars

\* Every step keeps the invariant.
LEMMA GstStepInv == GstInv /\ [GstExportNext]_<<deskVars, gstVars>> => GstInv'
<1> SUFFICES ASSUME GstInv, [GstExportNext]_<<deskVars, gstVars>> PROVE GstInv'
  OBVIOUS
<1>1. CASE UNCHANGED <<deskVars, gstVars>>
  BY <1>1, GstStands
<1>2. CASE UpsertIrpProfile
  BY <1>2, GstProfileKeeps
<1>3. CASE \E r \in Desks, s \in ExportSales : CreateExport(r, s) \/ RetryExport(r, s)
  BY <1>3, GstReads
<1>4. CASE \E r \in Desks : StoreExport(r) \/ StoreRetry(r) \/ StoreAttachment(r) \/ StoreRefusal(r) \/ PrepareSkips(r)
  BY <1>4, GstStoreExportKeeps, GstStoreRetryKeeps, GstStoreAttachmentKeeps, GstStoreRefusalKeeps, GstPrepareSkipsKeeps
<1>5. CASE \E r \in Desks : SubmitIrn(r) \/ SubmitRefused(r) \/ SubmitFails(r) \/ GstRequestFails(r)
  BY <1>5, GstSubmitKeeps, GstFailsKeeps
<1>6. CASE \E r \in Desks, t \in DOMAIN exportTasks : RunPrepare(r, t)
  BY <1>6, GstRunPrepareKeeps
<1>7. CASE \E t \in DOMAIN exportTasks : TaskLapses(t)
  BY <1>7, GstLapsesKeeps
<1> QED
  BY <1>1, <1>2, <1>3, <1>4, <1>5, <1>6, <1>7 DEF GstExportNext

\* The inductive invariant of the exports, their jobs and the portal.
THEOREM GstInvariant == GstExportSpec => []GstInv
<1> QED
  BY GstInitInv, GstStepInv, PTL DEF GstExportSpec

\* For any sales, requests and bounds the rows of an export agree with each other, with the portal and
\* with the queue.
THEOREM GstExportsAgree == GstExportSpec => []ExportsAgree
<1>1. GstInv => ExportsAgree
  BY DEF GstInv, ExportsAgree
<1> QED
  BY <1>1, GstInvariant, PTL

-----------------------------------------------------------------------------
(* Suppliers' accounts. *)

-----------------------------------------------------------------------------
(* Suppliers' accounts. *)

FactTypes == {"invoice", "return", "payment", "dispute", "resolution"}
FactRow == [type : FactTypes, receipt : GoodsReceipts, amount : Nat, lines : Nat]
SnapshotRow == [shows : Nat, dirty : BOOLEAN]
FactErrand == [op : {"fact"}, fact : FactRow, dirty : SUBSET Nat, rows : SUBSET Nat]
RefreshErrand == [op : {"refresh"}, shows : Nat, row : Nat, job : BOOLEAN, dirty : SUBSET Nat]

LedgerTyped == facts \in Seq(FactRow) /\ snapshots \in Seq(SnapshotRow) /\ OneRequestEach

LedgerHands(r) ==
    /\ desk[r].op = "fact" => desk[r] \in FactErrand
    /\ desk[r].op = "refresh" => desk[r] \in RefreshErrand /\ (desk[r].row = 0 \/ desk[r].row \in DOMAIN snapshots)

\* What a payment or a return of one line was compared with.
Allowed(l, f) ==
    /\ f.type = "payment" => f.amount <= Outstanding(l, f.receipt)
    /\ f.type = "return" /\ f.lines = 1 => Total(l, "return", f.receipt) + f.amount <= ReceiptTotal[f.receipt]

\* What a request that was not overtaken has read is so.
LedgerChecks(r) ==
    /\ desk[r].op = "fact" => Allowed(facts, desk[r].fact) /\ desk[r].dirty = DirtyNow /\ desk[r].rows = DOMAIN snapshots
    /\ desk[r].op = "refresh" => desk[r].shows = Len(facts)

LedgerStillTrue == \A r \in Desks : r \notin overtaken => LedgerChecks(r)

Booked == \A n \in DOMAIN facts : Seen("fact", n) => Allowed(SubSeq(facts, 1, n - 1), facts[n])

LedgerInv ==
    /\ LedgerTyped /\ (\A r \in Desks : LedgerHands(r)) /\ LedgerStillTrue
    /\ Booked /\ CleanIsCurrent

\* What is billed, returned or paid is a natural number.
LEMMA TotalIsNatural ==
    ASSUME NEW l, l \in Seq(FactRow), NEW type, NEW g
    PROVE  Total(l, type, g) \in Nat
<1>1. PICK s : s = [n \in DOMAIN l |-> IF l[n].type = type /\ l[n].receipt = g THEN l[n].amount ELSE 0]
  OBVIOUS
<1>2. PICK k \in Nat : k = Len(l) /\ DOMAIN l = 1 .. k
  OBVIOUS
<1>3. \A n \in 1 .. k : l[n].amount \in Nat
  <2>1. \A n \in 1 .. k : l[n] \in FactRow
    BY <1>2
  <2> QED
    BY <2>1 DEF FactRow
<1>4. s \in [1 .. k -> Nat]
  BY <1>1, <1>2, <1>3
<1>5. s \in Seq(Nat)
  BY <1>4
<1> QED
  BY <1>1, <1>5, AddedNaturals DEF Total

\* Suppliers without an account.
LedgerEmpty == facts = <<>> /\ snapshots = <<>> /\ refreshJob = "none"

\* They are owed nothing, and no report shows it.
LEMMA LedgerBegins ==
    ASSUME LedgerEmpty
    PROVE  Booked /\ CleanIsCurrent /\ NeverOverpaid
<1>1. ASSUME NEW g \in GoodsReceipts PROVE ~Billed(g)
  <2>1. Total(facts, "invoice", g) = 0
    BY AddedNothing DEF LedgerEmpty, Total
  <2> QED
    BY <2>1 DEF Billed
<1> QED
  BY <1>1 DEF LedgerEmpty, Booked, CleanIsCurrent, NeverOverpaid

\* The accounts begin with no request in hand.
LEMMA LedgerInitInv == SupplierLedgerInit => LedgerInv
<1> SUFFICES ASSUME SupplierLedgerInit PROVE LedgerInv
  OBVIOUS
<1>1. LedgerEmpty /\ OneRequestEach
  BY DEF SupplierLedgerInit, DeskInit, LedgerEmpty, OneRequestEach
<1>2. LedgerTyped
  BY <1>1 DEF LedgerTyped, LedgerEmpty
<1>3. \A r \in Desks : desk[r].op = "none"
  BY DEF SupplierLedgerInit, DeskInit, Idle
<1>4. (\A r \in Desks : LedgerHands(r)) /\ LedgerStillTrue
  BY <1>3 DEF LedgerHands, LedgerStillTrue, LedgerChecks
<1> QED
  BY <1>1, <1>2, <1>4, LedgerBegins DEF LedgerInv

\* A request that reads has in hand what it has read; the rows stay.
LEMMA LedgerGoesOn ==
    ASSUME LedgerInv, NEW r \in Desks, NEW e, Checked(r, e), UNCHANGED <<facts, snapshots>>,
           e.op \in {"fact", "refresh"},
           e.op = "fact" => /\ e \in FactErrand
                            /\ Allowed(facts, e.fact) /\ e.dirty = DirtyNow /\ e.rows = DOMAIN snapshots,
           e.op = "refresh" => /\ e \in RefreshErrand /\ (e.row = 0 \/ e.row \in DOMAIN snapshots)
                               /\ e.shows = Len(facts)
    PROVE  LedgerInv'
<1>0. OneRequestEach
  BY DEF LedgerInv, LedgerTyped
<1>1. /\ OneRequestEach' /\ desk'[r] = e /\ UNCHANGED <<overtaken, blind>>
      /\ \A q \in Desks \ {r} : desk'[q] = desk[q]
  BY <1>0, DeskChecks
<1>2. LedgerTyped'
  BY <1>1 DEF LedgerInv, LedgerTyped
<1>3. ASSUME NEW q \in Desks PROVE LedgerHands(q)'
  <2>1. CASE q = r
    BY <1>1, <2>1 DEF LedgerHands
  <2>2. CASE q # r
    <3>1. LedgerHands(q) /\ desk'[q] = desk[q]
      BY <1>1, <2>2 DEF LedgerInv
    <3> QED
      BY <3>1 DEF LedgerHands
  <2> QED
    BY <2>1, <2>2
<1>4. ASSUME NEW q \in Desks, q \notin overtaken' PROVE LedgerChecks(q)'
  <2>1. CASE q = r
    BY <1>1, <2>1 DEF LedgerChecks, Allowed, Outstanding, DirtyNow
  <2>2. CASE q # r
    <3>1. LedgerChecks(q) /\ desk'[q] = desk[q]
      BY <1>1, <1>4, <2>2 DEF LedgerInv, LedgerStillTrue
    <3> QED
      BY <3>1 DEF LedgerChecks, Allowed, Outstanding, DirtyNow
  <2> QED
    BY <2>1, <2>2
<1>5. LedgerStillTrue'
  BY <1>4 DEF LedgerStillTrue
<1>6. Booked' /\ CleanIsCurrent'
  BY <1>1 DEF LedgerInv, Booked, CleanIsCurrent, Seen, Allowed, Outstanding
<1> QED
  BY <1>2, <1>3, <1>5, <1>6 DEF LedgerInv

\* A fact is what the row of its type holds, and allowed as the facts are.
LEMMA LedgerRecords ==
    ASSUME LedgerInv, NEW r \in Desks, NEW f \in FactRow, Records(r, f), Allowed(facts, f)
    PROVE  LedgerInv'
<1>1. PICK e : e = [op |-> "fact", fact |-> f, dirty |-> DirtyNow, rows |-> DOMAIN snapshots]
  OBVIOUS
<1>2. Checked(r, e) /\ UNCHANGED <<facts, snapshots>>
  BY <1>1 DEF Records, Asks, supplierRows
<1>3. DirtyNow \subseteq Nat /\ DOMAIN snapshots \subseteq Nat
  BY DEF LedgerInv, LedgerTyped, DirtyNow
<1>4. /\ e \in FactErrand /\ e.op = "fact" /\ e.fact = f /\ e.dirty = DirtyNow /\ e.rows = DOMAIN snapshots
  BY <1>1, <1>3 DEF FactErrand
<1> QED
  BY <1>2, <1>4, LedgerGoesOn

\* Every request of the procurement reads what it is compared with.
LEMMA LedgerReads ==
    ASSUME LedgerInv, NEW r \in Desks, NEW g \in GoodsReceipts, NEW q \in 1 .. ReceiptTotal[g], NEW lines \in 1 .. 2,
           \/ CreatePurchaseInvoice(r, g) \/ CreateVendorDispute(r, g)
           \/ CreateSupplierPayment(r, g, q) \/ CreateSupplierReturn(r, g, q, lines)
    PROVE  LedgerInv'
<1>0. ReceiptTotal[g] \in Nat /\ q \in Nat /\ lines \in Nat
  BY SupplierLedgerAssumption
<1>1. CASE CreatePurchaseInvoice(r, g)
  <2>1. PICK f : f = [type |-> "invoice", receipt |-> g, amount |-> ReceiptTotal[g], lines |-> 1]
    OBVIOUS
  <2>2. f \in FactRow /\ Allowed(facts, f) /\ Records(r, f)
    BY <1>0, <1>1, <2>1 DEF FactRow, FactTypes, Allowed, CreatePurchaseInvoice
  <2> QED
    BY <2>2, LedgerRecords
<1>2. CASE CreateVendorDispute(r, g)
  <2>1. PICK f : f = [type |-> "dispute", receipt |-> g, amount |-> 0, lines |-> 1]
    OBVIOUS
  <2>2. f \in FactRow /\ Allowed(facts, f) /\ Records(r, f)
    BY <1>2, <2>1 DEF FactRow, FactTypes, Allowed, CreateVendorDispute
  <2> QED
    BY <2>2, LedgerRecords
<1>3. CASE CreateSupplierPayment(r, g, q)
  <2>1. PICK f : f = [type |-> "payment", receipt |-> g, amount |-> q, lines |-> 1]
    OBVIOUS
  <2>2. f \in FactRow /\ Records(r, f)
    BY <1>0, <1>3, <2>1 DEF FactRow, FactTypes, CreateSupplierPayment
  <2>3. Allowed(facts, f)
    BY <1>3, <2>1 DEF Allowed, CreateSupplierPayment, Payable
  <2> QED
    BY <2>2, <2>3, LedgerRecords
<1>4. CASE CreateSupplierReturn(r, g, q, lines)
  <2>0. PICK amount \in Nat : amount = q * lines /\ (lines = 1 => amount = q)
    BY <1>0
  <2>1. PICK f : f = [type |-> "return", receipt |-> g, amount |-> amount, lines |-> lines]
    OBVIOUS
  <2>2. f \in FactRow /\ Records(r, f)
    BY <1>0, <1>4, <2>0, <2>1 DEF FactRow, FactTypes, CreateSupplierReturn
  <2>3. PICK returned \in Nat : returned = Total(facts, "return", g)
    BY TotalIsNatural DEF LedgerInv, LedgerTyped
  <2>4. q <= ReceiptTotal[g] - returned
    BY <1>4, <2>3 DEF CreateSupplierReturn, Returnable
  <2>5. lines = 1 => returned + amount <= ReceiptTotal[g]
    BY <1>0, <2>0, <2>4
  <2>6. Allowed(facts, f)
    BY <2>1, <2>3, <2>5 DEF Allowed
  <2> QED
    BY <2>2, <2>6, LedgerRecords
<1> QED
  BY <1>1, <1>2, <1>3, <1>4

\* A dispute is resolved by a fact of its own.
LEMMA LedgerResolves ==
    ASSUME LedgerInv, NEW r \in Desks, NEW n \in DOMAIN facts, ResolveVendorDispute(r, n)
    PROVE  LedgerInv'
<1>1. facts[n] \in FactRow /\ n \in Nat
  BY DEF LedgerInv, LedgerTyped
<1>2. PICK f : f = [type |-> "resolution", receipt |-> facts[n].receipt, amount |-> 0, lines |-> n]
  OBVIOUS
<1>3. f \in FactRow /\ Allowed(facts, f) /\ Records(r, f)
  BY <1>1, <1>2 DEF FactRow, FactTypes, Allowed, ResolveVendorDispute
<1> QED
  BY <1>3, LedgerRecords

\* A refresh reads all the facts.
LEMMA LedgerRefreshes ==
    ASSUME LedgerInv, NEW r \in Desks, SeedSnapshot(r) \/ \E n \in DOMAIN snapshots : RunRefresh(r, n)
    PROVE  LedgerInv'
<1>1. Len(facts) \in Nat /\ DOMAIN snapshots \subseteq Nat /\ DirtyNow \subseteq Nat
  BY DEF LedgerInv, LedgerTyped, DirtyNow
<1>2. CASE SeedSnapshot(r)
  <2>1. PICK e : e = [op |-> "refresh", shows |-> Len(facts), row |-> 0, job |-> FALSE, dirty |-> {}]
    OBVIOUS
  <2>2. Checked(r, e) /\ UNCHANGED <<facts, snapshots>>
    BY <1>2, <2>1 DEF SeedSnapshot, Asks, supplierRows
  <2>3. e \in RefreshErrand /\ e.op = "refresh" /\ e.row = 0 /\ e.shows = Len(facts)
    BY <1>1, <2>1 DEF RefreshErrand
  <2> QED
    BY <2>2, <2>3, LedgerGoesOn
<1>3. ASSUME NEW n \in DOMAIN snapshots, RunRefresh(r, n) PROVE LedgerInv'
  <2>1. PICK e : e = [op |-> "refresh", shows |-> Len(facts), row |-> n, job |-> TRUE, dirty |-> DirtyNow]
    OBVIOUS
  <2>2. Checked(r, e) /\ UNCHANGED <<facts, snapshots>>
    BY <1>3, <2>1 DEF RunRefresh
  <2>3. e \in RefreshErrand /\ e.op = "refresh" /\ e.row = n /\ e.shows = Len(facts)
    BY <1>1, <2>1 DEF RefreshErrand
  <2> QED
    BY <2>2, <2>3, LedgerGoesOn
<1> QED
  BY <1>2, <1>3

\* A commit leaves what the other requests have in hand, which it overtakes.
LEMMA LedgerLands ==
    ASSUME LedgerInv, NEW r \in Desks, NEW rows, Committed(r, rows),
           facts' \in Seq(FactRow), snapshots' \in Seq(SnapshotRow), DOMAIN snapshots \subseteq DOMAIN snapshots',
           Booked', CleanIsCurrent'
    PROVE  LedgerInv'
<1>0. OneRequestEach
  BY DEF LedgerInv, LedgerTyped
<1>1. /\ OneRequestEach' /\ \A q \in Desks : desk'[q].op = "none" \/ desk'[q] = desk[q]
      /\ \A q \in Desks : q \notin overtaken' => desk'[q].op = "none"
  BY <1>0, DeskCommits
<1>2. LedgerTyped'
  BY <1>1 DEF LedgerTyped
<1>3. ASSUME NEW q \in Desks PROVE LedgerHands(q)'
  <2>1. CASE desk'[q].op = "none"
    BY <2>1 DEF LedgerHands
  <2>2. CASE desk'[q] = desk[q]
    <3>1. LedgerHands(q)
      BY DEF LedgerInv
    <3> QED
      BY <2>2, <3>1 DEF LedgerHands
  <2> QED
    BY <1>1, <2>1, <2>2
<1>4. LedgerStillTrue'
  BY <1>1 DEF LedgerStillTrue, LedgerChecks
<1> QED
  BY <1>2, <1>3, <1>4 DEF LedgerInv

\* Rows that are marked are the rows there were.
LEMMA MarkedRows ==
    ASSUME snapshots \in Seq(SnapshotRow), NEW seen, NEW rows
    PROVE  /\ Marked(seen, rows) \in Seq(SnapshotRow) /\ DOMAIN Marked(seen, rows) = DOMAIN snapshots
           /\ \A n \in DOMAIN snapshots :
                 /\ Marked(seen, rows)[n].shows = snapshots[n].shows
                 /\ Marked(seen, rows)[n].dirty = (n \in rows \ seen \/ snapshots[n].dirty)
<1>1. PICK s : s = Marked(seen, rows)
  OBVIOUS
<1>2. PICK k \in Nat : k = Len(snapshots) /\ DOMAIN snapshots = 1 .. k /\ snapshots \in [1 .. k -> SnapshotRow]
  OBVIOUS
<1>3. s = [n \in 1 .. k |-> IF n \in rows \ seen THEN [snapshots[n] EXCEPT !.dirty = TRUE] ELSE snapshots[n]]
  BY <1>1, <1>2 DEF Marked
<1>4. ASSUME NEW n \in 1 .. k
      PROVE  s[n] \in SnapshotRow /\ s[n].shows = snapshots[n].shows /\ s[n].dirty = (n \in rows \ seen \/ snapshots[n].dirty)
  <2>1. snapshots[n] \in SnapshotRow
    BY <1>2
  <2>2. CASE n \in rows \ seen
    <3>1. s[n] = [snapshots[n] EXCEPT !.dirty = TRUE]
      BY <1>3, <2>2
    <3> QED
      BY <2>1, <2>2, <3>1 DEF SnapshotRow
  <2>3. CASE n \notin rows \ seen
    <3>1. s[n] = snapshots[n]
      BY <1>3, <2>3
    <3>2. snapshots[n].dirty \in BOOLEAN
      BY <2>1 DEF SnapshotRow
    <3>3. (n \in rows \ seen \/ snapshots[n].dirty) = snapshots[n].dirty
      BY <2>3, <3>2
    <3> QED
      BY <2>1, <3>1, <3>3
  <2> QED
    BY <2>2, <2>3
<1>5. DOMAIN s = 1 .. k /\ s \in [1 .. k -> SnapshotRow]
  BY <1>3, <1>4
<1>6. s \in Seq(SnapshotRow)
  BY <1>5
<1> QED
  BY <1>1, <1>2, <1>4, <1>5, <1>6

\* A fact is booked with the marks.
LEMMA LedgerStoreFactKeeps ==
    ASSUME LedgerInv, NEW r \in Desks, NEW late \in BOOLEAN, StoreFact(r, late)
    PROVE  LedgerInv'
<1>1. LedgerTyped /\ Booked /\ CleanIsCurrent /\ desk[r].op = "fact" /\ desk[r] \in FactErrand
  BY DEF LedgerInv, LedgerHands, StoreFact, Doing
<1>2. PICK d \in FactErrand : d = desk[r]
  BY <1>1
<1>3. d.fact \in FactRow
  BY DEF FactErrand
<1>4. r \notin overtaken => Allowed(facts, d.fact) /\ d.dirty = DirtyNow /\ d.rows = DOMAIN snapshots
  BY <1>1, <1>2 DEF LedgerInv, LedgerStillTrue, LedgerChecks
<1>5. PICK k \in Nat : k = Len(facts)
  BY <1>1 DEF LedgerTyped
<1>6. facts' = Append(facts, d.fact) /\ Committed(r, {<<"fact", k + 1>>})
  BY <1>2, <1>5 DEF StoreFact
<1>7. blind \subseteq blind' /\ (r \in overtaken => <<"fact", k + 1>> \in blind')
  BY <1>1, <1>6, DeskCommits DEF LedgerTyped
<1>8. /\ facts' \in Seq(FactRow) /\ Len(facts') = k + 1 /\ DOMAIN facts' = 1 .. k + 1 /\ facts'[k + 1] = d.fact
      /\ SubSeq(facts', 1, k) = facts
      /\ \A n \in 1 .. k : facts'[n] = facts[n] /\ SubSeq(facts', 1, n - 1) = SubSeq(facts, 1, n - 1)
  BY <1>1, <1>3, <1>5, <1>6, OneFactMore DEF LedgerTyped
<1>9. PICK seen, rows : /\ snapshots' = Marked(seen, rows)
                        /\ late => seen = DirtyNow /\ rows = DOMAIN snapshots
                        /\ ~late => seen = d.dirty /\ rows = d.rows
  BY <1>2 DEF StoreFact
<1>10. /\ snapshots' \in Seq(SnapshotRow) /\ DOMAIN snapshots' = DOMAIN snapshots
       /\ \A n \in DOMAIN snapshots : /\ snapshots'[n].shows = snapshots[n].shows
                                      /\ snapshots'[n].dirty = (n \in rows \ seen \/ snapshots[n].dirty)
  BY <1>1, <1>9, MarkedRows DEF LedgerTyped
<1>11. Booked'
  <2>1. ASSUME NEW n \in 1 .. k + 1, Seen("fact", n)' PROVE Allowed(SubSeq(facts', 1, n - 1), facts'[n])
    <3>1. CASE n = k + 1
      <4>1. n - 1 = k /\ r \notin overtaken
        BY <1>7, <2>1, <3>1 DEF Seen
      <4> QED
        BY <1>4, <1>8, <3>1, <4>1
    <3>2. CASE n # k + 1
      <4>1. n \in 1 .. k /\ n \in DOMAIN facts /\ Seen("fact", n)
        BY <1>1, <1>5, <1>7, <2>1, <3>2 DEF Seen, LedgerTyped
      <4> QED
        BY <1>1, <1>8, <4>1 DEF Booked
    <3> QED
      BY <3>1, <3>2
  <2>2. \A n \in DOMAIN facts' : Seen("fact", n)' => Allowed(SubSeq(facts', 1, n - 1), facts'[n])
    BY <1>8, <2>1
  <2> QED
    BY <2>2 DEF Booked, Allowed, Outstanding
<1>12. CleanIsCurrent'
  <2>1. ASSUME NEW n \in DOMAIN snapshots, ~snapshots'[n].dirty, snapshots'[n].shows < k + 1
        PROVE  \E m \in snapshots'[n].shows + 1 .. k + 1 : ~Seen("fact", m)'
    <3>1. ~snapshots[n].dirty /\ n \notin rows \ seen
      BY <1>10, <2>1
    <3>2. n \notin DirtyNow
      BY <3>1 DEF DirtyNow
    <3>3. ~late /\ r \in overtaken
      BY <1>4, <1>9, <2>1, <3>1, <3>2
    <3>4. snapshots'[n].shows \in Nat
      <4>1. snapshots'[n] \in SnapshotRow
        BY <1>10
      <4> QED
        BY <4>1 DEF SnapshotRow
    <3>5. k + 1 \in snapshots'[n].shows + 1 .. k + 1
      BY <2>1, <3>4
    <3> QED
      BY <1>7, <3>3, <3>5 DEF Seen
  <2> QED
    BY <1>8, <1>10, <2>1 DEF CleanIsCurrent
<1> QED
  BY <1>6, <1>8, <1>10, <1>11, <1>12, LedgerLands

\* A refresh that was not overtaken shows every fact there is.
LEMMA LedgerStoreSnapshotKeeps ==
    ASSUME LedgerInv, NEW r \in Desks, NEW late \in BOOLEAN, StoreSnapshot(r, late)
    PROVE  LedgerInv'
<1>1. LedgerTyped /\ Booked /\ CleanIsCurrent /\ LedgerHands(r) /\ desk[r].op = "refresh"
  BY DEF LedgerInv, StoreSnapshot, Doing
<1>2. PICK d \in RefreshErrand : d = desk[r]
  BY <1>1 DEF LedgerHands
<1>3. d.shows \in Nat /\ d.row \in Nat /\ (d.row = 0 \/ d.row \in DOMAIN snapshots)
  BY <1>1, <1>2 DEF LedgerHands, RefreshErrand
<1>4. r \notin overtaken => d.shows = Len(facts)
  BY <1>1, <1>2 DEF LedgerInv, LedgerStillTrue, LedgerChecks
<1>5. PICK k \in Nat : k = Len(snapshots) /\ DOMAIN snapshots = 1 .. k
  BY <1>1 DEF LedgerTyped
<1>6. PICK row \in 1 .. k + 1 : row = (IF d.row = 0 THEN k + 1 ELSE d.row)
  BY <1>3, <1>5
<1>7. facts' = facts /\ Committed(r, {<<"snapshot", row>>})
  BY <1>2, <1>5, <1>6 DEF StoreSnapshot
<1>8. blind \subseteq blind' /\ (r \in overtaken => <<"snapshot", row>> \in blind')
  BY <1>1, <1>7, DeskCommits DEF LedgerTyped
<1>9. /\ snapshots' \in Seq(SnapshotRow) /\ DOMAIN snapshots \subseteq DOMAIN snapshots'
      /\ DOMAIN snapshots' \subseteq DOMAIN snapshots \cup {row}
      /\ snapshots'[row].shows = d.shows /\ \A n \in DOMAIN snapshots \ {row} : snapshots'[n] = snapshots[n]
  <2>1. CASE d.row = 0
    <3>1. PICK s : s = [shows |-> d.shows, dirty |-> FALSE]
      OBVIOUS
    <3>2. s \in SnapshotRow /\ s.shows = d.shows /\ snapshots' = Append(snapshots, s) /\ row = k + 1
      BY <1>2, <1>3, <1>6, <2>1, <3>1 DEF StoreSnapshot, SnapshotRow
    <3>3. /\ snapshots' \in Seq(SnapshotRow) /\ DOMAIN snapshots' = 1 .. k + 1 /\ snapshots'[k + 1] = s
          /\ \A n \in DOMAIN snapshots : snapshots'[n] = snapshots[n]
      BY <1>1, <1>5, <3>2, OneFactMore DEF LedgerTyped
    <3> QED
      BY <1>5, <3>2, <3>3
  <2>2. CASE d.row # 0
    <3>1. PICK dirty : snapshots' = [snapshots EXCEPT ![row] = [shows |-> d.shows, dirty |-> snapshots[row].dirty /\ dirty]]
      BY <1>2, <1>6, <2>2 DEF StoreSnapshot
    <3>2. row \in DOMAIN snapshots /\ snapshots[row] \in SnapshotRow
      BY <1>1, <1>3, <1>6, <2>2 DEF LedgerTyped
    <3>3. PICK flag \in BOOLEAN : flag = (snapshots[row].dirty /\ dirty)
      BY <3>2 DEF SnapshotRow
    <3>4. PICK s : s = [shows |-> d.shows, dirty |-> flag]
      OBVIOUS
    <3>5. s \in SnapshotRow /\ s.shows = d.shows /\ snapshots' = [snapshots EXCEPT ![row] = s]
      BY <1>3, <3>1, <3>3, <3>4 DEF SnapshotRow
    <3>6. snapshots \in [1 .. k -> SnapshotRow]
      BY <1>1, <1>5 DEF LedgerTyped
    <3>7. snapshots' \in [1 .. k -> SnapshotRow] /\ DOMAIN snapshots' = DOMAIN snapshots
      BY <3>5, <3>6
    <3>8. snapshots'[row] = s /\ \A n \in DOMAIN snapshots \ {row} : snapshots'[n] = snapshots[n]
      BY <3>2, <3>5
    <3>9. snapshots' \in Seq(SnapshotRow)
      BY <3>7
    <3> QED
      BY <3>5, <3>7, <3>8, <3>9
  <2> QED
    BY <2>1, <2>2
<1>10. Booked'
  BY <1>1, <1>7, <1>8 DEF Booked, Seen, Allowed, Outstanding
<1>11. CleanIsCurrent'
  <2>1. Len(facts) \in Nat
    BY <1>1 DEF LedgerTyped
  <2>2. snapshots'[row].shows < Len(facts) => ~Seen("snapshot", row)'
    BY <1>3, <1>4, <1>8, <1>9, <2>1 DEF Seen
  <2>3. ASSUME NEW n \in DOMAIN snapshots \ {row}, ~snapshots'[n].dirty, snapshots'[n].shows < Len(facts)
        PROVE  ~Seen("snapshot", n)' \/ \E m \in snapshots'[n].shows + 1 .. Len(facts) : ~Seen("fact", m)'
    BY <1>1, <1>8, <1>9, <2>3 DEF CleanIsCurrent, Seen
  <2> QED
    BY <1>7, <1>9, <2>2, <2>3 DEF CleanIsCurrent
<1> QED
  BY <1>1, <1>7, <1>9, <1>10, <1>11, LedgerLands DEF LedgerTyped

\* A request that fails, and a report that is read stale, leave the facts and the rows.
LEMMA LedgerRestKeeps ==
    ASSUME LedgerInv, (\E r \in Desks : FinanceFails(r)) \/ \E n \in DOMAIN snapshots : ReadStale(n)
    PROVE  LedgerInv'
<1>0. LedgerTyped /\ UNCHANGED <<facts, snapshots>>
  BY DEF LedgerInv, FinanceFails, ReadStale
<1>1. /\ OneRequestEach' /\ UNCHANGED blind
      /\ \A q \in Desks : desk'[q].op = "none" \/ (desk'[q] = desk[q] /\ (q \notin overtaken' => q \notin overtaken \/ desk[q].op = "none"))
  <2>1. CASE \E r \in Desks : FinanceFails(r)
    <3>1. PICK r \in Desks : RolledBack(r)
      BY <2>1 DEF FinanceFails
    <3> QED
      BY <1>0, <3>1, DeskRollsBack DEF LedgerTyped
  <2>2. CASE \E n \in DOMAIN snapshots : ReadStale(n)
    <3>1. AtOnce
      BY <2>2 DEF ReadStale
    <3> QED
      BY <1>0, <3>1, DeskAtOnce DEF LedgerTyped, OneRequestEach
  <2> QED
    BY <2>1, <2>2
<1>2. LedgerTyped'
  BY <1>0, <1>1 DEF LedgerTyped
<1>3. ASSUME NEW q \in Desks PROVE LedgerHands(q)'
  <2>1. LedgerHands(q)
    BY DEF LedgerInv
  <2> QED
    BY <1>0, <1>1, <2>1 DEF LedgerHands
<1>4. ASSUME NEW q \in Desks, q \notin overtaken' PROVE LedgerChecks(q)'
  <2>1. CASE desk'[q].op = "none" \/ desk[q].op = "none"
    <3>1. desk'[q].op = "none"
      BY <1>1, <2>1
    <3> QED
      BY <3>1 DEF LedgerChecks
  <2>2. CASE desk'[q] = desk[q] /\ q \notin overtaken
    <3>1. LedgerChecks(q)
      BY <2>2 DEF LedgerInv, LedgerStillTrue
    <3> QED
      BY <1>0, <2>2, <3>1 DEF LedgerChecks, Allowed, Outstanding, DirtyNow
  <2> QED
    BY <1>1, <1>4, <2>1, <2>2
<1>5. LedgerStillTrue'
  BY <1>4 DEF LedgerStillTrue
<1>6. Booked' /\ CleanIsCurrent'
  BY <1>0, <1>1 DEF LedgerInv, Booked, CleanIsCurrent, Seen, Allowed, Outstanding
<1> QED
  BY <1>2, <1>3, <1>5, <1>6 DEF LedgerInv

\* A step without a move of the accounts or the desks.
LEMMA LedgerStands == LedgerInv /\ UNCHANGED supplierVars => LedgerInv'
<1> SUFFICES ASSUME LedgerInv, UNCHANGED supplierVars PROVE LedgerInv'
  OBVIOUS
<1>1. UNCHANGED <<facts, snapshots, desk, overtaken, blind>>
  BY DEF supplierVars, supplierRows, deskVars
<1>2. LedgerTyped' /\ \A r \in Desks : LedgerHands(r)'
  BY <1>1 DEF LedgerInv, LedgerTyped, OneRequestEach, LedgerHands
<1>3. LedgerStillTrue'
  BY <1>1 DEF LedgerInv, LedgerStillTrue, LedgerChecks, Allowed, Outstanding, DirtyNow
<1>4. Booked' /\ CleanIsCurrent'
  BY <1>1 DEF LedgerInv, Booked, CleanIsCurrent, Seen, Allowed, Outstanding
<1> QED
  BY <1>2, <1>3, <1>4 DEF LedgerInv

\* Every step keeps the invariant.
LEMMA LedgerStepInv == LedgerInv /\ [SupplierLedgerNext]_supplierVars => LedgerInv'
<1> SUFFICES ASSUME LedgerInv, [SupplierLedgerNext]_supplierVars PROVE LedgerInv'
  OBVIOUS
<1>1. CASE UNCHANGED supplierVars
  BY <1>1, LedgerStands
<1>2. CASE \E r \in Desks, g \in GoodsReceipts : CreatePurchaseInvoice(r, g) \/ CreateVendorDispute(r, g)
  <2>1. \A g \in GoodsReceipts : 1 \in 1 .. ReceiptTotal[g] /\ 1 \in 1 .. 2
    BY SupplierLedgerAssumption
  <2> QED
    BY <1>2, <2>1, LedgerReads
<1>3. CASE \E r \in Desks, g \in GoodsReceipts : \E q \in 1 .. ReceiptTotal[g] : CreateSupplierPayment(r, g, q)
  <2>1. 1 \in 1 .. 2
    OBVIOUS
  <2> QED
    BY <1>3, <2>1, LedgerReads
<1>4. CASE \E r \in Desks, g \in GoodsReceipts : \E q \in 1 .. ReceiptTotal[g], lines \in 1 .. 2 : CreateSupplierReturn(r, g, q, lines)
  BY <1>4, LedgerReads
<1>5. CASE \E r \in Desks, n \in DOMAIN facts : ResolveVendorDispute(r, n)
  BY <1>5, LedgerResolves
<1>6. CASE \E r \in Desks : SeedSnapshot(r) \/ \E n \in DOMAIN snapshots : RunRefresh(r, n)
  BY <1>6, LedgerRefreshes
<1>7. CASE \E r \in Desks, late \in BOOLEAN : StoreFact(r, late) \/ StoreSnapshot(r, late)
  BY <1>7, LedgerStoreFactKeeps, LedgerStoreSnapshotKeeps
<1>8. CASE (\E r \in Desks : FinanceFails(r)) \/ \E n \in DOMAIN snapshots : ReadStale(n)
  BY <1>8, LedgerRestKeeps
<1> QED
  BY <1>1, <1>2, <1>3, <1>4, <1>5, <1>6, <1>7, <1>8 DEF SupplierLedgerNext

\* What the invariant shows: SETTLED is what takes no more payments, as nothing else is owed.
LEMMA LedgerInvShows == LedgerInv => NeverOverpaid /\ CleanIsCurrent
<1> SUFFICES ASSUME LedgerInv PROVE NeverOverpaid
  BY DEF LedgerInv
<1>1. \A n \in DOMAIN facts : Seen("fact", n) => Allowed(SubSeq(facts, 1, n - 1), facts[n])
  BY DEF LedgerInv, Booked
<1>2. ASSUME NEW g \in GoodsReceipts PROVE SettlementStatus(g) = "SETTLED" <=> ~Payable(g, 1)
  <2>1. PICK returned \in Nat : returned = Total(facts, "return", g)
    BY TotalIsNatural DEF LedgerInv, LedgerTyped
  <2>2. PICK paid \in Nat : paid = Total(facts, "payment", g)
    BY TotalIsNatural DEF LedgerInv, LedgerTyped
  <2>3. ReceiptTotal[g] \in Nat
    BY SupplierLedgerAssumption
  <2>4. PICK owed : owed = Outstanding(facts, g)
    OBVIOUS
  <2>5. owed \in Nat
    BY <2>1, <2>2, <2>3, <2>4 DEF Outstanding, AtLeast0
  <2>6. Payable(g, 1) <=> 1 <= owed
    BY <2>4 DEF Payable
  <2>7. SettlementStatus(g) = "SETTLED" <=> owed = 0
    BY <2>4, <2>5 DEF SettlementStatus
  <2> QED
    BY <2>5, <2>6, <2>7
<1> QED
  BY <1>1, <1>2 DEF NeverOverpaid, Allowed

\* The inductive invariant of the suppliers' accounts and their reports.
THEOREM LedgerInvariant == SupplierLedgerSpec => []LedgerInv
<1> QED
  BY LedgerInitInv, LedgerStepInv, PTL DEF SupplierLedgerSpec

\* For any receipts, totals, requests and bounds no payment exceeds what was left of its invoice and no
\* return of one line what was invoiced, but those another request overtook.
THEOREM LedgerNeverOverpaid == SupplierLedgerSpec => []NeverOverpaid
<1> QED
  BY LedgerInvShows, LedgerInvariant, PTL

\* For any receipts, totals, requests and bounds a report that is answered as CURRENT shows every fact,
\* but those an overtaken request has written or left out.
THEOREM LedgerCleanIsCurrent == SupplierLedgerSpec => []CleanIsCurrent
<1> QED
  BY LedgerInvShows, LedgerInvariant, PTL

-----------------------------------------------------------------------------
(* What customers hold. *)

-----------------------------------------------------------------------------
(* What customers hold. *)

CardRow == [status : {"none", "ACTIVE", "DISABLED", "DEPLETED"}, balance : Int, book : Int]
CreditRow == [available : Int, lots : Seq(Int), book : Int]
PointsRow == [available : Int, book : Int, byHand : Int]

CardErrand ==
    [op : {"card"}, kind : {"issue", "adjust", "disable", "reactivate", "redeem"}, read : CardRow,
     status : {"ACTIVE", "DISABLED", "DEPLETED"}, balance : Int, amount : Int]
CreditErrand ==
    [op : {"credit"}, kind : {"issue", "redeem", "remove"}, amount : Nat, available : Int, lots : Seq(Int)]
PointsErrand == [op : {"points"}, kind : {"adjust", "sale"}, moved : Int, available : Int]

\* A card in order, whatever its ledger says.
CardInOrder(status, balance) ==
    balance >= 0 /\ (status = "ACTIVE" => balance > 0) /\ (status = "DEPLETED" => balance = 0)

\* What a request is about to write agrees with what it has read.
ValueHands(d) ==
    /\ d.op = "card" =>
         /\ d \in CardErrand /\ d.balance = d.read.balance + d.amount
         /\ d.kind = "issue" => d.read.status = "none"
         /\ d.read.balance >= 0 => CardInOrder(d.status, d.balance)
    /\ d.op = "credit" => d \in CreditErrand /\ (d.kind # "issue" => d.amount <= d.available)
    /\ d.op = "points" => d \in PointsErrand /\ (d.available >= 0 => d.available + d.moved >= 0)

\* What a request that was not overtaken has read is so.
ValueChecks(d) ==
    /\ d.op = "card" => card = d.read
    /\ d.op = "credit" => credit.available = d.available /\ credit.lots = d.lots
    /\ d.op = "points" => points.available = d.available

ValueTyped ==
    /\ card \in CardRow /\ credit \in CreditRow /\ points \in PointsRow
    /\ OneRequestEach

\* No money is on a card that was not issued.
FreshCard ==
    /\ card.status = "none" => card.balance = 0
    /\ \A r \in Desks : desk[r].op = "card" /\ desk[r].kind # "issue" => card.status # "none"

ValueInv ==
    /\ ValueTyped /\ FreshCard /\ ValueFollowsLedger
    /\ \A r \in Desks : ValueHands(desk[r]) /\ (r \notin overtaken => ValueChecks(desk[r]))

\* The sum of the first terms is that of their sequence.
LEMMA AddedOfFirst ==
    ASSUME NEW s, s \in Seq(Int), NEW n \in 0 .. Len(s)
    PROVE  Added(SubSeq(s, 1, n)) = PartialSum(s, n)
<1>1. PICK t : t = SubSeq(s, 1, n)
  OBVIOUS
<1>2. n \in Nat /\ n <= Len(s)
  OBVIOUS
<1>3. t \in Seq(Int) /\ Len(t) = n /\ \A i \in 1 .. n : t[i] = s[i]
  BY <1>1, <1>2, SubSeqProperties
<1>4. t \in [1 .. n -> Int]
  BY <1>2, <1>3
<1>5. Added(t) = PartialSum(t, n)
  BY <1>2, <1>4, AddedIsPartialSum
<1> QED
  BY <1>1, <1>2, <1>3, <1>5, PartialSumAgrees

\* What is taken from lots is taken from them as a whole.
LEMMA TakenFromLots ==
    ASSUME NEW s, s \in Seq(Int), \A i \in DOMAIN s : s[i] >= 0, NEW n \in Nat, n <= Added(s)
    PROVE  /\ TakenFrom(s, n) \in Seq(Int) /\ DOMAIN TakenFrom(s, n) = DOMAIN s
           /\ \A i \in DOMAIN s : TakenFrom(s, n)[i] >= 0
           /\ Added(TakenFrom(s, n)) = Added(s) - n
<1>1. PICK k \in Nat : k = Len(s) /\ DOMAIN s = 1 .. k /\ s \in [1 .. k -> Int]
  OBVIOUS
<1>2. PICK left : left = TakenFrom(s, n)
  OBVIOUS
<1>3. ASSUME NEW i \in 1 .. k
      PROVE  left[i] = s[i] - Smaller(s[i], IF n > PartialSum(s, i - 1) THEN n - PartialSum(s, i - 1) ELSE 0)
  <2>1. i - 1 \in 0 .. Len(s)
    BY <1>1
  <2>2. Added(SubSeq(s, 1, i - 1)) = PartialSum(s, i - 1)
    BY <2>1, AddedOfFirst
  <2> QED
    BY <1>1, <1>2, <2>2 DEF TakenFrom
<1>4. DOMAIN left = 1 .. k /\ left = [i \in 1 .. k |-> left[i]]
  BY <1>1, <1>2 DEF TakenFrom
<1>5. \A i \in 1 .. k : s[i] \in Nat
  BY <1>1
<1>6. /\ \A i \in 1 .. k : left[i] \in Nat
      /\ PartialSum(s, k) \in Nat /\ PartialSum(left, k) = PartialSum(s, k) - Smaller(n, PartialSum(s, k))
  BY <1>3, <1>5, TakenInOrder, ZenonT(60)
<1>7. left \in [1 .. k -> Int] /\ left \in Seq(Int)
  BY <1>4, <1>6
<1>8. Added(s) = PartialSum(s, k) /\ Added(left) = PartialSum(left, k)
  BY <1>1, <1>7, AddedIsPartialSum
<1>9. Added(left) = Added(s) - n
  BY <1>6, <1>8 DEF Smaller
<1> QED
  BY <1>1, <1>2, <1>4, <1>6, <1>7, <1>9

\* A customer who holds nothing.
ValueEmpty ==
    /\ card = [status |-> "none", balance |-> 0, book |-> 0]
    /\ credit = [available |-> 0, lots |-> <<>>, book |-> 0]
    /\ points = [available |-> 0, book |-> 0, byHand |-> 0]

\* Nothing is what nothing adds up to.
LEMMA ValueBegins == ValueEmpty => ValueFollowsLedger
BY AddedNothing DEF ValueEmpty, ValueFollowsLedger

\* Customers begin with nothing, and with no request in hand.
LEMMA ValueInitInv == CustomerValueInit => ValueInv
<1> SUFFICES ASSUME CustomerValueInit PROVE ValueInv
  OBVIOUS
<1>1. ValueEmpty /\ OneRequestEach
  BY DEF CustomerValueInit, DeskInit, ValueEmpty, OneRequestEach
<1>2. card \in CardRow /\ credit \in CreditRow /\ points \in PointsRow
  BY <1>1 DEF ValueEmpty, CardRow, CreditRow, PointsRow
<1>3. ValueTyped
  BY <1>1, <1>2 DEF ValueTyped
<1>4. \A r \in Desks : desk[r].op = "none"
  BY DEF CustomerValueInit, DeskInit, Idle
<1>5. FreshCard /\ \A r \in Desks : ValueHands(desk[r]) /\ ValueChecks(desk[r])
  BY <1>1, <1>4 DEF ValueEmpty, FreshCard, ValueHands, ValueChecks
<1> QED
  BY <1>1, <1>3, <1>5, ValueBegins DEF ValueInv

\* A request that reads has in hand what agrees with what it has read.
LEMMA ValueGoesOn ==
    ASSUME ValueInv, NEW r \in Desks, NEW e, Checked(r, e), UNCHANGED <<card, credit, points>>,
           ValueHands(e), ValueChecks(e), e.op = "card" /\ e.kind # "issue" => card.status # "none"
    PROVE  ValueInv'
<1>0. OneRequestEach
  BY DEF ValueInv, ValueTyped
<1>1. /\ OneRequestEach' /\ desk'[r] = e /\ UNCHANGED <<overtaken, blind>>
      /\ \A q \in Desks \ {r} : desk'[q] = desk[q]
  BY <1>0, DeskChecks
<1>2. ValueTyped' /\ FreshCard'
  BY <1>1 DEF ValueInv, ValueTyped, FreshCard
<1>3. ASSUME NEW q \in Desks PROVE ValueHands(desk[q])' /\ (q \notin overtaken' => ValueChecks(desk[q])')
  <2>1. CASE q = r
    BY <1>1, <2>1 DEF ValueHands, ValueChecks
  <2>2. CASE q # r
    <3>1. desk'[q] = desk[q] /\ ValueHands(desk[q]) /\ (q \notin overtaken => ValueChecks(desk[q]))
      BY <1>1, <2>2 DEF ValueInv
    <3> QED
      BY <1>1, <3>1 DEF ValueHands, ValueChecks
  <2> QED
    BY <2>1, <2>2
<1>4. ValueFollowsLedger'
  BY <1>1 DEF ValueInv, ValueFollowsLedger, Seen
<1> QED
  BY <1>2, <1>3, <1>4 DEF ValueInv

\* Requests for the card: what they read is the card.
LEMMA CardAsksKeeps ==
    ASSUME ValueInv, NEW r \in Desks, NEW kind \in {"issue", "adjust", "disable", "reactivate", "redeem"},
           NEW status \in {"ACTIVE", "DISABLED", "DEPLETED"}, NEW balance \in Int, NEW amount \in Int,
           CardAsks(r, kind, status, balance, amount), kind = "issue" <=> card.status = "none",
           balance = card.balance + amount, card.balance >= 0 => CardInOrder(status, balance)
    PROVE  ValueInv'
<1>1. PICK e : e = [op |-> "card", kind |-> kind, read |-> card, status |-> status, balance |-> balance, amount |-> amount]
  OBVIOUS
<1>2. Checked(r, e) /\ UNCHANGED <<card, credit, points>>
  BY <1>1 DEF CardAsks, Requests
<1>3. e \in CardErrand
  BY <1>1 DEF CardErrand, ValueInv, ValueTyped
<1>4. e.op = "card" /\ e.kind = kind /\ e.read = card /\ e.status = status /\ e.balance = balance /\ e.amount = amount
  BY <1>1
<1>5. ValueHands(e) /\ ValueChecks(e)
  BY <1>3, <1>4 DEF ValueHands, ValueChecks
<1> QED
  BY <1>2, <1>4, <1>5, ValueGoesOn

\* A request for a gift card reads the card it is about to change.
LEMMA CardReads ==
    ASSUME ValueInv, NEW r \in Desks, NEW n \in 1 .. MaxValue, NEW delta \in -MaxValue .. MaxValue,
           IssueGiftCard(r, n) \/ RedeemGiftCard(r, n) \/ AdjustGiftCard(r, delta)
    PROVE  ValueInv'
<1>0. n \in Int /\ n > 0 /\ delta \in Int /\ -n \in Int
  BY CustomerValueAssumption
<1>1. card.status \in {"none", "ACTIVE", "DISABLED", "DEPLETED"} /\ card.balance \in Int
  BY DEF ValueInv, ValueTyped, CardRow
<1>2. CASE IssueGiftCard(r, n)
  <2>1. n = card.balance + n /\ CardInOrder("ACTIVE", n) /\ CardAsks(r, "issue", "ACTIVE", n, n) /\ card.status = "none"
    BY <1>0, <1>1, <1>2 DEF IssueGiftCard, CardInOrder, ValueInv, FreshCard
  <2> QED
    BY <1>0, <2>1, CardAsksKeeps
<1>3. CASE RedeemGiftCard(r, n)
  <2>1. PICK balance \in Int : balance = card.balance - n /\ balance = card.balance + (-n) /\ balance >= 0
    BY <1>0, <1>1, <1>3 DEF RedeemGiftCard, CardCovers
  <2>2. PICK status \in {"ACTIVE", "DISABLED", "DEPLETED"} : status = Synced(card.status, balance) /\ CardInOrder(status, balance)
    BY <2>1 DEF Synced, CardInOrder
  <2>3. CardAsks(r, "redeem", status, balance, -n) /\ card.status # "none"
    BY <1>3, <2>1, <2>2 DEF RedeemGiftCard, CardCovers
  <2> QED
    BY <1>0, <2>1, <2>2, <2>3, CardAsksKeeps
<1>4. CASE AdjustGiftCard(r, delta)
  <2>1. PICK balance \in Int : balance = card.balance + delta /\ balance >= 0
    BY <1>0, <1>1, <1>4 DEF AdjustGiftCard
  <2>2. PICK status \in {"ACTIVE", "DISABLED", "DEPLETED"} : status = Synced(card.status, balance) /\ CardInOrder(status, balance)
    BY <2>1 DEF Synced, CardInOrder
  <2>3. CardAsks(r, "adjust", status, balance, delta) /\ card.status # "none"
    BY <1>4, <2>1, <2>2 DEF AdjustGiftCard
  <2> QED
    BY <1>0, <2>1, <2>2, <2>3, CardAsksKeeps
<1> QED
  BY <1>2, <1>3, <1>4

\* A card is disabled or reactivated, with what is on it.
LEMMA CardSwitchKeeps ==
    ASSUME ValueInv, NEW r \in Desks, DisableGiftCard(r) \/ ReactivateGiftCard(r)
    PROVE  ValueInv'
<1>1. card.status \in {"none", "ACTIVE", "DISABLED", "DEPLETED"} /\ card.balance \in Int
  BY DEF ValueInv, ValueTyped, CardRow
<1>2. card.balance = card.balance + 0
  BY <1>1
<1>3. CASE DisableGiftCard(r)
  <2>1. CardAsks(r, "disable", "DISABLED", card.balance, 0) /\ card.status # "none"
    BY <1>3 DEF DisableGiftCard
  <2>2. card.balance >= 0 => CardInOrder("DISABLED", card.balance)
    BY DEF CardInOrder
  <2> QED
    BY <1>1, <1>2, <2>1, <2>2, CardAsksKeeps
<1>4. CASE ReactivateGiftCard(r)
  <2>1. PICK status \in {"ACTIVE", "DISABLED", "DEPLETED"} : status = IF card.balance > 0 THEN "ACTIVE" ELSE "DEPLETED"
    OBVIOUS
  <2>2. CardAsks(r, "reactivate", status, card.balance, 0) /\ card.status # "none"
    BY <1>4, <2>1 DEF ReactivateGiftCard
  <2>3. card.balance >= 0 => CardInOrder(status, card.balance)
    BY <1>1, <2>1 DEF CardInOrder
  <2> QED
    BY <1>1, <1>2, <2>2, <2>3, CardAsksKeeps
<1> QED
  BY <1>3, <1>4

\* Requests for store credit.
LEMMA CreditReads ==
    ASSUME ValueInv, NEW r \in Desks, NEW n \in 1 .. MaxValue,
           IssueStoreCredit(r, n) \/ RedeemStoreCredit(r, n) \/ AdjustStoreCreditDown(r, n)
    PROVE  ValueInv'
<1>1. PICK kind \in {"issue", "redeem", "remove"} : CreditAsks(r, kind, n) /\ (kind # "issue" => n <= credit.available)
  BY DEF IssueStoreCredit, RedeemStoreCredit, AdjustStoreCreditDown
<1>2. PICK e : e = [op |-> "credit", kind |-> kind, amount |-> n, available |-> credit.available, lots |-> credit.lots]
  OBVIOUS
<1>3. Checked(r, e) /\ UNCHANGED <<card, credit, points>>
  BY <1>1, <1>2 DEF CreditAsks, Requests
<1>4. n \in Nat /\ credit.available \in Int /\ credit.lots \in Seq(Int)
  BY CustomerValueAssumption DEF ValueInv, ValueTyped, CreditRow
<1>5. e \in CreditErrand /\ e.op = "credit"
  BY <1>2, <1>4 DEF CreditErrand
<1>6. ValueHands(e) /\ ValueChecks(e)
  BY <1>1, <1>2, <1>5 DEF ValueHands, ValueChecks
<1> QED
  BY <1>3, <1>5, <1>6, ValueGoesOn

\* Requests for points.
LEMMA PointsReads ==
    ASSUME ValueInv, NEW r \in Desks, NEW delta \in -MaxValue .. MaxValue,
           NEW taken \in 0 .. MaxValue, NEW earned \in 0 .. MaxValue,
           AdjustLoyalty(r, delta) \/ SellWithPoints(r, taken, earned)
    PROVE  ValueInv'
<1>0. delta \in Int /\ taken \in Nat /\ earned \in Nat /\ points.available \in Int
  BY CustomerValueAssumption DEF ValueInv, ValueTyped, PointsRow
<1>1. PICK kind \in {"adjust", "sale"}, moved \in Int :
         /\ Requests(r, [op |-> "points", kind |-> kind, moved |-> moved, available |-> points.available])
         /\ points.available >= 0 => points.available + moved >= 0
  <2>1. CASE AdjustLoyalty(r, delta)
    <3>1. delta - 0 = delta
      BY <1>0
    <3> QED
      BY <1>0, <2>1, <3>1 DEF AdjustLoyalty, PointsAsks
  <2>2. CASE SellWithPoints(r, taken, earned)
    <3>1. PICK moved \in Int : moved = earned - taken
      BY <1>0
    <3>2. points.available >= 0 => points.available + moved >= 0
      BY <1>0, <2>2, <3>1 DEF SellWithPoints, PointsCover
    <3> QED
      BY <2>2, <3>1, <3>2 DEF SellWithPoints, PointsAsks
  <2> QED
    BY <2>1, <2>2
<1>2. PICK e : e = [op |-> "points", kind |-> kind, moved |-> moved, available |-> points.available]
  OBVIOUS
<1>3. Checked(r, e) /\ UNCHANGED <<card, credit, points>>
  BY <1>1, <1>2 DEF Requests
<1>4. e \in PointsErrand /\ e.op = "points"
  BY <1>0, <1>2 DEF PointsErrand
<1>5. ValueHands(e) /\ ValueChecks(e)
  BY <1>1, <1>2, <1>4 DEF ValueHands, ValueChecks
<1> QED
  BY <1>3, <1>4, <1>5, ValueGoesOn

\* A commit leaves what the other requests have in hand, which it overtakes.
LEMMA ValueLands ==
    ASSUME ValueInv, NEW r \in Desks, NEW rows, Committed(r, rows),
           card' \in CardRow, credit' \in CreditRow, points' \in PointsRow,
           card'.status = "none" => card.status = "none" /\ card'.balance = 0, ValueFollowsLedger'
    PROVE  ValueInv'
<1>0. OneRequestEach
  BY DEF ValueInv, ValueTyped
<1>1. /\ OneRequestEach' /\ \A q \in Desks : desk'[q].op = "none" \/ desk'[q] = desk[q]
      /\ \A q \in Desks : q \notin overtaken' => desk'[q].op = "none"
  BY <1>0, DeskCommits
<1>2. ValueTyped'
  BY <1>1 DEF ValueTyped
<1>3. FreshCard'
  BY <1>1 DEF ValueInv, FreshCard
<1>4. ASSUME NEW q \in Desks PROVE ValueHands(desk[q])' /\ (q \notin overtaken' => ValueChecks(desk[q])')
  <2>1. CASE desk'[q].op = "none"
    BY <2>1 DEF ValueHands, ValueChecks
  <2>2. CASE desk'[q] = desk[q]
    <3>1. ValueHands(desk[q])
      BY DEF ValueInv
    <3> QED
      BY <1>1, <2>2, <3>1 DEF ValueHands, ValueChecks
  <2> QED
    BY <1>1, <2>1, <2>2
<1> QED
  BY <1>2, <1>3, <1>4 DEF ValueInv

\* The card's row, and its ledger entry.
LEMMA StoreCardKeeps ==
    ASSUME ValueInv, NEW r \in Desks, StoreCard(r)
    PROVE  ValueInv'
<1>1. ValueTyped /\ FreshCard /\ ValueFollowsLedger /\ desk[r].op = "card" /\ ValueHands(desk[r])
  BY DEF ValueInv, StoreCard, Doing
<1>2. PICK d \in CardErrand : d = desk[r]
  BY <1>1 DEF ValueHands
<1>3. /\ d.read \in CardRow /\ d.status \in {"ACTIVE", "DISABLED", "DEPLETED"} /\ d.balance \in Int /\ d.amount \in Int
      /\ d.balance = d.read.balance + d.amount /\ (d.read.balance >= 0 => CardInOrder(d.status, d.balance))
  BY <1>1, <1>2 DEF ValueHands, CardErrand
<1>4. card \in CardRow /\ credit \in CreditRow /\ points \in PointsRow /\ OneRequestEach
  BY <1>1 DEF ValueTyped
<1>5. PICK status : status = Column(d.read.status, d.status, card.status)
  OBVIOUS
<1>6. PICK balance : balance = Column(d.read.balance, d.balance, card.balance)
  OBVIOUS
<1>7. status \in {d.status, card.status} /\ balance \in {d.balance, card.balance}
  BY <1>5, <1>6 DEF Column
<1>8. card' = [status |-> status, balance |-> balance, book |-> card.book + d.amount]
  BY <1>2, <1>5, <1>6 DEF StoreCard
<1>9. card' \in CardRow /\ UNCHANGED <<credit, points>>
  BY <1>3, <1>4, <1>7, <1>8 DEF CardRow, StoreCard
<1>10. r \notin overtaken => card = d.read
  BY <1>1, <1>2 DEF ValueInv, ValueChecks
<1>11. PICK rows : Committed(r, rows) /\ rows = IF card = d.read THEN {} ELSE {<<"card", 1>>}
  BY <1>2 DEF StoreCard
<1>12. blind \subseteq blind' /\ (r \in overtaken => rows \subseteq blind')
  BY <1>4, <1>11, DeskCommits
<1>13. Seen("card", 1)' => card = d.read /\ Seen("card", 1)
  BY <1>10, <1>11, <1>12 DEF Seen
<1>14. card = d.read => status = d.status /\ balance = d.balance
  BY <1>5, <1>6 DEF Column
<1>15. Seen("card", 1)' => card'.balance = card'.book /\ CardInOrder(card'.status, card'.balance)
  <2>1. SUFFICES ASSUME Seen("card", 1)' PROVE card'.balance = card'.book /\ CardInOrder(card'.status, card'.balance)
    OBVIOUS
  <2>2. card = d.read /\ card.balance = card.book /\ card.balance >= 0 /\ card.balance \in Int /\ card.book \in Int
    BY <1>1, <1>4, <1>13, <2>1 DEF ValueFollowsLedger, CardRow
  <2> QED
    BY <1>3, <1>8, <1>14, <2>2
<1>16. card'.status = "none" => card.status = "none" /\ card'.balance = 0
  <2>1. card'.status # "none"
    <3>1. CASE d.kind = "issue"
      <4>1. card.status = "none"
        BY <1>2, <3>1 DEF StoreCard
      <4>2. d.read.status = "none"
        BY <1>1, <1>2, <3>1 DEF ValueHands
      <4>3. status # "none"
        BY <1>3, <1>5, <4>2 DEF Column
      <4> QED
        BY <1>8, <4>3
    <3>2. CASE d.kind # "issue"
      <4>1. card.status # "none"
        BY <1>1, <1>2, <3>2 DEF FreshCard
      <4> QED
        BY <1>3, <1>7, <1>8, <4>1
    <3> QED
      BY <3>1, <3>2
  <2> QED
    BY <2>1
<1>17. ValueFollowsLedger'
  BY <1>1, <1>9, <1>12, <1>15 DEF ValueFollowsLedger, Seen, CardInOrder
<1> QED
  BY <1>4, <1>9, <1>11, <1>16, <1>17, ValueLands

\* The points, as they were read and moved.
LEMMA StorePointsKeeps ==
    ASSUME ValueInv, NEW r \in Desks, StorePoints(r)
    PROVE  ValueInv'
<1>1. ValueTyped /\ FreshCard /\ ValueFollowsLedger /\ desk[r].op = "points" /\ ValueHands(desk[r])
  BY DEF ValueInv, StorePoints, Doing
<1>2. PICK d \in PointsErrand : d = desk[r]
  BY <1>1 DEF ValueHands
<1>3. d.moved \in Int /\ d.available \in Int /\ (d.available >= 0 => d.available + d.moved >= 0)
  BY <1>1, <1>2 DEF ValueHands, PointsErrand
<1>4. card \in CardRow /\ credit \in CreditRow /\ points \in PointsRow /\ OneRequestEach
  BY <1>1 DEF ValueTyped
<1>5. PICK byHand \in Int : byHand = points.byHand + (IF d.kind = "adjust" THEN d.moved ELSE 0)
  BY <1>3, <1>4 DEF PointsRow
<1>6. points' = [available |-> d.available + d.moved, book |-> points.book + d.moved, byHand |-> byHand]
  BY <1>2, <1>5 DEF StorePoints
<1>7. points' \in PointsRow /\ UNCHANGED <<card, credit>>
  BY <1>3, <1>4, <1>6 DEF PointsRow, StorePoints
<1>8. r \notin overtaken => points.available = d.available
  BY <1>1, <1>2 DEF ValueInv, ValueChecks
<1>9. PICK rows : Committed(r, rows) /\ rows = IF points.available = d.available THEN {} ELSE {<<"points", 1>>}
  BY <1>2 DEF StorePoints
<1>10. blind \subseteq blind' /\ (r \in overtaken => rows \subseteq blind')
  BY <1>4, <1>9, DeskCommits
<1>11. Seen("points", 1)' => points'.available = points'.book /\ points'.available >= 0
  <2>1. SUFFICES ASSUME Seen("points", 1)' PROVE points'.available = points'.book /\ points'.available >= 0
    OBVIOUS
  <2>2. points.available = d.available /\ Seen("points", 1)
    BY <1>8, <1>9, <1>10, <2>1 DEF Seen
  <2>3. points.available = points.book /\ points.available >= 0
    BY <1>1, <2>2 DEF ValueFollowsLedger
  <2> QED
    BY <1>3, <1>6, <2>2, <2>3
<1>12. ValueFollowsLedger'
  BY <1>1, <1>7, <1>10, <1>11 DEF ValueFollowsLedger, Seen
<1> QED
  BY <1>1, <1>4, <1>7, <1>9, <1>12, ValueLands DEF FreshCard

\* Store credit: a lot more, or taken from the lots.
LEMMA StoreCreditKeeps ==
    ASSUME ValueInv, NEW r \in Desks, NEW late \in BOOLEAN, StoreCredit(r, late)
    PROVE  ValueInv'
<1>1. ValueTyped /\ FreshCard /\ ValueFollowsLedger /\ desk[r].op = "credit" /\ ValueHands(desk[r])
  BY DEF ValueInv, StoreCredit, Doing
<1>2. PICK d \in CreditErrand : d = desk[r]
  BY <1>1 DEF ValueHands
<1>3. d.amount \in Nat /\ d.available \in Int /\ d.lots \in Seq(Int) /\ (d.kind # "issue" => d.amount <= d.available)
  BY <1>1, <1>2 DEF ValueHands, CreditErrand
<1>4. card \in CardRow /\ credit \in CreditRow /\ points \in PointsRow /\ OneRequestEach
  BY <1>1 DEF ValueTyped
<1>5. PICK held \in Seq(Int) : held = credit.lots
  BY <1>4 DEF CreditRow
<1>6. PICK k \in Nat : k = Len(held) /\ DOMAIN held = 1 .. k /\ held \in [1 .. k -> Int]
  OBVIOUS
<1>7. PICK read \in Seq(Int) : read = (IF late THEN held ELSE d.lots)
  BY <1>3, <1>5
<1>8. PICK book \in Int : book = credit.book
  BY <1>4 DEF CreditRow
<1>9. UNCHANGED <<card, points>>
  BY DEF StoreCredit
<1>10. r \notin overtaken => credit.available = d.available /\ held = d.lots
  BY <1>1, <1>2, <1>5 DEF ValueInv, ValueChecks
<1>11. PICK rows : Committed(r, rows) /\ rows = IF credit.available = d.available /\ held = d.lots THEN {} ELSE {<<"credit", 1>>}
  BY <1>2, <1>5 DEF StoreCredit
<1>12. blind \subseteq blind' /\ (r \in overtaken => rows \subseteq blind')
  BY <1>4, <1>11, DeskCommits
<1>13. Seen("credit", 1)' => /\ credit.available = d.available /\ held = d.lots /\ read = held
                             /\ d.available = book /\ d.available = Added(held) /\ \A i \in DOMAIN held : held[i] >= 0
  <2>1. SUFFICES ASSUME Seen("credit", 1)'
                 PROVE  /\ credit.available = d.available /\ held = d.lots /\ read = held
                        /\ d.available = book /\ d.available = Added(held) /\ \A i \in DOMAIN held : held[i] >= 0
    OBVIOUS
  <2>2. credit.available = d.available /\ held = d.lots /\ Seen("credit", 1)
    BY <1>10, <1>11, <1>12, <2>1 DEF Seen
  <2> QED
    BY <1>1, <1>5, <1>7, <1>8, <2>2 DEF ValueFollowsLedger
<1>14. /\ credit' \in CreditRow
       /\ Seen("credit", 1)' => /\ credit'.available = credit'.book /\ credit'.available = Added(credit'.lots)
                                /\ \A i \in DOMAIN credit'.lots : credit'.lots[i] >= 0
  <2>1. CASE d.kind = "issue"
    <3>1. PICK more : more = Append(held, d.amount)
      OBVIOUS
    <3>2. credit' = [available |-> d.available + d.amount, lots |-> more, book |-> book + d.amount]
      BY <1>2, <1>5, <1>8, <2>1, <3>1 DEF StoreCredit
    <3>3. /\ more \in Seq(Int) /\ DOMAIN more = 1 .. k + 1 /\ more[k + 1] = d.amount
          /\ \A i \in 1 .. k : more[i] = held[i]
      BY <1>3, <1>6, <3>1, OneFactMore
    <3>4. more \in [1 .. k + 1 -> Int]
      BY <3>3
    <3>5. Added(more) = Added(held) + d.amount
      <4>1. Added(more) = Added(held) + more[k + 1]
        BY <1>6, <3>3, <3>4, AddedOneMore
      <4> QED
        BY <3>3, <4>1
    <3>6. (\A i \in DOMAIN held : held[i] >= 0) => \A i \in DOMAIN more : more[i] >= 0
      <4>1. SUFFICES ASSUME \A i \in DOMAIN held : held[i] >= 0, NEW i \in 1 .. k + 1 PROVE more[i] >= 0
        BY <3>3
      <4>2. CASE i = k + 1
        BY <1>3, <3>3, <4>2
      <4>3. CASE i # k + 1
        <5>1. i \in 1 .. k
          BY <4>3
        <5> QED
          BY <1>6, <3>3, <4>1, <5>1
      <4> QED
        BY <4>2, <4>3
    <3>7. credit' \in CreditRow
      BY <1>3, <3>2, <3>3 DEF CreditRow
    <3> QED
      BY <1>3, <1>13, <3>2, <3>5, <3>6, <3>7
  <2>2. CASE d.kind # "issue"
    <3>1. PICK fewer : fewer = LotsAfter(read, held, d.amount)
      OBVIOUS
    <3>2. PICK taken : taken = TakenFrom(read, d.amount)
      OBVIOUS
    <3>3. credit' = [available |-> d.available - d.amount, lots |-> fewer, book |-> book - d.amount]
      BY <1>2, <1>5, <1>7, <1>8, <2>2, <3>1 DEF StoreCredit
    <3>4. fewer = [i \in 1 .. k |-> IF i \in DOMAIN read THEN Column(read[i], taken[i], held[i]) ELSE held[i]]
      BY <1>6, <3>1, <3>2 DEF LotsAfter
    <3>5. ASSUME NEW i \in DOMAIN read PROVE taken[i] \in Int
      <4>1. PICK older : older = Added(SubSeq(read, 1, i - 1))
        OBVIOUS
      <4>2. i - 1 \in Nat /\ i - 1 <= Len(read) /\ read[i] \in Int
        OBVIOUS
      <4>3. SubSeq(read, 1, i - 1) \in Seq(Int)
        BY <4>2, SubSeqProperties
      <4>4. older \in Int
        BY <4>1, <4>3, AddedIsWhole
      <4>5. taken[i] = read[i] - Smaller(read[i], IF d.amount > older THEN d.amount - older ELSE 0)
        BY <3>2, <4>1 DEF TakenFrom
      <4> QED
        BY <1>3, <4>2, <4>4, <4>5 DEF Smaller
    <3>6. \A i \in 1 .. k : fewer[i] \in Int
      BY <1>6, <3>4, <3>5 DEF Column
    <3>7. fewer \in [1 .. k -> Int]
      BY <3>4, <3>6
    <3>8. fewer \in Seq(Int)
      BY <3>7
    <3>9. credit' \in CreditRow
      BY <1>3, <3>3, <3>8 DEF CreditRow
    <3>10. ASSUME Seen("credit", 1)'
           PROVE  /\ credit'.available = credit'.book /\ credit'.available = Added(credit'.lots)
                  /\ \A i \in DOMAIN credit'.lots : credit'.lots[i] >= 0
      <4>1. read = held /\ d.available = book /\ d.available = Added(held) /\ \A i \in DOMAIN held : held[i] >= 0
        BY <1>13, <3>10
      <4>2. d.amount <= Added(held)
        BY <1>3, <2>2, <4>1
      <4>3. /\ taken \in Seq(Int) /\ DOMAIN taken = DOMAIN held /\ \A i \in DOMAIN held : taken[i] >= 0
            /\ Added(taken) = Added(held) - d.amount
        BY <1>3, <3>2, <4>1, <4>2, TakenFromLots
      <4>4. \A i \in 1 .. k : fewer[i] = taken[i]
        BY <1>6, <3>4, <4>1 DEF Column
      <4>5. DOMAIN taken = 1 .. k /\ taken \in [1 .. k -> Int]
        BY <1>6, <4>3
      <4>6. fewer = taken
        BY <3>7, <4>4, <4>5
      <4> QED
        BY <1>3, <3>3, <4>1, <4>3, <4>6
    <3> QED
      BY <3>9, <3>10
  <2> QED
    BY <2>1, <2>2
<1>15. ValueFollowsLedger'
  BY <1>1, <1>9, <1>12, <1>14 DEF ValueFollowsLedger, Seen
<1> QED
  BY <1>1, <1>4, <1>9, <1>11, <1>14, <1>15, ValueLands DEF FreshCard

\* Settings, returns and requests that fail move nothing that is held.
LEMMA ValueRestKeeps ==
    ASSUME ValueInv,
           \/ \E i \in DOMAIN pointSales : ReturnSale(i)
           \/ UpdateLoyaltyProgram \/ SwitchCustomerProfile \/ \E r \in Desks : ValueRequestFails(r)
    PROVE  ValueInv'
<1>0. UNCHANGED <<card, credit, points>> /\ OneRequestEach
  BY DEF ReturnSale, UpdateLoyaltyProgram, SwitchCustomerProfile, ValueRequestFails, valueRows, ValueInv, ValueTyped
<1>1. /\ OneRequestEach' /\ UNCHANGED blind
      /\ \A q \in Desks : desk'[q].op = "none" \/ (desk'[q] = desk[q] /\ (q \notin overtaken' => q \notin overtaken \/ desk[q].op = "none"))
  <2>1. CASE \E r \in Desks : ValueRequestFails(r)
    <3>1. PICK r \in Desks : RolledBack(r)
      BY <2>1 DEF ValueRequestFails
    <3> QED
      BY <1>0, <3>1, DeskRollsBack
  <2>2. CASE AtOnce
    BY <1>0, <2>2, DeskAtOnce DEF OneRequestEach
  <2> QED
    BY <2>1, <2>2 DEF ReturnSale, UpdateLoyaltyProgram, SwitchCustomerProfile
<1>2. ValueTyped' /\ FreshCard'
  BY <1>0, <1>1 DEF ValueInv, ValueTyped, FreshCard
<1>3. ASSUME NEW q \in Desks PROVE ValueHands(desk[q])' /\ (q \notin overtaken' => ValueChecks(desk[q])')
  <2>1. CASE desk'[q].op = "none"
    BY <2>1 DEF ValueHands, ValueChecks
  <2>2. CASE desk'[q] = desk[q] /\ desk[q].op # "none"
    <3>1. ValueHands(desk[q]) /\ (q \notin overtaken' => ValueChecks(desk[q]))
      BY <1>1, <2>2 DEF ValueInv
    <3> QED
      BY <1>0, <2>2, <3>1 DEF ValueHands, ValueChecks
  <2> QED
    BY <1>1, <2>1, <2>2
<1>4. ValueFollowsLedger'
  BY <1>0, <1>1 DEF ValueInv, ValueFollowsLedger, Seen
<1> QED
  BY <1>2, <1>3, <1>4 DEF ValueInv

\* A step without a move of what is held or of the desks.
LEMMA ValueStands == ValueInv /\ UNCHANGED valueVars => ValueInv'
<1> SUFFICES ASSUME ValueInv, UNCHANGED valueVars PROVE ValueInv'
  OBVIOUS
<1>1. UNCHANGED <<card, credit, points, desk, overtaken, blind>>
  BY DEF valueVars, valueRows, deskVars
<1>2. ValueTyped' /\ FreshCard' /\ ValueFollowsLedger'
  BY <1>1 DEF ValueInv, ValueTyped, OneRequestEach, FreshCard, ValueFollowsLedger, Seen
<1>3. ASSUME NEW q \in Desks PROVE ValueHands(desk[q])' /\ (q \notin overtaken' => ValueChecks(desk[q])')
  <2>1. ValueHands(desk[q]) /\ (q \notin overtaken => ValueChecks(desk[q]))
    BY DEF ValueInv
  <2> QED
    BY <1>1, <2>1 DEF ValueHands, ValueChecks
<1> QED
  BY <1>2, <1>3 DEF ValueInv

\* Every step keeps the invariant.
LEMMA ValueStepInv == ValueInv /\ [CustomerValueNext]_valueVars => ValueInv'
<1> SUFFICES ASSUME ValueInv, [CustomerValueNext]_valueVars PROVE ValueInv'
  OBVIOUS
<1>1. CASE UNCHANGED valueVars
  BY <1>1, ValueStands
<1>2. CASE \E r \in Desks, n \in 1 .. MaxValue : IssueGiftCard(r, n) \/ RedeemGiftCard(r, n)
  <2>1. 0 \in -MaxValue .. MaxValue
    BY CustomerValueAssumption
  <2> QED
    BY <1>2, <2>1, CardReads
<1>3. CASE \E r \in Desks, n \in 1 .. MaxValue :
             IssueStoreCredit(r, n) \/ RedeemStoreCredit(r, n) \/ AdjustStoreCreditDown(r, n)
  BY <1>3, CreditReads
<1>4. CASE \E r \in Desks, delta \in -MaxValue .. MaxValue : AdjustGiftCard(r, delta) \/ AdjustLoyalty(r, delta)
  <2>1. PICK r \in Desks, delta \in -MaxValue .. MaxValue : AdjustGiftCard(r, delta) \/ AdjustLoyalty(r, delta)
    BY <1>4
  <2>2. CASE AdjustGiftCard(r, delta)
    <3>1. delta # 0
      BY <2>2 DEF AdjustGiftCard
    <3>2. 1 \in 1 .. MaxValue
      BY <3>1, CustomerValueAssumption
    <3> QED
      BY <2>2, <3>2, CardReads
  <2>3. CASE AdjustLoyalty(r, delta)
    <3>1. 0 \in 0 .. MaxValue
      BY CustomerValueAssumption
    <3> QED
      BY <2>3, <3>1, PointsReads
  <2> QED
    BY <2>1, <2>2, <2>3
<1>5. CASE \E r \in Desks, taken \in 0 .. MaxValue, earned \in 0 .. MaxValue : SellWithPoints(r, taken, earned)
  <2>1. 0 \in -MaxValue .. MaxValue
    BY CustomerValueAssumption
  <2> QED
    BY <1>5, <2>1, PointsReads
<1>6. CASE \E r \in Desks : DisableGiftCard(r) \/ ReactivateGiftCard(r)
  BY <1>6, CardSwitchKeeps
<1>7. CASE \E r \in Desks : StoreCard(r) \/ StorePoints(r) \/ \E late \in BOOLEAN : StoreCredit(r, late)
  BY <1>7, StoreCardKeeps, StorePointsKeeps, StoreCreditKeeps
<1>8. CASE \/ \E i \in DOMAIN pointSales : ReturnSale(i)
           \/ UpdateLoyaltyProgram \/ SwitchCustomerProfile \/ \E r \in Desks : ValueRequestFails(r)
  BY <1>8, ValueRestKeeps
<1> QED
  BY <1>1, <1>2, <1>3, <1>4, <1>5, <1>6, <1>7, <1>8 DEF CustomerValueNext

\* The inductive invariant of cards, credit and points.
THEOREM ValueInvariant == CustomerValueSpec => []ValueInv
<1> QED
  BY ValueInitInv, ValueStepInv, PTL DEF CustomerValueSpec

\* For any amounts, requests and programme card, credit and points are what their ledgers add up to.
THEOREM ValueFollowsItsLedger == CustomerValueSpec => []ValueFollowsLedger
<1>1. ValueInv => ValueFollowsLedger
  BY DEF ValueInv
<1> QED
  BY <1>1, ValueInvariant, PTL

-----------------------------------------------------------------------------
(* Lots and their expiry. *)

-----------------------------------------------------------------------------
(* Lots and their expiry. *)

WriteOffRow == [lot : Nat, quantity : Nat, review : Nat]
ExpiryReviewRow == [lot : Nat, snapshot : Int, proposed : Int, status : {"OPEN", "REVIEWED", "APPROVED", "CANCELED"}]

LotsTyped ==
    /\ lots \in Seq(Nat) /\ recordings \in Seq(Nat) /\ writeOffs \in Seq(WriteOffRow)
    /\ expiryReviews \in Seq(ExpiryReviewRow) /\ sold \in Nat /\ OneRequestEach

\* Write-offs and reviews are of lots, and write-offs of reviews, that are there.
LotsPlaced ==
    /\ recordings = <<>> => lots = <<>>
    /\ \A w \in DOMAIN writeOffs :
          writeOffs[w].lot \in DOMAIN lots /\ (writeOffs[w].review # 0 => writeOffs[w].review \in DOMAIN expiryReviews)
    /\ \A i \in DOMAIN expiryReviews : expiryReviews[i].lot \in DOMAIN lots

LotsHands(d) ==
    /\ d.op = "lots" => d.split \in Seq(Nat) /\ Added(d.split) = ReceivedQuantity
    /\ d.op = "writeoff" =>
         /\ d.lot \in DOMAIN lots /\ d.quantity \in Nat /\ d.quantity > 0 /\ d.review \in Nat
         /\ d.review # 0 => d.review \in DOMAIN expiryReviews
    /\ d.op = "open" => d.lot \in DOMAIN lots /\ d.snapshot \in Int
    /\ d.op = "propose" => d.review \in DOMAIN expiryReviews /\ d.quantity \in Int
    /\ d.op = "withdraw" => d.review \in DOMAIN expiryReviews

\* What a request that was not overtaken has read is so.
LotsChecks(d) ==
    /\ d.op = "lots" => lots = <<>>
    /\ d.op = "writeoff" => d.quantity <= Remaining(d.lot)
    /\ d.op = "writeoff" /\ d.review # 0 => expiryReviews[d.review].status = "REVIEWED"
    /\ d.op = "propose" => expiryReviews[d.review].status = "OPEN"
    /\ d.op = "withdraw" => expiryReviews[d.review].status # "APPROVED"

LotsInv ==
    /\ LotsTyped /\ LotsPlaced /\ LotsCovered
    /\ \A r \in Desks : LotsHands(desk[r]) /\ (r \notin overtaken => LotsChecks(desk[r]))

\* What was written off of a lot, and of all, is a natural number.
LEMMA WrittenOffIsNatural ==
    ASSUME writeOffs \in Seq(WriteOffRow), sold \in Nat
    PROVE  /\ \A n : WrittenOff(n) \in Nat
           /\ Added([w \in DOMAIN writeOffs |-> writeOffs[w].quantity]) \in Nat /\ ProductStock \in Int
<1>1. PICK k \in Nat : k = Len(writeOffs) /\ DOMAIN writeOffs = 1 .. k
  OBVIOUS
<1>2. \A w \in 1 .. k : writeOffs[w].quantity \in Nat
  <2>1. \A w \in 1 .. k : writeOffs[w] \in WriteOffRow
    BY <1>1
  <2> QED
    BY <2>1 DEF WriteOffRow
<1>3. ASSUME NEW n PROVE WrittenOff(n) \in Nat
  <2>1. PICK s : s = [w \in 1 .. k |-> IF writeOffs[w].lot = n THEN writeOffs[w].quantity ELSE 0]
    OBVIOUS
  <2>2. s \in [1 .. k -> Nat]
    BY <1>2, <2>1
  <2>3. s \in Seq(Nat)
    BY <2>2
  <2> QED
    BY <1>1, <2>1, <2>3, AddedNaturals DEF WrittenOff
<1>4. PICK s : s = [w \in 1 .. k |-> writeOffs[w].quantity]
  OBVIOUS
<1>5. s \in [1 .. k -> Nat]
  BY <1>2, <1>4
<1>6. s \in Seq(Nat)
  BY <1>5
<1>7. Added([w \in DOMAIN writeOffs |-> writeOffs[w].quantity]) \in Nat
  BY <1>1, <1>4, <1>6, AddedNaturals
<1> QED
  BY <1>3, <1>7, BatchLotsAssumption DEF ProductStock

\* The report: what is left of each lot, in the order of expiry, adds up to the stock.
LEMMA ReportAddsUp ==
    ASSUME LotsTyped
    PROVE  /\ FirstExpiryFirstOut
           /\ \A n \in DOMAIN lots :
                 /\ Remaining(n) \in Nat /\ Remaining(n) <= NonNegative(lots[n] - WrittenOff(n))
                 /\ Remaining(n) <= NonNegative(ProductStock)
<1>1. PICK k \in Nat : k = Len(lots) /\ DOMAIN lots = 1 .. k
  BY DEF LotsTyped
<1>2. PICK net : net = [n \in 1 .. k |-> NonNegative(lots[n] - WrittenOff(n))]
  OBVIOUS
<1>3. ASSUME NEW n \in 1 .. k PROVE net[n] \in Nat /\ net[n] = NonNegative(lots[n] - WrittenOff(n))
  <2>1. PICK x \in Nat : x = lots[n]
    BY <1>1 DEF LotsTyped
  <2>2. PICK y \in Nat : y = WrittenOff(n)
    BY WrittenOffIsNatural DEF LotsTyped
  <2>3. NonNegative(x - y) \in Nat
    BY DEF NonNegative
  <2> QED
    BY <1>2, <2>1, <2>2, <2>3
<1>4. net \in [1 .. k -> Nat] /\ net \in [1 .. k -> Int]
  BY <1>2, <1>3
<1>5. PICK total \in Nat : total = Added(net) /\ total = PartialSum(net, k)
  <2>1. net \in Seq(Nat)
    BY <1>4
  <2> QED
    BY <1>4, <2>1, AddedNaturals, AddedIsPartialSum
<1>6. PICK stock \in Int : stock = ProductStock
  BY WrittenOffIsNatural DEF LotsTyped
<1>7. PICK gone \in Nat : gone = total - Lesser(stock, total)
  <2>1. Lesser(stock, total) \in Int /\ Lesser(stock, total) <= total
    BY DEF Lesser
  <2>2. total - Lesser(stock, total) \in Nat
    BY <2>1
  <2> QED
    BY <2>2
<1>8. PICK left : left = Depleted.remaining
  OBVIOUS
<1>9. Depleted.net = net /\ Depleted.total = total
  BY <1>1, <1>2, <1>5 DEF Depleted
<1>10. /\ left = [n \in 1 .. k |-> left[n]]
       /\ \A n \in 1 .. k :
             left[n] = net[n] - Lesser(net[n], NonNegative(gone - Added([m \in 1 .. k |-> IF UsedBefore(m, n) THEN net[m] ELSE 0])))
  BY <1>1, <1>2, <1>5, <1>6, <1>7, <1>8 DEF Depleted
<1>11. \A i \in 0 .. k : PartialSum(net, i) \in Nat
  BY <1>4, PartialSumClimbs
<1>12. ASSUME NEW n \in 1 .. k
       PROVE  left[n] = net[n] - Smaller(net[n], IF gone > PartialSum(net, n - 1) THEN gone - PartialSum(net, n - 1) ELSE 0)
  <2>1. [m \in 1 .. k |-> IF UsedBefore(m, n) THEN net[m] ELSE 0] = [m \in 1 .. k |-> IF m < n THEN net[m] ELSE 0]
    BY DEF UsedBefore
  <2>2. \A i \in 1 .. k : net[i] \in Int
    BY <1>4
  <2>3. Added([m \in 1 .. k |-> IF m < n THEN net[m] ELSE 0]) = PartialSum(net, n - 1)
    BY <2>2, AddedBefore
  <2>4. n - 1 \in 0 .. k
    OBVIOUS
  <2>5. PICK p \in Nat : p = PartialSum(net, n - 1)
    BY <1>11, <2>4
  <2>6. PICK x \in Nat : x = net[n]
    BY <1>4
  <2>7. left[n] = x - Lesser(x, NonNegative(gone - p))
    BY <1>10, <2>1, <2>3, <2>5, <2>6
  <2>8. NonNegative(gone - p) = (IF gone > p THEN gone - p ELSE 0)
    BY DEF NonNegative
  <2>9. Lesser(x, NonNegative(gone - p)) = Smaller(x, IF gone > p THEN gone - p ELSE 0)
    BY <2>8 DEF Lesser, Smaller
  <2> QED
    BY <2>5, <2>6, <2>7, <2>9
<1>13. \A n \in 1 .. k : net[n] \in Nat
  BY <1>4
<1>14. /\ \A n \in 1 .. k : left[n] \in Nat /\ left[n] <= net[n]
       /\ PartialSum(left, k) = PartialSum(net, k) - Smaller(gone, PartialSum(net, k))
  BY <1>12, <1>13, TakenInOrder, ZenonT(60)
<1>15. left \in [1 .. k -> Int]
  BY <1>10, <1>14
<1>16. Added(left) = total - Smaller(gone, total) /\ Added(left) = PartialSum(left, k)
  BY <1>5, <1>14, <1>15, AddedIsPartialSum
<1>17. Added(left) = Lesser(NonNegative(stock), total)
  BY <1>7, <1>16 DEF Lesser, Smaller, NonNegative
<1>18. ASSUME NEW m \in 1 .. k, NEW n \in 1 .. k, m < n, left[m] > 0 PROVE left[n] = net[n]
  <2>1. m - 1 \in 0 .. k /\ m \in 0 .. k /\ n - 1 \in 0 .. k /\ m <= n - 1
    BY <1>18
  <2>2. PICK p \in Nat : p = PartialSum(net, m - 1)
    BY <1>11, <2>1
  <2>3. PICK q \in Nat : q = PartialSum(net, n - 1)
    BY <1>11, <2>1
  <2>4. PICK x \in Nat : x = net[m]
    BY <1>13
  <2>5. PICK y \in Nat : y = net[n]
    BY <1>13
  <2>6. PartialSum(net, m) = p + x
    BY <1>13, <2>2, <2>4, PartialSumClimbs
  <2>7. p + x <= q
    BY <1>13, <2>1, <2>3, <2>6, PartialSumClimbs
  <2>8. left[m] = x - Smaller(x, IF gone > p THEN gone - p ELSE 0)
    BY <1>12, <2>2, <2>4
  <2>9. gone < p + x
    BY <1>18, <2>8 DEF Smaller
  <2>10. left[n] = y - Smaller(y, IF gone > q THEN gone - q ELSE 0)
    BY <1>12, <2>3, <2>5
  <2> QED
    BY <2>5, <2>7, <2>9, <2>10 DEF Smaller
<1>19. FirstExpiryFirstOut
  <2>1. PICK report : report = Depleted
    OBVIOUS
  <2>2. Added(report.remaining) = Lesser(NonNegative(ProductStock), report.total)
    BY <1>6, <1>8, <1>9, <1>17, <2>1
  <2>3. \A m, n \in DOMAIN lots : m < n /\ report.remaining[m] > 0 => report.remaining[n] = report.net[n]
    BY <1>1, <1>8, <1>9, <1>18, <2>1
  <2> QED
    BY <2>1, <2>2, <2>3 DEF FirstExpiryFirstOut
<1>20. ASSUME NEW n \in 1 .. k
       PROVE  /\ Remaining(n) \in Nat /\ Remaining(n) <= NonNegative(lots[n] - WrittenOff(n))
              /\ Remaining(n) <= NonNegative(stock)
  <2>1. PICK x \in Nat : x = left[n]
    BY <1>14
  <2>2. Remaining(n) = x
    BY <1>8, <2>1 DEF Remaining
  <2>3. x <= net[n]
    BY <1>14, <2>1
  <2>4. x <= PartialSum(left, k)
    BY <1>14, <2>1, PartialSumClimbs
  <2>5. NonNegative(stock) \in Nat
    BY DEF NonNegative
  <2>6. x <= NonNegative(stock)
    BY <1>16, <1>17, <2>4, <2>5 DEF Lesser
  <2> QED
    BY <1>3, <2>1, <2>2, <2>3, <2>6
<1> QED
  BY <1>1, <1>6, <1>19, <1>20

\* The write-offs of a review.
WriteOffsOf(i) == {w \in DOMAIN writeOffs : writeOffs[w].review = i}

\* The parts of what the lots are covered by.
LotsRecorded == Added(lots) \in {0, ReceivedQuantity} \/ \E n \in DOMAIN recordings : ~Seen("recording", n)
LotsKeepTheirs ==
    \A n \in DOMAIN lots : WrittenOff(n) > lots[n] => \E w \in DOMAIN writeOffs : ~Seen("writeoff", w)
StockKeepsIts == ProductStock < 0 => \E w \in DOMAIN writeOffs : ~Seen("writeoff", w)
ReviewsSettle ==
    \A i \in DOMAIN expiryReviews :
        Seen("expiry", i) => Cardinality(WriteOffsOf(i)) = IF expiryReviews[i].status = "APPROVED" THEN 1 ELSE 0

\* They are what the run checks of the lots.
LEMMA LotsCoveredParts == LotsCovered <=> LotsRecorded /\ LotsKeepTheirs /\ StockKeepsIts /\ ReviewsSettle
BY DEF LotsCovered, LotsRecorded, LotsKeepTheirs, StockKeepsIts, ReviewsSettle, WriteOffsOf

\* A product that has neither lots nor sales.
LotsEmpty == lots = <<>> /\ recordings = <<>> /\ writeOffs = <<>> /\ expiryReviews = <<>> /\ sold = 0

\* Where there are no lots there is nothing to cover.
LEMMA LotsBegin ==
    ASSUME LotsEmpty, OneRequestEach
    PROVE  LotsTyped /\ LotsPlaced /\ LotsCovered
<1>1. lots = <<>> /\ recordings = <<>> /\ writeOffs = <<>> /\ expiryReviews = <<>> /\ sold = 0
  BY DEF LotsEmpty
<1>2. LotsTyped /\ LotsPlaced
  BY <1>1 DEF LotsTyped, LotsPlaced
<1>3. LotsRecorded
  BY <1>1, AddedNothing DEF LotsRecorded
<1>4. ProductStock >= 0
  <2>1. [w \in DOMAIN writeOffs |-> writeOffs[w].quantity] = <<>>
    BY <1>1
  <2> QED
    BY <1>1, <2>1, AddedNothing, BatchLotsAssumption DEF ProductStock
<1>5. StockKeepsIts
  <2>1. PICK stock \in Int : stock = ProductStock
    BY <1>2, WrittenOffIsNatural DEF LotsTyped
  <2> QED
    BY <1>4, <2>1 DEF StockKeepsIts
<1>6. LotsKeepTheirs /\ ReviewsSettle
  BY <1>1 DEF LotsKeepTheirs, ReviewsSettle
<1> QED
  BY <1>2, <1>3, <1>5, <1>6, LotsCoveredParts

\* The lots begin with no request in hand.
LEMMA LotsInitInv == BatchLotsInit => LotsInv
<1> SUFFICES ASSUME BatchLotsInit PROVE LotsInv
  OBVIOUS
<1>1. LotsEmpty /\ OneRequestEach
  BY DEF BatchLotsInit, DeskInit, LotsEmpty, OneRequestEach
<1>2. \A r \in Desks : desk[r].op = "none"
  BY DEF BatchLotsInit, DeskInit, Idle
<1>3. \A r \in Desks : LotsHands(desk[r]) /\ LotsChecks(desk[r])
  BY <1>2 DEF LotsHands, LotsChecks
<1> QED
  BY <1>1, <1>3, LotsBegin DEF LotsInv

\* Where the rows stand, so does what is said of them.
LEMMA LotsStandStill ==
    ASSUME UNCHANGED <<lots, recordings, writeOffs, expiryReviews, sold>>
    PROVE  /\ \A n : Remaining(n)' = Remaining(n) /\ WrittenOff(n)' = WrittenOff(n)
           /\ ProductStock' = ProductStock
           /\ UNCHANGED blind => (LotsCovered => LotsCovered')
           /\ LotsPlaced => LotsPlaced'
<1>1. \A n : WrittenOff(n)' = WrittenOff(n)
  BY DEF WrittenOff
<1>2. ProductStock' = ProductStock
  BY DEF ProductStock
<1>3. Depleted' = Depleted
  BY DEF Depleted, WrittenOff, ProductStock, UsedBefore
<1>4. \A n : Remaining(n)' = Remaining(n)
  BY <1>3 DEF Remaining
<1>5. UNCHANGED blind => (LotsCovered => LotsCovered')
  BY <1>1, <1>2 DEF LotsCovered, Seen
<1>6. LotsPlaced => LotsPlaced'
  BY DEF LotsPlaced
<1> QED
  BY <1>1, <1>2, <1>4, <1>5, <1>6

\* A request that reads has in hand what it has read.
LEMMA LotsGoOn ==
    ASSUME LotsInv, NEW r \in Desks, NEW e, Looks(r, e), LotsHands(e), LotsChecks(e)
    PROVE  LotsInv'
<1>0. UNCHANGED <<lots, recordings, writeOffs, expiryReviews, sold>> /\ Checked(r, e) /\ OneRequestEach
  BY DEF Looks, batchRows, LotsInv, LotsTyped
<1>1. /\ OneRequestEach' /\ desk'[r] = e /\ UNCHANGED <<overtaken, blind>>
      /\ \A q \in Desks \ {r} : desk'[q] = desk[q]
  BY <1>0, DeskChecks
<1>2. LotsTyped'
  BY <1>0, <1>1 DEF LotsInv, LotsTyped
<1>3. ASSUME NEW q \in Desks PROVE LotsHands(desk[q])' /\ (q \notin overtaken' => LotsChecks(desk[q])')
  <2>1. PICK d : d = desk'[q] /\ LotsHands(d) /\ (q \notin overtaken' => LotsChecks(d))
    BY <1>1 DEF LotsInv
  <2>2. LotsHands(d)'
    BY <1>0, <2>1 DEF LotsHands
  <2>3. q \notin overtaken' => LotsChecks(d)'
    BY <1>0, <2>1, LotsStandStill DEF LotsChecks
  <2> QED
    BY <2>1, <2>2, <2>3 DEF LotsHands, LotsChecks
<1>4. LotsPlaced' /\ LotsCovered'
  BY <1>0, <1>1, LotsStandStill DEF LotsInv
<1> QED
  BY <1>2, <1>3, <1>4 DEF LotsInv

\* Every request reads what it is compared with.
LEMMA LotsReads ==
    ASSUME LotsInv, NEW r \in Desks,
           \/ \E split \in Splits : CreateBatchLots(r, split)
           \/ \E n \in DOMAIN lots : CreateExpiryReview(r, n) \/ \E q \in 1 .. lots[n] : CreateExpiryWriteOff(r, n, q)
           \/ \E i \in DOMAIN expiryReviews :
                 \/ ApproveExpiryReview(r, i) \/ CancelExpiryReview(r, i)
                 \/ \E q \in 1 .. expiryReviews[i].snapshot : RecordExpiryReview(r, i, q)
    PROVE  LotsInv'
<1>0. LotsTyped /\ LotsPlaced
  BY DEF LotsInv
<1>1. ASSUME NEW split \in Splits, CreateBatchLots(r, split) PROVE LotsInv'
  <2>1. PICK e : e = [op |-> "lots", split |-> split]
    OBVIOUS
  <2>2. split \in Seq(Nat) /\ Added(split) = ReceivedQuantity /\ lots = <<>>
    BY <1>1, BatchLotsAssumption DEF CreateBatchLots
  <2>3. LotsHands(e) /\ LotsChecks(e) /\ Looks(r, e)
    BY <1>1, <2>1, <2>2 DEF LotsHands, LotsChecks, CreateBatchLots
  <2> QED
    BY <2>3, LotsGoOn
<1>2. ASSUME NEW n \in DOMAIN lots, CreateExpiryReview(r, n) PROVE LotsInv'
  <2>1. PICK e : e = [op |-> "open", lot |-> n, snapshot |-> Remaining(n)]
    OBVIOUS
  <2>2. Remaining(n) \in Int
    BY <1>0, ReportAddsUp
  <2>3. LotsHands(e) /\ LotsChecks(e) /\ Looks(r, e)
    BY <1>2, <2>1, <2>2 DEF LotsHands, LotsChecks, CreateExpiryReview
  <2> QED
    BY <2>3, LotsGoOn
<1>3. ASSUME NEW n \in DOMAIN lots, NEW q \in 1 .. lots[n], CreateExpiryWriteOff(r, n, q) PROVE LotsInv'
  <2>1. PICK e : e = [op |-> "writeoff", lot |-> n, quantity |-> q, review |-> 0]
    OBVIOUS
  <2>2. q \in Nat /\ q > 0 /\ q <= Remaining(n)
    BY <1>0, <1>3 DEF CreateExpiryWriteOff, WriteOffAllowed, LotsTyped
  <2>3. LotsHands(e) /\ LotsChecks(e) /\ Looks(r, e)
    BY <1>3, <2>1, <2>2 DEF LotsHands, LotsChecks, CreateExpiryWriteOff
  <2> QED
    BY <2>3, LotsGoOn
<1>4. ASSUME NEW i \in DOMAIN expiryReviews, ApproveExpiryReview(r, i) PROVE LotsInv'
  <2>0. expiryReviews[i] \in ExpiryReviewRow /\ i \in Nat
    BY <1>0 DEF LotsTyped
  <2>1. PICK e : e = [op |-> "writeoff", lot |-> expiryReviews[i].lot, quantity |-> expiryReviews[i].proposed, review |-> i]
    OBVIOUS
  <2>2. PICK q \in Nat : q = expiryReviews[i].proposed /\ q > 0 /\ q <= Remaining(expiryReviews[i].lot)
    BY <1>4, <2>0 DEF ApproveExpiryReview, WriteOffAllowed, ExpiryReviewRow
  <2>3. expiryReviews[i].lot \in DOMAIN lots /\ expiryReviews[i].status = "REVIEWED"
    BY <1>0, <1>4 DEF LotsPlaced, ApproveExpiryReview, ReviewApprovable
  <2>4. LotsHands(e) /\ LotsChecks(e) /\ Looks(r, e)
    BY <1>4, <2>0, <2>1, <2>2, <2>3 DEF LotsHands, LotsChecks, ApproveExpiryReview
  <2> QED
    BY <2>4, LotsGoOn
<1>5. ASSUME NEW i \in DOMAIN expiryReviews, CancelExpiryReview(r, i) PROVE LotsInv'
  <2>1. PICK e : e = [op |-> "withdraw", review |-> i]
    OBVIOUS
  <2>2. LotsHands(e) /\ LotsChecks(e) /\ Looks(r, e)
    BY <1>5, <2>1 DEF LotsHands, LotsChecks, CancelExpiryReview
  <2> QED
    BY <2>2, LotsGoOn
<1>6. ASSUME NEW i \in DOMAIN expiryReviews, NEW q \in 1 .. expiryReviews[i].snapshot, RecordExpiryReview(r, i, q) PROVE LotsInv'
  <2>0. expiryReviews[i] \in ExpiryReviewRow
    BY <1>0 DEF LotsTyped
  <2>1. PICK e : e = [op |-> "propose", review |-> i, quantity |-> q]
    OBVIOUS
  <2>2. q \in Int
    BY <2>0 DEF ExpiryReviewRow
  <2>3. LotsHands(e) /\ LotsChecks(e) /\ Looks(r, e)
    BY <1>6, <2>1, <2>2 DEF LotsHands, LotsChecks, RecordExpiryReview
  <2> QED
    BY <2>3, LotsGoOn
<1> QED
  BY <1>1, <1>2, <1>3, <1>4, <1>5, <1>6

\* A commit leaves what the other requests have in hand, which it overtakes.
LEMMA LotsLand ==
    ASSUME LotsInv, NEW r \in Desks, NEW rows, Committed(r, rows),
           lots' \in Seq(Nat), recordings' \in Seq(Nat), writeOffs' \in Seq(WriteOffRow),
           expiryReviews' \in Seq(ExpiryReviewRow), UNCHANGED sold,
           DOMAIN lots \subseteq DOMAIN lots', DOMAIN expiryReviews \subseteq DOMAIN expiryReviews',
           LotsPlaced', LotsRecorded', LotsKeepTheirs', StockKeepsIts', ReviewsSettle'
    PROVE  LotsInv'
<1>0. OneRequestEach
  BY DEF LotsInv, LotsTyped
<1>1. /\ OneRequestEach' /\ \A q \in Desks : desk'[q].op = "none" \/ desk'[q] = desk[q]
      /\ \A q \in Desks : q \notin overtaken' => desk'[q].op = "none"
  BY <1>0, DeskCommits
<1>2. LotsTyped'
  BY <1>1 DEF LotsInv, LotsTyped
<1>3. ASSUME NEW q \in Desks PROVE LotsHands(desk[q])' /\ (q \notin overtaken' => LotsChecks(desk[q])')
  <2>1. CASE desk'[q].op = "none"
    BY <2>1 DEF LotsHands, LotsChecks
  <2>2. CASE desk'[q] = desk[q]
    <3>1. LotsHands(desk[q])
      BY DEF LotsInv
    <3>2. LotsHands(desk[q])'
      BY <2>2, <3>1 DEF LotsHands
    <3>3. q \notin overtaken' => LotsChecks(desk[q])'
      BY <1>1 DEF LotsChecks
    <3> QED
      BY <3>2, <3>3
  <2> QED
    BY <1>1, <2>1, <2>2
<1>4. LotsCovered'
  BY DEF LotsCovered, LotsRecorded, LotsKeepTheirs, StockKeepsIts, ReviewsSettle, WriteOffsOf
<1> QED
  BY <1>2, <1>3, <1>4 DEF LotsInv

\* The lots of the receipt, recorded together.
LEMMA StoreBatchLotsKeeps ==
    ASSUME LotsInv, NEW r \in Desks, StoreBatchLots(r)
    PROVE  LotsInv'
<1>1. LotsTyped /\ LotsPlaced /\ LotsRecorded /\ LotsKeepTheirs /\ StockKeepsIts /\ ReviewsSettle /\ desk[r].op = "lots"
  BY LotsCoveredParts DEF LotsInv, StoreBatchLots, Doing
<1>2. PICK split \in Seq(Nat) : split = desk[r].split /\ Added(split) = ReceivedQuantity
  BY <1>1 DEF LotsInv, LotsHands
<1>3. PICK k \in Nat : k = Len(lots) /\ DOMAIN lots = 1 .. k
  BY <1>1 DEF LotsTyped
<1>4. PICK l \in Nat : l = Len(recordings) /\ DOMAIN recordings = 1 .. l
  BY <1>1 DEF LotsTyped
<1>5. lots' = lots \o split /\ Committed(r, {<<"recording", l + 1>>}) /\ UNCHANGED <<writeOffs, expiryReviews, sold>>
  BY <1>2, <1>4 DEF StoreBatchLots
<1>6. /\ lots' \in Seq(Nat) /\ Len(lots') = k + Len(split)
      /\ \A n \in 1 .. k + Len(split) : lots'[n] = IF n <= k THEN lots[n] ELSE split[n - k]
  BY <1>1, <1>3, <1>5, ConcatProperties DEF LotsTyped
<1>7. DOMAIN lots \subseteq DOMAIN lots' /\ \A n \in DOMAIN lots : lots'[n] = lots[n]
  BY <1>3, <1>6
<1>8. PICK size \in Nat : size = Len(split)
  OBVIOUS
<1>9. recordings' = Append(recordings, size)
  BY <1>2, <1>8 DEF StoreBatchLots
<1>10. recordings' \in Seq(Nat) /\ DOMAIN recordings' = 1 .. l + 1
  BY <1>1, <1>4, <1>9, OneFactMore DEF LotsTyped
<1>11. blind \subseteq blind' /\ (r \in overtaken => <<"recording", l + 1>> \in blind')
  BY <1>1, <1>5, DeskCommits DEF LotsTyped
<1>12. LotsPlaced'
  BY <1>1, <1>5, <1>7, <1>10 DEF LotsPlaced
<1>13. LotsRecorded'
  <2>1. CASE r \in overtaken
    <3>1. l + 1 \in DOMAIN recordings' /\ ~Seen("recording", l + 1)'
      BY <1>10, <1>11, <2>1 DEF Seen
    <3> QED
      BY <3>1 DEF LotsRecorded
  <2>2. CASE r \notin overtaken
    <3>1. lots = <<>>
      BY <1>1, <2>2 DEF LotsInv, LotsChecks
    <3>2. lots' = split
      BY <1>5, <3>1, ConcatProperties
    <3> QED
      BY <1>2, <3>2 DEF LotsRecorded
  <2> QED
    BY <2>1, <2>2
<1>14. LotsKeepTheirs'
  <2>1. ASSUME NEW n \in DOMAIN lots', WrittenOff(n) > lots'[n] PROVE \E w \in DOMAIN writeOffs : ~Seen("writeoff", w)
    <3>1. CASE n \in DOMAIN lots
      <4>1. WrittenOff(n) > lots[n]
        BY <1>7, <2>1, <3>1
      <4> QED
        BY <1>1, <3>1, <4>1 DEF LotsKeepTheirs
    <3>2. CASE n \notin DOMAIN lots
      <4>0. writeOffs \in Seq(WriteOffRow)
        BY <1>1 DEF LotsTyped
      <4>1. PICK m \in Nat : m = Len(writeOffs) /\ DOMAIN writeOffs = 1 .. m
        BY <4>0
      <4>2. PICK s : s = [w \in 1 .. m |-> IF writeOffs[w].lot = n THEN writeOffs[w].quantity ELSE 0]
        OBVIOUS
      <4>3. \A w \in 1 .. m : s[w] = 0
        BY <1>1, <3>2, <4>1, <4>2 DEF LotsPlaced
      <4>4. s \in [1 .. m -> Int]
        BY <4>2, <4>3
      <4>5. Added(s) = 0
        BY <4>3, <4>4, AddedNaughts
      <4>6. WrittenOff(n) = 0
        BY <4>1, <4>2, <4>5 DEF WrittenOff
      <4>7. lots'[n] \in Nat
        BY <1>6
      <4> QED
        BY <2>1, <4>6, <4>7
    <3> QED
      BY <3>1, <3>2
  <2>2. \A n : WrittenOff(n)' = WrittenOff(n)
    BY <1>5 DEF WrittenOff
  <2> QED
    BY <1>5, <1>11, <2>1, <2>2 DEF LotsKeepTheirs, Seen
<1>15. StockKeepsIts'
  BY <1>1, <1>5, <1>11 DEF StockKeepsIts, ProductStock, Seen
<1>16. ReviewsSettle'
  BY <1>1, <1>5, <1>11 DEF ReviewsSettle, WriteOffsOf, Seen
<1>17. writeOffs' \in Seq(WriteOffRow) /\ expiryReviews' \in Seq(ExpiryReviewRow)
  BY <1>1, <1>5 DEF LotsTyped
<1> QED
  BY <1>5, <1>6, <1>7, <1>10, <1>12, <1>13, <1>14, <1>15, <1>16, <1>17, LotsLand

\* What the lots and the stock have lost, where no row of theirs moves.
LEMMA LotsAside ==
    ASSUME UNCHANGED <<lots, recordings, writeOffs, sold>>, blind \subseteq blind'
    PROVE  /\ LotsRecorded => LotsRecorded'
           /\ LotsKeepTheirs => LotsKeepTheirs'
           /\ StockKeepsIts => StockKeepsIts'
<1>1. (\A n : WrittenOff(n)' = WrittenOff(n)) /\ ProductStock' = ProductStock
  BY DEF WrittenOff, ProductStock
<1> QED
  BY <1>1 DEF LotsRecorded, LotsKeepTheirs, StockKeepsIts, Seen

\* A review that is opened has no write-off.
LEMMA StoreExpiryReviewKeeps ==
    ASSUME LotsInv, NEW r \in Desks, StoreExpiryReview(r)
    PROVE  LotsInv'
<1>1. LotsTyped /\ LotsPlaced /\ LotsRecorded /\ LotsKeepTheirs /\ StockKeepsIts /\ ReviewsSettle /\ desk[r].op = "open"
  BY LotsCoveredParts DEF LotsInv, StoreExpiryReview, Doing
<1>2. PICK lot \in DOMAIN lots, snapshot \in Int : lot = desk[r].lot /\ snapshot = desk[r].snapshot
  BY <1>1 DEF LotsInv, LotsHands
<1>3. PICK row : row = [lot |-> lot, snapshot |-> snapshot, proposed |-> 0, status |-> "OPEN"]
  OBVIOUS
<1>4. lot \in Nat
  BY <1>1 DEF LotsTyped
<1>5. row \in ExpiryReviewRow /\ row.lot = lot /\ row.status = "OPEN"
  BY <1>3, <1>4 DEF ExpiryReviewRow
<1>6. PICK k \in Nat : k = Len(expiryReviews) /\ DOMAIN expiryReviews = 1 .. k
  BY <1>1 DEF LotsTyped
<1>7. expiryReviews' = Append(expiryReviews, row) /\ Committed(r, {<<"expiry", k + 1>>})
  BY <1>2, <1>3, <1>6 DEF StoreExpiryReview
<1>8. /\ expiryReviews' \in Seq(ExpiryReviewRow) /\ DOMAIN expiryReviews' = 1 .. k + 1 /\ expiryReviews'[k + 1] = row
      /\ \A i \in 1 .. k : expiryReviews'[i] = expiryReviews[i]
  BY <1>1, <1>5, <1>6, <1>7, OneFactMore DEF LotsTyped
<1>9. UNCHANGED <<lots, recordings, writeOffs, sold>>
  BY DEF StoreExpiryReview
<1>10. blind \subseteq blind'
  BY <1>1, <1>7, DeskCommits DEF LotsTyped
<1>11. DOMAIN expiryReviews \subseteq DOMAIN expiryReviews' /\ k + 1 \in DOMAIN expiryReviews' /\ k + 1 \notin DOMAIN expiryReviews
  BY <1>6, <1>8
<1>12. LotsPlaced'
  <2>1. \A i \in 1 .. k + 1 : expiryReviews'[i].lot \in DOMAIN lots
    <3>1. ASSUME NEW i \in 1 .. k + 1 PROVE expiryReviews'[i].lot \in DOMAIN lots
      <4>1. CASE i = k + 1
        BY <1>5, <1>8, <4>1
      <4>2. CASE i # k + 1
        <5>1. i \in 1 .. k
          BY <4>2
        <5> QED
          BY <1>1, <1>6, <1>8, <5>1 DEF LotsPlaced
      <4> QED
        BY <4>1, <4>2
    <3> QED
      BY <3>1
  <2> QED
    BY <1>1, <1>8, <1>9, <1>11, <2>1 DEF LotsPlaced
<1>13. ReviewsSettle'
  <2>1. \A i : WriteOffsOf(i)' = WriteOffsOf(i)
    BY <1>9 DEF WriteOffsOf
  <2>2. WriteOffsOf(k + 1) = {}
    <3>1. k + 1 # 0
      OBVIOUS
    <3> QED
      BY <1>1, <1>11, <3>1 DEF LotsPlaced, WriteOffsOf
  <2>3. Cardinality(WriteOffsOf(k + 1)) = 0
    BY <2>2, FS_EmptySet
  <2>4. ASSUME NEW i \in 1 .. k + 1, Seen("expiry", i)'
        PROVE  Cardinality(WriteOffsOf(i)) = IF expiryReviews'[i].status = "APPROVED" THEN 1 ELSE 0
    <3>1. CASE i = k + 1
      BY <1>5, <1>8, <2>3, <3>1
    <3>2. CASE i # k + 1
      <4>1. i \in 1 .. k
        BY <3>2
      <4> QED
        BY <1>1, <1>6, <1>8, <1>10, <2>4, <4>1 DEF ReviewsSettle, Seen
    <3> QED
      BY <3>1, <3>2
  <2> QED
    BY <1>8, <2>1, <2>4 DEF ReviewsSettle
<1>14. LotsRecorded' /\ LotsKeepTheirs' /\ StockKeepsIts'
  BY <1>1, <1>9, <1>10, LotsAside
<1> QED
  BY <1>1, <1>7, <1>8, <1>9, <1>11, <1>12, <1>13, <1>14, LotsLand DEF LotsTyped

\* A review whose proposal or status is written by a request that was not overtaken is not approved.
LEMMA ReviewIsWritten ==
    ASSUME LotsInv, NEW r \in Desks, NEW i, i \in DOMAIN expiryReviews, NEW row \in ExpiryReviewRow,
           row.lot = expiryReviews[i].lot, row.status # "APPROVED",
           expiryReviews' = [expiryReviews EXCEPT ![i] = row], Committed(r, {<<"expiry", i>>}),
           UNCHANGED <<lots, recordings, writeOffs, sold>>,
           r \notin overtaken => expiryReviews[i].status # "APPROVED"
    PROVE  LotsInv'
<1>1. LotsTyped /\ LotsPlaced /\ LotsRecorded /\ LotsKeepTheirs /\ StockKeepsIts /\ ReviewsSettle
  BY LotsCoveredParts DEF LotsInv
<1>2. PICK k \in Nat : DOMAIN expiryReviews = 1 .. k /\ expiryReviews \in [1 .. k -> ExpiryReviewRow]
  <2>1. expiryReviews \in Seq(ExpiryReviewRow)
    BY <1>1 DEF LotsTyped
  <2>2. PICK k \in Nat : k = Len(expiryReviews)
    BY <2>1
  <2>3. DOMAIN expiryReviews = 1 .. k /\ expiryReviews \in [1 .. k -> ExpiryReviewRow]
    BY <2>1, <2>2
  <2> QED
    BY <2>3
<1>3. /\ expiryReviews' \in [1 .. k -> ExpiryReviewRow] /\ DOMAIN expiryReviews' = DOMAIN expiryReviews
      /\ expiryReviews'[i] = row /\ \A j \in DOMAIN expiryReviews \ {i} : expiryReviews'[j] = expiryReviews[j]
  BY <1>2
<1>4. expiryReviews' \in Seq(ExpiryReviewRow)
  <2>1. expiryReviews' \in [1 .. k -> ExpiryReviewRow]
    BY <1>3
  <2>2. ASSUME NEW S, NEW m \in [1 .. k -> S] PROVE m \in Seq(S)
    OBVIOUS
  <2> QED
    BY <2>1, <2>2
<1>5. blind \subseteq blind' /\ (r \in overtaken => <<"expiry", i>> \in blind')
  BY <1>1, DeskCommits DEF LotsTyped
<1>6. LotsPlaced'
  BY <1>1, <1>3 DEF LotsPlaced
<1>7. ReviewsSettle'
  <2>1. \A j : WriteOffsOf(j)' = WriteOffsOf(j)
    BY DEF WriteOffsOf
  <2>2. ASSUME NEW j \in DOMAIN expiryReviews, Seen("expiry", j)'
        PROVE  Cardinality(WriteOffsOf(j)) = IF expiryReviews'[j].status = "APPROVED" THEN 1 ELSE 0
    <3>1. Seen("expiry", j)
      BY <1>5, <2>2 DEF Seen
    <3>2. CASE j = i
      BY <1>1, <1>3, <1>5, <2>2, <3>1, <3>2 DEF ReviewsSettle, Seen
    <3>3. CASE j # i
      BY <1>1, <1>3, <3>1, <3>3 DEF ReviewsSettle
    <3> QED
      BY <3>2, <3>3
  <2> QED
    BY <1>3, <2>1, <2>2 DEF ReviewsSettle
<1>8. LotsRecorded' /\ LotsKeepTheirs' /\ StockKeepsIts'
  BY <1>1, <1>5, LotsAside
<1> QED
  BY <1>1, <1>3, <1>4, <1>6, <1>7, <1>8, LotsLand DEF LotsTyped

\* A proposal or its withdrawal leaves the lots alone.
LEMMA StoreProposalKeeps ==
    ASSUME LotsInv, NEW r \in Desks, StoreProposal(r) \/ StoreExpiryCancel(r)
    PROVE  LotsInv'
<1>1. LotsTyped /\ LotsHands(desk[r]) /\ (r \notin overtaken => LotsChecks(desk[r])) /\ desk[r].op \in {"propose", "withdraw"}
  BY DEF LotsInv, StoreProposal, StoreExpiryCancel, Doing
<1>2. PICK i \in DOMAIN expiryReviews : i = desk[r].review
  BY <1>1 DEF LotsHands
<1>3. PICK old \in ExpiryReviewRow : old = expiryReviews[i]
  BY <1>1 DEF LotsTyped
<1>4. \E row \in ExpiryReviewRow :
         /\ row.lot = old.lot /\ row.status # "APPROVED" /\ expiryReviews' = [expiryReviews EXCEPT ![i] = row]
  <2>1. CASE StoreProposal(r)
    <3>1. PICK quantity \in Int : quantity = desk[r].quantity
      BY <1>1, <2>1 DEF LotsHands, StoreProposal, Doing
    <3>2. PICK row : row = [old EXCEPT !.proposed = quantity, !.status = "REVIEWED"]
      OBVIOUS
    <3>3. row \in ExpiryReviewRow /\ row.lot = old.lot /\ row.status = "REVIEWED"
      BY <3>2 DEF ExpiryReviewRow
    <3>4. expiryReviews' = [expiryReviews EXCEPT ![i].proposed = quantity, ![i].status = "REVIEWED"]
      BY <1>2, <2>1, <3>1 DEF StoreProposal
    <3>5. expiryReviews' = [expiryReviews EXCEPT ![i] = row]
      BY <1>3, <3>2, <3>4
    <3> QED
      BY <3>3, <3>5
  <2>2. CASE StoreExpiryCancel(r)
    <3>1. PICK row : row = [old EXCEPT !.status = "CANCELED"]
      OBVIOUS
    <3>2. row \in ExpiryReviewRow /\ row.lot = old.lot /\ row.status = "CANCELED"
      BY <3>1 DEF ExpiryReviewRow
    <3>3. expiryReviews' = [expiryReviews EXCEPT ![i] = row]
      BY <1>2, <1>3, <2>2, <3>1 DEF StoreExpiryCancel
    <3> QED
      BY <3>2, <3>3
  <2> QED
    BY <2>1, <2>2
<1>5. Committed(r, {<<"expiry", i>>}) /\ UNCHANGED <<lots, recordings, writeOffs, sold>>
  BY <1>2 DEF StoreProposal, StoreExpiryCancel
<1>6. r \notin overtaken => expiryReviews[i].status # "APPROVED"
  BY <1>1, <1>2 DEF LotsChecks
<1> QED
  BY <1>3, <1>4, <1>5, <1>6, ReviewIsWritten

\* A write-off takes its quantity from its lot and from the stock, and from nothing else.
LEMMA WriteOffTakes ==
    ASSUME LotsTyped, NEW row \in WriteOffRow, writeOffs' = Append(writeOffs, row), UNCHANGED sold
    PROVE  /\ \A n : WrittenOff(n)' = WrittenOff(n) + IF row.lot = n THEN row.quantity ELSE 0
           /\ ProductStock' = ProductStock - row.quantity
<1>0. writeOffs \in Seq(WriteOffRow)
  BY DEF LotsTyped
<1>1. PICK k \in Nat : k = Len(writeOffs) /\ DOMAIN writeOffs = 1 .. k
  BY <1>0
<1>2. PICK more : more = writeOffs'
  OBVIOUS
<1>3. /\ more \in Seq(WriteOffRow) /\ DOMAIN more = 1 .. k + 1 /\ more[k + 1] = row
      /\ \A w \in 1 .. k : more[w] = writeOffs[w]
  BY <1>0, <1>1, <1>2, OneFactMore
<1>4. /\ \A w \in 1 .. k : writeOffs[w] \in WriteOffRow
      /\ \A w \in 1 .. k + 1 : more[w] \in WriteOffRow
  BY <1>0, <1>1, <1>3
<1>5. /\ \A w \in 1 .. k : writeOffs[w].quantity \in Nat
      /\ \A w \in 1 .. k + 1 : more[w].quantity \in Nat
      /\ row.quantity \in Nat
  BY <1>4 DEF WriteOffRow
<1>6. ASSUME NEW n PROVE WrittenOff(n)' = WrittenOff(n) + IF row.lot = n THEN row.quantity ELSE 0
  <2>1. PICK s : s = [w \in 1 .. k |-> IF writeOffs[w].lot = n THEN writeOffs[w].quantity ELSE 0]
    OBVIOUS
  <2>2. PICK t : t = [w \in 1 .. k + 1 |-> IF more[w].lot = n THEN more[w].quantity ELSE 0]
    OBVIOUS
  <2>3. s \in [1 .. k -> Int] /\ t \in [1 .. k + 1 -> Int]
    BY <1>5, <2>1, <2>2
  <2>4. \A w \in 1 .. k : t[w] = s[w]
    BY <1>3, <2>1, <2>2
  <2>5. k + 1 \in 1 .. k + 1
    OBVIOUS
  <2>6. t[k + 1] = IF row.lot = n THEN row.quantity ELSE 0
    BY <1>3, <2>2, <2>5
  <2>7. Added(t) = Added(s) + t[k + 1]
    BY <2>3, <2>4, AddedOneMore
  <2>8. WrittenOff(n) = Added(s) /\ WrittenOff(n)' = Added(t)
    BY <1>1, <1>2, <1>3, <2>1, <2>2 DEF WrittenOff
  <2> QED
    BY <2>6, <2>7, <2>8
<1>7. ProductStock' = ProductStock - row.quantity
  <2>1. PICK s : s = [w \in 1 .. k |-> writeOffs[w].quantity]
    OBVIOUS
  <2>2. PICK t : t = [w \in 1 .. k + 1 |-> more[w].quantity]
    OBVIOUS
  <2>3. s \in [1 .. k -> Int] /\ t \in [1 .. k + 1 -> Int]
    BY <1>5, <2>1, <2>2
  <2>4. \A w \in 1 .. k : t[w] = s[w]
    BY <1>3, <2>1, <2>2
  <2>5. k + 1 \in 1 .. k + 1
    OBVIOUS
  <2>6. t[k + 1] = row.quantity
    BY <1>3, <2>2, <2>5
  <2>7. Added(t) = Added(s) + row.quantity
    BY <2>3, <2>4, <2>6, AddedOneMore
  <2>8. PICK before \in Int : before = Added(s)
    <3>1. s = [w \in DOMAIN writeOffs |-> writeOffs[w].quantity]
      BY <1>1, <2>1
    <3>2. Added(s) \in Nat
      BY <1>0, <3>1, WrittenOffIsNatural DEF LotsTyped
    <3> QED
      BY <3>2
  <2>9. ProductStock = ReceivedQuantity - sold - before /\ ProductStock' = ReceivedQuantity - sold - (before + row.quantity)
    BY <1>1, <1>2, <1>3, <2>1, <2>2, <2>7, <2>8 DEF ProductStock
  <2>10. ReceivedQuantity \in Nat /\ sold \in Nat /\ row.quantity \in Nat
    BY <1>5, BatchLotsAssumption DEF LotsTyped
  <2> QED
    BY <2>8, <2>9, <2>10
<1> QED
  BY <1>6, <1>7

\* A write-off that was not overtaken leaves its lot, and the stock, no less than nothing, and is the
\* first of its review.
LEMMA StoreWriteOffKeeps ==
    ASSUME LotsInv, NEW r \in Desks, StoreWriteOff(r)
    PROVE  LotsInv'
<1>1. /\ LotsTyped /\ LotsPlaced /\ LotsRecorded /\ LotsKeepTheirs /\ StockKeepsIts /\ ReviewsSettle
      /\ LotsHands(desk[r]) /\ (r \notin overtaken => LotsChecks(desk[r])) /\ desk[r].op = "writeoff"
  BY LotsCoveredParts DEF LotsInv, StoreWriteOff, Doing
<1>2. PICK lot \in DOMAIN lots, quantity \in Nat, review \in Nat :
         /\ lot = desk[r].lot /\ quantity = desk[r].quantity /\ review = desk[r].review
         /\ quantity > 0 /\ (review # 0 => review \in DOMAIN expiryReviews)
  BY <1>1 DEF LotsHands
<1>3. PICK row : row = [lot |-> lot, quantity |-> quantity, review |-> review]
  OBVIOUS
<1>4. lot \in Nat
  BY <1>1 DEF LotsTyped
<1>5. row \in WriteOffRow /\ row.lot = lot /\ row.quantity = quantity /\ row.review = review
  BY <1>3, <1>4 DEF WriteOffRow
<1>6. writeOffs \in Seq(WriteOffRow)
  BY <1>1 DEF LotsTyped
<1>7. PICK k \in Nat : k = Len(writeOffs) /\ DOMAIN writeOffs = 1 .. k
  BY <1>6
<1>8. PICK rows : rows = {<<"writeoff", k + 1>>} \cup {<<"expiry", i>> : i \in {review} \ {0}}
  OBVIOUS
<1>9. /\ writeOffs' = Append(writeOffs, row) /\ Committed(r, rows) /\ UNCHANGED <<lots, recordings, sold>>
      /\ expiryReviews' = IF review = 0 THEN expiryReviews ELSE [expiryReviews EXCEPT ![review].status = "APPROVED"]
  BY <1>2, <1>3, <1>7, <1>8 DEF StoreWriteOff
<1>10. /\ writeOffs' \in Seq(WriteOffRow) /\ DOMAIN writeOffs' = 1 .. k + 1 /\ writeOffs'[k + 1] = row
       /\ \A w \in 1 .. k : writeOffs'[w] = writeOffs[w]
  BY <1>5, <1>6, <1>7, <1>9, OneFactMore
<1>11. /\ \A n : WrittenOff(n)' = WrittenOff(n) + IF lot = n THEN quantity ELSE 0
       /\ ProductStock' = ProductStock - quantity
  BY <1>1, <1>5, <1>9, WriteOffTakes
<1>12. /\ blind \subseteq blind'
       /\ r \in overtaken => <<"writeoff", k + 1>> \in blind' /\ (review # 0 => <<"expiry", review>> \in blind')
  <2>1. blind \subseteq blind' /\ (r \in overtaken => rows \subseteq blind')
    BY <1>1, <1>9, DeskCommits DEF LotsTyped
  <2> QED
    BY <1>8, <2>1
<1>13. k + 1 \in DOMAIN writeOffs' /\ k + 1 \notin DOMAIN writeOffs /\ DOMAIN writeOffs \subseteq DOMAIN writeOffs'
  BY <1>7, <1>10
<1>14. /\ expiryReviews' \in Seq(ExpiryReviewRow) /\ DOMAIN expiryReviews' = DOMAIN expiryReviews
       /\ \A i \in DOMAIN expiryReviews : expiryReviews'[i].lot = expiryReviews[i].lot
       /\ \A i \in DOMAIN expiryReviews \ {review} : expiryReviews'[i].status = expiryReviews[i].status
       /\ review # 0 => expiryReviews'[review].status = "APPROVED"
  <2>1. CASE review = 0
    BY <1>1, <1>9, <2>1 DEF LotsTyped
  <2>2. CASE review # 0
    <3>1. PICK n \in Nat : DOMAIN expiryReviews = 1 .. n /\ expiryReviews \in [1 .. n -> ExpiryReviewRow]
      <4>1. expiryReviews \in Seq(ExpiryReviewRow)
        BY <1>1 DEF LotsTyped
      <4>2. PICK n \in Nat : n = Len(expiryReviews)
        BY <4>1
      <4>3. DOMAIN expiryReviews = 1 .. n /\ expiryReviews \in [1 .. n -> ExpiryReviewRow]
        BY <4>1, <4>2
      <4> QED
        BY <4>3
    <3>2. PICK old \in ExpiryReviewRow : old = expiryReviews[review]
      BY <1>2, <2>2, <3>1
    <3>3. PICK new : new = [old EXCEPT !.status = "APPROVED"]
      OBVIOUS
    <3>4. new \in ExpiryReviewRow /\ new.lot = old.lot /\ new.status = "APPROVED"
      BY <3>3 DEF ExpiryReviewRow
    <3>5. expiryReviews' = [expiryReviews EXCEPT ![review] = new]
      BY <1>9, <2>2, <3>2, <3>3
    <3>6. /\ expiryReviews' \in [1 .. n -> ExpiryReviewRow] /\ DOMAIN expiryReviews' = DOMAIN expiryReviews
          /\ expiryReviews'[review] = new /\ \A i \in DOMAIN expiryReviews \ {review} : expiryReviews'[i] = expiryReviews[i]
      BY <1>2, <2>2, <3>1, <3>4, <3>5
    <3>7. ASSUME NEW S, NEW m \in [1 .. n -> S] PROVE m \in Seq(S)
      OBVIOUS
    <3>8. \A i \in DOMAIN expiryReviews : expiryReviews'[i].lot = expiryReviews[i].lot
      BY <3>2, <3>4, <3>6
    <3> QED
      BY <3>4, <3>6, <3>7, <3>8
  <2> QED
    BY <2>1, <2>2
<1>15. LotsPlaced'
  <2>1. ASSUME NEW w \in 1 .. k + 1
        PROVE  writeOffs'[w].lot \in DOMAIN lots /\ (writeOffs'[w].review # 0 => writeOffs'[w].review \in DOMAIN expiryReviews)
    <3>1. CASE w = k + 1
      BY <1>2, <1>5, <1>10, <3>1
    <3>2. CASE w # k + 1
      <4>1. w \in 1 .. k
        BY <3>2
      <4> QED
        BY <1>1, <1>7, <1>10, <4>1 DEF LotsPlaced
    <3> QED
      BY <3>1, <3>2
  <2> QED
    BY <1>1, <1>9, <1>10, <1>14, <2>1 DEF LotsPlaced
<1>16. LotsRecorded'
  BY <1>1, <1>9, <1>12 DEF LotsRecorded, Seen
<1>17. r \in overtaken => \E w \in DOMAIN writeOffs' : ~Seen("writeoff", w)'
  BY <1>12, <1>13 DEF Seen
<1>18. (\E w \in DOMAIN writeOffs : ~Seen("writeoff", w)) => \E w \in DOMAIN writeOffs' : ~Seen("writeoff", w)'
  BY <1>12, <1>13 DEF Seen
<1>19. PICK left \in Nat : left = Remaining(lot) /\ left <= NonNegative(lots[lot] - WrittenOff(lot)) /\ left <= NonNegative(ProductStock)
  BY <1>1, <1>2, ReportAddsUp
<1>20. r \notin overtaken => quantity <= left
  BY <1>1, <1>2, <1>19 DEF LotsChecks
<1>21. LotsKeepTheirs'
  <2>1. ASSUME NEW n \in DOMAIN lots, r \notin overtaken, WrittenOff(n)' > lots[n]
        PROVE  \E w \in DOMAIN writeOffs : ~Seen("writeoff", w)
    <3>1. PICK x \in Nat : x = lots[n]
      BY <1>1 DEF LotsTyped
    <3>2. PICK y \in Nat : y = WrittenOff(n)
      BY <1>1, WrittenOffIsNatural DEF LotsTyped
    <3>3. CASE n = lot
      <4>1. quantity <= NonNegative(x - y)
        BY <1>19, <1>20, <2>1, <3>1, <3>2, <3>3 DEF NonNegative
      <4>2. y + quantity > x
        BY <1>11, <2>1, <3>1, <3>2, <3>3
      <4> QED
        BY <1>2, <4>1, <4>2 DEF NonNegative
    <3>4. CASE n # lot
      <4>1. WrittenOff(n) > lots[n]
        BY <1>11, <2>1, <3>1, <3>2, <3>4
      <4> QED
        BY <1>1, <4>1 DEF LotsKeepTheirs
    <3> QED
      BY <3>3, <3>4
  <2> QED
    BY <1>9, <1>17, <1>18, <2>1 DEF LotsKeepTheirs
<1>22. StockKeepsIts'
  <2>1. PICK stock \in Int : stock = ProductStock
    BY <1>1, WrittenOffIsNatural DEF LotsTyped
  <2>2. ProductStock' = stock - quantity
    BY <1>11, <2>1
  <2>3. r \notin overtaken => ProductStock' >= 0
    BY <1>2, <1>19, <1>20, <2>1, <2>2 DEF NonNegative
  <2>4. ProductStock' < 0 => r \in overtaken
    BY <2>2, <2>3
  <2> QED
    BY <1>17, <2>4 DEF StockKeepsIts
<1>23. ReviewsSettle'
  <2>1. ASSUME NEW i \in DOMAIN expiryReviews, Seen("expiry", i)'
        PROVE  Cardinality(WriteOffsOf(i)') = IF expiryReviews'[i].status = "APPROVED" THEN 1 ELSE 0
    <3>1. Seen("expiry", i)
      BY <1>12, <2>1 DEF Seen
    <3>2. Cardinality(WriteOffsOf(i)) = IF expiryReviews[i].status = "APPROVED" THEN 1 ELSE 0
      BY <1>1, <3>1 DEF ReviewsSettle
    <3>3. CASE i # review
      <4>1. WriteOffsOf(i)' = WriteOffsOf(i)
        <5>1. \A w \in 1 .. k + 1 : w = k + 1 \/ w \in 1 .. k
          OBVIOUS
        <5> QED
          BY <1>5, <1>7, <1>10, <3>3, <5>1 DEF WriteOffsOf
      <4> QED
        BY <1>14, <3>2, <3>3, <4>1
    <3>4. CASE i = review
      <4>1. i # 0
        BY <1>1, <3>4 DEF LotsTyped
      <4>2. r \notin overtaken
        BY <1>12, <2>1, <3>4, <4>1 DEF Seen
      <4>3. expiryReviews[i].status = "REVIEWED"
        BY <1>1, <1>2, <3>4, <4>1, <4>2 DEF LotsChecks
      <4>4. WriteOffsOf(i) \subseteq 1 .. k
        BY <1>7 DEF WriteOffsOf
      <4>5. IsFiniteSet(WriteOffsOf(i)) /\ Cardinality(WriteOffsOf(i)) = 0
        <5>1. IsFiniteSet(1 .. k)
          BY FS_Interval
        <5>2. IsFiniteSet(WriteOffsOf(i))
          BY <4>4, <5>1, FS_Subset
        <5>3. Cardinality(WriteOffsOf(i)) = 0
          BY <3>2, <4>3
        <5> QED
          BY <5>2, <5>3
      <4>6. WriteOffsOf(i) = {}
        BY <4>5, FS_EmptySet
      <4>7. WriteOffsOf(i)' = {k + 1}
        <5>1. \A w \in 1 .. k + 1 : w = k + 1 \/ w \in 1 .. k
          OBVIOUS
        <5>2. \A w \in 1 .. k : writeOffs[w].review # i
          BY <1>7, <4>6 DEF WriteOffsOf
        <5>3. k + 1 \in 1 .. k + 1
          OBVIOUS
        <5> QED
          BY <1>5, <1>10, <3>4, <5>1, <5>2, <5>3 DEF WriteOffsOf
      <4>8. Cardinality({k + 1}) = 1
        BY FS_Singleton
      <4> QED
        BY <1>14, <3>4, <4>1, <4>7, <4>8
    <3> QED
      BY <3>3, <3>4
  <2> QED
    BY <1>14, <2>1 DEF ReviewsSettle
<1> QED
  BY <1>1, <1>9, <1>10, <1>14, <1>15, <1>16, <1>21, <1>22, <1>23, LotsLand DEF LotsTyped

\* A sale takes one of what is in stock; a request that fails leaves nothing.
LEMMA LotsRestKeeps ==
    ASSUME LotsInv, SellOne \/ \E r \in Desks : BatchFails(r)
    PROVE  LotsInv'
<1>1. LotsTyped /\ LotsPlaced /\ LotsRecorded /\ LotsKeepTheirs /\ StockKeepsIts /\ ReviewsSettle
  BY LotsCoveredParts DEF LotsInv
<1>2. ASSUME SellOne PROVE LotsInv'
  <2>1. UNCHANGED <<lots, recordings, writeOffs, expiryReviews>> /\ sold' = sold + 1 /\ ProductStock > 0
    BY <1>2 DEF SellOne
  <2>2. /\ UNCHANGED <<desk, blind>>
        /\ \A q \in Desks : q \notin overtaken' => desk[q].op = "none"
    BY <1>2, DeskAtOnce DEF SellOne
  <2>3. LotsTyped'
    BY <1>1, <2>1, <2>2 DEF LotsTyped, OneRequestEach
  <2>4. ASSUME NEW q \in Desks PROVE LotsHands(desk[q])' /\ (q \notin overtaken' => LotsChecks(desk[q])')
    <3>1. LotsHands(desk[q])
      BY DEF LotsInv
    <3>2. LotsHands(desk[q])'
      BY <2>1, <2>2, <3>1 DEF LotsHands
    <3>3. q \notin overtaken' => LotsChecks(desk[q])'
      BY <2>2 DEF LotsChecks
    <3> QED
      BY <3>2, <3>3
  <2>5. ProductStock' >= 0
    <3>1. PICK gone \in Nat : gone = Added([w \in DOMAIN writeOffs |-> writeOffs[w].quantity])
      BY <1>1, WrittenOffIsNatural DEF LotsTyped
    <3>2. ProductStock = ReceivedQuantity - sold - gone /\ ProductStock' = ReceivedQuantity - (sold + 1) - gone
      BY <2>1, <3>1 DEF ProductStock
    <3>3. ReceivedQuantity \in Nat /\ sold \in Nat
      BY <1>1, BatchLotsAssumption DEF LotsTyped
    <3> QED
      BY <2>1, <3>1, <3>2, <3>3
  <2>6. StockKeepsIts'
    <3>1. PICK stock \in Int : stock = ProductStock'
      <4>1. sold' \in Nat
        BY <1>1, <2>1 DEF LotsTyped
      <4>2. PICK gone \in Nat : gone = Added([w \in DOMAIN writeOffs |-> writeOffs[w].quantity])
        BY <1>1, WrittenOffIsNatural DEF LotsTyped
      <4>3. ProductStock' = ReceivedQuantity - sold' - gone
        BY <2>1, <4>2 DEF ProductStock
      <4> QED
        BY <4>1, <4>2, <4>3, BatchLotsAssumption
    <3> QED
      BY <2>5, <3>1 DEF StockKeepsIts
  <2>7. LotsRecorded' /\ ReviewsSettle' /\ LotsPlaced'
    BY <1>1, <2>1, <2>2 DEF LotsRecorded, ReviewsSettle, LotsPlaced, WriteOffsOf, Seen
  <2>8. LotsKeepTheirs'
    <3>1. \A n : WrittenOff(n)' = WrittenOff(n)
      BY <2>1 DEF WrittenOff
    <3> QED
      BY <1>1, <2>1, <2>2, <3>1 DEF LotsKeepTheirs, Seen
  <2>9. LotsCovered'
    BY <2>6, <2>7, <2>8 DEF LotsCovered, LotsRecorded, LotsKeepTheirs, StockKeepsIts, ReviewsSettle, WriteOffsOf
  <2> QED
    BY <2>3, <2>4, <2>7, <2>9 DEF LotsInv
<1>3. ASSUME NEW r \in Desks, BatchFails(r) PROVE LotsInv'
  <2>1. UNCHANGED <<lots, recordings, writeOffs, expiryReviews, sold>> /\ RolledBack(r) /\ OneRequestEach
    BY <1>1, <1>3 DEF BatchFails, batchRows, LotsTyped
  <2>2. /\ OneRequestEach' /\ UNCHANGED blind
        /\ desk'[r].op = "none" /\ r \notin overtaken'
        /\ \A q \in Desks \ {r} : desk'[q] = desk[q] /\ (q \in overtaken' <=> q \in overtaken)
    BY <2>1, DeskRollsBack
  <2>3. LotsTyped' /\ LotsPlaced' /\ LotsCovered'
    BY <1>1, <2>1, <2>2, LotsStandStill DEF LotsTyped, LotsInv
  <2>4. ASSUME NEW q \in Desks PROVE LotsHands(desk[q])' /\ (q \notin overtaken' => LotsChecks(desk[q])')
    <3>1. CASE q = r
      BY <2>2, <3>1 DEF LotsHands, LotsChecks
    <3>2. CASE q # r
      <4>1. PICK d : d = desk[q] /\ d = desk'[q] /\ LotsHands(d) /\ (q \notin overtaken' => LotsChecks(d))
        BY <2>2, <3>2 DEF LotsInv
      <4>2. LotsHands(d)'
        BY <2>1, <4>1 DEF LotsHands
      <4>3. q \notin overtaken' => LotsChecks(d)'
        BY <2>1, <4>1, LotsStandStill DEF LotsChecks
      <4> QED
        BY <4>1, <4>2, <4>3 DEF LotsHands, LotsChecks
    <3> QED
      BY <3>1, <3>2
  <2> QED
    BY <2>3, <2>4 DEF LotsInv
<1> QED
  BY <1>2, <1>3

\* Where nothing of the lots moves, they are as they were.
LEMMA LotsStand == LotsInv /\ UNCHANGED batchVars => LotsInv'
<1> SUFFICES ASSUME LotsInv, UNCHANGED batchVars PROVE LotsInv'
  OBVIOUS
<1>1. UNCHANGED <<lots, recordings, writeOffs, expiryReviews, sold>> /\ UNCHANGED <<desk, overtaken, blind>>
  BY DEF batchVars, batchRows, deskVars
<1>2. LotsTyped' /\ LotsPlaced' /\ LotsCovered'
  BY <1>1, LotsStandStill DEF LotsInv, LotsTyped, OneRequestEach
<1>3. ASSUME NEW q \in Desks PROVE LotsHands(desk[q])' /\ (q \notin overtaken' => LotsChecks(desk[q])')
  <2>1. PICK d : d = desk[q] /\ d = desk'[q] /\ LotsHands(d) /\ (q \notin overtaken' => LotsChecks(d))
    BY <1>1 DEF LotsInv
  <2>2. LotsHands(d)'
    BY <1>1, <2>1 DEF LotsHands
  <2>3. q \notin overtaken' => LotsChecks(d)'
    BY <1>1, <2>1, LotsStandStill DEF LotsChecks
  <2> QED
    BY <2>1, <2>2, <2>3 DEF LotsHands, LotsChecks
<1> QED
  BY <1>2, <1>3 DEF LotsInv

\* Every step keeps the invariant.
LEMMA LotsStepInv == LotsInv /\ [BatchLotsNext]_batchVars => LotsInv'
<1> SUFFICES ASSUME LotsInv, [BatchLotsNext]_batchVars PROVE LotsInv'
  OBVIOUS
<1>1. CASE UNCHANGED batchVars
  BY <1>1, LotsStand
<1>2. ASSUME NEW r \in Desks,
             \/ \E split \in Splits : CreateBatchLots(r, split)
             \/ \E n \in DOMAIN lots : CreateExpiryReview(r, n) \/ \E q \in 1 .. lots[n] : CreateExpiryWriteOff(r, n, q)
             \/ \E i \in DOMAIN expiryReviews :
                   \/ ApproveExpiryReview(r, i) \/ CancelExpiryReview(r, i)
                   \/ \E q \in 1 .. expiryReviews[i].snapshot : RecordExpiryReview(r, i, q)
      PROVE  LotsInv'
  BY <1>2, LotsReads
<1>3. ASSUME NEW r \in Desks,
             StoreBatchLots(r) \/ StoreExpiryReview(r) \/ StoreProposal(r) \/ StoreWriteOff(r) \/ StoreExpiryCancel(r)
      PROVE  LotsInv'
  BY <1>3, StoreBatchLotsKeeps, StoreExpiryReviewKeeps, StoreProposalKeeps, StoreWriteOffKeeps
<1>4. CASE SellOne \/ \E r \in Desks : BatchFails(r)
  BY <1>4, LotsRestKeeps
<1> QED
  BY <1>1, <1>2, <1>3, <1>4 DEF BatchLotsNext

\* What the invariant says of the lots.
LEMMA LotsInvShows == LotsInv => LotsCovered /\ FirstExpiryFirstOut
BY ReportAddsUp DEF LotsInv

\* The inductive invariant of the lots and what is written off of them.
THEOREM LotsInvariant == BatchLotsSpec => []LotsInv
<1> QED
  BY LotsInitInv, LotsStepInv, PTL DEF BatchLotsSpec

\* For any receipt, lots and requests: the lots are the receipt's quantity, recorded once, lose no more
\* than they hold, and a review writes off once, unless an overtaken request has written.
THEOREM LotsStayCovered == BatchLotsSpec => []LotsCovered
<1> QED
  BY LotsInvShows, LotsInvariant, PTL

\* The expiry report gives the stock to the lots, the last to expire first, and no more than there is.
THEOREM LotsReportAddsUp == BatchLotsSpec => []FirstExpiryFirstOut
<1> QED
  BY LotsInvShows, LotsInvariant, PTL

-----------------------------------------------------------------------------
(* Documents of the stock. *)

-----------------------------------------------------------------------------
(* Documents of the stock. *)

CountRows == [expected : Int, counted : Int, variance : Int]
ReceiptRow == [order : PurchaseOrders, quantity : Nat]
EntryRow ==
    [branch : Branches, type : {"PURCHASE_RECEIPT", "ADJUSTMENT", "COUNT_VARIANCE", "TRANSFER_OUT", "TRANSFER_IN"},
     quantity : Int]
CountRow == [branch : Branches, result : CountRows, review : Nat, after : Nat]
ReviewRow ==
    [branch : Branches, expected : Int, result : CountRows \cup {Idle},
     status : {"OPEN", "COUNTED", "APPROVED", "CANCELED"}, since : Nat]
TaskRow == [branch : Branches, requested : Nat, picked : Nat, status : {"OPEN", "PICKED", "COMPLETED", "CANCELED"}]
TransferRow == [source : Branches, destination : Branches, quantity : Nat, after : Nat]

StockTyped ==
    /\ approval \in [PurchaseOrders -> {"none", "NOT_REQUESTED", "PENDING_APPROVAL", "APPROVED"}]
    /\ receipts \in Seq(ReceiptRow) /\ journal \in Seq(EntryRow) /\ counts \in Seq(CountRow)
    /\ reviews \in Seq(ReviewRow) /\ tasks \in Seq(TaskRow) /\ transfers \in Seq(TransferRow)

\* A branch's stock when the ledger had so many entries.
StockAfter(n, b) == StockOf(SubSeq(journal, 1, n), b)

\* A result is what was counted less what was expected.
ResultOf(result, expected) == result \in CountRows /\ result.variance = result.counted - expected

ApprovedOrUnseen(o) == approval[o] = "APPROVED" \/ ~Seen("order", o)

StockReviewed(n) ==
    /\ reviews[n].since <= Len(journal) /\ reviews[n].expected = StockAfter(reviews[n].since, reviews[n].branch)
    /\ reviews[n].status = "COUNTED" => ResultOf(reviews[n].result, reviews[n].expected)

\* A count of a review is of the review's branch and posted its variance.
StockCounted(m) ==
    /\ counts[m].after <= Len(journal)
    /\ counts[m].result.variance # 0 =>
         /\ counts[m].after + 1 <= Len(journal)
         /\ journal[counts[m].after + 1] = Entry(counts[m].branch, "COUNT_VARIANCE", counts[m].result.variance)
    /\ counts[m].review # 0 =>
         /\ counts[m].review \in DOMAIN reviews /\ counts[m].branch = reviews[counts[m].review].branch
         /\ ResultOf(counts[m].result, reviews[counts[m].review].expected)
         /\ reviews[counts[m].review].since <= counts[m].after

CountsOf(n) == {m \in DOMAIN counts : counts[m].review = n}

\* The parts of what is to hold: they say that documents settle, of rows that only grow.
StockPlaced ==
    /\ \A n \in DOMAIN reviews : StockReviewed(n)
    /\ \A m \in DOMAIN counts : StockCounted(m)
    /\ \A n \in DOMAIN transfers : transfers[n].after <= Len(journal)
OrdersSettle ==
    \A n \in DOMAIN receipts :
        /\ \A m \in DOMAIN receipts : receipts[m].order = receipts[n].order => m = n
        /\ ApprovedOrUnseen(receipts[n].order)
CountsSettle ==
    \A n \in DOMAIN reviews :
        \/ CountsOf(n) = {} /\ reviews[n].status # "APPROVED"
        \/ Cardinality(CountsOf(n)) = 1 /\ reviews[n].status = "APPROVED"
        \/ ~Seen("review", n)
LedgerAddsUp == \A b \in Branches : StockOnHand(b) = ReceivedAt(b) + CountedAt(b) + AdjustedAt(b) + MovedAt(b)
TransfersHad ==
    \A n \in DOMAIN transfers :
        Seen("transfer", n) => StockAfter(transfers[n].after, transfers[n].source) >= transfers[n].quantity
RestocksApart ==
    \A b \in Branches : \A m, n \in ActiveTasks(b) : Seen("task", m) /\ Seen("task", n) => m = n

StockHands(d) ==
    /\ d.op = "decide" => d.order \in PurchaseOrders /\ d.to \in {"PENDING_APPROVAL", "APPROVED"}
    /\ d.op = "receive" => d.order \in PurchaseOrders /\ d.quantity \in Nat /\ ApprovedOrUnseen(d.order)
    /\ d.op = "count" =>
         /\ d.branch \in Branches /\ d.result \in CountRows /\ d.review \in Nat
         /\ d.review # 0 => /\ d.review \in DOMAIN reviews /\ d.branch = reviews[d.review].branch
                            /\ ResultOf(d.result, reviews[d.review].expected)
    /\ d.op = "review" =>
         /\ d.branch \in Branches /\ d.since \in Nat /\ d.since <= Len(journal)
         /\ d.expected = StockAfter(d.since, d.branch)
    /\ d.op = "record" => d.review \in DOMAIN reviews /\ ResultOf(d.result, reviews[d.review].expected)
    /\ d.op = "drop" => d.review \in DOMAIN reviews
    /\ d.op = "transfer" =>
         d.source \in Branches /\ d.destination \in Branches /\ d.source # d.destination /\ d.quantity \in Nat
    /\ d.op = "restock" => d.branch \in Branches /\ d.requested \in Nat
    /\ d.op = "task" =>
         /\ d.task \in DOMAIN tasks /\ d.to \in {"PICKED", "COMPLETED", "CANCELED"}
         /\ d.to = "PICKED" => d.picked \in Nat

\* What a request that was not overtaken has read is so.
StockChecks(d) ==
    /\ d.op = "decide" => approval[d.order] # "APPROVED"
    /\ d.op = "count" /\ d.review # 0 => reviews[d.review].status = "COUNTED"
    /\ d.op = "record" => reviews[d.review].status = "OPEN"
    /\ d.op = "drop" => reviews[d.review].status # "APPROVED"
    /\ d.op = "transfer" => d.quantity <= StockOnHand(d.source)
    /\ d.op = "restock" => ActiveTasks(d.branch) = {}
    /\ d.op = "task" /\ d.to = "PICKED" => tasks[d.task].status = "OPEN"

StockInv ==
    /\ OneRequestEach /\ StockTyped /\ StockPlaced
    /\ OrdersSettle /\ CountsSettle /\ LedgerAddsUp /\ TransfersHad /\ RestocksApart
    /\ \A r \in Desks : StockHands(desk[r]) /\ (r \notin overtaken => StockChecks(desk[r]))

\* A function over the first numbers is a sequence.
LEMMA RowsInOrder == ASSUME NEW S, NEW n \in Nat, NEW a \in [1 .. n -> S] PROVE a \in Seq(S)
OBVIOUS

\* What a branch has of some entries.
BranchQuantities(e, b) == [i \in DOMAIN e |-> IF e[i].branch = b THEN e[i].quantity ELSE 0]

\* A branch's stock is the sum of its quantities.
LEMMA StockIsWhole ==
    ASSUME NEW e, e \in Seq(EntryRow), NEW b
    PROVE  /\ StockOf(e, b) = Added(BranchQuantities(e, b)) /\ StockOf(e, b) \in Int
           /\ StockOf(e, b) = PartialSum(BranchQuantities(e, b), Len(e))
           /\ \A i \in DOMAIN e : BranchQuantities(e, b)[i] \in Int
<1>1. PICK k \in Nat : k = Len(e) /\ DOMAIN e = 1 .. k
  OBVIOUS
<1>2. \A i \in 1 .. k : e[i] \in EntryRow
  BY <1>1
<1>3. \A i \in 1 .. k : e[i].quantity \in Int
  BY <1>2 DEF EntryRow
<1>4. PICK s : s = BranchQuantities(e, b)
  OBVIOUS
<1>5. s \in [1 .. k -> Int]
  BY <1>1, <1>3, <1>4 DEF BranchQuantities
<1>6. s \in Seq(Int)
  BY <1>5
<1>7. Added(s) \in Int /\ Added(s) = PartialSum(s, k)
  BY <1>5, <1>6, AddedIsWhole, AddedIsPartialSum
<1>8. StockOf(e, b) = Added(s)
  BY <1>4 DEF StockOf, BranchQuantities
<1> QED
  BY <1>1, <1>4, <1>5, <1>7, <1>8

\* What a branch has of one entry.
QuantityAt(x, b) == IF x.branch = b THEN x.quantity ELSE 0

\* An entry more moves the stock of its branch, and leaves what the ledger was.
OneEntryOn(e, x, m) ==
    /\ m \in Seq(EntryRow) /\ m = Append(e, x) /\ Len(m) = Len(e) + 1 /\ m[Len(e) + 1] = x
    /\ \A i \in DOMAIN e : m[i] = e[i]
    /\ \A n \in 0 .. Len(e) : SubSeq(m, 1, n) = SubSeq(e, 1, n)
    /\ \A b : StockOf(m, b) = StockOf(e, b) + QuantityAt(x, b)

\* An entry more leaves those before it, and adds its quantity to the stock of its branch.
LEMMA OneEntryMore ==
    ASSUME NEW e, e \in Seq(EntryRow), NEW x \in EntryRow, NEW m, m = e \o <<x>>
    PROVE  OneEntryOn(e, x, m)
<1>1. m = Append(e, x)
  OBVIOUS
<1>2. /\ m \in Seq(EntryRow) /\ Len(m) = Len(e) + 1 /\ DOMAIN m = 1 .. Len(e) + 1 /\ m[Len(e) + 1] = x
      /\ SubSeq(m, 1, Len(e)) = e
      /\ \A n \in DOMAIN e : m[n] = e[n] /\ SubSeq(m, 1, n - 1) = SubSeq(e, 1, n - 1)
  BY <1>1, OneFactMore
<1>3. PICK k \in Nat : k = Len(e) /\ DOMAIN e = 1 .. k
  OBVIOUS
<1>4. SubSeq(e, 1, k) = e
  <2>1. PICK p : p = SubSeq(e, 1, k)
    OBVIOUS
  <2>2. p \in Seq(EntryRow) /\ Len(p) = k /\ \A i \in 1 .. k : p[i] = e[i]
    BY <1>3, <2>1, SubSeqProperties
  <2>3. p = e
    BY <1>3, <2>2
  <2> QED
    BY <2>1, <2>3
<1>5. ASSUME NEW n \in 0 .. k PROVE SubSeq(m, 1, n) = SubSeq(e, 1, n)
  <2>1. CASE n = k
    BY <1>2, <1>3, <1>4, <2>1
  <2>2. CASE n # k
    <3>1. n + 1 \in DOMAIN e /\ (n + 1) - 1 = n
      BY <1>3, <2>2
    <3> QED
      BY <1>2, <3>1
  <2> QED
    BY <2>1, <2>2
<1>6. ASSUME NEW b PROVE StockOf(m, b) = StockOf(e, b) + QuantityAt(x, b)
  <2>1. PICK s : s = BranchQuantities(e, b)
    OBVIOUS
  <2>2. PICK t : t = BranchQuantities(m, b)
    OBVIOUS
  <2>3. \A i \in 1 .. k : t[i] = s[i] /\ s[i] \in Int
    <3>1. \A i \in 1 .. k : i \in DOMAIN m /\ m[i] = e[i]
      BY <1>2, <1>3
    <3>2. \A i \in 1 .. k : t[i] = s[i]
      BY <1>3, <2>1, <2>2, <3>1 DEF BranchQuantities
    <3>3. \A i \in 1 .. k : s[i] \in Int
      BY <1>3, <2>1, StockIsWhole
    <3> QED
      BY <3>2, <3>3
  <2>4. k + 1 \in DOMAIN m
    BY <1>2, <1>3
  <2>5. x.quantity \in Int
    BY DEF EntryRow
  <2>6. m[k + 1] = x
    BY <1>2, <1>3
  <2>7. t[k + 1] = (IF x.branch = b THEN x.quantity ELSE 0) /\ t[k + 1] \in Int
    BY <2>2, <2>4, <2>5, <2>6 DEF BranchQuantities
  <2>8. Added(t) = Added(s) + t[k + 1]
    <3>1. s \in [1 .. k -> Int]
      BY <1>3, <2>1, <2>3 DEF BranchQuantities
    <3>2. \A i \in 1 .. k + 1 : t[i] \in Int
      <4>1. \A i \in 1 .. k + 1 : i = k + 1 \/ i \in 1 .. k
        OBVIOUS
      <4> QED
        BY <2>3, <2>7, <4>1
    <3>3. t \in [1 .. k + 1 -> Int]
      BY <1>2, <1>3, <2>2, <3>2 DEF BranchQuantities
    <3> QED
      BY <2>3, <3>1, <3>3, AddedOneMore
  <2>9. StockOf(e, b) = Added(s) /\ StockOf(m, b) = Added(t)
    BY <1>2, <2>1, <2>2, StockIsWhole
  <2> QED
    BY <2>7, <2>8, <2>9 DEF QuantityAt
<1> QED
  BY <1>1, <1>2, <1>3, <1>5, <1>6 DEF OneEntryOn

\* Where no entry of the branch came after n, its stock at m is what it was at n.
LEMMA StockStandsStill ==
    ASSUME NEW e, e \in Seq(EntryRow), NEW b, NEW n \in Nat, NEW m \in Nat, n <= m, m <= Len(e),
           \A i \in n + 1 .. m : e[i].branch # b
    PROVE  StockOf(SubSeq(e, 1, m), b) = StockOf(SubSeq(e, 1, n), b)
<1>1. PICK k \in Nat : k = Len(e) /\ DOMAIN e = 1 .. k
  OBVIOUS
<1>2. PICK t : t = BranchQuantities(e, b)
  OBVIOUS
<1>3. \A i \in 1 .. k : t[i] \in Int
  BY <1>1, <1>2, StockIsWhole
<1>4. ASSUME NEW j \in 0 .. k PROVE StockOf(SubSeq(e, 1, j), b) = PartialSum(t, j)
  <2>1. PICK p : p = SubSeq(e, 1, j)
    OBVIOUS
  <2>2. p \in Seq(EntryRow) /\ Len(p) = j /\ \A i \in 1 .. j : p[i] = e[i]
    BY <1>1, <2>1, SubSeqProperties
  <2>3. PICK s : s = BranchQuantities(p, b)
    OBVIOUS
  <2>4. \A i \in 1 .. j : s[i] = t[i]
    BY <1>1, <1>2, <2>2, <2>3 DEF BranchQuantities
  <2>5. StockOf(p, b) = PartialSum(s, j)
    BY <2>2, <2>3, StockIsWhole
  <2> QED
    BY <2>1, <2>4, <2>5, PartialSumAgrees
<1> DEFINE S == {j \in Nat : n + j <= m => PartialSum(t, n + j) = PartialSum(t, n)}
<1>5. 0 \in S
  OBVIOUS
<1>6. ASSUME NEW j \in Nat, j \in S PROVE j + 1 \in S
  <2>1. SUFFICES ASSUME n + (j + 1) <= m PROVE PartialSum(t, n + (j + 1)) = PartialSum(t, n)
    OBVIOUS
  <2>2. n + j \in Nat /\ n + (j + 1) = (n + j) + 1 /\ (n + j) + 1 \in n + 1 .. m /\ (n + j) + 1 \in 1 .. k
    BY <1>1, <2>1
  <2>3. PartialSum(t, (n + j) + 1) = PartialSum(t, n + j) + t[(n + j) + 1]
    BY <2>2, PartialSumSteps
  <2>4. t[(n + j) + 1] = 0
    BY <1>1, <1>2, <2>2 DEF BranchQuantities
  <2>5. PartialSum(t, n + j) = PartialSum(t, n)
    BY <1>6, <2>1
  <2>6. PartialSum(t, n) \in Int
    BY <1>1, <1>3, PartialSumIsWhole
  <2> QED
    BY <2>2, <2>3, <2>4, <2>5, <2>6
<1> HIDE DEF S
<1>7. \A j \in Nat : j \in S
  BY <1>5, <1>6, CountingUp
<1>8. m - n \in Nat /\ n + (m - n) = m
  OBVIOUS
<1>9. PartialSum(t, m) = PartialSum(t, n)
  BY <1>7, <1>8 DEF S
<1> QED
  BY <1>1, <1>4, <1>9

\* A receipt, a count, an entry and a transfer more, in what a branch is shown.
LEMMA ReceivedOneMore ==
    ASSUME NEW l, l = receipts, l \in Seq(ReceiptRow), NEW row \in ReceiptRow, NEW m, m = Append(l, row), receipts' = m, NEW b
    PROVE  ReceivedAt(b) \in Int /\ ReceivedAt(b)' = ReceivedAt(b) + (IF OrderedAt[row.order] = b THEN row.quantity ELSE 0)
<1>1. ASSUME NEW x \in ReceiptRow PROVE (IF OrderedAt[x.order] = b THEN x.quantity ELSE 0) \in Int
  BY DEF ReceiptRow
<1>2. \A n \in DOMAIN l : l[n] \in ReceiptRow /\ n \in DOMAIN m /\ m[n] = l[n]
  BY OneFactMore
<1>3. m \in Seq(ReceiptRow) /\ Len(l) + 1 \in DOMAIN m /\ m[Len(l) + 1] = row
  BY OneFactMore
<1>4. PICK u : u = [n \in DOMAIN l |-> (IF OrderedAt[l[n].order] = b THEN l[n].quantity ELSE 0)]
  OBVIOUS
<1>5. PICK v : v = [n \in DOMAIN m |-> (IF OrderedAt[m[n].order] = b THEN m[n].quantity ELSE 0)]
  OBVIOUS
<1>6. PICK k \in Nat : k = Len(l) /\ DOMAIN l = 1 .. k
  OBVIOUS
<1>7. DOMAIN m = 1 .. k + 1 /\ \A n \in 1 .. k + 1 : m[n] \in ReceiptRow
  BY <1>3, <1>6, OneFactMore
<1>8. /\ u \in [1 .. k -> Int] /\ v \in [1 .. k + 1 -> Int]
      /\ \A n \in 1 .. k : v[n] = u[n]
  BY <1>1, <1>2, <1>4, <1>5, <1>6, <1>7
<1>9. v[Len(l) + 1] = (IF OrderedAt[row.order] = b THEN row.quantity ELSE 0)
  BY <1>3, <1>5
<1>10. Added(u) \in Int /\ Added(v) = Added(u) + v[Len(l) + 1]
  <2>1. u \in Seq(Int)
    BY <1>8, RowsInOrder
  <2> QED
    BY <1>6, <1>8, <2>1, AddedOneMore, AddedIsWhole
<1>11. ReceivedAt(b) = Added(u)
  BY <1>4 DEF ReceivedAt
<1>12. ReceivedAt(b)' = Added(v)
  BY <1>5 DEF ReceivedAt
<1> QED
  BY <1>9, <1>10, <1>11, <1>12

\* A count more.
LEMMA CountedOneMore ==
    ASSUME NEW l, l = counts, l \in Seq(CountRow), NEW row \in CountRow, NEW m, m = Append(l, row), counts' = m, NEW b
    PROVE  CountedAt(b) \in Int /\ CountedAt(b)' = CountedAt(b) + (IF row.branch = b THEN row.result.variance ELSE 0)
<1>1. ASSUME NEW x \in CountRow PROVE (IF x.branch = b THEN x.result.variance ELSE 0) \in Int
  BY DEF CountRow, CountRows
<1>2. \A n \in DOMAIN l : l[n] \in CountRow /\ n \in DOMAIN m /\ m[n] = l[n]
  BY OneFactMore
<1>3. m \in Seq(CountRow) /\ Len(l) + 1 \in DOMAIN m /\ m[Len(l) + 1] = row
  BY OneFactMore
<1>4. PICK u : u = [n \in DOMAIN l |-> (IF l[n].branch = b THEN l[n].result.variance ELSE 0)]
  OBVIOUS
<1>5. PICK v : v = [n \in DOMAIN m |-> (IF m[n].branch = b THEN m[n].result.variance ELSE 0)]
  OBVIOUS
<1>6. PICK k \in Nat : k = Len(l) /\ DOMAIN l = 1 .. k
  OBVIOUS
<1>7. DOMAIN m = 1 .. k + 1 /\ \A n \in 1 .. k + 1 : m[n] \in CountRow
  BY <1>3, <1>6, OneFactMore
<1>8. /\ u \in [1 .. k -> Int] /\ v \in [1 .. k + 1 -> Int]
      /\ \A n \in 1 .. k : v[n] = u[n]
  BY <1>1, <1>2, <1>4, <1>5, <1>6, <1>7
<1>9. v[Len(l) + 1] = (IF row.branch = b THEN row.result.variance ELSE 0)
  BY <1>3, <1>5
<1>10. Added(u) \in Int /\ Added(v) = Added(u) + v[Len(l) + 1]
  <2>1. u \in Seq(Int)
    BY <1>8, RowsInOrder
  <2> QED
    BY <1>6, <1>8, <2>1, AddedOneMore, AddedIsWhole
<1>11. CountedAt(b) = Added(u)
  BY <1>4 DEF CountedAt
<1>12. CountedAt(b)' = Added(v)
  BY <1>5 DEF CountedAt
<1> QED
  BY <1>9, <1>10, <1>11, <1>12

\* The adjustments among some entries, and one entry more.
AdjustedIn(e, b) ==
    Added([n \in DOMAIN e |-> IF e[n].branch = b /\ e[n].type = "ADJUSTMENT" THEN e[n].quantity ELSE 0])

\* What one entry adjusts.
AdjustmentAt(x, b) == IF x.branch = b /\ x.type = "ADJUSTMENT" THEN x.quantity ELSE 0

OneEntryAdjusts(l, x, m, b) ==
    AdjustedIn(l, b) \in Int /\ AdjustedIn(m, b) = AdjustedIn(l, b) + AdjustmentAt(x, b)

\* An entry more adds what it adjusts.
LEMMA AdjustedOneMore ==
    ASSUME NEW l, l \in Seq(EntryRow), NEW row \in EntryRow, NEW m, m = Append(l, row), NEW b
    PROVE  OneEntryAdjusts(l, row, m, b)
<1>1. ASSUME NEW x \in EntryRow PROVE (IF x.branch = b /\ x.type = "ADJUSTMENT" THEN x.quantity ELSE 0) \in Int
  BY DEF EntryRow
<1>2. \A n \in DOMAIN l : l[n] \in EntryRow /\ n \in DOMAIN m /\ m[n] = l[n]
  BY OneFactMore
<1>3. m \in Seq(EntryRow) /\ Len(l) + 1 \in DOMAIN m /\ m[Len(l) + 1] = row
  BY OneFactMore
<1>4. PICK u : u = [n \in DOMAIN l |-> (IF l[n].branch = b /\ l[n].type = "ADJUSTMENT" THEN l[n].quantity ELSE 0)]
  OBVIOUS
<1>5. PICK v : v = [n \in DOMAIN m |-> (IF m[n].branch = b /\ m[n].type = "ADJUSTMENT" THEN m[n].quantity ELSE 0)]
  OBVIOUS
<1>6. PICK k \in Nat : k = Len(l) /\ DOMAIN l = 1 .. k
  OBVIOUS
<1>7. DOMAIN m = 1 .. k + 1 /\ \A n \in 1 .. k + 1 : m[n] \in EntryRow
  BY <1>3, <1>6, OneFactMore
<1>8. /\ u \in [1 .. k -> Int] /\ v \in [1 .. k + 1 -> Int]
      /\ \A n \in 1 .. k : v[n] = u[n]
  BY <1>1, <1>2, <1>4, <1>5, <1>6, <1>7
<1>9. v[Len(l) + 1] = (IF row.branch = b /\ row.type = "ADJUSTMENT" THEN row.quantity ELSE 0)
  BY <1>3, <1>5
<1>10. Added(u) \in Int /\ Added(v) = Added(u) + v[Len(l) + 1]
  <2>1. u \in Seq(Int)
    BY <1>8, RowsInOrder
  <2> QED
    BY <1>6, <1>8, <2>1, AddedOneMore, AddedIsWhole
<1>11. AdjustedIn(l, b) = Added(u)
  BY <1>4 DEF AdjustedIn
<1>12. AdjustedIn(m, b) = Added(v)
  BY <1>5 DEF AdjustedIn
<1> QED
  BY <1>9, <1>10, <1>11, <1>12 DEF AdjustmentAt, OneEntryAdjusts

\* A transfer more.
LEMMA MovedOneMore ==
    ASSUME NEW l, l = transfers, l \in Seq(TransferRow), NEW row \in TransferRow, NEW m, m = Append(l, row), transfers' = m, NEW b
    PROVE  MovedAt(b) \in Int /\ MovedAt(b)' = MovedAt(b) + (IF row.source = b THEN -row.quantity ELSE IF row.destination = b THEN row.quantity ELSE 0)
<1>1. ASSUME NEW x \in TransferRow PROVE (IF x.source = b THEN -x.quantity ELSE IF x.destination = b THEN x.quantity ELSE 0) \in Int
  BY DEF TransferRow
<1>2. \A n \in DOMAIN l : l[n] \in TransferRow /\ n \in DOMAIN m /\ m[n] = l[n]
  BY OneFactMore
<1>3. m \in Seq(TransferRow) /\ Len(l) + 1 \in DOMAIN m /\ m[Len(l) + 1] = row
  BY OneFactMore
<1>4. PICK u : u = [n \in DOMAIN l |-> (IF l[n].source = b THEN -l[n].quantity ELSE IF l[n].destination = b THEN l[n].quantity ELSE 0)]
  OBVIOUS
<1>5. PICK v : v = [n \in DOMAIN m |-> (IF m[n].source = b THEN -m[n].quantity ELSE IF m[n].destination = b THEN m[n].quantity ELSE 0)]
  OBVIOUS
<1>6. PICK k \in Nat : k = Len(l) /\ DOMAIN l = 1 .. k
  OBVIOUS
<1>7. DOMAIN m = 1 .. k + 1 /\ \A n \in 1 .. k + 1 : m[n] \in TransferRow
  BY <1>3, <1>6, OneFactMore
<1>8. /\ u \in [1 .. k -> Int] /\ v \in [1 .. k + 1 -> Int]
      /\ \A n \in 1 .. k : v[n] = u[n]
  BY <1>1, <1>2, <1>4, <1>5, <1>6, <1>7
<1>9. v[Len(l) + 1] = (IF row.source = b THEN -row.quantity ELSE IF row.destination = b THEN row.quantity ELSE 0)
  BY <1>3, <1>5
<1>10. Added(u) \in Int /\ Added(v) = Added(u) + v[Len(l) + 1]
  <2>1. u \in Seq(Int)
    BY <1>8, RowsInOrder
  <2> QED
    BY <1>6, <1>8, <2>1, AddedOneMore, AddedIsWhole
<1>11. MovedAt(b) = Added(u)
  BY <1>4 DEF MovedAt, Shown
<1>12. MovedAt(b)' = Added(v)
  BY <1>5 DEF MovedAt, Shown
<1> QED
  BY <1>9, <1>10, <1>11, <1>12

\* A tenant without documents.
StockEmpty ==
    /\ approval = [o \in PurchaseOrders |-> "none"] /\ receipts = <<>> /\ journal = <<>> /\ counts = <<>>
    /\ reviews = <<>> /\ tasks = <<>> /\ transfers = <<>>

\* Where there are no documents, there is no stock.
LEMMA StockBegins ==
    ASSUME StockEmpty
    PROVE  /\ StockTyped /\ StockPlaced
           /\ OrdersSettle /\ CountsSettle /\ LedgerAddsUp /\ TransfersHad /\ RestocksApart
<1>1. /\ approval = [o \in PurchaseOrders |-> "none"] /\ receipts = <<>> /\ journal = <<>> /\ counts = <<>>
      /\ reviews = <<>> /\ tasks = <<>> /\ transfers = <<>>
  BY DEF StockEmpty
<1>2. StockTyped
  BY <1>1 DEF StockTyped
<1>3. StockPlaced /\ OrdersSettle /\ CountsSettle /\ TransfersHad /\ RestocksApart
  BY <1>1 DEF StockPlaced, OrdersSettle, CountsSettle, TransfersHad, RestocksApart, ActiveTasks
<1>4. LedgerAddsUp
  <2>1. ASSUME NEW b \in Branches
        PROVE  StockOnHand(b) = 0 /\ ReceivedAt(b) = 0 /\ CountedAt(b) = 0 /\ AdjustedAt(b) = 0 /\ MovedAt(b) = 0
    <3>1. ReceivedAt(b) = 0 /\ CountedAt(b) = 0
      BY <1>1, AddedNothing DEF ReceivedAt, CountedAt
    <3>2. AdjustedAt(b) = 0 /\ MovedAt(b) = 0
      BY <1>1, AddedNothing DEF AdjustedAt, MovedAt
    <3>3. StockOnHand(b) = 0
      BY <1>1, AddedNothing DEF StockOnHand, StockOf
    <3> QED
      BY <3>1, <3>2, <3>3
  <2> QED
    BY <2>1 DEF LedgerAddsUp
<1> QED
  BY <1>2, <1>3, <1>4

\* The documents begin with no request in hand.
LEMMA StockInitInv == StockDocumentsInit => StockInv
<1> SUFFICES ASSUME StockDocumentsInit PROVE StockInv
  OBVIOUS
<1>1. StockEmpty /\ OneRequestEach
  BY DEF StockDocumentsInit, DeskInit, StockEmpty, OneRequestEach
<1>2. \A r \in Desks : desk[r].op = "none"
  BY DEF StockDocumentsInit, DeskInit, Idle
<1>3. \A r \in Desks : StockHands(desk[r]) /\ StockChecks(desk[r])
  BY <1>2 DEF StockHands, StockChecks
<1> QED
  BY <1>1, <1>3, StockBegins DEF StockInv

\* Where the rows stand, so does what is said of them.
LEMMA StockStandStill ==
    ASSUME UNCHANGED <<approval, receipts, journal, counts, reviews, tasks, transfers>>
    PROVE  /\ \A b : StockOnHand(b)' = StockOnHand(b) /\ ActiveTasks(b)' = ActiveTasks(b)
           /\ \A n, b : StockAfter(n, b)' = StockAfter(n, b)
           /\ StockTyped => StockTyped'
           /\ StockPlaced => StockPlaced'
           /\ UNCHANGED blind => /\ OrdersSettle => OrdersSettle'
                                 /\ CountsSettle => CountsSettle'
                                 /\ TransfersHad => TransfersHad'
                                 /\ RestocksApart => RestocksApart'
                                 /\ \A o : ApprovedOrUnseen(o) => ApprovedOrUnseen(o)'
           /\ LedgerAddsUp => LedgerAddsUp'
<1>1. \A b : StockOnHand(b)' = StockOnHand(b) /\ ActiveTasks(b)' = ActiveTasks(b)
  BY DEF StockOnHand, ActiveTasks
<1>2. \A n, b : StockAfter(n, b)' = StockAfter(n, b)
  BY DEF StockAfter
<1>3. StockTyped => StockTyped'
  BY DEF StockTyped
<1>4. StockPlaced => StockPlaced'
  BY <1>2 DEF StockPlaced, StockReviewed, StockCounted
<1>5. UNCHANGED blind => /\ OrdersSettle => OrdersSettle'
                         /\ \A o : ApprovedOrUnseen(o) => ApprovedOrUnseen(o)'
  BY DEF OrdersSettle, ApprovedOrUnseen, Seen
<1>6. UNCHANGED blind => (CountsSettle => CountsSettle')
  BY DEF CountsSettle, CountsOf, Seen
<1>7. UNCHANGED blind => /\ TransfersHad => TransfersHad'
                         /\ RestocksApart => RestocksApart'
  BY <1>1, <1>2 DEF TransfersHad, RestocksApart, Seen
<1>8. LedgerAddsUp => LedgerAddsUp'
  BY <1>1 DEF LedgerAddsUp, ReceivedAt, CountedAt, AdjustedAt, MovedAt, Shown
<1> QED
  BY <1>1, <1>2, <1>3, <1>4, <1>5, <1>6, <1>7, <1>8

\* What a request has in hand and has checked, where the rows stand.
LEMMA StockHandsStand ==
    ASSUME UNCHANGED <<approval, receipts, journal, counts, reviews, tasks, transfers, blind>>, NEW d
    PROVE  (StockHands(d) => StockHands(d)') /\ (StockChecks(d) => StockChecks(d)')
<1>1. /\ \A b : StockOnHand(b)' = StockOnHand(b) /\ ActiveTasks(b)' = ActiveTasks(b)
      /\ \A n, b : StockAfter(n, b)' = StockAfter(n, b)
      /\ \A o : ApprovedOrUnseen(o) => ApprovedOrUnseen(o)'
  BY StockStandStill
<1>2. StockHands(d) => StockHands(d)'
  BY <1>1 DEF StockHands, ResultOf
<1>3. StockChecks(d) => StockChecks(d)'
  BY <1>1 DEF StockChecks
<1> QED
  BY <1>2, <1>3

\* A request that reads has in hand what it has read.
LEMMA StockGoesOn ==
    ASSUME StockInv, NEW r \in Desks, NEW e, Reads(r, e), StockHands(e), StockChecks(e)
    PROVE  StockInv'
<1>0. /\ UNCHANGED <<approval, receipts, journal, counts, reviews, tasks, transfers>>
      /\ Checked(r, e) /\ OneRequestEach
  BY DEF Reads, stockRows, StockInv
<1>1. /\ OneRequestEach' /\ desk'[r] = e /\ UNCHANGED <<overtaken, blind>>
      /\ \A q \in Desks \ {r} : desk'[q] = desk[q]
  BY <1>0, DeskChecks
<1>2. /\ StockTyped' /\ StockPlaced' /\ OrdersSettle' /\ CountsSettle' /\ LedgerAddsUp' /\ TransfersHad'
      /\ RestocksApart'
  BY <1>0, <1>1, StockStandStill DEF StockInv
<1>3. ASSUME NEW q \in Desks PROVE StockHands(desk[q])' /\ (q \notin overtaken' => StockChecks(desk[q])')
  <2>1. PICK d : d = desk'[q] /\ StockHands(d) /\ (q \notin overtaken' => StockChecks(d))
    BY <1>1 DEF StockInv
  <2>2. StockHands(d)' /\ (q \notin overtaken' => StockChecks(d)')
    BY <1>0, <1>1, <2>1, StockHandsStand
  <2> QED
    BY <2>1, <2>2 DEF StockHands, StockChecks, ResultOf, StockAfter, ApprovedOrUnseen, Seen, StockOnHand, ActiveTasks
<1> QED
  BY <1>1, <1>2, <1>3 DEF StockInv

\* What a step of a document leaves of what it finds.
JournalGrows ==
    /\ Len(journal) <= Len(journal')
    /\ \A i \in DOMAIN journal : i \in DOMAIN journal' /\ journal'[i] = journal[i]
    /\ \A n \in 0 .. Len(journal) : SubSeq(journal', 1, n) = SubSeq(journal, 1, n)
ReviewsGrow ==
    \A n \in DOMAIN reviews :
        /\ n \in DOMAIN reviews' /\ reviews'[n].branch = reviews[n].branch
        /\ reviews'[n].expected = reviews[n].expected /\ reviews'[n].since = reviews[n].since
ApprovalsStay == \A o \in PurchaseOrders : ApprovedOrUnseen(o) => ApprovedOrUnseen(o)'
StockGrows ==
    JournalGrows /\ ReviewsGrow /\ ApprovalsStay /\ DOMAIN tasks \subseteq DOMAIN tasks' /\ blind \subseteq blind'

\* The stock of a day gone by stays what it was.
LEMMA StockBefore ==
    ASSUME StockGrows, NEW b
    PROVE  \A n \in 0 .. Len(journal) : StockAfter(n, b)' = StockAfter(n, b)
<1>1. ASSUME NEW n \in 0 .. Len(journal) PROVE StockAfter(n, b)' = StockAfter(n, b)
  <2>1. PICK p : p = SubSeq(journal, 1, n) /\ p = SubSeq(journal', 1, n)
    BY DEF StockGrows, JournalGrows
  <2> QED
    BY <2>1 DEF StockAfter
<1> QED
  BY <1>1

\* A commit, or a request of one step, leaves what the other requests have in hand, which it overtakes.
LEMMA StockLands ==
    ASSUME StockInv, AtOnce \/ \E r \in Desks : \E rows : Committed(r, rows), StockGrows,
           StockTyped', StockPlaced', OrdersSettle', CountsSettle', LedgerAddsUp', TransfersHad', RestocksApart'
    PROVE  StockInv'
<1>0. OneRequestEach /\ StockTyped
  BY DEF StockInv
<1>1. /\ OneRequestEach' /\ \A q \in Desks : desk'[q].op = "none" \/ desk'[q] = desk[q]
      /\ \A q \in Desks : q \notin overtaken' => desk'[q].op = "none"
  <2>1. CASE AtOnce
    BY <1>0, <2>1, DeskAtOnce DEF OneRequestEach
  <2>2. CASE \E r \in Desks : \E rows : Committed(r, rows)
    BY <1>0, <2>2, DeskCommits
  <2> QED
    BY <2>1, <2>2
<1>2. ASSUME NEW q \in Desks PROVE StockHands(desk[q])' /\ (q \notin overtaken' => StockChecks(desk[q])')
  <2>1. CASE desk'[q].op = "none"
    BY <2>1 DEF StockHands, StockChecks
  <2>2. CASE desk'[q] = desk[q]
    <3>1. PICK d : d = desk[q] /\ d = desk'[q] /\ StockHands(d)
      BY <2>2 DEF StockInv
    <3>2. d.op = "decide" => d.order \in PurchaseOrders /\ d.to \in {"PENDING_APPROVAL", "APPROVED"}
      BY <3>1 DEF StockHands
    <3>3. d.op = "receive" => d.order \in PurchaseOrders /\ d.quantity \in Nat /\ ApprovedOrUnseen(d.order)'
      BY <3>1 DEF StockHands, StockGrows, ReviewsGrow, ApprovalsStay
    <3>4. d.op = "count" =>
             /\ d.branch \in Branches /\ d.result \in CountRows /\ d.review \in Nat
             /\ d.review # 0 => /\ d.review \in DOMAIN reviews' /\ d.branch = reviews'[d.review].branch
                                /\ ResultOf(d.result, reviews'[d.review].expected)
      BY <3>1 DEF StockHands, StockGrows, ReviewsGrow, ApprovalsStay
    <3>5. d.op = "review" =>
             /\ d.branch \in Branches /\ d.since \in Nat /\ d.since <= Len(journal')
             /\ d.expected = StockAfter(d.since, d.branch)'
      <4>1. ASSUME d.op = "review"
            PROVE  /\ d.branch \in Branches /\ d.since \in Nat /\ d.since <= Len(journal')
                   /\ d.expected = StockAfter(d.since, d.branch)'
        <5>1. d.branch \in Branches /\ d.since \in Nat /\ d.since <= Len(journal) /\ d.expected = StockAfter(d.since, d.branch)
          BY <3>1, <4>1 DEF StockHands
        <5>2. Len(journal) \in Nat /\ Len(journal') \in Nat /\ Len(journal) <= Len(journal')
          BY <1>0 DEF StockTyped, StockGrows, JournalGrows
        <5>3. d.since \in 0 .. Len(journal) /\ d.since <= Len(journal')
          BY <5>1, <5>2
        <5>4. StockAfter(d.since, d.branch)' = StockAfter(d.since, d.branch)
          BY <5>3, StockBefore
        <5> QED
          BY <5>1, <5>3, <5>4
      <4> QED
        BY <4>1
    <3>6. d.op = "record" => d.review \in DOMAIN reviews' /\ ResultOf(d.result, reviews'[d.review].expected)
      BY <3>1 DEF StockHands, StockGrows, ReviewsGrow, ApprovalsStay
    <3>7. d.op = "drop" => d.review \in DOMAIN reviews'
      BY <3>1 DEF StockHands, StockGrows, ReviewsGrow, ApprovalsStay
    <3>8. d.op = "task" => /\ d.task \in DOMAIN tasks' /\ d.to \in {"PICKED", "COMPLETED", "CANCELED"}
                           /\ d.to = "PICKED" => d.picked \in Nat
      BY <3>1 DEF StockHands, StockGrows, ReviewsGrow, ApprovalsStay
    <3>9. /\ d.op = "transfer" =>
               d.source \in Branches /\ d.destination \in Branches /\ d.source # d.destination /\ d.quantity \in Nat
          /\ d.op = "restock" => d.branch \in Branches /\ d.requested \in Nat
      BY <3>1 DEF StockHands
    <3>10. StockHands(d)'
      BY <3>2, <3>3, <3>4, <3>5, <3>6, <3>7, <3>8, <3>9 DEF StockHands, ResultOf
    <3>11. StockHands(desk[q])'
      BY <3>1, <3>10 DEF StockHands, ResultOf, StockAfter, ApprovedOrUnseen, Seen
    <3>12. q \notin overtaken' => StockChecks(desk[q])'
      BY <1>1 DEF StockChecks
    <3> QED
      BY <3>11, <3>12
  <2> QED
    BY <1>1, <2>1, <2>2
<1> QED
  BY <1>1, <1>2 DEF StockInv

\* Every request reads what it is compared with.
LEMMA StockReadsOrders ==
    ASSUME StockInv, NEW r \in Desks, NEW o \in PurchaseOrders,
           \/ SubmitPurchaseOrder(r, o) \/ ApprovePurchaseOrder(r, o)
           \/ \E q \in Receivables(o) : CreateGoodsReceipt(r, o, q)
    PROVE  StockInv'
<1>1. ASSUME SubmitPurchaseOrder(r, o) PROVE StockInv'
  <2>1. PICK e : e = [op |-> "decide", order |-> o, to |-> "PENDING_APPROVAL"]
    OBVIOUS
  <2>2. StockHands(e) /\ StockChecks(e) /\ Reads(r, e)
    BY <1>1, <2>1 DEF StockHands, StockChecks, SubmitPurchaseOrder, Submittable
  <2> QED
    BY <2>2, StockGoesOn
<1>2. ASSUME ApprovePurchaseOrder(r, o) PROVE StockInv'
  <2>1. PICK e : e = [op |-> "decide", order |-> o, to |-> "APPROVED"]
    OBVIOUS
  <2>2. StockHands(e) /\ StockChecks(e) /\ Reads(r, e)
    BY <1>2, <2>1 DEF StockHands, StockChecks, ApprovePurchaseOrder
  <2> QED
    BY <2>2, StockGoesOn
<1>3. ASSUME NEW q \in Receivables(o), CreateGoodsReceipt(r, o, q) PROVE StockInv'
  <2>1. PICK e : e = [op |-> "receive", order |-> o, quantity |-> q]
    OBVIOUS
  <2>2. q \in Nat /\ ApprovedOrUnseen(o)
    BY <1>3 DEF Receivables, CreateGoodsReceipt, Receivable, ApprovedOrUnseen
  <2>3. StockHands(e) /\ StockChecks(e) /\ Reads(r, e)
    BY <1>3, <2>1, <2>2 DEF StockHands, StockChecks, CreateGoodsReceipt
  <2> QED
    BY <2>3, StockGoesOn
<1> QED
  BY <1>1, <1>2, <1>3

\* So do the counts and their reviews.
LEMMA StockReadsCounts ==
    ASSUME StockInv, NEW r \in Desks,
           \/ \E b \in Branches : CreateReviewSession(r, b) \/ \E counted \in Amounts \cup {0} : CreateStockCount(r, b, counted)
           \/ \E n \in DOMAIN reviews :
                 \/ ApproveReviewSession(r, n) \/ CancelReviewSession(r, n)
                 \/ \E counted \in Amounts \cup {0} : RecordReviewSession(r, n, counted)
    PROVE  StockInv'
<1>0. StockTyped /\ StockPlaced
  BY DEF StockInv
<1>1. ASSUME NEW b \in Branches PROVE StockOnHand(b) \in Int /\ StockAfter(Len(journal), b) = StockOnHand(b)
  <2>1. PICK e \in Seq(EntryRow) : e = journal
    BY <1>0 DEF StockTyped
  <2>2. PICK k \in Nat : k = Len(e)
    BY <2>1
  <2>3. PICK p : p = SubSeq(e, 1, k)
    OBVIOUS
  <2>4. p \in Seq(EntryRow) /\ Len(p) = k /\ \A i \in 1 .. k : p[i] = e[i]
    BY <2>2, <2>3, SubSeqProperties
  <2>5. p = e
    BY <2>2, <2>4
  <2> QED
    BY <2>1, <2>2, <2>3, <2>5, StockIsWhole DEF StockOnHand, StockAfter
<1>2. \A counted \in Amounts \cup {0} : counted \in Nat
  BY StockDocumentsAssumption
<1>3. ASSUME NEW b \in Branches, CreateReviewSession(r, b) PROVE StockInv'
  <2>1. PICK e : e = [op |-> "review", branch |-> b, expected |-> StockOnHand(b), since |-> Len(journal)]
    OBVIOUS
  <2>2. Len(journal) \in Nat
    BY <1>0 DEF StockTyped
  <2>3. StockHands(e) /\ StockChecks(e) /\ Reads(r, e)
    BY <1>1, <1>3, <2>1, <2>2 DEF StockHands, StockChecks, CreateReviewSession
  <2> QED
    BY <2>3, StockGoesOn
<1>4. ASSUME NEW expected \in Int, NEW counted \in Nat
      PROVE  ResultOf(CountResult(expected, counted), expected)
  BY DEF ResultOf, CountResult, CountRows
<1>5. ASSUME NEW b \in Branches, NEW counted \in Amounts \cup {0}, CreateStockCount(r, b, counted) PROVE StockInv'
  <2>1. PICK e : e = [op |-> "count", branch |-> b, result |-> CountResult(StockOnHand(b), counted), review |-> 0]
    OBVIOUS
  <2>2. e.result \in CountRows
    BY <1>1, <1>2, <1>4, <2>1 DEF ResultOf
  <2>3. StockHands(e) /\ StockChecks(e) /\ Reads(r, e)
    BY <1>5, <2>1, <2>2 DEF StockHands, StockChecks, CreateStockCount
  <2> QED
    BY <2>3, StockGoesOn
<1>6. ASSUME NEW n \in DOMAIN reviews, ApproveReviewSession(r, n) PROVE StockInv'
  <2>1. PICK e : e = [op |-> "count", branch |-> reviews[n].branch, result |-> reviews[n].result, review |-> n]
    OBVIOUS
  <2>2. reviews[n] \in ReviewRow /\ n \in Nat
    BY <1>0 DEF StockTyped
  <2>3. reviews[n].branch \in Branches /\ reviews[n].status = "COUNTED"
    BY <1>6, <2>2 DEF ReviewRow, ApproveReviewSession, Approvable
  <2>4. ResultOf(reviews[n].result, reviews[n].expected)
    BY <1>0, <2>3 DEF StockPlaced, StockReviewed
  <2>5. StockHands(e) /\ StockChecks(e) /\ Reads(r, e)
    BY <1>6, <2>1, <2>2, <2>3, <2>4 DEF StockHands, StockChecks, ApproveReviewSession, ResultOf
  <2> QED
    BY <2>5, StockGoesOn
<1>7. ASSUME NEW n \in DOMAIN reviews, CancelReviewSession(r, n) PROVE StockInv'
  <2>1. PICK e : e = [op |-> "drop", review |-> n]
    OBVIOUS
  <2>2. StockHands(e) /\ StockChecks(e) /\ Reads(r, e)
    BY <1>7, <2>1 DEF StockHands, StockChecks, CancelReviewSession
  <2> QED
    BY <2>2, StockGoesOn
<1>8. ASSUME NEW n \in DOMAIN reviews, NEW counted \in Amounts \cup {0}, RecordReviewSession(r, n, counted) PROVE StockInv'
  <2>1. PICK e : e = [op |-> "record", review |-> n, result |-> CountResult(reviews[n].expected, counted)]
    OBVIOUS
  <2>2. reviews[n] \in ReviewRow
    BY <1>0 DEF StockTyped
  <2>3. reviews[n].expected \in Int
    BY <2>2 DEF ReviewRow
  <2>4. ResultOf(e.result, reviews[n].expected)
    BY <1>2, <1>4, <2>1, <2>3
  <2>5. StockHands(e) /\ StockChecks(e) /\ Reads(r, e)
    BY <1>8, <2>1, <2>4 DEF StockHands, StockChecks, RecordReviewSession
  <2> QED
    BY <2>5, StockGoesOn
<1> QED
  BY <1>3, <1>5, <1>6, <1>7, <1>8

\* And transfers and restock tasks.
LEMMA StockReadsMoves ==
    ASSUME StockInv, NEW r \in Desks,
           \/ \E b \in Branches : \/ \E q \in Amounts : CreateRestockTask(r, b, q)
                                  \/ \E d \in Branches, q \in Amounts : CreateTransfer(r, b, d, q)
           \/ \E n \in DOMAIN tasks :
                 \/ CompleteRestockTask(r, n) \/ CancelRestockTask(r, n)
                 \/ \E q \in Amounts \cup {0} : PickRestockTask(r, n, q)
    PROVE  StockInv'
<1>1. \A q \in Amounts \cup {0} : q \in Nat
  BY StockDocumentsAssumption
<1>2. ASSUME NEW b \in Branches, NEW q \in Amounts, CreateRestockTask(r, b, q) PROVE StockInv'
  <2>1. PICK e : e = [op |-> "restock", branch |-> b, requested |-> q]
    OBVIOUS
  <2>2. StockHands(e) /\ StockChecks(e) /\ Reads(r, e)
    BY <1>1, <1>2, <2>1 DEF StockHands, StockChecks, CreateRestockTask, Restockable
  <2> QED
    BY <2>2, StockGoesOn
<1>3. ASSUME NEW b \in Branches, NEW d \in Branches, NEW q \in Amounts, CreateTransfer(r, b, d, q) PROVE StockInv'
  <2>1. PICK e : e = [op |-> "transfer", source |-> b, destination |-> d, quantity |-> q]
    OBVIOUS
  <2>2. StockHands(e) /\ StockChecks(e) /\ Reads(r, e)
    BY <1>1, <1>3, <2>1 DEF StockHands, StockChecks, CreateTransfer, TransferAllowed
  <2> QED
    BY <2>2, StockGoesOn
<1>4. ASSUME NEW n \in DOMAIN tasks, NEW to \in {"COMPLETED", "CANCELED"}, Reads(r, [op |-> "task", task |-> n, to |-> to])
      PROVE  StockInv'
  <2>1. PICK e : e = [op |-> "task", task |-> n, to |-> to]
    OBVIOUS
  <2>2. StockHands(e) /\ StockChecks(e) /\ Reads(r, e)
    BY <1>4, <2>1 DEF StockHands, StockChecks
  <2> QED
    BY <2>2, StockGoesOn
<1>5. ASSUME NEW n \in DOMAIN tasks, CompleteRestockTask(r, n) \/ CancelRestockTask(r, n) PROVE StockInv'
  BY <1>4, <1>5 DEF CompleteRestockTask, CancelRestockTask
<1>6. ASSUME NEW n \in DOMAIN tasks, NEW q \in Amounts \cup {0}, PickRestockTask(r, n, q) PROVE StockInv'
  <2>1. PICK e : e = [op |-> "task", task |-> n, picked |-> q, to |-> "PICKED"]
    OBVIOUS
  <2>2. StockHands(e) /\ StockChecks(e) /\ Reads(r, e)
    BY <1>1, <1>6, <2>1 DEF StockHands, StockChecks, PickRestockTask
  <2> QED
    BY <2>2, StockGoesOn
<1> QED
  BY <1>2, <1>3, <1>5, <1>6

\* What is said of the rows that a step leaves alone.
LEMMA StockAside ==
    ASSUME blind \subseteq blind'
    PROVE  /\ StockTyped /\ UNCHANGED journal => JournalGrows
           /\ UNCHANGED reviews => ReviewsGrow
           /\ UNCHANGED approval => ApprovalsStay
           /\ StockTyped /\ UNCHANGED receipts /\ ApprovalsStay => (OrdersSettle => OrdersSettle')
           /\ UNCHANGED <<counts, reviews>> => (CountsSettle => CountsSettle')
           /\ UNCHANGED <<receipts, journal, counts, transfers>> => (LedgerAddsUp => LedgerAddsUp')
           /\ UNCHANGED tasks => (RestocksApart => RestocksApart')
<1>1. StockTyped /\ UNCHANGED journal => JournalGrows
  <2>1. ASSUME StockTyped, UNCHANGED journal PROVE JournalGrows
    <3>1. PICK k \in Nat : k = Len(journal)
      BY <2>1 DEF StockTyped
    <3>2. Len(journal) <= Len(journal')
      BY <2>1, <3>1
    <3> QED
      BY <2>1, <3>2 DEF JournalGrows
  <2> QED
    BY <2>1
<1>2. UNCHANGED reviews => ReviewsGrow
  BY DEF ReviewsGrow
<1>3. UNCHANGED approval => ApprovalsStay
  BY DEF ApprovalsStay, ApprovedOrUnseen, Seen
<1>4. StockTyped /\ UNCHANGED receipts /\ ApprovalsStay => (OrdersSettle => OrdersSettle')
  <2> SUFFICES ASSUME StockTyped, UNCHANGED receipts, ApprovalsStay, OrdersSettle PROVE OrdersSettle'
    OBVIOUS
  <2>1. ASSUME NEW n \in DOMAIN receipts PROVE receipts[n].order \in PurchaseOrders
    <3>1. receipts[n] \in ReceiptRow
      BY DEF StockTyped
    <3> QED
      BY <3>1 DEF ReceiptRow
  <2> QED
    BY <2>1 DEF OrdersSettle, ApprovalsStay
<1>5. UNCHANGED <<counts, reviews>> => (CountsSettle => CountsSettle')
  BY DEF CountsSettle, CountsOf, Seen
<1>6. UNCHANGED <<receipts, journal, counts, transfers>> => (LedgerAddsUp => LedgerAddsUp')
  BY DEF LedgerAddsUp, StockOnHand, ReceivedAt, CountedAt, AdjustedAt, MovedAt, Shown
<1>7. UNCHANGED tasks => (RestocksApart => RestocksApart')
  BY DEF RestocksApart, ActiveTasks, Seen
<1> QED
  BY <1>1, <1>2, <1>3, <1>4, <1>5, <1>6, <1>7

\* What is said of a review, a count and a transfer that is left alone, in a ledger that grows.
LEMMA PlacedStays ==
    ASSUME StockTyped, StockTyped', StockPlaced, StockGrows
    PROVE  /\ \A n \in DOMAIN reviews :
                 (reviews[n].since <= Len(journal) /\ reviews[n].expected = StockAfter(reviews[n].since, reviews[n].branch))'
           /\ \A n \in DOMAIN reviews : reviews'[n] = reviews[n] => StockReviewed(n)'
           /\ \A m \in DOMAIN counts : counts'[m] = counts[m] => StockCounted(m)'
           /\ \A n \in DOMAIN transfers : transfers'[n] = transfers[n] =>
                 /\ (transfers[n].after <= Len(journal))'
                 /\ TransfersHad /\ Seen("transfer", n)' =>
                      (StockAfter(transfers[n].after, transfers[n].source) >= transfers[n].quantity)'
<1>1. PICK k \in Nat : k = Len(journal) /\ DOMAIN journal = 1 .. k
  BY DEF StockTyped
<1>2. PICK l \in Nat : l = Len(journal') /\ k <= l
  <2>1. journal' \in Seq(EntryRow)
    BY DEF StockTyped
  <2> QED
    BY <1>1, <2>1 DEF StockGrows, JournalGrows
<1>3. ASSUME NEW n \in 0 .. k, NEW b
      PROVE  StockOf(SubSeq(journal', 1, n), b) = StockOf(SubSeq(journal, 1, n), b)
  <2>1. SubSeq(journal', 1, n) = SubSeq(journal, 1, n)
    BY <1>1 DEF StockGrows, JournalGrows
  <2> QED
    BY <2>1
<1>4. ASSUME NEW n \in DOMAIN reviews
      PROVE  (reviews[n].since <= Len(journal) /\ reviews[n].expected = StockAfter(reviews[n].since, reviews[n].branch))'
  <2>1. reviews[n] \in ReviewRow
    BY DEF StockTyped
  <2>0. PICK since \in Nat : since = reviews[n].since
    BY <2>1 DEF ReviewRow
  <2>2. PICK b, x : b = reviews[n].branch /\ x = reviews[n].expected
    OBVIOUS
  <2>3. since <= k /\ x = StockOf(SubSeq(journal, 1, since), b)
    BY <1>1, <2>0, <2>2 DEF StockPlaced, StockReviewed, StockAfter
  <2>4. reviews'[n].since = since /\ reviews'[n].branch = b /\ reviews'[n].expected = x
    BY <2>0, <2>2 DEF StockGrows, ReviewsGrow
  <2>5. since \in 0 .. k /\ since <= l
    BY <1>2, <2>3
  <2>6. x = StockOf(SubSeq(journal', 1, since), b)
    BY <1>3, <2>3, <2>5
  <2> QED
    BY <1>2, <2>4, <2>5, <2>6 DEF StockAfter
<1>5. ASSUME NEW n \in DOMAIN reviews, reviews'[n] = reviews[n] PROVE StockReviewed(n)'
  <2>1. reviews[n].status = "COUNTED" => ResultOf(reviews[n].result, reviews[n].expected)
    BY DEF StockPlaced, StockReviewed
  <2>2. (reviews[n].status = "COUNTED" => ResultOf(reviews[n].result, reviews[n].expected))'
    BY <1>5, <2>1 DEF ResultOf
  <2> QED
    BY <1>4, <2>2 DEF StockReviewed
<1>6. ASSUME NEW m \in DOMAIN counts, counts'[m] = counts[m] PROVE StockCounted(m)'
  <2>1. PICK c \in CountRow : c = counts[m] /\ c = counts'[m]
    BY <1>6 DEF StockTyped
  <2>2. c.after \in Nat /\ c.after <= k
    BY <1>1, <2>1 DEF StockPlaced, StockCounted, CountRow
  <2>3. c.result.variance # 0 => c.after + 1 <= k /\ journal[c.after + 1] = Entry(c.branch, "COUNT_VARIANCE", c.result.variance)
    BY <1>1, <2>1 DEF StockPlaced, StockCounted
  <2>4. c.result.variance # 0 => c.after + 1 <= l /\ journal'[c.after + 1] = Entry(c.branch, "COUNT_VARIANCE", c.result.variance)
    <3>1. ASSUME c.result.variance # 0 PROVE c.after + 1 <= l /\ journal'[c.after + 1] = Entry(c.branch, "COUNT_VARIANCE", c.result.variance)
      <4>1. c.after + 1 \in 1 .. k
        BY <2>2, <2>3, <3>1
      <4>2. journal'[c.after + 1] = journal[c.after + 1]
        BY <1>1, <4>1 DEF StockGrows, JournalGrows
      <4> QED
        BY <1>2, <2>3, <3>1, <4>1, <4>2
    <3> QED
      BY <3>1
  <2>5. c.review # 0 => /\ c.review \in DOMAIN reviews' /\ c.branch = reviews'[c.review].branch
                        /\ ResultOf(c.result, reviews'[c.review].expected) /\ reviews'[c.review].since <= c.after
    BY <2>1 DEF StockPlaced, StockCounted, StockGrows, ReviewsGrow
  <2>6. c.after <= l
    BY <1>2, <2>2
  <2> QED
    BY <1>2, <2>1, <2>4, <2>5, <2>6 DEF StockCounted, Entry, ResultOf
<1>7. ASSUME NEW n \in DOMAIN transfers, transfers'[n] = transfers[n]
      PROVE  /\ (transfers[n].after <= Len(journal))'
             /\ TransfersHad /\ Seen("transfer", n)' =>
                  (StockAfter(transfers[n].after, transfers[n].source) >= transfers[n].quantity)'
  <2>1. transfers[n] \in TransferRow
    BY DEF StockTyped
  <2>0. PICK after \in Nat : after = transfers[n].after
    BY <2>1 DEF TransferRow
  <2>2. PICK b, q : b = transfers[n].source /\ q = transfers[n].quantity
    OBVIOUS
  <2>3. after <= k
    BY <1>1, <2>0, <2>2 DEF StockPlaced
  <2>4. after \in 0 .. k /\ after <= l
    BY <1>2, <2>3
  <2>5. Seen("transfer", n)' => Seen("transfer", n)
    BY DEF StockGrows, Seen
  <2>6. TransfersHad /\ Seen("transfer", n)' => StockOf(SubSeq(journal, 1, after), b) >= q
    BY <2>0, <2>2, <2>5 DEF TransfersHad, StockAfter
  <2>7. TransfersHad /\ Seen("transfer", n)' => StockOf(SubSeq(journal', 1, after), b) >= q
    BY <1>3, <2>4, <2>6
  <2>8. transfers'[n].after = after /\ transfers'[n].source = b /\ transfers'[n].quantity = q
    BY <1>7, <2>0, <2>2
  <2> QED
    BY <1>2, <2>4, <2>7, <2>8 DEF StockAfter
<1> QED
  BY <1>4, <1>5, <1>6, <1>7

\* What an entry does to the ledger.
LEMMA EntryPosted ==
    ASSUME StockTyped, NEW x \in EntryRow, journal' = journal \o <<x>>
    PROVE  /\ JournalGrows /\ journal' \in Seq(EntryRow)
           /\ Len(journal') = Len(journal) + 1 /\ journal'[Len(journal) + 1] = x
           /\ \A b : /\ StockOnHand(b) \in Int /\ AdjustedAt(b) \in Int
                     /\ StockOnHand(b)' = StockOnHand(b) + QuantityAt(x, b)
                     /\ AdjustedAt(b)' = AdjustedAt(b) + AdjustmentAt(x, b)
<1>1. PICK e : e = journal
  OBVIOUS
<1>2. PICK m : m = e \o <<x>>
  OBVIOUS
<1>3. m = journal' /\ e \in Seq(EntryRow)
  BY <1>1, <1>2 DEF StockTyped
<1>4. OneEntryOn(e, x, m)
  BY <1>2, <1>3, OneEntryMore
<1>5. JournalGrows
  <2>1. PICK k \in Nat : k = Len(e) /\ DOMAIN e = 1 .. k
    BY <1>3
  <2>2. Len(e) <= Len(m) /\ \A i \in DOMAIN e : i \in DOMAIN m
    BY <1>4, <2>1 DEF OneEntryOn
  <2> QED
    BY <1>1, <1>3, <1>4, <2>2 DEF JournalGrows, OneEntryOn
<1>6. ASSUME NEW b
      PROVE  /\ StockOnHand(b) \in Int /\ AdjustedAt(b) \in Int
             /\ StockOnHand(b)' = StockOnHand(b) + QuantityAt(x, b)
             /\ AdjustedAt(b)' = AdjustedAt(b) + AdjustmentAt(x, b)
  <2>1. StockOnHand(b) = StockOf(e, b) /\ StockOnHand(b)' = StockOf(m, b)
    BY <1>1, <1>3 DEF StockOnHand
  <2>2. AdjustedAt(b) = AdjustedIn(e, b) /\ AdjustedAt(b)' = AdjustedIn(m, b)
    BY <1>1, <1>3 DEF AdjustedAt, AdjustedIn
  <2>3. StockOf(e, b) \in Int
    BY <1>3, StockIsWhole
  <2>4. m = Append(e, x)
    BY <1>4 DEF OneEntryOn
  <2>5. OneEntryAdjusts(e, x, m, b)
    BY <1>3, <2>4, AdjustedOneMore
  <2> QED
    BY <1>4, <2>1, <2>2, <2>3, <2>5 DEF OneEntryOn, OneEntryAdjusts
<1> QED
  BY <1>1, <1>3, <1>4, <1>5, <1>6 DEF OneEntryOn

\* And two at a time.
LEMMA TwoPosted ==
    ASSUME StockTyped, NEW x \in EntryRow, NEW y \in EntryRow, journal' = journal \o <<x, y>>
    PROVE  /\ JournalGrows /\ journal' \in Seq(EntryRow)
           /\ \A b : /\ StockOnHand(b) \in Int /\ AdjustedAt(b) \in Int
                     /\ StockOnHand(b)' = StockOnHand(b) + QuantityAt(x, b) + QuantityAt(y, b)
                     /\ AdjustedAt(b)' = AdjustedAt(b) + AdjustmentAt(x, b) + AdjustmentAt(y, b)
<1>1. PICK e : e = journal
  OBVIOUS
<1>2. PICK h : h = e \o <<x>>
  OBVIOUS
<1>3. e \in Seq(EntryRow)
  BY <1>1 DEF StockTyped
<1>4. OneEntryOn(e, x, h)
  BY <1>2, <1>3, OneEntryMore
<1>5. h \in Seq(EntryRow) /\ h = Append(e, x)
  BY <1>4 DEF OneEntryOn
<1>6. PICK m : m = h \o <<y>>
  OBVIOUS
<1>7. OneEntryOn(h, y, m)
  BY <1>5, <1>6, OneEntryMore
<1>8. m \in Seq(EntryRow) /\ m = Append(h, y)
  BY <1>7 DEF OneEntryOn
<1>9. PICK k \in Nat : k = Len(e) /\ DOMAIN e = 1 .. k
  BY <1>3
<1>10. Len(h) = k + 1 /\ DOMAIN h = 1 .. k + 1 /\ Len(m) = k + 2 /\ DOMAIN m = 1 .. k + 2
  BY <1>4, <1>5, <1>7, <1>8, <1>9 DEF OneEntryOn
<1>11. /\ \A i \in 1 .. k : h[i] = e[i] /\ m[i] = e[i]
       /\ m[k + 1] = x /\ m[k + 2] = y
  BY <1>4, <1>7, <1>9, <1>10 DEF OneEntryOn
<1>12. m = journal'
  <2>1. PICK g : g = e \o <<x, y>>
    OBVIOUS
  <2>2. g \in Seq(EntryRow) /\ Len(g) = k + 2 /\ (\A i \in 1 .. k : g[i] = e[i]) /\ g[k + 1] = x /\ g[k + 2] = y
    BY <1>3, <1>9, <2>1, ConcatProperties
  <2>3. \A i \in 1 .. k + 2 : m[i] = g[i]
    <3>1. \A i \in 1 .. k + 2 : i \in 1 .. k \/ i = k + 1 \/ i = k + 2
      OBVIOUS
    <3> QED
      BY <1>11, <2>2, <3>1
  <2>4. m = g
    BY <1>8, <1>10, <2>2, <2>3
  <2> QED
    BY <1>1, <2>1, <2>4
<1>13. JournalGrows
  <2>1. \A n \in 0 .. k : SubSeq(m, 1, n) = SubSeq(e, 1, n)
    <3>1. ASSUME NEW n \in 0 .. k PROVE n \in 0 .. k + 1
      OBVIOUS
    <3> QED
      BY <1>4, <1>7, <1>9, <1>10, <3>1 DEF OneEntryOn
  <2>2. k <= Len(m) /\ \A i \in 1 .. k : i \in DOMAIN m /\ m[i] = e[i]
    BY <1>10, <1>11
  <2> QED
    BY <1>1, <1>9, <1>12, <2>1, <2>2 DEF JournalGrows
<1>14. ASSUME NEW b
       PROVE  /\ StockOnHand(b) \in Int /\ AdjustedAt(b) \in Int
              /\ StockOnHand(b)' = StockOnHand(b) + QuantityAt(x, b) + QuantityAt(y, b)
              /\ AdjustedAt(b)' = AdjustedAt(b) + AdjustmentAt(x, b) + AdjustmentAt(y, b)
  <2>1. StockOnHand(b) = StockOf(e, b) /\ StockOnHand(b)' = StockOf(m, b)
    BY <1>1, <1>12 DEF StockOnHand
  <2>2. AdjustedAt(b) = AdjustedIn(e, b) /\ AdjustedAt(b)' = AdjustedIn(m, b)
    BY <1>1, <1>12 DEF AdjustedAt, AdjustedIn
  <2>3. StockOf(e, b) \in Int
    BY <1>3, StockIsWhole
  <2>4. OneEntryAdjusts(e, x, h, b)
    BY <1>3, <1>5, AdjustedOneMore
  <2>5. OneEntryAdjusts(h, y, m, b)
    BY <1>5, <1>8, AdjustedOneMore
  <2>6. StockOf(m, b) = StockOf(e, b) + QuantityAt(x, b) + QuantityAt(y, b)
    BY <1>4, <1>7 DEF OneEntryOn
  <2> QED
    BY <2>1, <2>2, <2>3, <2>4, <2>5, <2>6 DEF OneEntryAdjusts
<1> QED
  BY <1>8, <1>12, <1>13, <1>14

\* The sums of what stands.
LEMMA SumsAreWhole ==
    ASSUME StockTyped, NEW b
    PROVE  ReceivedAt(b) \in Int /\ CountedAt(b) \in Int /\ MovedAt(b) \in Int
<1>1. PICK u : u = [n \in DOMAIN receipts |-> IF OrderedAt[receipts[n].order] = b THEN receipts[n].quantity ELSE 0]
  OBVIOUS
<1>2. PICK v : v = [n \in DOMAIN counts |-> IF counts[n].branch = b THEN counts[n].result.variance ELSE 0]
  OBVIOUS
<1>3. PICK w : w = [n \in DOMAIN transfers |-> Shown(b, n)]
  OBVIOUS
<1>4. u \in Seq(Int)
  <2>1. PICK k \in Nat : DOMAIN receipts = 1 .. k
    BY DEF StockTyped
  <2>2. \A n \in 1 .. k : receipts[n] \in ReceiptRow
    BY <2>1 DEF StockTyped
  <2>3. \A n \in 1 .. k : receipts[n].quantity \in Int
    BY <2>2 DEF ReceiptRow
  <2>4. u \in [1 .. k -> Int]
    BY <1>1, <2>1, <2>3
  <2> QED
    BY <2>4, RowsInOrder
<1>5. v \in Seq(Int)
  <2>1. PICK k \in Nat : DOMAIN counts = 1 .. k
    BY DEF StockTyped
  <2>2. \A n \in 1 .. k : counts[n] \in CountRow
    BY <2>1 DEF StockTyped
  <2>3. \A n \in 1 .. k : counts[n].result.variance \in Int
    BY <2>2 DEF CountRow, CountRows
  <2>4. v \in [1 .. k -> Int]
    BY <1>2, <2>1, <2>3
  <2> QED
    BY <2>4, RowsInOrder
<1>6. w \in Seq(Int)
  <2>1. PICK k \in Nat : DOMAIN transfers = 1 .. k
    BY DEF StockTyped
  <2>2. \A n \in 1 .. k : transfers[n] \in TransferRow
    BY <2>1 DEF StockTyped
  <2>3. \A n \in 1 .. k : transfers[n].quantity \in Int
    BY <2>2 DEF TransferRow
  <2>4. \A n \in 1 .. k : Shown(b, n) \in Int
    BY <2>3 DEF Shown
  <2>5. w \in [1 .. k -> Int]
    BY <1>3, <2>1, <2>4
  <2> QED
    BY <2>5, RowsInOrder
<1>7. ReceivedAt(b) = Added(u) /\ CountedAt(b) = Added(v) /\ MovedAt(b) = Added(w)
  BY <1>1, <1>2, <1>3 DEF ReceivedAt, CountedAt, MovedAt
<1> QED
  BY <1>4, <1>5, <1>6, <1>7, AddedIsWhole

\* They stand with their tables.
LEMMA SumsStand ==
    ASSUME StockTyped, NEW b
    PROVE  /\ UNCHANGED receipts => ReceivedAt(b)' = ReceivedAt(b)
           /\ UNCHANGED counts => CountedAt(b)' = CountedAt(b)
           /\ UNCHANGED transfers => MovedAt(b)' = MovedAt(b)
BY DEF ReceivedAt, CountedAt, MovedAt, Shown

\* Where the reviews, the counts and the transfers stand, so does what is said of them.
LEMMA PlacedWhole ==
    ASSUME StockTyped, StockTyped', StockPlaced, StockGrows
    PROVE  /\ UNCHANGED reviews => (\A n \in DOMAIN reviews : StockReviewed(n))'
           /\ UNCHANGED counts => (\A m \in DOMAIN counts : StockCounted(m))'
           /\ UNCHANGED transfers => /\ (\A n \in DOMAIN transfers : transfers[n].after <= Len(journal))'
                                     /\ TransfersHad => TransfersHad'
<1>1. UNCHANGED reviews => (\A n \in DOMAIN reviews : StockReviewed(n))'
  BY PlacedStays
<1>2. UNCHANGED counts => (\A m \in DOMAIN counts : StockCounted(m))'
  BY PlacedStays
<1>3. UNCHANGED transfers => (\A n \in DOMAIN transfers : transfers[n].after <= Len(journal))'
  BY PlacedStays
<1>4. UNCHANGED transfers => (TransfersHad => TransfersHad')
  <2> SUFFICES ASSUME UNCHANGED transfers, TransfersHad PROVE TransfersHad'
    OBVIOUS
  <2>1. ASSUME NEW n \in DOMAIN transfers'
        PROVE  Seen("transfer", n)' => (StockAfter(transfers[n].after, transfers[n].source) >= transfers[n].quantity)'
    <3>1. n \in DOMAIN transfers /\ transfers'[n] = transfers[n]
      OBVIOUS
    <3> QED
      BY <3>1, PlacedStays
  <2> QED
    BY <2>1 DEF TransfersHad
<1> QED
  BY <1>1, <1>2, <1>3, <1>4

\* A purchase order is created.
LEMMA CreatePurchaseOrderKeeps ==
    ASSUME StockInv, NEW o \in PurchaseOrders, CreatePurchaseOrder(o) PROVE StockInv'
<1>1. /\ StockTyped /\ StockPlaced /\ OrdersSettle /\ CountsSettle /\ LedgerAddsUp /\ TransfersHad /\ RestocksApart
      /\ approval[o] = "none" /\ approval' = [approval EXCEPT ![o] = "NOT_REQUESTED"] /\ AtOnce
      /\ UNCHANGED <<receipts, journal, counts, reviews, tasks, transfers, blind>>
  BY DEF StockInv, CreatePurchaseOrder, AtOnce
<1>2. StockTyped'
  BY <1>1 DEF StockTyped
<1>3. ApprovalsStay
  <2>1. \A p \in PurchaseOrders : approval[p] = "APPROVED" => approval'[p] = "APPROVED"
    BY <1>1 DEF StockTyped
  <2> QED
    BY <1>1, <2>1 DEF ApprovalsStay, ApprovedOrUnseen, Seen
<1>4. StockGrows
  BY <1>1, <1>3, StockAside DEF StockGrows
<1>5. StockPlaced' /\ TransfersHad'
  BY <1>1, <1>2, <1>4, PlacedWhole DEF StockPlaced
<1>6. OrdersSettle' /\ CountsSettle' /\ LedgerAddsUp' /\ RestocksApart'
  BY <1>1, <1>3, StockAside
<1> QED
  BY <1>1, <1>2, <1>4, <1>5, <1>6, StockLands

\* An adjustment is posted, in a ledger that adjustments are added up of.
LEMMA CreateStockAdjustmentKeeps ==
    ASSUME StockInv, NEW b \in Branches, NEW delta \in Int, CreateStockAdjustment(b, delta) PROVE StockInv'
<1>1. /\ StockTyped /\ StockPlaced /\ OrdersSettle /\ CountsSettle /\ LedgerAddsUp /\ TransfersHad /\ RestocksApart
      /\ journal' = journal \o <<Entry(b, "ADJUSTMENT", delta)>> /\ AtOnce
      /\ UNCHANGED <<approval, receipts, counts, reviews, tasks, transfers, blind>>
  BY DEF StockInv, CreateStockAdjustment, Posts, AtOnce
<1>2. PICK x \in EntryRow : x = Entry(b, "ADJUSTMENT", delta)
  BY DEF EntryRow, Entry
<1>3. x.branch = b /\ x.type = "ADJUSTMENT" /\ x.quantity = delta
  BY <1>2 DEF Entry
<1>4. /\ JournalGrows /\ journal' \in Seq(EntryRow)
      /\ \A c : /\ StockOnHand(c) \in Int /\ AdjustedAt(c) \in Int
                /\ StockOnHand(c)' = StockOnHand(c) + QuantityAt(x, c)
                /\ AdjustedAt(c)' = AdjustedAt(c) + AdjustmentAt(x, c)
  BY <1>1, <1>2, EntryPosted
<1>5. StockTyped'
  BY <1>1, <1>4 DEF StockTyped
<1>6. StockGrows
  BY <1>1, <1>4, StockAside DEF StockGrows
<1>7. StockPlaced' /\ TransfersHad'
  BY <1>1, <1>5, <1>6, PlacedWhole DEF StockPlaced
<1>8. OrdersSettle' /\ CountsSettle' /\ RestocksApart'
  BY <1>1, <1>6, StockAside DEF StockGrows
<1>9. LedgerAddsUp'
  <2>1. ASSUME NEW c \in Branches
        PROVE  (StockOnHand(c) = ReceivedAt(c) + CountedAt(c) + AdjustedAt(c) + MovedAt(c))'
    <3>1. StockOnHand(c) = ReceivedAt(c) + CountedAt(c) + AdjustedAt(c) + MovedAt(c)
      BY <1>1 DEF LedgerAddsUp
    <3>2. ReceivedAt(c)' = ReceivedAt(c) /\ CountedAt(c)' = CountedAt(c) /\ MovedAt(c)' = MovedAt(c)
      BY <1>1, SumsStand
    <3>3. ReceivedAt(c) \in Int /\ CountedAt(c) \in Int /\ MovedAt(c) \in Int
      BY <1>1, SumsAreWhole
    <3>4. QuantityAt(x, c) = AdjustmentAt(x, c) /\ QuantityAt(x, c) \in Int
      BY <1>2, <1>3 DEF QuantityAt, AdjustmentAt
    <3> QED
      BY <1>4, <3>1, <3>2, <3>3, <3>4
  <2> QED
    BY <2>1 DEF LedgerAddsUp
<1> QED
  BY <1>1, <1>5, <1>6, <1>7, <1>8, <1>9, StockLands

\* A decision on an order that nothing overtook finds it undecided: it cannot undo an approval unseen.
LEMMA StoreApprovalStatusKeeps ==
    ASSUME StockInv, NEW r \in Desks, StoreApprovalStatus(r) PROVE StockInv'
<1>1. PICK d : d = desk[r] /\ StockHands(d) /\ (r \notin overtaken => StockChecks(d))
  BY DEF StockInv
<1>2. /\ StockTyped /\ StockPlaced /\ OrdersSettle /\ CountsSettle /\ LedgerAddsUp /\ TransfersHad /\ RestocksApart
      /\ OneRequestEach /\ approval' = [approval EXCEPT ![d.order] = d.to] /\ d.op = "decide"
      /\ UNCHANGED <<receipts, journal, counts, reviews, tasks, transfers>>
  BY <1>1 DEF StockInv, StoreApprovalStatus, Doing
<1>3. PICK rows : rows = {<<"order", d.order>>} /\ Committed(r, rows)
  BY <1>1 DEF StoreApprovalStatus
<1>4. blind \subseteq blind' /\ (r \in overtaken => <<"order", d.order>> \in blind')
  BY <1>2, <1>3, DeskCommits
<1>5. /\ d.order \in PurchaseOrders /\ d.to \in {"PENDING_APPROVAL", "APPROVED"}
      /\ r \notin overtaken => approval[d.order] # "APPROVED"
  BY <1>1, <1>2 DEF StockHands, StockChecks
<1>6. StockTyped'
  BY <1>2, <1>5 DEF StockTyped
<1>7. ApprovalsStay
  <2>1. ASSUME NEW o \in PurchaseOrders, ApprovedOrUnseen(o) PROVE ApprovedOrUnseen(o)'
    <3>1. CASE o # d.order
      <4>1. approval'[o] = approval[o]
        BY <1>2, <1>5, <2>1, <3>1 DEF StockTyped
      <4> QED
        BY <1>4, <2>1, <4>1 DEF ApprovedOrUnseen, Seen
    <3>2. CASE o = d.order
      <4>1. approval'[o] = d.to
        BY <1>2, <1>5, <3>2 DEF StockTyped
      <4>2. r \notin overtaken => <<"order", o>> \in blind
        BY <1>5, <2>1, <3>2 DEF ApprovedOrUnseen, Seen
      <4>3. <<"order", o>> \in blind'
        BY <1>4, <3>2, <4>2
      <4> QED
        BY <4>3 DEF ApprovedOrUnseen, Seen
    <3> QED
      BY <3>1, <3>2
  <2> QED
    BY <2>1 DEF ApprovalsStay
<1>8. StockGrows
  BY <1>2, <1>4, <1>7, StockAside DEF StockGrows
<1>9. StockPlaced' /\ TransfersHad'
  BY <1>2, <1>6, <1>8, PlacedWhole DEF StockPlaced
<1>10. OrdersSettle' /\ CountsSettle' /\ LedgerAddsUp' /\ RestocksApart'
  BY <1>2, <1>4, <1>7, StockAside
<1> QED
  BY <1>3, <1>6, <1>8, <1>9, <1>10, StockLands

\* A receipt is the first of its order, and adds what it says to the ledger.
LEMMA StoreGoodsReceiptKeeps ==
    ASSUME StockInv, NEW r \in Desks, StoreGoodsReceipt(r) PROVE StockInv'
<1>1. PICK d : d = desk[r] /\ StockHands(d)
  BY DEF StockInv
<1>2. /\ StockTyped /\ StockPlaced /\ OrdersSettle /\ CountsSettle /\ LedgerAddsUp /\ TransfersHad /\ RestocksApart
      /\ OneRequestEach /\ d.op = "receive" /\ ~Received(d.order)
      /\ receipts' = Append(receipts, [order |-> d.order, quantity |-> d.quantity])
      /\ journal' = journal \o <<Entry(OrderedAt[d.order], "PURCHASE_RECEIPT", d.quantity)>>
      /\ UNCHANGED <<approval, counts, reviews, tasks, transfers>>
  BY <1>1 DEF StockInv, StoreGoodsReceipt, Doing, Posts
<1>3. PICK rows : Committed(r, rows)
  BY DEF StoreGoodsReceipt
<1>4. blind \subseteq blind'
  BY <1>2, <1>3, DeskCommits
<1>5. d.order \in PurchaseOrders /\ d.quantity \in Nat /\ ApprovedOrUnseen(d.order)
  BY <1>1, <1>2 DEF StockHands
<1>6. OrderedAt[d.order] \in Branches
  BY <1>5, StockDocumentsAssumption
<1>7. PICK x \in EntryRow : x = Entry(OrderedAt[d.order], "PURCHASE_RECEIPT", d.quantity)
  <2>1. d.quantity \in Int
    BY <1>5
  <2>2. Entry(OrderedAt[d.order], "PURCHASE_RECEIPT", d.quantity) \in EntryRow
    BY <1>6, <2>1 DEF EntryRow, Entry
  <2> QED
    BY <2>2
<1>8. x.branch = OrderedAt[d.order] /\ x.type = "PURCHASE_RECEIPT" /\ x.quantity = d.quantity
  BY <1>7 DEF Entry
<1>9. /\ JournalGrows /\ journal' \in Seq(EntryRow)
      /\ \A c : /\ StockOnHand(c) \in Int /\ AdjustedAt(c) \in Int
                /\ StockOnHand(c)' = StockOnHand(c) + QuantityAt(x, c)
                /\ AdjustedAt(c)' = AdjustedAt(c) + AdjustmentAt(x, c)
  BY <1>2, <1>7, EntryPosted
<1>10. PICK row \in ReceiptRow : row = [order |-> d.order, quantity |-> d.quantity]
  BY <1>5 DEF ReceiptRow
<1>11. row.order = d.order /\ row.quantity = d.quantity
  BY <1>10
<1>12. PICK l : l = receipts
  OBVIOUS
<1>13. PICK m : m = Append(l, row)
  OBVIOUS
<1>14. l \in Seq(ReceiptRow) /\ receipts' = m
  BY <1>2, <1>10, <1>12, <1>13 DEF StockTyped
<1>15. PICK k \in Nat : k = Len(l) /\ DOMAIN l = 1 .. k
  BY <1>14
<1>16. m \in Seq(ReceiptRow) /\ DOMAIN m = 1 .. k + 1 /\ m[k + 1] = row /\ \A n \in 1 .. k : m[n] = l[n]
  BY <1>13, <1>14, <1>15, OneFactMore
<1>17. StockTyped'
  BY <1>2, <1>9, <1>14, <1>16 DEF StockTyped
<1>18. StockGrows
  BY <1>2, <1>4, <1>9, StockAside DEF StockGrows
<1>19. StockPlaced' /\ TransfersHad'
  BY <1>2, <1>17, <1>18, PlacedWhole DEF StockPlaced
<1>20. CountsSettle' /\ RestocksApart'
  BY <1>2, <1>4, StockAside
<1>21. OrdersSettle'
  <2>1. ASSUME NEW n \in 1 .. k PROVE l[n].order # d.order
    BY <1>2, <1>12, <1>15 DEF Received
  <2>2. ASSUME NEW n \in 1 .. k + 1, NEW j \in 1 .. k + 1, m[j].order = m[n].order PROVE j = n
    <3>1. CASE n \in 1 .. k /\ j \in 1 .. k
      BY <1>2, <1>12, <1>15, <1>16, <2>2, <3>1 DEF OrdersSettle
    <3>2. CASE n = k + 1 /\ j \in 1 .. k
      BY <1>11, <1>16, <2>1, <2>2, <3>2
    <3>3. CASE n \in 1 .. k /\ j = k + 1
      BY <1>11, <1>16, <2>1, <2>2, <3>3
    <3> QED
      BY <3>1, <3>2, <3>3
  <2>3. ASSUME NEW n \in 1 .. k + 1 PROVE m[n].order \in PurchaseOrders /\ ApprovedOrUnseen(m[n].order)
    <3>1. CASE n \in 1 .. k
      <4>1. m[n] = l[n] /\ l[n] \in ReceiptRow
        BY <1>14, <1>15, <1>16, <3>1
      <4>2. l[n].order \in PurchaseOrders
        BY <4>1 DEF ReceiptRow
      <4> QED
        BY <1>2, <1>12, <1>15, <3>1, <4>1, <4>2 DEF OrdersSettle
    <3>2. CASE n = k + 1
      BY <1>5, <1>11, <1>16, <3>2
    <3> QED
      BY <3>1, <3>2
  <2>4. ASSUME NEW n \in 1 .. k + 1 PROVE approval'[m[n].order] = "APPROVED" \/ ~Seen("order", m[n].order)'
    BY <1>2, <1>4, <2>3 DEF ApprovedOrUnseen, Seen
  <2> QED
    BY <1>14, <1>16, <2>2, <2>4 DEF OrdersSettle, ApprovedOrUnseen, Seen
<1>22. LedgerAddsUp'
  <2>1. ASSUME NEW c \in Branches
        PROVE  (StockOnHand(c) = ReceivedAt(c) + CountedAt(c) + AdjustedAt(c) + MovedAt(c))'
    <3>1. StockOnHand(c) = ReceivedAt(c) + CountedAt(c) + AdjustedAt(c) + MovedAt(c)
      BY <1>2 DEF LedgerAddsUp
    <3>2. CountedAt(c)' = CountedAt(c) /\ MovedAt(c)' = MovedAt(c)
      BY <1>2, SumsStand
    <3>3. ReceivedAt(c) \in Int /\ CountedAt(c) \in Int /\ MovedAt(c) \in Int
      BY <1>2, SumsAreWhole
    <3>4. ReceivedAt(c)' = ReceivedAt(c) + (IF OrderedAt[row.order] = c THEN row.quantity ELSE 0)
      BY <1>12, <1>13, <1>14, ReceivedOneMore
    <3>5. AdjustmentAt(x, c) = 0 /\ QuantityAt(x, c) = (IF OrderedAt[row.order] = c THEN row.quantity ELSE 0)
      BY <1>8, <1>11 DEF AdjustmentAt, QuantityAt
    <3>6. PICK q \in Int : q = QuantityAt(x, c)
      BY <1>7 DEF QuantityAt, EntryRow
    <3>7. StockOnHand(c)' = StockOnHand(c) + q /\ AdjustedAt(c)' = AdjustedAt(c) /\ ReceivedAt(c)' = ReceivedAt(c) + q
      BY <1>9, <3>4, <3>5, <3>6
    <3> QED
      BY <1>9, <3>1, <3>2, <3>3, <3>7
  <2> QED
    BY <2>1 DEF LedgerAddsUp
<1> QED
  BY <1>3, <1>17, <1>18, <1>19, <1>20, <1>21, <1>22, StockLands

\* A review that is opened has no count.
LEMMA StoreReviewSessionKeeps ==
    ASSUME StockInv, NEW r \in Desks, StoreReviewSession(r) PROVE StockInv'
<1>1. PICK d : d = desk[r] /\ StockHands(d)
  BY DEF StockInv
<1>2. /\ StockTyped /\ StockPlaced /\ OrdersSettle /\ CountsSettle /\ LedgerAddsUp /\ TransfersHad /\ RestocksApart
      /\ OneRequestEach /\ d.op = "review"
      /\ reviews' = Append(reviews, [branch |-> d.branch, expected |-> d.expected,
                                     result |-> Idle, status |-> "OPEN", since |-> d.since])
      /\ UNCHANGED <<approval, receipts, journal, counts, tasks, transfers>>
  BY <1>1 DEF StockInv, StoreReviewSession, Doing
<1>3. PICK rows : Committed(r, rows)
  BY DEF StoreReviewSession
<1>4. blind \subseteq blind'
  BY <1>2, <1>3, DeskCommits
<1>5. /\ d.branch \in Branches /\ d.since \in Nat /\ d.since <= Len(journal)
      /\ d.expected = StockAfter(d.since, d.branch)
  BY <1>1, <1>2 DEF StockHands
<1>6. d.expected \in Int
  <2>1. PICK p : p = SubSeq(journal, 1, d.since)
    OBVIOUS
  <2>2. p \in Seq(EntryRow)
    BY <1>2, <1>5, <2>1, SubSeqProperties DEF StockTyped
  <2> QED
    BY <1>5, <2>1, <2>2, StockIsWhole DEF StockAfter
<1>7. PICK row \in ReviewRow : row = [branch |-> d.branch, expected |-> d.expected,
                                      result |-> Idle, status |-> "OPEN", since |-> d.since]
  BY <1>5, <1>6 DEF ReviewRow
<1>8. row.branch = d.branch /\ row.expected = d.expected /\ row.status = "OPEN" /\ row.since = d.since
  BY <1>7
<1>9. PICK l : l = reviews
  OBVIOUS
<1>10. PICK m : m = Append(l, row)
  OBVIOUS
<1>11. l \in Seq(ReviewRow) /\ reviews' = m
  BY <1>2, <1>7, <1>9, <1>10 DEF StockTyped
<1>12. PICK k \in Nat : k = Len(l) /\ DOMAIN l = 1 .. k
  BY <1>11
<1>13. m \in Seq(ReviewRow) /\ DOMAIN m = 1 .. k + 1 /\ m[k + 1] = row /\ \A n \in 1 .. k : m[n] = l[n]
  BY <1>10, <1>11, <1>12, OneFactMore
<1>14. StockTyped'
  BY <1>2, <1>11, <1>13 DEF StockTyped
<1>15. ReviewsGrow
  BY <1>9, <1>11, <1>12, <1>13 DEF ReviewsGrow
<1>16. StockGrows
  BY <1>2, <1>4, <1>15, StockAside DEF StockGrows
<1>17. OrdersSettle' /\ LedgerAddsUp' /\ RestocksApart'
  BY <1>2, <1>4, StockAside
<1>18. TransfersHad' /\ (\A m1 \in DOMAIN counts : StockCounted(m1))' /\ (\A n \in DOMAIN transfers : transfers[n].after <= Len(journal))'
  BY <1>2, <1>14, <1>16, PlacedWhole
<1>19. ASSUME NEW n \in DOMAIN reviews' PROVE StockReviewed(n)'
  <2>1. CASE n \in 1 .. k
    <3>1. n \in DOMAIN reviews /\ reviews'[n] = reviews[n]
      BY <1>9, <1>11, <1>12, <1>13, <2>1
    <3> QED
      BY <1>2, <1>14, <1>16, <3>1, PlacedStays
  <2>2. CASE n = k + 1
    <3>1. reviews'[n] = row
      BY <1>11, <1>13, <2>2
    <3> QED
      BY <1>2, <1>5, <1>8, <3>1 DEF StockReviewed, StockAfter
  <2> QED
    BY <1>11, <1>13, <2>1, <2>2
<1>20. StockPlaced'
  BY <1>18, <1>19 DEF StockPlaced
<1>21. CountsSettle'
  <2>1. ASSUME NEW n \in DOMAIN reviews'
        PROVE  \/ CountsOf(n)' = {} /\ reviews'[n].status # "APPROVED"
               \/ Cardinality(CountsOf(n))' = 1 /\ reviews'[n].status = "APPROVED"
               \/ ~Seen("review", n)'
    <3>1. CountsOf(n)' = CountsOf(n)
      BY <1>2 DEF CountsOf
    <3>2. CASE n \in 1 .. k
      <4>1. n \in DOMAIN reviews /\ reviews'[n] = reviews[n]
        BY <1>9, <1>11, <1>12, <1>13, <3>2
      <4> QED
        BY <1>2, <1>4, <3>1, <4>1 DEF CountsSettle, Seen
    <3>3. CASE n = k + 1
      <4>1. reviews'[n].status = "OPEN"
        BY <1>8, <1>11, <1>13, <3>3
      <4>2. ASSUME NEW j \in CountsOf(n) PROVE FALSE
        <5>1. j \in DOMAIN counts /\ counts[j].review = n /\ n # 0
          BY <3>3, <4>2 DEF CountsOf
        <5>2. n \in DOMAIN reviews
          BY <1>2, <5>1 DEF StockPlaced, StockCounted
        <5> QED
          BY <1>9, <1>12, <3>3, <5>2
      <4> QED
        BY <3>1, <4>1, <4>2
    <3> QED
      BY <1>11, <1>13, <3>2, <3>3
  <2> QED
    BY <2>1 DEF CountsSettle
<1> QED
  BY <1>3, <1>14, <1>16, <1>17, <1>18, <1>20, <1>21, StockLands

\* A review that is counted or canceled, where its row is the only one that changes.
LEMMA ReviewChanges ==
    ASSUME StockInv, NEW r \in Desks, NEW rows, Committed(r, rows), NEW n \in DOMAIN reviews, NEW row \in ReviewRow,
           reviews' = [reviews EXCEPT ![n] = row],
           UNCHANGED <<approval, receipts, journal, counts, tasks, transfers>>,
           row.branch = reviews[n].branch, row.expected = reviews[n].expected, row.since = reviews[n].since,
           row.status # "APPROVED", row.status = "COUNTED" => ResultOf(row.result, row.expected),
           <<"review", n>> \in blind' \/ reviews[n].status # "APPROVED"
    PROVE  StockInv'
<1>1. /\ StockTyped /\ StockPlaced /\ OrdersSettle /\ CountsSettle /\ LedgerAddsUp /\ TransfersHad /\ RestocksApart
      /\ OneRequestEach
  BY DEF StockInv
<1>2. blind \subseteq blind'
  BY <1>1, DeskCommits
<1>3. PICK l \in Seq(ReviewRow) : l = reviews
  BY <1>1 DEF StockTyped
<1>4. PICK k \in Nat : k = Len(l) /\ DOMAIN l = 1 .. k
  BY <1>3
<1>5. DOMAIN reviews = 1 .. k /\ DOMAIN reviews' = 1 .. k
  BY <1>3, <1>4
<1>6. reviews'[n] = row /\ \A j \in 1 .. k : j # n => reviews'[j] = reviews[j]
  BY <1>3, <1>4, <1>5
<1>7. StockTyped'
  <2>1. reviews' \in [1 .. k -> ReviewRow]
    BY <1>3, <1>4
  <2>2. reviews' \in Seq(ReviewRow)
    BY <2>1, RowsInOrder
  <2> QED
    BY <1>1, <2>2 DEF StockTyped
<1>8. ReviewsGrow
  BY <1>5, <1>6 DEF ReviewsGrow
<1>9. StockGrows
  BY <1>1, <1>2, <1>8, StockAside DEF StockGrows
<1>10. OrdersSettle' /\ LedgerAddsUp' /\ RestocksApart'
  BY <1>1, <1>2, StockAside
<1>11. TransfersHad' /\ (\A m \in DOMAIN counts : StockCounted(m))' /\ (\A j \in DOMAIN transfers : transfers[j].after <= Len(journal))'
  BY <1>1, <1>7, <1>9, PlacedWhole
<1>12. ASSUME NEW j \in DOMAIN reviews' PROVE StockReviewed(j)'
  <2>1. (reviews[j].since <= Len(journal) /\ reviews[j].expected = StockAfter(reviews[j].since, reviews[j].branch))'
    BY <1>1, <1>5, <1>7, <1>9, <1>12, PlacedStays
  <2>2. CASE j = n
    BY <1>6, <2>1, <2>2 DEF StockReviewed, ResultOf
  <2>3. CASE j # n
    BY <1>1, <1>5, <1>6, <1>7, <1>9, <1>12, <2>3, PlacedStays
  <2> QED
    BY <2>2, <2>3
<1>13. StockPlaced'
  BY <1>11, <1>12 DEF StockPlaced
<1>14. CountsSettle'
  <2>1. ASSUME NEW j \in DOMAIN reviews'
        PROVE  \/ CountsOf(j)' = {} /\ reviews'[j].status # "APPROVED"
               \/ Cardinality(CountsOf(j))' = 1 /\ reviews'[j].status = "APPROVED"
               \/ ~Seen("review", j)'
    <3>1. CountsOf(j)' = CountsOf(j) /\ j \in DOMAIN reviews
      BY <1>5 DEF CountsOf
    <3>2. CASE j = n
      BY <1>1, <1>2, <1>6, <3>1, <3>2 DEF CountsSettle, Seen
    <3>3. CASE j # n
      BY <1>1, <1>2, <1>5, <1>6, <3>1, <3>3 DEF CountsSettle, Seen
    <3> QED
      BY <3>2, <3>3
  <2> QED
    BY <2>1 DEF CountsSettle
<1> QED
  BY <1>7, <1>9, <1>10, <1>11, <1>13, <1>14, StockLands

\* A review is counted.
LEMMA StoreReviewCountKeeps ==
    ASSUME StockInv, NEW r \in Desks, StoreReviewCount(r) PROVE StockInv'
<1>1. PICK d : d = desk[r] /\ StockHands(d) /\ (r \notin overtaken => StockChecks(d))
  BY DEF StockInv
<1>2. /\ StockTyped /\ OneRequestEach /\ d.op = "record"
      /\ reviews' = [reviews EXCEPT ![d.review].result = d.result, ![d.review].status = "COUNTED"]
      /\ UNCHANGED <<approval, receipts, journal, counts, tasks, transfers>>
  BY <1>1 DEF StockInv, StoreReviewCount, Doing
<1>3. PICK rows : rows = {<<"review", d.review>>} /\ Committed(r, rows)
  BY <1>1 DEF StoreReviewCount
<1>4. d.review \in DOMAIN reviews /\ ResultOf(d.result, reviews[d.review].expected)
  BY <1>1, <1>2 DEF StockHands
<1>5. <<"review", d.review>> \in blind' \/ reviews[d.review].status = "OPEN"
  BY <1>1, <1>2, <1>3, DeskCommits DEF StockChecks
<1>6. PICK old \in ReviewRow : old = reviews[d.review]
  BY <1>2, <1>4 DEF StockTyped
<1>7. PICK row : row = [old EXCEPT !.result = d.result, !.status = "COUNTED"]
  OBVIOUS
<1>8. /\ row.branch = old.branch /\ row.expected = old.expected /\ row.since = old.since
      /\ row.status = "COUNTED" /\ row.result = d.result
  BY <1>7 DEF ReviewRow
<1>9. row \in ReviewRow
  <2>1. d.result \in CountRows
    BY <1>4 DEF ResultOf
  <2> QED
    BY <1>7, <2>1 DEF ReviewRow
<1>10. reviews' = [reviews EXCEPT ![d.review] = row]
  BY <1>2, <1>4, <1>6, <1>7
<1>11. row.status = "COUNTED" => ResultOf(row.result, row.expected)
  BY <1>4, <1>6, <1>8
<1>12. row.status # "APPROVED" /\ (<<"review", d.review>> \in blind' \/ reviews[d.review].status # "APPROVED")
  BY <1>5, <1>8
<1> QED
  BY <1>2, <1>3, <1>4, <1>6, <1>8, <1>9, <1>10, <1>11, <1>12, ReviewChanges

\* Or canceled.
LEMMA StoreReviewCancelKeeps ==
    ASSUME StockInv, NEW r \in Desks, StoreReviewCancel(r) PROVE StockInv'
<1>1. PICK d : d = desk[r] /\ StockHands(d) /\ (r \notin overtaken => StockChecks(d))
  BY DEF StockInv
<1>2. /\ StockTyped /\ OneRequestEach /\ d.op = "drop"
      /\ reviews' = [reviews EXCEPT ![d.review].status = "CANCELED"]
      /\ UNCHANGED <<approval, receipts, journal, counts, tasks, transfers>>
  BY <1>1 DEF StockInv, StoreReviewCancel, Doing
<1>3. PICK rows : rows = {<<"review", d.review>>} /\ Committed(r, rows)
  BY <1>1 DEF StoreReviewCancel
<1>4. d.review \in DOMAIN reviews
  BY <1>1, <1>2 DEF StockHands
<1>5. <<"review", d.review>> \in blind' \/ reviews[d.review].status # "APPROVED"
  BY <1>1, <1>2, <1>3, DeskCommits DEF StockChecks
<1>6. PICK old \in ReviewRow : old = reviews[d.review]
  BY <1>2, <1>4 DEF StockTyped
<1>7. PICK row : row = [old EXCEPT !.status = "CANCELED"]
  OBVIOUS
<1>8. row.branch = old.branch /\ row.expected = old.expected /\ row.since = old.since /\ row.status = "CANCELED"
  BY <1>7 DEF ReviewRow
<1>9. row \in ReviewRow
  BY <1>7 DEF ReviewRow
<1>10. reviews' = [reviews EXCEPT ![d.review] = row]
  BY <1>2, <1>4, <1>6, <1>7
<1>11. row.status # "APPROVED" /\ row.status # "COUNTED"
  BY <1>8
<1> QED
  BY <1>2, <1>3, <1>4, <1>5, <1>6, <1>8, <1>9, <1>10, <1>11, ReviewChanges

\* A transfer that nothing overtook takes what its branch has.
LEMMA StoreTransferKeeps ==
    ASSUME StockInv, NEW r \in Desks, StoreTransfer(r) PROVE StockInv'
<1>1. PICK d : d = desk[r] /\ StockHands(d) /\ (r \notin overtaken => StockChecks(d))
  BY DEF StockInv
<1>2. /\ StockTyped /\ StockPlaced /\ OrdersSettle /\ CountsSettle /\ LedgerAddsUp /\ TransfersHad /\ RestocksApart
      /\ OneRequestEach /\ d.op = "transfer"
      /\ transfers' = Append(transfers, [source |-> d.source, destination |-> d.destination,
                                         quantity |-> d.quantity, after |-> Len(journal)])
      /\ journal' = journal \o <<Entry(d.source, "TRANSFER_OUT", -d.quantity), Entry(d.destination, "TRANSFER_IN", d.quantity)>>
      /\ UNCHANGED <<approval, receipts, counts, reviews, tasks>>
  BY <1>1 DEF StockInv, StoreTransfer, Doing, Posts
<1>3. PICK rows : rows = {<<"transfer", Len(transfers) + 1>>} /\ Committed(r, rows)
  BY DEF StoreTransfer
<1>4. blind \subseteq blind' /\ (r \in overtaken => <<"transfer", Len(transfers) + 1>> \in blind')
  BY <1>2, <1>3, DeskCommits
<1>5. /\ d.source \in Branches /\ d.destination \in Branches /\ d.source # d.destination /\ d.quantity \in Nat
      /\ r \notin overtaken => d.quantity <= StockOnHand(d.source)
  BY <1>1, <1>2 DEF StockHands, StockChecks
<1>6. Entry(d.source, "TRANSFER_OUT", -d.quantity) \in EntryRow /\ Entry(d.destination, "TRANSFER_IN", d.quantity) \in EntryRow
  <2>1. d.quantity \in Int /\ -d.quantity \in Int
    BY <1>5
  <2> QED
    BY <1>5, <2>1 DEF EntryRow, Entry
<1>7. PICK x \in EntryRow : x = Entry(d.source, "TRANSFER_OUT", -d.quantity)
  BY <1>6
<1>8. PICK y \in EntryRow : y = Entry(d.destination, "TRANSFER_IN", d.quantity)
  BY <1>6
<1>9. journal' = journal \o <<x, y>>
  BY <1>2, <1>7, <1>8
<1>10. /\ JournalGrows /\ journal' \in Seq(EntryRow)
       /\ \A c : /\ StockOnHand(c) \in Int /\ AdjustedAt(c) \in Int
                 /\ StockOnHand(c)' = StockOnHand(c) + QuantityAt(x, c) + QuantityAt(y, c)
                 /\ AdjustedAt(c)' = AdjustedAt(c) + AdjustmentAt(x, c) + AdjustmentAt(y, c)
  BY <1>2, <1>7, <1>8, <1>9, TwoPosted
<1>11. Len(journal) \in Nat
  BY <1>2 DEF StockTyped
<1>12. PICK row \in TransferRow : row = [source |-> d.source, destination |-> d.destination,
                                         quantity |-> d.quantity, after |-> Len(journal)]
  BY <1>5, <1>11 DEF TransferRow
<1>13. row.source = d.source /\ row.destination = d.destination /\ row.quantity = d.quantity /\ row.after = Len(journal)
  BY <1>12
<1>14. PICK l : l = transfers
  OBVIOUS
<1>15. PICK m : m = Append(l, row)
  OBVIOUS
<1>16. l \in Seq(TransferRow) /\ transfers' = m
  BY <1>2, <1>12, <1>14, <1>15 DEF StockTyped
<1>17. PICK k \in Nat : k = Len(l) /\ DOMAIN l = 1 .. k
  BY <1>16
<1>18. m \in Seq(TransferRow) /\ DOMAIN m = 1 .. k + 1 /\ m[k + 1] = row /\ \A n \in 1 .. k : m[n] = l[n]
  BY <1>15, <1>16, <1>17, OneFactMore
<1>19. StockTyped'
  BY <1>2, <1>10, <1>16, <1>18 DEF StockTyped
<1>20. StockGrows
  BY <1>2, <1>4, <1>10, StockAside DEF StockGrows
<1>21. OrdersSettle' /\ CountsSettle' /\ RestocksApart'
  BY <1>2, <1>4, <1>20, StockAside DEF StockGrows
<1>22. (\A n \in DOMAIN reviews : StockReviewed(n))' /\ (\A j \in DOMAIN counts : StockCounted(j))'
  BY <1>2, <1>19, <1>20, PlacedWhole
<1>23. ASSUME NEW n \in DOMAIN transfers'
       PROVE  /\ (transfers[n].after <= Len(journal))'
              /\ Seen("transfer", n)' => (StockAfter(transfers[n].after, transfers[n].source) >= transfers[n].quantity)'
  <2>1. CASE n \in 1 .. k
    <3>1. n \in DOMAIN transfers /\ transfers'[n] = transfers[n]
      BY <1>14, <1>16, <1>17, <1>18, <2>1
    <3> QED
      BY <1>2, <1>19, <1>20, <3>1, PlacedStays
  <2>2. CASE n = k + 1
    <3>1. transfers'[n] = row
      BY <1>16, <1>18, <2>2
    <3>2. PICK h \in Nat : h = Len(journal)
      BY <1>11
    <3>3. h <= Len(journal') /\ SubSeq(journal', 1, h) = SubSeq(journal, 1, h)
      <4>1. h \in 0 .. h
        BY <3>2
      <4> QED
        BY <1>10, <3>2, <4>1 DEF JournalGrows
    <3>4. SubSeq(journal, 1, h) = journal
      <4>1. PICK e \in Seq(EntryRow) : e = journal
        BY <1>2 DEF StockTyped
      <4>2. PICK p : p = SubSeq(e, 1, h)
        OBVIOUS
      <4>3. p \in Seq(EntryRow) /\ Len(p) = h /\ \A i \in 1 .. h : p[i] = e[i]
        BY <3>2, <4>1, <4>2, SubSeqProperties
      <4>4. p = e
        BY <3>2, <4>1, <4>3
      <4> QED
        BY <4>1, <4>2, <4>4
    <3>5. Seen("transfer", n)' => d.quantity <= StockOf(journal, d.source)
      BY <1>4, <1>5, <1>14, <1>17, <2>2 DEF Seen, StockOnHand
    <3>6. StockOf(journal, d.source) \in Int
      BY <1>10 DEF StockOnHand
    <3>7. Seen("transfer", n)' => StockOf(SubSeq(journal', 1, h), d.source) >= d.quantity
      BY <1>5, <3>3, <3>4, <3>5, <3>6
    <3> QED
      BY <1>13, <3>1, <3>2, <3>3, <3>7 DEF StockAfter
  <2> QED
    BY <1>16, <1>18, <2>1, <2>2
<1>24. StockPlaced' /\ TransfersHad'
  BY <1>22, <1>23 DEF StockPlaced, TransfersHad
<1>25. LedgerAddsUp'
  <2>1. ASSUME NEW c \in Branches
        PROVE  (StockOnHand(c) = ReceivedAt(c) + CountedAt(c) + AdjustedAt(c) + MovedAt(c))'
    <3>1. StockOnHand(c) = ReceivedAt(c) + CountedAt(c) + AdjustedAt(c) + MovedAt(c)
      BY <1>2 DEF LedgerAddsUp
    <3>2. CountedAt(c)' = CountedAt(c) /\ ReceivedAt(c)' = ReceivedAt(c)
      BY <1>2, SumsStand
    <3>3. ReceivedAt(c) \in Int /\ CountedAt(c) \in Int /\ MovedAt(c) \in Int
      BY <1>2, SumsAreWhole
    <3>4. MovedAt(c)' = MovedAt(c) + (IF row.source = c THEN -row.quantity ELSE IF row.destination = c THEN row.quantity ELSE 0)
      BY <1>14, <1>15, <1>16, MovedOneMore
    <3>5. AdjustmentAt(x, c) = 0 /\ AdjustmentAt(y, c) = 0
      BY <1>7, <1>8 DEF AdjustmentAt, Entry
    <3>6. PICK p \in Int : p = (IF d.source = c THEN -d.quantity ELSE IF d.destination = c THEN d.quantity ELSE 0)
      BY <1>5
    <3>7. QuantityAt(x, c) + QuantityAt(y, c) = p /\ QuantityAt(x, c) \in Int /\ QuantityAt(y, c) \in Int
      BY <1>5, <1>7, <1>8, <3>6 DEF QuantityAt, Entry
    <3>8. StockOnHand(c)' = StockOnHand(c) + p /\ AdjustedAt(c)' = AdjustedAt(c)
      BY <1>10, <3>5, <3>7
    <3>9. MovedAt(c)' = MovedAt(c) + p
      BY <1>13, <3>4, <3>6
    <3> QED
      BY <1>10, <3>1, <3>2, <3>3, <3>8, <3>9
  <2> QED
    BY <2>1 DEF LedgerAddsUp
<1> QED
  BY <1>3, <1>19, <1>20, <1>21, <1>24, <1>25, StockLands

\* A count posts its variance, and the only count of a review that nothing overtook settles it.
LEMMA StoreStockCountKeeps ==
    ASSUME StockInv, NEW r \in Desks, StoreStockCount(r) PROVE StockInv'
<1>1. PICK d : d = desk[r] /\ StockHands(d) /\ (r \notin overtaken => StockChecks(d))
  BY DEF StockInv
<1>2. /\ StockTyped /\ StockPlaced /\ OrdersSettle /\ CountsSettle /\ LedgerAddsUp /\ TransfersHad /\ RestocksApart
      /\ OneRequestEach /\ d.op = "count"
      /\ counts' = Append(counts, [branch |-> d.branch, result |-> d.result, review |-> d.review, after |-> Len(journal)])
      /\ journal' = journal \o (IF d.result.variance = 0 THEN <<>> ELSE <<Entry(d.branch, "COUNT_VARIANCE", d.result.variance)>>)
      /\ reviews' = IF d.review = 0 THEN reviews ELSE [reviews EXCEPT ![d.review].status = "APPROVED"]
      /\ UNCHANGED <<approval, receipts, tasks, transfers>>
  BY <1>1 DEF StockInv, StoreStockCount, Doing, Posts
<1>3. PICK rows : rows = {<<"count", Len(counts) + 1>>} \cup {<<"review", n>> : n \in {d.review} \ {0}} /\ Committed(r, rows)
  BY <1>1 DEF StoreStockCount
<1>4. blind \subseteq blind' /\ (r \in overtaken /\ d.review # 0 => <<"review", d.review>> \in blind')
  <2>1. blind \subseteq blind' /\ (r \in overtaken => rows \subseteq blind')
    BY <1>2, <1>3, DeskCommits
  <2>2. d.review # 0 => <<"review", d.review>> \in rows
    BY <1>3
  <2> QED
    BY <2>1, <2>2
<1>5. /\ d.branch \in Branches /\ d.result \in CountRows /\ d.review \in Nat
      /\ d.review # 0 => /\ d.review \in DOMAIN reviews /\ d.branch = reviews[d.review].branch
                         /\ ResultOf(d.result, reviews[d.review].expected)
      /\ r \notin overtaken /\ d.review # 0 => reviews[d.review].status = "COUNTED"
  BY <1>1, <1>2 DEF StockHands, StockChecks
<1>6. PICK v \in Int : v = d.result.variance
  BY <1>5 DEF CountRows
<1>7. PICK h \in Nat : h = Len(journal)
  BY <1>2 DEF StockTyped
<1>8. /\ JournalGrows /\ journal' \in Seq(EntryRow) /\ h <= Len(journal')
      /\ v # 0 => h + 1 <= Len(journal') /\ journal'[h + 1] = Entry(d.branch, "COUNT_VARIANCE", v)
      /\ \A c : /\ StockOnHand(c) \in Int /\ AdjustedAt(c) \in Int /\ AdjustedAt(c)' = AdjustedAt(c)
                /\ StockOnHand(c)' = StockOnHand(c) + (IF d.branch = c THEN v ELSE 0)
  <2>1. CASE v = 0
    <3>1. journal \in Seq(EntryRow)
      BY <1>2 DEF StockTyped
    <3>2. journal' = journal
      BY <1>2, <1>6, <2>1, <3>1
    <3>3. JournalGrows
      BY <1>2, <1>4, <3>2, StockAside
    <3>4. \A c : StockOnHand(c)' = StockOnHand(c) /\ AdjustedAt(c)' = AdjustedAt(c)
      BY <3>2 DEF StockOnHand, AdjustedAt
    <3>5. ASSUME NEW c PROVE StockOnHand(c) \in Int /\ AdjustedAt(c) \in Int
      <4>1. PICK e : e = journal
        OBVIOUS
      <4>2. e \in Seq(EntryRow)
        BY <3>1, <4>1
      <4>3. StockOf(e, c) \in Int
        BY <4>2, StockIsWhole
      <4>4. AdjustedIn(e, c) \in Int
        <5>1. PICK x \in EntryRow : x = Entry(d.branch, "COUNT_VARIANCE", v)
          BY <1>5 DEF EntryRow, Entry
        <5>2. PICK m : m = Append(e, x)
          OBVIOUS
        <5>3. OneEntryAdjusts(e, x, m, c)
          BY <4>2, <5>2, AdjustedOneMore
        <5> QED
          BY <5>3 DEF OneEntryAdjusts
      <4> QED
        BY <4>1, <4>3, <4>4 DEF StockOnHand, AdjustedAt, AdjustedIn
    <3> QED
      BY <1>7, <2>1, <3>1, <3>2, <3>3, <3>4, <3>5
  <2>2. CASE v # 0
    <3>1. PICK x \in EntryRow : x = Entry(d.branch, "COUNT_VARIANCE", v)
      BY <1>5 DEF EntryRow, Entry
    <3>2. journal' = journal \o <<x>>
      BY <1>2, <1>6, <2>2, <3>1
    <3>3. /\ JournalGrows /\ journal' \in Seq(EntryRow)
          /\ Len(journal') = Len(journal) + 1 /\ journal'[Len(journal) + 1] = x
          /\ \A c : /\ StockOnHand(c) \in Int /\ AdjustedAt(c) \in Int
                    /\ StockOnHand(c)' = StockOnHand(c) + QuantityAt(x, c)
                    /\ AdjustedAt(c)' = AdjustedAt(c) + AdjustmentAt(x, c)
      BY <1>2, <3>1, <3>2, EntryPosted
    <3>4. \A c : AdjustmentAt(x, c) = 0 /\ QuantityAt(x, c) = (IF d.branch = c THEN v ELSE 0)
      BY <3>1 DEF AdjustmentAt, QuantityAt, Entry
    <3>5. ASSUME NEW c
          PROVE  /\ StockOnHand(c) \in Int /\ AdjustedAt(c) \in Int /\ AdjustedAt(c)' = AdjustedAt(c)
                 /\ StockOnHand(c)' = StockOnHand(c) + (IF d.branch = c THEN v ELSE 0)
      BY <3>3, <3>4
    <3> QED
      BY <1>7, <3>1, <3>3, <3>5
  <2> QED
    BY <2>1, <2>2
<1>9. PICK row \in CountRow : row = [branch |-> d.branch, result |-> d.result, review |-> d.review, after |-> h]
  BY <1>5 DEF CountRow
<1>10. row.branch = d.branch /\ row.result = d.result /\ row.review = d.review /\ row.after = h
  BY <1>9
<1>11. PICK l : l = counts
  OBVIOUS
<1>12. PICK m : m = Append(l, row)
  OBVIOUS
<1>13. l \in Seq(CountRow) /\ counts' = m
  BY <1>2, <1>7, <1>9, <1>11, <1>12 DEF StockTyped
<1>14. PICK k \in Nat : k = Len(l) /\ DOMAIN l = 1 .. k
  BY <1>13
<1>15. m \in Seq(CountRow) /\ DOMAIN m = 1 .. k + 1 /\ m[k + 1] = row /\ \A n \in 1 .. k : m[n] = l[n]
  BY <1>12, <1>13, <1>14, OneFactMore
<1>16. PICK t \in Nat : DOMAIN reviews = 1 .. t
  <2>1. reviews \in Seq(ReviewRow)
    BY <1>2 DEF StockTyped
  <2>2. DOMAIN reviews = 1 .. Len(reviews) /\ Len(reviews) \in Nat
    BY <2>1
  <2> QED
    BY <2>2
<1>17. \A n \in 1 .. t : reviews[n] \in ReviewRow
  BY <1>2, <1>16 DEF StockTyped
<1>18. /\ DOMAIN reviews' = 1 .. t
       /\ \A n \in 1 .. t : n # d.review => reviews'[n] = reviews[n]
       /\ \A n \in 1 .. t : n = d.review => reviews'[n] = [reviews[n] EXCEPT !.status = "APPROVED"]
       /\ d.review = 0 \/ d.review \in 1 .. t
       /\ reviews' \in Seq(ReviewRow)
  <2>1. CASE d.review = 0
    BY <1>2, <1>16, <2>1 DEF StockTyped
  <2>2. CASE d.review # 0
    <3>1. reviews' = [reviews EXCEPT ![d.review].status = "APPROVED"] /\ d.review \in 1 .. t
      BY <1>2, <1>5, <1>16, <2>2
    <3>2. PICK q : q = reviews
      OBVIOUS
    <3>3. q = [n \in 1 .. t |-> q[n]]
      <4>1. q \in Seq(ReviewRow)
        BY <1>2, <3>2 DEF StockTyped
      <4> QED
        BY <1>16, <3>2, <4>1
    <3>4. /\ DOMAIN reviews' = 1 .. t /\ \A n \in 1 .. t : n # d.review => reviews'[n] = reviews[n]
          /\ \A n \in 1 .. t : n = d.review => reviews'[n] = [reviews[n] EXCEPT !.status = "APPROVED"]
      BY <1>16, <3>1, <3>2, <3>3
    <3>5. ASSUME NEW n \in 1 .. t PROVE reviews'[n] \in ReviewRow
      <4>1. PICK old \in ReviewRow : old = reviews[n]
        BY <1>17
      <4>2. [old EXCEPT !.status = "APPROVED"] \in ReviewRow
        BY DEF ReviewRow
      <4> QED
        BY <3>4, <4>1, <4>2
    <3>6. PICK p : p = reviews'
      OBVIOUS
    <3>7. p \in [1 .. t -> ReviewRow]
      BY <3>1, <3>2, <3>3, <3>4, <3>5, <3>6
    <3>8. p \in Seq(ReviewRow)
      BY <3>7, RowsInOrder
    <3> QED
      BY <3>1, <3>4, <3>6, <3>8
  <2> QED
    BY <2>1, <2>2
<1>19. StockTyped'
  BY <1>2, <1>8, <1>13, <1>15, <1>18 DEF StockTyped
<1>20. \A n \in 1 .. t : /\ reviews'[n].branch = reviews[n].branch /\ reviews'[n].expected = reviews[n].expected
                         /\ reviews'[n].since = reviews[n].since
                         /\ n = d.review => reviews'[n].status = "APPROVED"
  BY <1>17, <1>18 DEF ReviewRow
<1>21. ReviewsGrow
  BY <1>16, <1>18, <1>20 DEF ReviewsGrow
<1>22. StockGrows
  BY <1>2, <1>4, <1>8, <1>21, StockAside DEF StockGrows
<1>23. OrdersSettle' /\ RestocksApart'
  BY <1>2, <1>4, <1>22, StockAside DEF StockGrows
<1>24. TransfersHad' /\ (\A n \in DOMAIN transfers : transfers[n].after <= Len(journal))'
  BY <1>2, <1>19, <1>22, PlacedWhole
<1>25. ASSUME NEW n \in DOMAIN reviews' PROVE StockReviewed(n)'
  <2>1. n \in DOMAIN reviews /\ n \in 1 .. t
    BY <1>16, <1>18
  <2>2. (reviews[n].since <= Len(journal) /\ reviews[n].expected = StockAfter(reviews[n].since, reviews[n].branch))'
    BY <1>2, <1>19, <1>22, <2>1, PlacedStays
  <2>3. CASE n = d.review
    BY <1>20, <2>1, <2>2, <2>3 DEF StockReviewed
  <2>4. CASE n # d.review
    BY <1>2, <1>18, <1>19, <1>22, <2>1, <2>4, PlacedStays
  <2> QED
    BY <2>3, <2>4
<1>26. ASSUME NEW j \in DOMAIN counts' PROVE StockCounted(j)'
  <2>1. CASE j \in 1 .. k
    <3>1. j \in DOMAIN counts /\ counts'[j] = counts[j]
      BY <1>11, <1>13, <1>14, <1>15, <2>1
    <3> QED
      BY <1>2, <1>19, <1>22, <3>1, PlacedStays
  <2>2. CASE j = k + 1
    <3>1. counts'[j] = row
      BY <1>13, <1>15, <2>2
    <3>2. ASSUME d.review # 0
          PROVE  /\ d.review \in DOMAIN reviews' /\ d.branch = reviews'[d.review].branch
                 /\ ResultOf(d.result, reviews'[d.review].expected) /\ reviews'[d.review].since <= h
      <4>1. d.review \in 1 .. t /\ d.review \in DOMAIN reviews
        BY <1>16, <1>18, <3>2
      <4>2. reviews[d.review].since <= h
        BY <1>2, <1>7, <4>1 DEF StockPlaced, StockReviewed
      <4> QED
        BY <1>5, <1>18, <1>20, <3>2, <4>1, <4>2
    <3> QED
      BY <1>6, <1>8, <1>10, <3>1, <3>2 DEF StockCounted, Entry, ResultOf
  <2> QED
    BY <1>13, <1>15, <2>1, <2>2
<1>27. StockPlaced'
  BY <1>24, <1>25, <1>26 DEF StockPlaced
<1>28. CountsSettle'
  <2>1. ASSUME NEW n \in DOMAIN reviews'
        PROVE  \/ CountsOf(n)' = {} /\ reviews'[n].status # "APPROVED"
               \/ Cardinality(CountsOf(n))' = 1 /\ reviews'[n].status = "APPROVED"
               \/ ~Seen("review", n)'
    <3>1. n \in 1 .. t /\ n \in DOMAIN reviews
      BY <1>16, <1>18
    <3>2. CountsOf(n)' = CountsOf(n) \cup (IF n = d.review THEN {k + 1} ELSE {})
      <4>1. \A j : j \in CountsOf(n) <=> j \in 1 .. k /\ l[j].review = n
        BY <1>11, <1>14 DEF CountsOf
      <4>2. \A j : j \in CountsOf(n)' <=> j \in 1 .. k + 1 /\ m[j].review = n
        BY <1>13, <1>15 DEF CountsOf
      <4>3. \A j : j \in 1 .. k + 1 <=> j \in 1 .. k \/ j = k + 1
        OBVIOUS
      <4>4. k + 1 \notin 1 .. k
        OBVIOUS
      <4> QED
        BY <1>10, <1>15, <4>1, <4>2, <4>3, <4>4
    <3>3. CASE n # d.review
      BY <1>2, <1>4, <1>18, <3>1, <3>2, <3>3 DEF CountsSettle, Seen
    <3>4. CASE n = d.review
      <4>1. d.review # 0
        BY <3>1, <3>4
      <4>2. CASE r \in overtaken
        BY <1>4, <3>4, <4>1, <4>2 DEF Seen
      <4>3. CASE r \notin overtaken
        <5>1. reviews[n].status = "COUNTED"
          BY <1>5, <3>4, <4>1, <4>3
        <5>2. CountsOf(n) = {} \/ ~Seen("review", n)
          BY <1>2, <3>1, <5>1 DEF CountsSettle
        <5>3. CASE CountsOf(n) = {}
          <6>1. CountsOf(n)' = {k + 1}
            BY <3>2, <3>4, <5>3
          <6>2. Cardinality({k + 1}) = 1
            BY FS_Singleton
          <6>3. reviews'[n].status = "APPROVED"
            BY <1>20, <3>1, <3>4
          <6> QED
            BY <6>1, <6>2, <6>3
        <5>4. CASE ~Seen("review", n)
          BY <1>4, <5>4 DEF Seen
        <5> QED
          BY <5>2, <5>3, <5>4
      <4> QED
        BY <4>2, <4>3
    <3> QED
      BY <3>3, <3>4
  <2> QED
    BY <2>1 DEF CountsSettle
<1>29. LedgerAddsUp'
  <2>1. ASSUME NEW c \in Branches
        PROVE  (StockOnHand(c) = ReceivedAt(c) + CountedAt(c) + AdjustedAt(c) + MovedAt(c))'
    <3>1. StockOnHand(c) = ReceivedAt(c) + CountedAt(c) + AdjustedAt(c) + MovedAt(c)
      BY <1>2 DEF LedgerAddsUp
    <3>2. ReceivedAt(c)' = ReceivedAt(c) /\ MovedAt(c)' = MovedAt(c)
      BY <1>2, SumsStand
    <3>3. ReceivedAt(c) \in Int /\ CountedAt(c) \in Int /\ MovedAt(c) \in Int
      BY <1>2, SumsAreWhole
    <3>4. CountedAt(c)' = CountedAt(c) + (IF row.branch = c THEN row.result.variance ELSE 0)
      BY <1>11, <1>12, <1>13, CountedOneMore
    <3>5. PICK p \in Int : p = (IF d.branch = c THEN v ELSE 0)
      OBVIOUS
    <3>6. StockOnHand(c)' = StockOnHand(c) + p /\ AdjustedAt(c)' = AdjustedAt(c) /\ CountedAt(c)' = CountedAt(c) + p
      BY <1>6, <1>8, <1>10, <3>4, <3>5
    <3> QED
      BY <1>8, <3>1, <3>2, <3>3, <3>6
  <2> QED
    BY <2>1 DEF LedgerAddsUp
<1> QED
  BY <1>3, <1>19, <1>22, <1>23, <1>24, <1>27, <1>28, <1>29, StockLands

\* A restock task that nothing overtook is the only one under way.
LEMMA StoreRestockTaskKeeps ==
    ASSUME StockInv, NEW r \in Desks, StoreRestockTask(r) PROVE StockInv'
<1>1. PICK d : d = desk[r] /\ StockHands(d) /\ (r \notin overtaken => StockChecks(d))
  BY DEF StockInv
<1>2. /\ StockTyped /\ StockPlaced /\ OrdersSettle /\ CountsSettle /\ LedgerAddsUp /\ TransfersHad /\ RestocksApart
      /\ OneRequestEach /\ d.op = "restock"
      /\ tasks' = Append(tasks, [branch |-> d.branch, requested |-> d.requested, picked |-> 0, status |-> "OPEN"])
      /\ UNCHANGED <<approval, receipts, journal, counts, reviews, transfers>>
  BY <1>1 DEF StockInv, StoreRestockTask, Doing
<1>3. PICK rows : rows = {<<"task", Len(tasks) + 1>>} /\ Committed(r, rows)
  BY DEF StoreRestockTask
<1>4. blind \subseteq blind' /\ (r \in overtaken => <<"task", Len(tasks) + 1>> \in blind')
  BY <1>2, <1>3, DeskCommits
<1>5. /\ d.branch \in Branches /\ d.requested \in Nat
      /\ r \notin overtaken => ActiveTasks(d.branch) = {}
  BY <1>1, <1>2 DEF StockHands, StockChecks
<1>6. PICK row \in TaskRow : row = [branch |-> d.branch, requested |-> d.requested, picked |-> 0, status |-> "OPEN"]
  BY <1>5 DEF TaskRow
<1>7. row.branch = d.branch
  BY <1>6
<1>8. PICK l : l = tasks
  OBVIOUS
<1>9. PICK m : m = Append(l, row)
  OBVIOUS
<1>10. l \in Seq(TaskRow) /\ tasks' = m
  BY <1>2, <1>6, <1>8, <1>9 DEF StockTyped
<1>11. PICK k \in Nat : k = Len(l) /\ DOMAIN l = 1 .. k
  BY <1>10
<1>12. m \in Seq(TaskRow) /\ DOMAIN m = 1 .. k + 1 /\ m[k + 1] = row /\ \A n \in 1 .. k : m[n] = l[n]
  BY <1>9, <1>10, <1>11, OneFactMore
<1>13. StockTyped'
  BY <1>2, <1>10, <1>12 DEF StockTyped
<1>14. StockGrows
  <2>1. DOMAIN tasks \subseteq DOMAIN tasks'
    BY <1>8, <1>10, <1>11, <1>12
  <2> QED
    BY <1>2, <1>4, <2>1, StockAside DEF StockGrows
<1>15. OrdersSettle' /\ CountsSettle' /\ LedgerAddsUp'
  BY <1>2, <1>4, <1>14, StockAside DEF StockGrows
<1>16. StockPlaced' /\ TransfersHad'
  BY <1>2, <1>13, <1>14, PlacedWhole DEF StockPlaced
<1>17. RestocksApart'
  <2>1. ASSUME NEW b \in Branches, NEW i \in ActiveTasks(b)', NEW j \in ActiveTasks(b)', Seen("task", i)', Seen("task", j)'
        PROVE  i = j
    <3>1. i \in 1 .. k + 1 /\ j \in 1 .. k + 1 /\ m[i].branch = b /\ m[j].branch = b
      BY <1>10, <1>12, <2>1 DEF ActiveTasks
    <3>2. \A n \in {i, j} : n \in 1 .. k => n \in ActiveTasks(b) /\ Seen("task", n)
      BY <1>4, <1>8, <1>10, <1>11, <1>12, <2>1 DEF ActiveTasks, Seen
    <3>3. CASE r \in overtaken
      <4>1. <<"task", k + 1>> \in blind'
        BY <1>4, <1>8, <1>11, <3>3
      <4>2. i # k + 1 /\ j # k + 1
        BY <2>1, <4>1 DEF Seen
      <4>3. i \in 1 .. k /\ j \in 1 .. k
        BY <3>1, <4>2
      <4> QED
        BY <1>2, <3>2, <4>3 DEF RestocksApart
    <3>4. CASE r \notin overtaken
      <4>1. CASE b = d.branch
        <5>1. i \notin 1 .. k /\ j \notin 1 .. k
          BY <1>5, <3>2, <3>4, <4>1
        <5> QED
          BY <3>1, <5>1
      <4>2. CASE b # d.branch
        <5>1. i # k + 1 /\ j # k + 1
          BY <1>7, <1>12, <3>1, <4>2
        <5>2. i \in 1 .. k /\ j \in 1 .. k
          BY <3>1, <5>1
        <5> QED
          BY <1>2, <3>2, <5>2 DEF RestocksApart
      <4> QED
        BY <4>1, <4>2
    <3> QED
      BY <3>3, <3>4
  <2> QED
    BY <2>1 DEF RestocksApart
<1> QED
  BY <1>3, <1>13, <1>14, <1>15, <1>16, <1>17, StockLands

\* One that is picked was open.
LEMMA StoreTaskStatusKeeps ==
    ASSUME StockInv, NEW r \in Desks, StoreTaskStatus(r) PROVE StockInv'
<1>1. PICK d : d = desk[r] /\ StockHands(d) /\ (r \notin overtaken => StockChecks(d))
  BY DEF StockInv
<1>2. /\ StockTyped /\ StockPlaced /\ OrdersSettle /\ CountsSettle /\ LedgerAddsUp /\ TransfersHad /\ RestocksApart
      /\ OneRequestEach /\ d.op = "task"
      /\ tasks' = [tasks EXCEPT ![d.task].status = d.to, ![d.task].picked = IF d.to = "PICKED" THEN d.picked ELSE @]
      /\ UNCHANGED <<approval, receipts, journal, counts, reviews, transfers>>
  BY <1>1 DEF StockInv, StoreTaskStatus, Doing
<1>3. PICK rows : rows = {<<"task", d.task>>} /\ Committed(r, rows)
  BY <1>1 DEF StoreTaskStatus
<1>4. blind \subseteq blind' /\ (r \in overtaken => <<"task", d.task>> \in blind')
  BY <1>2, <1>3, DeskCommits
<1>5. /\ d.task \in DOMAIN tasks /\ d.to \in {"PICKED", "COMPLETED", "CANCELED"}
      /\ d.to = "PICKED" => d.picked \in Nat
      /\ r \notin overtaken /\ d.to = "PICKED" => tasks[d.task].status = "OPEN"
  BY <1>1, <1>2 DEF StockHands, StockChecks
<1>6. PICK q \in Seq(TaskRow) : q = tasks
  BY <1>2 DEF StockTyped
<1>7. PICK k \in Nat : DOMAIN q = 1 .. k
  BY <1>6
<1>8. q[d.task] \in TaskRow /\ d.task \in 1 .. k
  BY <1>5, <1>6, <1>7
<1>9. PICK row : row = [q[d.task] EXCEPT !.status = d.to, !.picked = IF d.to = "PICKED" THEN d.picked ELSE @]
  OBVIOUS
<1>10. row \in TaskRow /\ row.branch = q[d.task].branch /\ row.status = d.to
  BY <1>5, <1>8, <1>9 DEF TaskRow
<1>11. tasks' = [q EXCEPT ![d.task] = row]
  BY <1>2, <1>6, <1>7, <1>8, <1>9
<1>12. PICK m : m = tasks'
  OBVIOUS
<1>13. m \in [1 .. k -> TaskRow] /\ m[d.task] = row /\ \A n \in 1 .. k : n # d.task => m[n] = q[n]
  BY <1>6, <1>7, <1>8, <1>10, <1>11, <1>12
<1>14. StockTyped'
  <2>1. m \in Seq(TaskRow)
    BY <1>13, RowsInOrder
  <2> QED
    BY <1>2, <1>12, <2>1 DEF StockTyped
<1>15. StockGrows
  <2>1. DOMAIN tasks \subseteq DOMAIN tasks'
    BY <1>6, <1>7, <1>12, <1>13
  <2> QED
    BY <1>2, <1>4, <2>1, StockAside DEF StockGrows
<1>16. OrdersSettle' /\ CountsSettle' /\ LedgerAddsUp'
  BY <1>2, <1>4, <1>15, StockAside DEF StockGrows
<1>17. StockPlaced' /\ TransfersHad'
  BY <1>2, <1>14, <1>15, PlacedWhole DEF StockPlaced
<1>18. RestocksApart'
  <2>1. ASSUME NEW b \in Branches, NEW i \in ActiveTasks(b)', Seen("task", i)'
        PROVE  i \in ActiveTasks(b) /\ Seen("task", i)
    <3>1. i \in 1 .. k /\ m[i].branch = b /\ m[i].status \in {"OPEN", "PICKED"}
      BY <1>12, <1>13, <2>1 DEF ActiveTasks
    <3>2. Seen("task", i)
      BY <1>4, <2>1 DEF Seen
    <3>3. CASE i # d.task
      BY <1>6, <1>7, <1>13, <3>1, <3>2, <3>3 DEF ActiveTasks
    <3>4. CASE i = d.task
      <4>1. d.to = "PICKED" /\ q[i].branch = b
        BY <1>5, <1>10, <1>13, <3>1, <3>4
      <4>2. r \notin overtaken
        BY <1>4, <2>1, <3>4 DEF Seen
      <4>3. q[i].status = "OPEN"
        BY <1>5, <1>6, <3>4, <4>1, <4>2
      <4> QED
        BY <1>6, <1>7, <3>1, <3>2, <4>1, <4>3 DEF ActiveTasks
    <3> QED
      BY <3>3, <3>4
  <2> QED
    BY <1>2, <2>1 DEF RestocksApart
<1> QED
  BY <1>3, <1>14, <1>15, <1>16, <1>17, <1>18, StockLands

\* A document that fails leaves the others in hand.
LEMMA DocumentFailsKeeps ==
    ASSUME StockInv, NEW r \in Desks, DocumentFails(r) PROVE StockInv'
<1>1. /\ UNCHANGED <<approval, receipts, journal, counts, reviews, tasks, transfers>>
      /\ RolledBack(r) /\ OneRequestEach
  BY DEF DocumentFails, stockRows, StockInv
<1>2. /\ OneRequestEach' /\ UNCHANGED blind
      /\ desk'[r].op = "none" /\ r \notin overtaken'
      /\ \A q \in Desks \ {r} : desk'[q] = desk[q] /\ (q \in overtaken' <=> q \in overtaken)
  BY <1>1, DeskRollsBack
<1>3. /\ StockTyped' /\ StockPlaced' /\ OrdersSettle' /\ CountsSettle' /\ LedgerAddsUp' /\ TransfersHad'
      /\ RestocksApart'
  BY <1>1, <1>2, StockStandStill DEF StockInv
<1>4. ASSUME NEW q \in Desks PROVE StockHands(desk[q])' /\ (q \notin overtaken' => StockChecks(desk[q])')
  <2>1. CASE q = r
    BY <1>2, <2>1 DEF StockHands, StockChecks
  <2>2. CASE q # r
    <3>1. PICK d : d = desk[q] /\ d = desk'[q] /\ StockHands(d) /\ (q \notin overtaken => StockChecks(d))
      BY <1>2, <2>2 DEF StockInv
    <3>2. StockHands(d)' /\ (q \notin overtaken' => StockChecks(d)')
      BY <1>1, <1>2, <2>2, <3>1, StockHandsStand
    <3> QED
      BY <3>1, <3>2 DEF StockHands, StockChecks, ResultOf, StockAfter, ApprovedOrUnseen, Seen, StockOnHand, ActiveTasks
  <2> QED
    BY <2>1, <2>2
<1> QED
  BY <1>2, <1>3, <1>4 DEF StockInv

\* Where nothing of the documents moves, they are as they were.
LEMMA StockStands == StockInv /\ UNCHANGED stockVars => StockInv'
<1> SUFFICES ASSUME StockInv, UNCHANGED stockVars PROVE StockInv'
  OBVIOUS
<1>1. UNCHANGED <<approval, receipts, journal, counts, reviews, tasks, transfers>> /\ UNCHANGED <<desk, overtaken, blind>>
  BY DEF stockVars, stockRows, deskVars
<1>2. OneRequestEach'
  BY <1>1 DEF StockInv, OneRequestEach
<1>3. /\ StockTyped' /\ StockPlaced' /\ OrdersSettle' /\ CountsSettle' /\ LedgerAddsUp' /\ TransfersHad'
      /\ RestocksApart'
  BY <1>1, StockStandStill DEF StockInv
<1>4. ASSUME NEW q \in Desks PROVE StockHands(desk[q])' /\ (q \notin overtaken' => StockChecks(desk[q])')
  <2>1. PICK d : d = desk[q] /\ d = desk'[q] /\ StockHands(d) /\ (q \notin overtaken' => StockChecks(d))
    BY <1>1 DEF StockInv
  <2>2. StockHands(d)' /\ (q \notin overtaken' => StockChecks(d)')
    BY <1>1, <2>1, StockHandsStand
  <2> QED
    BY <2>1, <2>2 DEF StockHands, StockChecks, ResultOf, StockAfter, ApprovedOrUnseen, Seen, StockOnHand, ActiveTasks
<1> QED
  BY <1>2, <1>3, <1>4 DEF StockInv

\* Every step keeps the invariant.
LEMMA StockStepInv == StockInv /\ [StockDocumentsNext]_stockVars => StockInv'
<1> SUFFICES ASSUME StockInv, [StockDocumentsNext]_stockVars PROVE StockInv'
  OBVIOUS
<1>1. CASE UNCHANGED stockVars
  BY <1>1, StockStands
<1>2. ASSUME NEW r \in Desks, NEW o \in PurchaseOrders,
             \/ SubmitPurchaseOrder(r, o) \/ ApprovePurchaseOrder(r, o)
             \/ \E q \in Receivables(o) : CreateGoodsReceipt(r, o, q)
      PROVE  StockInv'
  BY <1>2, StockReadsOrders
<1>3. ASSUME NEW r \in Desks,
             \/ \E b \in Branches : CreateReviewSession(r, b) \/ \E counted \in Amounts \cup {0} : CreateStockCount(r, b, counted)
             \/ \E n \in DOMAIN reviews :
                   \/ ApproveReviewSession(r, n) \/ CancelReviewSession(r, n)
                   \/ \E counted \in Amounts \cup {0} : RecordReviewSession(r, n, counted)
      PROVE  StockInv'
  BY <1>3, StockReadsCounts
<1>4. ASSUME NEW r \in Desks,
             \/ \E b \in Branches : \/ \E q \in Amounts : CreateRestockTask(r, b, q)
                                    \/ \E d \in Branches, q \in Amounts : CreateTransfer(r, b, d, q)
             \/ \E n \in DOMAIN tasks :
                   \/ CompleteRestockTask(r, n) \/ CancelRestockTask(r, n)
                   \/ \E q \in Amounts \cup {0} : PickRestockTask(r, n, q)
      PROVE  StockInv'
  BY <1>4, StockReadsMoves
<1>5. ASSUME NEW r \in Desks,
             \/ StoreApprovalStatus(r) \/ StoreGoodsReceipt(r) \/ StoreReviewSession(r) \/ StoreReviewCount(r)
             \/ StoreStockCount(r) \/ StoreReviewCancel(r) \/ StoreTransfer(r) \/ StoreRestockTask(r)
             \/ StoreTaskStatus(r) \/ DocumentFails(r)
      PROVE  StockInv'
  BY <1>5, StoreApprovalStatusKeeps, StoreGoodsReceiptKeeps, StoreReviewSessionKeeps, StoreReviewCountKeeps,
     StoreStockCountKeeps, StoreReviewCancelKeeps, StoreTransferKeeps, StoreRestockTaskKeeps, StoreTaskStatusKeeps,
     DocumentFailsKeeps
<1>6. ASSUME NEW o \in PurchaseOrders, CreatePurchaseOrder(o) PROVE StockInv'
  BY <1>6, CreatePurchaseOrderKeeps
<1>7. ASSUME NEW b \in Branches, NEW q \in Amounts, CreateStockAdjustment(b, q) \/ CreateStockAdjustment(b, -q)
      PROVE  StockInv'
  <2>1. q \in Int /\ -q \in Int
    BY StockDocumentsAssumption
  <2> QED
    BY <1>7, <2>1, CreateStockAdjustmentKeeps
<1>8. CASE StockDocumentsNext
  BY <1>2, <1>3, <1>4, <1>5, <1>6, <1>7, <1>8 DEF StockDocumentsNext
<1> QED
  BY <1>1, <1>8

\* A review's count leaves in the ledger what was counted, where nothing else moved the branch's stock.
LEMMA ReviewsAreSettled ==
    ASSUME StockTyped, StockPlaced, CountsSettle
    PROVE  ReviewSettlesOnce
<1> SUFFICES ASSUME NEW n \in DOMAIN reviews
             PROVE  LET posted == {m \in DOMAIN counts : counts[m].review = n}
                    IN  /\ \/ posted = {} /\ reviews[n].status # "APPROVED"
                           \/ Cardinality(posted) = 1 /\ reviews[n].status = "APPROVED"
                           \/ ~Seen("review", n)
                        /\ \A m \in posted :
                              LET still == \A i \in reviews[n].since + 1 .. counts[m].after : journal[i].branch # reviews[n].branch
                                  change == IF counts[m].result.variance = 0 THEN 0 ELSE 1
                              IN  still => StockOf(SubSeq(journal, 1, counts[m].after + change), reviews[n].branch)
                                             = counts[m].result.counted
  BY DEF ReviewSettlesOnce
<1>1. StockTyped /\ StockPlaced /\ CountsSettle
  OBVIOUS
<1>2. \/ CountsOf(n) = {} /\ reviews[n].status # "APPROVED"
      \/ Cardinality(CountsOf(n)) = 1 /\ reviews[n].status = "APPROVED"
      \/ ~Seen("review", n)
  BY <1>1 DEF CountsSettle
<1>3. ASSUME NEW m \in CountsOf(n),
             \A i \in reviews[n].since + 1 .. counts[m].after : journal[i].branch # reviews[n].branch,
             NEW change, change = IF counts[m].result.variance = 0 THEN 0 ELSE 1
      PROVE  StockOf(SubSeq(journal, 1, counts[m].after + change), reviews[n].branch) = counts[m].result.counted
  <2>1. PICK c \in CountRow : c = counts[m] /\ m \in DOMAIN counts /\ c.review = n
    BY <1>1 DEF StockTyped, CountsOf
  <2>2. PICK v \in ReviewRow : v = reviews[n]
    BY <1>1 DEF StockTyped
  <2>3. PICK e : e = journal
    OBVIOUS
  <2>4. e \in Seq(EntryRow)
    BY <1>1, <2>3 DEF StockTyped
  <2>5. PICK k \in Nat : k = Len(e) /\ DOMAIN e = 1 .. k
    BY <2>4
  <2>6. n # 0
    <3>1. n \in 1 .. Len(reviews)
      BY <1>1 DEF StockTyped
    <3> QED
      BY <3>1
  <2>7. /\ c.branch = v.branch /\ ResultOf(c.result, v.expected) /\ v.since <= c.after /\ c.after <= k
        /\ c.result.variance # 0 => c.after + 1 <= k /\ e[c.after + 1] = Entry(c.branch, "COUNT_VARIANCE", c.result.variance)
    BY <1>1, <2>1, <2>2, <2>3, <2>5, <2>6 DEF StockPlaced, StockCounted
  <2>8. v.expected = StockOf(SubSeq(e, 1, v.since), v.branch) /\ v.since \in Nat /\ c.after \in Nat
    BY <1>1, <2>1, <2>2, <2>3 DEF StockPlaced, StockReviewed, StockAfter, ReviewRow, CountRow
  <2>9. StockOf(SubSeq(e, 1, c.after), v.branch) = v.expected
    <3>1. \A i \in v.since + 1 .. c.after : e[i].branch # v.branch
      BY <1>3, <2>1, <2>2, <2>3
    <3> QED
      BY <2>4, <2>5, <2>7, <2>8, <3>1, StockStandsStill
  <2>10. /\ c.result.expected \in Int /\ c.result.counted \in Int /\ c.result.variance \in Int /\ v.expected \in Int
         /\ c.result.variance = c.result.counted - v.expected
    BY <2>2, <2>7 DEF ResultOf, CountRows, ReviewRow
  <2>11. CASE c.result.variance = 0
    <3>1. change = 0 /\ c.after + change = c.after
      BY <1>3, <2>1, <2>8, <2>11
    <3>2. c.result.counted = v.expected
      BY <2>10, <2>11
    <3> QED
      BY <2>1, <2>2, <2>3, <2>9, <3>1, <3>2
  <2>12. CASE c.result.variance # 0
    <3>1. change = 1
      BY <1>3, <2>1, <2>12
    <3>2. PICK p : p = SubSeq(e, 1, c.after)
      OBVIOUS
    <3>3. PICK q : q = SubSeq(e, 1, c.after + 1)
      OBVIOUS
    <3>4. PICK x : x = e[c.after + 1]
      OBVIOUS
    <3>5. x \in EntryRow /\ x = Entry(c.branch, "COUNT_VARIANCE", c.result.variance)
      BY <2>4, <2>5, <2>7, <2>8, <2>12, <3>4
    <3>6. p \in Seq(EntryRow) /\ Len(p) = c.after /\ \A i \in 1 .. c.after : p[i] = e[i]
      BY <2>4, <2>5, <2>7, <2>8, <3>2, SubSeqProperties
    <3>7. q \in Seq(EntryRow) /\ Len(q) = c.after + 1 /\ \A i \in 1 .. c.after + 1 : q[i] = e[i]
      BY <2>4, <2>5, <2>7, <2>8, <2>12, <3>3, SubSeqProperties
    <3>8. PICK o : o = p \o <<x>>
      OBVIOUS
    <3>9. OneEntryOn(p, x, o)
      BY <3>5, <3>6, <3>8, OneEntryMore
    <3>10. q = o
      <4>1. PICK h \in Nat : h = c.after
        BY <2>8
      <4>2. o \in Seq(EntryRow) /\ Len(o) = h + 1 /\ o[h + 1] = x /\ DOMAIN p = 1 .. h
        BY <3>6, <3>9, <4>1 DEF OneEntryOn
      <4>3. \A i \in 1 .. h : o[i] = p[i]
        BY <3>9, <4>2 DEF OneEntryOn
      <4>4. \A i \in 1 .. h + 1 : q[i] = o[i]
        <5>1. \A i \in 1 .. h + 1 : i \in 1 .. h \/ i = h + 1
          OBVIOUS
        <5> QED
          BY <3>4, <3>6, <3>7, <4>1, <4>2, <4>3, <5>1
      <4> QED
        BY <3>7, <4>1, <4>2, <4>4
    <3>11. StockOf(q, v.branch) = StockOf(p, v.branch) + QuantityAt(x, v.branch)
      BY <3>9, <3>10 DEF OneEntryOn
    <3>12. QuantityAt(x, v.branch) = c.result.variance
      BY <2>7, <3>5 DEF QuantityAt, Entry
    <3>13. StockOf(q, v.branch) = c.result.counted
      BY <2>9, <2>10, <3>2, <3>11, <3>12
    <3> QED
      BY <2>1, <2>2, <2>3, <3>1, <3>3, <3>13
  <2> QED
    BY <2>11, <2>12
<1> QED
  BY <1>2, <1>3 DEF CountsOf

\* What the invariant says of the documents.
LEMMA StockShows ==
    ASSUME StockTyped, StockPlaced, OrdersSettle, CountsSettle, LedgerAddsUp, TransfersHad, RestocksApart
    PROVE  DocumentsSettle /\ StockRequestsHold
<1>1. ReceivedOnceApproved
  BY DEF OrdersSettle, ApprovedOrUnseen, ReceivedOnceApproved
<1>2. BoardsTellTheLedger
  <2>1. ASSUME NEW o \in PurchaseOrders PROVE ReceivingStatus(o) = "READY" <=> Receivable(o)
    <3>1. CASE Received(o)
      <4>1. \/ \E n \in DOMAIN receipts : receipts[n].order = o /\ receipts[n].quantity = Ordered[o]
            \/ \E n \in DOMAIN receipts : receipts[n].order = o /\ receipts[n].quantity # Ordered[o]
        BY <3>1 DEF Received
      <4>2. ReceivingStatus(o) \in {"RECEIVED", "RECEIVED_WITH_VARIANCE"}
        BY <3>1, <4>1 DEF ReceivingStatus
      <4> QED
        BY <3>1, <4>2 DEF Receivable
    <3>2. CASE ~Received(o)
      <4>1. /\ ~\E n \in DOMAIN receipts : receipts[n].order = o /\ receipts[n].quantity = Ordered[o]
            /\ ~\E n \in DOMAIN receipts : receipts[n].order = o /\ receipts[n].quantity # Ordered[o]
        BY <3>2 DEF Received
      <4>2. ReceivingStatus(o) = IF approval[o] = "APPROVED" THEN "READY" ELSE "BLOCKED"
        BY <3>2, <4>1 DEF ReceivingStatus
      <4> QED
        BY <3>2, <4>2 DEF Receivable
    <3> QED
      BY <3>1, <3>2
  <2> QED
    BY <2>1 DEF LedgerAddsUp, BoardsTellTheLedger
<1>3. TransfersCovered
  BY DEF TransfersHad, TransfersCovered, StockAfter
<1>4. OneRestockEach
  <2>1. ASSUME NEW b \in Branches PROVE Cardinality({n \in ActiveTasks(b) : Seen("task", n)}) <= 1
    <3>1. PICK S : S = {n \in ActiveTasks(b) : Seen("task", n)}
      OBVIOUS
    <3>2. \A i, j \in S : i = j
      BY <3>1 DEF RestocksApart
    <3> QED
      BY <3>1, <3>2, AtMostOne
  <2> QED
    BY <2>1 DEF OneRestockEach
<1> QED
  BY <1>1, <1>2, <1>3, <1>4, ReviewsAreSettled DEF DocumentsSettle, StockRequestsHold

\* What the invariant says of them.
LEMMA StockInvShows == StockInv => DocumentsSettle /\ StockRequestsHold
BY StockShows DEF StockInv

\* The inductive invariant of the documents and the requests that write them.
THEOREM StockInvariant == StockDocumentsSpec => []StockInv
<1> QED
  BY StockInitInv, StockStepInv, PTL DEF StockDocumentsSpec

\* For any orders, branches and requests: an order is received once and stays approved, a reviewed count
\* settles once and leaves in the ledger what was counted, and the boards add up to the ledger.
THEOREM StockDocumentsSettle == StockDocumentsSpec => []DocumentsSettle
<1> QED
  BY StockInvShows, StockInvariant, PTL

\* No transfer takes more than its branch has and no branch has two restock tasks under way, but for
\* what an overtaken request has written.
THEOREM StockRequestsStand == StockDocumentsSpec => []StockRequestsHold
<1> QED
  BY StockInvShows, StockInvariant, PTL

-----------------------------------------------------------------------------
(* Campaigns, codes and vouchers. *)

-----------------------------------------------------------------------------
(* Promotions: what the sales of codes and of vouchers add up to. *)

Next1(S) == CHOOSE x \in S : TRUE

\* The sales of every set of rows, as MapThenFoldSet counts them.
TallyOf(f, g) ==
    g = [S \in SUBSET DOMAIN f |-> IF S = {} THEN 0 ELSE f[Next1(S)].sales + g[S \ {Next1(S)}]]

\* The sales of all rows are the tally of their set.
LEMMA SalesAreTallied == ASSUME NEW f PROVE SalesOf(f) = (CHOOSE g : TallyOf(f, g))[DOMAIN f]
BY Zenon DEF SalesOf, MapThenSumSet, MapThenFoldSet, TallyOf, Next1

\* A row less is one row less.
LEMMA OneRowLess ==
    ASSUME NEW D, IsFiniteSet(D), NEW S \in SUBSET D, S # {}
    PROVE  /\ Next1(S) \in S /\ Next1(S) \in D /\ S \ {Next1(S)} \in SUBSET D
           /\ Cardinality(S) \in Nat /\ Cardinality(S \ {Next1(S)}) = Cardinality(S) - 1
           /\ Cardinality(S \ {Next1(S)}) \in Nat
<1>1. PICK x : x = Next1(S) /\ x \in S
  BY DEF Next1
<1>2. IsFiniteSet(S)
  BY FS_Subset
<1>3. Cardinality(S) \in Nat /\ Cardinality(S \ {x}) = Cardinality(S) - 1 /\ IsFiniteSet(S \ {x})
  BY <1>1, <1>2, FS_RemoveElement, FS_CardinalityType
<1>4. Cardinality(S \ {x}) \in Nat
  BY <1>3, FS_CardinalityType
<1> QED
  BY <1>1, <1>3, <1>4

\* What holds of nothing, and of some rows whenever it holds of all of them but one, holds of all rows.
LEMMA RowByRow ==
    ASSUME NEW D, IsFiniteSet(D), NEW P, {} \in P,
           \A S \in SUBSET D : S # {} /\ S \ {Next1(S)} \in P => S \in P
    PROVE  \A S \in SUBSET D : S \in P
<1> DEFINE N == {n \in Nat : \A S \in SUBSET D : Cardinality(S) = n => S \in P}
<1>1. 0 \in N
  <2>1. ASSUME NEW S \in SUBSET D, Cardinality(S) = 0 PROVE S \in P
    <3>1. IsFiniteSet(S)
      BY FS_Subset
    <3>2. S = {}
      BY <2>1, <3>1, FS_EmptySet
    <3> QED
      BY <3>2
  <2> QED
    BY <2>1
<1>2. ASSUME NEW n \in Nat, n \in N PROVE n + 1 \in N
  <2>1. ASSUME NEW S \in SUBSET D, Cardinality(S) = n + 1 PROVE S \in P
    <3>1. S # {}
      <4>1. Cardinality({}) = 0 /\ n + 1 # 0
        BY FS_EmptySet
      <4> QED
        BY <2>1, <4>1
    <3>2. S \ {Next1(S)} \in SUBSET D /\ Cardinality(S \ {Next1(S)}) = n
      BY <2>1, <3>1, OneRowLess
    <3> QED
      BY <1>2, <3>1, <3>2
  <2> QED
    BY <2>1
<1>3. \A n \in Nat : n \in N
  <2> HIDE DEF N
  <2> QED
    BY <1>1, <1>2, CountingUp
<1>4. ASSUME NEW S \in SUBSET D PROVE S \in P
  <2>1. IsFiniteSet(S)
    BY FS_Subset
  <2>2. Cardinality(S) \in Nat
    BY <2>1, FS_CardinalityType
  <2> QED
    BY <1>3, <2>2
<1> QED
  BY <1>4

\* The tally of the sets of no more than n rows.
Few(D, n) == {S \in SUBSET D : Cardinality(S) <= n}
TallyUpTo(f, n, g) ==
    g = [S \in Few(DOMAIN f, n) |-> IF S = {} THEN 0 ELSE f[Next1(S)].sales + g[S \ {Next1(S)}]]

\* A tally of the small sets goes on to sets of one row more.
LEMMA TallyGoesOn ==
    ASSUME NEW f, IsFiniteSet(DOMAIN f), NEW n \in Nat, NEW g, TallyUpTo(f, n, g)
    PROVE  \E h : TallyUpTo(f, n + 1, h)
<1> DEFINE h == [S \in Few(DOMAIN f, n + 1) |->
                    IF S = {} THEN 0 ELSE f[Next1(S)].sales + g[S \ {Next1(S)}]]
<1>1. ASSUME NEW S \in Few(DOMAIN f, n) PROVE g[S] = IF S = {} THEN 0 ELSE f[Next1(S)].sales + g[S \ {Next1(S)}]
  BY DEF TallyUpTo
<1>2. ASSUME NEW S \in Few(DOMAIN f, n) PROVE S \in Few(DOMAIN f, n + 1) /\ h[S] = g[S]
  <2>1. IsFiniteSet(S)
    BY FS_Subset DEF Few
  <2>2. Cardinality(S) \in Nat /\ Cardinality(S) <= n
    BY <2>1, FS_CardinalityType DEF Few
  <2>3. S \in Few(DOMAIN f, n + 1)
    BY <2>2 DEF Few
  <2>4. h[S] = IF S = {} THEN 0 ELSE f[Next1(S)].sales + g[S \ {Next1(S)}]
    BY <2>3
  <2> QED
    BY <1>1, <2>3, <2>4
<1>3. ASSUME NEW S \in Few(DOMAIN f, n + 1), S # {} PROVE S \ {Next1(S)} \in Few(DOMAIN f, n)
  <2>1. S \in SUBSET DOMAIN f /\ Cardinality(S) <= n + 1
    BY DEF Few
  <2>2. /\ S \ {Next1(S)} \in SUBSET DOMAIN f /\ Cardinality(S) \in Nat
        /\ Cardinality(S \ {Next1(S)}) = Cardinality(S) - 1
    BY <1>3, <2>1, OneRowLess
  <2> QED
    BY <2>1, <2>2 DEF Few
<1>4. ASSUME NEW S \in Few(DOMAIN f, n + 1)
      PROVE  h[S] = IF S = {} THEN 0 ELSE f[Next1(S)].sales + h[S \ {Next1(S)}]
  <2>1. CASE S = {}
    BY <2>1
  <2>2. CASE S # {}
    <3>1. h[S] = f[Next1(S)].sales + g[S \ {Next1(S)}]
      BY <2>2
    <3>2. h[S \ {Next1(S)}] = g[S \ {Next1(S)}]
      BY <1>2, <1>3, <2>2
    <3> QED
      BY <2>2, <3>1, <3>2
  <2> QED
    BY <2>1, <2>2
<1>5. h = [S \in Few(DOMAIN f, n + 1) |-> h[S]]
  OBVIOUS
<1> HIDE DEF h
<1>6. TallyUpTo(f, n + 1, h)
  BY <1>4, <1>5 DEF TallyUpTo
<1> QED
  BY <1>6

\* Of finitely many rows there is one.
LEMMA TallyIsThere == ASSUME NEW f, IsFiniteSet(DOMAIN f) PROVE \E g : TallyOf(f, g)
<1> DEFINE N == {n \in Nat : \E g : TallyUpTo(f, n, g)}
<1>1. 0 \in N
  <2> DEFINE g == [S \in Few(DOMAIN f, 0) |-> 0]
  <2>1. ASSUME NEW S \in Few(DOMAIN f, 0) PROVE S = {}
    <3>1. S \in SUBSET DOMAIN f /\ Cardinality(S) <= 0
      BY DEF Few
    <3>2. IsFiniteSet(S)
      BY <3>1, FS_Subset
    <3>3. Cardinality(S) \in Nat
      BY <3>2, FS_CardinalityType
    <3>4. Cardinality(S) = 0
      BY <3>1, <3>3
    <3> QED
      BY <3>2, <3>4, FS_EmptySet
  <2>2. ASSUME NEW S \in Few(DOMAIN f, 0) PROVE g[S] = IF S = {} THEN 0 ELSE f[Next1(S)].sales + g[S \ {Next1(S)}]
    BY <2>1
  <2>3. TallyUpTo(f, 0, g)
    BY <2>2 DEF TallyUpTo
  <2> QED
    BY <2>3
<1>2. ASSUME NEW n \in Nat, n \in N PROVE n + 1 \in N
  BY <1>2, TallyGoesOn
<1>3. \A n \in Nat : n \in N
  <2> HIDE DEF N
  <2> QED
    BY <1>1, <1>2, CountingUp
<1>4. PICK n \in Nat : n = Cardinality(DOMAIN f)
  BY FS_CardinalityType
<1>5. PICK g : TallyUpTo(f, n, g)
  BY <1>3
<1>6. Few(DOMAIN f, n) = SUBSET DOMAIN f
  <2>1. ASSUME NEW S \in SUBSET DOMAIN f PROVE Cardinality(S) <= n
    BY <1>4, FS_Subset
  <2> QED
    BY <2>1 DEF Few
<1>7. TallyOf(f, g)
  BY <1>5, <1>6 DEF TallyUpTo, TallyOf
<1> QED
  BY <1>7

\* Where one row is sold by more and the others are not, so are all of them together.
LEMMA SalesMove ==
    ASSUME NEW f, NEW h, NEW D, IsFiniteSet(D), DOMAIN f = D, DOMAIN h = D, NEW x \in D, NEW more \in Int,
           \A y \in D : f[y].sales \in Int /\ h[y].sales = f[y].sales + (IF y = x THEN more ELSE 0)
    PROVE  SalesOf(f) \in Int /\ SalesOf(h) = SalesOf(f) + more
<1>1. PICK u : TallyOf(f, u) /\ SalesOf(f) = u[D]
  BY TallyIsThere, SalesAreTallied
<1>2. PICK v : TallyOf(h, v) /\ SalesOf(h) = v[D]
  BY TallyIsThere, SalesAreTallied
<1>3. ASSUME NEW S \in SUBSET D
      PROVE  /\ u[S] = IF S = {} THEN 0 ELSE f[Next1(S)].sales + u[S \ {Next1(S)}]
             /\ v[S] = IF S = {} THEN 0 ELSE h[Next1(S)].sales + v[S \ {Next1(S)}]
  BY <1>1, <1>2 DEF TallyOf
<1> DEFINE P == {S \in SUBSET D : u[S] \in Int /\ v[S] = u[S] + (IF x \in S THEN more ELSE 0)}
<1>p. \A S \in SUBSET D : S \in P <=> u[S] \in Int /\ v[S] = u[S] + (IF x \in S THEN more ELSE 0)
  OBVIOUS
<1> HIDE DEF P
<1>4. {} \in P
  <2>1. PICK none \in SUBSET D : none = {}
    OBVIOUS
  <2>2. u[none] = 0 /\ v[none] = 0
    BY <1>3, <2>1
  <2>3. v[none] = u[none] + (IF x \in none THEN more ELSE 0)
    BY <2>1, <2>2
  <2>4. none \in P
    BY <1>p, <2>2, <2>3
  <2> QED
    BY <2>1, <2>4
<1>5. ASSUME NEW S \in SUBSET D, S # {}, S \ {Next1(S)} \in P PROVE S \in P
  <2>1. PICK y \in D : y = Next1(S) /\ y \in S
    BY <1>5, OneRowLess
  <2>2. PICK T \in SUBSET D : T = S \ {y} /\ T \in P
    BY <1>5, <2>1
  <2>3. u[S] = f[y].sales + u[T] /\ v[S] = h[y].sales + v[T]
    BY <1>3, <1>5, <2>1, <2>2
  <2>4. u[T] \in Int /\ v[T] = u[T] + (IF x \in T THEN more ELSE 0)
    BY <1>p, <2>2
  <2>5. f[y].sales \in Int /\ h[y].sales = f[y].sales + (IF y = x THEN more ELSE 0)
    OBVIOUS
  <2>6. CASE y = x
    <3>1. x \in S /\ x \notin T
      BY <2>1, <2>2, <2>6
    <3>2. u[S] \in Int /\ v[S] = u[S] + more
      BY <2>3, <2>4, <2>5, <2>6, <3>1
    <3> QED
      BY <1>p, <3>1, <3>2
  <2>7. CASE y # x
    <3>1. x \in S <=> x \in T
      BY <2>1, <2>2, <2>7
    <3>2. u[S] \in Int /\ v[S] = u[S] + (IF x \in S THEN more ELSE 0)
      BY <2>3, <2>4, <2>5, <2>7, <3>1
    <3> QED
      BY <1>p, <3>2
  <2> QED
    BY <2>6, <2>7
<1>6. D \in P
  <2>1. \A S \in SUBSET D : S \in P
    BY <1>4, <1>5, RowByRow
  <2> QED
    BY <2>1
<1> QED
  BY <1>1, <1>2, <1>6, <1>p

\* Where nothing was sold, the sum is nothing.
LEMMA NothingSold ==
    ASSUME NEW f, IsFiniteSet(DOMAIN f), \A y \in DOMAIN f : f[y].sales = 0
    PROVE  SalesOf(f) = 0
<1>1. PICK u : TallyOf(f, u) /\ SalesOf(f) = u[DOMAIN f]
  BY TallyIsThere, SalesAreTallied
<1>2. ASSUME NEW S \in SUBSET DOMAIN f
      PROVE  u[S] = IF S = {} THEN 0 ELSE f[Next1(S)].sales + u[S \ {Next1(S)}]
  BY <1>1 DEF TallyOf
<1> DEFINE P == {S \in SUBSET DOMAIN f : u[S] = 0}
<1>3. {} \in P
  BY <1>2
<1>4. ASSUME NEW S \in SUBSET DOMAIN f, S # {}, S \ {Next1(S)} \in P PROVE S \in P
  <2>1. Next1(S) \in DOMAIN f
    BY <1>4, OneRowLess
  <2> QED
    BY <1>2, <1>4, <2>1
<1>5. DOMAIN f \in P
  <2> HIDE DEF P
  <2>1. \A S \in SUBSET DOMAIN f : S \in P
    BY <1>3, <1>4, RowByRow
  <2> QED
    BY <2>1
<1> QED
  BY <1>1, <1>5

Campaigns == {"CODE", "ASSIGNED_VOUCHER"}
CampaignRow == [status : {"ACTIVE", "DISABLED"}, count : Nat]
CodeRow == [status : {"none", "ACTIVE", "DISABLED"}, count : Nat, sales : Nat]
VoucherRow == [status : {"none", "ACTIVE", "CANCELED", "REDEEMED"}, sales : Nat]

PromoTyped ==
    /\ campaigns \in [Campaigns -> CampaignRow]
    /\ codes \in [Codes -> CodeRow] /\ vouchers \in [Vouchers -> VoucherRow]

CodesCount == \A c \in Codes : Seen("code", c) => codes[c].count = codes[c].sales /\ codes[c].sales <= CodeLimit
CodesCampaignCounts ==
    Seen("campaign", "CODE") => campaigns["CODE"].count = SalesOf(codes) /\ SalesOf(codes) <= CampaignLimit
VouchersCampaignCounts ==
    Seen("campaign", "ASSIGNED_VOUCHER") => campaigns["ASSIGNED_VOUCHER"].count = SalesOf(vouchers)
VouchersRedeemOnce ==
    \A v \in Vouchers : Seen("voucher", v) => vouchers[v].sales = (IF vouchers[v].status = "REDEEMED" THEN 1 ELSE 0)

\* A request has in hand what was within the limits when it read.
PromoHands(d) ==
    /\ d.op = "create" => d.code \in Codes /\ d.status \in {"ACTIVE", "DISABLED"}
    /\ d.op \in {"issue", "cancel"} => d.voucher \in Vouchers
    /\ d.op = "code" =>
         d.code \in Codes /\ d.count \in Nat /\ d.total \in Nat /\ d.count < CodeLimit /\ d.total < CampaignLimit
    /\ d.op = "voucher" => d.voucher \in Vouchers /\ d.total \in Nat

\* And what it has read is so, if nothing has overtaken it.
PromoChecks(d) ==
    /\ d.op = "cancel" => vouchers[d.voucher].status = "ACTIVE"
    /\ d.op = "code" => codes[d.code].count = d.count /\ campaigns["CODE"].count = d.total
    /\ d.op = "voucher" =>
         vouchers[d.voucher].status = "ACTIVE" /\ campaigns["ASSIGNED_VOUCHER"].count = d.total

PromoInv ==
    /\ OneRequestEach /\ PromoTyped
    /\ CodesCount /\ CodesCampaignCounts /\ VouchersCampaignCounts /\ VouchersRedeemOnce
    /\ \A r \in Desks : PromoHands(desk[r]) /\ (r \notin overtaken => PromoChecks(desk[r]))

\* Campaigns of which nothing has been sold.
PromoEmpty ==
    /\ campaigns = [k \in {"CODE", "ASSIGNED_VOUCHER"} |-> [status |-> "ACTIVE", count |-> 0]]
    /\ codes = [c \in Codes |-> [status |-> "none", count |-> 0, sales |-> 0]]
    /\ vouchers = [v \in Vouchers |-> [status |-> "none", sales |-> 0]]

\* Nothing sold is nothing counted.
LEMMA PromoBegins ==
    ASSUME PromoEmpty
    PROVE  PromoTyped /\ CodesCount /\ CodesCampaignCounts /\ VouchersCampaignCounts /\ VouchersRedeemOnce
<1>1. /\ campaigns = [k \in {"CODE", "ASSIGNED_VOUCHER"} |-> [status |-> "ACTIVE", count |-> 0]]
      /\ codes = [c \in Codes |-> [status |-> "none", count |-> 0, sales |-> 0]]
      /\ vouchers = [v \in Vouchers |-> [status |-> "none", sales |-> 0]]
  BY DEF PromoEmpty
<1>2. PromoTyped
  BY <1>1 DEF PromoTyped, Campaigns, CampaignRow, CodeRow, VoucherRow
<1>3. SalesOf(codes) = 0 /\ SalesOf(vouchers) = 0
  <2>1. PICK f : f = codes
    OBVIOUS
  <2>2. PICK g : g = vouchers
    OBVIOUS
  <2>3. DOMAIN f = Codes /\ DOMAIN g = Vouchers /\ IsFiniteSet(Codes) /\ IsFiniteSet(Vouchers)
    BY <1>1, <2>1, <2>2, PromotionsAssumption
  <2>4. (\A y \in DOMAIN f : f[y].sales = 0) /\ (\A y \in DOMAIN g : g[y].sales = 0)
    BY <1>1, <2>1, <2>2
  <2>5. SalesOf(f) = 0 /\ SalesOf(g) = 0
    BY <2>3, <2>4, NothingSold
  <2> QED
    BY <2>1, <2>2, <2>5
<1>4. CodesCount /\ VouchersRedeemOnce
  BY <1>1, PromotionsAssumption DEF CodesCount, VouchersRedeemOnce
<1>5. CodesCampaignCounts /\ VouchersCampaignCounts
  BY <1>1, <1>3, PromotionsAssumption DEF CodesCampaignCounts, VouchersCampaignCounts
<1> QED
  BY <1>2, <1>4, <1>5

\* The promotions begin with no request in hand.
LEMMA PromoInitInv == PromotionsInit => PromoInv
<1> SUFFICES ASSUME PromotionsInit PROVE PromoInv
  OBVIOUS
<1>1. PromoEmpty /\ OneRequestEach
  BY DEF PromotionsInit, DeskInit, PromoEmpty, OneRequestEach
<1>2. \A r \in Desks : desk[r].op = "none"
  BY DEF PromotionsInit, DeskInit, Idle
<1>3. \A r \in Desks : PromoHands(desk[r]) /\ PromoChecks(desk[r])
  BY <1>2 DEF PromoHands, PromoChecks
<1> QED
  BY <1>1, <1>3, PromoBegins DEF PromoInv

\* A request that reads has in hand what it has read.
LEMMA PromoGoesOn ==
    ASSUME PromoInv, NEW r \in Desks, NEW e, Wants(r, e), PromoHands(e), PromoChecks(e)
    PROVE  PromoInv'
<1>0. UNCHANGED <<campaigns, codes, vouchers>> /\ Checked(r, e) /\ OneRequestEach
  BY DEF Wants, promotionRows, PromoInv
<1>1. /\ OneRequestEach' /\ desk'[r] = e /\ UNCHANGED <<overtaken, blind>>
      /\ \A q \in Desks \ {r} : desk'[q] = desk[q]
  BY <1>0, DeskChecks
<1>2. PromoTyped' /\ CodesCount' /\ CodesCampaignCounts' /\ VouchersCampaignCounts' /\ VouchersRedeemOnce'
  BY <1>0, <1>1 DEF PromoInv, PromoTyped, CodesCount, CodesCampaignCounts, VouchersCampaignCounts, VouchersRedeemOnce, Seen
<1>3. ASSUME NEW q \in Desks PROVE PromoHands(desk[q])' /\ (q \notin overtaken' => PromoChecks(desk[q])')
  <2>1. PICK d : d = desk'[q] /\ PromoHands(d) /\ (q \notin overtaken' => PromoChecks(d))
    BY <1>1 DEF PromoInv
  <2> QED
    BY <1>0, <2>1 DEF PromoHands, PromoChecks
<1> QED
  BY <1>1, <1>2, <1>3 DEF PromoInv

\* Where the rows and the requests stand, or a request fails, so does all that is said of them.
LEMMA PromoStays ==
    ASSUME PromoInv, UNCHANGED <<campaigns, codes, vouchers, blind>>, OneRequestEach',
           \A q \in Desks : \/ desk'[q].op = "none"
                            \/ desk'[q] = desk[q] /\ (q \in overtaken => q \in overtaken')
    PROVE  PromoInv'
<1>1. PromoTyped' /\ CodesCount' /\ CodesCampaignCounts' /\ VouchersCampaignCounts' /\ VouchersRedeemOnce'
  BY DEF PromoInv, PromoTyped, CodesCount, CodesCampaignCounts, VouchersCampaignCounts, VouchersRedeemOnce, Seen
<1>2. ASSUME NEW q \in Desks PROVE PromoHands(desk[q])' /\ (q \notin overtaken' => PromoChecks(desk[q])')
  <2>1. CASE desk'[q].op = "none"
    BY <2>1 DEF PromoHands, PromoChecks
  <2>2. CASE desk'[q] = desk[q] /\ (q \in overtaken => q \in overtaken')
    <3>1. PICK d : d = desk[q] /\ d = desk'[q] /\ PromoHands(d) /\ (q \notin overtaken' => PromoChecks(d))
      BY <2>2 DEF PromoInv
    <3> QED
      BY <3>1 DEF PromoHands, PromoChecks
  <2> QED
    BY <2>1, <2>2
<1> QED
  BY <1>1, <1>2 DEF PromoInv

\* A commit, or a step without a request, leaves what the other requests have in hand, which it overtakes.
LEMMA PromoLands ==
    ASSUME PromoInv, AtOnce \/ \E r \in Desks : \E rows : Committed(r, rows), PromoTyped',
           CodesCount', CodesCampaignCounts', VouchersCampaignCounts', VouchersRedeemOnce'
    PROVE  PromoInv'
<1>0. OneRequestEach
  BY DEF PromoInv
<1>1. /\ OneRequestEach' /\ \A q \in Desks : desk'[q].op = "none" \/ desk'[q] = desk[q]
      /\ \A q \in Desks : q \notin overtaken' => desk'[q].op = "none"
  <2>1. CASE AtOnce
    BY <1>0, <2>1, DeskAtOnce DEF OneRequestEach
  <2>2. CASE \E r \in Desks : \E rows : Committed(r, rows)
    BY <1>0, <2>2, DeskCommits
  <2> QED
    BY <2>1, <2>2
<1>2. ASSUME NEW q \in Desks PROVE PromoHands(desk[q])' /\ (q \notin overtaken' => PromoChecks(desk[q])')
  <2>1. CASE desk'[q].op = "none"
    BY <2>1 DEF PromoHands, PromoChecks
  <2>2. CASE desk'[q] = desk[q] /\ desk'[q].op # "none"
    <3>1. PICK d : d = desk[q] /\ d = desk'[q] /\ PromoHands(d) /\ d.op # "none"
      BY <2>2 DEF PromoInv
    <3>2. q \in overtaken'
      BY <1>1, <2>2
    <3> QED
      BY <3>1, <3>2 DEF PromoHands
  <2> QED
    BY <1>1, <2>1, <2>2
<1> QED
  BY <1>1, <1>2 DEF PromoInv

\* Where no row is sold, the sums stay.
LEMMA NoSale ==
    ASSUME PromoTyped, blind \subseteq blind'
    PROVE  /\ UNCHANGED codes => (CodesCount => CodesCount') /\ SalesOf(codes)' = SalesOf(codes)
           /\ UNCHANGED vouchers => (VouchersRedeemOnce => VouchersRedeemOnce') /\ SalesOf(vouchers)' = SalesOf(vouchers)
           /\ SalesOf(codes)' = SalesOf(codes) /\ UNCHANGED campaigns => (CodesCampaignCounts => CodesCampaignCounts')
           /\ SalesOf(vouchers)' = SalesOf(vouchers) /\ UNCHANGED campaigns => (VouchersCampaignCounts => VouchersCampaignCounts')
<1>1. UNCHANGED codes => (CodesCount => CodesCount') /\ SalesOf(codes)' = SalesOf(codes)
  BY DEF CodesCount, Seen
<1>2. UNCHANGED vouchers => (VouchersRedeemOnce => VouchersRedeemOnce') /\ SalesOf(vouchers)' = SalesOf(vouchers)
  BY DEF VouchersRedeemOnce, Seen
<1>3. /\ SalesOf(codes)' = SalesOf(codes) /\ UNCHANGED campaigns => (CodesCampaignCounts => CodesCampaignCounts')
      /\ SalesOf(vouchers)' = SalesOf(vouchers) /\ UNCHANGED campaigns => (VouchersCampaignCounts => VouchersCampaignCounts')
  BY DEF CodesCampaignCounts, VouchersCampaignCounts, Seen
<1> QED
  BY <1>1, <1>2, <1>3

\* A row that changes by more sales moves the sum by as many.
LEMMA CodeChanges ==
    ASSUME PromoTyped, NEW c \in Codes, NEW row \in CodeRow, codes' = [codes EXCEPT ![c] = row]
    PROVE  /\ codes' \in [Codes -> CodeRow] /\ codes'[c] = row /\ \A b \in Codes \ {c} : codes'[b] = codes[b]
           /\ SalesOf(codes) \in Int /\ SalesOf(codes)' = SalesOf(codes) + (row.sales - codes[c].sales)
<1>1. codes \in [Codes -> CodeRow] /\ IsFiniteSet(Codes)
  BY PromotionsAssumption DEF PromoTyped
<1>2. codes' \in [Codes -> CodeRow] /\ codes'[c] = row /\ \A b \in Codes \ {c} : codes'[b] = codes[b]
  BY <1>1
<1>3. PICK f : f = codes
  OBVIOUS
<1>4. PICK h : h = codes'
  OBVIOUS
<1>5. \A b \in Codes : f[b] \in CodeRow /\ h[b] \in CodeRow
  BY <1>1, <1>2, <1>3, <1>4
<1>6. \A b \in Codes : f[b].sales \in Int /\ h[b].sales \in Int
  BY <1>5 DEF CodeRow
<1>7. PICK more \in Int : more = row.sales - f[c].sales
  BY <1>2, <1>4, <1>6
<1>8. \A b \in Codes : f[b].sales \in Int /\ h[b].sales = f[b].sales + (IF b = c THEN more ELSE 0)
  BY <1>2, <1>3, <1>4, <1>6, <1>7
<1>9. DOMAIN f = Codes /\ DOMAIN h = Codes
  BY <1>1, <1>2, <1>3, <1>4
<1>10. SalesOf(f) \in Int /\ SalesOf(h) = SalesOf(f) + more
  BY <1>1, <1>8, <1>9, SalesMove
<1> QED
  BY <1>2, <1>3, <1>4, <1>7, <1>10

\* So does a voucher's.
LEMMA VoucherChanges ==
    ASSUME PromoTyped, NEW v \in Vouchers, NEW row \in VoucherRow, vouchers' = [vouchers EXCEPT ![v] = row]
    PROVE  /\ vouchers' \in [Vouchers -> VoucherRow] /\ vouchers'[v] = row
           /\ \A b \in Vouchers \ {v} : vouchers'[b] = vouchers[b]
           /\ SalesOf(vouchers) \in Int /\ SalesOf(vouchers)' = SalesOf(vouchers) + (row.sales - vouchers[v].sales)
<1>1. vouchers \in [Vouchers -> VoucherRow] /\ IsFiniteSet(Vouchers)
  BY PromotionsAssumption DEF PromoTyped
<1>2. vouchers' \in [Vouchers -> VoucherRow] /\ vouchers'[v] = row /\ \A b \in Vouchers \ {v} : vouchers'[b] = vouchers[b]
  BY <1>1
<1>3. PICK f : f = vouchers
  OBVIOUS
<1>4. PICK h : h = vouchers'
  OBVIOUS
<1>5. \A b \in Vouchers : f[b] \in VoucherRow /\ h[b] \in VoucherRow
  BY <1>1, <1>2, <1>3, <1>4
<1>6. \A b \in Vouchers : f[b].sales \in Int /\ h[b].sales \in Int
  BY <1>5 DEF VoucherRow
<1>7. PICK more \in Int : more = row.sales - f[v].sales
  BY <1>2, <1>4, <1>6
<1>8. \A b \in Vouchers : f[b].sales \in Int /\ h[b].sales = f[b].sales + (IF b = v THEN more ELSE 0)
  BY <1>2, <1>3, <1>4, <1>6, <1>7
<1>9. DOMAIN f = Vouchers /\ DOMAIN h = Vouchers
  BY <1>1, <1>2, <1>3, <1>4
<1>10. SalesOf(f) \in Int /\ SalesOf(h) = SalesOf(f) + more
  BY <1>1, <1>8, <1>9, SalesMove
<1> QED
  BY <1>2, <1>3, <1>4, <1>7, <1>10

\* Requests that read are not of another kind than what they read.
LEMMA PromoReads ==
    ASSUME PromoInv, NEW r \in Desks,
           \/ \E c \in Codes : SellWithCode(r, c) \/ \E status \in {"ACTIVE", "DISABLED"} : CreateCode(r, c, status)
           \/ \E v \in Vouchers : IssueCustomerVoucher(r, v) \/ CancelCustomerVoucher(r, v) \/ SellWithVoucher(r, v)
    PROVE  PromoInv'
<1>0. PromoTyped
  BY DEF PromoInv
<1>1. ASSUME NEW c \in Codes, NEW status \in {"ACTIVE", "DISABLED"}, CreateCode(r, c, status) PROVE PromoInv'
  <2>1. PICK e : e = [op |-> "create", code |-> c, status |-> status]
    OBVIOUS
  <2>2. PromoHands(e) /\ PromoChecks(e) /\ Wants(r, e)
    BY <1>1, <2>1 DEF PromoHands, PromoChecks, CreateCode
  <2> QED
    BY <2>2, PromoGoesOn
<1>2. ASSUME NEW c \in Codes, SellWithCode(r, c) PROVE PromoInv'
  <2>1. PICK e : e = [op |-> "code", code |-> c, count |-> codes[c].count, total |-> campaigns["CODE"].count]
    OBVIOUS
  <2>2. codes[c] \in CodeRow /\ campaigns["CODE"] \in CampaignRow
    BY <1>0 DEF PromoTyped, Campaigns
  <2>3. codes[c].count \in Nat /\ campaigns["CODE"].count \in Nat
    BY <2>2 DEF CodeRow, CampaignRow
  <2>4. campaigns["CODE"].count < CampaignLimit /\ codes[c].count < CodeLimit
    BY <1>2 DEF SellWithCode, CodeValid
  <2>5. PromoHands(e) /\ PromoChecks(e)
    BY <2>1, <2>3, <2>4 DEF PromoHands, PromoChecks
  <2>6. Wants(r, e)
    BY <1>2, <2>1 DEF SellWithCode
  <2> QED
    BY <2>5, <2>6, PromoGoesOn
<1>3. ASSUME NEW v \in Vouchers, NEW op \in {"issue", "cancel"}, Wants(r, [op |-> op, voucher |-> v]),
             op = "cancel" => vouchers[v].status = "ACTIVE"
      PROVE  PromoInv'
  <2>1. PICK e : e = [op |-> op, voucher |-> v]
    OBVIOUS
  <2>2. PromoHands(e) /\ PromoChecks(e) /\ Wants(r, e)
    BY <1>3, <2>1 DEF PromoHands, PromoChecks
  <2> QED
    BY <2>2, PromoGoesOn
<1>4. ASSUME NEW v \in Vouchers, IssueCustomerVoucher(r, v) \/ CancelCustomerVoucher(r, v) PROVE PromoInv'
  BY <1>3, <1>4 DEF IssueCustomerVoucher, CancelCustomerVoucher
<1>5. ASSUME NEW v \in Vouchers, SellWithVoucher(r, v) PROVE PromoInv'
  <2>1. PICK e : e = [op |-> "voucher", voucher |-> v, total |-> campaigns["ASSIGNED_VOUCHER"].count]
    OBVIOUS
  <2>2. campaigns["ASSIGNED_VOUCHER"] \in CampaignRow
    BY <1>0 DEF PromoTyped, Campaigns
  <2>3. campaigns["ASSIGNED_VOUCHER"].count \in Nat
    BY <2>2 DEF CampaignRow
  <2>4. PromoHands(e) /\ PromoChecks(e) /\ Wants(r, e)
    BY <1>5, <2>1, <2>3 DEF PromoHands, PromoChecks, SellWithVoucher, VoucherValid
  <2> QED
    BY <2>4, PromoGoesOn
<1> QED
  BY <1>1, <1>2, <1>4, <1>5

\* A code is created, a campaign switched: no sale is counted.
LEMMA PromoOfficeKeeps ==
    ASSUME PromoInv,
           \/ \E r \in Desks : StoreCode(r)
           \/ \E k \in DOMAIN campaigns, status \in {"ACTIVE", "DISABLED"} : SwitchCampaign(k, status)
    PROVE  PromoInv'
<1>0. /\ OneRequestEach /\ PromoTyped
      /\ CodesCount /\ CodesCampaignCounts /\ VouchersCampaignCounts /\ VouchersRedeemOnce
  BY DEF PromoInv
<1>1. ASSUME NEW r \in Desks, StoreCode(r) PROVE PromoInv'
  <2>1. PICK d : d = desk[r] /\ PromoHands(d)
    BY DEF PromoInv
  <2>2. /\ d.op = "create" /\ codes' = [codes EXCEPT ![d.code].status = d.status]
        /\ UNCHANGED <<campaigns, vouchers>>
    BY <1>1, <2>1 DEF StoreCode, Doing
  <2>3. PICK rows : Committed(r, rows)
    BY <1>1 DEF StoreCode
  <2>4. blind \subseteq blind'
    BY <1>0, <2>3, DeskCommits
  <2>5. PICK c \in Codes : c = d.code /\ d.status \in {"ACTIVE", "DISABLED"}
    BY <2>1, <2>2 DEF PromoHands
  <2>6. PICK old \in CodeRow : old = codes[c]
    BY <1>0 DEF PromoTyped
  <2>7. PICK row : row = [old EXCEPT !.status = d.status]
    OBVIOUS
  <2>8. row \in CodeRow /\ row.count = old.count /\ row.sales = old.sales /\ old.sales \in Int
    BY <2>5, <2>7 DEF CodeRow
  <2>9. codes' = [codes EXCEPT ![c] = row]
    BY <2>2, <2>5, <2>6, <2>7
  <2>10. /\ codes' \in [Codes -> CodeRow] /\ codes'[c] = row /\ \A b \in Codes \ {c} : codes'[b] = codes[b]
         /\ SalesOf(codes) \in Int /\ SalesOf(codes)' = SalesOf(codes) + (row.sales - codes[c].sales)
    BY <1>0, <2>8, <2>9, CodeChanges
  <2>11. SalesOf(codes)' = SalesOf(codes)
    BY <2>6, <2>8, <2>10
  <2>12. CodesCount'
    <3>1. ASSUME NEW b \in Codes, Seen("code", b)' PROVE (codes[b].count = codes[b].sales /\ codes[b].sales <= CodeLimit)'
      <4>1. codes[b].count = codes[b].sales /\ codes[b].sales <= CodeLimit
        BY <1>0, <2>4, <3>1 DEF CodesCount, Seen
      <4>2. CASE b = c
        BY <2>6, <2>8, <2>10, <4>1, <4>2
      <4>3. CASE b # c
        BY <2>10, <4>1, <4>3
      <4> QED
        BY <4>2, <4>3
    <3> QED
      BY <3>1 DEF CodesCount
  <2>13. PromoTyped'
    BY <1>0, <2>2, <2>10 DEF PromoTyped
  <2>14. CodesCampaignCounts' /\ VouchersCampaignCounts' /\ VouchersRedeemOnce'
    BY <1>0, <2>2, <2>4, <2>11, NoSale
  <2> QED
    BY <2>3, <2>12, <2>13, <2>14, PromoLands
<1>2. ASSUME NEW k \in DOMAIN campaigns, NEW status \in {"ACTIVE", "DISABLED"}, SwitchCampaign(k, status) PROVE PromoInv'
  <2>1. /\ campaigns' = [campaigns EXCEPT ![k].status = status] /\ AtOnce
        /\ UNCHANGED <<codes, vouchers, blind>>
    BY <1>2 DEF SwitchCampaign, AtOnce
  <2>2. k \in Campaigns
    BY <1>0 DEF PromoTyped
  <2>3. \A j \in Campaigns : campaigns'[j] \in CampaignRow /\ campaigns'[j].count = campaigns[j].count
    <3>1. ASSUME NEW j \in Campaigns PROVE campaigns'[j] \in CampaignRow /\ campaigns'[j].count = campaigns[j].count
      <4>1. PICK old \in CampaignRow : old = campaigns[j]
        BY <1>0 DEF PromoTyped
      <4>2. campaigns'[j] = IF j = k THEN [old EXCEPT !.status = status] ELSE old
        BY <1>0, <2>1, <4>1 DEF PromoTyped
      <4>3. [old EXCEPT !.status = status] \in CampaignRow /\ [old EXCEPT !.status = status].count = old.count
        BY DEF CampaignRow
      <4> QED
        BY <4>1, <4>2, <4>3
    <3> QED
      BY <3>1
  <2>4. PromoTyped'
    <3>1. campaigns' \in [Campaigns -> CampaignRow]
      BY <1>0, <2>1, <2>3 DEF PromoTyped
    <3> QED
      BY <1>0, <2>1, <3>1 DEF PromoTyped
  <2>5. CodesCount' /\ VouchersRedeemOnce'
    BY <1>0, <2>1, NoSale
  <2>6. CodesCampaignCounts' /\ VouchersCampaignCounts'
    BY <1>0, <2>1, <2>3 DEF CodesCampaignCounts, VouchersCampaignCounts, Campaigns, Seen
  <2> QED
    BY <2>1, <2>4, <2>5, <2>6, PromoLands
<1> QED
  BY <1>1, <1>2

\* A voucher is issued or cancelled: one that was redeemed is not, unless unseen.
LEMMA PromoVoucherKeeps ==
    ASSUME PromoInv, NEW r \in Desks, StoreVoucher(r) \/ StoreCancel(r)
    PROVE  PromoInv'
<1>0. /\ OneRequestEach /\ PromoTyped
      /\ CodesCount /\ CodesCampaignCounts /\ VouchersCampaignCounts /\ VouchersRedeemOnce
  BY DEF PromoInv
<1>1. PICK d : d = desk[r] /\ PromoHands(d) /\ (r \notin overtaken => PromoChecks(d))
  BY DEF PromoInv
<1>2. d.op \in {"issue", "cancel"}
  BY <1>1 DEF StoreVoucher, StoreCancel, Doing
<1>3. PICK v \in Vouchers : v = d.voucher
  BY <1>1, <1>2 DEF PromoHands
<1>4. PICK old \in VoucherRow : old = vouchers[v]
  BY <1>0 DEF PromoTyped
<1>5. PICK status \in {"ACTIVE", "CANCELED"} : vouchers' = [vouchers EXCEPT ![v].status = status]
  BY <1>1, <1>3 DEF StoreVoucher, StoreCancel
<1>6. PICK row : row = [old EXCEPT !.status = status]
  OBVIOUS
<1>7. row \in VoucherRow /\ row.status # "REDEEMED" /\ row.sales = old.sales /\ old.sales \in Int
  BY <1>6 DEF VoucherRow
<1>8. UNCHANGED <<campaigns, codes>> /\ vouchers' = [vouchers EXCEPT ![v] = row]
  BY <1>4, <1>5, <1>6 DEF StoreVoucher, StoreCancel
<1>9. PICK rows : Committed(r, rows) /\ (old.status \in {"none", "ACTIVE"} \/ <<"voucher", v>> \in rows)
  BY <1>1, <1>3, <1>4 DEF StoreVoucher, StoreCancel
<1>10. blind \subseteq blind' /\ (r \in overtaken => rows \subseteq blind')
  BY <1>0, <1>9, DeskCommits
<1>11. Seen("voucher", v)' => old.status \in {"none", "ACTIVE"}
  <2>1. CASE r \in overtaken
    BY <1>9, <1>10, <2>1 DEF Seen
  <2>2. CASE r \notin overtaken
    <3>1. d.op = "cancel" => old.status = "ACTIVE"
      BY <1>1, <1>3, <1>4, <2>2 DEF PromoChecks
    <3>2. d.op = "issue" => old.status = "none"
      BY <1>1, <1>3, <1>4 DEF StoreVoucher, StoreCancel, Doing
    <3> QED
      BY <1>2, <3>1, <3>2
  <2> QED
    BY <2>1, <2>2
<1>12. /\ vouchers' \in [Vouchers -> VoucherRow] /\ vouchers'[v] = row
       /\ \A b \in Vouchers \ {v} : vouchers'[b] = vouchers[b]
       /\ SalesOf(vouchers) \in Int /\ SalesOf(vouchers)' = SalesOf(vouchers) + (row.sales - vouchers[v].sales)
  BY <1>0, <1>7, <1>8, VoucherChanges
<1>13. SalesOf(vouchers)' = SalesOf(vouchers)
  BY <1>4, <1>7, <1>12
<1>14. PromoTyped'
  BY <1>0, <1>8, <1>12 DEF PromoTyped
<1>15. CodesCount' /\ CodesCampaignCounts' /\ VouchersCampaignCounts'
  BY <1>0, <1>8, <1>10, <1>13, NoSale
<1>16. VouchersRedeemOnce'
  <2>1. ASSUME NEW b \in Vouchers, Seen("voucher", b)'
        PROVE  vouchers'[b].sales = (IF vouchers'[b].status = "REDEEMED" THEN 1 ELSE 0)
    <3>1. vouchers[b].sales = (IF vouchers[b].status = "REDEEMED" THEN 1 ELSE 0)
      BY <1>0, <1>10, <2>1 DEF VouchersRedeemOnce, Seen
    <3>2. CASE b = v
      BY <1>4, <1>7, <1>11, <1>12, <2>1, <3>1, <3>2
    <3>3. CASE b # v
      BY <1>12, <3>1, <3>3
    <3> QED
      BY <3>2, <3>3
  <2> QED
    BY <2>1 DEF VouchersRedeemOnce
<1> QED
  BY <1>9, <1>14, <1>15, <1>16, PromoLands

\* A sale with a code counts what it has read and one more, which is what there is unless it was overtaken.
LEMMA PromoCodeSaleKeeps ==
    ASSUME PromoInv, NEW r \in Desks, StoreCodeSale(r)
    PROVE  PromoInv'
<1>0. /\ OneRequestEach /\ PromoTyped
      /\ CodesCount /\ CodesCampaignCounts /\ VouchersCampaignCounts /\ VouchersRedeemOnce
  BY DEF PromoInv
<1>1. PICK d : d = desk[r] /\ PromoHands(d) /\ (r \notin overtaken => PromoChecks(d))
  BY DEF PromoInv
<1>2. d.op = "code"
  BY <1>1 DEF StoreCodeSale, Doing
<1>3. PICK c \in Codes : /\ c = d.code /\ d.count \in Nat /\ d.total \in Nat
                         /\ d.count < CodeLimit /\ d.total < CampaignLimit
  BY <1>1, <1>2 DEF PromoHands
<1>4. PICK old \in CodeRow : old = codes[c]
  BY <1>0 DEF PromoTyped
<1>5. old.count \in Nat /\ old.sales \in Nat
  BY DEF CodeRow
<1>6. PICK row : row = [old EXCEPT !.count = d.count + 1, !.sales = old.sales + 1]
  OBVIOUS
<1>7. row \in CodeRow /\ row.count = d.count + 1 /\ row.sales = old.sales + 1
  <2>1. PICK m \in Nat, n \in Nat : m = d.count + 1 /\ n = old.sales + 1
    BY <1>3, <1>5
  <2>2. row = [old EXCEPT !.count = m, !.sales = n]
    BY <1>6, <2>1
  <2>3. row \in CodeRow /\ row.count = m /\ row.sales = n
    BY <2>2 DEF CodeRow
  <2> QED
    BY <2>1, <2>3
<1>8. UNCHANGED vouchers /\ codes' = [codes EXCEPT ![c] = row]
  BY <1>1, <1>3, <1>4, <1>6 DEF StoreCodeSale
<1>9. campaigns' = [campaigns EXCEPT !["CODE"].count = d.total + 1]
  BY <1>1 DEF StoreCodeSale
<1>10. PICK rows : /\ Committed(r, rows)
                   /\ campaigns["CODE"].count = d.total \/ <<"campaign", "CODE">> \in rows
                   /\ old.count = d.count \/ <<"code", c>> \in rows
  BY <1>1, <1>3, <1>4 DEF StoreCodeSale
<1>11. blind \subseteq blind' /\ (r \in overtaken => rows \subseteq blind')
  BY <1>0, <1>10, DeskCommits
<1>12. /\ Seen("campaign", "CODE")' => campaigns["CODE"].count = d.total
       /\ Seen("code", c)' => old.count = d.count
  <2>1. CASE r \in overtaken
    BY <1>10, <1>11, <2>1 DEF Seen
  <2>2. CASE r \notin overtaken
    BY <1>1, <1>2, <1>3, <1>4, <2>2 DEF PromoChecks
  <2> QED
    BY <2>1, <2>2
<1>13. /\ codes' \in [Codes -> CodeRow] /\ codes'[c] = row /\ \A b \in Codes \ {c} : codes'[b] = codes[b]
       /\ SalesOf(codes) \in Int /\ SalesOf(codes)' = SalesOf(codes) + (row.sales - codes[c].sales)
  BY <1>0, <1>7, <1>8, CodeChanges
<1>14. SalesOf(codes)' = SalesOf(codes) + 1
  BY <1>4, <1>5, <1>7, <1>13
<1>15. campaigns' \in [Campaigns -> CampaignRow] /\ campaigns'["CODE"].count = d.total + 1
       /\ campaigns'["ASSIGNED_VOUCHER"] = campaigns["ASSIGNED_VOUCHER"]
  <2>1. PICK k \in CampaignRow : k = campaigns["CODE"]
    BY <1>0 DEF PromoTyped, Campaigns
  <2>2. PICK l : l = [k EXCEPT !.count = d.total + 1]
    OBVIOUS
  <2>3. l \in CampaignRow /\ l.count = d.total + 1
    BY <1>3, <2>2 DEF CampaignRow
  <2>4. campaigns' = [campaigns EXCEPT !["CODE"] = l]
    BY <1>9, <2>1, <2>2
  <2> QED
    BY <1>0, <2>3, <2>4 DEF PromoTyped, Campaigns
<1>16. PromoTyped'
  BY <1>0, <1>8, <1>13, <1>15 DEF PromoTyped
<1>17. CodesCount'
  <2>1. ASSUME NEW b \in Codes, Seen("code", b)' PROVE codes'[b].count = codes'[b].sales /\ codes'[b].sales <= CodeLimit
    <3>1. codes[b].count = codes[b].sales /\ codes[b].sales <= CodeLimit
      BY <1>0, <1>11, <2>1 DEF CodesCount, Seen
    <3>2. CASE b = c
      <4>1. d.count = old.sales /\ row.count = row.sales
        BY <1>4, <1>7, <1>12, <2>1, <3>1, <3>2
      <4>2. row.sales <= CodeLimit
        BY <1>3, <1>7, <4>1, PromotionsAssumption
      <4> QED
        BY <1>13, <3>2, <4>1, <4>2
    <3>3. CASE b # c
      BY <1>13, <3>1, <3>3
    <3> QED
      BY <3>2, <3>3
  <2> QED
    BY <2>1 DEF CodesCount
<1>18. CodesCampaignCounts'
  <2>1. SUFFICES ASSUME Seen("campaign", "CODE")'
                 PROVE  campaigns'["CODE"].count = SalesOf(codes)' /\ SalesOf(codes)' <= CampaignLimit
    BY DEF CodesCampaignCounts
  <2>2. Seen("campaign", "CODE")
    BY <1>11, <2>1 DEF Seen
  <2>3. d.total = SalesOf(codes)
    BY <1>0, <1>12, <2>1, <2>2 DEF CodesCampaignCounts
  <2> QED
    BY <1>3, <1>14, <1>15, <2>3, PromotionsAssumption
<1>19. VouchersRedeemOnce' /\ VouchersCampaignCounts'
  <2>1. VouchersRedeemOnce' /\ SalesOf(vouchers)' = SalesOf(vouchers)
    BY <1>0, <1>8, <1>11, NoSale
  <2> QED
    BY <1>0, <1>11, <1>15, <2>1 DEF VouchersCampaignCounts, Seen
<1> QED
  BY <1>10, <1>16, <1>17, <1>18, <1>19, PromoLands

\* So does a sale with a voucher, which it redeems.
LEMMA PromoVoucherSaleKeeps ==
    ASSUME PromoInv, NEW r \in Desks, StoreVoucherSale(r)
    PROVE  PromoInv'
<1>0. /\ OneRequestEach /\ PromoTyped
      /\ CodesCount /\ CodesCampaignCounts /\ VouchersCampaignCounts /\ VouchersRedeemOnce
  BY DEF PromoInv
<1>1. PICK d : d = desk[r] /\ PromoHands(d) /\ (r \notin overtaken => PromoChecks(d))
  BY DEF PromoInv
<1>2. d.op = "voucher"
  BY <1>1 DEF StoreVoucherSale, Doing
<1>3. PICK v \in Vouchers : v = d.voucher /\ d.total \in Nat
  BY <1>1, <1>2 DEF PromoHands
<1>4. PICK old \in VoucherRow : old = vouchers[v]
  BY <1>0 DEF PromoTyped
<1>5. old.sales \in Nat
  BY DEF VoucherRow
<1>6. PICK row : row = [status |-> "REDEEMED", sales |-> old.sales + 1]
  OBVIOUS
<1>7. row \in VoucherRow /\ row.status = "REDEEMED" /\ row.sales = old.sales + 1
  BY <1>5, <1>6 DEF VoucherRow
<1>8. UNCHANGED codes /\ vouchers' = [vouchers EXCEPT ![v] = row]
  BY <1>1, <1>3, <1>4, <1>6 DEF StoreVoucherSale
<1>9. campaigns' = [campaigns EXCEPT !["ASSIGNED_VOUCHER"].count = d.total + 1]
  BY <1>1 DEF StoreVoucherSale
<1>10. PICK rows : /\ Committed(r, rows)
                   /\ campaigns["ASSIGNED_VOUCHER"].count = d.total \/ <<"campaign", "ASSIGNED_VOUCHER">> \in rows
                   /\ old.status = "ACTIVE" \/ <<"voucher", v>> \in rows
  BY <1>1, <1>3, <1>4 DEF StoreVoucherSale
<1>11. blind \subseteq blind' /\ (r \in overtaken => rows \subseteq blind')
  BY <1>0, <1>10, DeskCommits
<1>12. /\ Seen("campaign", "ASSIGNED_VOUCHER")' => campaigns["ASSIGNED_VOUCHER"].count = d.total
       /\ Seen("voucher", v)' => old.status = "ACTIVE"
  <2>1. CASE r \in overtaken
    BY <1>10, <1>11, <2>1 DEF Seen
  <2>2. CASE r \notin overtaken
    BY <1>1, <1>2, <1>3, <1>4, <2>2 DEF PromoChecks
  <2> QED
    BY <2>1, <2>2
<1>13. /\ vouchers' \in [Vouchers -> VoucherRow] /\ vouchers'[v] = row
       /\ \A b \in Vouchers \ {v} : vouchers'[b] = vouchers[b]
       /\ SalesOf(vouchers) \in Int /\ SalesOf(vouchers)' = SalesOf(vouchers) + (row.sales - vouchers[v].sales)
  BY <1>0, <1>7, <1>8, VoucherChanges
<1>14. SalesOf(vouchers)' = SalesOf(vouchers) + 1
  BY <1>4, <1>5, <1>7, <1>13
<1>15. campaigns' \in [Campaigns -> CampaignRow] /\ campaigns'["ASSIGNED_VOUCHER"].count = d.total + 1
       /\ campaigns'["CODE"] = campaigns["CODE"]
  <2>1. PICK k \in CampaignRow : k = campaigns["ASSIGNED_VOUCHER"]
    BY <1>0 DEF PromoTyped, Campaigns
  <2>2. PICK l : l = [k EXCEPT !.count = d.total + 1]
    OBVIOUS
  <2>3. l \in CampaignRow /\ l.count = d.total + 1
    BY <1>3, <2>2 DEF CampaignRow
  <2>4. campaigns' = [campaigns EXCEPT !["ASSIGNED_VOUCHER"] = l]
    BY <1>9, <2>1, <2>2
  <2> QED
    BY <1>0, <2>3, <2>4 DEF PromoTyped, Campaigns
<1>16. PromoTyped'
  BY <1>0, <1>8, <1>13, <1>15 DEF PromoTyped
<1>17. VouchersRedeemOnce'
  <2>1. ASSUME NEW b \in Vouchers, Seen("voucher", b)'
        PROVE  vouchers'[b].sales = (IF vouchers'[b].status = "REDEEMED" THEN 1 ELSE 0)
    <3>1. vouchers[b].sales = (IF vouchers[b].status = "REDEEMED" THEN 1 ELSE 0)
      BY <1>0, <1>11, <2>1 DEF VouchersRedeemOnce, Seen
    <3>2. CASE b = v
      BY <1>4, <1>7, <1>12, <1>13, <2>1, <3>1, <3>2
    <3>3. CASE b # v
      BY <1>13, <3>1, <3>3
    <3> QED
      BY <3>2, <3>3
  <2> QED
    BY <2>1 DEF VouchersRedeemOnce
<1>18. VouchersCampaignCounts'
  <2>1. SUFFICES ASSUME Seen("campaign", "ASSIGNED_VOUCHER")'
                 PROVE  campaigns'["ASSIGNED_VOUCHER"].count = SalesOf(vouchers)'
    BY DEF VouchersCampaignCounts
  <2>2. Seen("campaign", "ASSIGNED_VOUCHER")
    BY <1>11, <2>1 DEF Seen
  <2>3. d.total = SalesOf(vouchers)
    BY <1>0, <1>12, <2>1, <2>2 DEF VouchersCampaignCounts
  <2> QED
    BY <1>14, <1>15, <2>3
<1>19. CodesCount' /\ CodesCampaignCounts'
  <2>1. CodesCount' /\ SalesOf(codes)' = SalesOf(codes)
    BY <1>0, <1>8, <1>11, NoSale
  <2> QED
    BY <1>0, <1>11, <1>15, <2>1 DEF CodesCampaignCounts, Seen
<1> QED
  BY <1>10, <1>16, <1>17, <1>18, <1>19, PromoLands

\* Where nothing of the promotions moves, they are as they were.
LEMMA PromoStands == PromoInv /\ UNCHANGED promotionVars => PromoInv'
<1> SUFFICES ASSUME PromoInv, UNCHANGED promotionVars PROVE PromoInv'
  OBVIOUS
<1>1. UNCHANGED <<campaigns, codes, vouchers, blind>> /\ UNCHANGED <<desk, overtaken>>
  BY DEF promotionVars, promotionRows, deskVars
<1>2. OneRequestEach'
  BY <1>1 DEF PromoInv, OneRequestEach
<1> QED
  BY <1>1, <1>2, PromoStays

\* Every step keeps the invariant.
LEMMA PromoStepInv == PromoInv /\ [PromotionsNext]_promotionVars => PromoInv'
<1> SUFFICES ASSUME PromoInv, [PromotionsNext]_promotionVars PROVE PromoInv'
  OBVIOUS
<1>1. CASE UNCHANGED promotionVars
  BY <1>1, PromoStands
<1>2. ASSUME NEW r \in Desks,
             \/ \E c \in Codes : SellWithCode(r, c) \/ \E status \in {"ACTIVE", "DISABLED"} : CreateCode(r, c, status)
             \/ \E v \in Vouchers : IssueCustomerVoucher(r, v) \/ CancelCustomerVoucher(r, v) \/ SellWithVoucher(r, v)
      PROVE  PromoInv'
  BY <1>2, PromoReads
<1>3. ASSUME NEW r \in Desks, StoreCode(r) \/ StoreVoucher(r) \/ StoreCancel(r) \/ StoreCodeSale(r) \/ StoreVoucherSale(r)
      PROVE  PromoInv'
  BY <1>3, PromoOfficeKeeps, PromoVoucherKeeps, PromoCodeSaleKeeps, PromoVoucherSaleKeeps
<1>4. ASSUME NEW r \in Desks, PromotionRequestFails(r) PROVE PromoInv'
  <2>1. UNCHANGED <<campaigns, codes, vouchers>> /\ RolledBack(r) /\ OneRequestEach
    BY <1>4 DEF PromotionRequestFails, promotionRows, PromoInv
  <2>2. /\ OneRequestEach' /\ UNCHANGED blind
        /\ desk'[r].op = "none" /\ r \notin overtaken'
        /\ \A q \in Desks \ {r} : desk'[q] = desk[q] /\ (q \in overtaken' <=> q \in overtaken)
    BY <2>1, DeskRollsBack
  <2> QED
    BY <2>1, <2>2, PromoStays
<1>5. ASSUME NEW k \in DOMAIN campaigns, NEW status \in {"ACTIVE", "DISABLED"}, SwitchCampaign(k, status) PROVE PromoInv'
  BY <1>5, PromoOfficeKeeps
<1>6. CASE PromotionsNext
  BY <1>2, <1>3, <1>4, <1>5, <1>6 DEF PromotionsNext
<1> QED
  BY <1>1, <1>6

\* What the invariant says of the promotions.
LEMMA PromoShows ==
    ASSUME CodesCount, CodesCampaignCounts, VouchersCampaignCounts, VouchersRedeemOnce
    PROVE  RedeemedWithinLimits
BY DEF CodesCount, CodesCampaignCounts, VouchersCampaignCounts, VouchersRedeemOnce, RedeemedWithinLimits

\* What the invariant says of them.
LEMMA PromoInvShows == PromoInv => RedeemedWithinLimits
BY PromoShows DEF PromoInv

\* The inductive invariant of the promotions and the requests that redeem them.
THEOREM PromoInvariant == PromotionsSpec => []PromoInv
<1> QED
  BY PromoInitInv, PromoStepInv, PTL DEF PromotionsSpec

\* For any limits, codes and vouchers: none is redeemed beyond its limit, and the counts are the numbers
\* of the sales, but for rows written by a sale that had read them before another changed them.
THEOREM PromoRedeemedWithin == PromotionsSpec => []RedeemedWithinLimits
<1> QED
  BY PromoInvShows, PromoInvariant, PTL

-----------------------------------------------------------------------------
(* The price of a cart: rounding, and a discount spread over the lines. *)

\* money(n / d) is n / d rounded to the nearest paisa.
LEMMA PaiseIsNear ==
    ASSUME NEW n \in Nat, NEW d \in Nat, d > 0
    PROVE  /\ Paise(n, d) \in Nat
           /\ 2 * (d * Paise(n, d)) <= 2 * n + d
           /\ 2 * n < 2 * (d * Paise(n, d)) + d
<1>1. PICK a \in Nat : a = 2 * n + d
  OBVIOUS
<1>2. PICK b \in Nat : b = 2 * d /\ b > 0
  OBVIOUS
<1>3. PICK q : q = a \div b
  OBVIOUS
<1>4. q \in Nat /\ b * q <= a /\ a < b * q + b
  BY <1>1, <1>2, <1>3
<1>5. b * q = 2 * (d * q)
  BY <1>2, <1>4
<1>6. Paise(n, d) = q
  BY <1>1, <1>2, <1>3 DEF Paise
<1> QED
  BY <1>1, <1>2, <1>4, <1>5, <1>6

\* The discount total that remains in r after each line, of the lines p whose sum is sum: all lines up to
\* the last one take what is near their share of it, or what they weigh, or what remains; m is the last.
SpreadSo(total, sum, p, m, n, r) ==
    /\ total \in Nat /\ total <= sum /\ sum \in Nat /\ n \in Nat /\ m \in 1 .. n
    /\ \A i \in 1 .. n : p[i] \in Nat
    /\ PartialSum(p, n) = sum /\ \A i \in m + 1 .. n : p[i] = 0 /\ (r[i - 1] = 0 => r[i] = 0)
    /\ r[0] = total /\ (r[m - 1] \in Nat => r[m] = 0)
    /\ \A i \in 1 .. m - 1 : r[i - 1] \in Nat =>
         \E a \in Nat :
            /\ r[i] = r[i - 1] - a /\ a <= r[i - 1] /\ 2 * (sum * a) <= 2 * (total * p[i]) + sum
            /\ a = r[i - 1] \/ a = p[i] \/ 2 * (total * p[i]) <= 2 * (sum * a) + sum

\* A product of natural numbers is one, and a larger factor makes a product no smaller.
LEMMA ProductRises ==
    ASSUME NEW a \in Nat, NEW b \in Int, NEW c \in Int, b <= c
    PROVE  a * b \in Int /\ a * c \in Int /\ a * b <= a * c
OBVIOUS

\* Before the last line, what was given differs from the lines' share by half a paisa for each of them.
LEMMA SpreadRuns ==
    ASSUME NEW total, NEW sum, NEW p, NEW m, NEW n, NEW r, SpreadSo(total, sum, p, m, n, r)
    PROVE  \A k \in 0 .. m - 1 :
             /\ r[k] \in Nat /\ r[k] <= total /\ PartialSum(p, k) \in Nat /\ PartialSum(p, k) <= sum
             /\ 2 * (sum * (total - r[k])) - 2 * (total * PartialSum(p, k)) <= k * sum
             /\ 2 * (total * PartialSum(p, k)) - 2 * (sum * (total - r[k])) <= k * sum
<1>1. total \in Nat /\ sum \in Nat /\ n \in Nat /\ m \in 1 .. n /\ total <= sum /\ r[0] = total
  BY DEF SpreadSo
<1>2. \A k \in 0 .. n : PartialSum(p, k) \in Nat /\ PartialSum(p, k) <= sum
  BY <1>1, PartialSumClimbs DEF SpreadSo
<1> DEFINE Near(k) ==
      /\ r[k] \in Nat /\ r[k] <= total
      /\ 2 * (sum * (total - r[k])) - 2 * (total * PartialSum(p, k)) <= k * sum
      /\ 2 * (total * PartialSum(p, k)) - 2 * (sum * (total - r[k])) <= k * sum
<1> DEFINE S == {k \in Nat : k <= m - 1 => Near(k)}
<1>3. 0 \in S
  <2>1. total - r[0] = 0 /\ PartialSum(p, 0) = 0 /\ r[0] \in Nat /\ r[0] <= total
    BY <1>1, PartialSumSteps
  <2>2. sum * 0 = 0 /\ total * 0 = 0 /\ 0 * sum = 0
    BY <1>1
  <2>3. Near(0)
    BY <2>1, <2>2
  <2> QED
    BY <2>3
<1>4. ASSUME NEW k \in Nat, k \in S PROVE k + 1 \in S
  <2>1. SUFFICES ASSUME k + 1 <= m - 1 PROVE Near(k + 1)
    OBVIOUS
  <2>2. Near(k) /\ k \in 0 .. n /\ k + 1 \in 0 .. n /\ k + 1 \in 1 .. m - 1 /\ (k + 1) - 1 = k
    BY <1>1, <1>4, <2>1
  <2>3. PICK a \in Nat :
           /\ r[k + 1] = r[k] - a /\ a <= r[k] /\ 2 * (sum * a) <= 2 * (total * p[k + 1]) + sum
           /\ a = r[k] \/ a = p[k + 1] \/ 2 * (total * p[k + 1]) <= 2 * (sum * a) + sum
    BY <2>2 DEF SpreadSo
  <2>4. PICK q \in Nat : q = p[k + 1]
    <3>1. k + 1 \in 1 .. n /\ \A i \in 1 .. n : p[i] \in Nat
      BY <1>1, <2>2 DEF SpreadSo
    <3> QED
      BY <3>1
  <2>5. PICK b \in Nat : b = PartialSum(p, k)
    BY <1>2, <2>2
  <2>6. PartialSum(p, k + 1) = b + q /\ b + q <= sum
    BY <1>2, <2>2, <2>4, <2>5, PartialSumSteps
  <2>7. PICK g \in Nat : g = total - r[k] /\ g <= total
    BY <1>1, <2>2
  <2>8. r[k + 1] \in Nat /\ r[k + 1] <= total /\ total - r[k + 1] = g + a
    BY <1>1, <2>2, <2>3, <2>7
  <2>9. 2 * (sum * g) - 2 * (total * b) <= k * sum /\ 2 * (total * b) - 2 * (sum * g) <= k * sum
    BY <2>2, <2>5, <2>7
  <2>10. /\ sum * (g + a) = sum * g + sum * a /\ total * (b + q) = total * b + total * q
         /\ (k + 1) * sum = k * sum + sum
         /\ sum * g \in Int /\ sum * a \in Int /\ total * b \in Int /\ total * q \in Int /\ k * sum \in Nat
    <3>1. sum * (g + a) = sum * g + sum * a /\ sum * g \in Int /\ sum * a \in Int
      BY <1>1, <2>3, <2>7
    <3>2. total * (b + q) = total * b + total * q /\ total * b \in Int /\ total * q \in Int
      BY <1>1, <2>4, <2>5
    <3>3. (k + 1) * sum = k * sum + sum /\ k * sum \in Nat
      BY <1>1, <1>4
    <3> QED
      BY <3>1, <3>2, <3>3
  <2>11. 2 * (sum * (g + a)) - 2 * (total * (b + q)) <= (k + 1) * sum
    BY <1>1, <2>3, <2>4, <2>9, <2>10
  <2>12. 2 * (total * (b + q)) - 2 * (sum * (g + a)) <= (k + 1) * sum
    <3>1. CASE a = r[k]
      <4>1. g + a = total
        BY <1>1, <2>7, <3>1
      <4>2. total * (b + q) <= total * sum
        BY <1>1, <2>4, <2>5, <2>6, ProductRises
      <4>3. total * sum = sum * total /\ (k + 1) * sum \in Nat
        BY <1>1, <2>10
      <4> QED
        BY <1>1, <2>4, <2>5, <4>1, <4>2, <4>3
    <3>2. CASE a = q
      <4>1. q * total <= q * sum
        BY <1>1, <2>4, ProductRises
      <4>2. q * total = total * q /\ q * sum = sum * a
        BY <1>1, <2>4, <3>2
      <4> QED
        BY <1>1, <2>9, <2>10, <4>1, <4>2
    <3>3. CASE 2 * (total * q) <= 2 * (sum * a) + sum
      BY <1>1, <2>9, <2>10, <3>3
    <3> QED
      BY <2>3, <2>4, <3>1, <3>2, <3>3
  <2> QED
    BY <2>6, <2>8, <2>11, <2>12
<1>5. \A k \in Nat : k \in S
  <2> HIDE DEF S
  <2> QED
    BY <1>3, <1>4, CountingUp
<1>6. ASSUME NEW k \in 0 .. m - 1 PROVE Near(k)
  <2>1. k \in Nat /\ k <= m - 1 /\ k \in S
    BY <1>1, <1>5
  <2> QED
    BY <2>1
<1>7. ASSUME NEW k \in 0 .. m - 1 PROVE PartialSum(p, k) \in Nat /\ PartialSum(p, k) <= sum
  BY <1>1, <1>2
<1> QED
  BY <1>6, <1>7

\* Nothing remains after the last line.
LEMMA SpreadEnds ==
    ASSUME NEW total, NEW sum, NEW p, NEW m, NEW n, NEW r, SpreadSo(total, sum, p, m, n, r)
    PROVE  r[m] = 0
<1>1. m - 1 \in 0 .. m - 1 /\ (r[m - 1] \in Nat => r[m] = 0)
  BY DEF SpreadSo
<1>2. \A k \in 0 .. m - 1 : r[k] \in Nat
  BY SpreadRuns
<1> QED
  BY <1>1, <1>2

\* What the lines are given is near their share: by half a paisa for each line.
LEMMA SpreadIsFair ==
    ASSUME NEW total, NEW sum, NEW p, NEW m, NEW n, NEW r, SpreadSo(total, sum, p, m, n, r), NEW i \in 1 .. n
    PROVE  /\ r[i - 1] \in Int /\ r[i] \in Int
           /\ 2 * ((r[i - 1] - r[i]) * sum - total * p[i]) <= n * sum
           /\ -(2 * ((r[i - 1] - r[i]) * sum - total * p[i])) <= n * sum
<1>0. r[m] = 0
  BY SpreadEnds
<1>1. total \in Nat /\ sum \in Nat /\ n \in Nat /\ m \in 1 .. n /\ total <= sum /\ r[0] = total /\ r[m] = 0
  BY <1>0 DEF SpreadSo
<1>2. \A k \in 1 .. n : p[k] \in Nat
  BY DEF SpreadSo
<1>3. \A k \in 0 .. n : PartialSum(p, k) \in Nat /\ PartialSum(p, k) <= sum
  BY <1>1, <1>2, PartialSumClimbs DEF SpreadSo
<1>4. \A k \in m + 1 .. n : p[k] = 0 /\ (r[k - 1] = 0 => r[k] = 0)
  BY DEF SpreadSo
<1>5. \A k \in m .. n : r[k] = 0 /\ PartialSum(p, k) = PartialSum(p, m)
  <2> DEFINE S == {k \in Nat : m + k <= n => r[m + k] = 0 /\ PartialSum(p, m + k) = PartialSum(p, m)}
  <2>1. 0 \in S
    BY <1>1
  <2>2. ASSUME NEW k \in Nat, k \in S PROVE k + 1 \in S
    <3>1. SUFFICES ASSUME m + (k + 1) <= n PROVE r[m + (k + 1)] = 0 /\ PartialSum(p, m + (k + 1)) = PartialSum(p, m)
      OBVIOUS
    <3>2. r[m + k] = 0 /\ PartialSum(p, m + k) = PartialSum(p, m)
      BY <1>1, <2>2, <3>1
    <3>3. PICK j \in Nat : j = m + k
      BY <1>1, <2>2
    <3>4. m + (k + 1) = j + 1 /\ j + 1 \in m + 1 .. n /\ (j + 1) - 1 = j
      BY <1>1, <2>2, <3>1, <3>3
    <3>5. p[j + 1] = 0 /\ (r[j] = 0 => r[j + 1] = 0)
      BY <1>4, <3>4
    <3>6. PartialSum(p, j + 1) = PartialSum(p, j) + p[j + 1] /\ PartialSum(p, j) \in Nat
      BY <1>1, <1>3, <3>3, <3>4, PartialSumSteps
    <3> QED
      BY <3>2, <3>3, <3>4, <3>5, <3>6
  <2>3. \A k \in Nat : k \in S
    <3> HIDE DEF S
    <3> QED
      BY <2>1, <2>2, CountingUp
  <2>4. ASSUME NEW k \in m .. n PROVE r[k] = 0 /\ PartialSum(p, k) = PartialSum(p, m)
    <3>1. PICK j \in Nat : j = k - m
      BY <1>1
    <3>2. m + j = k /\ j \in S
      BY <1>1, <2>3, <3>1
    <3> QED
      BY <3>2
  <2> QED
    BY <2>4
<1>6. PartialSum(p, m) = sum
  <2>1. n \in m .. n /\ PartialSum(p, n) = sum
    BY <1>1 DEF SpreadSo
  <2> QED
    BY <1>5, <2>1
<1>7. PICK q \in Nat : q = p[i]
  BY <1>2
<1>10. \A k \in 0 .. m - 1 :
         /\ r[k] \in Nat /\ r[k] <= total
         /\ 2 * (sum * (total - r[k])) - 2 * (total * PartialSum(p, k)) <= k * sum
         /\ 2 * (total * PartialSum(p, k)) - 2 * (sum * (total - r[k])) <= k * sum
  BY SpreadRuns
<1>8. CASE i > m
  <2>1. r[i - 1] = 0 /\ r[i] = 0 /\ q = 0
    <3>1. i - 1 \in m .. n /\ i \in m .. n /\ i \in m + 1 .. n
      BY <1>1, <1>8
    <3> QED
      BY <1>4, <1>5, <1>7, <3>1
  <2>2. n * sum \in Nat /\ (0 - 0) * sum = 0 /\ total * 0 = 0
    BY <1>1
  <2> QED
    BY <1>7, <2>1, <2>2
<1>9. CASE i <= m
  <2>1. PICK k \in Nat : k = i - 1 /\ k \in 0 .. m - 1 /\ k <= n - 1 /\ k + 1 = i
    BY <1>1, <1>9
  <2>2. PICK b \in Nat : b = PartialSum(p, k)
    BY <1>1, <1>3, <2>1
  <2>3. PICK g \in Nat : g = total - r[k] /\ r[k] \in Nat /\ g <= total
    <3>1. r[k] \in Nat /\ r[k] <= total
      BY <1>10, <2>1
    <3> QED
      BY <1>1, <3>1
  <2>4. 2 * (sum * g) - 2 * (total * b) <= k * sum /\ 2 * (total * b) - 2 * (sum * g) <= k * sum
    BY <1>10, <2>1, <2>2, <2>3
  <2>5. PartialSum(p, i) = b + q /\ b + q <= sum
    <3>1. i \in 0 .. n /\ PartialSum(p, k + 1) = PartialSum(p, k) + p[k + 1]
      BY <2>1, PartialSumSteps
    <3> QED
      BY <1>3, <1>7, <2>1, <2>2, <3>1
  <2>6. k * sum \in Nat /\ (k + 1) * sum = k * sum + sum /\ (k + 1) * sum <= n * sum /\ n * sum \in Nat
    <3>1. sum * (k + 1) <= sum * n /\ sum * (k + 1) = (k + 1) * sum /\ sum * n = n * sum
      BY <1>1, <2>1, ProductRises
    <3> QED
      BY <1>1, <2>1, <3>1
  <2>7. /\ total * (b + q) = total * b + total * q /\ total * b \in Int /\ total * q \in Int /\ sum * g \in Int
    BY <1>1, <1>7, <2>2, <2>3
  <2>8. CASE i = m
    <3>1. b + q = sum /\ r[i] = 0
      BY <1>1, <1>6, <2>5, <2>8
    <3>2. (r[k] - 0) * sum = sum * total - sum * g /\ sum * total = total * (b + q)
      BY <1>1, <2>3, <3>1
    <3>3. 2 * ((r[k] - 0) * sum - total * q) = 2 * (total * b) - 2 * (sum * g)
      BY <2>7, <3>2
    <3> QED
      BY <1>7, <2>1, <2>3, <2>4, <2>6, <2>7, <3>1, <3>3
  <2>9. CASE i < m
    <3>1. PICK a \in Nat :
             /\ r[i] = r[k] - a /\ a <= r[k] /\ 2 * (sum * a) <= 2 * (total * q) + sum
             /\ a = r[k] \/ a = q \/ 2 * (total * q) <= 2 * (sum * a) + sum
      <4>1. i \in 1 .. m - 1 /\ i - 1 = k /\ r[k] \in Nat
        BY <1>1, <2>1, <2>3, <2>9
      <4> QED
        BY <1>7, <4>1 DEF SpreadSo
    <3>2. (r[k] - r[i]) * sum = sum * a /\ sum * a \in Int
      BY <1>1, <2>3, <3>1
    <3>3. 2 * (sum * a) - 2 * (total * q) <= (k + 1) * sum
      BY <1>1, <2>6, <2>7, <3>1, <3>2
    <3>4. 2 * (total * q) - 2 * (sum * a) <= (k + 1) * sum
      <4>1. CASE a = r[k]
        <5>1. a + g = total /\ sum * total = sum * a + sum * g
          BY <1>1, <2>3, <4>1
        <5>2. total * (b + q) <= total * sum /\ total * sum = sum * total
          BY <1>1, <1>7, <2>2, <2>5, ProductRises
        <5> QED
          BY <1>1, <2>4, <2>6, <2>7, <3>2, <5>1, <5>2
      <4>2. CASE a = q
        <5>1. q * total <= q * sum /\ q * total = total * q /\ q * sum = sum * a
          BY <1>1, <1>7, <4>2, ProductRises
        <5> QED
          BY <1>1, <2>6, <2>7, <3>2, <5>1
      <4>3. CASE 2 * (total * q) <= 2 * (sum * a) + sum
        BY <1>1, <2>6, <2>7, <3>2, <4>3
      <4> QED
        BY <3>1, <4>1, <4>2, <4>3
    <3>5. r[i] \in Int
      BY <2>3, <3>1
    <3>6. (r[i - 1] - r[i]) * sum = sum * a /\ total * p[i] = total * q /\ (k + 1) * sum <= n * sum /\ r[i - 1] \in Int
      BY <1>7, <2>1, <2>3, <2>6, <3>2
    <3>7. PICK x \in Int : x = sum * a
      BY <3>2
    <3>8. PICK y \in Int : y = total * q
      BY <2>7
    <3>9. 2 * (x - y) <= n * sum /\ -(2 * (x - y)) <= n * sum
      <4>1. 2 * x - 2 * y <= (k + 1) * sum /\ 2 * y - 2 * x <= (k + 1) * sum
        BY <3>3, <3>4, <3>7, <3>8
      <4>2. (k + 1) * sum \in Int /\ n * sum \in Int /\ (k + 1) * sum <= n * sum
        BY <2>6, <1>1, <2>1
      <4> QED
        BY <4>1, <4>2
    <3> QED
      BY <3>5, <3>6, <3>7, <3>8, <3>9
  <2> QED
    BY <1>1, <1>9, <2>8, <2>9
<1> QED
  BY <1>1, <1>8, <1>9

\* What the lines are given adds up to the discount.
GivenOut(n, r) == [i \in 1 .. n |-> r[i - 1] - r[i]]
LEMMA SpreadAddsUp ==
    ASSUME NEW total, NEW sum, NEW p, NEW m, NEW n, NEW r, SpreadSo(total, sum, p, m, n, r)
    PROVE  GivenOut(n, r) \in [1 .. n -> Int] /\ PartialSum(GivenOut(n, r), n) = total
<1>10. PICK given : given = GivenOut(n, r)
  OBVIOUS
<1>11. given = [i \in 1 .. n |-> r[i - 1] - r[i]]
  BY <1>10 DEF GivenOut
<1>0. r[m] = 0
  BY SpreadEnds
<1>1. total \in Nat /\ n \in Nat /\ m \in 1 .. n /\ r[0] = total /\ r[m] = 0
  BY <1>0 DEF SpreadSo
<1>2. \A i \in 1 .. n : r[i - 1] \in Int /\ r[i] \in Int
  BY SpreadIsFair
<1>3. \A i \in 0 .. n : r[i] \in Int
  <2>1. ASSUME NEW i \in 0 .. n PROVE r[i] \in Int
    <3>1. i = 0 \/ i \in 1 .. n
      BY <1>1
    <3> QED
      BY <1>1, <1>2, <3>1
  <2> QED
    BY <2>1
<1>4. given \in [1 .. n -> Int]
  BY <1>2, <1>11
<1> DEFINE S == {k \in Nat : k <= n => PartialSum(given, k) = total - r[k]}
<1>5. 0 \in S
  <2>1. PartialSum(given, 0) = 0 /\ total - r[0] = 0
    BY <1>1, PartialSumSteps
  <2> QED
    BY <2>1
<1>6. ASSUME NEW k \in Nat, k \in S PROVE k + 1 \in S
  <2>1. SUFFICES ASSUME k + 1 <= n PROVE PartialSum(given, k + 1) = total - r[k + 1]
    OBVIOUS
  <2>2. PartialSum(given, k) = total - r[k] /\ k \in 0 .. n /\ k + 1 \in 0 .. n /\ k + 1 \in 1 .. n /\ (k + 1) - 1 = k
    BY <1>1, <1>6, <2>1
  <2>3. given[k + 1] = r[k] - r[k + 1]
    BY <1>11, <2>2
  <2>4. PartialSum(given, k + 1) = PartialSum(given, k) + given[k + 1]
    BY <1>6, PartialSumSteps
  <2>5. r[k] \in Int /\ r[k + 1] \in Int
    BY <1>3, <2>2
  <2> QED
    BY <1>1, <2>2, <2>3, <2>4, <2>5
<1>7. n \in S
  <2> HIDE DEF S
  <2> QED
    BY <1>1, <1>5, <1>6, CountingUp
<1>8. r[n] = 0
  <2> DEFINE U == {k \in Nat : m + k <= n => r[m + k] = 0}
  <2>1. 0 \in U
    BY <1>1
  <2>2. ASSUME NEW k \in Nat, k \in U PROVE k + 1 \in U
    <3>1. SUFFICES ASSUME m + (k + 1) <= n PROVE r[m + (k + 1)] = 0
      OBVIOUS
    <3>2. r[m + k] = 0 /\ m + (k + 1) \in m + 1 .. n /\ (m + (k + 1)) - 1 = m + k
      BY <1>1, <2>2, <3>1
    <3>3. \A j \in m + 1 .. n : r[j - 1] = 0 => r[j] = 0
      BY DEF SpreadSo
    <3> QED
      BY <3>2, <3>3
  <2>3. PICK j \in Nat : m + j = n
    BY <1>1
  <2>4. j \in U
    <3> HIDE DEF U
    <3> QED
      BY <2>1, <2>2, <2>3, CountingUp
  <2>5. m + j <= n => r[m + j] = 0
    BY <2>4
  <2>6. m + j = n /\ n <= n
    BY <1>1, <2>3
  <2>7. r[m + j] = 0
    BY <1>1, <2>5, <2>6
  <2> QED
    BY <2>6, <2>7
<1>9. PartialSum(given, n) = total - r[n]
  BY <1>1, <1>7
<1> QED
  BY <1>1, <1>4, <1>8, <1>9, <1>10

\* The function by which _allocate_discount gives the lines their shares, one after another.
RemainsSo(total, sum, w, n, g) ==
    g = [i \in 0 .. n |-> IF i = 0 THEN total ELSE g[i - 1] - Share(total, sum, w, i, g[i - 1])]

\* There is one for every number of lines.
LEMMA RemainsIsThere ==
    ASSUME NEW total, NEW sum, NEW w
    PROVE  \A n \in Nat : \E g : RemainsSo(total, sum, w, n, g)
<1> DEFINE S == {n \in Nat : \E g : RemainsSo(total, sum, w, n, g)}
<1>1. 0 \in S
  <2> DEFINE g == [i \in 0 .. 0 |-> total]
  <2>1. RemainsSo(total, sum, w, 0, g)
    BY DEF RemainsSo
  <2> QED
    BY <2>1
<1>2. ASSUME NEW n \in Nat, n \in S PROVE n + 1 \in S
  <2>1. PICK g : RemainsSo(total, sum, w, n, g)
    BY <1>2
  <2> DEFINE more(i, left) == left - Share(total, sum, w, i, left)
  <2> DEFINE h == [i \in 0 .. n + 1 |-> IF i = n + 1 THEN more(n + 1, g[n]) ELSE g[i]]
  <2>2. \A i \in 0 .. n : g[i] = IF i = 0 THEN total ELSE more(i, g[i - 1])
    BY <2>1 DEF RemainsSo
  <2>3. h[n + 1] = more(n + 1, g[n]) /\ \A i \in 0 .. n : h[i] = g[i]
    BY <1>2
  <2>4. h = [i \in 0 .. n + 1 |-> h[i]]
    OBVIOUS
  <2>5. ASSUME NEW i \in 0 .. n + 1 PROVE h[i] = IF i = 0 THEN total ELSE more(i, h[i - 1])
    <3> HIDE DEF h, more
    <3>1. CASE i = n + 1
      <4>1. i # 0 /\ i - 1 = n /\ h[n] = g[n]
        BY <1>2, <2>3, <3>1
      <4> QED
        BY <2>3, <3>1, <4>1
    <3>2. CASE i # n + 1 /\ i # 0
      <4>1. i \in 0 .. n /\ i - 1 \in 0 .. n
        BY <1>2, <3>2
      <4> QED
        BY <2>2, <2>3, <3>2, <4>1
    <3>3. CASE i = 0
      BY <1>2, <2>2, <2>3, <3>3
    <3> QED
      BY <3>1, <3>2, <3>3
  <2>6. h = [i \in 0 .. n + 1 |-> IF i = 0 THEN total ELSE more(i, h[i - 1])]
    <3> HIDE DEF h, more
    <3> QED
      BY <2>4, <2>5
  <2>7. RemainsSo(total, sum, w, n + 1, h)
    <3> HIDE DEF h
    <3> QED
      BY <2>6 DEF RemainsSo
  <2> QED
    BY <1>2, <2>7
<1>3. \A n \in Nat : n \in S
  <2> HIDE DEF S
  <2> QED
    BY <1>1, <1>2, CountingUp
<1> QED
  BY <1>3

\* What it gives a line: nothing to one without weight, all to the last, and to the others their share
\* unless they weigh less, or less remains.
LastOf(w, i) == w[i] > 0 /\ \A k \in i + 1 .. Len(w) : w[k] <= 0
ShareSo(total, sum, w, i, left, a) ==
    /\ w[i] <= 0 => a = 0
    /\ LastOf(w, i) => a = left
    /\ w[i] > 0 /\ ~LastOf(w, i) =>
         /\ a \in Nat /\ a <= left /\ 2 * (sum * a) <= 2 * (total * w[i]) + sum
         /\ a = left \/ a = w[i] \/ 2 * (total * w[i]) <= 2 * (sum * a) + sum
LEMMA ShareIs ==
    ASSUME NEW total \in Nat, NEW sum \in Nat, NEW w, NEW i, NEW left \in Nat, sum > 0, w[i] \in Int
    PROVE  ShareSo(total, sum, w, i, left, Share(total, sum, w, i, left))
<1>4. PICK a : a = Share(total, sum, w, i, left)
  OBVIOUS
<1>1. w[i] <= 0 => a = 0
  BY <1>4 DEF Share
<1>2. LastOf(w, i) => a = left
  BY <1>4 DEF Share, LastOf
<1>3. ASSUME w[i] > 0, ~LastOf(w, i)
      PROVE  /\ a \in Nat /\ a <= left /\ 2 * (sum * a) <= 2 * (total * w[i]) + sum
             /\ a = left \/ a = w[i] \/ 2 * (total * w[i]) <= 2 * (sum * a) + sum
  <2>1. PICK v \in Nat : v = w[i] /\ v > 0
    BY <1>3
  <2>2. PICK t \in Nat : t = total * v
    BY <2>1
  <2>3. PICK q \in Nat : q = Paise(t, sum) /\ 2 * (sum * q) <= 2 * t + sum /\ 2 * t < 2 * (sum * q) + sum
    BY PaiseIsNear
  <2>4. a = Least2(Least2(q, v), left)
    BY <1>3, <1>4, <2>1, <2>2, <2>3 DEF Share, LastOf
  <2>5. a \in {q, v, left} /\ a \in Nat /\ a <= q /\ a <= left
    BY <2>4 DEF Least2
  <2>6. sum * a <= sum * q /\ sum * a \in Int /\ sum * q \in Int
    BY <2>5, ProductRises
  <2>7. 2 * (sum * a) <= 2 * t + sum
    BY <2>3, <2>6
  <2>8. a = q => 2 * t <= 2 * (sum * a) + sum
    BY <2>3
  <2> QED
    BY <2>1, <2>2, <2>5, <2>7, <2>8
<1>5. ShareSo(total, sum, w, i, left, a)
  BY <1>1, <1>2, <1>3 DEF ShareSo
<1> QED
  BY <1>4, <1>5

\* Bearing of whole weights has natural numbers, which add up to no less.
LEMMA BearingCounts ==
    ASSUME NEW n \in Nat, NEW w, w \in [1 .. n -> Int], NEW p, p = Bearing(w)
    PROVE  /\ p \in [1 .. n -> Nat] /\ \A i \in 1 .. n : p[i] = IF w[i] > 0 THEN w[i] ELSE 0
           /\ Added(p) = PartialSum(p, n) /\ Added(p) \in Nat /\ Added(w) \in Int /\ Added(w) <= Added(p)
<1>1. p = [i \in 1 .. n |-> IF w[i] > 0 THEN w[i] ELSE 0]
  BY DEF Bearing
<1>2. p \in [1 .. n -> Nat] /\ \A i \in 1 .. n : p[i] = IF w[i] > 0 THEN w[i] ELSE 0
  BY <1>1
<1>3. p \in [1 .. n -> Int]
  BY <1>2
<1>4. Added(p) = PartialSum(p, n) /\ Added(w) = PartialSum(w, n)
  BY <1>3, AddedIsPartialSum
<1>5. PartialSum(p, n) \in Nat
  <2>1. n \in 0 .. n /\ \A i \in 0 .. n : PartialSum(p, i) \in Nat
    BY <1>2, PartialSumClimbs
  <2> QED
    BY <2>1
<1>6. PartialSum(w, n) \in Int /\ PartialSum(w, n) <= PartialSum(p, n)
  <2>1. \A i \in 1 .. n : w[i] \in Int /\ p[i] \in Int /\ w[i] <= p[i]
    BY <1>2
  <2> QED
    BY <2>1, PartialSumRises
<1> QED
  BY <1>2, <1>4, <1>5, <1>6

\* _allocate_discount gives the lines a discount that fits them, in fair shares.
LEMMA AllocationIsSpread ==
    ASSUME NEW n \in Nat, NEW w, w \in [1 .. n -> Int], NEW total \in Int, total > 0, total <= Added(w)
    PROVE  \E m, r : /\ SpreadSo(total, Added(Bearing(w)), Bearing(w), m, n, r)
                     /\ Allocation(total, w) = GivenOut(n, r)
<1>1. PICK p : p = Bearing(w)
  OBVIOUS
<1>2. /\ p \in [1 .. n -> Nat] /\ \A i \in 1 .. n : p[i] = IF w[i] > 0 THEN w[i] ELSE 0
      /\ Added(p) = PartialSum(p, n) /\ Added(p) \in Nat /\ Added(w) \in Int /\ Added(w) <= Added(p)
  BY <1>1, BearingCounts
<1>3. PICK sum \in Nat : sum = Added(p) /\ total <= sum /\ sum > 0
  BY <1>2
<1>4. Len(w) = n /\ DOMAIN w = 1 .. n
  OBVIOUS
<1>5. PICK r : r = (CHOOSE g : RemainsSo(total, Added(Bearing(w)), w, Len(w), g))
  OBVIOUS
<1>6. RemainsSo(total, sum, w, n, r)
  BY <1>1, <1>3, <1>4, <1>5, RemainsIsThere
<1>7. Allocation(total, w) = GivenOut(n, r)
  <2>1. ~(total <= 0)
    OBVIOUS
  <2>2. Allocation(total, w) = [i \in DOMAIN w |-> r[i - 1] - r[i]]
    BY <1>5, <2>1 DEF Allocation, RemainsSo
  <2> QED
    BY <1>4, <2>2 DEF GivenOut
<1>8. PICK m \in 1 .. n : w[m] > 0 /\ \A k \in m + 1 .. n : w[k] <= 0
  <2> DEFINE Late == {n - i : i \in {j \in 1 .. n : w[j] > 0}}
  <2>1. Late # {}
    <3>1. SUFFICES ASSUME \A j \in 1 .. n : ~(w[j] > 0) PROVE FALSE
      OBVIOUS
    <3>2. p \in [1 .. n -> Int] /\ \A i \in 1 .. n : p[i] = 0
      BY <1>2, <3>1
    <3>3. Added(p) = 0
      BY <3>2, AddedNaughts
    <3> QED
      BY <1>3, <3>3
  <2>2. Late \subseteq Nat
    OBVIOUS
  <2>3. PICK l \in Late : \A k \in Late : l <= k
    <3> HIDE DEF Late
    <3> QED
      BY <2>1, <2>2, LeastNumber
  <2>4. PICK m \in 1 .. n : w[m] > 0 /\ l = n - m
    BY <2>3
  <2>5. ASSUME NEW k \in m + 1 .. n PROVE w[k] <= 0
    <3>1. SUFFICES ASSUME w[k] > 0 PROVE FALSE
      BY <2>4
    <3>2. k \in 1 .. n /\ n - k \in Late
      BY <2>4, <3>1
    <3>3. l <= n - k
      BY <2>3, <3>2
    <3> QED
      BY <2>4, <3>2, <3>3
  <2> QED
    BY <2>4, <2>5
<1>9. \A i \in 0 .. n : r[i] = IF i = 0 THEN total ELSE r[i - 1] - Share(total, sum, w, i, r[i - 1])
  BY <1>6 DEF RemainsSo
<1>10. \A i \in 1 .. n : r[i] = r[i - 1] - Share(total, sum, w, i, r[i - 1])
  BY <1>9
<1>11. r[0] = total /\ total \in Nat
  BY <1>9
<1>12. ASSUME NEW i \in 1 .. m - 1, r[i - 1] \in Nat
       PROVE  \E a \in Nat :
                 /\ r[i] = r[i - 1] - a /\ a <= r[i - 1] /\ 2 * (sum * a) <= 2 * (total * p[i]) + sum
                 /\ a = r[i - 1] \/ a = p[i] \/ 2 * (total * p[i]) <= 2 * (sum * a) + sum
  <2>1. i \in 1 .. n /\ m \in i + 1 .. n
    BY <1>8, <1>12
  <2>2. ~LastOf(w, i)
    BY <1>4, <1>8, <2>1 DEF LastOf
  <2>9. PICK left \in Nat : left = r[i - 1]
    BY <1>12
  <2>3. PICK a : a = Share(total, sum, w, i, left)
    OBVIOUS
  <2>4. w[i] \in Int
    BY <2>1
  <2>10. PICK t \in Nat : t = total
    BY <1>11
  <2>11. a = Share(t, sum, w, i, left)
    BY <2>3, <2>10
  <2>12. ShareSo(t, sum, w, i, left, Share(t, sum, w, i, left))
    <3>1. sum > 0
      BY <1>3
    <3> QED
      BY <2>4, <3>1, ShareIs
  <2>5. /\ w[i] <= 0 => a = 0
        /\ w[i] > 0 /\ ~LastOf(w, i) =>
             /\ a \in Nat /\ a <= left /\ 2 * (sum * a) <= 2 * (total * w[i]) + sum
             /\ a = left \/ a = w[i] \/ 2 * (total * w[i]) <= 2 * (sum * a) + sum
    BY <2>10, <2>11, <2>12 DEF ShareSo
  <2>6. r[i] = r[i - 1] - a
    BY <1>10, <2>1, <2>3, <2>9
  <2>7. CASE w[i] > 0
    <3>1. p[i] = w[i]
      BY <1>2, <2>1, <2>7
    <3> QED
      BY <2>2, <2>5, <2>6, <2>7, <2>9, <3>1
  <2>8. CASE w[i] <= 0
    <3>1. p[i] = 0 /\ a = 0
      BY <1>2, <2>1, <2>4, <2>5, <2>8
    <3>2. 2 * (sum * 0) <= 2 * (total * 0) + sum /\ 0 <= r[i - 1] /\ 0 \in Nat
      BY <1>3, <1>11, <1>12
    <3> QED
      BY <2>6, <3>1, <3>2
  <2> QED
    BY <2>4, <2>7, <2>8
<1>13. r[m - 1] \in Nat => r[m] = 0
  <2>1. SUFFICES ASSUME r[m - 1] \in Nat PROVE r[m] = 0
    OBVIOUS
  <2>2. LastOf(w, m)
    BY <1>4, <1>8 DEF LastOf
  <2>3. Share(total, sum, w, m, r[m - 1]) = r[m - 1]
    BY <2>2 DEF Share, LastOf
  <2> QED
    BY <1>8, <1>10, <2>1, <2>3
<1>14. ASSUME NEW i \in m + 1 .. n PROVE p[i] = 0 /\ (r[i - 1] = 0 => r[i] = 0)
  <2>1. i \in 1 .. n /\ w[i] <= 0 /\ w[i] \in Int
    BY <1>8
  <2>2. Share(total, sum, w, i, r[i - 1]) = 0
    BY <2>1 DEF Share
  <2>3. p[i] = 0
    BY <1>2, <2>1
  <2> QED
    BY <1>10, <2>1, <2>2, <2>3
<1>15. PartialSum(p, n) = sum /\ \A i \in 1 .. n : p[i] \in Nat
  BY <1>2, <1>3
<1>16. SpreadSo(total, sum, p, m, n, r)
  BY <1>3, <1>8, <1>11, <1>12, <1>13, <1>14, <1>15 DEF SpreadSo
<1> QED
  BY <1>1, <1>3, <1>7, <1>16

\* _allocate_discount: the shares are fair, and add up to the discount.
LEMMA AllocationIsFair ==
    ASSUME NEW n \in Nat, NEW w, NEW total \in Int, w \in [1 .. n -> Int], total > 0 => total <= Added(w)
    PROVE  /\ Allocation(total, w) \in [1 .. n -> Int]
           /\ Added(Allocation(total, w)) = IF total > 0 THEN total ELSE 0
           /\ SharesAreFair(Allocation(total, w), w)
<1>1. PICK given : given = Allocation(total, w)
  OBVIOUS
<1>2. PICK p : p = Bearing(w)
  OBVIOUS
<1>3. /\ p \in [1 .. n -> Nat] /\ \A i \in 1 .. n : p[i] = IF w[i] > 0 THEN w[i] ELSE 0
      /\ Added(p) = PartialSum(p, n) /\ Added(p) \in Nat /\ Added(w) \in Int /\ Added(w) <= Added(p)
  BY <1>2, BearingCounts
<1>4. PICK sum \in Nat : sum = Added(p)
  BY <1>3
<1>5. Len(w) = n /\ DOMAIN w = 1 .. n /\ n * sum \in Nat
  OBVIOUS
<1>6. ASSUME NEW d \in Int, Added(given) = d, given \in [1 .. n -> Int],
             \A i \in 1 .. n : /\ 2 * (given[i] * sum - d * p[i]) <= n * sum
                               /\ -(2 * (given[i] * sum - d * p[i])) <= n * sum
      PROVE  SharesAreFair(given, w)
  BY <1>2, <1>4, <1>5, <1>6 DEF SharesAreFair
<1>7. CASE total <= 0
  <2>1. given = [i \in 1 .. n |-> 0]
    BY <1>1, <1>5, <1>7 DEF Allocation
  <2>2. given \in [1 .. n -> Int] /\ \A i \in 1 .. n : given[i] = 0
    BY <2>1
  <2>3. Added(given) = 0
    BY <2>2, AddedNaughts
  <2>4. ASSUME NEW i \in 1 .. n
        PROVE  /\ 2 * (given[i] * sum - 0 * p[i]) <= n * sum
               /\ -(2 * (given[i] * sum - 0 * p[i])) <= n * sum
    <3>1. given[i] * sum = 0 /\ 0 * p[i] = 0
      BY <1>3, <2>2
    <3> QED
      BY <1>5, <3>1
  <2>5. SharesAreFair(given, w)
    BY <1>6, <2>2, <2>3, <2>4
  <2> QED
    BY <1>1, <1>7, <2>2, <2>3, <2>5
<1>8. CASE total > 0
  <2>1. PICK m, r : /\ SpreadSo(total, sum, p, m, n, r)
                    /\ given = GivenOut(n, r)
    BY <1>1, <1>2, <1>4, <1>8, AllocationIsSpread
  <2>2. given \in [1 .. n -> Int] /\ PartialSum(given, n) = total
    BY <2>1, SpreadAddsUp
  <2>3. Added(given) = total
    BY <2>2, AddedIsPartialSum
  <2>4. ASSUME NEW i \in 1 .. n
        PROVE  /\ 2 * (given[i] * sum - total * p[i]) <= n * sum
               /\ -(2 * (given[i] * sum - total * p[i])) <= n * sum
    <3>1. /\ 2 * ((r[i - 1] - r[i]) * sum - total * p[i]) <= n * sum
          /\ -(2 * ((r[i - 1] - r[i]) * sum - total * p[i])) <= n * sum
      BY <2>1, SpreadIsFair
    <3>2. given[i] = r[i - 1] - r[i]
      BY <2>1 DEF GivenOut
    <3> QED
      BY <3>1, <3>2
  <2>5. SharesAreFair(given, w)
    BY <1>6, <2>2, <2>3, <2>4
  <2> QED
    BY <1>1, <1>8, <2>2, <2>3, <2>5
<1> QED
  BY <1>7, <1>8

\* A promotion's terms are numbers.
Terms(c) == {c.value, c.most, c.least, c.priority} \subseteq Int

\* _discount_amount_for_total never gives more than there is, and nothing of nothing.
LEMMA DiscountFits ==
    ASSUME NEW c, NEW total \in Int, Terms(c)
    PROVE  /\ DiscountOf(c, total) \in Int
           /\ total > 0 => DiscountOf(c, total) <= total
           /\ total <= 0 => DiscountOf(c, total) = 0
<1>1. PICK v \in Int : v = c.value
  BY DEF Terms
<1>2. PICK most \in Int : most = c.most
  BY DEF Terms
<1>3. CASE total <= 0
  BY <1>3 DEF DiscountOf
<1>4. CASE total > 0
  <2>1. PICK q \in Int : q = Paise(total * v, 100)
    <3>1. PICK t \in Int : t = total * v
      OBVIOUS
    <3>2. (2 * t + 100) \div (2 * 100) \in Int
      OBVIOUS
    <3> QED
      BY <3>1, <3>2 DEF Paise
  <2>2. PICK x : x = CASE c.type = "FLAT_AMOUNT" -> c.value
                       [] c.type = "PERCENTAGE" /\ c.most = 0 -> Paise(total * c.value, 100)
                       [] OTHER -> Least2(Paise(total * c.value, 100), c.most)
    OBVIOUS
  <2>3. Least2(q, most) \in Int
    BY DEF Least2
  <2>4. x \in Int
    <3>1. CASE c.type = "FLAT_AMOUNT"
      <4>1. ~(c.type = "PERCENTAGE")
        BY <3>1
      <4> QED
        BY <1>1, <2>2, <3>1, <4>1
    <3>2. CASE c.type # "FLAT_AMOUNT" /\ c.type = "PERCENTAGE" /\ c.most = 0
      BY <1>1, <2>1, <2>2, <3>2
    <3>3. CASE c.type # "FLAT_AMOUNT" /\ ~(c.type = "PERCENTAGE" /\ c.most = 0)
      BY <1>1, <1>2, <2>1, <2>2, <2>3, <3>3
    <3> QED
      BY <3>1, <3>2, <3>3
  <2>5. DiscountOf(c, total) = Least2(total, x)
    BY <1>4, <2>2 DEF DiscountOf
  <2> QED
    BY <1>4, <2>4, <2>5 DEF Least2
<1> QED
  BY <1>3, <1>4

\* _select_best_automatic_campaign: when any gives something, one of those that none outranks is chosen.
LEMMA BestIsThere ==
    ASSUME NEW n \in Nat, NEW list, NEW gains, DOMAIN list = 1 .. n,
           \A k \in 1 .. n : gains[k] \in Int /\ Terms(list[k])
    PROVE  IF \A k \in 1 .. n : ~(gains[k] > 0) THEN BestOf(list, gains) = NoOffer
           ELSE \E k \in 1 .. n : /\ BestOf(list, gains) = list[k] /\ gains[k] > 0
                                  /\ \A j \in 1 .. n : gains[j] > 0 => ~Outranks(list[j], gains[j], list[k], gains[k])
<1>1. PICK giving : giving = {k \in DOMAIN list : gains[k] > 0}
  OBVIOUS
<1>2. PICK best : best = {k \in giving : \A j \in giving : ~Outranks(list[j], gains[j], list[k], gains[k])}
  OBVIOUS
<1>3. BestOf(list, gains) = IF giving = {} THEN NoOffer ELSE list[CHOOSE k \in best : \A j \in best : k <= j]
  BY <1>1, <1>2 DEF BestOf
<1>4. \A k : k \in giving <=> k \in 1 .. n /\ gains[k] > 0
  BY <1>1
<1>5. CASE giving = {}
  BY <1>3, <1>4, <1>5
<1>6. CASE giving # {}
  <2> DEFINE Top(k, m) == /\ k \in giving /\ k <= m
                          /\ \A j \in giving : j <= m => ~Outranks(list[j], gains[j], list[k], gains[k])
  <2> DEFINE S == {m \in Nat : m <= n => (\A j \in giving : ~(j <= m)) \/ \E k \in giving : Top(k, m)}
  <2>1. 0 \in S
    BY <1>4
  <2>2. ASSUME NEW m \in Nat, m \in S PROVE m + 1 \in S
    <3>1. SUFFICES ASSUME m + 1 <= n, ~(\A j \in giving : ~(j <= m + 1)) PROVE \E k \in giving : Top(k, m + 1)
      OBVIOUS
    <3>2. \A j \in giving : j \in Nat /\ (j <= m + 1 => j <= m \/ j = m + 1)
      BY <1>4
    <3>3. \A j, k \in giving :
            /\ list[j].priority \in Int /\ gains[j] \in Int
            /\ ~Outranks(list[j], gains[j], list[j], gains[j])
            /\ Outranks(list[j], gains[j], list[k], gains[k]) <=>
                 list[j].priority > list[k].priority \/ (list[j].priority = list[k].priority /\ gains[j] > gains[k])
      <4>1. ASSUME NEW j \in giving PROVE list[j].priority \in Int /\ gains[j] \in Int
        BY <1>4 DEF Terms
      <4>2. ASSUME NEW j \in giving, NEW k \in giving
            PROVE  Outranks(list[j], gains[j], list[k], gains[k]) <=>
                     list[j].priority > list[k].priority \/ (list[j].priority = list[k].priority /\ gains[j] > gains[k])
        BY DEF Outranks
      <4>3. ASSUME NEW j \in giving PROVE ~Outranks(list[j], gains[j], list[j], gains[j])
        BY <4>1 DEF Outranks
      <4> QED
        BY <4>1, <4>2, <4>3
    <3>4. CASE \A j \in giving : ~(j <= m)
      <4>1. m + 1 \in giving /\ \A j \in giving : j <= m + 1 => j = m + 1
        BY <3>1, <3>2, <3>4
      <4>2. Top(m + 1, m + 1)
        BY <3>3, <4>1
      <4> QED
        BY <4>1, <4>2
    <3>5. CASE ~(\A j \in giving : ~(j <= m))
      <4>1. PICK k \in giving : Top(k, m)
        BY <2>2, <3>1, <3>5
      <4>2. k \in Nat /\ k <= m + 1
        BY <3>2, <4>1
      <4>3. CASE m + 1 \notin giving
        <5>1. \A j \in giving : j <= m + 1 => j <= m
          BY <3>2, <4>3
        <5>2. Top(k, m + 1)
          BY <4>1, <4>2, <5>1
        <5> QED
          BY <5>2
      <4>4. CASE m + 1 \in giving /\ ~Outranks(list[m + 1], gains[m + 1], list[k], gains[k])
        <5>1. \A j \in giving : j <= m + 1 => j <= m \/ j = m + 1
          BY <3>2
        <5>2. Top(k, m + 1)
          BY <4>1, <4>2, <4>4, <5>1
        <5> QED
          BY <5>2
      <4>5. CASE m + 1 \in giving /\ Outranks(list[m + 1], gains[m + 1], list[k], gains[k])
        <5>1. PICK l \in giving : l = m + 1
          BY <4>5
        <5>2. ASSUME NEW j \in giving, j <= m PROVE ~Outranks(list[j], gains[j], list[l], gains[l])
          <6>1. ~Outranks(list[j], gains[j], list[k], gains[k]) /\ Outranks(list[l], gains[l], list[k], gains[k])
            BY <4>1, <4>5, <5>1, <5>2
          <6> QED
            BY <3>3, <6>1
        <5>3. Top(l, m + 1)
          BY <3>2, <3>3, <5>1, <5>2
        <5> QED
          BY <5>3
      <4> QED
        BY <4>3, <4>4, <4>5
    <3> QED
      BY <3>4, <3>5
  <2>3. n \in S
    <3> HIDE DEF S
    <3> QED
      BY <2>1, <2>2, CountingUp
  <2>4. PICK k \in giving : Top(k, n)
    BY <1>4, <1>6, <2>3
  <2>5. best # {} /\ best \subseteq Nat
    <3>1. k \in best
      BY <1>2, <1>4, <2>4
    <3> QED
      BY <1>2, <1>4, <3>1
  <2>6. PICK l : l = (CHOOSE i \in best : \A j \in best : i <= j)
    OBVIOUS
  <2>7. l \in best
    BY <2>5, <2>6, LeastNumber
  <2>8. BestOf(list, gains) = list[l]
    BY <1>3, <1>6, <2>6
  <2>9. l \in 1 .. n /\ gains[l] > 0 /\ \A j \in giving : ~Outranks(list[j], gains[j], list[l], gains[l])
    BY <1>2, <1>4, <2>7
  <2>10. \A j \in 1 .. n : gains[j] > 0 => ~Outranks(list[j], gains[j], list[l], gains[l])
    BY <1>4, <2>9
  <2> QED
    BY <2>8, <2>9, <2>10
<1> QED
  BY <1>5, <1>6

\* What a preview can be asked for.
PreviewRequests == [cart : Carts, campaigns : Automatic, offer : ByHand, tender : Tenders, interState : BOOLEAN]
LinesAre(lines, n) == lines \in [1 .. n -> [amount : Nat, targeted : BOOLEAN, rate : Int]]

\* The sum of what is left is what is left of the sum.
LEMMA PartialSumTaken ==
    ASSUME NEW s, NEW t, NEW u, NEW n \in Nat, \A i \in 1 .. n : s[i] \in Int /\ t[i] \in Int /\ u[i] = s[i] - t[i]
    PROVE  PartialSum(s, n) \in Int /\ PartialSum(t, n) \in Int /\ PartialSum(u, n) = PartialSum(s, n) - PartialSum(t, n)
<1> DEFINE S == {k \in Nat : k <= n => /\ PartialSum(s, k) \in Int /\ PartialSum(t, k) \in Int
                                        /\ PartialSum(u, k) = PartialSum(s, k) - PartialSum(t, k)}
<1>1. 0 \in S
  BY PartialSumSteps
<1>2. ASSUME NEW k \in Nat, k \in S PROVE k + 1 \in S
  <2>1. SUFFICES ASSUME k + 1 <= n
                 PROVE  /\ PartialSum(s, k + 1) \in Int /\ PartialSum(t, k + 1) \in Int
                        /\ PartialSum(u, k + 1) = PartialSum(s, k + 1) - PartialSum(t, k + 1)
    OBVIOUS
  <2>2. /\ PartialSum(s, k) \in Int /\ PartialSum(t, k) \in Int
        /\ PartialSum(u, k) = PartialSum(s, k) - PartialSum(t, k)
    BY <1>2, <2>1
  <2>3. s[k + 1] \in Int /\ t[k + 1] \in Int /\ u[k + 1] = s[k + 1] - t[k + 1]
    BY <1>2, <2>1
  <2>4. /\ PartialSum(s, k + 1) = PartialSum(s, k) + s[k + 1]
        /\ PartialSum(t, k + 1) = PartialSum(t, k) + t[k + 1]
        /\ PartialSum(u, k + 1) = PartialSum(u, k) + u[k + 1]
    BY <1>2, PartialSumSteps
  <2> QED
    BY <2>2, <2>3, <2>4
<1>3. n \in S
  <2> HIDE DEF S
  <2> QED
    BY <1>1, <1>2, CountingUp
<1> QED
  BY <1>3

\* A function on 1 .. n with nothing put after it is itself.
LEMMA NothingAfter == ASSUME NEW n \in Nat, NEW s, s \in [1 .. n -> Int] PROVE s \o <<>> = s
<1>1. s \in Seq(Int) /\ Len(s) = n /\ <<>> \in Seq(Int)
  OBVIOUS
<1> QED
  BY <1>1, ConcatProperties

\* What lines weigh and what is left of them.
LEMMA LinesCount ==
    ASSUME NEW n \in Nat, NEW lines, LinesAre(lines, n)
    PROVE  /\ AmountsOf(lines) \in [1 .. n -> Int] /\ \A i \in 1 .. n : AmountsOf(lines)[i] = lines[i].amount
           /\ Added(AmountsOf(lines)) \in Nat /\ Added(AmountsOf(lines)) = PartialSum(AmountsOf(lines), n)
<1>1. PICK s : s = AmountsOf(lines)
  OBVIOUS
<1>2. s = [i \in 1 .. n |-> lines[i].amount] /\ \A i \in 1 .. n : lines[i].amount \in Nat
  BY <1>1 DEF AmountsOf, LinesAre
<1>3. s \in [1 .. n -> Int] /\ \A i \in 1 .. n : s[i] \in Nat /\ s[i] = lines[i].amount
  BY <1>2
<1>4. Added(s) = PartialSum(s, n)
  BY <1>3, AddedIsPartialSum
<1>5. PartialSum(s, n) \in Nat
  <2>1. n \in 0 .. n /\ \A i \in 0 .. n : PartialSum(s, i) \in Nat
    BY <1>3, PartialSumClimbs
  <2> QED
    BY <2>1
<1> QED
  BY <1>1, <1>3, <1>4, <1>5

\* The lines a campaign is for weigh no more than the cart.
LEMMA WeightsFit ==
    ASSUME NEW n \in Nat, NEW lines, LinesAre(lines, n), NEW c
    PROVE  /\ Weights(lines, c) \in [1 .. n -> Int]
           /\ Added(Weights(lines, c)) \in Int /\ Added(Weights(lines, c)) <= Added(AmountsOf(lines))
<1>1. PICK s : s = AmountsOf(lines)
  OBVIOUS
<1>2. s \in [1 .. n -> Int] /\ (\A i \in 1 .. n : s[i] = lines[i].amount) /\ Added(s) = PartialSum(s, n)
  BY <1>1, LinesCount
<1>3. DOMAIN lines = 1 .. n /\ \A i \in 1 .. n : lines[i].amount \in Nat
  BY DEF LinesAre
<1>4. PICK w : w = [i \in 1 .. n |-> IF c.scope = "CART" \/ lines[i].targeted THEN lines[i].amount ELSE 0]
  OBVIOUS
<1>5. w \in [1 .. n -> Int] /\ \A i \in 1 .. n : w[i] \in Int /\ s[i] \in Int /\ w[i] <= s[i]
  <2>1. ASSUME NEW i \in 1 .. n PROVE w[i] \in Int /\ s[i] \in Int /\ w[i] <= s[i]
    <3>1. w[i] \in {lines[i].amount, 0}
      BY <1>4
    <3>2. s[i] = lines[i].amount /\ lines[i].amount \in Nat
      BY <1>2, <1>3
    <3> QED
      BY <3>1, <3>2
  <2>2. w \in [1 .. n -> Int]
    BY <1>4, <2>1
  <2> QED
    BY <2>1, <2>2
<1>6. Weights(lines, c) = w
  <2>1. Weights(lines, c) = w \o <<>>
    BY <1>3, <1>4 DEF Weights
  <2> QED
    BY <1>5, <2>1, NothingAfter
<1>7. PartialSum(w, n) \in Int /\ PartialSum(w, n) <= PartialSum(s, n)
  BY <1>5, PartialSumRises
<1>8. Added(w) = PartialSum(w, n)
  BY <1>5, AddedIsPartialSum
<1> QED
  BY <1>1, <1>2, <1>5, <1>6, <1>7, <1>8

\* Nothing for anyone is fair.
LEMMA NoneIsFair ==
    ASSUME NEW n \in Nat, NEW w, w \in [1 .. n -> Int], NEW none, none = [i \in 1 .. n |-> 0]
    PROVE  none \in [1 .. n -> Int] /\ Added(none) = 0 /\ SharesAreFair(none, w)
<1>1. none \in [1 .. n -> Int] /\ \A i \in 1 .. n : none[i] = 0
  OBVIOUS
<1>2. Added(none) = 0
  BY <1>1, AddedNaughts
<1>3. PICK p : p = Bearing(w)
  OBVIOUS
<1>4. p \in [1 .. n -> Nat] /\ Added(p) \in Nat
  BY <1>3, BearingCounts
<1>5. PICK sum \in Nat : sum = Added(p)
  BY <1>4
<1>6. Len(w) = n /\ DOMAIN w = 1 .. n /\ n * sum \in Nat
  OBVIOUS
<1>7. ASSUME NEW i \in 1 .. n
      PROVE  2 * (none[i] * sum - 0 * p[i]) <= n * sum /\ -(2 * (none[i] * sum - 0 * p[i])) <= n * sum
  <2>1. none[i] * sum = 0 /\ 0 * p[i] = 0
    BY <1>1, <1>4
  <2> QED
    BY <1>6, <2>1
<1>8. SharesAreFair(none, w)
  BY <1>2, <1>3, <1>5, <1>6, <1>7 DEF SharesAreFair
<1> QED
  BY <1>1, <1>2, <1>8

\* _evaluate_automatic_campaign: fair shares of no more than the cart.
LEMMA EvaluatedFits ==
    ASSUME NEW n \in Nat, NEW lines, LinesAre(lines, n), NEW c, Terms(c)
    PROVE  /\ Evaluated(lines, c) \in [1 .. n -> Int]
           /\ Gain(lines, c) \in Nat /\ Gain(lines, c) <= Added(AmountsOf(lines))
           /\ SharesAreFair(Evaluated(lines, c), Weights(lines, c))
<1>1. DOMAIN lines = 1 .. n
  BY DEF LinesAre
<1>2. PICK w : w = Weights(lines, c) /\ w \in [1 .. n -> Int] /\ Added(w) \in Int /\ Added(w) <= Added(AmountsOf(lines))
  BY WeightsFit
<1>3. PICK all \in Nat : all = Added(AmountsOf(lines))
  BY LinesCount
<1>4. PICK g : g = Evaluated(lines, c)
  OBVIOUS
<1>5. CASE all < c.least
  <2>1. g = [i \in 1 .. n |-> 0]
    BY <1>1, <1>3, <1>4, <1>5 DEF Evaluated
  <2>2. g \in [1 .. n -> Int] /\ Added(g) = 0 /\ SharesAreFair(g, w)
    BY <1>2, <2>1, NoneIsFair
  <2> QED
    BY <1>2, <1>3, <1>4, <2>2 DEF Gain
<1>6. CASE ~(all < c.least)
  <2>1. PICK d \in Int : d = DiscountOf(c, Added(w)) /\ (Added(w) > 0 => d <= Added(w)) /\ (Added(w) <= 0 => d = 0)
    BY <1>2, DiscountFits
  <2>2. g = Allocation(d, w)
    BY <1>2, <1>3, <1>4, <1>6, <2>1 DEF Evaluated
  <2>3. d > 0 => d <= Added(w)
    BY <1>2, <2>1
  <2>4. g \in [1 .. n -> Int] /\ Added(g) = (IF d > 0 THEN d ELSE 0) /\ SharesAreFair(g, w)
    BY <1>2, <2>2, <2>3, AllocationIsFair
  <2>5. Added(g) \in Nat /\ Added(g) <= all
    BY <1>2, <1>3, <2>3, <2>4
  <2> QED
    BY <1>2, <1>3, <1>4, <2>4, <2>5 DEF Gain
<1> QED
  BY <1>5, <1>6

\* What the rows of a request are.
LEMMA RequestsAre ==
    ASSUME NEW wanted \in PreviewRequests
    PROVE  /\ \E n \in Nat : LinesAre(wanted.cart, n)
           /\ \E m \in Nat : DOMAIN wanted.campaigns = 1 .. m
           /\ \A k \in DOMAIN wanted.campaigns : Terms(wanted.campaigns[k]) /\ wanted.campaigns[k] # NoOffer
           /\ wanted.offer # NoOffer => Terms(wanted.offer)
           /\ wanted.tender.points \in Int /\ wanted.tender.credit \in Int /\ wanted.tender.gift \in Int
<1>1. wanted.cart \in Carts /\ wanted.campaigns \in Automatic /\ wanted.offer \in ByHand /\ wanted.tender \in Tenders
  BY DEF PreviewRequests
<1>2. PICK lines : lines = wanted.cart
  OBVIOUS
<1>3. PICK list : list = wanted.campaigns
  OBVIOUS
<1>4. PICK tender : tender = wanted.tender
  OBVIOUS
<1>5. PICK offered : offered = wanted.offer
  OBVIOUS
<1>6. PICK Line : Line = [amount : Nat, targeted : BOOLEAN, rate : Int]
  OBVIOUS
<1>7. LinesAre(lines, Len(lines)) /\ Len(lines) \in Nat
  <2>1. lines \in Seq(Line)
    BY <1>1, <1>2, <1>6, PricingAssumption
  <2>2. lines \in [1 .. Len(lines) -> Line] /\ Len(lines) \in Nat
    BY <2>1
  <2> QED
    BY <1>6, <2>2 DEF LinesAre
<1>8. list \in Seq({list[k] : k \in DOMAIN list})
  BY <1>1, <1>3, PricingAssumption
<1>9. DOMAIN list = 1 .. Len(list) /\ Len(list) \in Nat
  BY <1>8
<1>10. \A k \in DOMAIN list : list[k] # NoOffer /\ Terms(list[k])
  BY <1>1, <1>3, PricingAssumption DEF Terms
<1>11. offered # NoOffer => Terms(offered)
  BY <1>1, <1>5, PricingAssumption DEF Terms
<1>12. {tender.points, tender.credit, tender.gift} \subseteq Int
  BY <1>1, <1>4, PricingAssumption
<1>13. tender.points \in Int /\ tender.credit \in Int /\ tender.gift \in Int
  BY <1>12
<1> QED
  BY <1>2, <1>3, <1>4, <1>5, <1>7, <1>9, <1>10, <1>11, <1>13

\* The campaign that is applied, if any, is one of those that may be, and none that gives something
\* stands higher.
LEMMA BestAutomaticIs ==
    ASSUME NEW wanted \in PreviewRequests, NEW n \in Nat, LinesAre(wanted.cart, n), NEW best, best = BestAutomatic(wanted)
    PROVE  best # NoOffer =>
             /\ Terms(best)
             /\ \A k \in DOMAIN wanted.campaigns :
                  Gain(wanted.cart, wanted.campaigns[k]) > 0 => ~(wanted.campaigns[k].priority > best.priority)
<1>1. PICK list : list = wanted.campaigns
  OBVIOUS
<1>2. PICK lines : lines = wanted.cart /\ LinesAre(lines, n)
  OBVIOUS
<1>3. PICK m \in Nat : DOMAIN list = 1 .. m
  BY <1>1, RequestsAre
<1>4. \A k \in 1 .. m : Terms(list[k])
  BY <1>1, <1>3, RequestsAre
<1>5. PICK gains : gains = [k \in DOMAIN list |-> Gain(lines, list[k])]
  OBVIOUS
<1>6. \A k \in 1 .. m : gains[k] = Gain(lines, list[k]) /\ gains[k] \in Int
  <2>1. ASSUME NEW k \in 1 .. m PROVE gains[k] = Gain(lines, list[k]) /\ gains[k] \in Int
    <3>1. Gain(lines, list[k]) \in Nat
      BY <1>2, <1>4, EvaluatedFits
    <3> QED
      BY <1>3, <1>5, <3>1
  <2> QED
    BY <2>1
<1>7. best = BestOf(list, gains)
  BY <1>1, <1>2, <1>5 DEF BestAutomatic
<1>8. CASE \A k \in 1 .. m : ~(gains[k] > 0)
  <2>1. BestOf(list, gains) = NoOffer
    BY <1>3, <1>4, <1>6, <1>8, BestIsThere
  <2> QED
    BY <1>7, <2>1
<1>9. CASE ~(\A k \in 1 .. m : ~(gains[k] > 0))
  <2>1. PICK k \in 1 .. m : /\ BestOf(list, gains) = list[k]
                            /\ \A j \in 1 .. m : gains[j] > 0 => ~Outranks(list[j], gains[j], list[k], gains[k])
    BY <1>3, <1>4, <1>6, <1>9, BestIsThere
  <2>2. \A j \in 1 .. m : gains[j] > 0 => ~(list[j].priority > list[k].priority)
    BY <2>1 DEF Outranks
  <2>3. best = list[k] /\ Terms(best)
    BY <1>4, <1>7, <2>1
  <2> QED
    BY <1>1, <1>2, <1>3, <1>6, <2>2, <2>3
<1> QED
  BY <1>8, <1>9

\* What an automatic campaign leaves of the lines.
LEMMA LeftCounts ==
    ASSUME NEW n \in Nat, NEW lines, LinesAre(lines, n), NEW given, given \in [1 .. n -> Int]
    PROVE  /\ LeftOf(lines, given) \in [1 .. n -> Int]
           /\ Added(given) \in Int
           /\ Added(LeftOf(lines, given)) = Added(AmountsOf(lines)) - Added(given)
<1>1. PICK s : s = AmountsOf(lines)
  OBVIOUS
<1>2. s \in [1 .. n -> Int] /\ (\A i \in 1 .. n : s[i] = lines[i].amount) /\ Added(s) = PartialSum(s, n)
  BY <1>1, LinesCount
<1>3. DOMAIN lines = 1 .. n
  BY DEF LinesAre
<1>4. PICK u : u = [i \in 1 .. n |-> lines[i].amount - given[i]]
  OBVIOUS
<1>5. u \in [1 .. n -> Int] /\ \A i \in 1 .. n : s[i] \in Int /\ given[i] \in Int /\ u[i] = s[i] - given[i]
  BY <1>2, <1>4
<1>6. LeftOf(lines, given) = u
  <2>1. LeftOf(lines, given) = u \o <<>>
    BY <1>3, <1>4 DEF LeftOf
  <2> QED
    BY <1>5, <2>1, NothingAfter
<1>7. PartialSum(given, n) \in Int /\ PartialSum(u, n) = PartialSum(s, n) - PartialSum(given, n)
  <2>1. \A i \in 1 .. n : s[i] \in Int /\ given[i] \in Int /\ u[i] = s[i] - given[i]
    BY <1>5
  <2>2. /\ PartialSum(s, n) \in Int /\ PartialSum(given, n) \in Int
        /\ PartialSum(u, n) = PartialSum(s, n) - PartialSum(given, n)
    BY <2>1, PartialSumTaken
  <2> QED
    BY <2>2
<1>8. Added(given) = PartialSum(given, n) /\ Added(u) = PartialSum(u, n)
  BY <1>5, AddedIsPartialSum
<1> QED
  BY <1>1, <1>2, <1>5, <1>6, <1>7, <1>8

\* What the discounts of a request's lines come to.
DiscountsAddUp(lines, n, best, d) ==
    /\ d.automatic \in [1 .. n -> Int] /\ d.byHand \in [1 .. n -> Int]
    /\ Added(d.automatic) + Added(d.byHand) <= Added(AmountsOf(lines))
    /\ best # NoOffer => SharesAreFair(d.automatic, Weights(lines, best))
    /\ SharesAreFair(d.byHand, LeftOf(lines, d.automatic))

LEMMA SpreadSharesOut ==
    ASSUME NEW wanted \in PreviewRequests, NEW n \in Nat, LinesAre(wanted.cart, n), NEW best,
           NEW automatic, NEW given, NEW stack, given => wanted.offer # NoOffer,
           automatic \in [1 .. n -> Int], Added(automatic) <= Added(AmountsOf(wanted.cart)),
           best # NoOffer => SharesAreFair(automatic, Weights(wanted.cart, best))
    PROVE  DiscountsAddUp(wanted.cart, n, best, Spread(wanted, automatic, given, stack))
<1>1. PICK lines : lines = wanted.cart /\ LinesAre(lines, n)
  OBVIOUS
<1>2. PICK offered : offered = wanted.offer
  OBVIOUS
<1>3. DOMAIN lines = 1 .. n
  BY <1>1 DEF LinesAre
<1>4. PICK left : left = LeftOf(lines, automatic)
  OBVIOUS
<1>5. PICK all \in Nat : all = Added(AmountsOf(lines))
  BY <1>1, LinesCount
<1>6. left \in [1 .. n -> Int] /\ Added(automatic) \in Int /\ Added(left) = all - Added(automatic)
  BY <1>1, <1>4, <1>5, LeftCounts
<1>7. PICK got \in Int : got = Added(automatic) /\ got <= all
  BY <1>1, <1>5, <1>6
<1>8. PICK byHand : byHand = IF given THEN Allocation(DiscountOf(offered, Added(left)), left) ELSE [i \in 1 .. n |-> 0]
  OBVIOUS
<1>9. PICK d : d = Spread(wanted, automatic, given, stack)
  OBVIOUS
<1>10. d.automatic = automatic /\ d.byHand = byHand
  BY <1>1, <1>2, <1>3, <1>4, <1>8, <1>9 DEF Spread
<1>11. byHand \in [1 .. n -> Int] /\ Added(byHand) \in Int /\ Added(byHand) <= all - got /\ SharesAreFair(byHand, left)
  <2>1. CASE ~given
    <3>1. byHand = [i \in 1 .. n |-> 0]
      BY <1>8, <2>1
    <3>2. byHand \in [1 .. n -> Int] /\ Added(byHand) = 0 /\ SharesAreFair(byHand, left)
      BY <1>6, <3>1, NoneIsFair
    <3> QED
      BY <1>7, <3>2
  <2>2. CASE given
    <3>1. Terms(offered) /\ Added(left) \in Int /\ Added(left) = all - got
      BY <1>2, <1>6, <1>7, <2>2, RequestsAre
    <3>2. PICK x \in Int : x = DiscountOf(offered, Added(left)) /\ (x > 0 => x <= Added(left))
      <4>1. /\ DiscountOf(offered, Added(left)) \in Int
            /\ Added(left) > 0 => DiscountOf(offered, Added(left)) <= Added(left)
            /\ Added(left) <= 0 => DiscountOf(offered, Added(left)) = 0
        BY <3>1, DiscountFits
      <4> QED
        BY <3>1, <4>1
    <3>3. byHand = Allocation(x, left)
      BY <1>8, <2>2, <3>2
    <3>4. byHand \in [1 .. n -> Int] /\ Added(byHand) = (IF x > 0 THEN x ELSE 0) /\ SharesAreFair(byHand, left)
      BY <1>6, <3>2, <3>3, AllocationIsFair
    <3>5. Added(byHand) \in Int /\ Added(byHand) <= all - got
      BY <1>7, <3>1, <3>2, <3>4
    <3> QED
      BY <3>4, <3>5
  <2> QED
    BY <2>1, <2>2
<1>12. Added(automatic) + Added(byHand) <= all
  BY <1>7, <1>11
<1> QED
  BY <1>1, <1>4, <1>5, <1>9, <1>10, <1>11, <1>12 DEF DiscountsAddUp

LEMMA DiscountsShareOut ==
    ASSUME NEW wanted \in PreviewRequests, NEW n \in Nat, LinesAre(wanted.cart, n), NEW best, best = BestAutomatic(wanted)
    PROVE  DiscountsAddUp(wanted.cart, n, best, Discounts(wanted))
<1>1. PICK lines : lines = wanted.cart /\ LinesAre(lines, n)
  OBVIOUS
<1>2. DOMAIN lines = 1 .. n
  BY <1>1 DEF LinesAre
<1>3. PICK both : both = (best # NoOffer /\ wanted.offer # NoOffer)
  OBVIOUS
<1>4. PICK stack : stack = (both /\ best.stackable /\ wanted.offer.stackable)
  OBVIOUS
<1>5. PICK prefers : prefers = PrefersAutomatic(wanted, best, Added(AmountsOf(lines)))
  OBVIOUS
<1>6. PICK automatic :
        automatic = IF best # NoOffer /\ (~both \/ stack \/ prefers) THEN Evaluated(lines, best) ELSE [i \in 1 .. n |-> 0]
  OBVIOUS
<1>7. PICK given : given = (wanted.offer # NoOffer /\ (~both \/ stack \/ ~prefers))
  OBVIOUS
<1>8. Discounts(wanted) = Spread(wanted, automatic, given, stack)
  BY <1>1, <1>2, <1>3, <1>4, <1>5, <1>6, <1>7 DEF Discounts, DiscountsWith
<1>9. given => wanted.offer # NoOffer
  BY <1>7
<1>10. /\ automatic \in [1 .. n -> Int] /\ Added(automatic) <= Added(AmountsOf(lines))
       /\ best # NoOffer => SharesAreFair(automatic, Weights(lines, best))
  <2>1. CASE best # NoOffer /\ (~both \/ stack \/ prefers)
    <3>1. automatic = Evaluated(lines, best) /\ Terms(best)
      BY <1>6, <2>1, BestAutomaticIs
    <3> QED
      BY <1>1, <3>1, EvaluatedFits DEF Gain
  <2>2. CASE ~(best # NoOffer /\ (~both \/ stack \/ prefers))
    <3>1. automatic = [i \in 1 .. n |-> 0]
      BY <1>6, <2>2
    <3>2. Weights(lines, best) \in [1 .. n -> Int] /\ Added(AmountsOf(lines)) \in Nat
      BY <1>1, WeightsFit, LinesCount
    <3>3. automatic \in [1 .. n -> Int] /\ Added(automatic) = 0 /\ SharesAreFair(automatic, Weights(lines, best))
      BY <3>1, <3>2, NoneIsFair
    <3> QED
      BY <3>2, <3>3
  <2> QED
    BY <2>1, <2>2
<1>11. DiscountsAddUp(wanted.cart, n, best, Spread(wanted, automatic, given, stack))
  BY <1>1, <1>9, <1>10, SpreadSharesOut
<1> QED
  BY <1>8, <1>11

\* _accumulate_tax_group: the parts of a line's tax are the tax.
LEMMA TaxSplitAdds == ASSUME NEW interState, NEW t \in Int PROVE Added(TaxSplit(interState, t)) = t
<1>1. ASSUME NEW a \in Int, NEW s, s = <<a>> PROVE s \in [1 .. 1 -> Int] /\ s[1] = a /\ Added(s) = a
  <2>1. s \in [1 .. 1 -> Int] /\ s[1] = a /\ 0 \in Nat /\ 0 + 1 = 1
    BY <1>1
  <2>2. Added(s) = PartialSum(s, 1)
    BY <2>1, AddedIsPartialSum
  <2>3. PartialSum(s, 0 + 1) = PartialSum(s, 0) + s[0 + 1] /\ PartialSum(s, 0) = 0
    BY <2>1, PartialSumSteps
  <2> QED
    BY <1>1, <2>1, <2>2, <2>3
<1>2. CASE interState
  <2>1. TaxSplit(interState, t) = <<t>>
    BY <1>2 DEF TaxSplit
  <2> QED
    BY <1>1, <2>1
<1>3. CASE ~interState
  <2>1. PICK a \in Int : a = Paise(t, 2)
    <3>1. (2 * t + 2) \div (2 * 2) \in Int
      OBVIOUS
    <3> QED
      BY <3>1 DEF Paise
  <2>2. PICK b \in Int : b = t - a
    BY <2>1
  <2>3. PICK s : s = <<a>>
    OBVIOUS
  <2>4. PICK u : u = <<a, b>>
    OBVIOUS
  <2>5. s \in [1 .. 1 -> Int] /\ s[1] = a /\ Added(s) = a
    BY <1>1, <2>3
  <2>6. u \in [1 .. 1 + 1 -> Int] /\ u[1] = a /\ u[1 + 1] = b
    BY <2>4
  <2>7. \A i \in 1 .. 1 : u[i] = s[i]
    BY <2>5, <2>6
  <2>8. Added(u) = Added(s) + u[1 + 1]
    BY <2>5, <2>6, <2>7, AddedOneMore
  <2>9. TaxSplit(interState, t) = u
    BY <1>3, <2>1, <2>2, <2>4 DEF TaxSplit
  <2> QED
    BY <2>2, <2>5, <2>6, <2>8, <2>9
<1> QED
  BY <1>2, <1>3

\* What is to pay is not less than nothing.
LEMMA PayableIsThere ==
    ASSUME NEW grand \in Int, NEW onAccount \in Int, NEW asks \in Int, NEW gift, onAccount <= grand,
           gift = Least2(asks, IF grand > onAccount THEN grand - onAccount ELSE 0)
    PROVE  gift \in Int /\ grand - onAccount - gift >= 0
<1>1. PICK owed \in Int : owed = (IF grand > onAccount THEN grand - onAccount ELSE 0) /\ owed = grand - onAccount
  <2>1. (IF grand > onAccount THEN grand - onAccount ELSE 0) = grand - onAccount
    OBVIOUS
  <2> QED
    BY <2>1
<1>2. gift = Least2(asks, owed)
  BY <1>1
<1>3. gift \in Int /\ gift <= owed
  BY <1>2 DEF Least2
<1> QED
  BY <1>1, <1>3

\* build_preview: what is answered adds up.
LEMMA PricedAddsUp ==
    ASSUME NEW wanted \in PreviewRequests
    PROVE  Priced(wanted).state = "given" => AddsUp(wanted, Priced(wanted))
<1>1. SUFFICES ASSUME Priced(wanted).state = "given" PROVE AddsUp(wanted, Priced(wanted))
  OBVIOUS
<1>2. PICK n \in Nat : LinesAre(wanted.cart, n)
  BY RequestsAre
<1>3. PICK lines : lines = wanted.cart /\ LinesAre(lines, n)
  BY <1>2
<1>4. DOMAIN lines = 1 .. n /\ \A i \in 1 .. n : lines[i].amount \in Nat /\ lines[i].rate \in Int
  BY <1>3 DEF LinesAre
<1>5. PICK best : best = BestAutomatic(wanted)
  OBVIOUS
<1>6. PICK d : d = Discounts(wanted)
  OBVIOUS
<1>7. DiscountsAddUp(lines, n, best, d)
  BY <1>3, <1>5, <1>6, DiscountsShareOut
<1>8. d.automatic \in [1 .. n -> Int] /\ d.byHand \in [1 .. n -> Int]
  BY <1>7 DEF DiscountsAddUp
<1>9. PICK taxable : taxable = TaxableOf(lines, d)
  OBVIOUS
<1>10. PICK tax : tax = TaxOf(lines, taxable)
  OBVIOUS
<1>11. PICK invoice : invoice = Added(taxable) + Added(tax)
  OBVIOUS
<1>12. Priced(wanted) = PreviewOf(wanted, d, taxable, tax, invoice)
  BY <1>3, <1>6, <1>9, <1>10, <1>11 DEF Priced
<1>13. taxable \in [1 .. n -> Int]
  <2>1. taxable = [i \in 1 .. n |-> lines[i].amount - d.automatic[i] - d.byHand[i]]
    BY <1>4, <1>9 DEF TaxableOf
  <2>2. \A i \in 1 .. n : lines[i].amount - d.automatic[i] - d.byHand[i] \in Int
    BY <1>4, <1>8
  <2> QED
    BY <2>1, <2>2
<1>14. tax \in [1 .. n -> Int]
  <2>1. tax = [i \in 1 .. n |-> Paise(taxable[i] * lines[i].rate, 100)]
    BY <1>4, <1>10 DEF TaxOf
  <2>2. ASSUME NEW i \in 1 .. n PROVE Paise(taxable[i] * lines[i].rate, 100) \in Int
    <3>1. PICK t \in Int : t = taxable[i] * lines[i].rate
      BY <1>4, <1>13
    <3>2. (2 * t + 100) \div (2 * 100) \in Int
      OBVIOUS
    <3> QED
      BY <3>1, <3>2 DEF Paise
  <2> QED
    BY <2>1, <2>2
<1>15. Added(taxable) \in Int /\ Added(tax) \in Int
  <2>1. Added(taxable) = PartialSum(taxable, n) /\ Added(tax) = PartialSum(tax, n)
    BY <1>13, <1>14, AddedIsPartialSum
  <2>2. \A i \in 1 .. n : taxable[i] \in Int /\ tax[i] \in Int
    BY <1>13, <1>14
  <2> QED
    BY <2>1, <2>2, PartialSumIsWhole
<1>16. PICK byPoints \in Int : byPoints = wanted.tender.points
  BY RequestsAre
<1>17. PICK onAccount \in Int : onAccount = wanted.tender.credit
  BY RequestsAre
<1>18. PICK asks \in Int : asks = wanted.tender.gift
  BY RequestsAre
<1>19. PICK grand \in Int : grand = invoice - byPoints
  BY <1>11, <1>15, <1>16
<1>20. PICK refused : refused = (d.refused \/ byPoints > invoice \/ onAccount > grand)
  OBVIOUS
<1>21. PICK gift : gift = Least2(asks, IF grand > onAccount THEN grand - onAccount ELSE 0)
  OBVIOUS
<1>22. PICK taxes : taxes = [i \in 1 .. n |-> TaxSplit(wanted.interState, tax[i])]
  OBVIOUS
<1>23. PICK whole : whole = [state |-> "given", automatic |-> d.automatic, byHand |-> d.byHand, taxable |-> taxable,
                             taxes |-> taxes, invoice |-> invoice, payable |-> grand - onAccount - gift]
  OBVIOUS
<1>24. Priced(wanted) = IF refused THEN [state |-> "refused"] ELSE whole
  BY <1>3, <1>4, <1>12, <1>16, <1>17, <1>18, <1>19, <1>20, <1>21, <1>22, <1>23 DEF PreviewOf
<1>25. ~refused /\ Priced(wanted) = whole
  <2>1. [state |-> "refused"].state # "given"
    OBVIOUS
  <2> QED
    BY <1>1, <1>24, <2>1
<1>26. onAccount <= grand
  <2>1. ~(onAccount > grand)
    BY <1>20, <1>25, Zenon
  <2> QED
    BY <1>17, <1>19, <2>1
<1>27. /\ whole.automatic = d.automatic /\ whole.byHand = d.byHand /\ whole.taxable = taxable
       /\ whole.taxes = taxes /\ whole.invoice = invoice /\ whole.payable = grand - onAccount - gift
  BY <1>23
<1>28. whole.payable >= 0
  BY <1>21, <1>26, <1>27, PayableIsThere
<1>29. whole.invoice = Added(whole.taxable) + Added([i \in DOMAIN wanted.cart |-> Added(whole.taxes[i])])
  <2>1. \A i \in 1 .. n : taxes[i] = TaxSplit(wanted.interState, tax[i]) /\ tax[i] \in Int
    BY <1>14, <1>22
  <2>2. \A i \in 1 .. n : Added(taxes[i]) = tax[i]
    BY <2>1, TaxSplitAdds
  <2>3. [i \in 1 .. n |-> Added(taxes[i])] = tax
    BY <1>14, <2>2
  <2> QED
    BY <1>3, <1>4, <1>11, <1>27, <2>3
<1>30. /\ Added(whole.automatic) + Added(whole.byHand) <= Added(AmountsOf(wanted.cart))
       /\ best # NoOffer => SharesAreFair(whole.automatic, Weights(wanted.cart, best))
       /\ SharesAreFair(whole.byHand, LeftOf(wanted.cart, whole.automatic))
  BY <1>3, <1>7, <1>27 DEF DiscountsAddUp
<1>31. CASE best = NoOffer
  <2>1. Added(whole.automatic) = 0
    <3>1. d = DiscountsWith(wanted, best)
      BY <1>5, <1>6 DEF Discounts
    <3>2. d.automatic = [i \in DOMAIN wanted.cart |-> 0]
      BY <1>31, <3>1 DEF DiscountsWith, Spread
    <3>3. whole.automatic = [i \in 1 .. n |-> 0]
      BY <1>3, <1>4, <1>27, <3>2
    <3>4. whole.automatic \in [1 .. n -> Int] /\ \A i \in 1 .. n : whole.automatic[i] = 0
      BY <3>3
    <3> QED
      BY <3>4, AddedNaughts
  <2>2. ~(Added(whole.automatic) > 0)
    BY <2>1
  <2> QED
    BY <1>5, <1>25, <1>28, <1>29, <1>30, <2>2 DEF AddsUp
<1>32. CASE best # NoOffer
  <2>1. \A k \in DOMAIN wanted.campaigns :
          Gain(wanted.cart, wanted.campaigns[k]) > 0 => ~(wanted.campaigns[k].priority > best.priority)
    BY <1>2, <1>5, <1>32, BestAutomaticIs
  <2> QED
    BY <1>5, <1>25, <1>28, <1>29, <1>30, <2>1 DEF AddsUp
<1> QED
  BY <1>31, <1>32

\* A request is one that may be made, and is answered once.
PricingInv ==
    /\ request # Nothing => request \in PreviewRequests
    /\ preview.state # "none" => request # Nothing /\ preview = Priced(request)

LEMMA PricingBegins == CheckoutPricingInit => PricingInv
  BY DEF CheckoutPricingInit, PricingInv

LEMMA PricingStays ==
    ASSUME PricingInv, [CheckoutPricingNext]_pricingRows
    PROVE  PricingInv'
<1>1. CASE AskPreview
  <2>1. request = Nothing /\ preview' = preview /\ preview.state = "none"
    BY <1>1 DEF AskPreview, PricingInv
  <2>2. request' \in PreviewRequests
    BY <1>1 DEF AskPreview, PreviewRequests
  <2> QED
    BY <2>1, <2>2 DEF PricingInv
<1>2. CASE Preview
  BY <1>2 DEF Preview, PricingInv
<1>3. CASE UNCHANGED pricingRows
  BY <1>3 DEF pricingRows, PricingInv
<1> QED
  BY <1>1, <1>2, <1>3 DEF CheckoutPricingNext

LEMMA PricingAddsUp == ASSUME PricingInv PROVE PreviewAddsUp
<1>1. SUFFICES ASSUME preview.state = "given" PROVE AddsUp(request, preview)
  BY DEF PreviewAddsUp
<1>2. request \in PreviewRequests /\ preview = Priced(request)
  BY <1>1 DEF PricingInv
<1> QED
  BY <1>1, <1>2, PricedAddsUp

\* For any carts, campaigns, codes and tenders: a preview adds up, every line bears its fair share of both
\* discounts, and no campaign that gives something and stands higher was passed over.
THEOREM PricingPreviewAddsUp == CheckoutPricingSpec => []PreviewAddsUp
<1> QED
  BY PricingBegins, PricingStays, PricingAddsUp, PTL DEF CheckoutPricingSpec

-----------------------------------------------------------------------------
(* The office. *)

\* The part whose requests the control plane has keeps its own invariant; the others are as they began.
OfficeInv ==
    /\ OneRequestEach
    /\ IF office = "documents" THEN StockInv ELSE StockEmpty
    /\ IF office = "lots" THEN LotsInv ELSE LotsEmpty
    /\ IF office = "suppliers" THEN LedgerInv ELSE LedgerEmpty
    /\ IF office = "export" THEN GstInv ELSE GstEmpty
    /\ IF office = "value" THEN ValueInv ELSE ValueEmpty
    /\ IF office = "campaigns" THEN PromoInv ELSE PromoEmpty
    /\ PricingInv

\* The office begins with every part at its beginning.
LEMMA OfficeBegins == OfficeInit => OfficeInv
<1> SUFFICES ASSUME OfficeInit PROVE OfficeInv
  OBVIOUS
<1>1. StockInv /\ LotsInv /\ LedgerInv /\ GstInv /\ ValueInv /\ PromoInv
  BY StockInitInv, LotsInitInv, LedgerInitInv, GstInitInv, ValueInitInv, PromoInitInv DEF OfficeInit
<1>2. StockEmpty /\ LotsEmpty /\ LedgerEmpty
  BY DEF OfficeInit, StockDocumentsInit, BatchLotsInit, SupplierLedgerInit, StockEmpty, LotsEmpty, LedgerEmpty
<1>3. GstEmpty /\ ValueEmpty /\ PromoEmpty
  BY DEF OfficeInit, GstExportInit, CustomerValueInit, PromotionsInit, GstEmpty, ValueEmpty, PromoEmpty
<1>4. OneRequestEach
  BY <1>1 DEF PromoInv
<1>5. PricingInv
  BY PricingBegins DEF OfficeInit
<1> QED
  BY <1>1, <1>2, <1>3, <1>4, <1>5 DEF OfficeInv

\* Rows that are left alone stay as they began.
LEMMA EmptyStays ==
    /\ StockEmpty /\ UNCHANGED stockRows => StockEmpty'
    /\ LotsEmpty /\ UNCHANGED batchRows => LotsEmpty'
    /\ LedgerEmpty /\ UNCHANGED supplierRows => LedgerEmpty'
    /\ GstEmpty /\ UNCHANGED gstVars => GstEmpty'
    /\ ValueEmpty /\ UNCHANGED valueRows => ValueEmpty'
    /\ PromoEmpty /\ UNCHANGED promotionRows => PromoEmpty'
    /\ PricingInv /\ UNCHANGED pricingRows => PricingInv'
<1>1. StockEmpty /\ UNCHANGED stockRows => StockEmpty'
  BY DEF StockEmpty, stockRows
<1>2. LotsEmpty /\ UNCHANGED batchRows => LotsEmpty'
  BY DEF LotsEmpty, batchRows
<1>3. LedgerEmpty /\ UNCHANGED supplierRows => LedgerEmpty'
  BY DEF LedgerEmpty, supplierRows
<1>4. GstEmpty /\ UNCHANGED gstVars => GstEmpty'
  BY DEF GstEmpty, gstVars
<1>5. ValueEmpty /\ UNCHANGED valueRows => ValueEmpty'
  BY DEF ValueEmpty, valueRows
<1>6. PromoEmpty /\ UNCHANGED promotionRows => PromoEmpty'
  BY DEF PromoEmpty, promotionRows
<1>7. PricingInv /\ UNCHANGED pricingRows => PricingInv'
  BY PricingStays
<1> QED
  BY <1>1, <1>2, <1>3, <1>4, <1>5, <1>6, <1>7

\* Every part has its requests one by one.
LEMMA OneRequestInAll ==
    StockInv \/ LotsInv \/ LedgerInv \/ GstInv \/ ValueInv \/ PromoInv => OneRequestEach
BY DEF StockInv, LotsInv, LotsTyped, LedgerInv, LedgerTyped, GstInv, GstTyped, ValueInv, ValueTyped, PromoInv

\* One part moves, the others stand.
LEMMA OfficeStep == OfficeInv /\ [OfficeNext]_officeVars => OfficeInv'
<1> SUFFICES ASSUME OfficeInv, [OfficeNext]_officeVars PROVE OfficeInv'
  OBVIOUS
<1>1. ASSUME NEW part, At(part)
      PROVE  /\ office = part /\ office' = part
             /\ part # "documents" => StockEmpty'
             /\ part # "lots" => LotsEmpty'
             /\ part # "suppliers" => LedgerEmpty'
             /\ part # "export" => GstEmpty'
             /\ part # "value" => ValueEmpty'
             /\ part # "campaigns" => PromoEmpty'
             /\ part # "pricing" => PricingInv'
  BY <1>1, EmptyStays DEF At, OfficeInv
<1>2. CASE At("documents") /\ StockDocumentsNext
  <2>1. StockInv'
    BY <1>1, <1>2, StockStepInv DEF OfficeInv
  <2>2. OneRequestEach'
    BY <2>1 DEF StockInv
  <2> QED
    BY <1>1, <1>2, <2>1, <2>2 DEF OfficeInv
<1>3. CASE At("lots") /\ BatchLotsNext
  <2>1. LotsInv'
    BY <1>1, <1>3, LotsStepInv DEF OfficeInv
  <2>2. OneRequestEach'
    BY <2>1 DEF LotsInv, LotsTyped
  <2> QED
    BY <1>1, <1>3, <2>1, <2>2 DEF OfficeInv
<1>4. CASE At("suppliers") /\ SupplierLedgerNext
  <2>1. LedgerInv'
    BY <1>1, <1>4, LedgerStepInv DEF OfficeInv
  <2>2. OneRequestEach'
    BY <2>1 DEF LedgerInv, LedgerTyped
  <2> QED
    BY <1>1, <1>4, <2>1, <2>2 DEF OfficeInv
<1>5. CASE At("export") /\ GstExportNext
  <2>1. GstInv'
    BY <1>1, <1>5, GstStepInv DEF OfficeInv
  <2>2. OneRequestEach'
    BY <2>1 DEF GstInv, GstTyped
  <2> QED
    BY <1>1, <1>5, <2>1, <2>2 DEF OfficeInv
<1>6. CASE At("value") /\ CustomerValueNext
  <2>1. ValueInv'
    BY <1>1, <1>6, ValueStepInv DEF OfficeInv
  <2>2. OneRequestEach'
    BY <2>1 DEF ValueInv, ValueTyped
  <2> QED
    BY <1>1, <1>6, <2>1, <2>2 DEF OfficeInv
<1>7. CASE At("campaigns") /\ PromotionsNext
  <2>1. PromoInv'
    BY <1>1, <1>7, PromoStepInv DEF OfficeInv
  <2>2. OneRequestEach'
    BY <2>1 DEF PromoInv
  <2> QED
    BY <1>1, <1>7, <2>1, <2>2 DEF OfficeInv
<1>8. CASE At("pricing") /\ CheckoutPricingNext
  <2>1. OneRequestEach'
    BY <1>8 DEF At, deskVars, OneRequestEach, OfficeInv
  <2>2. PricingInv'
    BY <1>8, PricingStays DEF OfficeInv
  <2> QED
    BY <1>1, <1>8, <2>1, <2>2 DEF OfficeInv
<1>9. CASE UNCHANGED officeVars
  <2>1. /\ office' = office /\ UNCHANGED deskVars
        /\ UNCHANGED stockRows /\ UNCHANGED batchRows /\ UNCHANGED supplierRows
        /\ UNCHANGED gstVars /\ UNCHANGED valueRows /\ UNCHANGED promotionRows
        /\ UNCHANGED pricingRows
    BY <1>9 DEF officeVars
  <2>2. OneRequestEach'
    BY <2>1 DEF deskVars, OneRequestEach, OfficeInv
  <2>3. /\ (StockInv => StockInv') /\ (LotsInv => LotsInv') /\ (LedgerInv => LedgerInv')
        /\ (GstInv => GstInv') /\ (ValueInv => ValueInv') /\ (PromoInv => PromoInv')
    BY <2>1, StockStepInv, LotsStepInv, LedgerStepInv, GstStepInv, ValueStepInv, PromoStepInv
       DEF stockVars, batchVars, supplierVars, valueVars, promotionVars
  <2> QED
    BY <2>1, <2>2, <2>3, EmptyStays DEF OfficeInv
<1> QED
  BY <1>2, <1>3, <1>4, <1>5, <1>6, <1>7, <1>8, <1>9 DEF OfficeNext

\* What the run of the office checks of them follows.
LEMMA OfficeShows ==
    OfficeInv => /\ DocumentsSettle /\ StockRequestsHold /\ FirstExpiryFirstOut /\ LotsCovered
                 /\ NeverOverpaid /\ CleanIsCurrent /\ ExportsAgree
                 /\ ValueFollowsLedger /\ RedeemedWithinLimits /\ PreviewAddsUp
<1> SUFFICES ASSUME OfficeInv
             PROVE  /\ DocumentsSettle /\ StockRequestsHold /\ FirstExpiryFirstOut /\ LotsCovered
                    /\ NeverOverpaid /\ CleanIsCurrent /\ ExportsAgree
                    /\ ValueFollowsLedger /\ RedeemedWithinLimits /\ PreviewAddsUp
  OBVIOUS
<1>1. DocumentsSettle /\ StockRequestsHold
  BY StockInvShows, StockBegins, StockShows DEF OfficeInv
<1>2. FirstExpiryFirstOut /\ LotsCovered
  BY LotsInvShows, LotsBegin, ReportAddsUp DEF OfficeInv
<1>3. NeverOverpaid /\ CleanIsCurrent
  BY LedgerInvShows, LedgerBegins DEF OfficeInv
<1>4. ExportsAgree
  BY GstBegins DEF OfficeInv, GstInv, ExportsAgree
<1>5. ValueFollowsLedger
  BY ValueBegins DEF OfficeInv, ValueInv
<1>6. RedeemedWithinLimits
  BY PromoInvShows, PromoBegins, PromoShows DEF OfficeInv
<1>7. PreviewAddsUp
  BY PricingAddsUp DEF OfficeInv
<1> QED
  BY <1>1, <1>2, <1>3, <1>4, <1>5, <1>6, <1>7

\* Of the whole back office, as its run checks it: documents, lots, suppliers' accounts, exports, what
\* customers hold, campaigns and prices each keep what they promise, whichever of them the requests are of.
THEOREM OfficeHolds ==
    OfficeSpec => /\ []DocumentsSettle /\ []StockRequestsHold /\ []FirstExpiryFirstOut /\ []LotsCovered
                  /\ []NeverOverpaid /\ []CleanIsCurrent /\ []ExportsAgree
                  /\ []ValueFollowsLedger /\ []RedeemedWithinLimits /\ []PreviewAddsUp
BY OfficeBegins, OfficeStep, OfficeShows, PTL DEF OfficeSpec
=============================================================================
