--------------------------- MODULE SublistTheorems ---------------------------
(***************************************************************************)
(* The laws of Sublists, stated once and cited by the proofs about the      *)
(* modules that use it, and the two principles that let them reason about   *)
(* repetition: a property of numbers that is passed on from each to the     *)
(* next, and a function that is defined by what it was one step before.     *)
(***************************************************************************)
EXTENDS Sublists, FunctionTheorems, FiniteSetTheorems, WellFoundedInduction, TLAPS

-----------------------------------------------------------------------------
(* Repetition *)

\* One step further.
LEMMA NextNumber ==
  ASSUME NEW n \in Nat, NEW k \in 0..(n - 1)
  PROVE  k + 1 \in 1..n /\ k + 1 \in 0..n /\ (k + 1) - 1 = k
OBVIOUS

\* What lies past x is x and some more.
Past(x, y, p) == \E j \in 1..y : p = x + j
LEMMA NumberPast ==
  ASSUME NEW x \in Nat, NEW y \in Nat, NEW p \in Nat, x < p, p <= x + y
  PROVE  Past(x, y, p)
<1>1. p - x \in 1..y /\ p = x + (p - x)
  OBVIOUS
<1> QED
  BY <1>1, Zenon DEF Past

\* A set of numbers has a least element.
LEMMA LeastElement ==
  ASSUME NEW S, S \subseteq Nat, S # {}
  PROVE  \E n \in S : \A m \in S : n <= m
<1> DEFINE R == OpToRel(<, Nat)
<1>1. IsWellFoundedOn(R, Nat)
  BY NatLessThanWellFounded, Zenon
<1>2. PICK n \in S : \A m \in S : ~(<<m, n>> \in R)
  <2> HIDE DEF R
  <2> QED
    BY <1>1, WFMin
<1>3. R = {ss \in Nat \X Nat : ss[1] < ss[2]}
  BY Zenon DEF OpToRel
<1> HIDE DEF R
<1>4. ASSUME NEW m \in S PROVE n <= m
  <2>1. m \in Nat /\ n \in Nat
    OBVIOUS
  <2>2. <<m, n>> \in Nat \X Nat
    BY <2>1
  <2>3. ~(<<m, n>> \in {ss \in Nat \X Nat : ss[1] < ss[2]})
    BY <1>2, <1>3, Zenon
  <2>4. ~(m < n)
    BY <2>2, <2>3
  <2> QED
    BY <2>1, <2>4
<1> QED
  BY <1>4

\* What holds of 0 and is passed on up to N holds up to N.
LEMMA Repetition ==
  ASSUME NEW N \in Nat, NEW S, 0 \in S, \A n \in 0..(N - 1) : n \in S => n + 1 \in S
  PROVE  \A n \in 0..N : n \in S
<1> DEFINE T == {n \in 0..N : n \notin S}
<1> SUFFICES ASSUME T # {} PROVE FALSE
  OBVIOUS
<1>1. T \subseteq Nat
  OBVIOUS
<1>2. PICK n \in T : \A m \in T : n <= m
  <2> HIDE DEF T
  <2> QED
    BY <1>1, LeastElement
<1>3. n \in 1..N /\ n - 1 \in 0..(N - 1) /\ n - 1 \notin T /\ (n - 1) + 1 = n
  BY <1>2
<1> QED
  BY <1>2, <1>3

\* A function on 0..N that is given by its first value, and by each one from the
\* one before, exists.
Iterates(f, N, V, base, step) ==
  f \in [0..N -> V] /\ f[0] = base /\ \A n \in 1..N : f[n] = step[<<n, f[n - 1]>>]

LEMMA RecursionExists ==
  ASSUME NEW N \in Nat, NEW V, NEW base \in V, NEW step \in [(1..N) \X V -> V]
  PROVE  \E f : Iterates(f, N, V, base, step)
<1> DEFINE Good(f, k) == f \in [0..k -> V] /\ f[0] = base /\ \A n \in 1..k : f[n] = step[<<n, f[n - 1]>>]
           S == {k \in 0..N : \E f : Good(f, k)}
<1>1. 0 \in S
  <2>1. Good([n \in 0..0 |-> base], 0)
    OBVIOUS
  <2> HIDE DEF Good
  <2>2. \E f : Good(f, 0)
    BY <2>1, Zenon
  <2> QED
    BY <2>2
<1>2. ASSUME NEW k \in 0..(N - 1), k \in S PROVE k + 1 \in S
  <2>1. PICK f : Good(f, k)
    BY <1>2
  <2>2. k + 1 \in 1..N /\ f[k] \in V
    BY <2>1
  <2>3. step[<<k + 1, f[k]>>] \in V
    BY <2>2
  <2> DEFINE g == [n \in 0..(k + 1) |-> IF n = k + 1 THEN step[<<k + 1, f[k]>>] ELSE f[n]]
  <2>4. g \in [0..(k + 1) -> V]
    BY <2>1, <2>3
  <2>5. g[0] = base /\ g[k + 1] = step[<<k + 1, g[k]>>]
    BY <2>1
  <2>6. ASSUME NEW n \in 1..k PROVE g[n] = step[<<n, g[n - 1]>>]
    BY <2>1, <2>6
  <2>7. \A n \in 1..(k + 1) : n \in 1..k \/ n = k + 1
    OBVIOUS
  <2>8. \A n \in 1..(k + 1) : g[n] = step[<<n, g[n - 1]>>]
    <3> SUFFICES ASSUME NEW n \in 1..(k + 1) PROVE g[n] = step[<<n, g[n - 1]>>]
      OBVIOUS
    <3>1. CASE n \in 1..k
      BY <3>1, <2>6
    <3>2. CASE n = k + 1
      <4>1. n - 1 = k
        BY <3>2
      <4> QED
        BY <3>2, <4>1, <2>5
    <3> QED
      BY <2>7, <3>1, <3>2
  <2>9. Good(g, k + 1)
    <3> HIDE DEF g
    <3> QED
      BY <2>4, <2>5, <2>8
  <2> HIDE DEF Good, g
  <2>10. \E h : Good(h, k + 1)
    BY <2>9, Zenon
  <2> QED
    BY <2>2, <2>10
<1>3. N \in S
  <2>1. \A k \in 0..N : k \in S
    <3> HIDE DEF S
    <3> QED
      BY <1>1, <1>2, Repetition
  <2> QED
    BY <2>1
<1>4. PICK f : Good(f, N)
  BY <1>3
<1>5. Iterates(f, N, V, base, step)
  BY <1>4 DEF Iterates
<1> HIDE DEF Good, S
<1> QED
  BY <1>5, Zenon

-----------------------------------------------------------------------------
(* Ranks: the operators that put what they are given in an order           *)

\* Different ranks between 1 and the number of elements: every rank is taken.
LEMMA Ranking ==
  ASSUME NEW S, IsFiniteSet(S), NEW p \in [S -> 1 .. Cardinality(S)],
         \A i, j \in S : p[i] = p[j] => i = j
  PROVE  \A k \in 1 .. Cardinality(S) : \E i \in S : p[i] = k
<1>1. PICK n \in Nat : n = Cardinality(S)
  BY FS_CardinalityType
<1>2. IsFiniteSet(1 .. n) /\ Cardinality(1 .. n) = n
  BY <1>1, FS_Interval
<1>3. p \in Injection(S, 1 .. n)
  BY <1>1 DEF Injection, IsInjective
<1>4. p \in Surjection(S, 1 .. n)
  BY <1>1, <1>2, <1>3, FS_Injection
<1> QED
  BY <1>1, <1>4 DEF Surjection

\* A set that lies strictly inside another one is smaller.
LEMMA StrictlySmaller ==
  ASSUME NEW T, IsFiniteSet(T), NEW S, S \subseteq T, NEW x \in T, x \notin S
  PROVE  IsFiniteSet(S) /\ Cardinality(S) \in Nat /\ Cardinality(T) \in Nat /\ Cardinality(S) < Cardinality(T)
<1>1. IsFiniteSet(S) /\ Cardinality(S) <= Cardinality(T) /\ (Cardinality(T) = Cardinality(S) => T = S)
  BY FS_Subset
<1>2. Cardinality(S) \in Nat /\ Cardinality(T) \in Nat
  BY <1>1, FS_CardinalityType
<1> QED
  BY <1>1, <1>2

LEMMA TwoElements ==
  ASSUME NEW a, NEW b, a # b
  PROVE  Cardinality({a, b}) = 2
<1>1. Cardinality({a}) = 1 /\ IsFiniteSet({a})
  BY FS_Singleton
<1>2. b \notin {a} /\ {a, b} = {a} \cup {b}
  OBVIOUS
<1>3. Cardinality({a} \cup {b}) = Cardinality({a}) + 1
  BY <1>1, <1>2, FS_AddElement
<1>4. Cardinality({a, b}) = Cardinality({a} \cup {b})
  BY <1>2
<1> QED
  BY <1>1, <1>3, <1>4

\* Nth lists a finite set of numbers: every k up to its size has an element, which
\* has k elements up to it, and every element has a k.
LEMMA NthOK ==
  ASSUME NEW S, S \subseteq Int, IsFiniteSet(S)
  PROVE  /\ \A k \in 1 .. Cardinality(S) : Nth(S, k) \in S
         /\ \A k \in 1 .. Cardinality(S) : Cardinality({m \in S : m <= Nth(S, k)}) = k
         /\ \A k, l \in 1 .. Cardinality(S) : Nth(S, k) = Nth(S, l) => k = l
         /\ \A n \in S : \E k \in 1 .. Cardinality(S) : Nth(S, k) = n
<1> DEFINE Upto(n) == {m \in S : m <= n}
           p == [n \in S |-> Cardinality(Upto(n))]
<1>1. ASSUME NEW m \in S, NEW n \in S, m < n
      PROVE  p[m] # p[n]
  <2>0. m \in Int /\ n \in Int /\ \A i \in S : i \in Int
    OBVIOUS
  <2>1. Upto(m) \subseteq Upto(n) /\ n \in Upto(n) /\ n \notin Upto(m) /\ Upto(n) \subseteq S
    <3>1. \A i \in S : i <= m => i <= n
      BY <1>1, <2>0
    <3>2. n <= n /\ ~(n <= m)
      BY <1>1, <2>0
    <3> QED
      BY <3>1, <3>2, Zenon
  <2>2. IsFiniteSet(Upto(n))
    BY <2>1, FS_Subset
  <2> HIDE DEF Upto
  <2> QED
    BY <2>1, <2>2, StrictlySmaller
<1>2. p \in [S -> 1 .. Cardinality(S)]
  <2> SUFFICES ASSUME NEW n \in S PROVE Cardinality(Upto(n)) \in 1 .. Cardinality(S)
    OBVIOUS
  <2>1. Upto(n) \subseteq S /\ {} \subseteq Upto(n) /\ n \in Upto(n)
    OBVIOUS
  <2> HIDE DEF Upto
  <2>2. IsFiniteSet(Upto(n)) /\ Cardinality(Upto(n)) <= Cardinality(S) /\ Cardinality(S) \in Nat
    BY <2>1, FS_Subset, FS_CardinalityType
  <2>3. Cardinality(Upto(n)) \in Nat /\ 0 < Cardinality(Upto(n))
    BY <2>1, <2>2, StrictlySmaller, FS_EmptySet
  <2> QED
    BY <2>2, <2>3
<1>3. \A m, n \in S : p[m] = p[n] => m = n
  BY <1>1
<1>4. \A n \in S : p[n] = Cardinality({m \in S : m <= n})
  OBVIOUS
<1> HIDE DEF p
<1>5. \A k \in 1 .. Cardinality(S) : \E n \in S : p[n] = k
  BY <1>2, <1>3, Ranking
<1>6. \A k \in 1 .. Cardinality(S) : Nth(S, k) \in S /\ p[Nth(S, k)] = k
  <2> TAKE k \in 1 .. Cardinality(S)
  <2>1. PICK n \in S : Cardinality({m \in S : m <= n}) = k
    BY <1>4, <1>5
  <2>2. Nth(S, k) \in S /\ Cardinality({m \in S : m <= Nth(S, k)}) = k
    BY <2>1 DEF Nth
  <2> QED
    BY <1>4, <2>2
<1>7. ASSUME NEW n \in S
      PROVE  \E k \in 1 .. Cardinality(S) : Nth(S, k) = n
  <2>1. p[n] \in 1 .. Cardinality(S)
    BY <1>2
  <2> QED
    BY <1>3, <1>6, <2>1
<1>8. \A k \in 1 .. Cardinality(S) : Cardinality({m \in S : m <= Nth(S, k)}) = k
  BY <1>4, <1>6
<1> QED
  BY <1>6, <1>7, <1>8

\* An element with k elements up to it is the k-th.
LEMMA NthOfRank ==
  ASSUME NEW S, S \subseteq Int, IsFiniteSet(S), NEW n \in S
  PROVE  /\ Cardinality({m \in S : m <= n}) \in 1 .. Cardinality(S)
         /\ Nth(S, Cardinality({m \in S : m <= n})) = n
<1>1. PICK k \in 1 .. Cardinality(S) : Nth(S, k) = n
  BY NthOK
<1>2. Cardinality({m \in S : m <= Nth(S, k)}) = k
  BY NthOK
<1> QED
  BY <1>1, <1>2

\* The k-th elements are in order, and nothing lies between two consecutive ones.
LEMMA NthOrder ==
  ASSUME NEW S, S \subseteq Int, IsFiniteSet(S)
  PROVE  /\ \A k, l \in 1 .. Cardinality(S) : k < l => Nth(S, k) < Nth(S, l)
         /\ \A k \in 1 .. (Cardinality(S) - 1) : \A n \in S : n <= Nth(S, k) \/ Nth(S, k + 1) <= n
         /\ Cardinality(S) \in Nat
         /\ S # {} => 1 \in 1 .. Cardinality(S)
         /\ S # {} => \A n \in S : Nth(S, 1) <= n /\ n <= Nth(S, Cardinality(S))
<1>0. PICK c \in Nat : c = Cardinality(S)
  BY FS_CardinalityType
<1> DEFINE Upto(n) == {m \in S : m <= n}
<1>1. ASSUME NEW k \in 1 .. c, NEW l \in 1 .. c, k < l
      PROVE  Nth(S, k) < Nth(S, l)
  <2>1. Nth(S, k) \in Int /\ Nth(S, l) \in Int
    BY <1>0, NthOK
  <2>2. SUFFICES ASSUME Nth(S, l) <= Nth(S, k) PROVE FALSE
    BY <2>1
  <2>3. Upto(Nth(S, l)) \subseteq Upto(Nth(S, k))
    <3>1. \A m \in S : m \in Int
      OBVIOUS
    <3>2. \A m \in S : m <= Nth(S, l) => m <= Nth(S, k)
      BY <2>1, <2>2, <3>1
    <3> QED
      BY <3>2, Zenon
  <2>4. IsFiniteSet(Upto(Nth(S, k)))
    BY FS_Subset
  <2>5. Cardinality(Upto(Nth(S, k))) = k /\ Cardinality(Upto(Nth(S, l))) = l
    BY <1>0, NthOK
  <2> HIDE DEF Upto
  <2>6. Cardinality(Upto(Nth(S, l))) <= Cardinality(Upto(Nth(S, k)))
    BY <2>3, <2>4, FS_Subset
  <2> QED
    BY <1>1, <2>5, <2>6
<1>2. ASSUME NEW n \in S
      PROVE  \E k \in 1 .. c : Nth(S, k) = n
  BY <1>0, NthOK
<1>3. ASSUME NEW k \in 1 .. (c - 1), NEW n \in S
      PROVE  n <= Nth(S, k) \/ Nth(S, k + 1) <= n
  <2>1. PICK j \in 1 .. c : Nth(S, j) = n
    BY <1>2
  <2>2. k \in 1 .. c /\ k + 1 \in 1 .. c /\ (j < k \/ j = k \/ j = k + 1 \/ k + 1 < j)
    OBVIOUS
  <2>3. n \in Int /\ Nth(S, k) \in Int /\ Nth(S, k + 1) \in Int
    BY <1>0, <2>2, NthOK
  <2>4. \/ n < Nth(S, k) \/ n = Nth(S, k) \/ n = Nth(S, k + 1) \/ Nth(S, k + 1) < n
    BY <1>1, <2>1, <2>2
  <2> QED
    BY <2>3, <2>4
<1>4. S # {} => 1 \in 1 .. c /\ c \in 1 .. c
  <2> SUFFICES ASSUME NEW n \in S PROVE 1 \in 1 .. c /\ c \in 1 .. c
    OBVIOUS
  <2>1. PICK k \in 1 .. c : Nth(S, k) = n
    BY <1>2
  <2> QED
    BY <1>0, <2>1
<1>5. ASSUME NEW n \in S
      PROVE  Nth(S, 1) <= n /\ n <= Nth(S, c)
  <2>1. PICK j \in 1 .. c : Nth(S, j) = n
    BY <1>2
  <2>2. n \in Int /\ Nth(S, 1) \in Int /\ Nth(S, c) \in Int
    BY <1>0, <1>4, NthOK
  <2>3. (1 < j \/ 1 = j) /\ (j < c \/ j = c) /\ 1 \in 1 .. c /\ c \in 1 .. c
    OBVIOUS
  <2>4. (Nth(S, 1) < n \/ Nth(S, 1) = n) /\ (n < Nth(S, c) \/ n = Nth(S, c))
    BY <1>1, <2>1, <2>3
  <2> QED
    BY <2>2, <2>4
<1> QED
  BY <1>0, <1>1, <1>3, <1>4, <1>5

\* A function that hits every element of a set once keeps the size.
LEMMA SameSize ==
  ASSUME NEW S, IsFiniteSet(S), NEW T, NEW f \in [S -> T],
         \A i, j \in S : f[i] = f[j] => i = j, \A n \in T : \E i \in S : f[i] = n
  PROVE  IsFiniteSet(T) /\ Cardinality(T) = Cardinality(S)
<1>1. f \in Bijection(S, T)
  BY Fun_IsBij
<1>2. ExistsBijection(S, T)
  BY <1>1 DEF ExistsBijection
<1> QED
  BY <1>2, FS_Bijection

\* A function that keeps the order takes the k-th element to the k-th.
InOrder(f, S, T) ==
    /\ f \in [S -> T] /\ S \subseteq Int /\ IsFiniteSet(S) /\ T \subseteq Int
    /\ \A i, j \in S : i < j => f[i] < f[j]
    /\ \A n \in T : \E i \in S : f[i] = n
RanksKept(f, S, T) ==
    /\ Cardinality(T) = Cardinality(S)
    /\ \A k \in 1..Cardinality(S) : f[Nth(S, k)] = Nth(T, k)
LEMMA SameRanks ==
  ASSUME NEW S, NEW T, NEW f, InOrder(f, S, T)
  PROVE  RanksKept(f, S, T)
<1>0. /\ S \subseteq Int /\ IsFiniteSet(S) /\ T \subseteq Int /\ f \in [S -> T]
      /\ \A i, j \in S : i < j => f[i] < f[j]
      /\ \A n \in T : \E i \in S : f[i] = n
  BY Zenon DEF InOrder
<1> USE <1>0
<1>1. \A i, j \in S : i \in Int /\ j \in Int /\ f[i] \in Int /\ f[j] \in Int
  OBVIOUS
<1>2. \A i, j \in S : (i = j \/ i < j \/ j < i) /\ (f[i] < f[j] => f[i] # f[j]) /\ (f[j] < f[i] => f[i] # f[j])
  BY <1>1
<1>3. \A i, j \in S : f[i] = f[j] => i = j
  BY <1>2
<1>4. IsFiniteSet(T) /\ Cardinality(T) = Cardinality(S)
  BY <1>3, SameSize
<1>5. ASSUME NEW k \in 1 .. Cardinality(S)
      PROVE  f[Nth(S, k)] = Nth(T, k)
  <2>0. Nth(S, k) \in S /\ Cardinality({m \in S : m <= Nth(S, k)}) = k
    BY NthOK
  <2>1. PICK n \in S : n = Nth(S, k) /\ Cardinality({m \in S : m <= n}) = k
    BY <2>0, Zenon
  <2> DEFINE A == {m \in S : m <= n}
             B == {m \in T : m <= f[n]}
             g == [i \in A |-> f[i]]
  <2>2. \A i \in S : i <= n <=> f[i] <= f[n]
    <3> SUFFICES ASSUME NEW i \in S PROVE i <= n <=> f[i] <= f[n]
      OBVIOUS
    <3>1. i \in Int /\ n \in Int /\ f[i] \in Int /\ f[n] \in Int
      BY <1>1
    <3>2. (i < n => f[i] < f[n]) /\ (n < i => f[n] < f[i])
      OBVIOUS
    <3> QED
      BY <3>1, <3>2
  <2>3. g \in [A -> B]
    BY <2>2
  <2>4. \A i, j \in A : g[i] = g[j] => i = j
    BY <1>3
  <2>5. \A m \in B : \E i \in A : g[i] = m
    <3> SUFFICES ASSUME NEW m \in B PROVE \E i \in A : g[i] = m
      OBVIOUS
    <3>1. PICK i \in S : f[i] = m
      OBVIOUS
    <3>2. i \in A
      BY <2>2, <3>1
    <3> QED
      BY <3>1, <3>2
  <2>6. IsFiniteSet(A)
    BY FS_Subset
  <2>7. Cardinality(B) = Cardinality(A)
    <3> HIDE DEF A, B, g
    <3> QED
      BY <2>3, <2>4, <2>5, <2>6, SameSize
  <2>8. Nth(T, Cardinality(B)) = f[n]
    BY <1>4, NthOfRank
  <2> QED
    BY <2>1, <2>7, <2>8
<1> QED
  BY <1>4, <1>5 DEF RanksKept

-----------------------------------------------------------------------------
(* Sublists *)

\* Positions of a sequence are finitely many numbers.
LEMMA PositionsOK ==
  ASSUME NEW n \in Nat, NEW S, S \subseteq 1..n
  PROVE  S \subseteq Int /\ IsFiniteSet(S) /\ Cardinality(S) \in 0..n
<1>1. IsFiniteSet(1..n) /\ Cardinality(1..n) = n
  BY FS_Interval
<1>2. IsFiniteSet(S) /\ Cardinality(S) <= n
  BY <1>1, FS_Subset
<1>3. Cardinality(S) \in Nat
  BY <1>2, FS_CardinalityType
<1> QED
  BY <1>2, <1>3

\* A sublist is as long as there are positions.
LEMMA PickOK ==
  ASSUME NEW V, NEW s \in Seq(V), NEW S, S \subseteq 1..Len(s)
  PROVE  Pick(s, S) \in Seq(V) /\ Len(Pick(s, S)) = Cardinality(S) /\ Cardinality(S) \in 0..Len(s)
<1>1. Len(s) \in Nat /\ \A i \in 1..Len(s) : s[i] \in V
  OBVIOUS
<1>2. S \subseteq Int /\ IsFiniteSet(S) /\ Cardinality(S) \in 0..Len(s)
  BY <1>1, PositionsOK
<1>3. PICK c \in Nat : c = Cardinality(S)
  BY <1>2
<1>4. \A k \in 1..c : Nth(S, k) \in S
  BY <1>2, <1>3, NthOK
<1>5. Pick(s, S) = [k \in 1..c |-> s[Nth(S, k)]]
  BY <1>3 DEF Pick
<1>6. \A k \in 1..c : s[Nth(S, k)] \in V
  BY <1>1, <1>4
<1>7. Pick(s, S) \in Seq(V) /\ Len(Pick(s, S)) = c
  BY <1>5, <1>6
<1> QED
  BY <1>2, <1>3, <1>7

\* It has what its sequence has at those positions, and in that order.
LEMMA PickAt ==
  ASSUME NEW V, NEW s \in Seq(V), NEW S, S \subseteq 1..Len(s)
  PROVE  \A k \in 1..Cardinality(S) : Pick(s, S)[k] = s[Nth(S, k)]
BY DEF Pick

LEMMA PickedAt ==
  ASSUME NEW V, NEW s \in Seq(V), NEW S, S \subseteq 1..Len(s)
  PROVE  /\ \A k \in 1..Cardinality(S) : Nth(S, k) \in S
         /\ \A i \in S : \E k \in 1..Cardinality(S) : Nth(S, k) = i
<1>1. Len(s) \in Nat
  OBVIOUS
<1>2. S \subseteq Int /\ IsFiniteSet(S)
  BY <1>1, PositionsOK
<1> QED
  BY <1>2, NthOK

\* FirstOf has what stands at the first of the positions.
LEMMA FirstOfOK ==
  ASSUME NEW V, NEW s \in Seq(V), NEW S, S \subseteq 1..Len(s)
  PROVE  /\ S = {} => FirstOf(s, S) = <<>>
         /\ S # {} => \E i \in S : FirstOf(s, S) = <<s[i]>> /\ \A j \in S : i <= j
<1>1. S = {} => FirstOf(s, S) = <<>>
  BY DEF FirstOf
<1>2. ASSUME S # {}
      PROVE  \E i \in S : FirstOf(s, S) = <<s[i]>> /\ \A j \in S : i <= j
  <2>0. Len(s) \in Nat
    OBVIOUS
  <2>1. S \subseteq Int /\ IsFiniteSet(S)
    BY <2>0, PositionsOK
  <2>2. Nth(S, 1) \in S /\ \A j \in S : Nth(S, 1) <= j
    BY <1>2, <2>1, NthOK, NthOrder
  <2>3. FirstOf(s, S) = <<s[Nth(S, 1)]>>
    BY <1>2 DEF FirstOf
  <2> QED
    BY <2>2, <2>3
<1> QED
  BY <1>1, <1>2

\* A sequence that begins with one and goes on with another is their concatenation.
LEMMA Gluing ==
  ASSUME NEW V, NEW a \in Seq(V), NEW b \in Seq(V), NEW c \in Seq(V), Len(c) = Len(a) + Len(b),
         \A k \in 1..Len(a) : c[k] = a[k], \A j \in 1..Len(b) : c[Len(a) + j] = b[j]
  PROVE  c = a \o b
<1>1. PICK p \in Nat, q \in Nat : p = Len(a) /\ q = Len(b)
  OBVIOUS
<1>2. a \o b \in Seq(V) /\ Len(a \o b) = p + q
  BY <1>1
<1>3. ASSUME NEW k \in 1..(p + q) PROVE c[k] = (a \o b)[k]
  <2>1. CASE k \in 1..p
    BY <1>1, <2>1
  <2>2. CASE k \notin 1..p
    <3>1. k - p \in 1..q /\ p + (k - p) = k
      BY <2>2
    <3>2. c[p + (k - p)] = b[k - p]
      BY <1>1, <3>1
    <3>3. (a \o b)[k] = b[k - p]
      BY <1>1, <2>2, <3>1
    <3> QED
      BY <3>1, <3>2, <3>3
  <2> QED
    BY <2>1, <2>2
<1> QED
  BY <1>1, <1>2, <1>3

\* A sublist with every position is the sequence, one with none is empty.
LEMMA PickAll ==
  ASSUME NEW V, NEW s \in Seq(V)
  PROVE  Pick(s, 1..Len(s)) = s /\ Pick(s, {}) = <<>>
<1>1. PICK n \in Nat : n = Len(s)
  OBVIOUS
<1>2. IsFiniteSet(1..n) /\ Cardinality(1..n) = n /\ 1..n \subseteq Int
  BY FS_Interval
<1>3. ASSUME NEW k \in 1..n PROVE Nth(1..n, k) = k
  <2>1. {m \in 1..n : m <= k} = 1..k
    OBVIOUS
  <2>2. Cardinality(1..k) = k
    BY FS_Interval
  <2>3. Nth(1..n, Cardinality({m \in 1..n : m <= k})) = k
    BY <1>2, NthOfRank
  <2> QED
    BY <2>1, <2>2, <2>3
<1>4. Pick(s, 1..n) = [k \in 1..n |-> s[k]]
  BY <1>2, <1>3 DEF Pick
<1>5. Pick(s, 1..n) = s
  BY <1>1, <1>4
<1>6. Pick(s, {}) = <<>>
  <2>1. Cardinality({}) = 0
    BY FS_EmptySet
  <2>2. Pick(s, {}) = [k \in 1..0 |-> s[Nth({}, k)]]
    BY <2>1 DEF Pick
  <2> QED
    BY <2>2
<1> QED
  BY <1>1, <1>5, <1>6

\* U has the positions S of a sequence of length n, and behind them the positions T
\* of one of length l.
Joint(S, n, T, l, U) ==
  /\ S \subseteq 1..n /\ T \subseteq 1..l /\ U \subseteq 1..(n + l)
  /\ \A i \in 1..n : i \in U <=> i \in S
  /\ \A j \in 1..l : n + j \in U <=> j \in T

\* A sublist of two sequences one behind the other is the two sublists, one behind
\* the other.
LEMMA PickConcat ==
  ASSUME NEW V, NEW s \in Seq(V), NEW t \in Seq(V), NEW S, NEW T, NEW U, Joint(S, Len(s), T, Len(t), U)
  PROVE  Pick(s \o t, U) = Pick(s, S) \o Pick(t, T)
<1>0. /\ S \subseteq 1..Len(s) /\ T \subseteq 1..Len(t) /\ U \subseteq 1..(Len(s) + Len(t))
      /\ \A i \in 1..Len(s) : i \in U <=> i \in S
      /\ \A j \in 1..Len(t) : Len(s) + j \in U <=> j \in T
  BY DEF Joint
<1> USE <1>0
<1>1. PICK n \in Nat, l \in Nat : n = Len(s) /\ l = Len(t)
  OBVIOUS
<1>2. /\ S \subseteq Int /\ IsFiniteSet(S) /\ T \subseteq Int /\ IsFiniteSet(T) /\ U \subseteq Int /\ IsFiniteSet(U)
      /\ Cardinality(S) \in Nat /\ Cardinality(T) \in Nat /\ Cardinality(U) \in Nat
  <2>1. n + l \in Nat
    BY <1>1
  <2>2. S \subseteq Int /\ IsFiniteSet(S) /\ Cardinality(S) \in 0..n
    BY <1>1, PositionsOK
  <2>3. T \subseteq Int /\ IsFiniteSet(T) /\ Cardinality(T) \in 0..l
    BY <1>1, PositionsOK
  <2>4. U \subseteq Int /\ IsFiniteSet(U) /\ Cardinality(U) \in 0..(n + l)
    BY <1>1, <2>1, PositionsOK
  <2> QED
    BY <1>1, <2>2, <2>3, <2>4
<1>3. PICK p \in Nat, q \in Nat : p = Cardinality(S) /\ q = Cardinality(T)
  BY <1>2
<1> DEFINE Moved(A) == {n + j : j \in A}
<1>4. ASSUME NEW A, A \subseteq T
      PROVE  IsFiniteSet(Moved(A)) /\ Cardinality(Moved(A)) = Cardinality(A) /\ S \cap Moved(A) = {}
  <2>1. \A j \in A : j \in 1..l
    BY <1>1, <1>4
  <2>2. IsFiniteSet(A)
    BY <1>2, <1>4, FS_Subset
  <2> DEFINE f == [j \in A |-> n + j]
  <2>3. f \in [A -> Moved(A)] /\ \A m \in Moved(A) : \E j \in A : f[j] = m
    OBVIOUS
  <2>4. \A i, j \in A : f[i] = f[j] => i = j
    BY <2>1
  <2>5. S \cap Moved(A) = {}
    BY <1>1, <2>1
  <2> HIDE DEF f, Moved
  <2> QED
    BY <2>2, <2>3, <2>4, <2>5, SameSize
<1>5. ASSUME NEW A, A \subseteq T
      PROVE  Cardinality(S \cup Moved(A)) = p + Cardinality(A) /\ Cardinality(A) \in Nat
  <2>1. IsFiniteSet(Moved(A)) /\ Cardinality(Moved(A)) = Cardinality(A) /\ S \cap Moved(A) = {}
    BY <1>4, <1>5
  <2>2. Cardinality(A) \in Nat
    BY <1>2, <1>5, FS_Subset, FS_CardinalityType
  <2> HIDE DEF Moved
  <2>3. Cardinality(S \cup Moved(A)) = Cardinality(S) + Cardinality(Moved(A)) - Cardinality({})
    BY <1>2, <2>1, FS_Union
  <2> QED
    BY <1>3, <2>1, <2>2, <2>3, FS_EmptySet
<1>6. U = S \cup Moved(T)
  <2>1. \A u \in U : u \in 1..n \/ \E j \in 1..l : u = n + j
    <3> SUFFICES ASSUME NEW u \in U, u \notin 1..n PROVE \E j \in 1..l : u = n + j
      OBVIOUS
    <3>1. u \in 1..(n + l)
      BY <1>1
    <3>2. u - n \in 1..l /\ u = n + (u - n)
      BY <1>1, <3>1
    <3> QED
      BY <3>2
  <2>2. \A u \in U : u \in S \/ \E j \in T : u = n + j
    BY <1>1, <2>1
  <2>3. \A j \in T : n + j \in U
    BY <1>1
  <2>4. \A u \in S : u \in U
    BY <1>1
  <2> QED
    BY <2>2, <2>3, <2>4
<1>7. Cardinality(U) = p + q
  BY <1>3, <1>5, <1>6
<1>8. ASSUME NEW k \in 1..p
      PROVE  Nth(U, k) = Nth(S, k)
  <2>0. Nth(S, k) \in S /\ Cardinality({i \in S : i <= Nth(S, k)}) = k
    BY <1>2, <1>3, NthOK
  <2>1. PICK m \in S : m = Nth(S, k) /\ Cardinality({i \in S : i <= m}) = k
    BY <2>0, Zenon
  <2>2. m \in 1..n /\ m \in U
    BY <1>1, <1>6
  <2>3. {i \in U : i <= m} = {i \in S : i <= m}
    <3>1. \A i \in U : i <= m => i \in S
      <4> SUFFICES ASSUME NEW i \in U, i <= m PROVE i \in S
        OBVIOUS
      <4>1. i \in 1..(n + l)
        BY <1>1
      <4>2. i \in 1..n
        BY <2>2, <4>1
      <4> QED
        BY <1>1, <4>2
    <3>2. \A i \in S : i \in U
      BY <1>6
    <3> QED
      BY <3>1, <3>2, Zenon
  <2>4. Nth(U, Cardinality({i \in U : i <= m})) = m
    BY <1>2, <2>2, NthOfRank
  <2> QED
    BY <2>1, <2>3, <2>4
<1>9. ASSUME NEW j \in 1..q
      PROVE  Nth(U, p + j) = n + Nth(T, j)
  <2>0. Nth(T, j) \in T /\ Cardinality({i \in T : i <= Nth(T, j)}) = j
    BY <1>2, <1>3, NthOK
  <2>1. PICK m \in T : m = Nth(T, j) /\ Cardinality({i \in T : i <= m}) = j
    BY <2>0, Zenon
  <2> DEFINE A == {i \in T : i <= m}
  <2>2. m \in 1..l /\ n + m \in U
    BY <1>1, <1>6
  <2>3. {i \in U : i <= n + m} = S \cup Moved(A)
    <3>1. \A i \in S : i \in U /\ i <= n + m
      <4>1. \A i \in S : i \in 1..n /\ i \in U
        BY <1>1, <1>6
      <4> QED
        BY <2>2, <4>1
    <3>2. \A i \in A : n + i \in U /\ n + i <= n + m
      <4>1. \A i \in A : i \in 1..l /\ n + i \in U /\ i <= m
        BY <1>1, <1>6
      <4> QED
        BY <2>2, <4>1
    <3>3. \A u \in U : u <= n + m => u \in S \/ u \in Moved(A)
      <4> SUFFICES ASSUME NEW u \in U, u <= n + m, u \notin S PROVE u \in Moved(A)
        OBVIOUS
      <4>1. PICK i \in T : u = n + i
        BY <1>6
      <4>2. i \in 1..l /\ i <= m
        BY <1>1, <2>2, <4>1
      <4> QED
        BY <4>1, <4>2
    <3>4. \A u \in Moved(A) : u \in U /\ u <= n + m
      BY <3>2
    <3> HIDE DEF Moved, A
    <3> QED
      BY <3>1, <3>3, <3>4, Zenon
  <2>4. Cardinality(S \cup Moved(A)) = p + Cardinality(A)
    <3>1. A \subseteq T
      OBVIOUS
    <3> HIDE DEF A, Moved
    <3> QED
      BY <1>5, <3>1
  <2>5. Nth(U, Cardinality({i \in U : i <= n + m})) = n + m
    BY <1>2, <2>2, NthOfRank
  <2> QED
    BY <2>1, <2>3, <2>4, <2>5
<1>10. /\ s \o t \in Seq(V) /\ Len(s \o t) = n + l
       /\ \A i \in 1..n : (s \o t)[i] = s[i]
       /\ \A i \in 1..l : (s \o t)[n + i] = t[i]
  BY <1>1
<1>11. /\ Pick(s, S) \in Seq(V) /\ Len(Pick(s, S)) = p
       /\ \A k \in 1..p : Nth(S, k) \in S /\ Pick(s, S)[k] = s[Nth(S, k)]
  <2>1. Pick(s, S) \in Seq(V) /\ Len(Pick(s, S)) = Cardinality(S)
    BY PickOK
  <2>2. \A k \in 1..Cardinality(S) : Pick(s, S)[k] = s[Nth(S, k)]
    BY PickAt
  <2>3. \A k \in 1..Cardinality(S) : Nth(S, k) \in S
    BY PickedAt
  <2> QED
    BY <1>3, <2>1, <2>2, <2>3
<1>12. /\ Pick(t, T) \in Seq(V) /\ Len(Pick(t, T)) = q
       /\ \A k \in 1..q : Nth(T, k) \in T /\ Pick(t, T)[k] = t[Nth(T, k)]
  <2>1. Pick(t, T) \in Seq(V) /\ Len(Pick(t, T)) = Cardinality(T)
    BY PickOK
  <2>2. \A k \in 1..Cardinality(T) : Pick(t, T)[k] = t[Nth(T, k)]
    BY PickAt
  <2>3. \A k \in 1..Cardinality(T) : Nth(T, k) \in T
    BY PickedAt
  <2> QED
    BY <1>3, <2>1, <2>2, <2>3
<1>13. /\ Pick(s \o t, U) \in Seq(V) /\ Len(Pick(s \o t, U)) = p + q
       /\ \A k \in 1..(p + q) : Pick(s \o t, U)[k] = (s \o t)[Nth(U, k)]
  <2>1. PICK r : r = s \o t
    OBVIOUS
  <2>2. r \in Seq(V) /\ U \subseteq 1..Len(r)
    BY <1>1, <1>10, <2>1
  <2>3. Pick(r, U) \in Seq(V) /\ Len(Pick(r, U)) = Cardinality(U)
    BY <2>2, PickOK
  <2>4. \A k \in 1..Cardinality(U) : Pick(r, U)[k] = r[Nth(U, k)]
    BY <2>2, PickAt
  <2> QED
    BY <1>7, <2>1, <2>3, <2>4
<1>14. \A k \in 1..p : Pick(s \o t, U)[k] = Pick(s, S)[k]
  <2> TAKE k \in 1..p
  <2>1. k \in 1..(p + q)
    OBVIOUS
  <2>2. Nth(S, k) \in 1..n
    BY <1>1, <1>11
  <2> QED
    BY <1>8, <1>10, <1>11, <1>13, <2>1, <2>2
<1>15. \A j \in 1..q : Pick(s \o t, U)[p + j] = Pick(t, T)[j]
  <2> TAKE j \in 1..q
  <2>1. p + j \in 1..(p + q)
    OBVIOUS
  <2>2. Nth(T, j) \in 1..l
    BY <1>1, <1>12
  <2> QED
    BY <1>9, <1>10, <1>12, <1>13, <2>1, <2>2
<1> HIDE DEF Moved
<1>16. PICK a, b, c : a = Pick(s, S) /\ b = Pick(t, T) /\ c = Pick(s \o t, U)
  OBVIOUS
<1>17. a \in Seq(V) /\ b \in Seq(V) /\ c \in Seq(V) /\ Len(a) = p /\ Len(b) = q /\ Len(c) = p + q
  BY <1>11, <1>12, <1>13, <1>16
<1>18. (\A k \in 1..p : c[k] = a[k]) /\ (\A j \in 1..q : c[p + j] = b[j])
  BY <1>14, <1>15, <1>16
<1>19. c = a \o b
  BY <1>17, <1>18, Gluing
<1> QED
  BY <1>16, <1>19

-----------------------------------------------------------------------------
(* Cutting *)

\* The last position of a mark is one of its positions and none is later.
LEMMA LastAtOK ==
  ASSUME NEW V, NEW s \in Seq(V), NEW c
  PROVE  /\ LastAt(s, c) \in 0..Len(s)
         /\ LastAt(s, c) = 0 \/ s[LastAt(s, c)] = c
         /\ \A k \in 1..Len(s) : s[k] = c => k <= LastAt(s, c)
<1> DEFINE at == {0} \cup {k \in 1..Len(s) : s[k] = c}
           S == {Len(s) - k : k \in at}
<1>0. Len(s) \in Nat
  OBVIOUS
<1>1. S \subseteq Nat /\ S # {}
  BY <1>0
<1>2. PICK n \in S : \A m \in S : n <= m
  <2> HIDE DEF S
  <2> QED
    BY <1>1, LeastElement
<1>3. PICK k \in at : n = Len(s) - k
  BY <1>2
<1>4. \A l \in at : l <= k
  <2> TAKE l \in at
  <2>1. Len(s) - l \in S
    OBVIOUS
  <2>2. n <= Len(s) - l
    BY <1>2, <2>1
  <2>3. k \in 0..Len(s) /\ l \in 0..Len(s)
    OBVIOUS
  <2> QED
    BY <1>0, <1>3, <2>2, <2>3
<1>5. LastAt(s, c) \in at /\ \A l \in at : l <= LastAt(s, c)
  <2>1. LastAt(s, c) = CHOOSE m \in at : \A l \in at : l <= m
    BY DEF LastAt
  <2> HIDE DEF at
  <2> QED
    BY <1>4, <2>1
<1> QED
  BY <1>0, <1>5

\* Two cuts with none between them.
Adjacent(C, a, b) == a \in C /\ b \in C /\ a < b /\ \A c \in C : c <= a \/ b <= c

\* The cuts lie between the ends of the text, which are two of them.
LEMMA CutsOK ==
  ASSUME NEW V, NEW s \in Seq(V), NEW sep
  PROVE  /\ Cuts(s, sep) \subseteq Int /\ Cuts(s, sep) \subseteq 0..(Len(s) + 1) /\ IsFiniteSet(Cuts(s, sep))
         /\ Cardinality(Cuts(s, sep)) \in Nat /\ Cardinality(Cuts(s, sep)) >= 2
         /\ 0 \in Cuts(s, sep) /\ Len(s) + 1 \in Cuts(s, sep)
<1> DEFINE C == Cuts(s, sep)
<1>1. Len(s) \in Nat
  OBVIOUS
<1>2. C \subseteq 0..(Len(s) + 1) /\ 0 \in C /\ Len(s) + 1 \in C
  BY <1>1 DEF Cuts
<1>3. IsFiniteSet(0..(Len(s) + 1))
  BY <1>1, FS_Interval
<1>4. C \subseteq Int
  BY <1>1, <1>2
<1> HIDE DEF C
<1>5. IsFiniteSet(C) /\ Cardinality(C) \in Nat
  BY <1>2, <1>3, FS_Subset, FS_CardinalityType
<1>6. Cardinality(C) >= 2
  <2>1. Cardinality({0}) = 1 /\ {0} \subseteq C /\ Len(s) + 1 \in C /\ Len(s) + 1 \notin {0}
    BY <1>1, <1>2, FS_Singleton
  <2>2. Cardinality({0}) < Cardinality(C)
    BY <1>5, <2>1, StrictlySmaller
  <2> QED
    BY <1>5, <2>1, <2>2
<1> QED
  BY <1>2, <1>4, <1>5, <1>6 DEF C

\* Consecutive elements have nothing between them, and what has nothing between
\* it is consecutive.
LEMMA NthAdjacent ==
  ASSUME NEW C, C \subseteq Int, IsFiniteSet(C)
  PROVE  /\ \A k \in 1..(Cardinality(C) - 1) : Adjacent(C, Nth(C, k), Nth(C, k + 1))
         /\ \A a, b : Adjacent(C, a, b) => \E k \in 1..(Cardinality(C) - 1) : a = Nth(C, k) /\ b = Nth(C, k + 1)
<1>0. PICK n \in Nat : n = Cardinality(C)
  BY FS_CardinalityType
<1>1. /\ \A k \in 1..n : Nth(C, k) \in C
      /\ \A c \in C : \E k \in 1..n : Nth(C, k) = c
  BY <1>0, NthOK
<1>2. /\ \A k, l \in 1..n : k < l => Nth(C, k) < Nth(C, l)
      /\ \A k \in 1..(n - 1) : \A c \in C : c <= Nth(C, k) \/ Nth(C, k + 1) <= c
  BY <1>0, NthOrder
<1>3. ASSUME NEW k \in 1..(n - 1) PROVE Adjacent(C, Nth(C, k), Nth(C, k + 1))
  <2>1. k \in 1..n /\ k + 1 \in 1..n /\ k < k + 1
    BY <1>3
  <2> QED
    BY <1>1, <1>2, <2>1 DEF Adjacent
<1>4. ASSUME NEW a, NEW b, Adjacent(C, a, b)
      PROVE  \E k \in 1..(n - 1) : a = Nth(C, k) /\ b = Nth(C, k + 1)
  <2>1. PICK k \in 1..n, l \in 1..n : Nth(C, k) = a /\ Nth(C, l) = b
    BY <1>1, <1>4 DEF Adjacent
  <2>2. a \in Int /\ b \in Int /\ a < b /\ \A c \in C : c \in Int /\ (c <= a \/ b <= c)
    BY <1>4 DEF Adjacent
  <2>3. k < l
    <3>1. ~(l < k) /\ l # k
      BY <1>2, <2>1, <2>2
    <3> QED
      BY <3>1
  <2>4. k \in 1..(n - 1) /\ k + 1 \in 1..n /\ k < k + 1 /\ (k + 1 < l \/ k + 1 = l)
    BY <2>3
  <2>5. Nth(C, k + 1) \in C /\ Nth(C, k) < Nth(C, k + 1)
    BY <1>1, <1>2, <2>4
  <2>6. b <= Nth(C, k + 1) /\ Nth(C, k + 1) \in Int
    <3>1. PICK c \in C : c = Nth(C, k + 1)
      BY <2>5
    <3>2. a < c /\ c \in Int /\ (c <= a \/ b <= c)
      BY <2>1, <2>2, <2>5, <3>1
    <3> QED
      BY <2>2, <3>1, <3>2
  <2>7. ~(k + 1 < l)
    BY <1>2, <2>1, <2>2, <2>4, <2>6
  <2> QED
    BY <2>1, <2>4, <2>7
<1> QED
  BY <1>0, <1>3, <1>4

\* The pieces of a text are texts, and at least one.
LEMMA SplitOK ==
  ASSUME NEW V, NEW s \in Seq(V), NEW sep
  PROVE  /\ Split(s, sep) \in Seq(Seq(V)) /\ Len(Split(s, sep)) \in Nat \ {0}
         /\ Len(Split(s, sep)) = Cardinality(Cuts(s, sep)) - 1
<1>1. PICK n \in Nat : n = Cardinality(Cuts(s, sep)) - 1 /\ n >= 1
  <2>1. Cardinality(Cuts(s, sep)) \in Nat /\ Cardinality(Cuts(s, sep)) >= 2
    BY CutsOK
  <2> QED
    BY <2>1
<1>2. Split(s, sep) = [k \in 1..n |-> SubSeq(s, Nth(Cuts(s, sep), k) + 1, Nth(Cuts(s, sep), k + 1) - 1)]
  BY <1>1 DEF Split
<1>3. ASSUME NEW k \in 1..n
      PROVE  SubSeq(s, Nth(Cuts(s, sep), k) + 1, Nth(Cuts(s, sep), k + 1) - 1) \in Seq(V)
  <2>1. Cuts(s, sep) \subseteq Int /\ IsFiniteSet(Cuts(s, sep)) /\ Cuts(s, sep) \subseteq 0..(Len(s) + 1)
    BY CutsOK
  <2>2. Adjacent(Cuts(s, sep), Nth(Cuts(s, sep), k), Nth(Cuts(s, sep), k + 1))
    BY <1>1, <2>1, NthAdjacent
  <2>3. Nth(Cuts(s, sep), k) \in 0..(Len(s) + 1) /\ Nth(Cuts(s, sep), k + 1) \in 0..(Len(s) + 1) /\ Len(s) \in Nat
    BY <2>1, <2>2 DEF Adjacent
  <2>4. \A i \in (Nth(Cuts(s, sep), k) + 1)..(Nth(Cuts(s, sep), k + 1) - 1) : i \in 1..Len(s)
    BY <2>3
  <2> QED
    BY <2>3, <2>4
<1>4. Split(s, sep) \in Seq(Seq(V)) /\ Len(Split(s, sep)) = n
  <2>1. \A k \in 1..n : Split(s, sep)[k] \in Seq(V)
    BY <1>2, <1>3
  <2> QED
    BY <1>2, <2>1
<1> QED
  BY <1>1, <1>4

LEMMA SplitAt ==
  ASSUME NEW V, NEW s \in Seq(V), NEW sep
  PROVE  \A k \in 1..Len(Split(s, sep)) :
           Split(s, sep)[k] = SubSeq(s, Nth(Cuts(s, sep), k) + 1, Nth(Cuts(s, sep), k + 1) - 1)
<1>1. PICK n \in Nat : n = Len(Split(s, sep)) /\ n = Cardinality(Cuts(s, sep)) - 1
  BY SplitOK
<1>2. Split(s, sep) = [k \in 1..n |-> SubSeq(s, Nth(Cuts(s, sep), k) + 1, Nth(Cuts(s, sep), k + 1) - 1)]
  BY <1>1 DEF Split
<1> QED
  BY <1>1, <1>2

\* What is between two cuts, letter by letter.
LEMMA BetweenOK ==
  ASSUME NEW V, NEW s \in Seq(V), NEW a \in 0..(Len(s) + 1), NEW b \in 0..(Len(s) + 1), a < b,
         NEW p, p = SubSeq(s, a + 1, b - 1)
  PROVE  /\ p \in Seq(V) /\ Len(p) = b - a - 1
         /\ \A i \in 1..(b - a - 1) : p[i] = s[a + i] /\ a + i \in 1..Len(s)
<1>1. PICK n : n = Len(s) /\ n \in Nat
  OBVIOUS
<1>2. PICK l : l = b - a - 1 /\ l \in Nat
  BY <1>1
<1>3. p = [i \in 1..((b - 1) - (a + 1) + 1) |-> s[(a + 1) + i - 1]]
  OBVIOUS
<1>4. (b - 1) - (a + 1) + 1 = l /\ \A i \in 1..l : (a + 1) + i - 1 = a + i /\ a + i \in 1..n
  BY <1>1, <1>2
<1>5. p = [i \in 1..l |-> s[a + i]]
  BY <1>3, <1>4
<1>6. \A i \in 1..l : s[a + i] \in V
  BY <1>1, <1>4
<1>7. p \in Seq(V) /\ Len(p) = l /\ \A i \in 1..l : p[i] = s[a + i]
  BY <1>2, <1>5, <1>6
<1> QED
  BY <1>1, <1>2, <1>4, <1>7

\* The pieces, as a set.
Pieces(s, sep) == {Split(s, sep)[k] : k \in 1..Len(Split(s, sep))}

\* They are what lies between adjacent cuts.
LEMMA CutsOfPiece ==
  ASSUME NEW V, NEW s \in Seq(V), NEW sep, NEW p \in Pieces(s, sep)
  PROVE  \E a, b \in 0..(Len(s) + 1) : Adjacent(Cuts(s, sep), a, b) /\ p = SubSeq(s, a + 1, b - 1)
<1>1. Cuts(s, sep) \subseteq Int /\ IsFiniteSet(Cuts(s, sep)) /\ Cuts(s, sep) \subseteq 0..(Len(s) + 1)
  BY CutsOK
<1>2. PICK n \in Nat : n = Len(Split(s, sep)) /\ n = Cardinality(Cuts(s, sep)) - 1
  BY SplitOK
<1>3. PICK k \in 1..n : p = Split(s, sep)[k]
  BY <1>2 DEF Pieces
<1>4. \A i \in 1..n : Split(s, sep)[i] = SubSeq(s, Nth(Cuts(s, sep), i) + 1, Nth(Cuts(s, sep), i + 1) - 1)
  BY <1>2, SplitAt
<1>5. Adjacent(Cuts(s, sep), Nth(Cuts(s, sep), k), Nth(Cuts(s, sep), k + 1))
  BY <1>1, <1>2, NthAdjacent
<1>6. PICK a, b : a = Nth(Cuts(s, sep), k) /\ b = Nth(Cuts(s, sep), k + 1)
  OBVIOUS
<1>7. a \in 0..(Len(s) + 1) /\ b \in 0..(Len(s) + 1)
  BY <1>1, <1>5, <1>6 DEF Adjacent
<1>8. Adjacent(Cuts(s, sep), a, b) /\ p = SubSeq(s, a + 1, b - 1)
  BY <1>3, <1>4, <1>5, <1>6
<1> QED
  BY <1>7, <1>8, Zenon

LEMMA PieceBetween ==
  ASSUME NEW V, NEW s \in Seq(V), NEW sep, NEW a, NEW b, Adjacent(Cuts(s, sep), a, b)
  PROVE  SubSeq(s, a + 1, b - 1) \in Pieces(s, sep)
<1>1. Cuts(s, sep) \subseteq Int /\ IsFiniteSet(Cuts(s, sep))
  BY CutsOK
<1>2. PICK n \in Nat : n = Len(Split(s, sep)) /\ n = Cardinality(Cuts(s, sep)) - 1
  BY SplitOK
<1>3. PICK k \in 1..n : a = Nth(Cuts(s, sep), k) /\ b = Nth(Cuts(s, sep), k + 1)
  BY <1>1, <1>2, NthAdjacent
<1>4. \A i \in 1..n : Split(s, sep)[i] = SubSeq(s, Nth(Cuts(s, sep), i) + 1, Nth(Cuts(s, sep), i + 1) - 1)
  BY <1>2, SplitAt
<1>5. PICK p : p = SubSeq(s, a + 1, b - 1)
  OBVIOUS
<1>6. Split(s, sep)[k] = p
  BY <1>3, <1>4, <1>5
<1>7. p \in Pieces(s, sep)
  BY <1>2, <1>6 DEF Pieces
<1> QED
  BY <1>5, <1>7, Zenon

\* A text without the separator is its only piece.
LEMMA SplitWhole ==
  ASSUME NEW V, NEW s \in Seq(V), NEW sep
  PROVE  /\ (\A i \in 1..Len(s) : s[i] # sep) => Split(s, sep) = <<s>>
         /\ (\E i \in 1..Len(s) : s[i] = sep) => Len(Split(s, sep)) > 1
<1>0. Len(s) \in Nat
  OBVIOUS
<1>1. Cuts(s, sep) \subseteq Int /\ IsFiniteSet(Cuts(s, sep))
  BY CutsOK
<1>2. Len(Split(s, sep)) \in Nat \ {0} /\ Len(Split(s, sep)) = Cardinality(Cuts(s, sep)) - 1 /\ Split(s, sep) \in Seq(Seq(V))
  BY SplitOK
<1>3. ASSUME \A i \in 1..Len(s) : s[i] # sep
      PROVE  Split(s, sep) = <<s>>
  <2>1. Cuts(s, sep) = {0, Len(s) + 1}
    BY <1>3 DEF Cuts
  <2>2. Cardinality(Cuts(s, sep)) = 2
    <3>1. 0 # Len(s) + 1
      BY <1>0
    <3>2. Cardinality({0, Len(s) + 1}) = 2
      BY <3>1, TwoElements
    <3> QED
      BY <2>1, <3>2, Zenon
  <2>3. PICK k \in 1..Len(Split(s, sep)) : Split(s, sep)[k] = SubSeq(s, 0 + 1, (Len(s) + 1) - 1)
    <3>1. Adjacent(Cuts(s, sep), 0, Len(s) + 1)
      BY <1>0, <2>1 DEF Adjacent
    <3>2. SubSeq(s, 0 + 1, (Len(s) + 1) - 1) \in Pieces(s, sep)
      BY <3>1, PieceBetween
    <3> QED
      BY <3>2 DEF Pieces
  <2>4. Len(Split(s, sep)) = 1
    BY <1>2, <2>2
  <2>5. k = 1 /\ SubSeq(s, 1, Len(s)) = s /\ (Len(s) + 1) - 1 = Len(s)
    BY <1>0, <2>4
  <2>6. PICK p \in Seq(Seq(V)) : p = Split(s, sep)
    BY <1>2
  <2>7. p[1] = s /\ Len(p) = 1
    BY <2>3, <2>4, <2>5, <2>6
  <2> QED
    BY <2>6, <2>7
<1>4. ASSUME NEW i \in 1..Len(s), s[i] = sep
      PROVE  Len(Split(s, sep)) > 1
  <2>1. i \in Cuts(s, sep) /\ {0, Len(s) + 1} \subseteq Cuts(s, sep) /\ i \notin {0, Len(s) + 1}
    BY <1>0, <1>4 DEF Cuts
  <2>2. Cardinality({0, Len(s) + 1}) < Cardinality(Cuts(s, sep))
    BY <1>1, <2>1, StrictlySmaller
  <2>3. Cardinality({0, Len(s) + 1}) = 2
    <3>1. 0 # Len(s) + 1
      BY <1>0
    <3> QED
      BY <3>1, TwoElements
  <2>4. PICK c \in Nat, l \in Nat : c = Cardinality(Cuts(s, sep)) /\ l = Len(Split(s, sep))
    BY <1>2, CutsOK
  <2>5. 2 < c /\ l = c - 1
    BY <1>2, <2>2, <2>3, <2>4
  <2> QED
    BY <2>4, <2>5
<1> QED
  BY <1>3, <1>4

\* An element beyond all others comes last and moves none.
LEMMA NthExtended ==
  ASSUME NEW C, C \subseteq Int, IsFiniteSet(C), NEW m \in Int, \A c \in C : c < m
  PROVE  /\ IsFiniteSet(C \cup {m}) /\ Cardinality(C \cup {m}) = Cardinality(C) + 1 /\ Cardinality(C) \in Nat
         /\ \A k \in 1..Cardinality(C) : Nth(C \cup {m}, k) = Nth(C, k)
         /\ Nth(C \cup {m}, Cardinality(C) + 1) = m
<1> DEFINE D == C \cup {m}
<1>1. m \notin C
  <2>1. ~(m < m)
    OBVIOUS
  <2> QED
    BY <2>1
<1>2. IsFiniteSet(D) /\ Cardinality(D) = Cardinality(C) + 1
  BY <1>1, FS_AddElement
<1>3. Cardinality(C) \in Nat /\ D \subseteq Int
  BY FS_CardinalityType
<1>4. ASSUME NEW k \in 1..Cardinality(C)
      PROVE  Nth(D, k) = Nth(C, k)
  <2>0. Nth(C, k) \in C /\ Cardinality({i \in C : i <= Nth(C, k)}) = k
    BY NthOK
  <2>1. PICK n \in C : n = Nth(C, k) /\ Cardinality({i \in C : i <= n}) = k
    BY <2>0, Zenon
  <2>2. n \in D /\ ~(m <= n)
    <3>1. n < m /\ n \in Int
      OBVIOUS
    <3> QED
      BY <3>1
  <2>3. {i \in D : i <= n} = {i \in C : i <= n}
    BY <2>2
  <2>4. Nth(D, Cardinality({i \in D : i <= n})) = n
    <3> HIDE DEF D
    <3> QED
      BY <1>2, <1>3, <2>2, NthOfRank
  <2> QED
    BY <2>1, <2>3, <2>4
<1>5. Nth(D, Cardinality(D)) = m
  <2>1. {i \in D : i <= m} = D
    <3>1. m <= m /\ \A c \in C : c <= m
      OBVIOUS
    <3> QED
      BY <3>1
  <2>2. m \in D
    OBVIOUS
  <2>3. Nth(D, Cardinality({i \in D : i <= m})) = m
    <3> HIDE DEF D
    <3> QED
      BY <1>2, <1>3, <2>2, NthOfRank
  <2> QED
    BY <2>1, <2>3
<1>6. Nth(D, Cardinality(C) + 1) = m
  BY <1>2, <1>5
<1> QED
  BY <1>2, <1>3, <1>4, <1>6

\* Another separator at the end opens another piece, which is empty.
LEMMA SplitAppended ==
  ASSUME NEW V, NEW s \in Seq(V), NEW sep \in V
  PROVE  /\ Len(Split(Append(s, sep), sep)) = Len(Split(s, sep)) + 1
         /\ \A k \in 1..Len(Split(s, sep)) : Split(Append(s, sep), sep)[k] = Split(s, sep)[k]
         /\ Split(Append(s, sep), sep)[Len(Split(s, sep)) + 1] = <<>>
<1>0. PICK n \in Nat, t \in Seq(V) : n = Len(s) /\ t = Append(s, sep)
  <2>1. Len(s) \in Nat /\ Append(s, sep) \in Seq(V)
    OBVIOUS
  <2> QED
    BY <2>1, Zenon
<1>1. Len(t) = n + 1 /\ t[n + 1] = sep /\ \A i \in 1..n : t[i] = s[i]
  BY <1>0
<1> DEFINE C == Cuts(s, sep)
<1>2. C \subseteq Int /\ IsFiniteSet(C) /\ C \subseteq 0..(n + 1)
  BY <1>0, CutsOK
<1>3. Cuts(t, sep) = C \cup {n + 2}
  <2>1. n + 1 \in 1..Len(t) /\ n + 1 = Len(s) + 1 /\ Len(t) + 1 = n + 2
    BY <1>0, <1>1
  <2>2. \A i \in 1..Len(t) : i \in 1..n \/ i = n + 1
    BY <1>1
  <2>3. {i \in 1..Len(t) : t[i] = sep} = {i \in 1..Len(s) : s[i] = sep} \cup {n + 1}
    BY <1>0, <1>1, <2>1, <2>2
  <2> QED
    BY <2>1, <2>3 DEF Cuts
<1>4. \A c \in C : c < n + 2
  BY <1>2
<1> HIDE DEF C
<1>5. PICK m \in Nat : m = Cardinality(C)
  BY <1>2, FS_CardinalityType
<1>6. /\ Cardinality(Cuts(t, sep)) = m + 1
      /\ \A k \in 1..m : Nth(Cuts(t, sep), k) = Nth(C, k)
      /\ Nth(Cuts(t, sep), m + 1) = n + 2
  <2>1. n + 2 \in Int
    OBVIOUS
  <2>2. PICK e \in Int : e = n + 2
    BY <2>1
  <2>3. \A c \in C : c < e
    BY <1>4, <2>2
  <2>4. /\ Cardinality(C \cup {e}) = Cardinality(C) + 1
        /\ \A k \in 1..Cardinality(C) : Nth(C \cup {e}, k) = Nth(C, k)
        /\ Nth(C \cup {e}, Cardinality(C) + 1) = e
    BY <1>2, <2>3, NthExtended
  <2> QED
    BY <1>3, <1>5, <2>2, <2>4
<1>7. Len(Split(s, sep)) = m - 1 /\ m - 1 \in Nat \ {0}
  <2>1. Len(Split(s, sep)) = Cardinality(C) - 1 /\ Len(Split(s, sep)) \in Nat \ {0}
    BY SplitOK DEF C
  <2> QED
    BY <1>5, <2>1
<1>8. Len(Split(t, sep)) = m
  <2>1. Len(Split(t, sep)) = Cardinality(Cuts(t, sep)) - 1
    BY SplitOK
  <2> QED
    BY <1>6, <2>1
<1>9. /\ \A k \in 1..(m - 1) : Split(s, sep)[k] = SubSeq(s, Nth(C, k) + 1, Nth(C, k + 1) - 1)
      /\ \A k \in 1..m : Split(t, sep)[k] = SubSeq(t, Nth(Cuts(t, sep), k) + 1, Nth(Cuts(t, sep), k + 1) - 1)
  <2>1. \A k \in 1..Len(Split(s, sep)) : Split(s, sep)[k] = SubSeq(s, Nth(C, k) + 1, Nth(C, k + 1) - 1)
    BY SplitAt DEF C
  <2>2. \A k \in 1..Len(Split(t, sep)) : Split(t, sep)[k] = SubSeq(t, Nth(Cuts(t, sep), k) + 1, Nth(Cuts(t, sep), k + 1) - 1)
    BY SplitAt
  <2> QED
    BY <1>7, <1>8, <2>1, <2>2
<1>10. ASSUME NEW k \in 1..(m - 1)
       PROVE  Split(t, sep)[k] = Split(s, sep)[k]
  <2>1. k \in 1..m /\ k + 1 \in 1..m
    BY <1>7
  <2>2. Nth(C, k) \in 0..(n + 1) /\ Nth(C, k + 1) \in 0..(n + 1)
    <3>1. Nth(C, k) \in C /\ Nth(C, k + 1) \in C
      BY <1>2, <1>5, <2>1, NthOK
    <3> QED
      BY <1>2, <3>1
  <2>3. PICK a \in 0..(n + 1), b \in 0..(n + 1) : a = Nth(C, k) /\ b = Nth(C, k + 1)
    BY <2>2
  <2>4. SubSeq(t, a + 1, b - 1) = SubSeq(s, a + 1, b - 1)
    <3>1. \A i \in 1..((b - 1) - (a + 1) + 1) : (a + 1) + i - 1 \in 1..n
      OBVIOUS
    <3>2. \A i \in 1..((b - 1) - (a + 1) + 1) : t[(a + 1) + i - 1] = s[(a + 1) + i - 1]
      BY <1>1, <3>1
    <3>3. [i \in 1..((b - 1) - (a + 1) + 1) |-> t[(a + 1) + i - 1]] = [i \in 1..((b - 1) - (a + 1) + 1) |-> s[(a + 1) + i - 1]]
      BY <3>2, Zenon
    <3> QED
      BY <3>2
  <2> QED
    BY <1>6, <1>9, <2>1, <2>3, <2>4
<1>11. Split(t, sep)[m] = <<>>
  <2>1. m \in 1..m /\ Nth(Cuts(t, sep), m) = Nth(C, m)
    BY <1>6, <1>7
  <2>2. Nth(C, m) = n + 1
    <3>1. Nth(C, m) \in C /\ \A c \in C : c <= Nth(C, m)
      <4>1. C # {}
        BY CutsOK DEF C
      <4> QED
        BY <1>2, <1>5, <2>1, <4>1, NthOK, NthOrder
    <3>2. n + 1 \in C
      BY <1>0, CutsOK DEF C
    <3>3. PICK c \in 0..(n + 1) : c = Nth(C, m)
      BY <1>2, <3>1
    <3>4. n + 1 <= c
      BY <3>1, <3>2, <3>3
    <3> QED
      BY <3>3, <3>4
  <2>3. Split(t, sep)[m] = SubSeq(t, (n + 1) + 1, (n + 2) - 1)
    BY <1>6, <1>9, <2>1, <2>2
  <2>4. SubSeq(t, (n + 1) + 1, (n + 2) - 1) = <<>>
    BY <1>1
  <2> QED
    BY <2>3, <2>4
<1> QED
  BY <1>0, <1>7, <1>8, <1>10, <1>11

\* A text that stands between two cuts of another one brings its pieces along.
LEMMA PiecesOfPart ==
  ASSUME NEW V, NEW s \in Seq(V), NEW t \in Seq(V), NEW sep, NEW d \in Nat, d + Len(s) <= Len(t),
         \A i \in 1..Len(s) : t[d + i] = s[i],
         d \in Cuts(t, sep), d + Len(s) + 1 \in Cuts(t, sep)
  PROVE  Pieces(s, sep) \subseteq Pieces(t, sep)
<1>1. PICK n \in Nat, m \in Nat : n = Len(s) /\ m = Len(t)
  OBVIOUS
<1> SUFFICES ASSUME NEW p \in Pieces(s, sep) PROVE p \in Pieces(t, sep)
  OBVIOUS
<1>2. PICK a \in 0..(n + 1), b \in 0..(n + 1) : Adjacent(Cuts(s, sep), a, b) /\ p = SubSeq(s, a + 1, b - 1)
  <2>1. \E a, b \in 0..(Len(s) + 1) : Adjacent(Cuts(s, sep), a, b) /\ p = SubSeq(s, a + 1, b - 1)
    BY CutsOfPiece
  <2> QED
    BY <1>1, <2>1
<1>3. \A c \in Int : c \in Cuts(s, sep) <=> c = 0 \/ c = n + 1 \/ (c \in 1..n /\ s[c] = sep)
  BY <1>1 DEF Cuts
<1>4. \A c \in Int : c \in Cuts(t, sep) <=> c = 0 \/ c = m + 1 \/ (c \in 1..m /\ t[c] = sep)
  BY <1>1 DEF Cuts
<1>5. d + n <= m /\ \A i \in 1..n : d + i \in 1..m /\ t[d + i] = s[i]
  BY <1>1
<1>6. d \in Cuts(t, sep) /\ d + n + 1 \in Cuts(t, sep)
  BY <1>1
<1>7. \A c \in 0..(n + 1) : c \in Cuts(s, sep) <=> d + c \in Cuts(t, sep)
  <2> TAKE c \in 0..(n + 1)
  <2>1. CASE c = 0
    BY <1>3, <1>6, <2>1
  <2>2. CASE c = n + 1
    BY <1>3, <1>6, <2>2
  <2>3. CASE c \in 1..n
    <3>1. c \in Cuts(s, sep) <=> s[c] = sep
      BY <1>3, <2>3
    <3>2. d + c \in Int /\ d + c \in 1..m /\ d + c # 0 /\ d + c # m + 1
      BY <1>5, <2>3
    <3>3. d + c \in Cuts(t, sep) <=> t[d + c] = sep
      BY <1>4, <3>2
    <3> QED
      BY <1>5, <2>3, <3>1, <3>3
  <2> QED
    BY <2>1, <2>2, <2>3
<1>8. Cuts(t, sep) \subseteq 0..(m + 1)
  BY <1>1, CutsOK
<1>9. Adjacent(Cuts(t, sep), d + a, d + b)
  <2>1. a \in Cuts(s, sep) /\ b \in Cuts(s, sep) /\ a < b /\ \A c \in Cuts(s, sep) : c <= a \/ b <= c
    BY <1>2 DEF Adjacent
  <2>2. d + a \in Cuts(t, sep) /\ d + b \in Cuts(t, sep) /\ d + a < d + b
    BY <1>7, <2>1
  <2>3. ASSUME NEW c \in Cuts(t, sep) PROVE c <= d + a \/ d + b <= c
    <3>1. c \in Int
      BY <1>8
    <3>2. CASE c <= d \/ d + n + 1 <= c
      BY <3>1, <3>2
    <3>3. CASE d < c /\ c < d + n + 1
      <4>1. c - d \in 0..(n + 1) /\ d + (c - d) = c
        BY <3>1, <3>3
      <4>2. c - d \in Cuts(s, sep)
        BY <1>7, <4>1
      <4>3. c - d <= a \/ b <= c - d
        BY <2>1, <4>2
      <4> QED
        BY <3>1, <4>3
    <3> QED
      BY <3>1, <3>2, <3>3
  <2> QED
    BY <2>2, <2>3 DEF Adjacent
<1>10. d + a \in 0..(m + 1) /\ d + b \in 0..(m + 1)
  BY <1>5
<1>11. SubSeq(t, (d + a) + 1, (d + b) - 1) \in Pieces(t, sep)
  <2>1. PICK e, f : e = d + a /\ f = d + b
    OBVIOUS
  <2>2. e \in 0..(Len(t) + 1) /\ f \in 0..(Len(t) + 1) /\ Adjacent(Cuts(t, sep), e, f)
    BY <1>1, <1>9, <1>10, <2>1
  <2>3. SubSeq(t, e + 1, f - 1) \in Pieces(t, sep)
    BY <2>2, PieceBetween
  <2> QED
    BY <2>1, <2>3
<1>12. SubSeq(t, (d + a) + 1, (d + b) - 1) = SubSeq(s, a + 1, b - 1)
  <2>1. \A i \in 1..(b - a - 1) : a + i \in 1..n /\ d + a + i = d + (a + i)
    OBVIOUS
  <2>2. \A i \in 1..(b - a - 1) : t[d + a + i] = s[a + i]
    BY <1>5, <2>1
  <2>3. \A i \in 1..(b - a - 1) : t[((d + a) + 1) + i - 1] = s[(a + 1) + i - 1]
    <3> TAKE i \in 1..(b - a - 1)
    <3>1. PICK u \in Int, w \in Int : u = ((d + a) + 1) + i - 1 /\ w = (a + 1) + i - 1
      OBVIOUS
    <3>2. u = d + a + i /\ w = a + i
      BY <3>1
    <3>3. t[u] = s[w]
      BY <2>2, <3>2
    <3> QED
      BY <3>1, <3>3, Zenon
  <2>4. SubSeq(t, (d + a) + 1, (d + b) - 1) = [i \in 1..(b - a - 1) |-> t[((d + a) + 1) + i - 1]]
    OBVIOUS
  <2>5. SubSeq(s, a + 1, b - 1) = [i \in 1..(b - a - 1) |-> s[(a + 1) + i - 1]]
    OBVIOUS
  <2> QED
    BY <2>3, <2>4, <2>5
<1> QED
  BY <1>2, <1>11, <1>12

\* The pieces of a text that are not empty are those up to its last separator and
\* what follows it.

LEMMA LastPiece ==
  ASSUME NEW V, NEW s \in Seq(V), NEW sep
  PROVE  /\ UpTo(s, sep) \in Seq(V) /\ After(s, sep) \in Seq(V)
         /\ \A i \in 1..Len(After(s, sep)) : After(s, sep)[i] # sep
         /\ Pieces(s, sep) \ {<<>>} = (Pieces(UpTo(s, sep), sep) \cup {After(s, sep)}) \ {<<>>}
<1>1. PICK n \in Nat, l \in 0..Len(s) : n = Len(s) /\ l = LastAt(s, sep)
  BY LastAtOK
<1>2. /\ l = 0 \/ s[l] = sep
      /\ \A k \in 1..n : s[k] = sep => k <= l
  BY <1>1, LastAtOK
<1> DEFINE u == SubSeq(s, 1, l)
           a0 == SubSeq(s, l + 1, n)
<1>3. u = UpTo(s, sep) /\ a0 = After(s, sep)
  BY <1>1 DEF UpTo, After
<1>4. u \in Seq(V) /\ Len(u) = l /\ \A i \in 1..l : u[i] = s[i]
  BY <1>1
<1>5. a0 \in Seq(V) /\ Len(a0) = n - l /\ \A i \in 1..(n - l) : a0[i] = s[l + i]
  BY <1>1
<1>6. \A i \in 1..(n - l) : a0[i] # sep
  <2> TAKE i \in 1..(n - l)
  <2>1. l + i \in 1..n /\ ~(l + i <= l)
    BY <1>1
  <2> QED
    BY <1>2, <1>5, <2>1
<1>7. \A c \in Int : c \in Cuts(s, sep) <=> c = 0 \/ c = n + 1 \/ (c \in 1..n /\ s[c] = sep)
  BY <1>1 DEF Cuts
<1>8. \A c \in Int : c \in Cuts(u, sep) <=> c = 0 \/ c = l + 1 \/ (c \in 1..l /\ u[c] = sep)
  BY <1>4 DEF Cuts
<1>9. Cuts(s, sep) \subseteq 0..(n + 1) /\ Cuts(u, sep) \subseteq 0..(l + 1)
  BY <1>1, <1>4, CutsOK
<1> HIDE DEF u, a0
<1>10. \A c \in 0..l : c \in Cuts(s, sep) <=> c \in Cuts(u, sep)
  BY <1>1, <1>4, <1>7, <1>8
<1>11. l \in Cuts(s, sep) /\ \A c \in Cuts(s, sep) : c <= l \/ c = n + 1
  <2>1. l \in Cuts(s, sep)
    BY <1>1, <1>2, <1>7
  <2>2. \A c \in Cuts(s, sep) : c <= l \/ c = n + 1
    BY <1>1, <1>2, <1>7, <1>9
  <2> QED
    BY <2>1, <2>2
<1>12. ASSUME NEW a \in 0..l, NEW b \in 0..l
       PROVE  Adjacent(Cuts(s, sep), a, b) <=> Adjacent(Cuts(u, sep), a, b)
  <2>1. ASSUME Adjacent(Cuts(s, sep), a, b) PROVE Adjacent(Cuts(u, sep), a, b)
    <3>1. a \in Cuts(u, sep) /\ b \in Cuts(u, sep) /\ a < b
      BY <1>10, <2>1 DEF Adjacent
    <3>2. ASSUME NEW c \in Cuts(u, sep) PROVE c <= a \/ b <= c
      <4>1. c \in 0..(l + 1)
        BY <1>9
      <4>2. CASE c \in 0..l
        BY <1>10, <2>1, <4>2 DEF Adjacent
      <4>3. CASE c = l + 1
        BY <4>3
      <4> QED
        BY <4>1, <4>2, <4>3
    <3> QED
      BY <3>1, <3>2 DEF Adjacent
  <2>2. ASSUME Adjacent(Cuts(u, sep), a, b) PROVE Adjacent(Cuts(s, sep), a, b)
    <3>1. a \in Cuts(s, sep) /\ b \in Cuts(s, sep) /\ a < b
      BY <1>10, <2>2 DEF Adjacent
    <3>2. ASSUME NEW c \in Cuts(s, sep) PROVE c <= a \/ b <= c
      <4>1. c \in 0..(n + 1)
        BY <1>9
      <4>2. CASE c \in 0..l
        BY <1>10, <2>2, <4>2 DEF Adjacent
      <4>3. CASE c = n + 1
        BY <1>1, <4>3
      <4> QED
        BY <1>1, <1>11, <4>1, <4>2, <4>3
    <3> QED
      BY <3>1, <3>2 DEF Adjacent
  <2> QED
    BY <2>1, <2>2
<1>13. ASSUME NEW a \in 0..l, NEW b \in 0..l
       PROVE  SubSeq(u, a + 1, b - 1) = SubSeq(s, a + 1, b - 1)
  <2>1. \A i \in 1..((b - 1) - (a + 1) + 1) : (a + 1) + i - 1 \in 1..l
    OBVIOUS
  <2>2. \A i \in 1..((b - 1) - (a + 1) + 1) : u[(a + 1) + i - 1] = s[(a + 1) + i - 1]
    BY <1>4, <2>1
  <2>3. \A i \in (a + 1)..(b - 1) : i \in 1..l
    OBVIOUS
  <2>4. SubSeq(u, a + 1, b - 1) = [i \in 1..((b - 1) - (a + 1) + 1) |-> u[(a + 1) + i - 1]]
    BY <1>4
  <2>5. SubSeq(s, a + 1, b - 1) = [i \in 1..((b - 1) - (a + 1) + 1) |-> s[(a + 1) + i - 1]]
    BY <1>4
  <2> QED
    BY <2>2, <2>4, <2>5
<1>14. ASSUME NEW p \in Pieces(s, sep), p # <<>>
       PROVE  p \in Pieces(u, sep) \/ p = a0
  <2>2. PICK a \in 0..(n + 1), b \in 0..(n + 1) : Adjacent(Cuts(s, sep), a, b) /\ p = SubSeq(s, a + 1, b - 1)
    <3>1. \E a, b \in 0..(Len(s) + 1) : Adjacent(Cuts(s, sep), a, b) /\ p = SubSeq(s, a + 1, b - 1)
      BY CutsOfPiece
    <3> QED
      BY <1>1, <3>1
  <2>3. a < b /\ (b <= l \/ b = n + 1) /\ (l <= a \/ b <= l) /\ (a <= l \/ a = n + 1)
    BY <1>11, <2>2 DEF Adjacent
  <2>4. CASE b <= l
    <3>1. a \in 0..l /\ b \in 0..l
      BY <1>1, <2>3, <2>4
    <3>2. Adjacent(Cuts(u, sep), a, b) /\ p = SubSeq(u, a + 1, b - 1)
      BY <1>12, <1>13, <2>2, <3>1
    <3>3. a \in 0..(Len(u) + 1) /\ b \in 0..(Len(u) + 1)
      BY <1>4, <3>1
    <3>4. SubSeq(u, a + 1, b - 1) \in Pieces(u, sep)
      BY <1>4, <3>2, <3>3, PieceBetween
    <3> QED
      BY <3>2, <3>4
  <2>5. CASE ~(b <= l)
    <3>1. a = l /\ b = n + 1
      BY <1>1, <2>3, <2>5
    <3>2. p = SubSeq(s, l + 1, n)
      <4>1. b - 1 = n
        BY <3>1
      <4> QED
        BY <2>2, <3>1, <4>1
    <3> QED
      BY <3>2 DEF a0
  <2> QED
    BY <2>4, <2>5
<1>15. ASSUME NEW p \in Pieces(u, sep), p # <<>>
       PROVE  p \in Pieces(s, sep)
  <2>2. PICK a \in 0..(l + 1), b \in 0..(l + 1) : Adjacent(Cuts(u, sep), a, b) /\ p = SubSeq(u, a + 1, b - 1)
    <3>0. PICK q \in Seq(V) : q = u
      BY <1>4
    <3>1. p \in Pieces(q, sep)
      BY <3>0
    <3>2. \E a, b \in 0..(Len(q) + 1) : Adjacent(Cuts(q, sep), a, b) /\ p = SubSeq(q, a + 1, b - 1)
      BY <3>1, CutsOfPiece
    <3> QED
      BY <1>4, <3>0, <3>2
  <2>3. a < b
    BY <2>2 DEF Adjacent
  <2>4. b # l + 1
    <3> SUFFICES ASSUME b = l + 1 PROVE FALSE
      OBVIOUS
    <3>1. l \in Cuts(u, sep)
      BY <1>1, <1>10, <1>11
    <3>2. l <= a
      BY <2>2, <3>1 DEF Adjacent
    <3>3. a = l
      BY <2>3, <3>2
    <3>4. SubSeq(u, l + 1, (l + 1) - 1) = <<>>
      BY <1>4
    <3> QED
      BY <1>15, <2>2, <3>3, <3>4
  <2>5. a \in 0..l /\ b \in 0..l
    BY <2>3, <2>4
  <2>6. Adjacent(Cuts(s, sep), a, b) /\ p = SubSeq(s, a + 1, b - 1)
    BY <1>12, <1>13, <2>2, <2>5
  <2>7. a \in 0..(Len(s) + 1) /\ b \in 0..(Len(s) + 1)
    BY <1>1, <2>5
  <2>8. SubSeq(s, a + 1, b - 1) \in Pieces(s, sep)
    BY <2>6, <2>7, PieceBetween
  <2> QED
    BY <2>6, <2>8
<1>16. a0 \in Pieces(s, sep)
  <2>1. Adjacent(Cuts(s, sep), l, n + 1)
    <3>1. n + 1 \in Cuts(s, sep) /\ l < n + 1
      BY <1>1, <1>7
    <3>2. \A c \in Cuts(s, sep) : c <= l \/ n + 1 <= c
      BY <1>9, <1>11
    <3> QED
      BY <1>11, <3>1, <3>2 DEF Adjacent
  <2>2. PICK b \in 0..(Len(s) + 1) : b = n + 1
    BY <1>1
  <2>3. l \in 0..(Len(s) + 1)
    BY <1>1
  <2>4. SubSeq(s, l + 1, b - 1) \in Pieces(s, sep)
    BY <2>1, <2>2, <2>3, PieceBetween
  <2>5. b - 1 = n
    BY <1>1, <2>2
  <2> QED
    BY <2>4, <2>5 DEF a0
<1>17. Pieces(s, sep) \ {<<>>} = (Pieces(u, sep) \cup {a0}) \ {<<>>}
  BY <1>14, <1>15, <1>16, Zenon
<1> QED
  BY <1>3, <1>4, <1>5, <1>6, <1>17

-----------------------------------------------------------------------------
(* Joining *)

\* What one sequence behind another has where.
LEMMA Concat ==
  ASSUME NEW V, NEW a \in Seq(V), NEW b \in Seq(V)
  PROVE  /\ a \o b \in Seq(V) /\ Len(a) \in Nat /\ Len(b) \in Nat /\ Len(a \o b) = Len(a) + Len(b)
         /\ \A p \in 1..Len(a) : (a \o b)[p] = a[p]
         /\ \A q \in 1..Len(b) : (a \o b)[Len(a) + q] = b[q]
OBVIOUS

\* The same, for a sequence with a name.
Behind(V, a, b, c) ==
  /\ c \in Seq(V) /\ Len(a) \in Nat /\ Len(b) \in Nat /\ Len(c) = Len(a) + Len(b)
  /\ \A p \in 1..Len(a) : c[p] = a[p]
  /\ \A q \in 1..Len(b) : c[Len(a) + q] = b[q]
LEMMA BehindOK ==
  ASSUME NEW V, NEW a \in Seq(V), NEW b \in Seq(V), NEW c, c = a \o b
  PROVE  Behind(V, a, b, c)
<1>1. /\ a \o b \in Seq(V) /\ Len(a) \in Nat /\ Len(b) \in Nat /\ Len(a \o b) = Len(a) + Len(b)
      /\ \A p \in 1..Len(a) : (a \o b)[p] = a[p]
      /\ \A q \in 1..Len(b) : (a \o b)[Len(a) + q] = b[q]
  OBVIOUS
<1> QED
  BY <1>1, Zenon DEF Behind

\* Where each of the sequences begins in what is flattened.
Offsets(ss, off) ==
  /\ off \in [0..Len(ss) -> Nat] /\ off[0] = 0 /\ off[Len(ss)] = Len(Flatten(ss))
  /\ \A i \in 1..Len(ss) : off[i] = off[i - 1] + Len(ss[i])
  /\ \A i \in 1..Len(ss) : \A j \in 1..Len(ss[i]) : Flatten(ss)[off[i - 1] + j] = ss[i][j]

\* What is flattened has every one of the sequences, each behind the ones before it.
LEMMA FlattenOK ==
  ASSUME NEW V, NEW ss \in Seq(Seq(V))
  PROVE  Flatten(ss) \in Seq(V) /\ \E off : Offsets(ss, off)
<1>1. PICK n \in Nat : n = Len(ss)
  OBVIOUS
<1> DEFINE step == [x \in (1..n) \X Seq(V) |-> x[2] \o ss[x[1]]]
           Upto(g) == g = [k \in 0..n |-> IF k = 0 THEN <<>> ELSE g[k - 1] \o ss[k]]
           f == CHOOSE g : Upto(g)
<1>2. 0 \in 0..n /\ n \in 0..n /\ \A k \in 1..n : k \in 0..n /\ k # 0 /\ k - 1 \in 0..n /\ ss[k] \in Seq(V)
  BY <1>1
<1>3. Upto(f)
  <2>1. step \in [(1..n) \X Seq(V) -> Seq(V)]
    BY <1>2
  <2>2. <<>> \in Seq(V)
    OBVIOUS
  <2>3. PICK h : h \in [0..n -> Seq(V)] /\ h[0] = <<>> /\ \A k \in 1..n : h[k] = step[<<k, h[k - 1]>>]
    <3> HIDE DEF step
    <3>1. PICK W, e : W = Seq(V) /\ e = <<>>
      OBVIOUS
    <3>2. step \in [(1..n) \X W -> W] /\ e \in W
      BY <2>1, <2>2, <3>1, Zenon
    <3>3. PICK h : Iterates(h, n, W, e, step)
      BY <3>2, RecursionExists
    <3> QED
      BY <3>1, <3>3, Zenon DEF Iterates
  <2>4. ASSUME NEW k \in 1..n PROVE h[k] = h[k - 1] \o ss[k]
    <3>1. h[k - 1] \in Seq(V) /\ <<k, h[k - 1]>> \in (1..n) \X Seq(V)
      BY <1>2, <2>3
    <3> QED
      BY <2>3, <3>1
  <2>5. ASSUME NEW k \in 0..n PROVE h[k] = IF k = 0 THEN <<>> ELSE h[k - 1] \o ss[k]
    <3>1. k = 0 \/ k \in 1..n
      OBVIOUS
    <3> QED
      BY <1>2, <2>3, <2>4, <3>1, Zenon
  <2>6. h = [k \in 0..n |-> h[k]]
    BY <2>3
  <2>7. Upto(h)
    BY <2>5, <2>6, Zenon
  <2> HIDE DEF Upto
  <2> QED
    BY <2>7, Zenon
<1> HIDE DEF f
<1>4. f[0] = <<>> /\ \A k \in 1..n : f[k] = f[k - 1] \o ss[k]
  BY <1>2, <1>3, Zenon
<1>5. \A k \in 0..n : f[k] \in Seq(V)
  <2> DEFINE S == {k \in 0..n : f[k] \in Seq(V)}
  <2>1. 0 \in S
    <3>1. <<>> \in Seq(V)
      OBVIOUS
    <3> QED
      BY <1>2, <1>4, <3>1, Zenon
  <2>2. \A k \in 0..(n - 1) : k \in S => k + 1 \in S
    <3> SUFFICES ASSUME NEW k \in 0..(n - 1), f[k] \in Seq(V) PROVE k + 1 \in 0..n /\ f[k + 1] \in Seq(V)
      OBVIOUS
    <3>1. k + 1 \in 1..n /\ k + 1 \in 0..n /\ (k + 1) - 1 = k
      OBVIOUS
    <3>2. f[k + 1] = f[k] \o ss[k + 1] /\ ss[k + 1] \in Seq(V)
      BY <1>2, <1>4, <3>1
    <3> QED
      BY <3>1, <3>2
  <2>3. \A k \in 0..n : k \in S
    <3> HIDE DEF S
    <3> QED
      BY <2>1, <2>2, Repetition
  <2> QED
    BY <2>3
<1>6. Flatten(ss) = f[n]
  BY <1>1 DEF Flatten, f
<1> HIDE DEF Upto, step
<1>7. ASSUME NEW k \in 1..n
      PROVE  f[k] = f[k - 1] \o ss[k] /\ f[k] \in Seq(V) /\ f[k - 1] \in Seq(V) /\ ss[k] \in Seq(V)
  BY <1>2, <1>4, <1>5
<1>8. f[n] \in Seq(V)
  BY <1>2, <1>5
<1> DEFINE off == [k \in 0..n |-> Len(f[k])]
<1>9. off \in [0..n -> Nat] /\ off[0] = 0 /\ off[n] = Len(f[n])
  BY <1>2, <1>4, <1>5
<1>10. ASSUME NEW i \in 1..n
       PROVE  off[i] = Len(f[i]) /\ off[i - 1] = Len(f[i - 1]) /\ off[i] = off[i - 1] + Len(ss[i])
  <2>1. off[i] = Len(f[i]) /\ off[i - 1] = Len(f[i - 1])
    BY <1>2
  <2>2. Len(f[i]) = Len(f[i - 1]) + Len(ss[i])
    <3>1. PICK a \in Seq(V), b \in Seq(V) : a = f[i - 1] /\ b = ss[i] /\ f[i] = a \o b
      BY <1>7
    <3> QED
      BY <3>1, Concat
  <2> QED
    BY <2>1, <2>2
<1>11. ASSUME NEW i \in 1..n, NEW j \in 1..Len(ss[i])
       PROVE  f[n][off[i - 1] + j] = ss[i][j]
  <2>1. PICK p : p = off[i - 1] + j
    OBVIOUS
  <2>2. p \in Nat /\ p >= 1 /\ p = Len(f[i - 1]) + j
    BY <1>7, <1>10, <2>1
  <2>3. p <= Len(f[i]) /\ f[i][p] = ss[i][j]
    <3>1. PICK a \in Seq(V), b \in Seq(V) : a = f[i - 1] /\ b = ss[i] /\ f[i] = a \o b
      BY <1>7
    <3>2. p = Len(a) + j /\ j \in 1..Len(b)
      BY <2>2, <3>1
    <3>3. p <= Len(a \o b) /\ (a \o b)[p] = b[j]
      BY <3>2, Concat
    <3> QED
      BY <3>1, <3>3
  <2> DEFINE S == {k \in 0..n : i <= k => (p <= Len(f[k]) /\ f[k][p] = ss[i][j])}
  <2>4. 0 \in S
    BY <1>2
  <2>5. \A k \in 0..(n - 1) : k \in S => k + 1 \in S
    <3> SUFFICES ASSUME NEW k \in 0..(n - 1), k \in S
                 PROVE  k + 1 \in 0..n /\ (i <= k + 1 => (p <= Len(f[k + 1]) /\ f[k + 1][p] = ss[i][j]))
      BY Zenon
    <3>0. k + 1 \in 1..n /\ k + 1 \in 0..n /\ (k + 1) - 1 = k
      BY NextNumber, Zenon
    <3> SUFFICES ASSUME i <= k + 1 PROVE p <= Len(f[k + 1]) /\ f[k + 1][p] = ss[i][j]
      BY <3>0, Zenon
    <3>1. k + 1 \in 1..n /\ (k + 1) - 1 = k
      BY <3>0, Zenon
    <3>2. f[k + 1] = f[k] \o ss[k + 1] /\ f[k] \in Seq(V) /\ ss[k + 1] \in Seq(V)
      BY <1>7, <3>1
    <3>3. CASE i = k + 1
      BY <2>3, <3>3
    <3>4. CASE i <= k
      <4>1. p <= Len(f[k]) /\ f[k][p] = ss[i][j]
        BY <3>4
      <4>2. PICK a \in Seq(V), b \in Seq(V) : a = f[k] /\ b = ss[k + 1] /\ f[k + 1] = a \o b
        BY <3>2
      <4>3. p \in 1..Len(a)
        BY <2>2, <4>1, <4>2
      <4>4. (a \o b)[p] = a[p] /\ p <= Len(a \o b)
        BY <4>3, Concat
      <4> QED
        BY <4>1, <4>2, <4>4
    <3> QED
      BY <3>3, <3>4
  <2>6. \A k \in 0..n : k \in S
    <3> HIDE DEF S
    <3> QED
      BY <2>4, <2>5, Repetition
  <2>7. f[n][p] = ss[i][j]
    BY <1>2, <2>6
  <2> QED
    BY <2>1, <2>7
<1> HIDE DEF off
<1>12. Offsets(ss, off)
  BY <1>1, <1>6, <1>9, <1>10, <1>11, Zenon DEF Offsets
<1>13. Flatten(ss) \in Seq(V)
  BY <1>6, <1>8
<1> QED
  BY <1>1, <1>12, <1>13, Zenon

\* What is flattened has nothing but what one of the sequences has.
LEMMA FlattenMembers ==
  ASSUME NEW V, NEW ss \in Seq(Seq(V)), NEW p \in 1..Len(Flatten(ss))
  PROVE  \E i \in 1..Len(ss) : \E j \in 1..Len(ss[i]) : Flatten(ss)[p] = ss[i][j]
<1>1. PICK n \in Nat : n = Len(ss)
  OBVIOUS
<1>2. PICK off : Offsets(ss, off)
  BY FlattenOK
<1>3. /\ off \in [0..n -> Nat] /\ off[0] = 0 /\ off[n] = Len(Flatten(ss))
      /\ \A i \in 1..n : off[i] = off[i - 1] + Len(ss[i])
      /\ \A i \in 1..n : \A j \in 1..Len(ss[i]) : Flatten(ss)[off[i - 1] + j] = ss[i][j]
  BY <1>1, <1>2 DEF Offsets
<1> DEFINE A == {k \in 0..n : p <= off[k]}
<1>4. n \in A
  BY <1>3
<1>5. PICK k \in A : \A m \in A : k <= m
  <2>1. A \subseteq Nat /\ A # {}
    BY <1>4
  <2> HIDE DEF A
  <2> QED
    BY <2>1, LeastElement
<1>6. k # 0 /\ k - 1 \notin A
  BY <1>3, <1>5
<1>7. k \in 1..n /\ k - 1 \in 0..n
  BY <1>6
<1>8. PICK x \in Nat, y \in Nat : x = off[k - 1] /\ y = Len(ss[k]) /\ x < p /\ p <= x + y
  <2>1. off[k - 1] \in Nat /\ off[k - 1] < p /\ p <= off[k]
    BY <1>3, <1>5, <1>6, <1>7
  <2>2. off[k] = off[k - 1] + Len(ss[k]) /\ Len(ss[k]) \in Nat
    BY <1>1, <1>3, <1>7
  <2> QED
    BY <2>1, <2>2
<1>9. PICK j \in 1..y : p = x + j
  <2>0. p \in Nat
    <3>1. off[n] \in Nat /\ p \in 1..off[n]
      BY <1>1, <1>3
    <3> QED
      BY <3>1
  <2>1. x < p /\ p <= x + y
    BY <1>8, Zenon
  <2>2. Past(x, y, p)
    BY <2>0, <2>1, NumberPast, Zenon
  <2> QED
    BY <2>2, Zenon DEF Past
<1>10. Flatten(ss)[p] = ss[k][j] /\ j \in 1..Len(ss[k])
  BY <1>3, <1>7, <1>8, <1>9
<1> QED
  BY <1>1, <1>7, <1>10

\* It has all of them: each lies between where it begins and where the next one does.
LEMMA OffsetsOK ==
  ASSUME NEW V, NEW ss \in Seq(Seq(V)), NEW off, Offsets(ss, off), NEW i \in 1..Len(ss)
  PROVE  /\ off[i - 1] \in Nat /\ off[i] \in Nat /\ off[i] = off[i - 1] + Len(ss[i]) /\ off[i] <= Len(Flatten(ss))
         /\ \A j \in 1..Len(ss[i]) : Flatten(ss)[off[i - 1] + j] = ss[i][j]
<1>1. PICK n \in Nat : n = Len(ss)
  OBVIOUS
<1>2. /\ off \in [0..n -> Nat] /\ off[0] = 0 /\ off[n] = Len(Flatten(ss))
      /\ \A k \in 1..n : off[k] = off[k - 1] + Len(ss[k])
      /\ \A k \in 1..n : \A l \in 1..Len(ss[k]) : Flatten(ss)[off[k - 1] + l] = ss[k][l]
  BY <1>1 DEF Offsets
<1>3. \A k \in 1..n : Len(ss[k]) \in Nat /\ off[k] \in Nat /\ off[k - 1] \in Nat
  <2> TAKE k \in 1..n
  <2>1. k \in 0..n /\ k - 1 \in 0..n
    OBVIOUS
  <2>2. Len(ss[k]) \in Nat
    BY <1>1
  <2> QED
    BY <1>2, <2>1, <2>2
<1> DEFINE S == {k \in 0..n : i <= k => off[i] <= off[k]}
<1>4. 0 \in S
  OBVIOUS
<1>5. \A k \in 0..(n - 1) : k \in S => k + 1 \in S
  <2> SUFFICES ASSUME NEW k \in 0..(n - 1), k \in S
               PROVE  k + 1 \in 0..n /\ (i <= k + 1 => off[i] <= off[k + 1])
    BY Zenon
  <2>0. k + 1 \in 0..n
    OBVIOUS
  <2> SUFFICES ASSUME i <= k + 1 PROVE off[i] <= off[k + 1]
    BY <2>0
  <2>1. k + 1 \in 1..n /\ (k + 1) - 1 = k
    OBVIOUS
  <2>2. off[k + 1] = off[k] + Len(ss[k + 1]) /\ off[k] \in Nat /\ Len(ss[k + 1]) \in Nat
    BY <1>2, <1>3, <2>1
  <2>3. CASE i = k + 1
    <3>1. off[i] \in Nat
      BY <1>1, <1>3
    <3> QED
      BY <2>3, <3>1
  <2>4. CASE i <= k
    <3>1. off[i] <= off[k] /\ off[i] \in Nat
      BY <1>1, <1>3, <2>4
    <3> QED
      BY <2>2, <3>1
  <2> QED
    BY <2>3, <2>4
<1>6. n \in S
  <2>1. \A k \in 0..n : k \in S
    <3> HIDE DEF S
    <3> QED
      BY <1>4, <1>5, Repetition
  <2> QED
    BY <2>1
<1>7. off[i] <= off[n]
  BY <1>1, <1>6
<1>8. off[i] = off[i - 1] + Len(ss[i]) /\ \A j \in 1..Len(ss[i]) : Flatten(ss)[off[i - 1] + j] = ss[i][j]
  BY <1>1, <1>2
<1> QED
  BY <1>1, <1>2, <1>3, <1>7, <1>8

\* What follows the first.
LEMMA TailOK ==
  ASSUME NEW V, NEW s \in Seq(V), s # <<>>
  PROVE  /\ Tail(s) \in Seq(V) /\ Len(Tail(s)) = Len(s) - 1 /\ Len(s) \in Nat \ {0}
         /\ Head(s) = s[1] /\ s[1] \in V /\ \A i \in 1..Len(Tail(s)) : Tail(s)[i] = s[i + 1]
OBVIOUS

\* Sequences that begin with a separator bring their pieces into what is flattened.
Preceded(ss, c) == \A k \in 1..Len(ss) : ss[k] # <<>> /\ ss[k][1] = c

LEMMA MarkedPieces ==
  ASSUME NEW V, NEW c \in V, NEW ss \in Seq(Seq(V)), Preceded(ss, c),
         NEW F, F = Flatten(ss), NEW i \in 1..Len(ss)
  PROVE  Pieces(Tail(ss[i]), c) \subseteq Pieces(Tail(F), c)
<1>1. PICK n \in Nat : n = Len(ss)
  OBVIOUS
<1>2. PICK off : Offsets(ss, off)
  BY FlattenOK
<1>3. PICK N : N = Len(F) /\ N \in Nat /\ F \in Seq(V)
  <2>1. F \in Seq(V)
    BY FlattenOK, Zenon
  <2>2. Len(F) \in Nat
    BY <2>1
  <2> QED
    BY <2>1, <2>2, Zenon
<1>4. /\ off[0] = 0 /\ off[n] = N
      /\ \A k \in 1..n : off[k] = off[k - 1] + Len(ss[k])
      /\ \A k \in 1..n : \A l \in 1..Len(ss[k]) : F[off[k - 1] + l] = ss[k][l]
  BY <1>1, <1>2, <1>3 DEF Offsets
<1>5. PICK s : s = ss[i] /\ s \in Seq(V) /\ s # <<>> /\ s[1] = c
  BY <1>1 DEF Preceded
<1>6. PICK L : L = Len(s) /\ L \in Nat \ {0}
  <2>1. Len(s) \in Nat \ {0}
    BY <1>5, TailOK
  <2> QED
    BY <2>1, Zenon
<1>7. PICK d, e : d = off[i - 1] /\ e = off[i]
  OBVIOUS
<1>8. /\ off[i - 1] \in Nat /\ off[i] \in Nat /\ off[i] = off[i - 1] + Len(ss[i]) /\ off[i] <= Len(Flatten(ss))
  BY <1>2, OffsetsOK
<1>9. d \in Nat /\ e \in Nat /\ e = d + L /\ e <= N
  BY <1>3, <1>5, <1>6, <1>7, <1>8
<1>10. \A l \in 1..L : F[d + l] = s[l]
  BY <1>1, <1>4, <1>5, <1>6, <1>7
<1>11. PICK x : x = Tail(s)
  OBVIOUS
<1>12. x \in Seq(V) /\ Len(x) = L - 1 /\ \A m \in 1..(L - 1) : x[m] = s[m + 1]
  BY <1>5, <1>6, <1>11, TailOK
<1>13. F # <<>> /\ N \in Nat \ {0}
  BY <1>3, <1>6, <1>9
<1>14. PICK t : t = Tail(F)
  OBVIOUS
<1>15. t \in Seq(V) /\ Len(t) = N - 1 /\ \A m \in 1..(N - 1) : t[m] = F[m + 1]
  BY <1>3, <1>13, <1>14, TailOK
<1>16. d + Len(x) <= Len(t)
  BY <1>6, <1>9, <1>12, <1>13, <1>15
<1>17. ASSUME NEW m \in 1..Len(x) PROVE t[d + m] = x[m]
  <2>1. PICK p : p = m + 1 /\ p \in 1..L /\ m \in 1..(L - 1)
    BY <1>6, <1>12
  <2>2. PICK q : q = d + m /\ q \in 1..(N - 1) /\ q + 1 = d + p
    BY <1>3, <1>6, <1>9, <2>1
  <2>3. t[q] = F[q + 1] /\ F[d + p] = s[p] /\ x[m] = s[m + 1]
    BY <1>10, <1>12, <1>15, <2>1, <2>2
  <2> QED
    BY <2>1, <2>2, <2>3
<1>18. d \in Cuts(t, c)
  <2>1. CASE d = 0
    BY <2>1 DEF Cuts
  <2>2. CASE d # 0
    <3>1. d \in 1..(N - 1) /\ 1 \in 1..L
      BY <1>3, <1>6, <1>9, <2>2
    <3>2. t[d] = F[d + 1] /\ F[d + 1] = s[1]
      BY <1>10, <1>15, <3>1
    <3>3. t[d] = c /\ d \in 1..Len(t)
      BY <1>5, <1>15, <3>1, <3>2
    <3> QED
      BY <3>3 DEF Cuts
  <2> QED
    BY <2>1, <2>2
<1>19. e \in Cuts(t, c)
  <2>1. CASE e = N
    <3>1. e = Len(t) + 1
      BY <1>13, <1>15, <2>1
    <3> QED
      BY <3>1 DEF Cuts
  <2>2. CASE e # N
    <3>1. i # n
      BY <1>4, <1>7, <2>2
    <3>2. PICK k : k = i + 1 /\ k \in 1..n /\ k - 1 = i
      <4>1. i \in 1..n
        BY <1>1
      <4>2. i + 1 \in 1..n /\ (i + 1) - 1 = i
        BY <1>1, <3>1, <4>1
      <4> QED
        BY <4>2
    <3>3. PICK y : y = ss[k] /\ y \in Seq(V) /\ y # <<>> /\ y[1] = c
      BY <1>1, <3>2 DEF Preceded
    <3>4. 1 \in 1..Len(y)
      BY <3>3
    <3>5. F[e + 1] = c
      BY <1>4, <1>7, <3>2, <3>3, <3>4
    <3>6. e \in 1..(N - 1)
      BY <1>3, <1>6, <1>9, <2>2
    <3>7. t[e] = F[e + 1] /\ e \in 1..Len(t)
      BY <1>15, <3>6
    <3> QED
      BY <3>5, <3>7 DEF Cuts
  <2> QED
    BY <2>1, <2>2
<1>20. d + Len(x) + 1 = e
  BY <1>6, <1>9, <1>12
<1>21. d + Len(x) + 1 \in Cuts(t, c)
  BY <1>19, <1>20
<1>22. Pieces(x, c) \subseteq Pieces(t, c)
  BY <1>9, <1>12, <1>15, <1>16, <1>17, <1>18, <1>21, PiecesOfPart
<1> QED
  BY <1>5, <1>11, <1>14, <1>22
===============================================================================
