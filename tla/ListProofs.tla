----------------------------- MODULE ListProofs -----------------------------
(***************************************************************************)
(* Facts about numbers, orders and lists that the other proofs rest on.    *)
(* Induction is on sets: a property to be shown by induction is the set of *)
(* the numbers that have it.                                               *)
(***************************************************************************)
EXTENDS Lists, FiniteSetTheorems, SequenceTheorems, WellFoundedInduction, TLAPS

\* The order of the natural numbers is well-founded, as a relation.
LEMMA LessWellFounded == IsWellFoundedOn(Less, Nat)
<1>1. OpToRel(<, Nat) = Less
  BY Zenon DEF OpToRel, Less
<1> QED BY <1>1, NatLessThanWellFounded, Zenon

\* A non-empty set of natural numbers has a least element.
LEMMA NatLeast ==
  ASSUME NEW T \in SUBSET Nat, T # {}
  PROVE  \E n \in T : \A m \in T : n <= m
<1>1. PICK n \in T : \A m \in T : ~ (<<m, n>> \in Less)
  BY LessWellFounded, WFMin, Zenon
<1>2. \A m \in T : m < n => <<m, n>> \in Less
  BY DEF Less
<1>3. ASSUME NEW m \in T PROVE n <= m
  <2>1. m \in Nat /\ n \in Nat
    OBVIOUS
  <2>2. ~(m < n)
    BY <1>1, <1>2, Zenon
  <2> QED BY <2>1, <2>2
<1> QED BY <1>3

\* A set that has 0 and, with a number, its successor has every natural number.
LEMMA SetInduction ==
  ASSUME NEW T \in SUBSET Nat, 0 \in T, \A n \in T : n + 1 \in T
  PROVE  T = Nat
<1> SUFFICES ASSUME T # Nat PROVE FALSE
  OBVIOUS
<1>1. PICK n \in Nat \ T : \A m \in Nat \ T : n <= m
  BY NatLeast
<1>2. n # 0 /\ n - 1 \in Nat /\ n - 1 \in T
  BY <1>1
<1> QED BY <1>1, <1>2

\* A finite non-empty set with a total order has a greatest element.
TotalOrder(S, R) ==
  /\ \A x, y \in S : x = y \/ <<x, y>> \in R \/ <<y, x>> \in R
  /\ \A x, y, z \in S : <<x, y>> \in R /\ <<y, z>> \in R => <<x, z>> \in R
Greatest(S, R, x) == x \in S /\ \A y \in S : y = x \/ <<y, x>> \in R

LEMMA FiniteGreatest ==
  ASSUME NEW S, IsFiniteSet(S), S # {}, NEW R, TotalOrder(S, R)
  PROVE  \E x : Greatest(S, R, x)
<1>0. /\ \A x, y \in S : x = y \/ <<x, y>> \in R \/ <<y, x>> \in R
      /\ \A x, y, z \in S : <<x, y>> \in R /\ <<y, z>> \in R => <<x, z>> \in R
  BY DEF TotalOrder
<1> DEFINE Top(U) == \E x \in U : \A y \in U : y = x \/ <<y, x>> \in R
           T == {n \in Nat : \A U \in SUBSET S : IsFiniteSet(U) /\ Cardinality(U) = n /\ U # {} => Top(U)}
<1>1. 0 \in T
  BY FS_EmptySet
<1>2. ASSUME NEW n \in T PROVE n + 1 \in T
  <2> SUFFICES ASSUME NEW U \in SUBSET S, IsFiniteSet(U), Cardinality(U) = n + 1, U # {}
               PROVE  Top(U)
    OBVIOUS
  <2>1. PICK x \in U : TRUE
    OBVIOUS
  <2> DEFINE V == U \ {x}
  <2>2. IsFiniteSet(V) /\ Cardinality(V) = n
    <3>1. IsFiniteSet(V) /\ Cardinality(V) = Cardinality(U) - 1
      BY <2>1, FS_RemoveElement
    <3> QED BY <3>1
  <2>3. CASE V = {}
    BY <2>3
  <2>4. CASE V # {}
    <3>1. PICK y \in V : \A z \in V : z = y \/ <<z, y>> \in R
      BY <2>2, <2>4
    <3>2. CASE <<x, y>> \in R
      BY <3>1, <3>2
    <3>3. CASE <<y, x>> \in R
      <4>1. \A z \in U : z = x \/ <<z, x>> \in R
        BY <1>0, <3>1, <3>3
      <4> QED BY <4>1
    <3> QED BY <1>0, <3>2, <3>3
  <2> QED BY <2>3, <2>4
<1>3. T = Nat
  <2> HIDE DEF T
  <2>1. T \in SUBSET Nat
    BY DEF T
  <2> QED BY <1>1, <1>2, <2>1, SetInduction
<1>4. Cardinality(S) \in T
  BY <1>3, FS_CardinalityType
<1> QED BY <1>4 DEF Greatest

-----------------------------------------------------------------------------
StrictOrder(S, R) ==
  /\ \A x \in S : <<x, x>> \notin R
  /\ \A x, y \in S : x = y \/ <<x, y>> \in R \/ <<y, x>> \in R
  /\ \A x, y, z \in S : <<x, y>> \in R /\ <<y, z>> \in R => <<x, z>> \in R

\* InOrder lists every element once, in the order.
LEMMA InOrderSorts ==
  ASSUME NEW S, IsFiniteSet(S), NEW R, StrictOrder(S, R)
  PROVE  /\ Cardinality(S) \in Nat
         /\ InOrder(S, R) \in [1 .. Cardinality(S) -> S]
         /\ \A x \in S : \E k \in 1 .. Cardinality(S) : InOrder(S, R)[k] = x
         /\ \A j, k \in 1 .. Cardinality(S) :
              j < k <=> <<InOrder(S, R)[j], InOrder(S, R)[k]>> \in R
<1> DEFINE n == Cardinality(S)
           below(x) == {y \in S : <<y, x>> \in R}
           rank == [x \in S |-> Cardinality(below(x))]
           q == InOrder(S, R)
<1>0. n \in Nat
  BY FS_CardinalityType
<1>1. ASSUME NEW x \in S PROVE IsFiniteSet(below(x)) /\ rank[x] \in 0 .. n - 1
  <2>1. below(x) \subseteq S \ {x}
    BY DEF StrictOrder
  <2>2. IsFiniteSet(S \ {x}) /\ Cardinality(S \ {x}) = n - 1
    BY FS_RemoveElement
  <2>3. rank[x] = Cardinality(below(x))
    OBVIOUS
  <2> HIDE DEF below, n, rank
  <2>4. IsFiniteSet(below(x)) /\ Cardinality(below(x)) <= n - 1
    BY <2>1, <2>2, FS_Subset
  <2>5. Cardinality(below(x)) \in Nat
    BY <2>4, FS_CardinalityType
  <2> QED BY <1>0, <2>3, <2>4, <2>5
<1>2. ASSUME NEW x \in S, NEW y \in S, <<x, y>> \in R PROVE rank[x] < rank[y]
  <2>1. below(x) \cup {x} \subseteq below(y) /\ x \notin below(x)
    BY <1>2 DEF StrictOrder
  <2>2. Cardinality(below(x) \cup {x}) = Cardinality(below(x)) + 1
    BY <1>1, <2>1, FS_AddElement
  <2>3. Cardinality(below(x) \cup {x}) <= Cardinality(below(y))
    BY <1>1, <2>1, FS_Subset
  <2>4. rank[x] \in Nat /\ rank[y] \in Nat
    BY <1>1
  <2> QED BY <2>2, <2>3, <2>4
<1>3. \A x, y \in S : rank[x] = rank[y] => x = y
  <2> SUFFICES ASSUME NEW x \in S, NEW y \in S, rank[x] = rank[y], x # y PROVE FALSE
    OBVIOUS
  <2> HIDE DEF rank, n, below
  <2>1. rank[x] \in Int /\ rank[y] \in Int
    BY <1>0, <1>1
  <2>2. <<x, y>> \in R \/ <<y, x>> \in R
    BY DEF StrictOrder
  <2> QED BY <1>2, <2>1, <2>2
<1>4. ASSUME NEW m \in 0 .. n - 1 PROVE \E x \in S : rank[x] = m
  <2> SUFFICES ASSUME \A x \in S : rank[x] # m PROVE FALSE
    OBVIOUS
  <2> DEFINE T == (0 .. n - 1) \ {m}
  <2>1. IsFiniteSet(0 .. n - 1) /\ Cardinality(0 .. n - 1) = n
    BY <1>0, <1>4, FS_Interval
  <2> HIDE DEF n
  <2>2. IsFiniteSet(T) /\ Cardinality(T) = n - 1
    BY <1>4, <2>1, FS_RemoveElement
  <2>3. rank \in [S -> T]
    BY <1>1
  <2> HIDE DEF T, rank
  <2>4. \E x, y \in S : x # y /\ rank[x] = rank[y]
    BY <1>0, <2>2, <2>3, FS_PigeonHole DEF n
  <2> QED BY <1>3, <2>4
<1>5. ASSUME NEW k \in 1 .. n PROVE q[k] \in S /\ rank[q[k]] = k - 1
  <2>1. \E x \in S : Cardinality(below(x)) = k - 1
    BY <1>0, <1>4, k - 1 \in 0 .. n - 1
  <2>2. q[k] = CHOOSE x \in S : Cardinality(below(x)) = k - 1
    BY DEF InOrder
  <2> HIDE DEF q, below
  <2> QED BY <2>1, <2>2
<1>6. q \in [1 .. n -> S]
  <2> DEFINE e(k) == CHOOSE x \in S : Cardinality(below(x)) = k - 1
  <2>1. q = [k \in 1 .. n |-> e(k)]
    BY DEF InOrder
  <2> HIDE DEF q, e, n
  <2>2. \A k \in 1 .. n : e(k) \in S
    BY <1>5, <2>1
  <2> QED BY <2>1, <2>2
<1>7. ASSUME NEW x \in S PROVE \E k \in 1 .. n : q[k] = x
  <2>1. rank[x] + 1 \in 1 .. n /\ (rank[x] + 1) - 1 = rank[x]
    BY <1>0, <1>1
  <2>2. q[rank[x] + 1] \in S /\ rank[q[rank[x] + 1]] = rank[x]
    BY <1>5, <2>1
  <2> HIDE DEF q, rank
  <2> QED BY <1>3, <2>1, <2>2
<1>8. ASSUME NEW j \in 1 .. n, NEW k \in 1 .. n PROVE j < k <=> <<q[j], q[k]>> \in R
  <2>1. q[j] \in S /\ q[k] \in S /\ rank[q[j]] = j - 1 /\ rank[q[k]] = k - 1
    BY <1>5
  <2>2. q[j] = q[k] \/ <<q[j], q[k]>> \in R \/ <<q[k], q[j]>> \in R
    BY <2>1 DEF StrictOrder
  <2>3. <<q[j], q[k]>> \in R => rank[q[j]] < rank[q[k]]
    BY <1>2, <2>1
  <2>4. <<q[k], q[j]>> \in R => rank[q[k]] < rank[q[j]]
    BY <1>2, <2>1
  <2> HIDE DEF q, rank
  <2> QED BY <1>0, <2>1, <2>2, <2>3, <2>4
<1> QED BY <1>0, <1>6, <1>7, <1>8

\* At lists what a list holds at some of its positions, in the same order.
LEMMA AtSelects ==
  ASSUME NEW X, NEW s \in Seq(X), NEW I \in SUBSET (1 .. Len(s))
  PROVE  /\ IsFiniteSet(I) /\ Cardinality(I) \in Nat
         /\ At(s, I) \in Seq(X) /\ Len(At(s, I)) = Cardinality(I)
         /\ \E p \in [1 .. Cardinality(I) -> I] :
              /\ \A k \in 1 .. Cardinality(I) : At(s, I)[k] = s[p[k]]
              /\ \A i \in I : \E k \in 1 .. Cardinality(I) : p[k] = i
              /\ \A j, k \in 1 .. Cardinality(I) : j < k <=> p[j] < p[k]
<1>1. IsFiniteSet(I)
  <2>1. IsFiniteSet(1 .. Len(s))
    BY FS_Interval
  <2> QED BY <2>1, FS_Subset
<1>2. StrictOrder(I, Less)
  <2>1. \A i, j \in I : <<i, j>> \in Less <=> i < j
    BY DEF Less
  <2>2. \A i \in I : i \in Int
    OBVIOUS
  <2> QED BY <2>1, <2>2 DEF StrictOrder
<1> DEFINE p == InOrder(I, Less)
           n == Cardinality(I)
<1>3. /\ n \in Nat /\ p \in [1 .. n -> I]
      /\ \A i \in I : \E k \in 1 .. n : p[k] = i
      /\ \A j, k \in 1 .. n : j < k <=> <<p[j], p[k]>> \in Less
  BY <1>1, <1>2, InOrderSorts
<1>4. At(s, I) = <<>> \o [k \in 1 .. n |-> s[p[k]]]
  BY DEF At
<1> HIDE DEF p, n
<1>5. \A j, k \in 1 .. n : j < k <=> p[j] < p[k]
  <2>1. \A i, j \in I : <<i, j>> \in Less <=> i < j
    BY DEF Less
  <2> QED BY <1>3, <2>1
<1>6. ASSUME NEW k \in 1 .. n PROVE s[p[k]] \in X
  <2>1. p[k] \in I
    BY <1>3
  <2>2. p[k] \in 1 .. Len(s)
    BY <2>1
  <2> QED BY <2>2
<1> DEFINE t == [k \in 1 .. n |-> s[p[k]]]
<1>7. t \in Seq(X) /\ Len(t) = n
  <2>1. t \in [1 .. n -> X]
    BY <1>6
  <2> HIDE DEF t
  <2> QED BY <1>3, <2>1
<1>8. \A k \in 1 .. n : t[k] = s[p[k]]
  OBVIOUS
<1>9. At(s, I) = t
  <2> HIDE DEF t
  <2> QED BY <1>4, <1>7, ConcatEmptySeq DEF t
<1> HIDE DEF t
<1> QED BY <1>1, <1>3, <1>5, <1>7, <1>8, <1>9 DEF n

-----------------------------------------------------------------------------
\* s lists each element of S, once.
ListsOnce(s, S) ==
  /\ s \in Seq(S)
  /\ \A x \in S : \E k \in 1 .. Len(s) : s[k] = x
  /\ \A j, k \in 1 .. Len(s) : s[j] = s[k] => j = k

\* Such a list is as long as the set is large.
LEMMA ListsOnceLength ==
  ASSUME NEW S, NEW s, ListsOnce(s, S)
  PROVE  IsFiniteSet(S) /\ Len(s) = Cardinality(S)
<1>1. Len(s) \in Nat /\ s \in [1 .. Len(s) -> S]
  BY DEF ListsOnce
<1>2. s \in Bijection(1 .. Len(s), S)
  BY <1>1 DEF ListsOnce, Bijection, Injection, Surjection, IsInjective
<1>3. ExistsBijection(1 .. Len(s), S)
  BY <1>2 DEF ExistsBijection
<1>4. IsFiniteSet(1 .. Len(s)) /\ Cardinality(1 .. Len(s)) = Len(s)
  BY <1>1, FS_Interval
<1> QED BY <1>3, <1>4, FS_Bijection

\* A list comprehension with a condition lists what qualifies, once.
LEMMA FilterLists ==
  ASSUME NEW S, NEW s, ListsOnce(s, S), NEW P
  PROVE  ListsOnce(At(s, {i \in 1 .. Len(s) : s[i] \in P}), S \cap P)
<1> DEFINE I == {i \in 1 .. Len(s) : s[i] \in P}
<1>0. s \in Seq(S) /\ Len(s) \in Nat /\ I \in SUBSET (1 .. Len(s))
  BY DEF ListsOnce
<1>b. \A i : i \in I <=> i \in 1 .. Len(s) /\ s[i] \in P
  OBVIOUS
<1> HIDE DEF I
<1>a. PICK t, n : t = At(s, I) /\ n = Cardinality(I)
  OBVIOUS
<1>1. PICK p \in [1 .. n -> I] :
         /\ n \in Nat /\ t \in Seq(S) /\ Len(t) = n
         /\ \A k \in 1 .. n : t[k] = s[p[k]]
         /\ \A i \in I : \E k \in 1 .. n : p[k] = i
         /\ \A j, k \in 1 .. n : j < k <=> p[j] < p[k]
  BY <1>0, <1>a, AtSelects
<1>2. \A k \in 1 .. n : p[k] \in 1 .. Len(s) /\ t[k] = s[p[k]] /\ t[k] \in S \cap P
  BY <1>0, <1>b, <1>1
<1>3. t \in Seq(S \cap P)
  BY <1>1, <1>2
<1>4. ASSUME NEW x \in S \cap P PROVE \E k \in 1 .. Len(t) : t[k] = x
  <2>1. PICK i \in 1 .. Len(s) : s[i] = x
    BY DEF ListsOnce
  <2> QED BY <1>1, <1>b, <2>1
<1>5. ASSUME NEW j \in 1 .. Len(t), NEW k \in 1 .. Len(t), t[j] = t[k] PROVE j = k
  <2>1. j \in 1 .. n /\ k \in 1 .. n
    BY <1>1
  <2>2. p[j] \in 1 .. Len(s) /\ p[k] \in 1 .. Len(s) /\ s[p[j]] = s[p[k]]
    BY <1>2, <1>5, <2>1
  <2>3. p[j] = p[k]
    BY <2>2 DEF ListsOnce
  <2>4. ~(p[j] < p[k]) /\ ~(p[k] < p[j])
    BY <1>0, <2>2, <2>3
  <2>5. ~(j < k) /\ ~(k < j)
    BY <1>1, <2>1, <2>4
  <2> QED BY <1>1, <2>1, <2>5
<1> QED BY <1>a, <1>3, <1>4, <1>5 DEF ListsOnce, I

\* A list whose positions are rearranged lists the same elements.
LEMMA SortedLists ==
  ASSUME NEW S, NEW s, ListsOnce(s, S), NEW R, StrictOrder(1 .. Len(s), R),
         NEW order, order = InOrder(1 .. Len(s), R),
         NEW t, t = [k \in DOMAIN order |-> s[order[k]]]
  PROVE  /\ ListsOnce(t, S) /\ Len(t) = Len(s)
         /\ \A k \in 1 .. Len(s) : order[k] \in 1 .. Len(s) /\ t[k] = s[order[k]]
         /\ \A j, k \in 1 .. Len(s) : j < k <=> <<order[j], order[k]>> \in R
<1>0. s \in Seq(S) /\ Len(s) \in Nat
  BY DEF ListsOnce
<1> DEFINE n == Len(s)
<1>1. IsFiniteSet(1 .. n) /\ Cardinality(1 .. n) = n
  BY <1>0, FS_Interval, SMTT(30)
<1>2. /\ order \in [1 .. n -> 1 .. n]
      /\ \A i \in 1 .. n : \E k \in 1 .. n : order[k] = i
      /\ \A j, k \in 1 .. n : j < k <=> <<order[j], order[k]>> \in R
  BY <1>1, InOrderSorts
<1> HIDE DEF n
<1>3. t \in [1 .. n -> S] /\ \A k \in 1 .. n : t[k] = s[order[k]]
  <2>1. \A k \in 1 .. n : order[k] \in 1 .. n
    BY <1>2
  <2>2. \A i \in 1 .. n : s[i] \in S
    BY <1>0 DEF n
  <2>3. DOMAIN order = 1 .. n
    BY <1>2
  <2> QED BY <2>1, <2>2, <2>3
<1>4. t \in Seq(S) /\ Len(t) = n
  BY <1>0, <1>3 DEF n
<1>5. ASSUME NEW x \in S PROVE \E k \in 1 .. n : t[k] = x
  <2>1. PICK i \in 1 .. n : s[i] = x
    BY DEF ListsOnce, n
  <2> QED BY <1>2, <1>3, <2>1
<1>6. ASSUME NEW j \in 1 .. n, NEW k \in 1 .. n, t[j] = t[k] PROVE j = k
  <2>1. order[j] = order[k] /\ order[j] \in 1 .. n
    BY <1>2, <1>3, <1>6, ZenonT(30) DEF ListsOnce, n
  <2>2. <<order[j], order[j]>> \notin R
    BY <2>1 DEF StrictOrder, n
  <2>3. ~(j < k) /\ ~(k < j)
    BY <1>2, <2>1, <2>2
  <2> QED BY <1>0, <2>3 DEF n
<1>7. \A k \in 1 .. n : order[k] \in 1 .. n
  BY <1>2
<1>8. ListsOnce(t, S)
  <2>1. \A j, k \in 1 .. Len(t) : t[j] = t[k] => j = k
    BY <1>4, <1>6, ZenonT(30)
  <2>2. \A x \in S : \E k \in 1 .. Len(t) : t[k] = x
    BY <1>4, <1>5
  <2> QED BY <1>4, <2>1, <2>2 DEF ListsOnce
<1> QED BY <1>2, <1>3, <1>4, <1>7, <1>8 DEF n

\* Two lists of different things, one after the other.
LEMMA ConcatLists ==
  ASSUME NEW S, NEW T, NEW s, NEW t, ListsOnce(s, S), ListsOnce(t, T), \A x \in S : x \notin T,
         NEW U, U = S \cup T, NEW u, u = s \o t
  PROVE  /\ ListsOnce(u, U) /\ Len(u) = Len(s) + Len(t)
         /\ \A k \in 1 .. Len(u) : u[k] = IF k <= Len(s) THEN s[k] ELSE t[k - Len(s)]
<1>1. s \in Seq(U) /\ t \in Seq(U) /\ Len(s) \in Nat /\ Len(t) \in Nat
  BY DEF ListsOnce
<1>3. /\ u \in Seq(U) /\ Len(u) = Len(s) + Len(t)
      /\ \A k \in 1 .. Len(u) : u[k] = IF k <= Len(s) THEN s[k] ELSE t[k - Len(s)]
  BY <1>1, ConcatProperties
<1>4. ASSUME NEW k \in 1 .. Len(u)
      PROVE  \/ k \in 1 .. Len(s) /\ u[k] = s[k] /\ u[k] \in S
             \/ k - Len(s) \in 1 .. Len(t) /\ u[k] = t[k - Len(s)] /\ u[k] \in T
  <2>1. k \in 1 .. Len(s) \/ (k - Len(s) \in 1 .. Len(t) /\ ~(k <= Len(s)))
    BY <1>1, <1>3
  <2>2. (\A i \in 1 .. Len(s) : s[i] \in S /\ i <= Len(s)) /\ \A i \in 1 .. Len(t) : t[i] \in T
    BY <1>1 DEF ListsOnce
  <2> QED BY <1>3, <2>1, <2>2
<1>5. ASSUME NEW x \in U PROVE \E k \in 1 .. Len(u) : u[k] = x
  <2>1. CASE x \in S
    <3>1. PICK k \in 1 .. Len(s) : s[k] = x
      BY <2>1 DEF ListsOnce
    <3>2. k \in 1 .. Len(u) /\ k <= Len(s)
      BY <1>1, <1>3
    <3> QED BY <1>3, <3>1, <3>2
  <2>2. CASE x \in T
    <3>1. PICK k \in 1 .. Len(t) : t[k] = x
      BY <2>2 DEF ListsOnce
    <3>2. k + Len(s) \in 1 .. Len(u) /\ ~(k + Len(s) <= Len(s)) /\ (k + Len(s)) - Len(s) = k
      BY <1>1, <1>3
    <3> QED BY <1>3, <3>1, <3>2
  <2> QED BY <2>1, <2>2
<1>6. ASSUME NEW j \in 1 .. Len(u), NEW k \in 1 .. Len(u), u[j] = u[k] PROVE j = k
  <2>1. CASE u[j] \in S
    <3>1. j \in 1 .. Len(s) /\ k \in 1 .. Len(s) /\ s[j] = s[k]
      BY <1>4, <1>6, <2>1
    <3> QED BY <3>1 DEF ListsOnce
  <2>2. CASE u[j] \in T
    <3>1. /\ j - Len(s) \in 1 .. Len(t) /\ k - Len(s) \in 1 .. Len(t)
          /\ t[j - Len(s)] = t[k - Len(s)]
      BY <1>4, <1>6, <2>2
    <3>2. j - Len(s) = k - Len(s)
      BY <3>1 DEF ListsOnce
    <3> QED BY <1>1, <3>2
  <2> QED BY <1>4, <2>1, <2>2
<1> QED BY <1>3, <1>5, <1>6 DEF ListsOnce

\* The first n of a list.
LEMMA PrefixLists ==
  ASSUME NEW S, NEW s, ListsOnce(s, S), NEW n \in 0 .. Len(s)
  PROVE  /\ ListsOnce(SubSeq(s, 1, n), {s[k] : k \in 1 .. n}) /\ Len(SubSeq(s, 1, n)) = n
         /\ \A k \in 1 .. n : SubSeq(s, 1, n)[k] = s[k]
<1>1. s \in Seq(S) /\ Len(s) \in Nat /\ n \in Nat
  BY DEF ListsOnce
<1>2. PICK u : u = SubSeq(s, 1, n)
  OBVIOUS
<1>3. u \in Seq(S) /\ Len(u) = n /\ \A k \in 1 .. n : u[k] = s[k]
  <2>1. \A i \in 1 .. n : s[i] \in S
    BY <1>1
  <2>2. /\ u \in Seq(S)
        /\ Len(u) = IF 1 <= n THEN n - 1 + 1 ELSE 0
        /\ \A i \in 1 .. n - 1 + 1 : u[i] = s[1 + i - 1]
    BY <1>1, <1>2, <2>1, SubSeqProperties
  <2> QED BY <1>1, <2>2
<1> DEFINE T == {s[k] : k \in 1 .. n}
<1>4. u \in Seq(T)
  <2>1. \A k \in 1 .. n : u[k] \in T
    BY <1>3
  <2> HIDE DEF T
  <2> QED BY <1>3, <2>1
<1>5. \A x \in T : \E k \in 1 .. n : u[k] = x
  BY <1>3
<1>6. ASSUME NEW j \in 1 .. n, NEW k \in 1 .. n, u[j] = u[k] PROVE j = k
  <2>1. j \in 1 .. Len(s) /\ k \in 1 .. Len(s) /\ s[j] = s[k]
    BY <1>1, <1>3, <1>6
  <2> QED BY <2>1 DEF ListsOnce
<1> HIDE DEF T
<1>7. ListsOnce(u, T)
  BY <1>3, <1>4, <1>5, <1>6 DEF ListsOnce
<1> QED BY <1>2, <1>3, <1>7 DEF T

-----------------------------------------------------------------------------
\* p gives the numbers of I in ascending order.
Enumerates(p, n, I) ==
  /\ n \in Nat /\ p \in [1 .. n -> I]
  /\ \A i \in I : \E k \in 1 .. n : p[k] = i
  /\ \A j, k \in 1 .. n : j < k <=> p[j] < p[k]

LEMMA AtEnumerates ==
  ASSUME NEW X, NEW s \in Seq(X), NEW I \in SUBSET (1 .. Len(s)), NEW t, t = At(s, I)
  PROVE  /\ t \in Seq(X)
         /\ \E p : Enumerates(p, Len(t), I) /\ \A k \in 1 .. Len(t) : t[k] = s[p[k]]
<1>1. PICK n : n = Cardinality(I)
  OBVIOUS
<1>2. /\ n \in Nat /\ t \in Seq(X) /\ Len(t) = n
      /\ \E p \in [1 .. n -> I] :
           /\ \A k \in 1 .. n : t[k] = s[p[k]]
           /\ \A i \in I : \E k \in 1 .. n : p[k] = i
           /\ \A j, k \in 1 .. n : j < k <=> p[j] < p[k]
  BY <1>1, AtSelects
<1> QED BY <1>2 DEF Enumerates

LEMMA EnumerationLists ==
  ASSUME NEW K \in SUBSET Int, NEW m, NEW f, Enumerates(f, m, K)
  PROVE  ListsOnce(f, K) /\ Len(f) = m
<1>1. f \in Seq(K) /\ Len(f) = m
  BY DEF Enumerates
<1>2. ASSUME NEW j \in 1 .. m, NEW k \in 1 .. m, f[j] = f[k] PROVE j = k
  <2>1. m \in Nat /\ f[j] \in K /\ f[k] \in K
    BY DEF Enumerates
  <2>2. f[j] \in Int /\ j \in Int /\ k \in Int
    <3>1. j \in Int /\ k \in Int
      BY <2>1
    <3>2. f[j] \in Int
      BY <2>1
    <3> QED BY <3>1, <3>2
  <2>3. ~(f[j] < f[k]) /\ ~(f[k] < f[j])
    BY <1>2, <2>2
  <2>4. ~(j < k) /\ ~(k < j)
    BY <2>3 DEF Enumerates
  <2> QED BY <2>2, <2>4
<1> QED BY <1>1, <1>2 DEF ListsOnce, Enumerates

\* There is only one way to enumerate them.
LEMMA SameEnumeration ==
  ASSUME NEW K \in SUBSET Int, NEW m, NEW n, NEW f, NEW g, Enumerates(f, m, K), Enumerates(g, n, K)
  PROVE  m = n /\ f = g
<1>1. ListsOnce(f, K) /\ ListsOnce(g, K) /\ Len(f) = m /\ Len(g) = n
  BY EnumerationLists
<1>2. m = n /\ m \in Nat
  <2>1. Len(f) = Cardinality(K) /\ Len(g) = Cardinality(K)
    BY <1>1, ListsOnceLength
  <2> QED BY <1>1, <2>1 DEF Enumerates
\* The first place where f is below g cannot be.
<1>3. ASSUME NEW a, NEW b, Enumerates(a, m, K), Enumerates(b, m, K),
             NEW k \in 1 .. m, \A j \in 1 .. m : j < k => a[j] = b[j]
      PROVE  ~(a[k] < b[k])
  <2> SUFFICES ASSUME a[k] < b[k] PROVE FALSE
    OBVIOUS
  <2>1. a[k] \in K /\ b[k] \in K
    BY <1>3 DEF Enumerates
  <2>2. PICK j \in 1 .. m : b[j] = a[k]
    BY <1>3, <2>1 DEF Enumerates
  <2>3. j < k
    BY <1>3, <2>2 DEF Enumerates
  <2>4. a[j] = a[k] /\ a[j] < a[k]
    BY <1>3, <2>2, <2>3 DEF Enumerates
  <2>5. a[k] \in Int
    BY <2>1
  <2> QED BY <2>4, <2>5
<1>4. \A k \in 1 .. m : f[k] = g[k]
  <2> SUFFICES ASSUME \E k \in 1 .. m : f[k] # g[k] PROVE FALSE
    OBVIOUS
  <2> DEFINE T == {k \in 1 .. m : f[k] # g[k]}
  <2>1. T \in SUBSET Nat /\ T # {}
    BY <1>2
  <2>2. PICK k \in T : \A j \in T : k <= j
    <3> HIDE DEF T
    <3> QED BY <2>1, NatLeast
  <2>3. k \in 1 .. m /\ f[k] # g[k] /\ \A j \in 1 .. m : j < k => f[j] = g[j]
    BY <1>2, <2>2
  <2>4. f[k] \in K /\ g[k] \in K
    BY <1>2, <2>3 DEF Enumerates
  <2>5. f[k] < g[k] \/ g[k] < f[k]
    <3>1. f[k] \in Int /\ g[k] \in Int
      BY <2>4
    <3> QED BY <2>3, <3>1
  <2> QED BY <1>2, <1>3, <2>3, <2>5
<1> QED BY <1>2, <1>4 DEF Enumerates

\* t is [x for x in s if x in P].
Kept(s, P, t) == t = At(s, {i \in 1 .. Len(s) : s[i] \in P})

\* A condition on what already met a condition is both conditions.
LEMMA FilterTwice ==
  ASSUME NEW X, NEW s \in Seq(X), NEW P, NEW Q, NEW t, Kept(s, P, t), NEW u, Kept(t, Q, u),
         NEW v, Kept(s, P \cap Q, v)
  PROVE  t \in Seq(X) /\ u = v
<1>0. PICK I \in SUBSET (1 .. Len(s)) : (\A i : i \in I <=> i \in 1 .. Len(s) /\ s[i] \in P) /\ t = At(s, I)
  BY DEF Kept
<1>1. PICK J \in SUBSET (1 .. Len(t)) : (\A k : k \in J <=> k \in 1 .. Len(t) /\ t[k] \in Q) /\ u = At(t, J)
  BY DEF Kept
<1>2. PICK K \in SUBSET (1 .. Len(s)) :
        (\A i : i \in K <=> i \in 1 .. Len(s) /\ s[i] \in P /\ s[i] \in Q) /\ v = At(s, K)
  BY DEF Kept
<1>3. /\ t \in Seq(X)
      /\ \E p : Enumerates(p, Len(t), I) /\ \A k \in 1 .. Len(t) : t[k] = s[p[k]]
  BY <1>0, <1>1, <1>2, AtEnumerates
<1>4. /\ u \in Seq(X)
      /\ \E q : Enumerates(q, Len(u), J) /\ \A k \in 1 .. Len(u) : u[k] = t[q[k]]
  BY <1>0, <1>1, <1>2, <1>3, AtEnumerates, SMTT(30)
<1>5. /\ v \in Seq(X)
      /\ \E r : Enumerates(r, Len(v), K) /\ \A k \in 1 .. Len(v) : v[k] = s[r[k]]
  BY <1>0, <1>1, <1>2, AtEnumerates
<1>6. PICK p : Enumerates(p, Len(t), I) /\ \A k \in 1 .. Len(t) : t[k] = s[p[k]]
  BY <1>3
<1>7. PICK q : Enumerates(q, Len(u), J) /\ \A k \in 1 .. Len(u) : u[k] = t[q[k]]
  BY <1>4
<1>8. PICK r : Enumerates(r, Len(v), K) /\ \A k \in 1 .. Len(v) : v[k] = s[r[k]]
  BY <1>5
<1> DEFINE f == [k \in 1 .. Len(u) |-> p[q[k]]]
<1>9. ASSUME NEW k \in 1 .. Len(u) PROVE q[k] \in 1 .. Len(t) /\ p[q[k]] \in K /\ u[k] = s[p[q[k]]]
  <2>1. q[k] \in J /\ u[k] = t[q[k]]
    BY <1>7 DEF Enumerates
  <2>2. q[k] \in 1 .. Len(t) /\ t[q[k]] \in Q
    BY <1>1, <2>1
  <2>3. p[q[k]] \in I /\ t[q[k]] = s[p[q[k]]]
    BY <1>6, <2>2 DEF Enumerates
  <2> QED BY <1>0, <1>1, <1>2, <2>1, <2>2, <2>3
<1>10. Enumerates(f, Len(u), K)
  <2>1. ASSUME NEW i \in K PROVE \E k \in 1 .. Len(u) : f[k] = i
    <3>1. i \in I /\ s[i] \in Q
      BY <1>0, <1>1, <1>2
    <3>2. PICK k \in 1 .. Len(t) : p[k] = i
      BY <1>6, <3>1 DEF Enumerates
    <3>3. k \in J
      BY <1>1, <1>6, <3>1, <3>2
    <3>4. PICK l \in 1 .. Len(u) : q[l] = k
      BY <1>7, <3>3 DEF Enumerates
    <3> QED BY <3>2, <3>4
  <2>2. f \in [1 .. Len(u) -> K] /\ \A k \in 1 .. Len(u) : f[k] = p[q[k]]
    BY <1>9
  <2> HIDE DEF f
  <2>3. ASSUME NEW j \in 1 .. Len(u), NEW k \in 1 .. Len(u) PROVE j < k <=> f[j] < f[k]
    <3>1. j < k <=> q[j] < q[k]
      BY <1>7 DEF Enumerates
    <3>2. q[j] < q[k] <=> p[q[j]] < p[q[k]]
      BY <1>6, <1>9 DEF Enumerates
    <3> QED BY <2>2, <3>1, <3>2
  <2> QED BY <1>4, <2>1, <2>2, <2>3 DEF Enumerates
<1>11. Len(u) = Len(v) /\ f = r
  <2>1. K \in SUBSET Int
    BY <1>0, <1>1, <1>2
  <2> HIDE DEF f
  <2> QED BY <1>8, <1>10, <2>1, SameEnumeration
<1>12. \A k \in 1 .. Len(u) : u[k] = v[k]
  BY <1>8, <1>9, <1>11
<1>13. u = v
  BY <1>4, <1>5, <1>11, <1>12
<1> QED BY <1>3, <1>13

-----------------------------------------------------------------------------
\* The states of a loop of m rounds that starts in x and whose body is F.
IsRun(f, X, x, m, F) ==
  f \in [0 .. m -> X] /\ f[0] = x /\ \A n \in 1 .. m : f[n] = F[<<f[n - 1], n>>]

\* A loop has a run, whatever its body does in each round.
LEMMA Recursion ==
  ASSUME NEW X, NEW x \in X, NEW m \in Nat, NEW F \in [X \X (1 .. m) -> X]
  PROVE  \E f : IsRun(f, X, x, m, F)
<1> DEFINE Runs(n, f) == f[0] = x /\ \A k \in 1 .. n : f[k] = F[<<f[k - 1], k>>]
           T == {n \in Nat : n <= m => \E f \in [0 .. n -> X] : Runs(n, f)}
<1>1. 0 \in T
  <2>1. [k \in 0 .. 0 |-> x] \in [0 .. 0 -> X] /\ Runs(0, [k \in 0 .. 0 |-> x])
    OBVIOUS
  <2> HIDE DEF Runs
  <2> QED BY <2>1
<1>2. ASSUME NEW n \in T PROVE n + 1 \in T
  <2> SUFFICES ASSUME n + 1 <= m PROVE \E f \in [0 .. n + 1 -> X] : Runs(n + 1, f)
    OBVIOUS
  <2>1. PICK f \in [0 .. n -> X] : Runs(n, f)
    OBVIOUS
  <2> DEFINE y == F[<<f[n], n + 1>>]
             g == [k \in 0 .. n + 1 |-> IF k = n + 1 THEN y ELSE f[k]]
  <2>2. y \in X
    <3>1. f[n] \in X /\ n + 1 \in 1 .. m
      BY <2>1
    <3> QED BY <3>1
  <2> HIDE DEF y
  <2>3. g \in [0 .. n + 1 -> X]
    BY <2>1, <2>2
  <2>4. g[n + 1] = y /\ \A k \in 0 .. n : g[k] = f[k]
    OBVIOUS
  <2> HIDE DEF g
  <2>5. ASSUME NEW k \in 1 .. n + 1 PROVE g[k] = F[<<g[k - 1], k>>]
    <3>1. CASE k = n + 1
      <4>1. g[k - 1] = f[n]
        BY <2>4, <3>1
      <4> QED BY <2>4, <3>1, <4>1 DEF y
    <3>2. CASE k # n + 1
      <4>1. k \in 1 .. n /\ k \in 0 .. n /\ k - 1 \in 0 .. n
        BY <3>2
      <4> QED BY <2>1, <2>4, <4>1
    <3> QED BY <3>1, <3>2
  <2>6. g[0] = x
    BY <2>1, <2>4
  <2> QED BY <2>3, <2>5, <2>6
<1>3. T = Nat
  <2> HIDE DEF T
  <2>1. T \in SUBSET Nat
    BY DEF T
  <2> QED BY <1>1, <1>2, <2>1, SetInduction
<1>4. m \in T
  BY <1>3
<1>5. PICK f \in [0 .. m -> X] : Runs(m, f)
  <2> HIDE DEF Runs
  <2> QED BY <1>4
<1> QED BY <1>5 DEF IsRun

\* A run stays among the states its body keeps to.
LEMMA RunStays ==
  ASSUME NEW X, NEW m \in Nat, NEW g, g[0] \in X, \A n \in 1 .. m : g[n - 1] \in X => g[n] \in X
  PROVE  \A n \in 0 .. m : g[n] \in X
<1> DEFINE T == {n \in Nat : n <= m => g[n] \in X}
<1>1. 0 \in T
  OBVIOUS
<1>2. ASSUME NEW n \in T PROVE n + 1 \in T
  <2>1. n + 1 \in Nat /\ (n + 1) - 1 = n
    OBVIOUS
  <2>2. ASSUME n + 1 <= m PROVE g[n + 1] \in X
    <3>1. n \in Nat /\ n <= m /\ n + 1 \in 1 .. m
      BY <2>2
    <3> QED BY <2>1, <3>1
  <2> QED BY <2>1, <2>2
<1> HIDE DEF T
<1>3. T = Nat
  <2>1. T \in SUBSET Nat
    BY DEF T
  <2> QED BY <1>1, <1>2, <2>1, SetInduction
<1> QED BY <1>3 DEF T
=============================================================================
