----------------------------- MODULE ListLemmas -----------------------------
(***************************************************************************)
(* What the proofs of several components use about the sequences that      *)
(* model the lists, arrays and stacks of the code.                         *)
(***************************************************************************)
EXTENDS SequencesExt, Sublists, SequenceTheorems, FiniteSetTheorems, FunctionTheorems, TLAPS

(* Taking out one element shifts those behind it.                          *)
LEMMA RemoveAtProperties ==
    ASSUME NEW S, NEW q \in Seq(S), NEW i \in 1 .. Len(q)
    PROVE  /\ RemoveAt(q, i) \in Seq(S)
           /\ Len(RemoveAt(q, i)) = Len(q) - 1
           /\ \A k \in 1 .. Len(q) - 1 :
                 RemoveAt(q, i)[k] = IF k < i THEN q[k] ELSE q[k + 1]
<1> DEFINE front == SubSeq(q, 1, i - 1)
           rest  == SubSeq(q, i + 1, Len(q))
<1>1. Len(q) \in Nat /\ i \in Nat /\ i >= 1 /\ i <= Len(q)
  OBVIOUS
<1>2. /\ front \in Seq(S) /\ Len(front) = i - 1
      /\ \A k \in 1 .. i - 1 : front[k] = q[k]
  BY <1>1
<1>3. /\ rest \in Seq(S) /\ Len(rest) = Len(q) - i
      /\ \A k \in 1 .. Len(q) - i : rest[k] = q[k + i]
  BY <1>1
<1> HIDE DEF front, rest
<1>4. /\ front \o rest \in Seq(S)
      /\ Len(front \o rest) = Len(front) + Len(rest)
      /\ \A k \in 1 .. Len(front) + Len(rest) :
            (front \o rest)[k] = IF k <= Len(front) THEN front[k] ELSE rest[k - Len(front)]
  BY <1>2, <1>3, ConcatProperties
<1>5. RemoveAt(q, i) = front \o rest
  BY DEF RemoveAt, front, rest
<1>6. ASSUME NEW k \in 1 .. Len(q) - 1
      PROVE  (front \o rest)[k] = IF k < i THEN q[k] ELSE q[k + 1]
  <2>1. CASE k < i
    BY <1>1, <1>2, <1>3, <1>4, <1>6, <2>1
  <2>2. CASE k >= i
    <3>1. /\ k - (i - 1) \in 1 .. Len(q) - i /\ k - (i - 1) + i = k + 1
      BY <1>1, <1>6, <2>2
    <3>2. k \in 1 .. Len(front) + Len(rest) /\ ~(k <= Len(front))
      BY <1>1, <1>2, <1>3, <1>6, <2>2
    <3>3. (front \o rest)[k] = rest[k - Len(front)]
      BY <1>4, <3>2
    <3>4. Len(front) = i - 1 /\ rest[k - (i - 1)] = q[k - (i - 1) + i]
      BY <1>2, <1>3, <3>1
    <3>5. QED
      BY <1>1, <1>6, <2>2, <3>1, <3>3, <3>4
  <2>3. k < i \/ k >= i
    BY <1>1
  <2>4. QED
    BY <2>1, <2>2, <2>3
<1>7. Len(front \o rest) = Len(q) - 1
  BY <1>1, <1>2, <1>3, <1>4
<1>8. QED
  BY <1>4, <1>5, <1>6, <1>7

(* A list without duplicates loses exactly the element that is taken out.  *)
LEMMA RemovedElement ==
    ASSUME NEW S, NEW q \in Seq(S), IsInjective(q), NEW i \in 1 .. Len(q)
    PROVE  /\ IsInjective(RemoveAt(q, i))
           /\ \A x : Contains(RemoveAt(q, i), x) <=> Contains(q, x) /\ x # q[i]
<1> DEFINE u == RemoveAt(q, i)
<1>1. /\ u \in Seq(S) /\ Len(u) = Len(q) - 1
      /\ \A k \in 1 .. Len(q) - 1 : u[k] = IF k < i THEN q[k] ELSE q[k + 1]
  BY RemoveAtProperties
<1> HIDE DEF u
<1>2. DOMAIN u = 1 .. Len(q) - 1 /\ DOMAIN q = 1 .. Len(q) /\ Len(q) \in Nat
  BY <1>1
<1>3. \A a, b \in 1 .. Len(q) : q[a] = q[b] => a = b
  BY <1>2 DEF IsInjective
<1>4. ASSUME NEW a \in DOMAIN u, NEW b \in DOMAIN u, u[a] = u[b]
      PROVE  a = b
  BY <1>1, <1>2, <1>3, <1>4
<1>5. ASSUME NEW x, Contains(q, x), x # q[i]
      PROVE  Contains(u, x)
  <2>1. PICK k \in 1 .. Len(q) : q[k] = x
    BY <1>5 DEF Contains
  <2>2. CASE k < i
    BY <1>1, <1>2, <2>1, <2>2 DEF Contains
  <2>3. CASE k > i
    <3>1. k - 1 \in 1 .. Len(u) /\ u[k - 1] = q[k]
      BY <1>1, <1>2, <2>1, <2>3
    <3>2. QED
      BY <2>1, <3>1 DEF Contains
  <2>4. QED
    BY <1>2, <1>5, <2>1, <2>2, <2>3
<1>6. ASSUME NEW x, Contains(u, x)
      PROVE  Contains(q, x) /\ x # q[i]
  <2>1. PICK k \in 1 .. Len(u) : u[k] = x
    BY <1>6 DEF Contains
  <2> DEFINE m == IF k < i THEN k ELSE k + 1
  <2>2. m \in 1 .. Len(q) /\ m # i /\ q[m] = x
    BY <1>1, <1>2, <2>1
  <2> HIDE DEF m
  <2>3. QED
    BY <1>3, <2>2 DEF Contains
<1>7. QED
  BY <1>4, <1>5, <1>6 DEF u, IsInjective

(* A new element at the end, and at the front.                             *)
LEMMA AppendedElement ==
    ASSUME NEW S, NEW q \in Seq(S), NEW e \in S
    PROVE  /\ \A x : Contains(Append(q, e), x) <=> Contains(q, x) \/ x = e
           /\ IsInjective(q) /\ ~Contains(q, e) => IsInjective(Append(q, e))
<1> DEFINE u == Append(q, e)
<1>1. /\ u \in Seq(S) /\ Len(u) = Len(q) + 1 /\ u[Len(q) + 1] = e
      /\ \A k \in 1 .. Len(q) : u[k] = q[k]
  BY AppendProperties
<1> HIDE DEF u
<1>2. DOMAIN u = 1 .. Len(q) + 1 /\ DOMAIN q = 1 .. Len(q) /\ Len(q) \in Nat
  BY <1>1
<1>3. \A x : Contains(u, x) <=> Contains(q, x) \/ x = e
  BY <1>1, <1>2 DEF Contains
<1>4. IsInjective(q) /\ ~Contains(q, e) => IsInjective(u)
  BY <1>1, <1>2 DEF Contains, IsInjective
<1>5. QED
  BY <1>3, <1>4 DEF u

LEMMA PrependedElement ==
    ASSUME NEW S, NEW q \in Seq(S), NEW e \in S
    PROVE  /\ <<e>> \o q \in Seq(S)
           /\ \A x : Contains(<<e>> \o q, x) <=> Contains(q, x) \/ x = e
           /\ IsInjective(q) /\ ~Contains(q, e) => IsInjective(<<e>> \o q)
<1> DEFINE u == <<e>> \o q
<1>1. <<e>> \in Seq(S) /\ Len(<<e>>) = 1 /\ <<e>>[1] = e /\ Len(q) \in Nat
  OBVIOUS
<1>2. /\ u \in Seq(S) /\ Len(u) = 1 + Len(q)
      /\ \A k \in 1 .. 1 + Len(q) : u[k] = IF k <= 1 THEN <<e>>[k] ELSE q[k - 1]
  BY <1>1, ConcatProperties
<1> HIDE DEF u
<1>3. u[1] = e /\ \A k \in 1 .. Len(q) : u[k + 1] = q[k]
  BY <1>1, <1>2
<1>4. DOMAIN u = 1 .. Len(q) + 1 /\ DOMAIN q = 1 .. Len(q)
  BY <1>1, <1>2
<1>5. \A k \in DOMAIN u : k = 1 \/ (k - 1 \in 1 .. Len(q) /\ u[k] = q[k - 1])
  BY <1>1, <1>2, <1>4
<1>6. \A x : Contains(u, x) <=> Contains(q, x) \/ x = e
  <2>1. ASSUME NEW x, Contains(u, x)
        PROVE  Contains(q, x) \/ x = e
    BY <1>3, <1>4, <1>5, <2>1, <1>2, SMTT(30) DEF Contains
  <2>2. ASSUME NEW x, Contains(q, x) \/ x = e
        PROVE  Contains(u, x)
    <3>1. CASE x = e
      BY <1>1, <1>2, <1>3, <3>1 DEF Contains
    <3>2. CASE Contains(q, x)
      <4>1. PICK k \in 1 .. Len(q) : q[k] = x
        BY <3>2 DEF Contains
      <4>2. k + 1 \in 1 .. Len(u) /\ u[k + 1] = x
        BY <1>1, <1>2, <1>3, <4>1
      <4>3. QED
        BY <4>2 DEF Contains
    <3>3. QED
      BY <2>2, <3>1, <3>2
  <2>3. QED
    BY <2>1, <2>2
<1>7. ASSUME IsInjective(q), ~Contains(q, e), NEW a \in DOMAIN u, NEW b \in DOMAIN u, u[a] = u[b]
      PROVE  a = b
  <2>1. \A k \in 1 .. Len(q) : q[k] # e
    BY <1>7 DEF Contains
  <2>2. \A k, m \in 1 .. Len(q) : q[k] = q[m] => k = m
    BY <1>4, <1>7 DEF IsInjective
  <2>3. QED
    BY <1>1, <1>3, <1>4, <1>5, <1>7, <2>1, <2>2
<1>8. QED
  BY <1>2, <1>6, <1>7 DEF u, IsInjective

(* A stack: the element on top, and what is left without it.               *)
LEMMA TopOfStack ==
    ASSUME NEW S, NEW q \in Seq(S), q # <<>>
    PROVE  /\ Len(q) \in Nat \ {0} /\ Len(q) \in 1 .. Len(q) /\ Last(q) = q[Len(q)] /\ Last(q) \in S
           /\ Front(q) \in Seq(S) /\ Len(Front(q)) = Len(q) - 1
           /\ \A k \in 1 .. Len(q) - 1 : Front(q)[k] = q[k]
           /\ DOMAIN q = 1 .. Len(q) /\ DOMAIN Front(q) = 1 .. Len(q) - 1
<1>1. Len(q) \in Nat \ {0} /\ DOMAIN q = 1 .. Len(q)
  BY EmptySeq
<1>2. /\ Front(q) \in Seq(S) /\ Len(Front(q)) = Len(q) - 1
      /\ \A k \in 1 .. Len(q) - 1 : Front(q)[k] = q[k]
  BY <1>1 DEF Front
<1>3. QED
  BY <1>1, <1>2 DEF Last

(* The rank of a position among those kept: each of them has one of its    *)
(* own, and the ranks are the numbers up to how many there are.            *)
LEMMA Ranks ==
    ASSUME NEW m \in Nat, NEW keep \in SUBSET (1 .. m)
    PROVE  /\ IsFiniteSet(keep) /\ Cardinality(keep) \in Nat /\ Cardinality(keep) <= m
           /\ \A i \in keep : Cardinality(UpTo(keep, i)) \in 1 .. Cardinality(keep)
           /\ \A i, j \in keep : i < j => Cardinality(UpTo(keep, i)) < Cardinality(UpTo(keep, j))
           /\ \A k \in 1 .. Cardinality(keep) : \E i \in keep : Cardinality(UpTo(keep, i)) = k
<1> DEFINE n == Cardinality(keep)
           rank == [i \in keep |-> Cardinality(UpTo(keep, i))]
<1>1. IsFiniteSet(keep) /\ n \in Nat /\ n <= m
  <2>1. IsFiniteSet(1 .. m) /\ Cardinality(1 .. m) = m
    BY FS_Interval, SMTT(30)
  <2>2. IsFiniteSet(keep) /\ n <= m
    BY <2>1, FS_Subset
  <2>3. QED
    BY <2>2, FS_CardinalityType
<1>2. \A i \in keep : i \in Nat
  BY <1>1
<1>3. ASSUME NEW i \in keep
      PROVE  /\ IsFiniteSet(UpTo(keep, i)) /\ rank[i] = Cardinality(UpTo(keep, i))
             /\ rank[i] \in 1 .. n
  <2>1. UpTo(keep, i) \in SUBSET keep /\ i \in UpTo(keep, i)
    BY <1>2 DEF UpTo
  <2>2. IsFiniteSet(UpTo(keep, i)) /\ Cardinality(UpTo(keep, i)) <= n
    BY <1>1, <2>1, FS_Subset
  <2>3. Cardinality(UpTo(keep, i)) \in Nat /\ Cardinality(UpTo(keep, i)) # 0
    BY <2>1, <2>2, FS_CardinalityType, FS_EmptySet
  <2>4. QED
    BY <1>1, <2>2, <2>3
<1>4. ASSUME NEW i \in keep, NEW j \in keep, i < j
      PROVE  rank[i] < rank[j]
  <2>1. UpTo(keep, i) \in SUBSET UpTo(keep, j) /\ j \notin UpTo(keep, i) /\ j \in UpTo(keep, j)
    <3>1. i \in Nat /\ j \in Nat /\ \A l \in keep : l \in Nat
      BY <1>2
    <3>2. /\ \A l : l \in UpTo(keep, i) <=> l \in keep /\ l <= i
          /\ \A l : l \in UpTo(keep, j) <=> l \in keep /\ l <= j
      BY DEF UpTo
    <3>3. \A l \in keep : l <= i => l <= j
      BY <1>4, <3>1
    <3>4. ~(j <= i) /\ j <= j
      BY <1>4, <3>1
    <3>5. QED
      BY <3>2, <3>3, <3>4
  <2>2. /\ Cardinality(UpTo(keep, i)) <= Cardinality(UpTo(keep, j))
        /\ Cardinality(UpTo(keep, i)) # Cardinality(UpTo(keep, j))
    BY <1>3, <2>1, FS_Subset
  <2>3. rank[i] \in Nat /\ rank[j] \in Nat
    BY <1>1, <1>3
  <2>4. QED
    BY <1>3, <2>2, <2>3
<1>5. \A k \in 1 .. n : \E i \in keep : Cardinality(UpTo(keep, i)) = k
  <2>1. rank \in [keep -> 1 .. n]
    BY <1>3
  <2>2. IsInjective(rank)
    <3>1. ASSUME NEW i \in keep, NEW j \in keep, rank[i] = rank[j]
          PROVE  i = j
      <4>1. ~(i < j) /\ ~(j < i)
        BY <1>1, <1>3, <1>4, <3>1
      <4>2. QED
        BY <1>2, <4>1
    <3>2. QED
      BY <3>1 DEF IsInjective
  <2>3. rank \in Injection(keep, 1 .. n)
    BY <2>1, <2>2 DEF Injection
  <2>4. IsFiniteSet(1 .. n) /\ Cardinality(1 .. n) = n
    BY <1>1, FS_Interval
  <2>5. rank \in Surjection(keep, 1 .. n)
    BY <2>3, <2>4, FS_Injection
  <2>6. QED
    BY <1>3, <2>5 DEF Surjection
<1>6. \A i \in keep : rank[i] = Cardinality(UpTo(keep, i))
  OBVIOUS
<1> HIDE DEF rank
<1>7. \A i, j \in keep : i < j => rank[i] < rank[j]
  BY <1>4
<1>8. QED
  BY <1>1, <1>3, <1>5, <1>6, <1>7

(* A loop that keeps some elements: which ones they are and in what order. *)
LEMMA SublistProperties ==
    ASSUME NEW S, NEW q \in Seq(S), NEW keep \in SUBSET (1 .. Len(q))
    PROVE  \E f \in [1 .. Cardinality(keep) -> keep] :
              /\ Cardinality(keep) \in Nat /\ Cardinality(keep) <= Len(q)
              /\ Sublist(q, keep) \in Seq(S) /\ Len(Sublist(q, keep)) = Cardinality(keep)
              /\ \A k \in 1 .. Cardinality(keep) : Sublist(q, keep)[k] = q[f[k]]
              /\ \A j, k \in 1 .. Cardinality(keep) : j < k => f[j] < f[k]
              /\ \A i \in keep : \E k \in 1 .. Cardinality(keep) : f[k] = i
<1> DEFINE n == Cardinality(keep)
           rank == [i \in keep |-> Cardinality(UpTo(keep, i))]
           f == [k \in 1 .. n |-> CHOOSE i \in keep : Cardinality(UpTo(keep, i)) = k]
<1>1. Len(q) \in Nat
  OBVIOUS
<1>2. /\ IsFiniteSet(keep) /\ n \in Nat /\ n <= Len(q)
      /\ \A i \in keep : Cardinality(UpTo(keep, i)) \in 1 .. n
      /\ \A i, j \in keep : i < j => Cardinality(UpTo(keep, i)) < Cardinality(UpTo(keep, j))
      /\ \A k \in 1 .. n : \E i \in keep : Cardinality(UpTo(keep, i)) = k
  BY <1>1, Ranks
<1>3. \A i \in keep : i \in Nat
  BY <1>1
<1>4. \A i \in keep : rank[i] = Cardinality(UpTo(keep, i))
  OBVIOUS
<1>5. ASSUME NEW k \in 1 .. n
      PROVE  f[k] \in keep /\ rank[f[k]] = k
  BY <1>2
<1>6. f \in [1 .. n -> keep]
  BY <1>5
<1>7. Sublist(q, keep) = [k \in 1 .. n |-> q[f[k]]]
  BY DEF Sublist
<1> HIDE DEF f, rank
<1>8. /\ \A i \in keep : rank[i] \in 1 .. n /\ rank[i] \in Nat
      /\ \A i, j \in keep : i < j => rank[i] < rank[j]
      /\ \A k \in 1 .. n : f[k] \in keep
      /\ \A k \in 1 .. n : rank[f[k]] = k
  BY <1>2, <1>4, <1>5
<1>9. ASSUME NEW j \in 1 .. n, NEW k \in 1 .. n, j < k
      PROVE  f[j] < f[k]
  <2>1. f[j] \in Nat /\ f[k] \in Nat /\ rank[f[j]] = j /\ rank[f[k]] = k
    BY <1>3, <1>8
  <2>2. CASE f[j] = f[k]
    BY <1>2, <1>9, <2>1, <2>2
  <2>3. CASE f[k] < f[j]
    <3>1. rank[f[k]] < rank[f[j]]
      BY <1>8, <2>3
    <3>2. QED
      BY <1>2, <1>9, <2>1, <3>1
  <2>4. QED
    BY <2>1, <2>2, <2>3
<1>10. ASSUME NEW i \in keep
       PROVE  \E k \in 1 .. n : f[k] = i
  <2>1. \A j \in keep : rank[j] = rank[i] => j = i
    BY <1>3, <1>8
  <2>2. QED
    BY <2>1, <1>8
<1>11. Sublist(q, keep) \in Seq(S) /\ Len(Sublist(q, keep)) = n
  <2>1. \A k \in 1 .. n : f[k] \in 1 .. Len(q)
    BY <1>8
  <2>2. \A k \in 1 .. n : q[f[k]] \in S
    BY <2>1
  <2> HIDE DEF n
  <2>3. QED
    BY <1>1, <1>2, <1>7, <2>2
<1>12. \A k \in 1 .. n : Sublist(q, keep)[k] = q[f[k]]
  BY <1>7
<1> HIDE DEF n
<1>13. QED
  BY <1>1, <1>2, <1>6, <1>9, <1>10, <1>11, <1>12 DEF n

LEMMA SublistElements ==
    ASSUME NEW S, NEW q \in Seq(S), NEW keep \in SUBSET (1 .. Len(q))
    PROVE  /\ Sublist(q, keep) \in Seq(S)
           /\ \A i \in 1 .. Len(Sublist(q, keep)) : \E j \in keep : Sublist(q, keep)[i] = q[j]
<1>1. PICK f \in [1 .. Cardinality(keep) -> keep] :
          /\ Sublist(q, keep) \in Seq(S) /\ Len(Sublist(q, keep)) = Cardinality(keep)
          /\ \A k \in 1 .. Cardinality(keep) : Sublist(q, keep)[k] = q[f[k]]
  BY SublistProperties
<1>2. QED
  BY <1>1

(* Min of a set of numbers that is not empty.                              *)
LEMMA LeastNumber ==
    ASSUME NEW T \in SUBSET Nat, T # {}
    PROVE  Min(T) \in T /\ \A y \in T : Min(T) <= y
<1> DEFINE Below(x) == 0 .. x
           Sets == {Below(x) : x \in T}
<1>1. Sets \subseteq FiniteSubsetsOf(Nat) /\ Sets # {}
  <2>1. \A x \in T : IsFiniteSet(Below(x)) /\ Below(x) \subseteq Nat
    BY FS_Interval
  <2>2. QED
    BY <2>1 DEF FiniteSubsetsOf
<1>2. PICK U \in Sets : \A V \in Sets : ~ (<<V, U>> \in StrictSubsetOrdering(Nat))
  BY <1>1, WFMin, FS_StrictSubsetOrderingWellFounded
<1>3. PICK x \in T : U = Below(x)
  OBVIOUS
<1>4. ASSUME NEW y \in T
      PROVE  x <= y
  <2>1. ~ (<<Below(y), Below(x)>> \in StrictSubsetOrdering(Nat))
    BY <1>2, <1>3
  <2>2. x \in Nat /\ y \in Nat
    OBVIOUS
  <2>3. CASE y < x
    <3>1. Below(y) \subseteq Below(x) /\ x \in Below(x) /\ x \notin Below(y)
      BY <2>2, <2>3
    <3>2. Below(y) # Below(x)
      BY <3>1
    <3>3. <<Below(y), Below(x)>> \in StrictSubsetOrdering(Nat)
      BY <2>2, <3>1, <3>2 DEF StrictSubsetOrdering
    <3>4. QED
      BY <2>1, <3>3
  <2>4. QED
    BY <2>2, <2>3
<1>5. \E z \in T : \A y \in T : z <= y
  BY <1>4
<1>6. QED
  BY <1>5 DEF Min

LEMMA AtMostOne ==
    ASSUME NEW S, \A a, b \in S : a = b
    PROVE  IsFiniteSet(S) /\ Cardinality(S) \in 0 .. 1
<1>1. CASE S = {}
  BY <1>1, FS_EmptySet
<1>2. CASE S # {}
  <2>1. PICK a : S = {a}
    BY <1>2
  <2>2. IsFiniteSet({a}) /\ Cardinality({a}) = 1
    BY FS_Singleton
  <2>3. QED
    BY <2>1, <2>2
<1>3. QED
  BY <1>1, <1>2

(* x stands before y in the list s.                                        *)
Before(s, x, y) == \E i, j \in DOMAIN s : i < j /\ s[i] = x /\ s[j] = y

(* The elements of a list that holds none twice are in one order.          *)
LEMMA OneOrder ==
    ASSUME NEW S, NEW q \in Seq(S), IsInjective(q)
    PROVE  /\ \A x, y : Before(q, x, y) =>
                 Contains(q, x) /\ Contains(q, y) /\ x # y /\ ~Before(q, y, x)
           /\ \A x, y, z : Before(q, x, y) /\ Before(q, y, z) => Before(q, x, z)
           /\ \A x, y : Contains(q, x) /\ Contains(q, y) /\ x # y =>
                 Before(q, x, y) \/ Before(q, y, x)
<1>1. DOMAIN q \subseteq Nat
  OBVIOUS
<1>2. \A i, j \in DOMAIN q : q[i] = q[j] => i = j
  BY DEF IsInjective
<1>3. \A x, y : Before(q, x, y) =>
         Contains(q, x) /\ Contains(q, y) /\ x # y /\ ~Before(q, y, x)
  BY <1>1, <1>2 DEF Before, Contains
<1>4. \A x, y, z : Before(q, x, y) /\ Before(q, y, z) => Before(q, x, z)
  BY <1>1, <1>2 DEF Before
<1>5. \A x, y : Contains(q, x) /\ Contains(q, y) /\ x # y => Before(q, x, y) \/ Before(q, y, x)
  BY <1>1, <1>2 DEF Before, Contains
<1>6. QED
  BY <1>3, <1>4, <1>5

(* The loop that leaves out the members of T keeps the order of the others. *)
LEMMA LeaveOutOrder ==
    ASSUME NEW S, NEW q \in Seq(S), IsInjective(q), NEW T
    PROVE  LET r == LeaveOut(q, T) IN
           /\ r \in Seq(S) /\ IsInjective(r)
           /\ \A x : Contains(r, x) <=> Contains(q, x) /\ x \notin T
           /\ \A x, y : Before(r, x, y) <=> Before(q, x, y) /\ x \notin T /\ y \notin T
<1> DEFINE keep == {i \in DOMAIN q : q[i] \notin T}
<1>1. keep \in SUBSET (1 .. Len(q)) /\ DOMAIN q = 1 .. Len(q) /\ Len(q) \in Nat
  OBVIOUS
<1> HIDE DEF keep
<1>2. PICK f \in [1 .. Cardinality(keep) -> keep] :
          /\ Cardinality(keep) \in Nat /\ Cardinality(keep) <= Len(q)
          /\ Sublist(q, keep) \in Seq(S) /\ Len(Sublist(q, keep)) = Cardinality(keep)
          /\ \A k \in 1 .. Cardinality(keep) : Sublist(q, keep)[k] = q[f[k]]
          /\ \A j, k \in 1 .. Cardinality(keep) : j < k => f[j] < f[k]
          /\ \A i \in keep : \E k \in 1 .. Cardinality(keep) : f[k] = i
  BY <1>1, SublistProperties
<1>3. \A i : i \in keep <=> i \in DOMAIN q /\ q[i] \notin T
  BY DEF keep
<1> DEFINE r == Sublist(q, keep)
           n == Cardinality(keep)
<1>4. /\ r \in Seq(S) /\ DOMAIN r = 1 .. n /\ Len(r) = n
      /\ \A k \in 1 .. n : r[k] = q[f[k]]
  BY <1>2
<1>5. \A k \in 1 .. n : f[k] \in DOMAIN q /\ f[k] \in Nat /\ q[f[k]] \notin T
  BY <1>1, <1>2, <1>3
<1>6. \A i \in DOMAIN q : q[i] \notin T => \E k \in 1 .. n : f[k] = i
  BY <1>1, <1>2, <1>3
<1>7. \A i, j \in DOMAIN q : q[i] = q[j] => i = j
  BY DEF IsInjective
<1>8. \A j, k \in 1 .. n : f[j] < f[k] => j < k
  <2>1. ASSUME NEW j \in 1 .. n, NEW k \in 1 .. n, f[j] < f[k], ~(j < k)
        PROVE  FALSE
    <3>1. j = k \/ k < j
      BY <1>2, <2>1
    <3>2. f[j] = f[k] \/ f[k] < f[j]
      BY <1>2, <3>1
    <3>3. QED
      BY <1>5, <2>1, <3>2
  <2>2. QED
    BY <2>1
<1>9. n \in Nat /\ \A j, k \in 1 .. n : j < k => f[j] < f[k]
  BY <1>2
<1> HIDE DEF n, r
<1>10. IsInjective(r)
  <2>1. ASSUME NEW j \in 1 .. n, NEW k \in 1 .. n, r[j] = r[k]
        PROVE  j = k
    <3>1. f[j] = f[k]
      BY <1>4, <1>5, <1>7, <2>1
    <3>2. ~(j < k) /\ ~(k < j)
      BY <1>9, <1>5, <3>1
    <3>3. QED
      BY <1>2, <3>2
  <2>2. QED
    BY <1>4, <2>1 DEF IsInjective
<1>11. \A x : Contains(r, x) <=> Contains(q, x) /\ x \notin T
  <2>1. /\ \A x : Contains(r, x) <=> \E k \in 1 .. n : r[k] = x
        /\ \A x : Contains(q, x) <=> \E i \in DOMAIN q : q[i] = x
    BY <1>4 DEF Contains
  <2>2. ASSUME NEW x, Contains(r, x)
        PROVE  Contains(q, x) /\ x \notin T
    BY <1>4, <1>5, <2>1, <2>2
  <2>3. ASSUME NEW x, Contains(q, x), x \notin T
        PROVE  Contains(r, x)
    BY <1>4, <1>6, <2>1, <2>3
  <2>4. QED
    BY <2>2, <2>3
<1>12. ASSUME NEW x, NEW y
       PROVE  Before(r, x, y) <=> Before(q, x, y) /\ x \notin T /\ y \notin T
  <2>1. ASSUME Before(r, x, y)
        PROVE  Before(q, x, y) /\ x \notin T /\ y \notin T
    <3>1. PICK j, k \in 1 .. n : j < k /\ r[j] = x /\ r[k] = y
      BY <1>4, <2>1 DEF Before
    <3>2. f[j] < f[k] /\ q[f[j]] = x /\ q[f[k]] = y
      BY <1>9, <1>4, <3>1
    <3>3. QED
      BY <1>5, <3>2 DEF Before
  <2>2. ASSUME Before(q, x, y), x \notin T, y \notin T
        PROVE  Before(r, x, y)
    <3>1. PICK a, b \in DOMAIN q : a < b /\ q[a] = x /\ q[b] = y
      BY <2>2 DEF Before
    <3>2. PICK j, k \in 1 .. n : f[j] = a /\ f[k] = b
      BY <1>6, <2>2, <3>1
    <3>3. j < k /\ r[j] = x /\ r[k] = y
      BY <1>4, <1>8, <3>1, <3>2
    <3>4. QED
      BY <1>4, <3>3 DEF Before
  <2>3. QED
    BY <2>1, <2>2
<1>13. QED
  BY <1>4, <1>10, <1>11, <1>12 DEF LeaveOut, r, keep

(* Where InsertBefore puts an element.                                     *)
LEMMA InsertPosition ==
    ASSUME NEW S, NEW q \in Seq(S), NEW e \in S, NEW before \in SUBSET (1 .. Len(q)), NEW r,
           r = InsertBefore(q, before, e)
    PROVE  \E k \in 1 .. Len(q) + 1 :
              /\ r \in Seq(S) /\ Len(r) = Len(q) + 1
              /\ r[k] = e
              /\ \A i \in 1 .. Len(q) : i < k => r[i] = q[i] /\ i \notin before
              /\ \A i \in 1 .. Len(q) : i >= k => r[i + 1] = q[i]
              /\ k = Len(q) + 1 \/ k \in before
<1>1. CASE before = {}
  <2>1. r = Append(q, e) /\ Len(q) \in Nat
    BY <1>1 DEF InsertBefore
  <2>2. /\ r \in Seq(S) /\ Len(r) = Len(q) + 1 /\ r[Len(q) + 1] = e
        /\ \A i \in 1 .. Len(q) : r[i] = q[i]
    BY <2>1, AppendProperties
  <2>3. Len(q) + 1 \in 1 .. Len(q) + 1 /\ \A i \in 1 .. Len(q) : ~(i >= Len(q) + 1)
    BY <2>1
  <2>4. QED
    BY <1>1, <2>2, <2>3
<1>2. CASE before # {}
  <2> DEFINE k == Min(before)
             front == SubSeq(q, 1, k - 1)
             rest == SubSeq(q, k, Len(q))
  <2>1. k \in before /\ \A i \in before : k <= i
    BY <1>2, LeastNumber
  <2> HIDE DEF k
  <2>2. k \in 1 .. Len(q) /\ Len(q) \in Nat /\ k \in Nat
    BY <2>1
  <2>3. /\ front \in Seq(S) /\ Len(front) = k - 1
        /\ \A i \in 1 .. k - 1 : front[i] = q[i]
    BY <2>2
  <2>4. /\ rest \in Seq(S) /\ Len(rest) = Len(q) - k + 1
        /\ \A i \in 1 .. Len(q) - k + 1 : rest[i] = q[i + k - 1]
    BY <2>2
  <2>5. r = (front \o <<e>>) \o rest
    BY <1>2 DEF InsertBefore, InsertAt, k
  <2> HIDE DEF front, rest
  <2>6. <<e>> \in Seq(S) /\ Len(<<e>>) = 1 /\ <<e>>[1] = e
    OBVIOUS
  <2> DEFINE head == front \o <<e>>
  <2>7. /\ head \in Seq(S) /\ Len(head) = k
        /\ \A i \in 1 .. k : head[i] = IF i <= k - 1 THEN front[i] ELSE <<e>>[i - (k - 1)]
    BY <2>2, <2>3, <2>6, ConcatProperties
  <2> HIDE DEF head
  <2>8. /\ r \in Seq(S) /\ Len(r) = Len(q) + 1
        /\ \A i \in 1 .. Len(q) + 1 : r[i] = IF i <= k THEN head[i] ELSE rest[i - k]
    <3>1. r = head \o rest
      BY <2>5 DEF head
    <3>2. k + (Len(q) - k + 1) = Len(q) + 1
      BY <2>2
    <3>3. QED
      BY <2>4, <2>7, <3>1, <3>2, ConcatProperties, SMTT(30)
  <2>9. r[k] = e
    BY <2>2, <2>6, <2>7, <2>8
  <2>10. \A i \in 1 .. Len(q) : i < k => r[i] = q[i] /\ i \notin before
    BY <2>1, <2>2, <2>3, <2>7, <2>8, SMTT(30)
  <2>11. \A i \in 1 .. Len(q) : i >= k => r[i + 1] = q[i]
    BY <2>2, <2>4, <2>8
  <2>12. QED
    BY <2>1, <2>2, <2>8, <2>9, <2>10, <2>11
<1>3. QED
  BY <1>1, <1>2

(* An element that the list does not hold is put in front of those at the  *)
(* positions `before': the others keep their order.                        *)
LEMMA InsertOrder ==
    ASSUME NEW S, NEW q \in Seq(S), IsInjective(q), NEW e \in S, ~Contains(q, e),
           NEW before \in SUBSET (1 .. Len(q))
    PROVE  LET r == InsertBefore(q, before, e) IN
           /\ r \in Seq(S) /\ IsInjective(r)
           /\ \A x : Contains(r, x) <=> Contains(q, x) \/ x = e
           /\ \A x, y : x # e /\ y # e => (Before(r, x, y) <=> Before(q, x, y))
           /\ \A x : Before(r, x, e) =>
                 \E i \in DOMAIN q : q[i] = x /\ \A j \in 1 .. i : j \notin before
           /\ \A y : Before(r, e, y) =>
                 \E i \in DOMAIN q : q[i] = y /\ \E j \in 1 .. i : j \in before
<1> DEFINE r == InsertBefore(q, before, e)
<1>1. PICK k \in 1 .. Len(q) + 1 :
              /\ r \in Seq(S) /\ Len(r) = Len(q) + 1
              /\ r[k] = e
              /\ \A i \in 1 .. Len(q) : i < k => r[i] = q[i] /\ i \notin before
              /\ \A i \in 1 .. Len(q) : i >= k => r[i + 1] = q[i]
              /\ k = Len(q) + 1 \/ k \in before
  BY InsertPosition
<1> HIDE DEF r
<1>2. /\ DOMAIN q = 1 .. Len(q) /\ Len(q) \in Nat /\ k \in Nat
      /\ DOMAIN r = 1 .. Len(q) + 1
  BY <1>1
<1>3. /\ \A i, j \in DOMAIN q : q[i] = q[j] => i = j
      /\ \A i \in DOMAIN q : q[i] # e
  BY <1>2 DEF IsInjective, Contains
<1> DEFINE to(i) == IF i < k THEN i ELSE i + 1
           from(i) == IF i < k THEN i ELSE i - 1
<1>4. \A i \in DOMAIN q : to(i) \in DOMAIN r /\ to(i) # k /\ r[to(i)] = q[i]
  BY <1>1, <1>2
<1>5. \A i \in DOMAIN r : i # k => from(i) \in DOMAIN q /\ r[i] = q[from(i)] /\ to(from(i)) = i
  <2>1. ASSUME NEW i \in DOMAIN r, i < k
        PROVE  from(i) \in DOMAIN q /\ r[i] = q[from(i)] /\ to(from(i)) = i
    BY <1>1, <1>2, <2>1
  <2>2. ASSUME NEW i \in DOMAIN r, i > k
        PROVE  from(i) \in DOMAIN q /\ r[i] = q[from(i)] /\ to(from(i)) = i
    <3>1. i - 1 \in 1 .. Len(q) /\ i - 1 >= k /\ from(i) = i - 1 /\ (i - 1) + 1 = i
      BY <1>2, <2>2
    <3>2. r[i] = q[i - 1]
      BY <1>1, <3>1
    <3>3. QED
      BY <1>2, <3>1, <3>2
  <2>3. QED
    BY <1>2, <2>1, <2>2
<1>6. \A i, j \in DOMAIN q : i < j <=> to(i) < to(j)
  BY <1>2
<1>7. \A i, j \in DOMAIN r : i # k /\ j # k => (i < j <=> from(i) < from(j))
  BY <1>2
<1> HIDE DEF to, from
<1>8. IsInjective(r)
  <2>1. ASSUME NEW i \in DOMAIN r, NEW j \in DOMAIN r, r[i] = r[j]
        PROVE  i = j
    <3>1. CASE i = k \/ j = k
      BY <1>1, <1>3, <1>5, <2>1, <3>1
    <3>2. CASE i # k /\ j # k
      BY <1>3, <1>5, <2>1, <3>2
    <3>3. QED
      BY <3>1, <3>2
  <2>2. QED
    BY <2>1 DEF IsInjective
<1>9. /\ \A x : Contains(r, x) <=> \E i \in DOMAIN r : r[i] = x
      /\ \A x : Contains(q, x) <=> \E i \in DOMAIN q : q[i] = x
      /\ k \in DOMAIN r
  BY <1>1, <1>2 DEF Contains
<1>10. \A x : Contains(r, x) <=> Contains(q, x) \/ x = e
  <2>1. ASSUME NEW x, Contains(r, x)
        PROVE  Contains(q, x) \/ x = e
    BY <1>1, <1>5, <1>9, <2>1
  <2>2. ASSUME NEW x, Contains(q, x) \/ x = e
        PROVE  Contains(r, x)
    BY <1>1, <1>4, <1>9, <2>2
  <2>3. QED
    BY <2>1, <2>2
<1>11. ASSUME NEW x, NEW y, x # e, y # e
       PROVE  Before(r, x, y) <=> Before(q, x, y)
  <2>1. ASSUME Before(r, x, y)
        PROVE  Before(q, x, y)
    <3>1. PICK i, j \in DOMAIN r : i < j /\ r[i] = x /\ r[j] = y
      BY <2>1 DEF Before
    <3>2. i # k /\ j # k
      BY <1>1, <1>11, <3>1
    <3>3. /\ from(i) \in DOMAIN q /\ from(j) \in DOMAIN q /\ from(i) < from(j)
          /\ q[from(i)] = x /\ q[from(j)] = y
      BY <1>5, <1>7, <3>1, <3>2
    <3>4. QED
      BY <3>3 DEF Before
  <2>2. ASSUME Before(q, x, y)
        PROVE  Before(r, x, y)
    <3>1. PICK i, j \in DOMAIN q : i < j /\ q[i] = x /\ q[j] = y
      BY <2>2 DEF Before
    <3>2. /\ to(i) \in DOMAIN r /\ to(j) \in DOMAIN r /\ to(i) < to(j)
          /\ r[to(i)] = x /\ r[to(j)] = y
      BY <1>4, <1>6, <3>1
    <3>3. QED
      BY <3>2 DEF Before
  <2>3. QED
    BY <2>1, <2>2
<1>12. \A i \in DOMAIN r : r[i] = e => i = k
  BY <1>3, <1>5
<1>13. ASSUME NEW x, Before(r, x, e)
       PROVE  \E i \in DOMAIN q : q[i] = x /\ \A j \in 1 .. i : j \notin before
  <2>1. PICK i, j \in DOMAIN r : i < j /\ r[i] = x /\ r[j] = e
    BY <1>13 DEF Before
  <2>2. i < k /\ i \in 1 .. Len(q)
    BY <1>2, <1>12, <2>1
  <2>3. q[i] = x /\ \A l \in 1 .. i : l \notin before
    BY <1>1, <1>2, <2>1, <2>2
  <2>4. QED
    BY <1>2, <2>2, <2>3
<1>14. ASSUME NEW y, Before(r, e, y)
       PROVE  \E i \in DOMAIN q : q[i] = y /\ \E j \in 1 .. i : j \in before
  <2>1. PICK i, j \in DOMAIN r : i < j /\ r[i] = e /\ r[j] = y
    BY <1>14 DEF Before
  <2>2. i = k /\ k < j /\ j - 1 \in 1 .. Len(q) /\ j - 1 >= k /\ (j - 1) + 1 = j
    BY <1>2, <1>12, <2>1
  <2>3. q[j - 1] = y
    BY <1>1, <2>1, <2>2
  <2>4. k \in before /\ k \in 1 .. j - 1
    BY <1>1, <1>2, <2>2
  <2>5. QED
    BY <1>2, <2>2, <2>3, <2>4
<1>15. QED
  BY <1>1, <1>8, <1>10, <1>11, <1>13, <1>14 DEF r

(* The loop that leaves out the members of T, in an array whose elements   *)
(* may be repeated.                                                        *)
LEMMA LeaveOutElements ==
    ASSUME NEW S, NEW q \in Seq(S), NEW T
    PROVE  /\ LeaveOut(q, T) \in Seq(S) /\ LeaveOut(q, T) \in Seq(S \ T)
           /\ Len(LeaveOut(q, T)) <= Len(q)
           /\ \A x : Contains(LeaveOut(q, T), x) <=> Contains(q, x) /\ x \notin T
           /\ (\A i, j \in 1 .. Len(q) : q[i] = q[j] /\ q[i] \notin T => i = j)
                => IsInjective(LeaveOut(q, T))
<1> DEFINE keep == {i \in DOMAIN q : q[i] \notin T}
<1>1. keep \in SUBSET (1 .. Len(q)) /\ DOMAIN q = 1 .. Len(q) /\ Len(q) \in Nat
  OBVIOUS
<1> HIDE DEF keep
<1>2. PICK f \in [1 .. Cardinality(keep) -> keep] :
          /\ Cardinality(keep) \in Nat /\ Cardinality(keep) <= Len(q)
          /\ Sublist(q, keep) \in Seq(S) /\ Len(Sublist(q, keep)) = Cardinality(keep)
          /\ \A k \in 1 .. Cardinality(keep) : Sublist(q, keep)[k] = q[f[k]]
          /\ \A j, k \in 1 .. Cardinality(keep) : j < k => f[j] < f[k]
          /\ \A i \in keep : \E k \in 1 .. Cardinality(keep) : f[k] = i
  <2>1. keep \in SUBSET (1 .. Len(q))
    BY <1>1
  <2>2. QED
    BY <2>1, SublistProperties, SMTT(30)
<1>3. \A i : i \in keep <=> i \in 1 .. Len(q) /\ q[i] \notin T
  BY <1>1 DEF keep
<1>4. LeaveOut(q, T) = Sublist(q, keep)
  BY DEF LeaveOut, keep
<1> DEFINE r == LeaveOut(q, T)
           n == Cardinality(keep)
<1>5. /\ r \in Seq(S) /\ DOMAIN r = 1 .. n /\ Len(r) = n /\ n \in Nat /\ n <= Len(q)
      /\ \A k \in 1 .. n : r[k] = q[f[k]]
      /\ \A j, k \in 1 .. n : j < k => f[j] < f[k]
      /\ \A i \in keep : \E k \in 1 .. n : f[k] = i
      /\ \A k \in 1 .. n : f[k] \in keep
  BY <1>2, <1>4
<1> HIDE DEF r, n
<1>6. \A k \in 1 .. n : f[k] \in 1 .. Len(q) /\ f[k] \in Nat /\ q[f[k]] \notin T
  BY <1>1, <1>3, <1>5
<1>7. r \in Seq(S \ T)
  <2>1. \A k \in 1 .. n : r[k] \in S \ T
    BY <1>5, <1>6
  <2>2. QED
    BY <1>5, <2>1
<1>8. ASSUME NEW x
      PROVE  Contains(r, x) <=> Contains(q, x) /\ x \notin T
  <2>1. /\ Contains(r, x) <=> \E k \in 1 .. n : r[k] = x
        /\ Contains(q, x) <=> \E i \in 1 .. Len(q) : q[i] = x
    BY <1>5 DEF Contains
  <2>2. ASSUME Contains(r, x)
        PROVE  Contains(q, x) /\ x \notin T
    BY <1>5, <1>6, <2>1, <2>2
  <2>3. ASSUME Contains(q, x), x \notin T
        PROVE  Contains(r, x)
    BY <1>3, <1>5, <2>1, <2>3
  <2>4. QED
    BY <2>2, <2>3
<1>9. ASSUME \A i, j \in 1 .. Len(q) : q[i] = q[j] /\ q[i] \notin T => i = j
      PROVE  IsInjective(r)
  <2>1. ASSUME NEW j \in 1 .. n, NEW k \in 1 .. n, r[j] = r[k]
        PROVE  j = k
    <3>1. f[j] = f[k]
      BY <1>5, <1>6, <1>9, <2>1
    <3>2. ~(j < k) /\ ~(k < j)
      BY <1>5, <1>6, <3>1
    <3>3. QED
      BY <1>5, <3>2
  <2>2. QED
    BY <1>5, <2>1 DEF IsInjective
<1>10. QED
  BY <1>5, <1>7, <1>8, <1>9 DEF r

(* An array and another one behind it.                                     *)
LEMMA JoinedElements ==
    ASSUME NEW S, NEW p \in Seq(S), NEW q \in Seq(S)
    PROVE  /\ p \o q \in Seq(S) /\ Len(p \o q) = Len(p) + Len(q)
           /\ \A x : Contains(p \o q, x) <=> Contains(p, x) \/ Contains(q, x)
           /\ IsInjective(p) /\ IsInjective(q) /\ (\A x : ~(Contains(p, x) /\ Contains(q, x)))
                => IsInjective(p \o q)
<1> DEFINE r == p \o q
<1>1. /\ r \in Seq(S) /\ Len(r) = Len(p) + Len(q) /\ Len(p) \in Nat /\ Len(q) \in Nat
      /\ \A k \in 1 .. Len(p) : r[k] = p[k]
      /\ \A k \in 1 .. Len(q) : r[Len(p) + k] = q[k]
      /\ DOMAIN r = 1 .. Len(p) + Len(q) /\ DOMAIN p = 1 .. Len(p) /\ DOMAIN q = 1 .. Len(q)
  OBVIOUS
<1> HIDE DEF r
<1>2. \A k \in 1 .. Len(p) + Len(q) :
          \/ k \in 1 .. Len(p) /\ r[k] = p[k]
          \/ k - Len(p) \in 1 .. Len(q) /\ r[k] = q[k - Len(p)]
  <2>1. \A k \in 1 .. Len(p) + Len(q) : k \in 1 .. Len(p) \/ k - Len(p) \in 1 .. Len(q)
    BY <1>1
  <2>2. \A k \in 1 .. Len(p) + Len(q) : k - Len(p) \in 1 .. Len(q) => r[Len(p) + (k - Len(p))] = q[k - Len(p)]
    BY <1>1
  <2>3. \A k \in 1 .. Len(p) + Len(q) : Len(p) + (k - Len(p)) = k
    BY <1>1
  <2>4. QED
    BY <1>1, <2>1, <2>2, <2>3
<1>3. ASSUME NEW x
      PROVE  Contains(r, x) <=> Contains(p, x) \/ Contains(q, x)
  <2>1. /\ Contains(r, x) <=> \E k \in 1 .. Len(p) + Len(q) : r[k] = x
        /\ Contains(p, x) <=> \E k \in 1 .. Len(p) : p[k] = x
        /\ Contains(q, x) <=> \E k \in 1 .. Len(q) : q[k] = x
    BY <1>1 DEF Contains
  <2>2. \A k \in 1 .. Len(q) : Len(p) + k \in 1 .. Len(p) + Len(q)
    BY <1>1
  <2>3. \A k \in 1 .. Len(p) : k \in 1 .. Len(p) + Len(q)
    BY <1>1
  <2>4. ASSUME Contains(r, x)
        PROVE  Contains(p, x) \/ Contains(q, x)
    BY <1>2, <2>1, <2>4
  <2>5. ASSUME Contains(p, x) \/ Contains(q, x)
        PROVE  Contains(r, x)
    BY <1>1, <2>1, <2>2, <2>3, <2>5
  <2>6. QED
    BY <2>4, <2>5
<1>4. ASSUME IsInjective(p), IsInjective(q), \A x : ~(Contains(p, x) /\ Contains(q, x))
      PROVE  IsInjective(r)
  <2>1. /\ \A j, k \in 1 .. Len(p) : p[j] = p[k] => j = k
        /\ \A j, k \in 1 .. Len(q) : q[j] = q[k] => j = k
        /\ \A j \in 1 .. Len(p), k \in 1 .. Len(q) : p[j] # q[k]
    BY <1>1, <1>4 DEF IsInjective, Contains
  <2>2. ASSUME NEW j \in 1 .. Len(p) + Len(q), NEW k \in 1 .. Len(p) + Len(q), r[j] = r[k]
        PROVE  j = k
    <3>1. j \in Int /\ k \in Int
      BY <1>1
    <3>2. CASE j \in 1 .. Len(p) /\ r[j] = p[j] /\ k \in 1 .. Len(p) /\ r[k] = p[k]
      BY <2>1, <2>2, <3>2
    <3>3. CASE /\ j - Len(p) \in 1 .. Len(q) /\ r[j] = q[j - Len(p)]
               /\ k - Len(p) \in 1 .. Len(q) /\ r[k] = q[k - Len(p)]
      <4>1. j - Len(p) = k - Len(p)
        BY <2>1, <2>2, <3>3
      <4>2. QED
        BY <1>1, <3>1, <4>1
    <3>4. QED
      BY <1>2, <2>1, <2>2, <3>2, <3>3
  <2>3. QED
    BY <1>1, <2>2 DEF IsInjective
<1>5. QED
  BY <1>1, <1>3, <1>4 DEF r

LEMMA ReversedElements ==
    ASSUME NEW S, NEW q \in Seq(S)
    PROVE  /\ Reverse(q) \in Seq(S) /\ Len(Reverse(q)) = Len(q)
           /\ \A x : Contains(Reverse(q), x) <=> Contains(q, x)
           /\ IsInjective(q) => IsInjective(Reverse(q))
<1> DEFINE r == Reverse(q)
           at(k) == Len(q) - k + 1
<1>1. /\ Len(q) \in Nat /\ DOMAIN q = 1 .. Len(q)
      /\ r = [i \in 1 .. Len(q) |-> q[(Len(q) - i) + 1]]
  BY DEF Reverse
<1>2. \A k \in 1 .. Len(q) : at(k) \in 1 .. Len(q) /\ at(at(k)) = k
  BY <1>1
<1>3. \A j, k \in 1 .. Len(q) : at(j) = at(k) => j = k
  BY <1>1
<1>4. \A k \in 1 .. Len(q) : r[k] = q[at(k)] /\ q[at(k)] \in S
  BY <1>1, <1>2
<1>5. r \in Seq(S) /\ Len(r) = Len(q) /\ DOMAIN r = 1 .. Len(q)
  BY <1>1, <1>2
<1> HIDE DEF r, at
<1>6. \A x : Contains(r, x) <=> Contains(q, x)
  BY <1>2, <1>4, <1>5 DEF Contains
<1>7. IsInjective(q) => IsInjective(r)
  BY <1>1, <1>2, <1>3, <1>4, <1>5 DEF IsInjective
<1>8. QED
  BY <1>5, <1>6, <1>7 DEF r

(* What is left of an array behind its first n elements.                   *)
LEMMA RestElements ==
    ASSUME NEW S, NEW q \in Seq(S), NEW n \in Nat
    PROVE  LET r == SubSeq(q, n + 1, Len(q)) IN
           /\ r \in Seq(S)
           /\ \A k \in 1 .. Len(r) : n + k \in 1 .. Len(q) /\ r[k] = q[n + k]
           /\ \A k \in 1 .. Len(q) : k > n => k - n \in 1 .. Len(r)
           /\ \A x : Contains(r, x) <=> \E k \in 1 .. Len(q) : k > n /\ q[k] = x
           /\ IsInjective(q) => IsInjective(r)
<1> DEFINE r == SubSeq(q, n + 1, Len(q))
           m == IF n + 1 <= Len(q) THEN Len(q) - n ELSE 0
<1>1. Len(q) \in Nat /\ DOMAIN q = 1 .. Len(q)
  OBVIOUS
<1>2. r = [k \in 1 .. m |-> q[n + k]]
  <2>1. CASE n + 1 <= Len(q)
    <3>1. r = [k \in 1 .. Len(q) - n |-> q[n + k]]
      BY <1>1, <2>1
    <3>2. QED
      BY <3>1, <2>1
  <2>2. CASE ~(n + 1 <= Len(q))
    <3>1. r = <<>>
      BY <1>1, <2>2
    <3>2. m = 0 /\ 1 .. m = {}
      BY <2>2
    <3>3. QED
      BY <3>1, <3>2
  <2>3. QED
    BY <2>1, <2>2
<1>3. m \in Nat /\ \A k \in 1 .. m : n + k \in 1 .. Len(q)
  BY <1>1
<1>4. \A k \in 1 .. Len(q) : k > n => k - n \in 1 .. m /\ n + (k - n) = k
  BY <1>1
<1> HIDE DEF r, m
<1>5. \A k \in 1 .. m : q[n + k] \in S
  BY <1>1, <1>3
<1>6. r \in Seq(S) /\ Len(r) = m /\ DOMAIN r = 1 .. m /\ \A k \in 1 .. m : r[k] = q[n + k]
  BY <1>2, <1>3, <1>5
<1>7. ASSUME NEW x
      PROVE  Contains(r, x) <=> \E k \in 1 .. Len(q) : k > n /\ q[k] = x
  <2>1. Contains(r, x) <=> \E k \in 1 .. m : q[n + k] = x
    BY <1>6 DEF Contains
  <2>2. \A k \in 1 .. m : n + k \in 1 .. Len(q) /\ n + k > n
    BY <1>3
  <2>3. QED
    BY <1>4, <2>1, <2>2
<1>8. ASSUME IsInjective(q)
      PROVE  IsInjective(r)
  <2>1. ASSUME NEW j \in 1 .. m, NEW k \in 1 .. m, r[j] = r[k]
        PROVE  j = k
    <3>1. n + j = n + k
      BY <1>1, <1>3, <1>6, <1>8, <2>1 DEF IsInjective
    <3>2. QED
      BY <1>3, <3>1
  <2>2. QED
    BY <1>6, <2>1 DEF IsInjective
<1>9. QED
  BY <1>3, <1>4, <1>6, <1>7, <1>8 DEF r

(* An array that has nothing twice has no more elements than there are.    *)
LEMMA InjectiveIsShort ==
    ASSUME NEW S, IsFiniteSet(S), NEW q \in Seq(S), IsInjective(q)
    PROVE  Len(q) <= Cardinality(S)
<1>1. Len(q) \in Nat /\ q \in [1 .. Len(q) -> S]
  OBVIOUS
<1>2. q \in Injection(1 .. Len(q), S)
  BY <1>1 DEF Injection
<1>3. Cardinality(1 .. Len(q)) = Len(q)
  BY <1>1, FS_Interval
<1>4. QED
  BY <1>2, <1>3, FS_Injection

(* f counts the numbers of K upwards.                                      *)
Upwards(f, m, K) ==
    /\ m \in Nat /\ f \in [1 .. m -> K]
    /\ \A j, k \in 1 .. m : j < k => f[j] < f[k]
    /\ \A i \in K : \E k \in 1 .. m : f[k] = i

(* There is one way to count the numbers of K upwards.                     *)
LEMMA OneCount ==
    ASSUME NEW K \in SUBSET Nat, NEW m, NEW n, NEW f, NEW g,
           Upwards(f, m, K), Upwards(g, n, K)
    PROVE  m = n /\ \A k \in 1 .. n : f[k] = g[k]
<1>1. /\ m \in Nat /\ f \in [1 .. m -> K]
      /\ \A j, k \in 1 .. m : j < k => f[j] < f[k]
      /\ \A i \in K : \E k \in 1 .. m : f[k] = i
  BY DEF Upwards
<1>2. /\ n \in Nat /\ g \in [1 .. n -> K]
      /\ \A j, k \in 1 .. n : j < k => g[j] < g[k]
      /\ \A i \in K : \E k \in 1 .. n : g[k] = i
  BY DEF Upwards
<1> DEFINE Differ == {k \in Nat : /\ k \in (1 .. m) \cup (1 .. n)
                                  /\ ~(k \in 1 .. m /\ k \in 1 .. n /\ f[k] = g[k])}
<1>3. (\A k \in 1 .. m : f[k] \in Nat /\ f[k] \in K) /\ (\A k \in 1 .. n : g[k] \in Nat /\ g[k] \in K)
  BY <1>1, <1>2
<1>4. ASSUME Differ # {}
      PROVE  FALSE
  <2>1. PICK k \in Differ : \A y \in Differ : k <= y
    BY <1>1, <1>2, <1>4, LeastNumber
  <2>2. k \in Nat /\ \A j \in 1 .. k - 1 : j \in 1 .. m /\ j \in 1 .. n /\ f[j] = g[j]
    <3>1. ASSUME NEW j \in 1 .. k - 1
          PROVE  j \in 1 .. m /\ j \in 1 .. n /\ f[j] = g[j]
      <4>1. k \in Nat /\ j \in Nat /\ j < k /\ j \in (1 .. m) \cup (1 .. n)
        BY <1>1, <1>2, <2>1
      <4>2. j \notin Differ
        BY <1>1, <1>2, <2>1, <4>1
      <4>3. QED
        BY <1>1, <1>2, <4>1, <4>2
    <3>2. QED
      BY <1>1, <1>2, <2>1, <3>1
  <2>3. ASSUME k \in 1 .. m
        PROVE  k \in 1 .. n /\ g[k] <= f[k]
    <3>1. PICK j \in 1 .. n : g[j] = f[k]
      BY <1>1, <1>2, <2>3
    <3>2. ~(j < k)
      BY <1>1, <1>2, <1>3, <2>2, <2>3, <3>1
    <3>3. k \in 1 .. n /\ (j = k \/ k < j)
      BY <1>1, <1>2, <2>2, <2>3, <3>1, <3>2
    <3>4. CASE j = k
      BY <1>1, <1>2, <1>3, <2>2, <3>1, <3>3, <3>4
    <3>5. CASE k < j
      BY <1>1, <1>2, <1>3, <2>2, <3>1, <3>3, <3>5
    <3>6. QED
      BY <1>1, <1>2, <3>3, <3>4, <3>5
  <2>4. ASSUME k \in 1 .. n
        PROVE  k \in 1 .. m /\ f[k] <= g[k]
    <3>1. PICK j \in 1 .. m : f[j] = g[k]
      BY <1>1, <1>2, <2>4
    <3>2. ~(j < k)
      BY <1>1, <1>2, <1>3, <2>2, <2>4, <3>1
    <3>3. k \in 1 .. m /\ (j = k \/ k < j)
      BY <1>1, <1>2, <2>2, <2>4, <3>1, <3>2
    <3>4. CASE j = k
      BY <1>1, <1>2, <1>3, <2>2, <3>1, <3>3, <3>4
    <3>5. CASE k < j
      BY <1>1, <1>2, <1>3, <2>2, <3>1, <3>3, <3>5
    <3>6. QED
      BY <1>1, <1>2, <3>3, <3>4, <3>5
  <2>5. k \in 1 .. m /\ k \in 1 .. n
    BY <1>1, <1>2, <2>1, <2>3, <2>4
  <2>6. f[k] \in Nat /\ g[k] \in Nat
    BY <1>1, <1>2, <1>3, <2>5
  <2>7. f[k] = g[k]
    BY <1>1, <1>2, <2>3, <2>4, <2>5, <2>6
  <2>8. QED
    BY <1>1, <1>2, <2>1, <2>5, <2>7
<1>5. \A k \in (1 .. m) \cup (1 .. n) : k \in 1 .. m /\ k \in 1 .. n /\ f[k] = g[k]
  BY <1>1, <1>2, <1>4
<1>6. m = n
  <2>1. CASE m < n
    BY <1>1, <1>2, <1>5, <2>1
  <2>2. CASE n < m
    BY <1>1, <1>2, <1>5, <2>2
  <2>3. QED
    BY <1>1, <1>2, <2>1, <2>2
<1>7. QED
  BY <1>1, <1>2, <1>5, <1>6

(* f are the positions of the elements of r, which are those of q at keep. *)
Along(f, q, keep, r) ==
    Upwards(f, Len(r), keep) /\ \A k \in 1 .. Len(r) : r[k] = q[f[k]]

(* The elements of a sublist lie along the list.                           *)
LEMMA SublistAlong ==
    ASSUME NEW S, NEW q \in Seq(S), NEW keep \in SUBSET (1 .. Len(q))
    PROVE  /\ Sublist(q, keep) \in Seq(S)
           /\ \E f : Along(f, q, keep, Sublist(q, keep))
<1>1. PICK f \in [1 .. Cardinality(keep) -> keep] :
              /\ Cardinality(keep) \in Nat /\ Cardinality(keep) <= Len(q)
              /\ Sublist(q, keep) \in Seq(S) /\ Len(Sublist(q, keep)) = Cardinality(keep)
              /\ \A k \in 1 .. Cardinality(keep) : Sublist(q, keep)[k] = q[f[k]]
              /\ \A j, k \in 1 .. Cardinality(keep) : j < k => f[j] < f[k]
              /\ \A i \in keep : \E k \in 1 .. Cardinality(keep) : f[k] = i
  BY SublistProperties
<1>2. Along(f, q, keep, Sublist(q, keep))
  BY <1>1 DEF Along, Upwards
<1>3. QED
  BY <1>1, <1>2

(* A sublist is known by its elements and their order.                     *)
LEMMA IsSublist ==
    ASSUME NEW S, NEW q \in Seq(S), NEW keep \in SUBSET (1 .. Len(q)), NEW R, NEW r \in Seq(R),
           NEW g, Along(g, q, keep, r)
    PROVE  r = Sublist(q, keep)
<1> DEFINE s == Sublist(q, keep)
<1>1. s \in Seq(S) /\ \E f : Along(f, q, keep, s)
  BY SublistAlong
<1> HIDE DEF s
<1>2. PICK f : Along(f, q, keep, s)
  BY <1>1
<1>3. keep \in SUBSET Nat /\ Upwards(f, Len(s), keep) /\ Upwards(g, Len(r), keep)
  BY <1>2 DEF Along
<1>4. Len(s) = Len(r) /\ \A k \in 1 .. Len(r) : f[k] = g[k]
  BY <1>3, OneCount
<1>5. \A k \in 1 .. Len(r) : s[k] = r[k]
  BY <1>2, <1>4 DEF Along
<1>6. r = [k \in 1 .. Len(r) |-> r[k]] /\ s = [k \in 1 .. Len(s) |-> s[k]]
  BY <1>1
<1>7. QED
  BY <1>4, <1>5, <1>6 DEF s

(* f are the positions of the members of T in q, which are r.              *)
Picks(f, q, T, r) == Along(f, q, {i \in 1 .. Len(q) : q[i] \in T}, r)

(* Only picks the members of T.                                            *)
LEMMA OnlyPicks ==
    ASSUME NEW S, NEW q \in Seq(S), NEW T
    PROVE  /\ Only(q, T) \in Seq(S)
           /\ \E f : Picks(f, q, T, Only(q, T))
<1> DEFINE keep == {i \in 1 .. Len(q) : q[i] \in T}
<1>1. DOMAIN q = 1 .. Len(q) /\ keep \in SUBSET (1 .. Len(q))
  OBVIOUS
<1>2. Only(q, T) = Sublist(q, keep)
  BY <1>1 DEF Only
<1> HIDE DEF keep
<1>3. Sublist(q, keep) \in Seq(S) /\ \E f : Along(f, q, keep, Sublist(q, keep))
  BY <1>1, SublistAlong
<1>4. QED
  BY <1>2, <1>3 DEF Picks, keep

(* What Only keeps is known by its elements and their order.               *)
LEMMA IsOnly ==
    ASSUME NEW S, NEW q \in Seq(S), NEW T, NEW R, NEW r \in Seq(R), NEW g, Picks(g, q, T, r)
    PROVE  r = Only(q, T)
<1> DEFINE keep == {i \in 1 .. Len(q) : q[i] \in T}
<1>1. DOMAIN q = 1 .. Len(q) /\ keep \in SUBSET (1 .. Len(q))
  OBVIOUS
<1>2. Only(q, T) = Sublist(q, keep)
  BY <1>1 DEF Only
<1>3. Along(g, q, keep, r)
  BY DEF Picks
<1> HIDE DEF keep
<1>4. QED
  BY <1>1, <1>2, <1>3, IsSublist

(* What Picks says.                                                        *)
LEMMA Picked ==
    ASSUME NEW S, NEW q \in Seq(S), NEW T, NEW R, NEW r \in Seq(R), NEW f
    PROVE  Picks(f, q, T, r) <=>
              /\ f \in [1 .. Len(r) -> 1 .. Len(q)]
              /\ \A k \in 1 .. Len(r) : r[k] = q[f[k]] /\ q[f[k]] \in T
              /\ \A j, k \in 1 .. Len(r) : j < k => f[j] < f[k]
              /\ \A i \in 1 .. Len(q) : q[i] \in T => \E k \in 1 .. Len(r) : f[k] = i
<1>1. Len(r) \in Nat
  OBVIOUS
<1>2. QED
  BY <1>1 DEF Picks, Along, Upwards

(* Only goes through two lists one after the other.                        *)
LEMMA OnlyOfJoined ==
    ASSUME NEW S, NEW p \in Seq(S), NEW q \in Seq(S), NEW T
    PROVE  Only(p \o q, T) = Only(p, T) \o Only(q, T)
<1> DEFINE u == Only(p, T)
           v == Only(q, T)
           m == Len(u)
           n == Len(v)
<1>1. u \in Seq(S) /\ \E f : Picks(f, p, T, u)
  BY OnlyPicks
<1>2. v \in Seq(S) /\ \E g : Picks(g, q, T, v)
  BY OnlyPicks
<1> HIDE DEF u, v
<1>3. PICK f : Picks(f, p, T, u)
  BY <1>1
<1>4. PICK g : Picks(g, q, T, v)
  BY <1>2
<1>5. /\ u \in Seq(S) /\ m \in Nat
      /\ f \in [1 .. m -> 1 .. Len(p)]
      /\ \A k \in 1 .. m : u[k] = p[f[k]] /\ p[f[k]] \in T
      /\ \A j, k \in 1 .. m : j < k => f[j] < f[k]
      /\ \A i \in 1 .. Len(p) : p[i] \in T => \E k \in 1 .. m : f[k] = i
  BY <1>1, <1>3 DEF Picks, Along, Upwards
<1>6. /\ v \in Seq(S) /\ n \in Nat
      /\ g \in [1 .. n -> 1 .. Len(q)]
      /\ \A k \in 1 .. n : v[k] = q[g[k]] /\ q[g[k]] \in T
      /\ \A j, k \in 1 .. n : j < k => g[j] < g[k]
      /\ \A i \in 1 .. Len(q) : q[i] \in T => \E k \in 1 .. n : g[k] = i
  BY <1>2, <1>4 DEF Picks, Along, Upwards
<1> DEFINE r == u \o v
           s == p \o q
           h == [k \in 1 .. m + n |-> IF k <= m THEN f[k] ELSE Len(p) + g[k - m]]
<1>7. /\ r \in Seq(S) /\ s \in Seq(S) /\ Len(r) = m + n /\ Len(s) = Len(p) + Len(q)
      /\ \A k \in 1 .. m : r[k] = u[k]
      /\ \A k \in 1 .. n : r[m + k] = v[k]
      /\ \A k \in 1 .. Len(p) : s[k] = p[k]
      /\ \A k \in 1 .. Len(q) : s[Len(p) + k] = q[k]
  BY <1>5, <1>6
<1>8. Len(p) \in Nat /\ Len(q) \in Nat
  OBVIOUS
<1> HIDE DEF r, s
<1>9. \A k \in 1 .. m + n : (k \in 1 .. m /\ h[k] = f[k])
                             \/ (k - m \in 1 .. n /\ h[k] = Len(p) + g[k - m])
  OBVIOUS
<1>10. h \in [1 .. m + n -> 1 .. Len(s)]
  <2>1. ASSUME NEW k \in 1 .. m + n
        PROVE  h[k] \in 1 .. Len(s)
    <3> HIDE DEF h, m, n
    <3>1. CASE k \in 1 .. m /\ h[k] = f[k]
      BY <1>5, <1>7, <1>8, <3>1
    <3>2. CASE k - m \in 1 .. n /\ h[k] = Len(p) + g[k - m]
      <4>1. g[k - m] \in 1 .. Len(q)
        BY <1>5, <1>6, <3>2
      <4>2. QED
        BY <1>7, <1>8, <3>2, <4>1
    <3>3. QED
      BY <1>9, <3>1, <3>2
  <2>2. QED
    BY <2>1
<1> HIDE DEF h
<1>11. ASSUME NEW j \in 1 .. m + n, NEW k \in 1 .. m + n, j < k
      PROVE  h[j] < h[k]
  <2>1. CASE k \in 1 .. m /\ h[k] = f[k]
    <3>1. j \in 1 .. m /\ h[j] = f[j]
      BY <1>9, <1>11, <2>1
    <3>2. QED
      BY <1>5, <1>11, <2>1, <3>1
  <2>2. CASE k - m \in 1 .. n /\ h[k] = Len(p) + g[k - m]
    <3>1. g[k - m] \in 1 .. Len(q)
      BY <1>6, <2>2
    <3>2. CASE j \in 1 .. m /\ h[j] = f[j]
      <4>1. f[j] \in 1 .. Len(p)
        BY <1>5, <1>6, <3>2
      <4>2. QED
        BY <1>8, <2>2, <3>1, <3>2, <4>1
    <3>3. CASE j - m \in 1 .. n /\ h[j] = Len(p) + g[j - m]
      <4>1. g[j - m] \in 1 .. Len(q) /\ g[j - m] < g[k - m]
        <5>1. j - m < k - m
          BY <1>11
        <5>2. QED
          BY <1>6, <2>2, <3>3, <5>1
      <4>2. QED
        BY <1>8, <2>2, <3>1, <3>3, <4>1
    <3>4. QED
      BY <1>9, <3>2, <3>3
  <2>3. QED
    BY <1>9, <2>1, <2>2
<1>12. ASSUME NEW i \in 1 .. Len(s), s[i] \in T
      PROVE  \E k \in 1 .. m + n : h[k] = i
  <2>1. CASE i \in 1 .. Len(p)
    <3>1. PICK k \in 1 .. m : f[k] = i
      BY <1>5, <1>7, <1>12, <2>1
    <3>2. k \in 1 .. m + n /\ ~(k - m \in 1 .. n)
      OBVIOUS
    <3>3. QED
      BY <1>9, <3>1, <3>2
  <2>2. CASE i - Len(p) \in 1 .. Len(q)
    <3>1. s[Len(p) + (i - Len(p))] = q[i - Len(p)] /\ Len(p) + (i - Len(p)) = i
      BY <1>7, <1>8, <2>2
    <3>2. PICK k \in 1 .. n : g[k] = i - Len(p)
      BY <1>6, <1>12, <2>2, <3>1
    <3>3. m + k \in 1 .. m + n /\ ~(m + k \in 1 .. m) /\ (m + k) - m = k
      OBVIOUS
    <3>4. h[m + k] = Len(p) + g[k]
      BY <1>9, <3>3
    <3>5. QED
      BY <1>8, <3>2, <3>3, <3>4
  <2>3. i \in 1 .. Len(p) \/ i - Len(p) \in 1 .. Len(q)
    BY <1>7, <1>8
  <2>4. QED
    BY <2>1, <2>2, <2>3
<1>13. ASSUME NEW k \in 1 .. m + n
      PROVE  r[k] = s[h[k]] /\ s[h[k]] \in T
  <2>1. CASE k \in 1 .. m /\ h[k] = f[k]
    BY <1>5, <1>7, <2>1
  <2>2. CASE k - m \in 1 .. n /\ h[k] = Len(p) + g[k - m]
    <3>1. m + (k - m) = k /\ g[k - m] \in 1 .. Len(q)
      BY <1>6, <2>2
    <3>2. r[k] = v[k - m] /\ s[h[k]] = q[g[k - m]]
      BY <1>7, <2>2, <3>1
    <3>3. QED
      BY <1>6, <2>2, <3>2
  <2>3. QED
    BY <1>9, <2>1, <2>2
<1>14. Picks(h, s, T, r)
  BY <1>5, <1>6, <1>7, <1>10, <1>11, <1>12, <1>13 DEF Picks, Along, Upwards
<1>15. r = Only(s, T)
  BY <1>7, <1>14, IsOnly
<1>16. QED
  BY <1>15 DEF r, s, u, v

(* A list of one element is kept or not.                                   *)
LEMMA OnlyOfOne ==
    ASSUME NEW S, NEW x \in S, NEW T
    PROVE  Only(<<x>>, T) = IF x \in T THEN <<x>> ELSE <<>>
<1> DEFINE q == <<x>>
           r == IF x \in T THEN q ELSE <<>>
           g == [k \in 1 .. Len(r) |-> k]
<1>1. q \in Seq(S) /\ Len(q) = 1 /\ q[1] = x /\ r \in Seq(S)
  OBVIOUS
<1>2. Len(r) = IF x \in T THEN 1 ELSE 0
  OBVIOUS
<1>3. /\ g \in [1 .. Len(r) -> 1 .. Len(q)]
      /\ \A j, k \in 1 .. Len(r) : j < k => g[j] < g[k]
  BY <1>1, <1>2
<1>4. \A i \in 1 .. Len(q) : q[i] \in T => \E k \in 1 .. Len(r) : g[k] = i
  BY <1>1, <1>2
<1>5. \A k \in 1 .. Len(r) : r[k] = q[g[k]] /\ q[g[k]] \in T
  BY <1>1, <1>2
<1> HIDE DEF q, r, g
<1>6. Picks(g, q, T, r)
  BY <1>1, <1>3, <1>4, <1>5, Picked
<1>7. r = Only(q, T)
  BY <1>1, <1>6, IsOnly
<1>8. QED
  BY <1>7 DEF q, r

(* Of a list without members of T nothing is kept.                         *)
LEMMA OnlyOfNone ==
    ASSUME NEW S, NEW q \in Seq(S), NEW T, \A i \in 1 .. Len(q) : q[i] \notin T
    PROVE  Only(q, T) = <<>>
<1> DEFINE r == Only(q, T)
<1>1. r \in Seq(S) /\ \E x : Picks(x, q, T, r)
  BY OnlyPicks
<1> HIDE DEF r
<1>2. PICK f : /\ f \in [1 .. Len(r) -> 1 .. Len(q)]
               /\ \A k \in 1 .. Len(r) : q[f[k]] \in T
  BY <1>1, Picked
<1>3. ~(1 \in 1 .. Len(r))
  BY <1>2
<1>4. r = <<>>
  BY <1>1, <1>3
<1>5. QED
  BY <1>4 DEF r

(* Two lists of which Only keeps the same positions.                       *)
LEMMA OnlyOfBoth ==
    ASSUME NEW S, NEW p \in Seq(S), NEW T, NEW R, NEW q \in Seq(R), NEW U, Len(p) = Len(q),
           \A i \in 1 .. Len(p) : p[i] \in T <=> q[i] \in U
    PROVE  /\ Only(p, T) \in Seq(S) /\ Only(q, U) \in Seq(R) /\ Len(Only(p, T)) = Len(Only(q, U))
           /\ \A k \in 1 .. Len(Only(p, T)) :
                 \E i \in 1 .. Len(p) : Only(p, T)[k] = p[i] /\ Only(q, U)[k] = q[i] /\ p[i] \in T
<1> DEFINE u == Only(p, T)
           v == Only(q, U)
           keep == {i \in 1 .. Len(p) : p[i] \in T}
<1>1. u \in Seq(S) /\ \E f : Picks(f, p, T, u)
  BY OnlyPicks
<1>2. v \in Seq(R) /\ \E g : Picks(g, q, U, v)
  BY OnlyPicks
<1>3. keep = {i \in 1 .. Len(q) : q[i] \in U} /\ keep \in SUBSET Nat
  OBVIOUS
<1> HIDE DEF u, v
<1>4. PICK f : Along(f, p, keep, u)
  BY <1>1 DEF Picks
<1>5. PICK g : Along(g, q, keep, v)
  BY <1>2, <1>3 DEF Picks
<1>6. \A i \in keep : i \in 1 .. Len(p) /\ p[i] \in T
  OBVIOUS
<1> HIDE DEF keep
<1>7. Len(u) = Len(v) /\ \A k \in 1 .. Len(v) : f[k] = g[k]
  BY <1>3, <1>4, <1>5, OneCount DEF Along
<1>8. \A k \in 1 .. Len(u) : f[k] \in 1 .. Len(p) /\ u[k] = p[f[k]] /\ v[k] = q[f[k]] /\ p[f[k]] \in T
  BY <1>4, <1>5, <1>6, <1>7 DEF Along, Upwards
<1>9. QED
  BY <1>1, <1>2, <1>7, <1>8 DEF u, v

(* What has been left out first makes no difference to Only.               *)
LEMMA OnlyOfRest ==
    ASSUME NEW S, NEW q \in Seq(S), NEW A, NEW T, A \cap T = {}
    PROVE  LeaveOut(q, A) \in Seq(S) /\ Only(LeaveOut(q, A), T) = Only(q, T)
<1> DEFINE p == LeaveOut(q, A)
           keep == {i \in 1 .. Len(q) : q[i] \notin A}
           r == Only(p, T)
<1>1. DOMAIN q = 1 .. Len(q) /\ keep \in SUBSET (1 .. Len(q))
  OBVIOUS
<1>2. p = Sublist(q, keep)
  BY <1>1 DEF LeaveOut
<1>3. \A i \in 1 .. Len(q) : q[i] \notin A <=> i \in keep
  OBVIOUS
<1> HIDE DEF keep
<1>4. p \in Seq(S) /\ \E f : Along(f, q, keep, p)
  BY <1>1, <1>2, SublistAlong
<1> HIDE DEF p
<1>5. PICK f : Along(f, q, keep, p)
  BY <1>4
<1>6. r \in Seq(S) /\ \E g : Picks(g, p, T, r)
  BY <1>4, OnlyPicks
<1> HIDE DEF r
<1>7. PICK g : Picks(g, p, T, r)
  BY <1>6
<1>8. /\ f \in [1 .. Len(p) -> keep] /\ Len(p) \in Nat
      /\ \A j, k \in 1 .. Len(p) : j < k => f[j] < f[k]
      /\ \A i \in keep : \E k \in 1 .. Len(p) : f[k] = i
      /\ \A k \in 1 .. Len(p) : p[k] = q[f[k]]
  BY <1>5 DEF Along, Upwards
<1>9. /\ g \in [1 .. Len(r) -> 1 .. Len(p)] /\ Len(r) \in Nat
      /\ \A j, k \in 1 .. Len(r) : j < k => g[j] < g[k]
      /\ \A i \in 1 .. Len(p) : p[i] \in T => \E k \in 1 .. Len(r) : g[k] = i
      /\ \A k \in 1 .. Len(r) : r[k] = p[g[k]] /\ p[g[k]] \in T
  BY <1>6, <1>7 DEF Picks, Along, Upwards
<1> DEFINE h == [k \in 1 .. Len(r) |-> f[g[k]]]
<1>10. \A k \in 1 .. Len(r) : g[k] \in 1 .. Len(p) /\ h[k] = f[g[k]] /\ h[k] \in 1 .. Len(q)
  BY <1>1, <1>8, <1>9
<1>11. h \in [1 .. Len(r) -> 1 .. Len(q)]
  BY <1>10
<1> HIDE DEF h
<1>12. \A j, k \in 1 .. Len(r) : j < k => h[j] < h[k]
  BY <1>8, <1>9, <1>10
<1>13. ASSUME NEW k \in 1 .. Len(r)
       PROVE  r[k] = q[h[k]] /\ q[h[k]] \in T
  <2>1. g[k] \in 1 .. Len(p) /\ h[k] = f[g[k]]
    BY <1>10
  <2>2. r[k] = p[g[k]] /\ p[g[k]] \in T
    BY <1>9
  <2>3. p[g[k]] = q[f[g[k]]]
    BY <1>8, <2>1
  <2>4. QED
    BY <2>1, <2>2, <2>3
<1>14. ASSUME NEW i \in 1 .. Len(q), q[i] \in T
       PROVE  \E k \in 1 .. Len(r) : h[k] = i
  <2>1. i \in keep
    BY <1>3, <1>14
  <2>2. PICK j \in 1 .. Len(p) : f[j] = i
    BY <1>8, <2>1
  <2>3. p[j] \in T
    BY <1>8, <1>14, <2>2
  <2>4. PICK k \in 1 .. Len(r) : g[k] = j
    BY <1>9, <2>3
  <2>5. QED
    BY <1>10, <2>2, <2>4
<1>15. Picks(h, q, T, r)
  BY <1>9, <1>11, <1>12, <1>13, <1>14 DEF Picks, Along, Upwards
<1>16. r = Only(q, T)
  BY <1>6, <1>15, IsOnly
<1>17. QED
  BY <1>4, <1>16 DEF p, r
=============================================================================
