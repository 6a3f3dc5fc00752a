--------------------------- MODULE SequenceLemmas ----------------------------
(***************************************************************************)
(* Lemmas about lists that several proofs need: a set of places has a      *)
(* first one, how many places of a list hold an element of a set, and what *)
(* holds for every list because it holds for longer and longer ones.       *)
(***************************************************************************)
EXTENDS Integers, Sequences, FiniteSets, FiniteSetTheorems, WellFoundedInduction, TLAPS

Places(q, T) == {i \in 1 .. Len(q) : q[i] \in T}
Count(q, T) == Cardinality(Places(q, T))

\* The places of a list are finitely many.
LEMMA CountIs ==
    ASSUME NEW S, NEW q \in Seq(S), NEW T
    PROVE  /\ IsFiniteSet(Places(q, T))
           /\ Count(q, T) \in 0 .. Len(q)
<1>1. Len(q) \in Nat
  OBVIOUS
<1>2. IsFiniteSet(1 .. Len(q)) /\ Cardinality(1 .. Len(q)) = Len(q)
  BY SMTT(30), <1>1, FS_Interval
<1>3. Places(q, T) \in SUBSET (1 .. Len(q))
  BY DEF Places
<1>4. IsFiniteSet(Places(q, T)) /\ Cardinality(Places(q, T)) <= Len(q)
  BY <1>2, <1>3, FS_Subset
<1> QED
  BY <1>1, <1>4, FS_CardinalityType DEF Count

\* More is counted in a larger set.
LEMMA CountSubset ==
    ASSUME NEW S, NEW q \in Seq(S), NEW T, NEW R, T \subseteq R
    PROVE  Count(q, T) <= Count(q, R)
<1>1. Places(q, T) \in SUBSET Places(q, R)
  BY DEF Places
<1> QED
  BY <1>1, CountIs, FS_Subset DEF Count

\* An element put in at place k counts as one more, or not at all.
LEMMA CountInsert ==
    ASSUME NEW S, NEW q \in Seq(S), NEW r \in Seq(S), NEW T, NEW k \in 1 .. Len(q) + 1,
           Len(r) = Len(q) + 1,
           \A i \in 1 .. Len(q) + 1 : i < k => r[i] = q[i],
           \A i \in 1 .. Len(q) + 1 : i > k => r[i] = q[i - 1]
    PROVE  Count(r, T) = Count(q, T) + (IF r[k] \in T THEN 1 ELSE 0)
<1> DEFINE P == Places(q, T)
           R == Places(r, T) \ {k}
           f == [i \in P |-> IF i < k THEN i ELSE i + 1]
<1>1. Len(q) \in Nat /\ Len(r) \in Nat /\ k \in Nat \ {0}
  OBVIOUS
<1>2. IsFiniteSet(P) /\ IsFiniteSet(Places(r, T)) /\ Count(q, T) \in Nat
  <2>1. IsFiniteSet(P) /\ Count(q, T) \in 0 .. Len(q)
    BY CountIs
  <2>2. IsFiniteSet(Places(r, T))
    BY CountIs
  <2> QED
    BY <1>1, <2>1, <2>2
<1>3. ASSUME NEW i \in P
      PROVE  i \in Nat /\ i < k => i \in R
  <2>1. i \in 1 .. Len(q) /\ q[i] \in T
    BY DEF Places
  <2> QED
    BY <1>1, <2>1 DEF Places
<1>4. ASSUME NEW i \in P, i >= k
      PROVE  i + 1 \in R
  <2>1. i \in 1 .. Len(q) /\ q[i] \in T
    BY DEF Places
  <2>2. i + 1 \in 1 .. Len(r) /\ i + 1 > k /\ (i + 1) - 1 = i
    BY <1>1, <1>4, <2>1
  <2>3. r[i + 1] = q[(i + 1) - 1]
    BY <2>2
  <2> QED
    BY <2>1, <2>2, <2>3 DEF Places
<1>5. ASSUME NEW i \in R
      PROVE  IF i < k THEN i \in P ELSE i - 1 \in P /\ i - 1 >= k /\ (i - 1) + 1 = i
  <2>1. i \in 1 .. Len(r) /\ r[i] \in T /\ i # k
    BY DEF Places
  <2>2. CASE i < k
    <3>1. i \in 1 .. Len(q) /\ r[i] = q[i]
      BY <1>1, <2>1, <2>2
    <3> QED
      BY <2>1, <2>2, <3>1 DEF Places
  <2>3. CASE i > k
    <3>1. i - 1 \in 1 .. Len(q) /\ r[i] = q[i - 1] /\ i - 1 >= k /\ (i - 1) + 1 = i /\ ~ (i < k)
      BY <1>1, <2>1, <2>3
    <3> QED
      BY <2>1, <2>3, <3>1 DEF Places
  <2> QED
    BY <1>1, <2>1, <2>2, <2>3
<1>6. P \subseteq Nat /\ R \subseteq Nat
  BY DEF Places
<1> HIDE DEF P, R
<1>7. f \in [P -> R] /\ \A i \in P : f[i] = IF i < k THEN i ELSE i + 1
  <2>1. \A i \in P : (IF i < k THEN i ELSE i + 1) \in R
    BY <1>1, <1>3, <1>4, <1>6
  <2> QED
    BY <2>1
<1> HIDE DEF f
<1>8. \A i, j \in P : f[i] = f[j] => i = j
  BY <1>1, <1>6, <1>7
<1>9. \A i \in R : \E j \in P : f[j] = i
  <2>1. ASSUME NEW i \in R PROVE \E j \in P : f[j] = i
    <3>1. CASE i < k
      BY <1>5, <1>7, <3>1
    <3>2. CASE ~ (i < k)
      <4>1. i - 1 \in P /\ i - 1 >= k /\ (i - 1) + 1 = i
        BY <1>5, <3>2
      <4>2. f[i - 1] = i
        BY <1>1, <1>6, <1>7, <4>1
      <4> QED
        BY <4>1, <4>2
    <3> QED
      BY <3>1, <3>2
  <2> QED
    BY <2>1
<1>10. f \in Bijection(P, R)
  BY <1>7, <1>8, <1>9 DEF Bijection, Injection, Surjection, IsInjective
<1>11. Cardinality(R) = Cardinality(P) /\ IsFiniteSet(R)
  BY <1>2, <1>10, FS_Bijection DEF ExistsBijection
<1>12. CASE r[k] \in T
  <2>1. Places(r, T) = R \cup {k} /\ k \notin R
    BY <1>12 DEF R, Places
  <2>2. Cardinality(Places(r, T)) = Cardinality(R) + 1
    BY <1>11, <2>1, FS_AddElement
  <2> QED
    BY <1>11, <1>12, <2>2 DEF Count, P
<1>13. CASE r[k] \notin T
  <2>1. Places(r, T) = R
    BY <1>13 DEF R, Places
  <2> QED
    BY <1>2, <1>11, <1>13, <2>1 DEF Count, P
<1> QED
  BY <1>12, <1>13

\* One more at the end.
LEMMA CountAppend ==
    ASSUME NEW S, NEW q \in Seq(S), NEW e \in S, NEW T
    PROVE  Count(Append(q, e), T) = Count(q, T) + (IF e \in T THEN 1 ELSE 0)
<1> DEFINE r == Append(q, e)
           k == Len(q) + 1
<1>1. /\ r \in Seq(S) /\ Len(r) = Len(q) + 1 /\ k \in 1 .. Len(q) + 1 /\ r[k] = e
      /\ \A i \in 1 .. Len(q) + 1 : i < k => r[i] = q[i]
      /\ \A i \in 1 .. Len(q) + 1 : i > k => r[i] = q[i - 1]
  OBVIOUS
<1> HIDE DEF r, k
<1>2. Count(r, T) = Count(q, T) + (IF r[k] \in T THEN 1 ELSE 0)
  BY <1>1, CountInsert
<1> QED
  BY <1>1, <1>2 DEF r

\* The first one is taken.
LEMMA CountTail ==
    ASSUME NEW S, NEW q \in Seq(S), q # <<>>, NEW T
    PROVE  Count(q, T) = Count(Tail(q), T) + (IF Head(q) \in T THEN 1 ELSE 0)
<1> DEFINE p == Tail(q)
<1>1. /\ p \in Seq(S) /\ Len(q) = Len(p) + 1 /\ 1 \in 1 .. Len(p) + 1 /\ q[1] = Head(q)
      /\ \A i \in 1 .. Len(p) + 1 : i < 1 => q[i] = p[i]
      /\ \A i \in 1 .. Len(p) + 1 : i > 1 => q[i] = p[i - 1]
  OBVIOUS
<1> HIDE DEF p
<1>2. Count(q, T) = Count(p, T) + (IF q[1] \in T THEN 1 ELSE 0)
  BY <1>1, CountInsert
<1> QED
  BY <1>1, <1>2 DEF p

\* Nothing is counted in an empty list.
LEMMA CountEmpty ==
    ASSUME NEW T
    PROVE  Count(<<>>, T) = 0
<1>1. Places(<<>>, T) = {}
  BY DEF Places
<1> QED
  BY <1>1, FS_EmptySet DEF Count

\* A nonempty set of naturals has a least element.
LEMMA Least ==
    ASSUME NEW T, T \subseteq Nat, T # {}
    PROVE  \E x \in T : \A y \in T : x <= y
<1> DEFINE R == OpToRel(<, Nat)
<1>1. IsWellFoundedOn(R, Nat)
  BY NatLessThanWellFounded
<1>2. ASSUME NEW x \in Nat, NEW y \in Nat, ~ (<<y, x>> \in R)
      PROVE  x <= y
  <2>1. ~ (y < x)
    BY <1>2 DEF OpToRel
  <2> QED
    BY <2>1
<1> HIDE DEF R
<1>3. PICK x \in T : \A y \in T : ~ (<<y, x>> \in R)
  BY <1>1, WFMin
<1>4. ASSUME NEW y \in T PROVE x <= y
  <2>1. x \in Nat /\ y \in Nat
    OBVIOUS
  <2>2. ~ (<<y, x>> \in R)
    BY <1>3
  <2> QED
    BY <2>1, <2>2, <1>2
<1> QED
  BY <1>4

\* A set that holds the empty sequence, and with a sequence each that is one longer, holds all.
LEMMA AppendInduction ==
    ASSUME NEW S, NEW T, <<>> \in T,
           \A ns \in Seq(S) : \A n \in S : ns \in T => Append(ns, n) \in T
    PROVE  \A ns \in Seq(S) : ns \in T
<1> SUFFICES ASSUME NEW bad \in Seq(S), bad \notin T PROVE FALSE
  OBVIOUS
<1> DEFINE Missed == {k \in Nat : \E ns \in Seq(S) : Len(ns) = k /\ ns \notin T}
<1>1. Missed \subseteq Nat /\ Missed # {}
  OBVIOUS
<1>2. PICK k \in Missed : \A j \in Missed : k <= j
  BY <1>1, Least
<1>3. PICK ns \in Seq(S) : ns \notin T /\ Len(ns) = k
  OBVIOUS
<1>4. k \in Nat /\ k # 0
  BY <1>1, <1>3
<1> DEFINE front == SubSeq(ns, 1, k - 1)
<1>5. front \in Seq(S) /\ Len(front) = k - 1 /\ ns[k] \in S /\ ns = Append(front, ns[k])
  BY <1>3, <1>4
<1> HIDE DEF front
<1>6. front \in T
  <2>0. k - 1 \in Nat
    BY <1>4
  <2>1. front \notin T => k - 1 \in Missed
    BY <1>5, <2>0
  <2> QED
    BY <1>2, <1>4, <2>1
<1> QED
  BY <1>3, <1>5, <1>6

\* The same, for sequences that grow at their head.
LEMMA ConsInduction ==
    ASSUME NEW S, NEW T, <<>> \in T,
           \A ns \in Seq(S) : \A n \in S : ns \in T => <<n>> \o ns \in T
    PROVE  \A ns \in Seq(S) : ns \in T
<1> SUFFICES ASSUME NEW bad \in Seq(S), bad \notin T PROVE FALSE
  OBVIOUS
<1> DEFINE Missed == {k \in Nat : \E ns \in Seq(S) : Len(ns) = k /\ ns \notin T}
<1>1. Missed \subseteq Nat /\ Missed # {}
  OBVIOUS
<1>2. PICK k \in Missed : \A j \in Missed : k <= j
  BY <1>1, Least
<1>3. PICK ns \in Seq(S) : ns \notin T /\ Len(ns) = k
  OBVIOUS
<1>4. k \in Nat /\ k # 0
  BY <1>1, <1>3
<1> DEFINE rest == Tail(ns)
<1>5. rest \in Seq(S) /\ Len(rest) = k - 1 /\ ns[1] \in S /\ ns = <<ns[1]>> \o rest
  BY <1>3, <1>4
<1> HIDE DEF rest
<1>6. rest \in T
  <2>0. k - 1 \in Nat
    BY <1>4
  <2>1. rest \notin T => k - 1 \in Missed
    BY <1>5, <2>0
  <2> QED
    BY <1>2, <1>4, <2>1
<1> QED
  BY <1>3, <1>5, <1>6
=============================================================================
