--------------------------- MODULE SequenceLemmas ---------------------------
(***************************************************************************)
(* Facts about sequences without repetitions that the proofs about the     *)
(* queues share: what appending, taking the head, removing at a position   *)
(* and selecting positions do to the elements.                             *)
(***************************************************************************)
EXTENDS Naturals, Sequences, SequencesExt, SequenceTheorems, FiniteSetTheorems, TLAPS

\* RemoveAt(s, i) drops the i-th element and keeps the others in order.
LEMMA RemoveAtFacts ==
    ASSUME NEW S, NEW s \in Seq(S), NEW i \in DOMAIN s
    PROVE  /\ RemoveAt(s, i) \in Seq(S)
           /\ Len(RemoveAt(s, i)) = Len(s) - 1
           /\ DOMAIN RemoveAt(s, i) = 1..(Len(s) - 1)
           /\ \A k \in 1..(Len(s) - 1) :
                 RemoveAt(s, i)[k] = IF k < i THEN s[k] ELSE s[k + 1]
<1> DEFINE l == SubSeq(s, 1, i - 1)
           r == SubSeq(s, i + 1, Len(s))
<1>1. i \in 1..Len(s) /\ Len(s) \in Nat
  BY LenProperties
<1>2. l \in Seq(S) /\ Len(l) = i - 1 /\ \A k \in 1..(i - 1) : l[k] = s[k]
  BY <1>1, SubSeqProperties
<1>3. r \in Seq(S) /\ Len(r) = Len(s) - i /\ \A k \in 1..(Len(s) - i) : r[k] = s[k + i]
  <2>1. CASE i = Len(s)
    BY <1>1, <2>1, SubSeqProperties
  <2>2. CASE i < Len(s)
    BY <1>1, <2>2, SubSeqProperties
  <2>3. QED
    BY <1>1, <2>1, <2>2
<1>4. RemoveAt(s, i) = l \o r
  BY DEF RemoveAt
<1>5. /\ l \o r \in Seq(S)
      /\ Len(l \o r) = Len(s) - 1
      /\ \A k \in 1..(Len(s) - 1) : (l \o r)[k] = IF k < i THEN s[k] ELSE s[k + 1]
  <2>1. /\ l \o r \in Seq(S)
        /\ Len(l \o r) = Len(l) + Len(r)
        /\ \A k \in 1..(Len(l) + Len(r)) :
              (l \o r)[k] = IF k <= Len(l) THEN l[k] ELSE r[k - Len(l)]
    BY <1>2, <1>3, ConcatProperties
  <2> HIDE DEF l, r
  <2>2. ASSUME NEW k \in 1..(Len(s) - 1)
        PROVE  (l \o r)[k] = IF k < i THEN s[k] ELSE s[k + 1]
    <3>1. CASE k < i
      <4>1. k \in 1..(i - 1) /\ k <= i - 1
        BY <1>1, <3>1
      <4>2. k \in 1..(Len(l) + Len(r)) /\ k <= Len(l)
        BY <1>1, <1>2, <1>3, <4>1
      <4>3. (l \o r)[k] = l[k]
        BY <2>1, <4>2
      <4>4. l[k] = s[k]
        BY <1>2, <4>1
      <4> QED
        BY <3>1, <4>3, <4>4
    <3>2. CASE ~(k < i)
      <4>1. k - (i - 1) \in 1..(Len(s) - i)
        BY <1>1, <3>2
      <4>2. (l \o r)[k] = r[k - (i - 1)]
        <5>1. k \in 1..(Len(l) + Len(r)) /\ ~(k <= Len(l))
          BY <1>1, <1>2, <1>3, <3>2
        <5> QED
          BY <5>1, <2>1, <1>2
      <4>3. r[k - (i - 1)] = s[(k - (i - 1)) + i]
        BY <1>3, <4>1
      <4> QED
        BY <1>1, <3>2, <4>2, <4>3
    <3> QED
      BY <3>1, <3>2
  <2>3. Len(l \o r) = Len(s) - 1
    BY <1>1, <1>2, <1>3, <2>1
  <2> QED
    BY <2>1, <2>2, <2>3
<1> HIDE DEF l, r
<1> QED
  BY <1>4, <1>5, <1>1, LenProperties

\* Appending an element that is not there yet.
LEMMA AppendFacts ==
    ASSUME NEW S, NEW s \in Seq(S), NEW e \in S
    PROVE  /\ Append(s, e) \in Seq(S)
           /\ Range(Append(s, e)) = Range(s) \cup {e}
           /\ (IsInjective(s) /\ e \notin Range(s)) => IsInjective(Append(s, e))
<1> DEFINE t == Append(s, e)
           n == Len(s)
<1>1. n \in Nat /\ DOMAIN s = 1..n
  BY LenProperties
<1>2. /\ t \in Seq(S) /\ Len(t) = n + 1
      /\ \A i \in 1..n : t[i] = s[i]
      /\ t[n + 1] = e
  BY AppendProperties
<1>3. DOMAIN t = 1..(n + 1)
  BY <1>2, LenProperties
<1> HIDE DEF t, n
<1>4. 1..(n + 1) = 1..n \cup {n + 1}
  BY <1>1
<1>5. Range(t) = Range(s) \cup {e}
  BY <1>1, <1>2, <1>3, <1>4 DEF Range
<1>6. ASSUME IsInjective(s), e \notin Range(s)
      PROVE  IsInjective(t)
  <2> SUFFICES ASSUME NEW a \in 1..(n + 1), NEW b \in 1..(n + 1), t[a] = t[b]
               PROVE  a = b
    BY <1>3 DEF IsInjective
  <2>1. CASE a \in 1..n /\ b \in 1..n
    BY <1>1, <1>2, <1>6, <2>1 DEF IsInjective
  <2>2. CASE a = n + 1 /\ b = n + 1
    BY <2>2
  <2>3. CASE a \in 1..n /\ b = n + 1
    BY <1>1, <1>2, <1>6, <2>3 DEF Range
  <2>4. CASE a = n + 1 /\ b \in 1..n
    BY <1>1, <1>2, <1>6, <2>4 DEF Range
  <2> QED
    BY <1>4, <2>1, <2>2, <2>3, <2>4
<1> QED
  BY <1>2, <1>5, <1>6 DEF t

\* Removing at a position takes exactly one element out.
LEMMA RemoveAtElements ==
    ASSUME NEW S, NEW s \in Seq(S), NEW i \in DOMAIN s, IsInjective(s)
    PROVE  /\ RemoveAt(s, i) \in Seq(S)
           /\ Range(RemoveAt(s, i)) = Range(s) \ {s[i]}
           /\ IsInjective(RemoveAt(s, i))
<1> DEFINE t == RemoveAt(s, i)
           n == Len(s)
<1>1. n \in Nat /\ DOMAIN s = 1..n /\ i \in 1..n
  BY LenProperties
<1>2. /\ t \in Seq(S) /\ DOMAIN t = 1..(n - 1)
      /\ \A k \in 1..(n - 1) : t[k] = IF k < i THEN s[k] ELSE s[k + 1]
  BY RemoveAtFacts
<1> DEFINE from(k) == IF k < i THEN k ELSE k + 1
<1> HIDE DEF t, n
<1>3. \A k \in 1..(n - 1) : from(k) \in 1..n /\ from(k) # i /\ t[k] = s[from(k)]
  BY <1>1, <1>2
<1>4. \A a, b \in 1..(n - 1) : from(a) = from(b) => a = b
  BY <1>1
<1>5. \A k \in 1..n : k # i => \E m \in 1..(n - 1) : from(m) = k
  <2> SUFFICES ASSUME NEW k \in 1..n, k # i
               PROVE  \E m \in 1..(n - 1) : from(m) = k
    OBVIOUS
  <2>1. CASE k < i
    <3>1. k \in 1..(n - 1) /\ from(k) = k
      BY <1>1, <2>1
    <3> QED
      BY <3>1
  <2>2. CASE ~(k < i)
    <3>1. k - 1 \in 1..(n - 1) /\ from(k - 1) = k
      BY <1>1, <2>2
    <3> QED
      BY <3>1
  <2> QED
    BY <2>1, <2>2
<1> HIDE DEF from
<1>6. \A a, b \in 1..n : s[a] = s[b] => a = b
  BY <1>1 DEF IsInjective
<1>7. Range(t) = Range(s) \ {s[i]}
  <2>1. ASSUME NEW x \in Range(t) PROVE x \in Range(s) \ {s[i]}
    <3>1. PICK k \in 1..(n - 1) : x = t[k]
      BY <1>2 DEF Range
    <3>2. from(k) \in 1..n /\ from(k) # i /\ x = s[from(k)]
      BY <1>3, <3>1
    <3> QED
      BY <1>1, <1>6, <3>2 DEF Range
  <2>2. ASSUME NEW x \in Range(s) \ {s[i]} PROVE x \in Range(t)
    <3>1. PICK k \in 1..n : x = s[k]
      BY <1>1 DEF Range
    <3>2. PICK m \in 1..(n - 1) : from(m) = k
      BY <1>5, <3>1
    <3> QED
      BY <1>2, <1>3, <3>1, <3>2 DEF Range
  <2> QED
    BY <2>1, <2>2
<1>8. IsInjective(t)
  BY <1>2, <1>3, <1>4, <1>6 DEF IsInjective
<1> QED
  BY <1>2, <1>7, <1>8 DEF t

\* The head of a sequence without repetitions is not in its tail.
LEMMA TailFacts ==
    ASSUME NEW S, NEW s \in Seq(S), s # <<>>, IsInjective(s)
    PROVE  /\ Head(s) \in S /\ Head(s) \in Range(s)
           /\ Tail(s) \in Seq(S)
           /\ Range(Tail(s)) = Range(s) \ {Head(s)}
           /\ IsInjective(Tail(s))
<1> DEFINE n == Len(s)
           t == Tail(s)
<1>1. n \in Nat \ {0} /\ DOMAIN s = 1..n
  BY LenProperties, EmptySeq
<1>2. t \in Seq(S) /\ Len(t) = n - 1 /\ \A i \in 1..(n - 1) : t[i] = s[i + 1]
  BY HeadTailProperties
<1>3. Head(s) \in S
  BY HeadTailProperties
<1>4. DOMAIN t = 1..(n - 1)
  BY <1>2, LenProperties
<1>5. Head(s) = s[1]
  OBVIOUS
<1> HIDE DEF n, t
<1>6. 1 \in 1..n /\ \A i \in 1..(n - 1) : i + 1 \in 1..n /\ i + 1 # 1
  BY <1>1
<1>7. \A k \in 1..n : k # 1 => k - 1 \in 1..(n - 1) /\ (k - 1) + 1 = k
  BY <1>1
<1>8. \A a, b \in 1..n : s[a] = s[b] => a = b
  BY <1>1 DEF IsInjective
<1>9. Head(s) \in Range(s)
  BY <1>1, <1>5, <1>6 DEF Range
<1>10. Range(t) = Range(s) \ {Head(s)}
  <2>1. ASSUME NEW x \in Range(t) PROVE x \in Range(s) \ {Head(s)}
    <3>1. PICK i \in 1..(n - 1) : x = t[i]
      BY <1>4 DEF Range
    <3>2. x = s[i + 1] /\ i + 1 \in 1..n /\ i + 1 # 1
      BY <1>2, <1>6, <3>1
    <3> QED
      BY <1>1, <1>5, <1>6, <1>8, <3>2 DEF Range
  <2>2. ASSUME NEW x \in Range(s) \ {Head(s)} PROVE x \in Range(t)
    <3>1. PICK k \in 1..n : x = s[k]
      BY <1>1 DEF Range
    <3>2. k # 1
      BY <1>5, <3>1
    <3>3. k - 1 \in 1..(n - 1) /\ t[k - 1] = s[k]
      BY <1>2, <1>7, <3>2
    <3> QED
      BY <1>4, <3>1, <3>3 DEF Range
  <2> QED
    BY <2>1, <2>2
<1>11. IsInjective(t)
  <2> SUFFICES ASSUME NEW a \in 1..(n - 1), NEW b \in 1..(n - 1), t[a] = t[b]
               PROVE  a = b
    BY <1>4 DEF IsInjective
  <2>1. a + 1 = b + 1
    BY <1>2, <1>6, <1>8
  <2> QED
    BY <2>1, <1>1
<1> QED
  BY <1>2, <1>3, <1>9, <1>10, <1>11 DEF t

\* The positions of a set, counted from the lowest, are 1, 2, ... without gaps or ties.
LEMMA RankOnto ==
    ASSUME NEW n \in Nat, NEW kept \in SUBSET (1..n)
    PROVE  /\ IsFiniteSet(kept) /\ Cardinality(kept) \in Nat
           /\ \A i \in kept : Cardinality({h \in kept : h <= i}) \in 1..Cardinality(kept)
           /\ \A i, j \in kept :
                 Cardinality({h \in kept : h <= i}) = Cardinality({h \in kept : h <= j}) => i = j
           /\ \A k \in 1..Cardinality(kept) :
                 \E i \in kept : Cardinality({h \in kept : h <= i}) = k
<1> DEFINE upTo(i) == {h \in kept : h <= i}
           m == Cardinality(kept)
           rank == [i \in kept |-> Cardinality(upTo(i))]
<1>1. IsFiniteSet(kept)
  <2>1. IsFiniteSet(1..n)
    BY FS_Interval
  <2> QED
    BY <2>1, FS_Subset
<1>2. m \in Nat
  BY <1>1, FS_CardinalityType
<1>3. \A i \in kept : upTo(i) \in SUBSET kept /\ i \in upTo(i) /\ i \in 1..n
  OBVIOUS
<1>4. \A i \in kept : IsFiniteSet(upTo(i)) /\ Cardinality(upTo(i)) <= m
                       /\ Cardinality(upTo(i)) \in Nat
  <2> SUFFICES ASSUME NEW i \in kept
               PROVE  IsFiniteSet(upTo(i)) /\ Cardinality(upTo(i)) <= m
                       /\ Cardinality(upTo(i)) \in Nat
    OBVIOUS
  <2>1. IsFiniteSet(upTo(i)) /\ Cardinality(upTo(i)) <= m
    BY <1>1, <1>3, FS_Subset
  <2>2. Cardinality(upTo(i)) \in Nat
    BY <2>1, FS_CardinalityType
  <2> QED
    BY <2>1, <2>2
<1>5. \A i \in kept : Cardinality(upTo(i)) \in 1..m
  <2> SUFFICES ASSUME NEW i \in kept PROVE Cardinality(upTo(i)) \in 1..m
    OBVIOUS
  <2>1. Cardinality(upTo(i)) # 0
    BY <1>3, <1>4, FS_EmptySet
  <2> HIDE DEF upTo, m
  <2> QED
    BY <1>2, <1>4, <2>1
<1>6. \A i, j \in kept : i < j => Cardinality(upTo(i)) # Cardinality(upTo(j))
  <2> SUFFICES ASSUME NEW i \in kept, NEW j \in kept, i < j,
                      Cardinality(upTo(i)) = Cardinality(upTo(j))
               PROVE  FALSE
    OBVIOUS
  <2>1. upTo(i) \in SUBSET upTo(j) /\ j \in upTo(j) /\ j \notin upTo(i)
    <3>1. i \in 1..n /\ j \in 1..n /\ kept \subseteq 1..n
      OBVIOUS
    <3>2. \A h \in kept : h <= i => h <= j
      BY <3>1
    <3>3. ~(j <= i) /\ j <= j
      BY <3>1
    <3> QED
      BY <3>2, <3>3
  <2>2. upTo(j) = upTo(i)
    BY <1>4, <2>1, FS_Subset
  <2> QED
    BY <2>1, <2>2
<1>7. \A i, j \in kept : rank[i] = rank[j] => i = j
  <2> SUFFICES ASSUME NEW i \in kept, NEW j \in kept, rank[i] = rank[j], i # j
               PROVE  FALSE
    OBVIOUS
  <2>1. i < j \/ j < i
    BY <1>3
  <2>2. rank[i] = Cardinality(upTo(i)) /\ rank[j] = Cardinality(upTo(j))
    OBVIOUS
  <2> HIDE DEF upTo, rank
  <2> QED
    BY <2>1, <2>2, <1>6
<1>8. rank \in Injection(kept, 1..m)
  <2>1. rank \in [kept -> 1..m]
    BY <1>5
  <2> HIDE DEF rank
  <2> QED
    BY <2>1, <1>7 DEF Injection, IsInjective
<1>9. IsFiniteSet(1..m) /\ Cardinality(1..m) = m
  <2> HIDE DEF m
  <2> QED
    BY <1>2, FS_Interval
<1>10. rank \in Surjection(kept, 1..m)
  <2> HIDE DEF rank
  <2> QED
    BY <1>8, <1>9, FS_Injection
<1>11. \A k \in 1..m : \E i \in kept : rank[i] = k
  <2> HIDE DEF rank, m
  <2> QED
    BY <1>10 DEF Surjection
<1>12. \A i \in kept : rank[i] = Cardinality(upTo(i))
  OBVIOUS
<1> HIDE DEF rank
<1>13. \A k \in 1..m : \E i \in kept : Cardinality(upTo(i)) = k
  BY <1>11, <1>12
<1>14. \A i, j \in kept : Cardinality(upTo(i)) = Cardinality(upTo(j)) => i = j
  BY <1>7, <1>12
<1> QED
  BY <1>1, <1>2, <1>5, <1>13, <1>14

\* A sequence without repetitions is as long as it has elements.
LEMMA InjectiveLen ==
    ASSUME NEW S, NEW s \in Seq(S), IsInjective(s)
    PROVE  IsFiniteSet(Range(s)) /\ Cardinality(Range(s)) = Len(s)
<1> DEFINE n == Len(s)
<1>1. n \in Nat /\ s \in [1..n -> S] /\ DOMAIN s = 1..n
  BY LenProperties
<1> HIDE DEF n
<1>2. s \in [1..n -> Range(s)]
  BY <1>1 DEF Range
<1>3. s \in Injection(1..n, Range(s))
  BY <1>2 DEF Injection
<1>4. s \in Surjection(1..n, Range(s))
  BY <1>1, <1>2 DEF Surjection, Range
<1>5. ExistsBijection(1..n, Range(s))
  BY <1>3, <1>4 DEF ExistsBijection, Bijection
<1>6. IsFiniteSet(1..n) /\ Cardinality(1..n) = n
  BY <1>1, FS_Interval
<1>7. IsFiniteSet(Range(s)) /\ Cardinality(Range(s)) = n
  BY <1>5, <1>6, FS_Bijection
<1> QED
  BY <1>7 DEF n

\* Disjoint finite sets.
LEMMA DisjointCardinality ==
    ASSUME NEW A, NEW B, IsFiniteSet(A), IsFiniteSet(B), A \cap B = {}
    PROVE  IsFiniteSet(A \cup B) /\ Cardinality(A \cup B) = Cardinality(A) + Cardinality(B)
<1>1. /\ IsFiniteSet(A \cup B)
      /\ Cardinality(A \cup B) = Cardinality(A) + Cardinality(B) - Cardinality(A \cap B)
  BY FS_Union
<1>2. Cardinality(A \cap B) = 0
  BY FS_EmptySet
<1>3. Cardinality(A) \in Nat /\ Cardinality(B) \in Nat
  BY FS_CardinalityType
<1> QED
  BY <1>1, <1>2, <1>3
=============================================================================
