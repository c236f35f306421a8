------------------------- MODULE WaitingList_proofs -------------------------
(***************************************************************************)
(* Pushing, shifting and filtering keep array and set in agreement.         *)
(***************************************************************************)
EXTENDS WaitingList, SequenceTheorems, FiniteSetTheorems, TLAPS

(* Pushing an id that is in neither keeps array and set in agreement.       *)
LEMMA AppendAgrees ==
  ASSUME NEW S, NEW q \in Seq(S), NEW qs, NEW id \in S, Agrees(q, qs), id \notin qs
  PROVE  /\ Append(q, id) \in Seq(S)
         /\ Agrees(Append(q, id), qs \cup {id})
<1> DEFINE p == Append(q, id)
<1>1. /\ p \in Seq(S) /\ DOMAIN p = 1..Len(q) + 1 /\ DOMAIN q = 1..Len(q) /\ Len(q) \in Nat
      /\ p[Len(q) + 1] = id /\ \A i \in 1..Len(q) : p[i] = q[i]
  BY AppendProperties, LenProperties
<1>2. \A i \in 1..Len(q) : q[i] # id
  BY <1>1 DEF Agrees, Members
<1>3. Members(p) = qs \cup {id}
  BY <1>1 DEF Agrees, Members
<1>4. \A i, j \in DOMAIN p : p[i] = p[j] => i = j
  BY <1>1, <1>2 DEF Agrees
<1> QED
  BY <1>1, <1>3, <1>4 DEF Agrees

(* Shifting the first k ids off removes exactly those from the set.         *)
LEMMA ShiftAgrees ==
  ASSUME NEW S, NEW q \in Seq(S), NEW qs, NEW k \in DOMAIN q, Agrees(q, qs)
  PROVE  /\ SubSeq(q, k + 1, Len(q)) \in Seq(S)
         /\ Agrees(SubSeq(q, k + 1, Len(q)), qs \ {q[j] : j \in 1..k})
<1> PICK p : p = SubSeq(q, k + 1, Len(q))
  OBVIOUS
<1> PICK n : n = Len(q)
  OBVIOUS
<1>1. n \in Nat /\ DOMAIN q = 1..n /\ k \in 1..n
  BY LenProperties
<1>2. /\ p \in Seq(S) /\ Len(p) = n - k /\ DOMAIN p = 1..(n - k)
      /\ \A i \in 1..(n - k) : p[i] = q[k + i]
  <2>1. p = [i \in 1..(n - k) |-> q[k + i]]
    BY <1>1, SMT
  <2>2. \A i \in 1..(n - k) : k + i \in 1..n /\ q[k + i] \in S
    BY <1>1, ElementOfSeq
  <2>3. p \in Seq(S) /\ Len(p) = n - k
    BY <1>1, <2>1, <2>2, IsASeq
  <2> QED
    BY <2>1, <2>3
<1>3. Members(p) = qs \ {q[j] : j \in 1..k}
  <2>1. ASSUME NEW i \in 1..(n - k)
        PROVE  /\ p[i] \in qs
               /\ \A j \in 1..k : p[i] # q[j]
    <3>1. k + i \in DOMAIN q /\ p[i] = q[k + i]
      BY <1>1, <1>2
    <3>2. \A j \in 1..k : j \in DOMAIN q /\ j # k + i
      BY <1>1
    <3> QED
      BY <3>1, <3>2 DEF Members, Agrees
  <2>2. ASSUME NEW i \in 1..n, i \notin 1..k PROVE \E m \in 1..(n - k) : p[m] = q[i]
    <3>1. i - k \in 1..(n - k) /\ k + (i - k) = i
      BY <1>1, <2>2
    <3>2. p[i - k] = q[k + (i - k)]
      BY <1>2, <3>1
    <3> QED
      BY <3>1, <3>2
  <2>3. Members(p) \subseteq qs \ {q[j] : j \in 1..k}
    BY <1>2, <2>1 DEF Members
  <2>4. ASSUME NEW x \in qs, x \notin {q[j] : j \in 1..k} PROVE x \in Members(p)
    <3>1. PICK i \in 1..n : q[i] = x
      BY <1>1 DEF Members, Agrees
    <3> QED
      BY <1>2, <2>2, <2>4, <3>1 DEF Members
  <2> QED
    BY <2>3, <2>4
<1>4. ASSUME NEW i \in 1..(n - k), NEW j \in 1..(n - k), p[i] = p[j] PROVE i = j
  <2>1. k + i \in DOMAIN q /\ k + j \in DOMAIN q /\ q[k + i] = q[k + j]
    BY <1>1, <1>2, <1>4
  <2>2. k + i = k + j
    BY <2>1 DEF Agrees
  <2> QED
    BY <1>1, <2>2
<1> QED
  BY <1>2, <1>3, <1>4 DEF Agrees

(* Filtering ids out of the array and out of the set keeps them in          *)
(* agreement.  rank is a bijection from the kept indices to the positions  *)
(* of the result: it is injective, and the two sets have the same size.    *)
LEMMA WithoutAgrees ==
  ASSUME NEW S, NEW q \in Seq(S), NEW qs, NEW gone, Agrees(q, qs)
  PROVE  /\ Without(q, gone) \in Seq(S)
         /\ Agrees(Without(q, gone), qs \ gone)
<1> DEFINE kept     == {i \in DOMAIN q : q[i] \notin gone}
           below(i) == {j \in kept : j <= i}
           rank     == [i \in kept |-> Cardinality(below(i))]
           m        == Cardinality(kept)
           p        == Without(q, gone)
<1>1. /\ Len(q) \in Nat /\ DOMAIN q = 1..Len(q) /\ kept \subseteq 1..Len(q)
      /\ IsFiniteSet(kept) /\ m \in Nat
  <2>1. Len(q) \in Nat /\ DOMAIN q = 1..Len(q) /\ kept \subseteq 1..Len(q)
    BY LenProperties
  <2>2. IsFiniteSet(1..Len(q))
    BY <2>1, FS_Interval
  <2>3. IsFiniteSet(kept)
    BY <2>1, <2>2, FS_Subset
  <2> QED
    BY <2>1, <2>3, FS_CardinalityType
<1>2. ASSUME NEW i \in kept
      PROVE  /\ IsFiniteSet(below(i)) /\ i \in below(i)
             /\ Cardinality(below(i)) \in 1..m
  <2>1. below(i) \subseteq kept /\ i \in below(i)
    BY <1>1
  <2>2. IsFiniteSet(below(i)) /\ Cardinality(below(i)) <= m
    BY <1>1, <2>1, FS_Subset
  <2>3. Cardinality(below(i)) \in Nat /\ Cardinality(below(i)) # 0
    BY <2>1, <2>2, FS_CardinalityType, FS_EmptySet
  <2> QED
    BY <1>1, <2>1, <2>2, <2>3
<1>3. ASSUME NEW i \in kept, NEW j \in kept, i < j
      PROVE  rank[i] # rank[j]
  <2>1. below(i) \subseteq below(j) /\ j \in below(j) /\ j \notin below(i)
    BY <1>1, <1>3
  <2>2. Cardinality(below(i)) # Cardinality(below(j))
    BY <1>2, <2>1, FS_Subset
  <2> QED
    BY <2>2
<1>4. rank \in Surjection(kept, 1..m)
  <2>1. rank \in [kept -> 1..m]
    BY <1>2
  <2>2. rank \in Injection(kept, 1..m)
    <3>1. \A i, j \in kept : i # j => i < j \/ j < i
      BY <1>1
    <3>2. \A i, j \in kept : rank[i] = rank[j] => i = j
      BY <1>3, <3>1
    <3> HIDE DEF rank
    <3> QED
      BY <2>1, <3>2 DEF Injection, IsInjective
  <2>3. IsFiniteSet(1..m) /\ Cardinality(1..m) = m
    BY <1>1, FS_Interval
  <2> HIDE DEF rank, kept
  <2> QED
    BY <2>2, <2>3, FS_Injection DEF m
<1> DEFINE at(n) == CHOOSE i \in kept : rank[i] = n
<1>5. p = [n \in 1..m |-> q[at(n)]]
  BY DEF Without
<1>6. ASSUME NEW n \in 1..m
      PROVE  at(n) \in kept /\ rank[at(n)] = n
  <2>1. \E i \in kept : rank[i] = n
    BY <1>4 DEF Surjection
  <2> HIDE DEF rank, kept
  <2> QED
    BY <2>1
<1> HIDE DEF at, p, rank, m
<1>7. p \in Seq(S) /\ DOMAIN p = 1..m /\ \A n \in 1..m : p[n] = q[at(n)]
  <2>1. \A n \in 1..m : q[at(n)] \in S
    BY <1>1, <1>6, ElementOfSeq
  <2> QED
    BY <1>1, <1>5, <2>1, IsASeq
<1>8. Members(p) = qs \ gone
  <2>1. \A n \in 1..m : p[n] \in qs \ gone
    BY <1>6, <1>7 DEF Agrees, Members
  <2>2. ASSUME NEW i \in kept PROVE \E n \in 1..m : p[n] = q[i]
    <3>1. rank[i] \in 1..m
      BY <1>2 DEF rank, m
    <3>2. at(rank[i]) \in kept /\ rank[at(rank[i])] = rank[i]
      BY <1>6, <3>1
    <3>3. at(rank[i]) = i
      BY <1>1, <1>3, <3>2
    <3> QED
      BY <1>7, <3>1, <3>3
  <2> QED
    BY <1>7, <2>1, <2>2 DEF Agrees, Members
<1>9. \A i, j \in DOMAIN p : p[i] = p[j] => i = j
  <2>1. ASSUME NEW i \in 1..m, NEW j \in 1..m, p[i] = p[j] PROVE i = j
    <3>1. at(i) = at(j)
      BY <1>6, <1>7, <2>1 DEF Agrees
    <3> QED
      BY <1>6, <3>1
  <2> QED
    BY <1>7, <2>1
<1> QED
  BY <1>7, <1>8, <1>9 DEF Agrees, p

(* Shifting the first one off.                                              *)
LEMMA TailAgrees ==
  ASSUME NEW S, NEW q \in Seq(S), NEW qs, q # <<>>, Agrees(q, qs)
  PROVE  /\ Tail(q) \in Seq(S) /\ Head(q) \in S /\ Head(q) \in qs
         /\ Agrees(Tail(q), qs \ {Head(q)})
<1>1. Len(q) \in Nat \ {0} /\ DOMAIN q = 1..Len(q) /\ 1 \in DOMAIN q
  BY EmptySeq, LenProperties
<1>2. Tail(q) = SubSeq(q, 1 + 1, Len(q)) /\ Head(q) = q[1]
  BY <1>1
<1>3. {q[j] : j \in 1..1} = {Head(q)}
  BY <1>2
<1>4. Head(q) \in S /\ Head(q) \in qs
  BY <1>1, <1>2, ElementOfSeq DEF Agrees, Members
<1>5. /\ SubSeq(q, 1 + 1, Len(q)) \in Seq(S)
      /\ Agrees(SubSeq(q, 1 + 1, Len(q)), qs \ {q[j] : j \in 1..1})
  <2> HIDE DEF Agrees
  <2> QED
    BY <1>1, ShiftAgrees
<1> QED
  BY <1>2, <1>3, <1>4, <1>5

(* The empty queue.                                                         *)
LEMMA EmptyAgrees ==
  ASSUME NEW S
  PROVE  <<>> \in Seq(S) /\ Agrees(<<>>, {})
BY EmptySeq DEF Agrees, Members
=============================================================================
