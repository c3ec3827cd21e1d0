--------------------------- MODULE TxQueueProofs ---------------------------
(***************************************************************************)
(* Proofs about TxQueue, for any streams, packets and bounds: a packet     *)
(* leaves under the number of its own stream unless a ping was put off,    *)
(* and the counter of a stream's control packets is exact as long as none  *)
(* was dispatched before it was counted.                                   *)
(***************************************************************************)
EXTENDS TxQueue, FiniteSetTheorems, SequenceTheorems, NaturalsInduction,
        WellFoundedInduction, TLAPS

-----------------------------------------------------------------------------
(* Queues as sequences and as sets of entries. *)

\* A queue is a sequence of whatever entries.
IsSeq(q) == \E S : q \in Seq(S)

\* r is the part of q from m to n.
Part(q, m, n, r) ==
  /\ DOMAIN r = 1 .. n - m + 1 /\ Len(r) = n - m + 1
  /\ \A i \in 1 .. n - m + 1 : r[i] = q[m + i - 1]

\* r is a and then b.
Joined(a, b, r) ==
  /\ DOMAIN r = 1 .. Len(a) + Len(b) /\ Len(r) = Len(a) + Len(b)
  /\ \A i \in 1 .. Len(a) : r[i] = a[i]
  /\ \A i \in 1 .. Len(b) : r[Len(a) + i] = b[i]

\* What SubSeq returns.
LEMMA PartFacts ==
  ASSUME NEW S, NEW q \in Seq(S), NEW m \in 1 .. Len(q) + 1, NEW n \in 0 .. Len(q), m <= n + 1
  PROVE  SubSeq(q, m, n) \in Seq(S) /\ Part(q, m, n, SubSeq(q, m, n))
<1>1. m \in Int /\ n \in Int /\ \A i \in m .. n : q[i] \in S
  OBVIOUS
<1>2. /\ SubSeq(q, m, n) \in Seq(S)
      /\ Len(SubSeq(q, m, n)) = (IF m <= n THEN n - m + 1 ELSE 0)
      /\ \A i \in 1 .. n - m + 1 : SubSeq(q, m, n)[i] = q[m + i - 1]
  BY <1>1, SubSeqProperties
<1>3. PICK r : /\ r = SubSeq(q, m, n) /\ r \in Seq(S)
               /\ Len(r) = (IF m <= n THEN n - m + 1 ELSE 0)
               /\ \A i \in 1 .. n - m + 1 : r[i] = q[m + i - 1]
  BY <1>2, Zenon
<1>4. Len(r) = n - m + 1 /\ DOMAIN r = 1 .. n - m + 1
  BY <1>1, <1>3
<1> QED BY <1>3, <1>4 DEF Part

\* What concatenation returns.
LEMMA JoinFacts ==
  ASSUME NEW S, NEW a \in Seq(S), NEW b \in Seq(S)
  PROVE  a \o b \in Seq(S) /\ Joined(a, b, a \o b)
<1>1. PICK r : r = a \o b
  OBVIOUS
<1>2. r \in Seq(S) /\ Len(r) = Len(a) + Len(b) /\ Len(a) \in Nat /\ Len(b) \in Nat
  BY <1>1
<1>3. \A i \in 1 .. Len(a) + Len(b) : r[i] = IF i <= Len(a) THEN a[i] ELSE b[i - Len(a)]
  BY <1>1, ConcatProperties, Zenon
<1>4. \A i \in 1 .. Len(a) : r[i] = a[i]
  BY <1>2, <1>3
<1>5. ASSUME NEW i \in 1 .. Len(b) PROVE r[Len(a) + i] = b[i]
  <2>1. /\ Len(a) + i \in 1 .. Len(a) + Len(b) /\ ~ (Len(a) + i <= Len(a)) 
        /\ (Len(a) + i) - Len(a) = i
    BY <1>2
  <2> QED BY <1>3, <2>1
<1> QED BY <1>1, <1>2, <1>4, <1>5 DEF Joined

\* r is q with e as the element after the k-th.
Inserted(q, k, e, r) ==
  /\ IsSeq(r) /\ DOMAIN r = 1 .. Len(q) + 1
  /\ \A i \in 1 .. k : r[i] = q[i]
  /\ r[k + 1] = e
  /\ \A i \in k + 1 .. Len(q) : r[i + 1] = q[i]

\* r is q without the j-th element.
Removed(q, j, r) ==
  /\ IsSeq(r) /\ DOMAIN r = 1 .. Len(q) - 1
  /\ \A i \in 1 .. j - 1 : r[i] = q[i]
  /\ \A i \in j + 1 .. Len(q) : r[i - 1] = q[i]

\* What InsertAt returns.
LEMMA InsertAtFacts ==
  ASSUME NEW q, IsSeq(q), NEW k \in 0 .. Len(q), NEW e
  PROVE  Inserted(q, k, e, InsertAt(q, k + 1, e))
<1>1. PICK S : q \in Seq(S)
  BY DEF IsSeq
<1>2. PICK T : T = S \cup {e}
  OBVIOUS
<1>3. q \in Seq(T) /\ Len(q) \in Nat /\ DOMAIN q = 1 .. Len(q) /\ <<e>> \in Seq(T)
  BY <1>1, <1>2
<1>4. PICK l, m, n : l = k + 1 /\ m = k /\ n = Len(q) 
  OBVIOUS
<1>5. PICK a, b : a = SubSeq(q, 1, m) /\ b = SubSeq(q, l, n)
  OBVIOUS
<1>6. a \in Seq(T) /\ Part(q, 1, m, a)
  <2>1. 1 \in 1 .. Len(q) + 1 /\ m \in 0 .. Len(q) /\ 1 <= m + 1
    BY <1>3, <1>4
  <2> QED BY <1>3, <1>5, <2>1, PartFacts, Zenon
<1>7. b \in Seq(T) /\ Part(q, l, n, b)
  <2>1. l \in 1 .. Len(q) + 1 /\ n \in 0 .. Len(q) /\ l <= n + 1
    BY <1>3, <1>4
  <2> QED BY <1>3, <1>5, <2>1, PartFacts, Zenon
<1>8. PICK c : c = a \o <<e>> /\ c \in Seq(T) /\ Joined(a, <<e>>, c)
  BY <1>3, <1>6, JoinFacts, Zenon
<1>9. PICK r : r = c \o b /\ r \in Seq(T) /\ Joined(c, b, r)
  BY <1>7, <1>8, JoinFacts, Zenon
<1>10. Len(a) = k /\ \A i \in 1 .. k : a[i] = q[i]
  BY <1>4, <1>6 DEF Part
<1>11. Len(c) = k + 1 /\ c[k + 1] = e /\ \A i \in 1 .. k : c[i] = q[i]
  BY <1>8, <1>10 DEF Joined
<1>12. Len(b) = Len(q) - k /\ \A i \in 1 .. Len(q) - k : b[i] = q[k + i]
  BY <1>3, <1>4, <1>7 DEF Part
<1>13. DOMAIN r = 1 .. Len(q) + 1 /\ r[k + 1] = e /\ \A i \in 1 .. k : r[i] = q[i]
  BY <1>3, <1>9, <1>11, <1>12 DEF Joined
<1>14. ASSUME NEW i \in k + 1 .. Len(q) PROVE r[i + 1] = q[i]
  <2>1. PICK j \in 1 .. Len(q) - k : j = i - k
    BY <1>3
  <2>2. r[(k + 1) + j] = b[j] /\ b[j] = q[k + j]
    BY <1>9, <1>11, <1>12 DEF Joined
  <2>3. (k + 1) + j = i + 1 /\ k + j = i
    BY <1>3, <2>1
  <2> QED BY <2>2, <2>3
<1>15. r = InsertAt(q, k + 1, e)
  <2>1. (k + 1) - 1 = k
    OBVIOUS
  <2> QED BY <1>4, <1>5, <1>8, <1>9, <2>1 DEF InsertAt
<1>16. Inserted(q, k, e, r)
  BY <1>9, <1>13, <1>14 DEF Inserted, IsSeq
<1> QED BY <1>15, <1>16

\* What RemoveAt returns.
LEMMA RemoveAtFacts ==
  ASSUME NEW q, IsSeq(q), NEW j \in DOMAIN q
  PROVE  Removed(q, j, RemoveAt(q, j))
<1>1. PICK S : q \in Seq(S)
  BY DEF IsSeq
<1>2. Len(q) \in Nat /\ DOMAIN q = 1 .. Len(q) /\ j \in 1 .. Len(q)
  BY <1>1
<1>3. PICK l, m, n : l = j + 1 /\ m = j - 1 /\ n = Len(q)
  OBVIOUS
<1>4. PICK a, b : a = SubSeq(q, 1, m) /\ b = SubSeq(q, l, n)
  OBVIOUS
<1>5. a \in Seq(S) /\ Part(q, 1, m, a)
  <2>1. 1 \in 1 .. Len(q) + 1 /\ m \in 0 .. Len(q) /\ 1 <= m + 1
    BY <1>2, <1>3
  <2> QED BY <1>1, <1>4, <2>1, PartFacts, Zenon
<1>6. b \in Seq(S) /\ Part(q, l, n, b)
  <2>1. l \in 1 .. Len(q) + 1 /\ n \in 0 .. Len(q) /\ l <= n + 1
    BY <1>2, <1>3
  <2> QED BY <1>1, <1>4, <2>1, PartFacts, Zenon
<1>7. PICK r : r = a \o b /\ r \in Seq(S) /\ Joined(a, b, r)
  BY <1>5, <1>6, JoinFacts, Zenon
<1>8. Len(a) = j - 1 /\ \A i \in 1 .. j - 1 : a[i] = q[i]
  BY <1>2, <1>3, <1>5 DEF Part
<1>9. Len(b) = Len(q) - j /\ \A i \in 1 .. Len(q) - j : b[i] = q[j + i]
  <2>1. n - l + 1 = Len(q) - j /\ \A i \in 1 .. Len(q) - j : l + i - 1 = j + i
    BY <1>2, <1>3
  <2> QED BY <1>6, <2>1 DEF Part
<1>10. DOMAIN r = 1 .. Len(q) - 1 /\ \A i \in 1 .. j - 1 : r[i] = q[i]
  BY <1>2, <1>7, <1>8, <1>9 DEF Joined
<1>11. ASSUME NEW i \in j + 1 .. Len(q) PROVE r[i - 1] = q[i]
  <2>1. PICK k \in 1 .. Len(q) - j : k = i - j
    BY <1>2
  <2>2. r[(j - 1) + k] = b[k] /\ b[k] = q[j + k]
    BY <1>7, <1>8, <1>9 DEF Joined
  <2>3. (j - 1) + k = i - 1 /\ j + k = i
    BY <1>2, <2>1
  <2> QED BY <2>2, <2>3
<1>12. r = RemoveAt(q, j)
  BY <1>3, <1>4, <1>7 DEF RemoveAt
<1>13. Removed(q, j, r)
  BY <1>7, <1>10, <1>11 DEF Removed, IsSeq
<1> QED BY <1>12, <1>13

\* The census of a queue: a key is in it once.
Keyed(q) == IsSeq(q) /\ \A i, j \in DOMAIN q : q[i].key = q[j].key => i = j

\* The entries of a queue.
Ents(q) == {q[i] : i \in DOMAIN q}

\* The positions of a queue.
LEMMA LenFacts ==
  ASSUME NEW q, IsSeq(q)
  PROVE  Len(q) \in Nat /\ DOMAIN q = 1 .. Len(q)
BY DEF IsSeq

\* There are finitely many of them.
LEMMA DomainFinite ==
  ASSUME NEW q, IsSeq(q)
  PROVE  IsFiniteSet(DOMAIN q) /\ Cardinality(DOMAIN q) = Len(q)
<1>1. Len(q) \in Nat /\ DOMAIN q = 1 .. Len(q)
  BY LenFacts
<1>2. PICK n \in Nat : n = Len(q)
  BY <1>1
<1>3. 1 \in Int /\ n \in Int
  BY <1>2
<1>4. IsFiniteSet(1 .. n) /\ Cardinality(1 .. n) = IF 1 > n THEN 0 ELSE n - 1 + 1
  BY <1>3, FS_Interval, Zenon
<1> QED BY <1>1, <1>2, <1>4

\* Push leaves the entries as they are and adds one.
LEMMA EnqueueFacts ==
  ASSUME NEW q, Keyed(q), NEW e, ~ Queued(q, e.key)
  PROVE  Keyed(Enqueue(q, e)) /\ Ents(Enqueue(q, e)) = Ents(q) \cup {e}
<1> DEFINE D == {i \in DOMAIN q : q[i].pri <= e.pri}
<1>1. IsSeq(q) /\ \A i, j \in DOMAIN q : q[i].key = q[j].key => i = j
  BY DEF Keyed
<1>2. Len(q) \in Nat /\ DOMAIN q = 1 .. Len(q)
  BY <1>1, LenFacts
<1>3. PICK k : k = Cardinality(D)
  OBVIOUS
<1>4. k \in 0 .. Len(q)
  <2>1. IsFiniteSet(DOMAIN q) /\ Cardinality(DOMAIN q) = Len(q)
    BY <1>1, DomainFinite
  <2>2. D \in SUBSET DOMAIN q
    OBVIOUS
  <2> HIDE DEF D
  <2>3. IsFiniteSet(D) /\ Cardinality(D) <= Cardinality(DOMAIN q)
    BY <2>1, <2>2, FS_Subset
  <2>4. Cardinality(D) \in Nat
    BY <2>3, FS_CardinalityType
  <2> QED BY <1>2, <1>3, <2>1, <2>3, <2>4
<1>5. PICK r : r = Enqueue(q, e) /\ Inserted(q, k, e, r)
  <2>1. Enqueue(q, e) = InsertAt(q, k + 1, e)
    BY <1>3 DEF Enqueue
  <2> QED BY <1>1, <1>4, <2>1, InsertAtFacts
<1>6. /\ IsSeq(r) /\ DOMAIN r = 1 .. Len(q) + 1 /\ r[k + 1] = e
      /\ \A i \in 1 .. k : r[i] = q[i]
      /\ \A i \in k + 1 .. Len(q) : r[i + 1] = q[i]
  BY <1>5 DEF Inserted
<1>7. \A i \in 1 .. Len(q) + 1 : \/ i \in 1 .. k /\ r[i] = q[i]
                                 \/ i = k + 1
                                 \/ i \in k + 2 .. Len(q) + 1 /\ r[i] = q[i - 1]
  <2> TAKE i \in 1 .. Len(q) + 1
  <2>1. CASE i <= k
    BY <1>6, <2>1
  <2>2. CASE i >= k + 2
    <3>1. i - 1 \in k + 1 .. Len(q) /\ (i - 1) + 1 = i
      BY <1>2, <1>4, <2>2
    <3> QED BY <1>2, <1>4, <1>6, <2>2, <3>1
  <2> QED BY <1>4, <2>1, <2>2
<1>8. \A i \in DOMAIN q : q[i].key # e.key
  BY DEF Queued
<1>9. ASSUME NEW i \in DOMAIN r, NEW j \in DOMAIN r, r[i].key = r[j].key
      PROVE  i = j
  <2>1. i \in Int /\ j \in Int /\ k \in Int /\ Len(q) \in Int
    BY <1>2, <1>4, <1>6
  <2>2. ASSUME NEW m \in DOMAIN r, m # k + 1
        PROVE  \E x \in DOMAIN q : r[m] = q[x] /\ x = IF m <= k THEN m ELSE m - 1
    BY <1>2, <1>4, <1>6, <1>7, <2>1, <2>2
  <2>3. ASSUME NEW m \in DOMAIN r, m # k + 1 PROVE r[m].key # r[k + 1].key
    <3>1. PICK x \in DOMAIN q : r[m] = q[x]
      BY <2>2, <2>3
    <3> QED BY <1>6, <1>8, <3>1
  <2>4. CASE i = k + 1 \/ j = k + 1
    BY <1>9, <2>3, <2>4
  <2>5. CASE i # k + 1 /\ j # k + 1
    <3>1. PICK x \in DOMAIN q : r[i] = q[x] /\ x = IF i <= k THEN i ELSE i - 1
      BY <2>2, <2>5
    <3>2. PICK y \in DOMAIN q : r[j] = q[y] /\ y = IF j <= k THEN j ELSE j - 1
      BY <2>2, <2>5
    <3>3. x = y
      BY <1>1, <1>9, <3>1, <3>2
    <3> QED BY <2>1, <2>5, <3>1, <3>2, <3>3
  <2> QED BY <2>4, <2>5
<1>10. Ents(r) \subseteq Ents(q) \cup {e}
  <2> SUFFICES ASSUME NEW i \in DOMAIN r PROVE r[i] \in Ents(q) \cup {e}
    BY DEF Ents
  <2>1. i \in 1 .. Len(q) + 1
    BY <1>6
  <2>2. CASE i \in 1 .. k /\ r[i] = q[i]
    <3>1. i \in DOMAIN q
      BY <1>2, <1>4, <2>2
    <3> QED BY <2>2, <3>1 DEF Ents
  <2>3. CASE i = k + 1
    BY <1>6, <2>3
  <2>4. CASE i \in k + 2 .. Len(q) + 1 /\ r[i] = q[i - 1]
    <3>1. i - 1 \in DOMAIN q
      BY <1>2, <1>4, <2>4
    <3> QED BY <2>4, <3>1 DEF Ents
  <2> QED BY <1>7, <2>1, <2>2, <2>3, <2>4
<1>11. Ents(q) \cup {e} \subseteq Ents(r)
  <2>1. k + 1 \in DOMAIN r
    BY <1>2, <1>4, <1>6
  <2>2. ASSUME NEW i \in DOMAIN q PROVE \E j \in DOMAIN r : r[j] = q[i]
    <3>1. CASE i <= k
      BY <1>2, <1>4, <1>6, <3>1
    <3>2. CASE ~ (i <= k)
      <4>1. i \in k + 1 .. Len(q) /\ i + 1 \in DOMAIN r
        BY <1>2, <1>4, <1>6, <3>2
      <4> QED BY <1>6, <4>1
    <3> QED BY <3>1, <3>2
  <2> QED BY <1>6, <2>1, <2>2 DEF Ents
<1> QED BY <1>5, <1>6, <1>9, <1>10, <1>11 DEF Keyed

\* RemoveByKey takes away what has the key and nothing else.
LEMMA RemoveFacts ==
  ASSUME NEW q, Keyed(q), NEW p
  PROVE  /\ Keyed(RemoveByKey(q, p))
         /\ Ents(RemoveByKey(q, p)) = {x \in Ents(q) : x.key # p}
<1>1. IsSeq(q) /\ \A i, j \in DOMAIN q : q[i].key = q[j].key => i = j
  BY DEF Keyed
<1>2. Len(q) \in Nat /\ DOMAIN q = 1 .. Len(q)
  BY <1>1, LenFacts
<1>3. CASE ~ Queued(q, p)
  BY <1>3 DEF RemoveByKey, Queued, Ents
<1>4. CASE Queued(q, p)
  <2>1. PICK k : k = CHOOSE i \in DOMAIN q : q[i].key = p
    OBVIOUS
  <2>2. k \in DOMAIN q /\ q[k].key = p
    BY <1>4, <2>1 DEF Queued
  <2>3. PICK r : r = RemoveByKey(q, p) /\ Removed(q, k, r)
    <3>1. RemoveByKey(q, p) = RemoveAt(q, k)
      BY <1>4, <2>1 DEF RemoveByKey
    <3> QED BY <1>1, <2>2, <3>1, RemoveAtFacts
  <2>4. /\ IsSeq(r) /\ DOMAIN r = 1 .. Len(q) - 1
        /\ \A i \in 1 .. k - 1 : r[i] = q[i]
        /\ \A i \in k + 1 .. Len(q) : r[i - 1] = q[i]
    BY <2>3 DEF Removed
  <2>5. ASSUME NEW i \in DOMAIN r
        PROVE  \E x \in DOMAIN q : r[i] = q[x] /\ x # k /\ x = IF i < k THEN i ELSE i + 1
    <3>1. i \in Int /\ k \in Int /\ i \in 1 .. Len(q) - 1
      BY <1>2, <2>2, <2>4
    <3>2. CASE i < k
      BY <1>2, <2>2, <2>4, <3>1, <3>2
    <3>3. CASE ~ (i < k)
      <4>1. i + 1 \in k + 1 .. Len(q) /\ (i + 1) - 1 = i /\ i + 1 \in DOMAIN q /\ i + 1 # k
        BY <1>2, <2>2, <3>1, <3>3
      <4> QED BY <2>4, <3>3, <4>1
    <3> QED BY <3>2, <3>3
  <2>6. ASSUME NEW i \in DOMAIN r, NEW j \in DOMAIN r, r[i].key = r[j].key
        PROVE  i = j
    <3>1. PICK x \in DOMAIN q : r[i] = q[x] /\ x # k /\ x = IF i < k THEN i ELSE i + 1
      BY <2>5
    <3>2. PICK y \in DOMAIN q : r[j] = q[y] /\ y # k /\ y = IF j < k THEN j ELSE j + 1
      BY <2>5
    <3>3. x = y
      BY <1>1, <2>6, <3>1, <3>2
    <3>4. i \in Int /\ j \in Int /\ k \in Int
      BY <1>2, <2>2, <2>4
    <3> QED BY <3>1, <3>2, <3>3, <3>4
  <2>7. ASSUME NEW i \in DOMAIN r PROVE r[i] \in Ents(q) /\ r[i].key # p
    <3>1. PICK x \in DOMAIN q : r[i] = q[x] /\ x # k
      BY <2>5
    <3> QED BY <1>1, <2>2, <3>1 DEF Ents
  <2>8. ASSUME NEW i \in DOMAIN q, q[i].key # p PROVE \E j \in DOMAIN r : r[j] = q[i]
    <3>1. i # k /\ i \in 1 .. Len(q) /\ k \in 1 .. Len(q)
      BY <1>2, <2>2, <2>8
    <3>2. CASE i < k
      <4>1. i \in 1 .. k - 1 /\ i \in DOMAIN r
        BY <1>2, <2>4, <3>1, <3>2
      <4> QED BY <2>4, <4>1
    <3>3. CASE ~ (i < k)
      <4>1. i \in k + 1 .. Len(q) /\ i - 1 \in DOMAIN r
        BY <1>2, <2>4, <3>1, <3>3
      <4> QED BY <2>4, <4>1
    <3> QED BY <3>2, <3>3
  <2>9. Ents(r) = {x \in Ents(q) : x.key # p}
    BY <2>7, <2>8 DEF Ents
  <2> QED BY <2>3, <2>4, <2>6, <2>9 DEF Keyed
<1> QED BY <1>3, <1>4

\* Entries are counted by their keys.
LEMMA KeyCount ==
  ASSUME NEW q, Keyed(q), NEW I \in SUBSET DOMAIN q
  PROVE  /\ IsFiniteSet({q[i].key : i \in I})
         /\ Cardinality({q[i].key : i \in I}) = Cardinality(I)
<1> DEFINE K == {q[i].key : i \in I}
           f == [i \in I |-> q[i].key]
<1>1. IsFiniteSet(I)
  <2>1. IsFiniteSet(DOMAIN q)
    BY DomainFinite DEF Keyed
  <2> QED BY <2>1, FS_Subset
<1>2. f \in Bijection(I, K)
  <2>1. f \in [I -> K] /\ \A k \in K : \E i \in I : f[i] = k
    OBVIOUS
  <2>2. \A i, j \in I : f[i] = f[j] => i = j
    BY DEF Keyed
  <2> HIDE DEF f, K
  <2> QED BY <2>1, <2>2 DEF Bijection, Injection, Surjection, IsInjective
<1> HIDE DEF f, K
<1>3. ExistsBijection(I, K)
  BY <1>2 DEF ExistsBijection
<1>4. IsFiniteSet(K) /\ Cardinality(K) = Cardinality(I)
  BY <1>1, <1>3, FS_Bijection
<1> QED BY <1>4 DEF K

\* The relation on which the least number of a set is found.
Less == {p \in Nat \X Nat : p[1] < p[2]}

\* The least of a set of numbers is one of them.
LEMMA MinIsIn ==
  ASSUME NEW S, S \subseteq Nat, S # {} PROVE Min(S) \in S
<1>1. IsWellFoundedOn(Less, Nat)
  BY NatLessThanWellFounded, Zenon DEF OpToRel, Less
<1>2. PICK x \in S : \A y \in S : ~ (<<y, x>> \in Less)
  BY <1>1, WFMin
<1>3. \A m, n \in Nat : m < n => <<m, n>> \in Less
  BY SMT DEF Less
<1>4. ASSUME NEW y \in S PROVE x <= y
  <2>1. x \in Nat /\ y \in Nat
    OBVIOUS
  <2>2. ~ (y < x)
    BY <1>2, <1>3, <2>1
  <2> QED
    BY <2>1, <2>2
<1> QED
  BY <1>4 DEF Min

\* t is s and then x.
Grown(s, x, t) ==
  /\ IsSeq(t) /\ Len(s) \in Nat
  /\ DOMAIN s = 1 .. Len(s) /\ DOMAIN t = 1 .. Len(s) + 1
  /\ t[Len(s) + 1] = x /\ \A k \in DOMAIN s : t[k] = s[k]

\* What Append returns.
LEMMA AppendFacts ==
  ASSUME NEW s, IsSeq(s), NEW x
  PROVE  Grown(s, x, Append(s, x))
<1>1. PICK S : s \in Seq(S)
  BY DEF IsSeq
<1>2. PICK T, t : T = S \cup {x} /\ t = Append(s, x)
  OBVIOUS
<1>3. s \in Seq(T)
  BY <1>1, <1>2
<1>4. t \in Seq(T) /\ Len(t) = Len(s) + 1 /\ Len(s) \in Nat /\ DOMAIN s = 1 .. Len(s)
  BY <1>2, <1>3
<1>5. t[Len(s) + 1] = x /\ \A k \in DOMAIN s : t[k] = s[k]
  BY <1>2, <1>3
<1>6. Grown(s, x, t)
  BY <1>4, <1>5 DEF IsSeq, Grown
<1> QED BY <1>2, <1>6

\* A queue whose first entry is popped.
LEMMA TailFacts ==
  ASSUME NEW q, Keyed(q), q # << >>
  PROVE  1 \in DOMAIN q /\ Keyed(Tail(q)) /\ Ents(Tail(q)) \subseteq Ents(q)
<1>1. PICK S : q \in Seq(S)
  BY DEF Keyed, IsSeq
<1>2. PICK t : t = Tail(q) /\ t \in Seq(S)
  <2>1. Tail(q) \in Seq(S)
    BY <1>1, HeadTailProperties
  <2> QED BY <2>1
<1>3. /\ 1 \in DOMAIN q /\ DOMAIN t \subseteq Int
      /\ \A k \in DOMAIN t : k + 1 \in DOMAIN q /\ t[k] = q[k + 1]
  BY <1>1, <1>2
<1>4. IsSeq(t)
  BY <1>2 DEF IsSeq
<1>5. ASSUME NEW i \in DOMAIN t, NEW j \in DOMAIN t, t[i].key = t[j].key PROVE i = j
  <2>1. i + 1 = j + 1
    BY <1>3, <1>5 DEF Keyed
  <2> QED BY <1>3, <2>1
<1> QED BY <1>2, <1>3, <1>4, <1>5 DEF Keyed, Ents

\* When nothing in the queue is less urgent, a new entry is the last one.
LEMMA EnqueueLast ==
  ASSUME NEW q, IsSeq(q), q # << >>, NEW e, \A i \in DOMAIN q : q[i].pri <= e.pri
  PROVE  Enqueue(q, e) # << >> /\ Enqueue(q, e)[1] = q[1]
<1>1. {i \in DOMAIN q : q[i].pri <= e.pri} = DOMAIN q
  OBVIOUS
<1>2. Cardinality(DOMAIN q) = Len(q)
  BY DomainFinite
<1>3. PICK n : n = Len(q) /\ n \in 0 .. Len(q) /\ n >= 1
  <2>1. PICK S : q \in Seq(S)
    BY DEF IsSeq
  <2> QED BY <2>1
<1>4. Enqueue(q, e) = InsertAt(q, n + 1, e)
  BY <1>1, <1>2, <1>3 DEF Enqueue
<1>5. PICK r : r = Enqueue(q, e) /\ Inserted(q, n, e, r)
  BY <1>3, <1>4, InsertAtFacts
<1>6. 1 \in DOMAIN r /\ r[1] = q[1]
  BY <1>3, <1>5 DEF Inserted
<1>7. r # << >>
  BY <1>6
<1> QED BY <1>5, <1>6, <1>7

-----------------------------------------------------------------------------
(* The dispatcher's round. *)

Ids == Streams \cup {Orphan}

RoundFields ==
  {"ids", "todo", "start", "source", "selected", "selectedID", "label", "rrApplied", "putOff"}

RoundType ==
  /\ DOMAIN round = RoundFields /\ round.start \in Nat
  /\ round.ids \subseteq Ids /\ round.todo \subseteq Ids
  /\ round.selected \in Streams \cup {None}
  /\ cached \subseteq Streams /\ rrCursor \in Nat

\* What the dispatcher has popped it holds until it has noted it.
HandType ==
  IF pc \in {"note", "packNote"}
  THEN DOMAIN hand = {"stream", "entry", "early"} /\ hand.stream \in Streams
  ELSE hand = NoEntry

\* The orphans are a queue of one priority.
OrphansInOrder == Keyed(orphanQueue) /\ \A x \in Ents(orphanQueue) : x.pri = 0

\* The stream selected is the one the number is taken from, or a ping was put off.
OwnNumber == round.label = round.selected \/ (round.selected = 0 /\ round.putOff)

SelectionPlaced ==
  /\ pc = "scan" /\ round.selected # None => round.selected = 0 /\ round.putOff
  /\ pc = "pop" /\ round.selected = None
       => orphanQueue # << >> /\ round.label = orphanQueue[1].key.stream
  /\ pc \in {"pop", "note"} /\ round.selected # None => OwnNumber
  /\ pc = "note" => hand.stream = round.selected

\* The blocks are put together after a packet was popped.
TaskPlaced ==
  /\ IsSeq(task)
  /\ pc \in {"load", "snapshot", "scan", "pop", "note"} => task = << >>

RoundInv ==
  /\ RoundType /\ HandType /\ OrphansInOrder /\ SelectionPlaced /\ TaskPlaced
  /\ OwnStreamUnlessPutOff

\* None and Orphan are not numbers of streams.
LEMMA NotStreams ==
  /\ Streams \subseteq Nat /\ 0 \in Streams
  /\ None \notin Streams /\ Orphan \notin Streams /\ None # Orphan
  /\ Orphan + 1 \in Nat /\ 0 \in Nat /\ Orphan < 0
BY TxQueueAssumption DEF None, Orphan

\* The dispatcher begins with an empty round.
LEMMA InitRound == Init => RoundInv
<1> SUFFICES ASSUME Init PROVE RoundInv
  OBVIOUS
<1>1. RoundType
  BY NotStreams DEF Init, NoRound, RoundType, RoundFields
<1>2. IsSeq(<< >>) /\ Keyed(<< >>) /\ Ents(<< >>) = {}
  <2>1. << >> \in Seq({}) /\ DOMAIN << >> = {}
    OBVIOUS
  <2> QED BY <2>1 DEF IsSeq, Keyed, Ents
<1> QED
  BY <1>1, <1>2 DEF Init, RoundInv, HandType, OrphansInOrder, SelectionPlaced, TaskPlaced,
                    OwnStreamUnlessPutOff

\* Steps of others that the dispatcher does not see.
LEMMA RoundUnseen ==
  ASSUME RoundInv, UNCHANGED <<orphanQueue, cached, rrCursor, pc, round, hand, task>>
  PROVE  RoundInv'
BY DEF RoundInv, RoundType, HandType, OrphansInOrder, SelectionPlaced, OwnNumber, TaskPlaced,
       OwnStreamUnlessPutOff

\* The mark on the packet in hand leaves the round as it is.
LEMMA RoundMarkInHand ==
  ASSUME RoundInv, NEW s \in Streams, MarkInHand(s) PROVE RoundInv'
<1>1. /\ UNCHANGED <<orphanQueue, cached, rrCursor, pc, round, task>>
      /\ hand' = [hand EXCEPT !.entry.counted = TRUE, !.early = FALSE] /\ hand.stream = s
  BY DEF MarkInHand, InHand
<1>2. hand # NoEntry
  BY <1>1, NotStreams DEF NoEntry
<1>3. pc \in {"note", "packNote"} /\ DOMAIN hand = {"stream", "entry", "early"}
  BY <1>2 DEF RoundInv, HandType
<1>4. DOMAIN hand' = {"stream", "entry", "early"} /\ hand'.stream = hand.stream
  BY <1>1, <1>3
<1>5. HandType'
  BY <1>1, <1>3, <1>4 DEF HandType
<1>6. SelectionPlaced'
  BY <1>1, <1>4 DEF RoundInv, SelectionPlaced, OwnNumber
<1> QED
  BY <1>1, <1>5, <1>6 DEF RoundInv, RoundType, OrphansInOrder, TaskPlaced, OwnStreamUnlessPutOff

\* enqueueOrphanReset: the first orphan stays the first.
LEMMA RoundOrphan ==
  ASSUME RoundInv, NEW o \in Orphans, EnqueueOrphanReset(o) PROVE RoundInv'
<1> DEFINE e == [pri |-> 0, key |-> o]
<1>1. /\ ~ Queued(orphanQueue, e.key) /\ orphanQueue' = Enqueue(orphanQueue, e) /\ e.pri = 0
      /\ UNCHANGED <<cached, rrCursor, pc, round, hand, task>>
  BY DEF EnqueueOrphanReset, dispatcherVars
<1>2. Keyed(orphanQueue) /\ \A x \in Ents(orphanQueue) : x.pri = 0
  BY DEF RoundInv, OrphansInOrder
<1> HIDE DEF e
<1>3. Keyed(orphanQueue') /\ Ents(orphanQueue') = Ents(orphanQueue) \cup {e}
  BY <1>1, <1>2, EnqueueFacts
<1>4. OrphansInOrder'
  BY <1>1, <1>2, <1>3 DEF OrphansInOrder
<1>5. orphanQueue # << >> => orphanQueue' # << >> /\ orphanQueue'[1] = orphanQueue[1]
  <2>1. \A i \in DOMAIN orphanQueue : orphanQueue[i].pri <= e.pri
    BY <1>1, <1>2 DEF Ents
  <2> QED BY <1>1, <1>2, <2>1, EnqueueLast DEF Keyed
<1>6. SelectionPlaced'
  BY <1>1, <1>5 DEF RoundInv, SelectionPlaced, OwnNumber
<1> QED
  BY <1>1, <1>4, <1>6 DEF RoundInv, RoundType, HandType, TaskPlaced, OwnStreamUnlessPutOff

\* The queue that is looked at next is one of those that are left.
LEMMA NextIsLeft ==
  ASSUME RoundType, round.todo # {}
  PROVE  NextID \in round.todo /\ NextID \in Ids /\ NextID + 1 \in Nat
<1> DEFINE ahead == {id \in round.todo : id >= round.start}
<1>1. round.todo \subseteq Ids /\ round.start \in Nat
  BY DEF RoundType
<1>2. ahead \subseteq Nat
  <2> SUFFICES ASSUME NEW id \in Ids, id >= round.start PROVE id \in Nat
    BY <1>1
  <2>1. CASE id = Orphan
    BY <1>1, <2>1 DEF Orphan
  <2> QED BY <2>1, NotStreams DEF Ids
<1>3. Orphan \notin round.todo => round.todo \subseteq Nat
  BY <1>1, NotStreams DEF Ids
<1>4. NextID \in round.todo
  <2>1. CASE ahead # {}
    <3>1. Min(ahead) \in ahead
      BY <1>2, <2>1, MinIsIn
    <3> QED BY <2>1, <3>1 DEF NextID
  <2>2. CASE ahead = {} /\ Orphan \in round.todo
    BY <2>2 DEF NextID
  <2>3. CASE ahead = {} /\ Orphan \notin round.todo
    <3>1. Min(round.todo) \in round.todo
      BY <1>3, <2>3, MinIsIn
    <3> QED BY <2>3, <3>1 DEF NextID
  <2> QED BY <2>1, <2>2, <2>3
<1>5. NextID \in Ids
  BY <1>1, <1>4
<1> QED BY <1>4, <1>5, NotStreams DEF Ids

\* Nothing is selected in r.
Fresh(r) ==
  /\ DOMAIN r = RoundFields /\ r.start \in Nat /\ r.selected = None
  /\ r.ids \subseteq Ids /\ r.todo \subseteq Ids

\* What a new round holds.
LEMMA NoRoundFacts == Fresh(NoRound)
BY DEF NoRound, RoundFields, Fresh

\* A round begins: nothing is selected.
LEMMA RoundBegin ==
  ASSUME RoundInv, pc \in {"load", "snapshot"}, NEW ids \in SUBSET Streams, Begin(ids),
         UNCHANGED <<orphanQueue, rrCursor, hand, task>>, cached' \subseteq Streams
  PROVE  RoundInv'
<1>1. RoundType' /\ round'.selected = None /\ pc' \in {"load", "scan"}
  <2> DEFINE all == ids \cup (IF orphanQueue # << >> THEN {Orphan} ELSE {})
             st == IF \E id \in ids : id >= rrCursor THEN rrCursor ELSE 0
  <2>1. all \subseteq Ids /\ st \in Nat
    BY NotStreams DEF Ids, RoundInv, RoundType
  <2>2. \/ pc' = "load" /\ round' = NoRound
        \/ pc' = "scan" /\ round' = [NoRound EXCEPT !.ids = all, !.todo = all, !.start = st]
    BY DEF Begin
  <2> HIDE DEF all, st
  <2>3. Fresh(round')
    <3>1. CASE round' = NoRound
      BY <3>1, NoRoundFacts
    <3>2. CASE round' = [NoRound EXCEPT !.ids = all, !.todo = all, !.start = st]
      <4>1. PICK n : n = NoRound /\ Fresh(n)
        BY NoRoundFacts
      <4>2. round' = [n EXCEPT !.ids = all, !.todo = all, !.start = st]
        BY <3>2, <4>1
      <4> QED BY <2>1, <4>1, <4>2 DEF RoundFields, Fresh
    <3> QED BY <2>2, <3>1, <3>2
  <2> QED BY <2>2, <2>3 DEF RoundInv, RoundType, Fresh
<1>2. HandType' /\ TaskPlaced' /\ OrphansInOrder'
  BY <1>1 DEF RoundInv, HandType, TaskPlaced, OrphansInOrder
<1>3. SelectionPlaced'
  BY <1>1 DEF SelectionPlaced
<1>4. OwnStreamUnlessPutOff'
  BY <1>1 DEF RoundInv, TaskPlaced, OwnStreamUnlessPutOff
<1> QED BY <1>1, <1>2, <1>3, <1>4 DEF RoundInv

\* A round begins with the streams that are cached.
LEMMA RoundLoad == ASSUME RoundInv, LoadVersion PROVE RoundInv'
<1>1. /\ pc = "load" /\ UNCHANGED <<orphanQueue, cached, rrCursor, hand, task>>
  BY DEF LoadVersion
<1>2. CASE versionNew
  <2>1. pc' = "snapshot" /\ round' = round
    BY <1>2 DEF LoadVersion
  <2> QED
    BY <1>1, <2>1 DEF RoundInv, RoundType, HandType, OrphansInOrder, SelectionPlaced, TaskPlaced,
                      OwnStreamUnlessPutOff
<1>3. CASE ~ versionNew
  <2>1. Begin(cached) /\ cached \subseteq Streams
    BY <1>3 DEF LoadVersion, RoundInv, RoundType
  <2> QED BY <1>1, <2>1, RoundBegin
<1> QED BY <1>2, <1>3

\* A round begins with the streams that are active.
LEMMA RoundSnapshot == ASSUME RoundInv, Snapshot PROVE RoundInv'
<1>1. /\ pc = "snapshot" /\ UNCHANGED <<orphanQueue, rrCursor, hand, task>>
      /\ Begin(active) /\ cached' = active /\ active \subseteq Streams
  BY DEF Snapshot, active
<1> QED BY <1>1, RoundBegin

\* The round is over, or waits for another one.
LEMMA RoundEnds ==
  ASSUME RoundInv, pc' = "load", round' = NoRound, hand' = NoEntry, task' = << >>,
         UNCHANGED <<cached, rrCursor>>, OrphansInOrder'
  PROVE  RoundInv'
<1>1. RoundType'
  BY NotStreams DEF RoundInv, RoundType, RoundFields, NoRound
<1>2. IsSeq(<< >>)
  <2>1. << >> \in Seq({})
    OBVIOUS
  <2> QED BY <2>1 DEF IsSeq
<1> QED
  BY <1>1, <1>2 DEF RoundInv, HandType, SelectionPlaced, TaskPlaced, OwnStreamUnlessPutOff

\* An empty queue is passed over.
LEMMA RoundScanEmpty == ASSUME RoundInv, ScanEmpty PROVE RoundInv'
<1>1. /\ pc = "scan" /\ round' = [round EXCEPT !.todo = @ \ {NextID}]
      /\ UNCHANGED <<orphanQueue, cached, rrCursor, pc, hand, task>>
  BY DEF ScanEmpty, ScanUnchanged
<1>2. DOMAIN round = RoundFields
  BY DEF RoundInv, RoundType
<1>3. /\ DOMAIN round' = RoundFields /\ round'.start = round.start
      /\ round'.ids = round.ids /\ round'.todo \subseteq round.todo
      /\ round'.selected = round.selected /\ round'.putOff = round.putOff
  BY <1>1, <1>2 DEF RoundFields
<1>4. RoundType'
  BY <1>1, <1>3 DEF RoundInv, RoundType
<1>5. SelectionPlaced'
  BY <1>1, <1>3 DEF RoundInv, SelectionPlaced
<1> QED
  BY <1>1, <1>3, <1>4, <1>5 DEF RoundInv, HandType, OrphansInOrder, TaskPlaced, OwnStreamUnlessPutOff

\* A queue with a packet is found. "selected" stays what a ping that was put off has
\* made of it when the packet is an orphan.
LEMMA RoundScanFound == ASSUME RoundInv, ScanFound PROVE RoundInv'
<1>1. PICK id : id = NextID
  OBVIOUS
<1>2. /\ pc = "scan" /\ HasWork(id) /\ rrCursor' \in {rrCursor, id + 1}
      /\ UNCHANGED <<orphanQueue, cached, hand, task>>
  BY <1>1 DEF ScanFound, ScanUnchanged
<1>3. id \in Ids /\ id + 1 \in Nat
  BY <1>1, NextIsLeft DEF ScanFound, RoundInv
<1>4. /\ DOMAIN round = RoundFields /\ round.start \in Nat
      /\ round.ids \subseteq Ids /\ round.todo \subseteq Ids
      /\ round.selected = None \/ (round.selected = 0 /\ round.putOff)
      /\ cached \subseteq Streams /\ rrCursor \in Nat
  BY <1>2 DEF RoundInv, RoundType, SelectionPlaced
<1>5. PICK c : c = Chosen(id)
  OBVIOUS
<1>6. /\ DOMAIN c = RoundFields /\ c.start = round.start /\ c.ids = round.ids
      /\ c.todo = round.todo /\ c.putOff = round.putOff
      /\ c.selected = (IF id = Orphan THEN round.selected ELSE id)
      /\ c.label = (IF id = Orphan THEN orphanQueue[1].key.stream ELSE id)
  BY <1>4, <1>5 DEF Chosen, RoundFields
<1>7. HandType' /\ OrphansInOrder' /\ OwnStreamUnlessPutOff' /\ TaskPlaced'
  <2>1. pc' \in {"scan", "pop"}
    BY <1>2 DEF ScanFound
  <2>2. task = << >>
    BY <1>2 DEF RoundInv, TaskPlaced
  <2> QED
    BY <1>2, <2>1, <2>2 DEF RoundInv, HandType, OrphansInOrder, TaskPlaced, OwnStreamUnlessPutOff
<1>8. CASE PutOff(id)
  <2>1. pc' = "scan" /\ round' = [c EXCEPT !.todo = @ \ {id}, !.putOff = TRUE] /\ id = 0
    BY <1>1, <1>2, <1>5, <1>8 DEF ScanFound, PutOff
  <2>2. /\ DOMAIN round' = RoundFields /\ round'.start = round.start /\ round'.ids = round.ids
        /\ round'.todo \subseteq round.todo /\ round'.putOff = TRUE /\ round'.selected = 0
    BY <1>6, <2>1, NotStreams DEF RoundFields
  <2>3. RoundType'
    BY <1>2, <1>3, <1>4, <2>2, NotStreams DEF RoundType
  <2>4. SelectionPlaced'
    BY <2>1, <2>2 DEF SelectionPlaced
  <2> QED BY <1>7, <2>3, <2>4 DEF RoundInv
<1>9. CASE ~ PutOff(id)
  <2>1. pc' = "pop" /\ round' = [c EXCEPT !.todo = {}, !.start = 0, !.rrApplied = FALSE]
    BY <1>1, <1>5, <1>9 DEF ScanFound
  <2>2. /\ DOMAIN round' = RoundFields /\ round'.start = 0 /\ round'.ids = round.ids
        /\ round'.todo = {} /\ round'.putOff = round.putOff
        /\ round'.selected = c.selected /\ round'.label = c.label
    BY <1>6, <2>1 DEF RoundFields
  <2>3. c.selected \in Streams \cup {None}
    BY <1>3, <1>4, <1>6, NotStreams DEF Ids
  <2>4. RoundType'
    BY <1>2, <1>3, <1>4, <2>2, <2>3, NotStreams DEF RoundType
  <2>5. SelectionPlaced'
    <3>1. CASE id = Orphan
      <4>1. orphanQueue # << >> /\ orphanQueue' = orphanQueue
        BY <1>2, <3>1 DEF HasWork, Queue
      <4>2. /\ round'.label = orphanQueue[1].key.stream
            /\ round'.selected = None \/ (round'.selected = 0 /\ round'.putOff)
        BY <1>4, <1>6, <2>2, <3>1
      <4> QED BY <2>1, <4>1, <4>2 DEF SelectionPlaced, OwnNumber
    <3>2. CASE id # Orphan
      <4>1. round'.label = round'.selected /\ round'.selected # None
        BY <1>3, <1>6, <2>2, <3>2, NotStreams DEF Ids
      <4> QED BY <2>1, <4>1 DEF SelectionPlaced, OwnNumber
    <3> QED BY <3>1, <3>2
  <2> QED BY <1>7, <2>4, <2>5 DEF RoundInv
<1> QED BY <1>8, <1>9

\* The packet is popped; the number is that of the round.
LEMMA RoundPopStream == ASSUME RoundInv, PopStream PROVE RoundInv'
<1>1. /\ pc = "pop" /\ round.selected # None /\ pc' = "note"
      /\ UNCHANGED <<orphanQueue, cached, rrCursor, round, task>>
  BY DEF PopStream
<1>2. DOMAIN hand' = {"stream", "entry", "early"} /\ hand'.stream = round.selected
  BY DEF PopStream, Take
<1>3. round.selected \in Streams
  BY <1>1 DEF RoundInv, RoundType
<1>4. HandType' /\ SelectionPlaced'
  BY <1>1, <1>2, <1>3 DEF RoundInv, HandType, SelectionPlaced, OwnNumber
<1> QED
  BY <1>1, <1>4 DEF RoundInv, RoundType, OrphansInOrder, TaskPlaced, OwnStreamUnlessPutOff

\* A control packet is popped to be packed.
LEMMA RoundPackPop == ASSUME RoundInv, PackPop PROVE RoundInv'
<1>1. /\ pc = "pack" /\ round.source \in Streams /\ pc' = "packNote"
      /\ UNCHANGED <<orphanQueue, cached, rrCursor, round, task>>
  BY DEF PackPop, Packing
<1>2. DOMAIN hand' = {"stream", "entry", "early"} /\ hand'.stream = round.source
  BY DEF PackPop, Take
<1> QED
  BY <1>1, <1>2 DEF RoundInv, RoundType, HandType, OrphansInOrder, SelectionPlaced, TaskPlaced,
                    OwnStreamUnlessPutOff

\* What may be said of a block of the task.
OwnBlock(b) == b.label = IF b.from = Orphan THEN b.pkt.stream ELSE b.from

\* A first block is there. It may have the number of an orphan if a ping was put off.
LEMMA RoundLaunch ==
  ASSUME RoundInv, NEW b, Launch(b), hand' = NoEntry, UNCHANGED <<cached, rrCursor>>,
         OrphansInOrder', OwnBlock(b) \/ (b.from = 0 /\ round.putOff)
  PROVE  RoundInv'
<1>1. PICK n : n = NoRound /\ Fresh(n)
  BY NoRoundFacts
<1>2. /\ DOMAIN round = RoundFields /\ round.ids \subseteq Ids
      /\ cached \subseteq Streams /\ rrCursor \in Nat
  BY DEF RoundInv, RoundType
<1>3. task' = <<b>> /\ pc' \in {"pack", "send"}
  BY DEF Launch, Send
<1>4. \/ round' = [n EXCEPT !.putOff = round.putOff]
      \/ \E src : round' = [n EXCEPT !.putOff = round.putOff, !.todo = round.ids \ {round.selectedID},
                                    !.source = src]
  BY <1>1 DEF Launch, Send
<1>5. Fresh(round') /\ round'.putOff = round.putOff
  <2>1. CASE round' = [n EXCEPT !.putOff = round.putOff]
    BY <1>1, <2>1 DEF Fresh, RoundFields
  <2>2. ASSUME NEW src, round' = [n EXCEPT !.putOff = round.putOff,
                                    !.todo = round.ids \ {round.selectedID}, !.source = src]
        PROVE  Fresh(round') /\ round'.putOff = round.putOff
    BY <1>1, <1>2, <2>2 DEF Fresh, RoundFields
  <2> QED BY <1>4, <2>1, <2>2
<1>6. RoundType'
  BY <1>2, <1>5 DEF Fresh, RoundType
<1>7. IsSeq(<<b>>) /\ DOMAIN <<b>> = {1} /\ <<b>>[1] = b
  <2>1. <<b>> \in Seq({b})
    OBVIOUS
  <2>2. IsSeq(<<b>>)
    BY <2>1 DEF IsSeq
  <2>3. DOMAIN <<b>> = 1 .. 1 /\ 1 .. 1 = {1} /\ <<b>>[1] = b
    OBVIOUS
  <2> QED BY <2>2, <2>3
<1>8. HandType' /\ SelectionPlaced' /\ TaskPlaced'
  BY <1>3, <1>7 DEF HandType, SelectionPlaced, TaskPlaced
<1>9. OwnStreamUnlessPutOff'
  BY <1>3, <1>5, <1>7 DEF OwnStreamUnlessPutOff, OwnBlock
<1> QED BY <1>6, <1>8, <1>9 DEF RoundInv

\* An orphan is popped: its number is the one that was peeked.
LEMMA RoundPopOrphan == ASSUME RoundInv, PopOrphan PROVE RoundInv'
<1> DEFINE b == Block(Orphan, round.label, orphanQueue[1].key)
<1>1. /\ pc = "pop" /\ round.selected = None /\ orphanQueue' = Tail(orphanQueue)
      /\ Launch(b) /\ UNCHANGED <<cached, rrCursor, hand>>
  BY DEF PopOrphan
<1>2. orphanQueue # << >> /\ round.label = orphanQueue[1].key.stream
  BY <1>1 DEF RoundInv, SelectionPlaced
<1>3. OrphansInOrder'
  BY <1>1, <1>2, TailFacts DEF RoundInv, OrphansInOrder
<1>4. hand' = NoEntry
  BY <1>1 DEF RoundInv, HandType
<1>5. OwnBlock(b)
  BY <1>2 DEF OwnBlock, Block
<1> HIDE DEF b
<1> QED BY <1>1, <1>3, <1>4, <1>5, RoundLaunch

\* A packet of the stream selected is launched.
LEMMA RoundNoteSelected == ASSUME RoundInv, NoteSelected PROVE RoundInv'
<1> DEFINE b == Block(hand.stream, round.label, hand.entry.key)
<1>1. /\ pc = "note" /\ Launch(b) /\ hand' = NoEntry
      /\ UNCHANGED <<orphanQueue, cached, rrCursor>>
  BY DEF NoteSelected, NoteDequeued, NoteUnchanged
<1>2. hand.stream \in Streams /\ hand.stream = round.selected
  BY <1>1 DEF RoundInv, HandType, SelectionPlaced
<1>3. round.label = round.selected \/ (round.selected = 0 /\ round.putOff)
  BY <1>1, <1>2, NotStreams DEF RoundInv, SelectionPlaced, OwnNumber
<1>4. OwnBlock(b) \/ (b.from = 0 /\ round.putOff)
  <2>1. b.from = hand.stream /\ b.label = round.label
    BY DEF Block
  <2> HIDE DEF b
  <2> QED BY <1>2, <1>3, <2>1, NotStreams DEF OwnBlock
<1>5. OrphansInOrder'
  BY <1>1 DEF RoundInv, OrphansInOrder
<1> HIDE DEF b
<1> QED BY <1>1, <1>4, <1>5, RoundLaunch

\* A block is added to those that are there.
LEMMA RoundAppend ==
  ASSUME RoundInv, NEW b, OwnBlock(b), task' = Append(task, b), pc' = "pack",
         UNCHANGED <<cached, rrCursor, round>>, hand' = NoEntry, OrphansInOrder'
  PROVE  RoundInv'
<1>1. Grown(task, b, task')
  BY AppendFacts DEF RoundInv, TaskPlaced
<1>2. TaskPlaced' /\ HandType' /\ SelectionPlaced' /\ RoundType'
  BY <1>1 DEF Grown, TaskPlaced, HandType, SelectionPlaced, RoundInv, RoundType
<1>3. OwnStreamUnlessPutOff'
  <2> SUFFICES ASSUME NEW i \in DOMAIN task'
               PROVE  OwnBlock(task'[i]) \/ (task'[i].from = 0 /\ round'.putOff /\ i = 1)
    BY DEF OwnStreamUnlessPutOff, OwnBlock
  <2>1. CASE i \in DOMAIN task
    <3>1. task'[i] = task[i]
      BY <1>1, <2>1 DEF Grown
    <3> QED BY <2>1, <3>1 DEF RoundInv, OwnStreamUnlessPutOff, OwnBlock
  <2>2. CASE i \notin DOMAIN task
    <3>1. i = Len(task) + 1
      BY <1>1, <2>2 DEF Grown
    <3> QED BY <1>1, <3>1 DEF Grown
  <2> QED BY <2>1, <2>2
<1> QED BY <1>2, <1>3 DEF RoundInv

\* A packet is added under the number of its own stream.
LEMMA RoundPackNote == ASSUME RoundInv, PackNote PROVE RoundInv'
<1> DEFINE b == Block(hand.stream, hand.stream, hand.entry.key)
<1>1. /\ pc = "packNote" /\ hand' = NoEntry /\ task' = Append(task, b) /\ pc' = "pack"
      /\ UNCHANGED <<orphanQueue, cached, rrCursor, round>>
  BY DEF PackNote, NoteDequeued, NoteUnchanged
<1>2. hand.stream \in Streams
  BY <1>1 DEF RoundInv, HandType
<1>3. OwnBlock(b)
  BY <1>2, NotStreams DEF OwnBlock, Block
<1>4. OrphansInOrder'
  BY <1>1 DEF RoundInv, OrphansInOrder
<1> HIDE DEF b
<1> QED BY <1>1, <1>3, <1>4, RoundAppend

\* An orphan is added under the number of its own stream.
LEMMA RoundPackOrphan == ASSUME RoundInv, PackOrphan PROVE RoundInv'
<1> DEFINE o == First(Orphan).key
           b == Block(Orphan, o.stream, o)
<1>1. /\ pc = "pack" /\ orphanQueue' = RemoveByKey(orphanQueue, o) /\ task' = Append(task, b)
      /\ UNCHANGED <<cached, rrCursor, pc, round, hand>>
  BY DEF PackOrphan, Packing
<1>2. hand' = NoEntry /\ pc' = "pack"
  BY <1>1 DEF RoundInv, HandType
<1>3. OwnBlock(b)
  BY DEF OwnBlock, Block
<1> HIDE DEF o, b
<1>4. OrphansInOrder'
  BY <1>1, RemoveFacts DEF RoundInv, OrphansInOrder
<1> QED BY <1>1, <1>2, <1>3, <1>4, RoundAppend

\* The next source of control packets.
LEMMA RoundPackNext == ASSUME RoundInv, PackNext PROVE RoundInv'
<1>1. /\ pc = "pack" /\ UNCHANGED <<orphanQueue, cached, rrCursor, pc, hand, task>>
      /\ \E id, src : round' = [round EXCEPT !.todo = @ \ {id}, !.source = src]
  BY DEF PackNext, Packing
<1>2. PICK id, src : round' = [round EXCEPT !.todo = @ \ {id}, !.source = src]
  BY <1>1
<1>3. DOMAIN round = RoundFields
  BY DEF RoundInv, RoundType
<1>4. /\ DOMAIN round' = RoundFields /\ round'.start = round.start
      /\ round'.ids = round.ids /\ round'.todo \subseteq round.todo
      /\ round'.selected = round.selected /\ round'.putOff = round.putOff
  BY <1>2, <1>3 DEF RoundFields
<1>5. RoundType' /\ SelectionPlaced'
  BY <1>1, <1>4 DEF RoundInv, RoundType, SelectionPlaced
<1> QED
  BY <1>1, <1>4, <1>5 DEF RoundInv, HandType, OrphansInOrder, TaskPlaced, OwnStreamUnlessPutOff

\* The blocks go to the planner.
LEMMA RoundPackDone == ASSUME RoundInv, PackDone PROVE RoundInv'
<1>1. /\ pc = "pack" /\ UNCHANGED <<orphanQueue, cached, rrCursor, hand>> /\ task' = task
      /\ pc' = "send" /\ round' = [NoRound EXCEPT !.putOff = round.putOff]
  BY DEF PackDone, Send
<1>2. PICK n : n = NoRound /\ Fresh(n)
  BY NoRoundFacts
<1>3. round' = [n EXCEPT !.putOff = round.putOff]
  BY <1>1, <1>2
<1>4. Fresh(round') /\ round'.putOff = round.putOff
  BY <1>2, <1>3 DEF Fresh, RoundFields
<1>5. RoundType' /\ SelectionPlaced'
  BY <1>1, <1>4 DEF Fresh, RoundInv, RoundType, SelectionPlaced
<1> QED
  BY <1>1, <1>4, <1>5 DEF RoundInv, HandType, OrphansInOrder, TaskPlaced, OwnStreamUnlessPutOff

\* The steps that end a round.
LEMMA RoundOvers ==
  ASSUME RoundInv, ScanNothing \/ PopNothing \/ NoteUnwanted \/ PlannerTake \/ PlannerRequeue
  PROVE  RoundInv'
<1>1. pc' = "load" /\ round' = NoRound /\ UNCHANGED <<orphanQueue, cached, rrCursor>>
  BY DEF ScanNothing, ScanUnchanged, PopNothing, NoteUnwanted, NoteUnchanged, PlannerTake,
         PlannerRequeue, RoundOver
<1>2. hand' = NoEntry /\ task' = << >>
  <2>1. CASE ScanNothing \/ PopNothing
    BY <2>1 DEF ScanNothing, ScanUnchanged, PopNothing, RoundInv, HandType, TaskPlaced
  <2>2. CASE NoteUnwanted
    BY <2>2 DEF NoteUnwanted, NoteDequeued, RoundInv, TaskPlaced
  <2>3. CASE PlannerTake \/ PlannerRequeue
    BY <2>3 DEF PlannerTake, PlannerRequeue, RoundOver, RoundInv, HandType
  <2> QED BY <2>1, <2>2, <2>3
<1>3. OrphansInOrder'
  BY <1>1 DEF RoundInv, OrphansInOrder
<1> QED BY <1>1, <1>2, <1>3, RoundEnds

\* Every step preserves the invariant of the round.
LEMMA RoundStep == ASSUME RoundInv, [Next]_vars PROVE RoundInv'
<1>1. CASE UNCHANGED vars
  BY <1>1, RoundUnseen DEF vars
<1>2. ASSUME NEW s \in Streams,
             \/ \E p \in Packets[s] :
                  PushTXPacket(s, p) \/ RemoveQueuedData(s, p.sn) \/ RemoveQueuedDataNack(s, p.sn)
             \/ FinishPush(s) \/ NewStream(s) \/ DeleteStream(s) \/ FinishChange(s)
      PROVE  RoundInv'
  <2>1. CASE MarkInHand(s)
    BY <2>1, RoundMarkInHand
  <2>2. CASE ~ MarkInHand(s)
    <3>1. UNCHANGED <<orphanQueue, cached, rrCursor, pc, round, hand, task>>
      BY <1>2, <2>2
         DEF PushTXPacket, RemoveQueuedData, RemoveQueuedDataNack, RemoveQueued, FinishPush,
             MarkQueued, MarkLost, AddCount, ReplaceData, NewStream, DeleteStream,
             FinishChange, BumpNew, CleanupResources, dispatcherVars
    <3> QED BY <3>1, RoundUnseen
  <2> QED BY <2>1, <2>2
<1>3. ASSUME NEW o \in Orphans, EnqueueOrphanReset(o) PROVE RoundInv'
  BY <1>3, RoundOrphan
<1>4. CASE Dispatch
  BY <1>4, RoundLoad, RoundSnapshot, RoundScanEmpty, RoundScanFound, RoundOvers, RoundPopStream,
     RoundPopOrphan, RoundNoteSelected, RoundPackPop, RoundPackNote, RoundPackOrphan,
     RoundPackNext, RoundPackDone
     DEF Dispatch
<1>5. CASE PlannerTake \/ PlannerRequeue
  BY <1>5, RoundOvers
<1> QED BY <1>1, <1>2, <1>3, <1>4, <1>5 DEF Next

EntryOK(x) == DOMAIN x = {"pri", "key", "counted"} /\ x.counted \in BOOLEAN

QueueType(s) == Keyed(txQueue[s]) /\ \A x \in Ents(txQueue[s]) : EntryOK(x)

\* A push that is not over.
PushType(s) ==
  \/ pushing[s] = Idle
  \/ /\ DOMAIN pushing[s] = {"pc", "pkt"}
     /\ pushing[s].pc \in {"mark", "add", "replace"}

HeldType == pc \in {"note", "packNote"} => EntryOK(hand.entry) /\ hand.early \in BOOLEAN

CountType ==
  /\ DOMAIN txQueue = Streams /\ DOMAIN pushing = Streams /\ DOMAIN life = Streams
  /\ controlCount \in [Streams -> Int]
  /\ \A s \in Streams : QueueType(s) /\ PushType(s)
  /\ HeldType

\* A control packet in the queue is counted, or its push is about to mark it.
EntriesMarked(s) ==
  \A x \in Ents(txQueue[s]) :
    /\ Packable(x.key) <=> (x.counted \/ Unmarked(s, x.key))
    /\ ~ (x.counted /\ Unmarked(s, x.key))

\* So is the one in the dispatcher's hand.
HeldMarked(s) ==
  hand.stream = s =>
    /\ hand.early => /\ ~ hand.entry.counted
                     /\ Unmarked(s, hand.entry.key) /\ ~ Queued(txQueue[s], hand.entry.key)
    /\ Packable(hand.entry.key) <=> (hand.entry.counted \/ hand.early)

\* What is to be marked can be found.
MarkFinds(s) ==
  pushing[s].pc = "mark" => Queued(txQueue[s], pushing[s].pkt) \/ InHand(s)

CountedKeys(q) == {x.key : x \in {y \in Ents(q) : y.counted}}

One(b) == IF b THEN 1 ELSE 0

\* The counter and what is about to be added to it are the marks there are.
SumsUp(s) ==
  life[s] # "gone" =>
    controlCount[s] + One(pushing[s].pc = "add")
      = Cardinality(CountedKeys(txQueue[s])) + One(hand.stream = s /\ hand.entry.counted)

StreamOK(s) == EntriesMarked(s) /\ HeldMarked(s) /\ MarkFinds(s) /\ SumsUp(s)

Marks == CountType /\ \A s \in Streams : StreamOK(s)

\* After a race the marks may be anywhere.
CountInv == races \in Nat /\ (races = 0 => Marks)

-----------------------------------------------------------------------------
(* The marks in a queue. *)

\* The marks of a queue can be counted, by position or by key.
LEMMA CountedFinite ==
  ASSUME NEW q, Keyed(q)
  PROVE  /\ IsFiniteSet(CountedKeys(q)) /\ Cardinality(CountedKeys(q)) \in Nat
         /\ Cardinality({i \in DOMAIN q : q[i].counted}) = Cardinality(CountedKeys(q))
<1> DEFINE I == {i \in DOMAIN q : q[i].counted}
<1>1. CountedKeys(q) = {q[i].key : i \in I}
  BY DEF CountedKeys, Ents
<1>2. I \in SUBSET DOMAIN q
  OBVIOUS
<1> HIDE DEF I
<1>3. IsFiniteSet(CountedKeys(q)) /\ Cardinality(CountedKeys(q)) = Cardinality(I)
  BY <1>1, <1>2, KeyCount
<1>4. Cardinality(CountedKeys(q)) \in Nat
  BY <1>3, FS_CardinalityType
<1> QED BY <1>3, <1>4 DEF I

\* A packet without a mark adds none.
LEMMA EnqueueCounted ==
  ASSUME NEW q, Keyed(q), NEW e, ~ Queued(q, e.key), e.counted = FALSE
  PROVE  CountedKeys(Enqueue(q, e)) = CountedKeys(q)
BY EnqueueFacts DEF CountedKeys

\* A packet takes its mark with it.
LEMMA RemoveCounted ==
  ASSUME NEW q, Keyed(q), NEW p
  PROVE  CountedKeys(RemoveByKey(q, p)) = CountedKeys(q) \ {p}
BY RemoveFacts DEF CountedKeys

\* An entry is known by its key.
LEMMA EntryOfKey ==
  ASSUME NEW q, Keyed(q), NEW x \in Ents(q)
  PROVE  /\ x.key \in CountedKeys(q) <=> x.counted
         /\ Queued(q, x.key)
         /\ \A y \in Ents(q) : y.key = x.key => y = x
<1>1. PICK i \in DOMAIN q : x = q[i]
  BY DEF Ents
<1>2. Queued(q, x.key)
  BY <1>1 DEF Queued
<1>3. ASSUME NEW y \in Ents(q), y.key = x.key PROVE y = x
  <2>1. PICK j \in DOMAIN q : y = q[j]
    BY DEF Ents
  <2> QED BY <1>1, <1>3, <2>1 DEF Keyed
<1>4. x.key \in CountedKeys(q) <=> x.counted
  BY <1>3 DEF CountedKeys
<1> QED BY <1>2, <1>3, <1>4

\* CompareAndSwap(false, true) on the packet p.
LEMMA MarkedFacts ==
  ASSUME NEW q, Keyed(q), NEW p, \A x \in Ents(q) : EntryOK(x)
  PROVE  /\ Keyed(Marked(q, p)) /\ \A x \in Ents(Marked(q, p)) : EntryOK(x)
         /\ \A x \in Ents(Marked(q, p)) : IF x.key = p THEN x.counted ELSE x \in Ents(q)
         /\ Queued(q, p) => CountedKeys(Marked(q, p)) = CountedKeys(q) \cup {p}
         /\ \A k : Queued(Marked(q, p), k) <=> Queued(q, k)
<1>1. PICK r : r = Marked(q, p)
  OBVIOUS
<1>2. r = [i \in DOMAIN q |-> IF q[i].key = p THEN [q[i] EXCEPT !.counted = TRUE] ELSE q[i]]
  BY <1>1 DEF Marked
<1>3. ASSUME NEW i \in DOMAIN q
      PROVE  /\ DOMAIN r[i] = {"pri", "key", "counted"} /\ r[i].key = q[i].key
             /\ q[i].key = p => r[i].counted = TRUE
             /\ q[i].key # p => r[i] = q[i]
  <2>1. EntryOK(q[i])
    BY DEF Ents
  <2>2. CASE q[i].key = p
    <3>1. r[i] = [q[i] EXCEPT !.counted = TRUE]
      BY <1>2, <2>2
    <3> QED BY <2>1, <2>2, <3>1 DEF EntryOK
  <2>3. CASE q[i].key # p
    BY <1>2, <2>1, <2>3 DEF EntryOK
  <2> QED BY <2>2, <2>3
<1>4. DOMAIN r = DOMAIN q
  BY <1>2
<1>5. IsSeq(r)
  <2>1. Len(q) \in Nat /\ DOMAIN q = 1 .. Len(q)
    BY LenFacts DEF Keyed
  <2>2. PICK n \in Nat : DOMAIN r = 1 .. n
    BY <1>4, <2>1
  <2>3. PICK T : T = {r[i] : i \in 1 .. n}
    OBVIOUS
  <2>4. r \in [1 .. n -> T]
    BY <1>2, <1>4, <2>2, <2>3
  <2>5. Seq(T) = UNION {[1 .. m -> T] : m \in Nat}
    BY SeqDef, Zenon
  <2>6. r \in UNION {[1 .. m -> T] : m \in Nat}
    BY <2>4
  <2> QED BY <2>5, <2>6 DEF IsSeq
<1>6. Keyed(r)
  BY <1>3, <1>4, <1>5 DEF Keyed
<1>7. \A x \in Ents(r) : EntryOK(x)
  <2> SUFFICES ASSUME NEW i \in DOMAIN q PROVE EntryOK(r[i])
    BY <1>4 DEF Ents
  <2>1. EntryOK(q[i])
    BY DEF Ents
  <2> QED BY <1>3, <2>1 DEF EntryOK
<1>8. \A x \in Ents(r) : IF x.key = p THEN x.counted ELSE x \in Ents(q)
  <2> SUFFICES ASSUME NEW i \in DOMAIN q PROVE IF r[i].key = p THEN r[i].counted ELSE r[i] \in Ents(q)
    BY <1>4 DEF Ents
  <2> QED BY <1>3 DEF Ents
<1>9. ASSUME Queued(q, p) PROVE CountedKeys(r) = CountedKeys(q) \cup {p}
  <2>1. CountedKeys(r) \subseteq CountedKeys(q) \cup {p}
    BY <1>8 DEF CountedKeys
  <2>2. p \in CountedKeys(r)
    <3>1. PICK i \in DOMAIN q : q[i].key = p
      BY <1>9 DEF Queued
    <3>2. r[i] \in Ents(r) /\ r[i].key = p /\ r[i].counted = TRUE
      BY <1>3, <1>4, <3>1 DEF Ents
    <3> QED BY <3>2 DEF CountedKeys
  <2>3. ASSUME NEW x \in Ents(q), x.counted, x.key # p PROVE x.key \in CountedKeys(r)
    <3>1. PICK i \in DOMAIN q : q[i] = x
      BY DEF Ents
    <3>2. r[i] = x /\ x \in Ents(r)
      BY <1>3, <1>4, <2>3, <3>1 DEF Ents
    <3> QED BY <2>3, <3>2 DEF CountedKeys
  <2> QED BY <2>1, <2>2, <2>3 DEF CountedKeys
<1>10. \A k : Queued(r, k) <=> Queued(q, k)
  BY <1>3, <1>4 DEF Queued
<1> QED BY <1>1, <1>6, <1>7, <1>8, <1>9, <1>10

\* What a step at stream s leaves alone.
Apart(s) ==
  /\ DOMAIN txQueue' = Streams /\ DOMAIN pushing' = Streams /\ DOMAIN life' = Streams
  /\ controlCount' \in [Streams -> Int]
  /\ \A t \in Streams \ {s} : /\ txQueue'[t] = txQueue[t] /\ pushing'[t] = pushing[t]
                              /\ controlCount'[t] = controlCount[t] /\ life'[t] = life[t]
  /\ \/ hand' = hand
     \/ hand.stream \in {s, None} /\ hand'.stream \in {s, None}

\* The other streams stay as they are.
LEMMA OtherStream ==
  ASSUME NEW t \in Streams, QueueType(t), PushType(t), StreamOK(t),
         txQueue'[t] = txQueue[t], pushing'[t] = pushing[t],
         controlCount'[t] = controlCount[t], life'[t] = life[t],
         hand' = hand \/ (hand.stream # t /\ hand'.stream # t)
  PROVE  QueueType(t)' /\ PushType(t)' /\ StreamOK(t)'
<1>1. QueueType(t)' /\ PushType(t)'
  BY DEF QueueType, PushType
<1>2. EntriesMarked(t)'
  BY DEF StreamOK, EntriesMarked, Unmarked
<1>3. HeldMarked(t)' /\ MarkFinds(t)'
  <2>1. CASE hand' = hand
    BY <2>1 DEF StreamOK, HeldMarked, MarkFinds, InHand, Unmarked
  <2>2. CASE hand.stream # t /\ hand'.stream # t
    BY <2>2 DEF StreamOK, HeldMarked, MarkFinds, InHand, Unmarked
  <2> QED BY <2>1, <2>2
<1>4. SumsUp(t)'
  <2>1. One((hand.stream = t /\ hand.entry.counted)') = One(hand.stream = t /\ hand.entry.counted)
    BY DEF One
  <2> QED BY <2>1 DEF StreamOK, SumsUp
<1> QED BY <1>1, <1>2, <1>3, <1>4 DEF StreamOK

\* It is enough to look at the stream the step is about.
LEMMA OneStream ==
  ASSUME Marks, NEW s \in Streams, Apart(s), QueueType(s)', PushType(s)', HeldType',
         StreamOK(s)'
  PROVE  Marks'
<1>1. ASSUME NEW t \in Streams, t # s
      PROVE  QueueType(t)' /\ PushType(t)' /\ StreamOK(t)'
  <2>1. QueueType(t) /\ PushType(t) /\ StreamOK(t)
    BY DEF Marks, CountType
  <2>2. /\ txQueue'[t] = txQueue[t] /\ pushing'[t] = pushing[t]
        /\ controlCount'[t] = controlCount[t] /\ life'[t] = life[t]
        /\ hand' = hand \/ (hand.stream # t /\ hand'.stream # t)
    BY <1>1, NotStreams DEF Apart
  <2> QED BY <2>1, <2>2, OtherStream
<1>2. \A t \in Streams : QueueType(t)' /\ PushType(t)' /\ StreamOK(t)'
  BY <1>1
<1> QED BY <1>2 DEF Marks, CountType, Apart

\* What the invariant says of one stream.
LEMMA StreamFacts ==
  ASSUME Marks, NEW s \in Streams
  PROVE  /\ Keyed(txQueue[s]) /\ \A x \in Ents(txQueue[s]) : EntryOK(x)
         /\ PushType(s) /\ EntriesMarked(s) /\ HeldMarked(s) /\ MarkFinds(s) /\ SumsUp(s)
         /\ controlCount[s] \in Int
         /\ DOMAIN txQueue = Streams /\ DOMAIN pushing = Streams /\ DOMAIN life = Streams
         /\ controlCount \in [Streams -> Int] /\ HeldType
BY DEF Marks, CountType, QueueType, StreamOK

\* A step that touches no queue, push, counter or packet in hand.
LEMMA CountUnseen ==
  ASSUME Marks, HeldType', UNCHANGED <<txQueue, controlCount, pushing, life, hand>>
  PROVE  Marks'
<1>1. ASSUME NEW t \in Streams PROVE QueueType(t)' /\ PushType(t)' /\ StreamOK(t)'
  <2>1. QueueType(t) /\ PushType(t) /\ StreamOK(t)
    BY DEF Marks, CountType
  <2> QED BY <2>1, OtherStream
<1> QED BY <1>1 DEF Marks, CountType

-----------------------------------------------------------------------------
(* The goroutines of a stream. *)

\* No push is under way.
LEMMA IdleFacts ==
  ASSUME NEW s, pushing[s] = Idle
  PROVE  pushing[s].pc = "idle" /\ \A k : ~ Unmarked(s, k)
BY DEF Idle, Unmarked

\* What is left of a push when the packet is in the queue.
LEMMA RestFacts ==
  ASSUME NEW p, NEW r, r = Rest(p)
  PROVE  /\ r = Idle \/ (DOMAIN r = {"pc", "pkt"} /\ r.pc \in {"mark", "replace"})
         /\ Packable(p) => r.pc = "mark" /\ r.pkt = p
         /\ ~ Packable(p) => r.pc \in {"idle", "replace"}
<1>1. CASE Packable(p)
  BY <1>1 DEF Rest
<1>2. CASE ~ Packable(p) /\ p.kind = "resend"
  BY <1>2 DEF Rest
<1>3. CASE ~ Packable(p) /\ p.kind # "resend"
  BY <1>3 DEF Rest, Idle
<1> QED BY <1>1, <1>2, <1>3

\* A push as far as the insertion.
LEMMA CountInsert ==
  ASSUME Marks, NEW s \in Streams, NEW p, pushing[s] = Idle, ~ Queued(txQueue[s], p),
         txQueue' = [txQueue EXCEPT ![s] = Enqueue(@, Entry(p))],
         pushing' = [pushing EXCEPT ![s] = Rest(p)],
         UNCHANGED <<controlCount, life, hand>>, HeldType'
  PROVE  Marks'
<1>1. PICK q, e, r : /\ q = txQueue[s] /\ e = Entry(p) /\ r = Rest(p)
                     /\ txQueue'[s] = Enqueue(q, e) /\ pushing'[s] = r
  BY StreamFacts
<1>2. Apart(s)
  BY StreamFacts DEF Apart
<1>3. e.key = p /\ e.counted = FALSE /\ EntryOK(e)
  BY <1>1 DEF Entry, EntryOK
<1>4. Keyed(q) /\ ~ Queued(q, e.key) /\ \A x \in Ents(q) : EntryOK(x)
  BY <1>1, <1>3, StreamFacts
<1>5. /\ Keyed(txQueue'[s]) /\ Ents(txQueue'[s]) = Ents(q) \cup {e}
      /\ CountedKeys(txQueue'[s]) = CountedKeys(q)
  <2>1. Keyed(Enqueue(q, e)) /\ Ents(Enqueue(q, e)) = Ents(q) \cup {e}
    BY <1>4, EnqueueFacts, Zenon
  <2>2. CountedKeys(Enqueue(q, e)) = CountedKeys(q)
    BY <1>3, <1>4, EnqueueCounted, Zenon
  <2> QED BY <1>1, <2>1, <2>2
<1>6. pushing[s].pc = "idle" /\ \A k : ~ Unmarked(s, k)
  BY IdleFacts
<1>7. /\ r = Idle \/ (DOMAIN r = {"pc", "pkt"} /\ r.pc \in {"mark", "replace"})
      /\ Packable(p) => r.pc = "mark" /\ r.pkt = p
      /\ ~ Packable(p) => r.pc \in {"idle", "replace"}
  BY <1>1, RestFacts
<1>8. QueueType(s)' /\ PushType(s)'
  BY <1>1, <1>3, <1>4, <1>5, <1>7 DEF QueueType, PushType
<1>9. EntriesMarked(s)'
  <2>1. ASSUME NEW x \in Ents(q)
        PROVE  (Packable(x.key) <=> x.counted) /\ ~ Unmarked(s, x.key)'
    <3>1. Packable(x.key) <=> x.counted
      BY <1>1, <1>6, StreamFacts DEF EntriesMarked
    <3>2. x.key # p
      BY <1>3, <1>4, EntryOfKey
    <3> QED BY <1>1, <1>7, <3>1, <3>2 DEF Unmarked
  <2>2. Packable(p) <=> Unmarked(s, p)'
    BY <1>1, <1>7 DEF Unmarked
  <2> QED BY <1>3, <1>5, <2>1, <2>2 DEF EntriesMarked
<1>10. HeldMarked(s)'
  <2>1. hand.stream = s => ~ hand.early
    BY <1>6, StreamFacts DEF HeldMarked
  <2> QED BY <2>1, StreamFacts DEF HeldMarked
<1>11. MarkFinds(s)'
  <2>1. e \in Ents(txQueue'[s])
    BY <1>5
  <2>2. Queued(txQueue'[s], p)
    BY <1>3, <1>5, <2>1, EntryOfKey
  <2> QED BY <1>1, <1>7, <2>2 DEF MarkFinds
<1>12. SumsUp(s)'
  <2>1. One((pushing[s].pc = "add")') = One(pushing[s].pc = "add")
    BY <1>1, <1>6, <1>7 DEF One
  <2> QED BY <1>1, <1>5, <2>1, StreamFacts DEF SumsUp
<1> QED BY <1>2, <1>8, <1>9, <1>10, <1>11, <1>12, OneStream DEF StreamOK

\* One of the steps after the insertion that touches neither the queue nor the hand.
LEMMA CountPushed ==
  ASSUME Marks, NEW s \in Streams, PushType(s)', HeldType',
         DOMAIN pushing' = Streams, \A t \in Streams \ {s} : pushing'[t] = pushing[t],
         \A k : Unmarked(s, k)' <=> Unmarked(s, k), MarkFinds(s)', SumsUp(s)',
         controlCount' \in [Streams -> Int],
         \A t \in Streams \ {s} : controlCount'[t] = controlCount[t],
         UNCHANGED <<txQueue, life, hand>>
  PROVE  Marks'
<1>1. Apart(s)
  BY StreamFacts DEF Apart
<1>2. QueueType(s)'
  BY StreamFacts DEF QueueType
<1>3. EntriesMarked(s)'
  BY StreamFacts DEF EntriesMarked
<1>4. HeldMarked(s)'
  BY StreamFacts DEF HeldMarked
<1> QED BY <1>1, <1>2, <1>3, <1>4, OneStream DEF StreamOK

\* controlCount.Add(1) makes up for the mark.
LEMMA CountAdd == ASSUME Marks, NEW s \in Streams, AddCount(s) PROVE Marks'
<1>1. /\ pushing[s].pc = "add" /\ controlCount' = [controlCount EXCEPT ![s] = @ + 1]
      /\ pushing' = [pushing EXCEPT ![s] = Idle] /\ UNCHANGED <<txQueue, life, pc, hand>>
  BY DEF AddCount, dispatcherVars
<1>2. pushing'[s] = Idle /\ controlCount'[s] = controlCount[s] + 1
  BY <1>1, StreamFacts
<1>3. pushing'[s].pc = "idle"
  BY <1>2 DEF Idle
<1>4. \A k : ~ Unmarked(s, k) /\ ~ Unmarked(s, k)'
  BY <1>1, <1>3 DEF Unmarked
<1>5. PushType(s)' /\ MarkFinds(s)'
  BY <1>2, <1>3 DEF PushType, MarkFinds
<1>6. SumsUp(s)'
  <2>1. Cardinality(CountedKeys(txQueue[s])) \in Nat
    BY StreamFacts, CountedFinite
  <2>2. One(pushing[s].pc = "add") = 1 /\ One((pushing[s].pc = "add")') = 0
    BY <1>1, <1>3 DEF One
  <2>3. One(hand.stream = s /\ hand.entry.counted) \in Nat
    BY DEF One
  <2> QED BY <1>1, <1>2, <2>1, <2>2, <2>3, StreamFacts DEF SumsUp
<1>7. HeldType'
  BY <1>1, StreamFacts DEF HeldType
<1> QED BY <1>1, <1>4, <1>5, <1>6, <1>7, StreamFacts, CountPushed

\* The mark is set while the packet is queued.
LEMMA CountMarkQueued == ASSUME Marks, NEW s \in Streams, MarkQueued(s) PROVE Marks'
<1>1. PICK q, p : /\ q = txQueue[s] /\ p = pushing[s].pkt /\ pushing[s].pc = "mark"
                  /\ Queued(q, p)
  BY DEF MarkQueued
<1>2. /\ txQueue' = [txQueue EXCEPT ![s] = Marked(@, p)]
      /\ UNCHANGED <<controlCount, life, pc, hand>>
      /\ pushing' = [pushing EXCEPT ![s] = IF IsCounted(q, p) THEN Idle
                                           ELSE [@ EXCEPT !.pc = "add"]]
  BY <1>1 DEF MarkQueued, dispatcherVars
<1>3. Keyed(q) /\ \A x \in Ents(q) : EntryOK(x)
  BY <1>1, StreamFacts
<1>4. ASSUME NEW x \in Ents(q)
      PROVE  /\ x.key = p => Packable(p) /\ ~ x.counted
             /\ x.key # p => (Packable(x.key) <=> x.counted)
  BY <1>1, StreamFacts DEF EntriesMarked, Unmarked
<1>5. PICK y \in Ents(q) : y.key = p
  BY <1>1 DEF Queued, Ents
<1>6. Packable(p) /\ p \notin CountedKeys(q) /\ ~ IsCounted(q, p)
  BY <1>4, <1>5 DEF CountedKeys, IsCounted, Ents
<1>7. txQueue'[s] = Marked(q, p)
  BY <1>1, <1>2, StreamFacts
<1>8. pushing'[s] = [pushing[s] EXCEPT !.pc = "add"]
  BY <1>2, <1>6, StreamFacts
<1>9. pushing'[s].pc = "add" /\ DOMAIN pushing'[s] = {"pc", "pkt"}
  <2>1. DOMAIN pushing[s] = {"pc", "pkt"}
    BY <1>1, StreamFacts DEF PushType, Idle
  <2> QED BY <1>8, <2>1
<1>10. /\ Keyed(txQueue'[s]) /\ \A x \in Ents(txQueue'[s]) : EntryOK(x)
       /\ \A x \in Ents(txQueue'[s]) : IF x.key = p THEN x.counted ELSE x \in Ents(q)
       /\ CountedKeys(txQueue'[s]) = CountedKeys(q) \cup {p}
       /\ \A k : Queued(txQueue'[s], k) <=> Queued(q, k)
  BY <1>1, <1>3, <1>7, MarkedFacts
<1>11. \A k : ~ Unmarked(s, k)'
  BY <1>9 DEF Unmarked
<1>12. QueueType(s)' /\ PushType(s)' /\ MarkFinds(s)'
  BY <1>9, <1>10 DEF QueueType, PushType, MarkFinds
<1>13. EntriesMarked(s)'
  BY <1>4, <1>6, <1>10, <1>11 DEF EntriesMarked
<1>14. HeldMarked(s)'
  <2>1. hand.stream = s => ~ hand.early
    BY <1>1, StreamFacts DEF HeldMarked, Unmarked
  <2> QED BY <1>2, <2>1, StreamFacts DEF HeldMarked
<1>15. SumsUp(s)'
  <2>1. IsFiniteSet(CountedKeys(q)) /\ Cardinality(CountedKeys(q)) \in Nat
    BY <1>3, CountedFinite
  <2>2. Cardinality(CountedKeys(txQueue'[s])) = Cardinality(CountedKeys(q)) + 1
    BY <1>6, <1>10, <2>1, FS_AddElement
  <2>3. One(pushing[s].pc = "add") = 0 /\ One((pushing[s].pc = "add")') = 1
    BY <1>1, <1>9 DEF One
  <2>4. One(hand.stream = s /\ hand.entry.counted) \in Nat
    BY DEF One
  <2> QED BY <1>1, <1>2, <2>1, <2>2, <2>3, <2>4, StreamFacts DEF SumsUp
<1>16. Apart(s) /\ HeldType'
  BY <1>2, StreamFacts DEF Apart, HeldType
<1> QED BY <1>12, <1>13, <1>14, <1>15, <1>16, OneStream DEF StreamOK

\* The mark is set while the dispatcher holds the packet.
LEMMA CountMarkInHand ==
  ASSUME Marks, RoundInv, NEW s \in Streams, MarkInHand(s) PROVE Marks'
<1>1. /\ pushing[s].pc = "mark" /\ ~ Queued(txQueue[s], pushing[s].pkt)
      /\ hand.stream = s /\ hand.early
      /\ hand' = [hand EXCEPT !.entry.counted = TRUE, !.early = FALSE]
      /\ pushing' = [pushing EXCEPT ![s].pc = "add"]
      /\ UNCHANGED <<txQueue, controlCount, life, pc>>
  BY DEF MarkInHand, InHand
<1>2. pc \in {"note", "packNote"} /\ DOMAIN hand = {"stream", "entry", "early"}
  BY <1>1, NotStreams DEF RoundInv, HandType, NoEntry
<1>3. EntryOK(hand.entry)
  BY <1>2, StreamFacts DEF HeldType
<1>4. /\ hand'.stream = s /\ hand'.early = FALSE
      /\ hand'.entry = [hand.entry EXCEPT !.counted = TRUE]
  BY <1>1, <1>2
<1>5. hand'.entry.counted = TRUE /\ hand'.entry.key = hand.entry.key /\ EntryOK(hand'.entry)
  BY <1>3, <1>4 DEF EntryOK
<1>6. /\ ~ hand.entry.counted /\ hand.entry.key = pushing[s].pkt /\ Packable(hand.entry.key)
  BY <1>1, StreamFacts DEF HeldMarked, Unmarked
<1>7. pushing'[s].pc = "add" /\ DOMAIN pushing'[s] = {"pc", "pkt"}
  <2>1. DOMAIN pushing[s] = {"pc", "pkt"}
    BY <1>1, StreamFacts DEF PushType, Idle
  <2>2. pushing'[s] = [pushing[s] EXCEPT !.pc = "add"]
    BY <1>1, StreamFacts
  <2> QED BY <2>1, <2>2
<1>8. \A x \in Ents(txQueue[s]) : ~ Unmarked(s, x.key) /\ ~ Unmarked(s, x.key)'
  BY <1>1, <1>7 DEF Unmarked, Queued, Ents
<1>9. QueueType(s)' /\ PushType(s)' /\ MarkFinds(s)' /\ HeldType'
  BY <1>1, <1>4, <1>5, <1>7, StreamFacts DEF QueueType, PushType, MarkFinds, HeldType
<1>10. EntriesMarked(s)'
  BY <1>1, <1>8, StreamFacts DEF EntriesMarked
<1>11. HeldMarked(s)'
  BY <1>4, <1>5, <1>6 DEF HeldMarked
<1>12. SumsUp(s)'
  <2>1. One(pushing[s].pc = "add") = 0 /\ One((pushing[s].pc = "add")') = 1
    BY <1>1, <1>7 DEF One
  <2>2. /\ One(hand.stream = s /\ hand.entry.counted) = 0
        /\ One((hand.stream = s /\ hand.entry.counted)') = 1
    BY <1>4, <1>5, <1>6 DEF One
  <2>3. Cardinality(CountedKeys(txQueue[s])) \in Nat
    BY StreamFacts, CountedFinite
  <2> QED BY <1>1, <2>1, <2>2, <2>3, StreamFacts DEF SumsUp
<1>13. Apart(s)
  BY <1>1, <1>4, StreamFacts DEF Apart
<1> QED BY <1>9, <1>10, <1>11, <1>12, <1>13, OneStream DEF StreamOK

\* What is to be marked is not lost.
LEMMA CountMarkLost == ASSUME Marks, NEW s \in Streams, MarkLost(s) PROVE FALSE
BY StreamFacts DEF MarkLost, MarkFinds

\* Entries are taken out of the queue of s, while no push is under way.
LEMMA CountTakenOut ==
  ASSUME Marks, NEW s \in Streams, NEW r, txQueue' = [txQueue EXCEPT ![s] = r],
         Keyed(r), Ents(r) \subseteq Ents(txQueue[s]), \A k : ~ Unmarked(s, k),
         DOMAIN pushing' = Streams, \A t \in Streams \ {s} : pushing'[t] = pushing[t],
         pushing'[s] = Idle, controlCount' \in [Streams -> Int],
         \A t \in Streams \ {s} : controlCount'[t] = controlCount[t],
         UNCHANGED <<life, pc, hand>>, SumsUp(s)'
  PROVE  Marks'
<1>1. txQueue'[s] = r
  BY StreamFacts
<1>2. pushing'[s].pc = "idle" /\ \A k : ~ Unmarked(s, k)'
  BY DEF Idle, Unmarked
<1>3. Apart(s)
  BY StreamFacts DEF Apart
<1>4. QueueType(s)' /\ PushType(s)' /\ MarkFinds(s)' /\ HeldType'
  BY <1>1, <1>2, StreamFacts DEF QueueType, PushType, MarkFinds, HeldType
<1>5. EntriesMarked(s)'
  BY <1>1, <1>2, StreamFacts DEF EntriesMarked
<1>6. HeldMarked(s)'
  <2>1. hand.stream = s => ~ hand.early
    BY StreamFacts DEF HeldMarked
  <2> QED BY <2>1, StreamFacts DEF HeldMarked
<1> QED BY <1>3, <1>4, <1>5, <1>6, OneStream DEF StreamOK

\* The retransmission takes the place of the data packet, which has no mark.
LEMMA CountReplace == ASSUME Marks, NEW s \in Streams, ReplaceData(s) PROVE Marks'
<1>1. PICK k, q, r :
        /\ k = [kind |-> "data", sn |-> pushing[s].pkt.sn] /\ q = txQueue[s]
        /\ r = RemoveByKey(q, k)
  OBVIOUS
<1>2. /\ pushing[s].pc = "replace" /\ txQueue' = [txQueue EXCEPT ![s] = r]
      /\ pushing' = [pushing EXCEPT ![s] = Idle] /\ UNCHANGED <<controlCount, life, pc, hand>>
  BY <1>1 DEF ReplaceData, dispatcherVars
<1>3. ~ Packable(k)
  BY <1>1 DEF Packable, PackableKinds
<1>4. Keyed(r) /\ Ents(r) = {x \in Ents(q) : x.key # k}
  BY <1>1, StreamFacts, RemoveFacts
<1>5. \A j : ~ Unmarked(s, j)
  BY <1>2 DEF Unmarked
<1>6. k \notin CountedKeys(q)
  BY <1>1, <1>3, <1>5, StreamFacts DEF CountedKeys, EntriesMarked
<1>7. CountedKeys(r) = CountedKeys(q)
  <2>1. Keyed(q)
    BY <1>1, StreamFacts
  <2>2. CountedKeys(r) = CountedKeys(q) \ {k}
    BY <1>1, <2>1, RemoveCounted
  <2> QED BY <1>6, <2>2
<1>8. pushing'[s] = Idle /\ txQueue'[s] = r
  BY <1>2, StreamFacts
<1>9. SumsUp(s)'
  <2>1. One((pushing[s].pc = "add")') = One(pushing[s].pc = "add")
    BY <1>2, <1>8 DEF One, Idle
  <2> QED BY <1>1, <1>2, <1>7, <1>8, <2>1, StreamFacts DEF SumsUp
<1>10. Ents(r) \subseteq Ents(txQueue[s])
  BY <1>1, <1>4
<1> QED BY <1>2, <1>4, <1>5, <1>8, <1>9, <1>10, StreamFacts, CountTakenOut

\* What is withdrawn is taken off the counter.
LEMMA CountRemove ==
  ASSUME Marks, NEW s \in Streams, NEW p, NEW k, RemoveQueued(s, p, k) PROVE Marks'
<1>1. PICK q, m, r : q = txQueue[s] /\ m = RemoveByKey(q, p) /\ r = RemoveByKey(m, k)
  OBVIOUS
<1>2. PICK I : I = {i \in DOMAIN q : q[i].key \in {p, k} /\ q[i].counted}
  OBVIOUS
<1>3. /\ pushing[s] = Idle /\ txQueue' = [txQueue EXCEPT ![s] = r]
      /\ controlCount' = [controlCount EXCEPT ![s] = @ - Cardinality(I)]
      /\ UNCHANGED <<pushing, life, pc, hand>>
  BY <1>1, <1>2 DEF RemoveQueued, dispatcherVars
<1>4. Keyed(q)
  BY <1>1, StreamFacts
<1>5. Keyed(m) /\ Ents(m) \subseteq Ents(q) /\ CountedKeys(m) = CountedKeys(q) \ {p}
  BY <1>1, <1>4, RemoveFacts, RemoveCounted
<1>6. Keyed(r) /\ Ents(r) \subseteq Ents(m) /\ CountedKeys(r) = CountedKeys(m) \ {k}
  BY <1>1, <1>5, RemoveFacts, RemoveCounted
<1>7. PICK C : C = CountedKeys(q)
  OBVIOUS
<1>8. Ents(r) \subseteq Ents(txQueue[s]) /\ CountedKeys(r) = C \ {p, k}
  BY <1>1, <1>5, <1>6, <1>7
<1>9. /\ IsFiniteSet(C) /\ Cardinality(C) \in Nat
      /\ Cardinality(I) = Cardinality(C \cap {p, k}) /\ Cardinality(I) \in Nat
  <2>1. IsFiniteSet(C) /\ Cardinality(C) \in Nat
    BY <1>4, <1>7, CountedFinite
  <2>2. I \in SUBSET DOMAIN q /\ {q[i].key : i \in I} = C \cap {p, k}
    BY <1>2, <1>7 DEF CountedKeys, Ents
  <2>3. /\ IsFiniteSet({q[i].key : i \in I})
        /\ Cardinality({q[i].key : i \in I}) = Cardinality(I)
    BY <1>4, <2>2, KeyCount
  <2>4. IsFiniteSet(C \cap {p, k}) /\ Cardinality(C \cap {p, k}) = Cardinality(I)
    BY <2>2, <2>3
  <2>5. Cardinality(I) \in Nat
    BY <2>4, FS_CardinalityType
  <2> QED BY <2>1, <2>4, <2>5
<1>10. Cardinality(C \ {p, k}) = Cardinality(C) - Cardinality(I)
  <2>1. PICK T : T = {p, k}
    OBVIOUS
  <2>2. Cardinality(C \ T) = Cardinality(C) - Cardinality(C \cap T)
    BY <1>9, FS_Difference
  <2> QED BY <1>9, <2>1, <2>2
<1>11. /\ controlCount'[s] = controlCount[s] - Cardinality(I) /\ txQueue'[s] = r
       /\ controlCount' \in [Streams -> Int]
  BY <1>3, <1>9, StreamFacts
<1>12. SumsUp(s)'
  <2>1. One((pushing[s].pc = "add")') = One(pushing[s].pc = "add")
    BY <1>3
  <2>2. One(hand.stream = s /\ hand.entry.counted) \in Nat /\ One(pushing[s].pc = "add") \in Nat
    BY DEF One
  <2>3. Cardinality(CountedKeys(txQueue'[s])) = Cardinality(CountedKeys(txQueue[s])) - Cardinality(I)
    BY <1>1, <1>7, <1>8, <1>10, <1>11
  <2>4. controlCount[s] \in Int /\ Cardinality(CountedKeys(txQueue[s])) \in Int
    BY <1>1, <1>7, <1>9, StreamFacts
  <2> QED BY <1>3, <1>9, <1>11, <2>1, <2>2, <2>3, <2>4, StreamFacts DEF SumsUp
<1>13. \A j : ~ Unmarked(s, j)
  BY <1>3, IdleFacts
<1> QED BY <1>3, <1>6, <1>8, <1>11, <1>12, <1>13, StreamFacts, CountTakenOut

-----------------------------------------------------------------------------
(* The creation and removal of streams. *)

\* A stream comes or is taken out of active_streams.
LEMMA CountLives ==
  ASSUME Marks, NEW s \in Streams, NewStream(s) \/ BumpNew(s) \/ DeleteStream(s)
  PROVE  Marks'
<1>1. UNCHANGED <<txQueue, controlCount, pushing, pc, hand>>
  BY DEF NewStream, BumpNew, DeleteStream, dispatcherVars
<1>2. PICK to : life' = [life EXCEPT ![s] = to] /\ life[s] # "gone"
  BY DEF NewStream, BumpNew, DeleteStream, Lives
<1>3. Apart(s)
  BY <1>1, <1>2, StreamFacts DEF Apart
<1>4. QueueType(s)' /\ PushType(s)' /\ MarkFinds(s)' /\ HeldType'
  BY <1>1, StreamFacts DEF QueueType, PushType, MarkFinds, HeldType, InHand
<1>5. EntriesMarked(s)' /\ HeldMarked(s)'
  BY <1>1, StreamFacts DEF EntriesMarked, HeldMarked, Unmarked
<1>6. SumsUp(s)'
  BY <1>1, <1>2, StreamFacts DEF SumsUp
<1> QED BY <1>3, <1>4, <1>5, <1>6, OneStream DEF StreamOK

\* The queue is cleared. No push has still to mark a packet that is in it.
LEMMA CountCleanup ==
  ASSUME Marks, NEW s \in Streams, CleanupResources(s), races = 0, races' = 0
  PROVE  Marks'
<1>1. /\ life' = [life EXCEPT ![s] = "gone"] /\ txQueue' = [txQueue EXCEPT ![s] = << >>]
      /\ controlCount' = [controlCount EXCEPT ![s] = 0] /\ UNCHANGED <<pushing, pc, hand>>
  BY DEF CleanupResources, Lives
<1>2. \A x \in Ents(txQueue[s]) : ~ Unmarked(s, x.key)
  BY DEF CleanupResources, Race, Ents
<1>3. txQueue'[s] = << >> /\ life'[s] = "gone"
  BY <1>1, StreamFacts
<1>4. Keyed(<< >>) /\ Ents(<< >>) = {} /\ \A k : ~ Queued(<< >>, k)
  <2>1. << >> \in Seq({}) /\ DOMAIN << >> = {}
    OBVIOUS
  <2> QED BY <2>1 DEF Keyed, IsSeq, Ents, Queued
<1>5. Apart(s)
  BY <1>1, StreamFacts DEF Apart
<1>6. QueueType(s)' /\ PushType(s)' /\ HeldType'
  BY <1>1, <1>3, <1>4, StreamFacts DEF QueueType, PushType, HeldType
<1>7. EntriesMarked(s)' /\ HeldMarked(s)'
  BY <1>1, <1>3, <1>4, StreamFacts DEF EntriesMarked, HeldMarked, Unmarked
<1>8. MarkFinds(s)'
  <2>1. pushing[s].pc = "mark" => ~ Queued(txQueue[s], pushing[s].pkt)
    BY <1>2 DEF Queued, Ents, Unmarked
  <2> QED BY <1>1, <2>1, StreamFacts DEF MarkFinds, InHand
<1>9. SumsUp(s)'
  BY <1>3 DEF SumsUp
<1> QED BY <1>5, <1>6, <1>7, <1>8, <1>9, OneStream DEF StreamOK

-----------------------------------------------------------------------------
(* The dispatcher. *)

\* An entry goes from the queue into the dispatcher's hand.
LEMMA CountTake ==
  ASSUME Marks, NEW s \in Streams, NEW e \in Ents(txQueue[s]), Take(s, e), hand = NoEntry,
         UNCHANGED <<controlCount, pushing, life>>
  PROVE  Marks'
<1>1. PICK q, r : q = txQueue[s] /\ r = RemoveByKey(q, e.key)
  OBVIOUS
<1>2. /\ hand' = [stream |-> s, entry |-> e, early |-> Unmarked(s, e.key)]
      /\ txQueue' = [txQueue EXCEPT ![s] = r]
  BY <1>1 DEF Take
<1>3. hand'.stream = s /\ hand'.entry = e /\ (hand'.early <=> Unmarked(s, e.key))
  BY <1>2
<1>4. txQueue'[s] = r /\ Keyed(q) /\ e \in Ents(q)
  BY <1>1, <1>2, StreamFacts
<1>5. /\ Keyed(r) /\ Ents(r) = {x \in Ents(q) : x.key # e.key}
      /\ CountedKeys(r) = CountedKeys(q) \ {e.key}
  BY <1>1, <1>4, RemoveFacts, RemoveCounted
<1>6. hand.stream = None
  BY DEF NoEntry
<1>7. EntryOK(e) /\ hand'.early \in BOOLEAN
  BY <1>2, StreamFacts DEF Unmarked
<1>8. Apart(s)
  BY <1>2, <1>3, <1>6, StreamFacts DEF Apart
<1>9. QueueType(s)' /\ PushType(s)' /\ HeldType'
  BY <1>1, <1>3, <1>4, <1>5, <1>7, StreamFacts DEF QueueType, PushType, HeldType
<1>10. EntriesMarked(s)'
  BY <1>1, <1>4, <1>5, StreamFacts DEF EntriesMarked, Unmarked
<1>11. ~ Queued(r, e.key)
  BY <1>5 DEF Queued, Ents
<1>12. HeldMarked(s)'
  <2>1. /\ Packable(e.key) <=> (e.counted \/ Unmarked(s, e.key))
        /\ ~ (e.counted /\ Unmarked(s, e.key))
    BY StreamFacts DEF EntriesMarked
  <2>2. Unmarked(s, e.key)' <=> Unmarked(s, e.key)
    BY DEF Unmarked
  <2> QED BY <1>3, <1>4, <1>11, <2>1, <2>2 DEF HeldMarked, Unmarked
<1>13. MarkFinds(s)'
  <2> SUFFICES ASSUME pushing[s].pc = "mark", ~ InHand(s)'
               PROVE  Queued(r, pushing[s].pkt)
    BY <1>4 DEF MarkFinds
  <2>1. Queued(q, pushing[s].pkt)
    BY <1>1, <1>6, StreamFacts, NotStreams DEF MarkFinds, InHand
  <2>2. pushing[s].pkt # e.key
    BY <1>3 DEF InHand, Unmarked
  <2>3. PICK x \in Ents(q) : x.key = pushing[s].pkt
    BY <2>1 DEF Queued, Ents
  <2>4. x \in Ents(r)
    BY <1>5, <2>2, <2>3
  <2> QED BY <1>5, <2>3, <2>4, EntryOfKey
<1>14. SumsUp(s)'
  <2>1. IsFiniteSet(CountedKeys(q)) /\ Cardinality(CountedKeys(q)) \in Nat
    BY <1>4, CountedFinite
  <2>2. e.key \in CountedKeys(q) <=> e.counted
    BY <1>4, EntryOfKey
  <2>3. Cardinality(CountedKeys(q)) = Cardinality(CountedKeys(r)) + One(e.counted)
    <3>1. CASE e.counted
      <4>1. Cardinality(CountedKeys(r)) = Cardinality(CountedKeys(q)) - 1
        <5>1. PICK C, k : C = CountedKeys(q) /\ k = e.key
          OBVIOUS
        <5>2. Cardinality(C \ {k}) = Cardinality(C) - 1
          BY <2>1, <2>2, <3>1, <5>1, FS_RemoveElement
        <5> QED BY <1>5, <5>1, <5>2
      <4> QED BY <2>1, <3>1, <4>1 DEF One
    <3>2. CASE ~ e.counted
      <4>1. CountedKeys(r) = CountedKeys(q)
        BY <1>5, <2>2, <3>2
      <4> QED BY <2>1, <3>2, <4>1 DEF One
    <3> QED BY <3>1, <3>2
  <2>4. One((hand.stream = s /\ hand.entry.counted)') = One(e.counted)
    BY <1>3 DEF One
  <2>5. One(hand.stream = s /\ hand.entry.counted) = 0
    BY <1>6, NotStreams DEF One
  <2>6. controlCount[s] + One(pushing[s].pc = "add") \in Int
    BY StreamFacts DEF One
  <2> QED BY <1>1, <1>4, <2>1, <2>3, <2>4, <2>5, <2>6, StreamFacts DEF SumsUp
<1> QED BY <1>8, <1>9, <1>10, <1>12, <1>13, <1>14, OneStream DEF StreamOK

\* PopNextTXPacket takes the first entry.
LEMMA CountPopStream == ASSUME Marks, RoundInv, PopStream PROVE Marks'
<1>1. PICK s, q : s = round.selected /\ q = txQueue[s]
  OBVIOUS
<1>2. /\ pc = "pop" /\ s # None /\ q # << >> /\ Take(s, Head(q))
      /\ UNCHANGED <<controlCount, pushing, life>>
  BY <1>1 DEF PopStream, othersVars
<1>3. s \in Streams /\ hand = NoEntry
  BY <1>1, <1>2 DEF RoundInv, RoundType, HandType
<1>4. Head(q) \in Ents(q)
  <2>1. Keyed(q)
    BY <1>1, <1>3, StreamFacts
  <2>2. 1 \in DOMAIN q
    BY <1>2, <2>1, TailFacts
  <2>3. Head(q) = q[1]
    BY <2>1, <1>2 DEF Keyed, IsSeq
  <2> QED BY <2>2, <2>3 DEF Ents
<1> QED BY <1>1, <1>2, <1>3, <1>4, CountTake

\* PopAnyIf takes the first entry that can be packed.
LEMMA CountPackPop == ASSUME Marks, RoundInv, PackPop PROVE Marks'
<1>1. PICK s, q : s = round.source /\ q = txQueue[s]
  OBVIOUS
<1>2. /\ pc = "pack" /\ s \in Streams /\ From(s) # {} /\ Take(s, First(s))
      /\ UNCHANGED <<controlCount, pushing, life>>
  BY <1>1 DEF PackPop, Packing, othersVars
<1>3. Queue(s) = q
  BY <1>1, <1>2, NotStreams DEF Queue
<1>4. hand = NoEntry
  BY <1>2 DEF RoundInv, HandType
<1>5. First(s) \in Ents(q)
  <2>1. Keyed(q)
    BY <1>1, <1>2, StreamFacts
  <2>2. DOMAIN q \subseteq Nat
    BY <2>1, LenFacts DEF Keyed
  <2>3. From(s) \subseteq DOMAIN q
    BY <1>3 DEF From, Candidates
  <2>4. Min(From(s)) \in From(s)
    BY <1>2, <2>2, <2>3, MinIsIn
  <2> QED BY <1>3, <2>3, <2>4 DEF First, Ents
<1> QED BY <1>1, <1>2, <1>4, <1>5, CountTake

\* The mark of what was popped is taken back.
LEMMA CountNote ==
  ASSUME Marks, RoundInv, pc \in {"note", "packNote"}, NoteDequeued,
         UNCHANGED <<txQueue, pushing, life>>, pc' \notin {"note", "packNote"},
         races = 0, races' = 0
  PROVE  Marks'
<1>1. PICK s, e : s = hand.stream /\ e = hand.entry
  OBVIOUS
<1>2. /\ ~ hand.early /\ hand' = NoEntry
      /\ controlCount' = [controlCount EXCEPT ![s] = IF e.counted THEN @ - 1 ELSE @]
  BY <1>1 DEF NoteDequeued, Race
<1>3. s \in Streams
  BY <1>1 DEF RoundInv, HandType
<1>4. hand'.stream = None /\ s # None
  BY <1>2, <1>3, NotStreams DEF NoEntry
<1>5. controlCount'[s] = IF e.counted THEN controlCount[s] - 1 ELSE controlCount[s]
  BY <1>2, <1>3, StreamFacts
<1>6. Apart(s)
  <2>1. controlCount' \in [Streams -> Int]
    BY <1>2, <1>3, StreamFacts
  <2> QED BY <1>1, <1>2, <1>3, <1>4, <2>1, StreamFacts DEF Apart
<1>7. QueueType(s)' /\ PushType(s)' /\ HeldType'
  BY <1>3, StreamFacts DEF QueueType, PushType, HeldType
<1>8. EntriesMarked(s)'
  BY <1>3, StreamFacts DEF EntriesMarked, Unmarked
<1>9. HeldMarked(s)'
  BY <1>4 DEF HeldMarked
<1>10. MarkFinds(s)'
  BY <1>2, <1>3, StreamFacts DEF MarkFinds, InHand
<1>11. SumsUp(s)'
  <2>1. One(hand.stream = s /\ hand.entry.counted) = IF e.counted THEN 1 ELSE 0
    BY <1>1 DEF One
  <2>2. One((hand.stream = s /\ hand.entry.counted)') = 0
    BY <1>4 DEF One
  <2>3. controlCount[s] \in Int /\ One(pushing[s].pc = "add") \in Int
    BY <1>3, StreamFacts DEF One
  <2>4. Cardinality(CountedKeys(txQueue[s])) \in Nat
    BY <1>3, StreamFacts, CountedFinite
  <2> QED BY <1>3, <1>5, <2>1, <2>2, <2>3, <2>4, StreamFacts DEF SumsUp
<1> QED BY <1>3, <1>6, <1>7, <1>8, <1>9, <1>10, <1>11, OneStream DEF StreamOK

\* Where the dispatcher is does not matter to it unless it holds a packet.
LEMMA CountElsewhere ==
  ASSUME Marks, pc' \notin {"note", "packNote"},
         UNCHANGED <<txQueue, controlCount, pushing, life, hand>>
  PROVE  Marks'
<1>1. HeldType'
  BY DEF HeldType
<1> QED BY <1>1, CountUnseen

\* A chunk that no resolver can take is queued again.
LEMMA CountRequeue == ASSUME Marks, PlannerRequeue PROVE Marks'
<1>1. PICK s, p : s = task[1].from /\ p = task[1].pkt
  OBVIOUS
<1>2. /\ pc' = "load" /\ pushing[s] = Idle /\ UNCHANGED <<controlCount, life, hand>>
      /\ IF Duplicate(s, p) THEN UNCHANGED <<txQueue, pushing>>
         ELSE /\ txQueue' = [txQueue EXCEPT ![s] = Enqueue(@, Entry(p))]
              /\ pushing' = [pushing EXCEPT ![s] = Rest(p)]
  BY <1>1 DEF PlannerRequeue, RoundOver
<1>3. HeldType'
  BY <1>2 DEF HeldType
<1>4. CASE Duplicate(s, p)
  BY <1>2, <1>3, <1>4, CountUnseen
<1>5. CASE ~ Duplicate(s, p) /\ s \in Streams
  <2>1. ~ Queued(txQueue[s], p)
    BY <1>5 DEF Duplicate
  <2> QED BY <1>2, <1>3, <1>5, <2>1, CountInsert
<1>6. CASE ~ Duplicate(s, p) /\ s \notin Streams
  <2>1. DOMAIN txQueue' = Streams /\ DOMAIN pushing' = Streams
    BY <1>2, <1>6 DEF Marks, CountType
  <2>2. ASSUME NEW t \in Streams PROVE QueueType(t)' /\ PushType(t)' /\ StreamOK(t)'
    <3>1. QueueType(t) /\ PushType(t) /\ StreamOK(t)
      BY DEF Marks, CountType
    <3>2. txQueue'[t] = txQueue[t] /\ pushing'[t] = pushing[t]
      BY <1>2, <1>6 DEF Marks, CountType
    <3> QED BY <1>2, <3>1, <3>2, OtherStream
  <2> QED BY <1>2, <1>3, <2>1, <2>2 DEF Marks, CountType
<1> QED BY <1>4, <1>5, <1>6

\* The number of races never falls.
LEMMA RacesGrow ==
  ASSUME races \in Nat, [Next]_vars PROVE races' \in Nat /\ (races' = 0 => races = 0)
<1>1. CASE UNCHANGED vars
  BY <1>1 DEF vars
<1>2. ASSUME NEW s \in Streams,
             \/ \E p \in Packets[s] :
                  PushTXPacket(s, p) \/ RemoveQueuedData(s, p.sn) \/ RemoveQueuedDataNack(s, p.sn)
             \/ FinishPush(s) \/ NewStream(s) \/ DeleteStream(s) \/ BumpNew(s)
      PROVE  UNCHANGED races
  BY <1>2 DEF PushTXPacket, RemoveQueuedData, RemoveQueuedDataNack, RemoveQueued, FinishPush,
              MarkQueued, MarkInHand, MarkLost, AddCount, ReplaceData, NewStream,
              DeleteStream, BumpNew
<1>3. ASSUME NEW s \in Streams, CleanupResources(s) PROVE \E b : Race(b)
  BY <1>3 DEF CleanupResources
<1>4. CASE NoteSelected \/ NoteUnwanted \/ PackNote
  <2>1. Race(hand.early)
    BY <1>4 DEF NoteSelected, NoteUnwanted, PackNote, NoteDequeued
  <2> QED BY <2>1 DEF Race
<1>5. CASE \/ LoadVersion \/ Snapshot \/ ScanEmpty \/ ScanFound \/ ScanNothing
           \/ PopStream \/ PopNothing \/ PopOrphan
  BY <1>5 DEF LoadVersion, Snapshot, ScanEmpty, ScanFound, ScanNothing, ScanUnchanged,
              PopStream, PopNothing, PopOrphan, othersVars
<1>6. CASE \/ PackPop \/ PackOrphan \/ PackNext \/ PackDone \/ PlannerTake \/ PlannerRequeue
           \/ \E o \in Orphans : EnqueueOrphanReset(o)
  BY <1>6 DEF PackPop, PackOrphan, PackNext, PackDone, PlannerTake, PlannerRequeue,
              EnqueueOrphanReset, othersVars
<1>7. ASSUME NEW b, Race(b) PROVE races' \in Nat /\ (races' = 0 => races = 0)
  BY <1>7 DEF Race
<1> QED BY <1>1, <1>2, <1>3, <1>4, <1>5, <1>6, <1>7 DEF Next, Dispatch, FinishChange

\* The steps of a stream's goroutines.
LEMMA CountStreams ==
  ASSUME Marks, RoundInv, races = 0, races' = 0, NEW s \in Streams,
         \/ \E p \in Packets[s] :
              PushTXPacket(s, p) \/ RemoveQueuedData(s, p.sn) \/ RemoveQueuedDataNack(s, p.sn)
         \/ FinishPush(s) \/ NewStream(s) \/ DeleteStream(s) \/ FinishChange(s)
  PROVE  Marks'
<1>1. ASSUME NEW p \in Packets[s], PushTXPacket(s, p) PROVE Marks'
  <2>1. /\ pushing[s] = Idle /\ ~ Queued(txQueue[s], p)
        /\ txQueue' = [txQueue EXCEPT ![s] = Enqueue(@, Entry(p))]
        /\ pushing' = [pushing EXCEPT ![s] = Rest(p)]
        /\ UNCHANGED <<controlCount, life, pc, hand>>
    BY <1>1 DEF PushTXPacket, Accepted, Duplicate, dispatcherVars
  <2>2. HeldType'
    BY <2>1, StreamFacts DEF HeldType
  <2> QED BY <2>1, <2>2, CountInsert
<1>2. ASSUME NEW p \in Packets[s], RemoveQueuedData(s, p.sn) \/ RemoveQueuedDataNack(s, p.sn)
      PROVE  Marks'
  BY <1>2, CountRemove DEF RemoveQueuedData, RemoveQueuedDataNack
<1>3. CASE FinishPush(s)
  BY <1>3, CountMarkQueued, CountMarkInHand, CountMarkLost, CountAdd, CountReplace
     DEF FinishPush
<1>4. CASE NewStream(s) \/ DeleteStream(s) \/ FinishChange(s)
  BY <1>4, CountLives, CountCleanup DEF FinishChange
<1> QED BY <1>1, <1>2, <1>3, <1>4

\* The steps of the dispatcher.
LEMMA CountDispatch ==
  ASSUME Marks, RoundInv, races = 0, races' = 0, Dispatch
  PROVE  Marks'
<1>1. CASE LoadVersion \/ Snapshot
  <2>1. /\ pc' \in {"snapshot", "load", "scan"}
        /\ UNCHANGED <<txQueue, controlCount, pushing, life, hand>>
    BY <1>1 DEF LoadVersion, Snapshot, Begin, othersVars
  <2> QED BY <2>1, CountElsewhere
<1>2. CASE ScanEmpty \/ ScanFound \/ ScanNothing
  <2>1. /\ pc' \in {"scan", "pop", "load"}
        /\ UNCHANGED <<txQueue, controlCount, pushing, life, hand>>
    BY <1>2 DEF ScanEmpty, ScanFound, ScanNothing, ScanUnchanged, othersVars
  <2> QED BY <2>1, CountElsewhere
<1>3. CASE PopNothing \/ PopOrphan
  <2>1. /\ pc' \in {"load", "pack", "send"}
        /\ UNCHANGED <<txQueue, controlCount, pushing, life, hand>>
    BY <1>3 DEF PopNothing, PopOrphan, Launch, Send, othersVars
  <2> QED BY <2>1, CountElsewhere
<1>4. CASE PopStream \/ PackPop
  BY <1>4, CountPopStream, CountPackPop
<1>5. CASE NoteSelected \/ NoteUnwanted \/ PackNote
  <2>1. /\ pc \in {"note", "packNote"} /\ NoteDequeued /\ UNCHANGED <<txQueue, pushing, life>>
        /\ pc' \in {"load", "pack", "send"}
    BY <1>5 DEF NoteSelected, NoteUnwanted, PackNote, NoteUnchanged, Launch, Send
  <2> QED BY <2>1, CountNote
<1>6. CASE PackOrphan \/ PackNext \/ PackDone
  <2>1. /\ pc' \in {"pack", "send"}
        /\ UNCHANGED <<txQueue, controlCount, pushing, life, hand>>
    BY <1>6 DEF PackOrphan, PackNext, PackDone, Packing, Send, othersVars
  <2> QED BY <2>1, CountElsewhere
<1> QED BY <1>1, <1>2, <1>3, <1>4, <1>5, <1>6 DEF Dispatch

\* At the beginning nothing is queued or counted.
LEMMA InitCount == ASSUME Init PROVE CountInv
<1>1. /\ txQueue = [s \in Streams |-> << >>] /\ controlCount = [s \in Streams |-> 0]
      /\ pushing = [s \in Streams |-> Idle] /\ hand = NoEntry /\ pc = "load" /\ races = 0
      /\ DOMAIN life = Streams
  BY DEF Init
<1>2. IsSeq(<< >>) /\ DOMAIN << >> = {}
  BY << >> \in Seq({}) DEF IsSeq
<1>3. Keyed(<< >>) /\ Ents(<< >>) = {} /\ CountedKeys(<< >>) = {}
  BY <1>2 DEF Keyed, Ents, CountedKeys
<1>4. CountType
  BY <1>1, <1>3 DEF CountType, QueueType, PushType, HeldType
<1>5. ASSUME NEW s \in Streams PROVE StreamOK(s)
  <2>1. txQueue[s] = << >> /\ controlCount[s] = 0 /\ pushing[s] = Idle
    BY <1>1
  <2>2. pushing[s].pc = "idle" /\ hand.stream # s
    BY <1>1, <2>1, NotStreams DEF Idle, NoEntry
  <2>3. EntriesMarked(s) /\ HeldMarked(s) /\ MarkFinds(s)
    BY <1>3, <2>1, <2>2 DEF EntriesMarked, HeldMarked, MarkFinds
  <2>4. SumsUp(s)
    <3>1. Cardinality({}) = 0
      BY FS_EmptySet
    <3>2. One(pushing[s].pc = "add") = 0 /\ One(hand.stream = s /\ hand.entry.counted) = 0
      BY <2>2 DEF One
    <3> QED BY <1>3, <2>1, <3>1, <3>2 DEF SumsUp
  <2> QED BY <2>3, <2>4 DEF StreamOK
<1> QED BY <1>1, <1>4, <1>5 DEF CountInv, Marks

\* Every step preserves the invariant of the counters.
LEMMA CountStep == ASSUME CountInv, RoundInv, [Next]_vars PROVE CountInv'
<1>1. races' \in Nat /\ (races' = 0 => races = 0)
  BY RacesGrow DEF CountInv
<1>2. ASSUME races' = 0 PROVE Marks'
  <2>1. Marks /\ races = 0
    BY <1>1, <1>2 DEF CountInv
  <2>2. CASE UNCHANGED vars
    <3>1. HeldType'
      BY <2>1, <2>2 DEF Marks, CountType, HeldType, vars
    <3> QED BY <2>1, <2>2, <3>1, CountUnseen DEF vars
  <2>3. ASSUME NEW s \in Streams,
               \/ \E p \in Packets[s] : \/ PushTXPacket(s, p) \/ RemoveQueuedData(s, p.sn)
                                        \/ RemoveQueuedDataNack(s, p.sn)
               \/ FinishPush(s) \/ NewStream(s) \/ DeleteStream(s) \/ FinishChange(s)
        PROVE  Marks'
    BY <1>2, <2>1, <2>3, CountStreams
  <2>4. ASSUME NEW o \in Orphans, EnqueueOrphanReset(o) PROVE Marks'
    <3>1. UNCHANGED <<txQueue, controlCount, pushing, life, pc, hand>>
      BY <2>4 DEF EnqueueOrphanReset, dispatcherVars
    <3>2. HeldType'
      BY <2>1, <3>1 DEF Marks, CountType, HeldType
    <3> QED BY <2>1, <3>1, <3>2, CountUnseen
  <2>5. CASE Dispatch
    BY <1>2, <2>1, <2>5, CountDispatch
  <2>6. CASE PlannerTake
    <3>1. pc' = "load" /\ UNCHANGED <<txQueue, controlCount, pushing, life, hand>>
      BY <2>6 DEF PlannerTake, RoundOver, othersVars
    <3> QED BY <2>1, <3>1, CountElsewhere
  <2>7. CASE PlannerRequeue
    BY <2>1, <2>7, CountRequeue
  <2> QED BY <2>2, <2>3, <2>4, <2>5, <2>6, <2>7 DEF Next
<1> QED BY <1>1, <1>2 DEF CountInv

\* With no push under way and nothing in hand, the marks are the control packets.
LEMMA CountExact == ASSUME CountInv PROVE CountExactUnlessRaced
<1> SUFFICES ASSUME NEW s \in Streams, races = 0, life[s] = "open", pushing[s] = Idle,
                    hand.stream # s
             PROVE  controlCount[s] = Cardinality(PackableIn(s))
  BY DEF CountExactUnlessRaced
<1>1. Marks
  BY DEF CountInv
<1>2. PICK q : q = txQueue[s] /\ Keyed(q)
  BY <1>1, StreamFacts
<1>3. \A x \in Ents(q) : Packable(x.key) <=> x.counted
  BY <1>1, <1>2, StreamFacts, IdleFacts DEF EntriesMarked
<1>4. PackableIn(s) = {i \in DOMAIN q : q[i].counted}
  BY <1>2, <1>3 DEF PackableIn, Ents
<1>5. /\ Cardinality(CountedKeys(q)) \in Nat
      /\ Cardinality({i \in DOMAIN q : q[i].counted}) = Cardinality(CountedKeys(q))
  BY <1>2, CountedFinite
<1>6. One(pushing[s].pc = "add") = 0 /\ One(hand.stream = s /\ hand.entry.counted) = 0
  BY IdleFacts DEF One
<1> QED BY <1>1, <1>2, <1>4, <1>5, <1>6, StreamFacts DEF SumsUp

-----------------------------------------------------------------------------

\* Every packet, packed or not, leaves under the number of the stream in whose queue
\* it was, whatever is pushed, withdrawn or removed while the dispatcher goes round:
\* only a packet of stream 0 in a round that had put off a ping may bear another.
THEOREM PacketsKeepTheirNumber == Spec => []OwnStreamUnlessPutOff
<1>1. Spec => []RoundInv
  BY InitRound, RoundStep, PTL DEF Spec
<1>2. RoundInv => OwnStreamUnlessPutOff
  BY DEF RoundInv
<1> QED BY <1>1, <1>2, PTL

\* controlCount of an open stream at rest is the number of its control packets, for
\* any interleaving of its goroutines, which hold txQueueMu, with the dispatcher,
\* which does not, until a packet is taken for good before its push has marked it.
THEOREM CounterIsRight == Spec => []CountExactUnlessRaced
<1>1. Init => RoundInv /\ CountInv
  BY InitRound, InitCount
<1>2. RoundInv /\ CountInv /\ [Next]_vars => (RoundInv /\ CountInv)'
  BY RoundStep, CountStep
<1>3. CountInv => CountExactUnlessRaced
  BY CountExact
<1> QED BY <1>1, <1>2, <1>3, PTL DEF Spec
=============================================================================
