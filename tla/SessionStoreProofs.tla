------------------------- MODULE SessionStoreProofs -------------------------
(***************************************************************************)
(* Proofs about SessionStore, for any number of sessions, workers and      *)
(* session numbers: the tables of the store agree, they implement the      *)
(* session table, and deferred work is lost only in the races of the       *)
(* property.                                                               *)
(***************************************************************************)
EXTENDS SessionStore, FiniteSetTheorems, WellFoundedInduction, TLAPS

-----------------------------------------------------------------------------
(* The inductive invariant.                                                  *)

\* A session that may be found again by its payload and was opened as the only one
\* of that payload still has the signature.
Reusable(r) == Open(r) /\ rec[r].reuse /\ ~ rec[r].again

SigKept ==
  \A r \in Records :
    Reusable(r) => rec[r].sig \in DOMAIN bySig /\ bySig[rec[r].sig] = rec[r].id

\* Of two open sessions of one payload the later one was opened beside the other:
\* sessions end once and for all.
AgainTold ==
  \A a, b \in Records :
    a < b /\ Open(a) /\ Open(b) /\ rec[a].sig = rec[b].sig => rec[b].again

\* A worker that has a packet has its session, and one that cleans up after a
\* session has closed it.
JobsPlaced ==
  \A w \in Workers :
    /\ job[w].op # "idle" => job[w].r \in Records
    /\ job[w].op = "cleanup" => ~ Open(job[w].r)

\* The sessions on the lists of the cleanup loop are closed, or were idle and are so
\* still unless they have been used since.
SweepTrue ==
  /\ \A r \in sweep.expired : rec[r].closed
  /\ \A r \in sweep.idle : rec[r].closed \/ rec[r].age # "active" \/ rec[r].woken

TableInv == StoreConsistent /\ SigKept /\ AgainTold /\ OneOpenPerInit

RoutineInv == JobsPlaced /\ SweepTrue

IInv == TypeOK /\ TableInv /\ RoutineInv

-----------------------------------------------------------------------------
(* Facts about the operators of the module.                                  *)

\* Records are numbered from 1 on.
LEMMA RecordsAre ==
  ASSUME rec \in Seq(SessionRecord)
  PROVE  /\ Len(rec) \in Nat /\ Records = 1 .. Len(rec) /\ 0 \notin Records
         /\ IsFiniteSet(Records) /\ \A r \in Records : rec[r] \in SessionRecord
<1>1. Len(rec) \in Nat /\ Records = 1 .. Len(rec) /\ \A r \in Records : rec[r] \in SessionRecord
  BY DEF Records
<1>2. IsFiniteSet(1 .. Len(rec))
  BY <1>1, FS_Interval
<1> QED
  BY <1>1, <1>2

Less == {p \in Nat \X Nat : p[1] < p[2]}

\* The least of a set of numbers is one of them.
LEMMA MinIsIn ==
  ASSUME NEW S, S \subseteq Nat, S # {} PROVE Min(S) \in S
<1>1. IsWellFoundedOn(Less, Nat)
  BY NatLessThanWellFounded, Zenon DEF OpToRel, Less
<1>2. PICK x \in S : \A y \in S : ~ (<<y, x>> \in Less)
  BY <1>1, WFMin
<1>3. \A m, n \in Nat : m < n => <<m, n>> \in Less
  BY SMT DEF Less
<1>4. ASSUME NEW y \in S PROVE x <= y
  <2>1. x \in Nat /\ y \in Nat
    OBVIOUS
  <2>2. ~ (y < x)
    BY <1>2, <1>3, <2>1
  <2> QED
    BY <2>1, <2>2
<1> QED
  BY <1>4 DEF Min

\* allocateSlotLocked finds a free number when there is one, and the search for the
\* next one starts at a number.
LEMMA SlotIsFree ==
  ASSUME Free # {}
  PROVE  allocateSlot \in Free /\ allocateSlot \in Ids /\ nextSessionID(allocateSlot) \in Ids
<1>1. Free \subseteq Ids /\ Ids \subseteq Nat
  BY StoreAssumption DEF Free, Ids
<1>2. allocateSlot \in Free
  BY <1>1, MinIsIn DEF allocateSlot
<1> QED
  BY <1>1, <1>2, StoreAssumption DEF nextSessionID, Ids

\* A table of signatures from which only those were dropped that no session can be
\* found by.
KeepsSigs(sigs) ==
  /\ DOMAIN sigs \subseteq DOMAIN bySig /\ \A s \in DOMAIN sigs : sigs[s] = bySig[s]
  /\ \A r \in Records : Reusable(r) => rec[r].sig \in DOMAIN sigs

\* expireReuseLocked is one way to drop signatures, leaving them is another.
LEMMA ExpireKeepsSigs ==
  ASSUME TypeOK, StoreConsistent, SigKept PROVE KeepsSigs(bySig) /\ KeepsSigs(expireReuse)
<1> DEFINE D == {s \in DOMAIN bySig : byID[bySig[s]] # 0 /\ rec[byID[bySig[s]]].reuse}
<1>1. DOMAIN expireReuse = D /\ \A s \in D : expireReuse[s] = bySig[s]
  BY DEF expireReuse, Restrict
<1>2. ASSUME NEW r \in Records, Reusable(r) PROVE rec[r].sig \in D
  <2>1. 0 \notin Records /\ byID[rec[r].id] = r
    BY <1>2, RecordsAre DEF TypeOK, StoreConsistent, Reusable
  <2> QED
    BY <1>2, <2>1 DEF SigKept, Reusable
<1> QED
  BY <1>1, <1>2 DEF KeepsSigs, SigKept

-----------------------------------------------------------------------------
(* What happens to the table.                                                *)

\* The records of rec' are those of rec, except for their use and age and for reuse
\* periods that have run out.
SameSessions ==
  /\ rec' \in Seq(SessionRecord) /\ Len(rec') = Len(rec)
  /\ \A r \in Records :
       /\ rec'[r].id = rec[r].id /\ rec'[r].sig = rec[r].sig /\ rec'[r].cookie = rec[r].cookie
       /\ rec'[r].closed = rec[r].closed /\ rec'[r].again = rec[r].again
       /\ rec'[r].reuse => rec[r].reuse

\* Such a step, with or without the end of reuse periods, keeps the table in order.
LEMMA SameSessionsTable ==
  ASSUME IInv, SameSessions, KeepsSigs(bySig'), UNCHANGED <<byID, recentClosed, activeCount>>
  PROVE  TableInv'
<1>1. TypeOK /\ StoreConsistent /\ SigKept /\ AgainTold /\ OneOpenPerInit
  BY DEF IInv, TableInv
<1>2. /\ Records' = Records /\ Records \subseteq Nat /\ 0 \notin Records
      /\ \A r \in Records : rec[r] \in SessionRecord /\ rec'[r] \in SessionRecord
  BY <1>1, RecordsAre DEF TypeOK, SameSessions, Records
<1>3. \A r : Open(r)' <=> Open(r)
  BY <1>2 DEF Open, SameSessions
<1>4. StoreConsistent'
  <2>1. ASSUME NEW i \in Ids, byID'[i] # 0
        PROVE  (Open(byID[i]) /\ rec[byID[i]].id = i)'
    <3>1. byID'[i] = byID[i] /\ byID[i] \in Records /\ ~ rec[byID[i]].closed /\ rec[byID[i]].id = i
      BY <1>1, <2>1 DEF StoreConsistent, Open
    <3> QED
      BY <1>2, <3>1 DEF SameSessions, Open
  <2>2. \A r \in Records' : Open(r)' => byID'[rec'[r].id] = r
    BY <1>1, <1>2, <1>3 DEF StoreConsistent, SameSessions
  <2>3. activeCount' = Cardinality({r \in Records' : Open(r)'})
    <3>1. {r \in Records' : Open(r)'} = {r \in Records : Open(r)}
      BY <1>2, <1>3
    <3> QED
      BY <1>1, <3>1 DEF StoreConsistent
  <2>4. ASSUME NEW s \in DOMAIN bySig'
        PROVE  byID'[bySig'[s]] # 0 /\ rec'[byID'[bySig'[s]]].sig = s
    <3>1. s \in DOMAIN bySig /\ bySig'[s] = bySig[s] /\ bySig[s] \in Ids
      BY <1>1 DEF KeepsSigs, TypeOK
    <3>2. byID[bySig[s]] # 0 /\ rec[byID[bySig[s]]].sig = s /\ byID[bySig[s]] \in Records
      BY <1>1, <3>1 DEF StoreConsistent, Open
    <3> QED
      BY <3>1, <3>2 DEF SameSessions
  <2>5. \A i \in recentClosed' : byID'[i] = 0
    BY <1>1 DEF StoreConsistent
  <2> QED
    BY <2>1, <2>2, <2>3, <2>4, <2>5 DEF StoreConsistent
<1>5. SigKept'
  BY <1>1, <1>2, <1>3 DEF SigKept, Reusable, SameSessions, KeepsSigs
<1>6. AgainTold'
  BY <1>1, <1>2, <1>3 DEF AgainTold, SameSessions
<1>7. OneOpenPerInit'
  BY <1>1, <1>2, <1>3 DEF OneOpenPerInit, SameSessions
<1> QED
  BY <1>4, <1>5, <1>6, <1>7 DEF TableInv

\* The records after the sessions of gone have ended.
LEMMA EndedRecords ==
  ASSUME rec \in Seq(SessionRecord), NEW gone \in SUBSET Records, rec' = Ended(gone)
  PROVE  /\ rec' \in Seq(SessionRecord) /\ Len(rec') = Len(rec) /\ Records' = Records
         /\ \A r \in Records :
              /\ rec'[r].id = rec[r].id /\ rec'[r].sig = rec[r].sig
              /\ rec'[r].cookie = rec[r].cookie /\ rec'[r].again = rec[r].again
              /\ rec'[r].reuse = rec[r].reuse
              /\ r \notin gone => rec'[r] = rec[r]
         /\ \A r \in gone : rec'[r].closed
         /\ \A r : Open(r)' <=> Open(r) /\ r \notin gone
<1> DEFINE e(r) == [rec[r] EXCEPT !.closed = TRUE, !.age = "active", !.swept = FALSE, !.woken = FALSE]
<1>1. /\ Len(rec) \in Nat /\ Records = 1 .. Len(rec)
      /\ \A r \in Records : rec[r] \in SessionRecord
  BY RecordsAre
<1>2. ASSUME NEW r \in Records
      PROVE  /\ e(r) \in SessionRecord /\ e(r).closed /\ e(r).id = rec[r].id /\ e(r).sig = rec[r].sig
             /\ e(r).cookie = rec[r].cookie /\ e(r).again = rec[r].again
             /\ e(r).reuse = rec[r].reuse
  BY <1>1 DEF SessionRecord
<1>3. rec' = [r \in Records |-> IF r \in gone THEN e(r) ELSE rec[r]]
  BY DEF Ended
<1> HIDE DEF e
<1>4. rec' \in Seq(SessionRecord) /\ Len(rec') = Len(rec) /\ Records' = Records
  BY <1>1, <1>2, <1>3 DEF Records
<1>5. \A r \in Records : rec'[r] = IF r \in gone THEN e(r) ELSE rec[r]
  BY <1>3
<1> QED
  BY <1>2, <1>4, <1>5 DEF Open

\* Close and Cleanup: the table stays in order when sessions end.  A session that may
\* be found again keeps its signature, for no other open session has the payload: an
\* older one would have been there when it was opened, a younger one would have been
\* given its number instead.
LEMMA RemoveTable ==
  ASSUME IInv, NEW gone, NEW sigs, NEW kept, Remove(gone, sigs, kept),
         \A r \in gone : Open(r), KeepsSigs(sigs), kept \subseteq recentClosed
  PROVE  TableInv' /\ activeCount' \in 0 .. MaxActive
<1>1. TypeOK /\ StoreConsistent /\ SigKept /\ AgainTold /\ OneOpenPerInit
  BY DEF IInv, TableInv
<1>2. gone \in SUBSET Records
  BY DEF Open
<1>3. /\ rec' = Ended(gone) /\ recentClosed' = kept \cup {rec[r].id : r \in gone}
      /\ byID' = [i \in Ids |-> IF byID[i] \in gone THEN 0 ELSE byID[i]]
      /\ activeCount' = activeCount - Cardinality(gone)
  BY DEF Remove
<1>4. /\ Records' = Records
      /\ \A r \in Records :
           /\ rec'[r].id = rec[r].id /\ rec'[r].sig = rec[r].sig
           /\ rec'[r].again = rec[r].again /\ rec'[r].reuse = rec[r].reuse
           /\ r \notin gone => rec'[r] = rec[r]
      /\ \A r : Open(r)' <=> Open(r) /\ r \notin gone
  BY <1>1, <1>2, <1>3, EndedRecords DEF TypeOK
<1>5. /\ Records \subseteq Nat /\ 0 \notin Records /\ IsFiniteSet(Records)
      /\ \A r \in Records : rec[r].id \in Ids
  BY <1>1, RecordsAre DEF TypeOK, SessionRecord
<1>6. /\ DOMAIN bySig' = {s \in DOMAIN sigs : \A r \in gone : rec[r].sig # s}
      /\ \A s \in DOMAIN bySig' : bySig'[s] = sigs[s]
  BY DEF Remove, Restrict
<1>7. \A i \in Ids : byID'[i] = IF byID[i] \in gone THEN 0 ELSE byID[i]
  BY <1>3
<1>8. StoreConsistent' /\ activeCount' \in 0 .. MaxActive
  <2>1. ASSUME NEW i \in Ids, byID'[i] # 0
        PROVE  (Open(byID[i]) /\ rec[byID[i]].id = i)'
    <3>1. byID'[i] = byID[i] /\ byID[i] \notin gone /\ Open(byID[i]) /\ rec[byID[i]].id = i
      BY <1>1, <1>7, <2>1 DEF StoreConsistent
    <3>2. byID[i] \in Records
      BY <3>1 DEF Open
    <3> QED
      BY <1>4, <3>1, <3>2
  <2>2. ASSUME NEW r \in Records, Open(r)' PROVE byID'[rec'[r].id] = r
    BY <1>1, <1>4, <1>5, <1>7, <2>2 DEF StoreConsistent
  <2>3. activeCount' = Cardinality({r \in Records' : Open(r)'}) /\ activeCount' \in 0 .. MaxActive
    <3> DEFINE live == {r \in Records : Open(r)}
    <3>1. {r \in Records' : Open(r)'} = live \ gone /\ live \cap gone = gone
      BY <1>2, <1>4
    <3>2. IsFiniteSet(live) /\ activeCount = Cardinality(live)
      BY <1>1, <1>5, FS_Subset DEF StoreConsistent
    <3>3. /\ IsFiniteSet(live \ gone) /\ IsFiniteSet(gone)
          /\ Cardinality(live \ gone) = Cardinality(live) - Cardinality(live \cap gone)
      BY <3>1, <3>2, FS_Difference, FS_Subset
    <3>4. Cardinality(gone) \in Nat /\ Cardinality(live \ gone) \in Nat
      BY <3>3, FS_CardinalityType
    <3>5. activeCount \in 0 .. MaxActive /\ MaxActive \in Nat
      BY <1>1, StoreAssumption DEF TypeOK
    <3>6. activeCount' = Cardinality(live \ gone)
      BY <1>3, <3>1, <3>2, <3>3
    <3>7. activeCount' \in 0 .. MaxActive
      <4>1. activeCount' \in Nat
        BY <3>4, <3>6
      <4> QED
        BY <1>3, <3>4, <3>5, <4>1
    <3> QED
      BY <3>1, <3>6, <3>7
  <2>4. ASSUME NEW s \in DOMAIN bySig'
        PROVE  byID'[bySig'[s]] # 0 /\ rec'[byID'[bySig'[s]]].sig = s
    <3>1. /\ s \in DOMAIN bySig /\ bySig'[s] = bySig[s] /\ bySig[s] \in Ids
          /\ \A r \in gone : rec[r].sig # s
      BY <1>1, <1>6 DEF KeepsSigs, TypeOK
    <3>2. byID[bySig[s]] # 0 /\ rec[byID[bySig[s]]].sig = s /\ byID[bySig[s]] \in Records
      BY <1>1, <3>1 DEF StoreConsistent, Open
    <3> QED
      BY <1>4, <1>7, <3>1, <3>2
  <2>5. ASSUME NEW i \in recentClosed' PROVE byID'[i] = 0
    <3>1. CASE i \in kept
      BY <1>1, <1>7, <3>1 DEF StoreConsistent, TypeOK
    <3>2. CASE \E r \in gone : i = rec[r].id
      BY <1>1, <1>2, <1>5, <1>7, <3>2 DEF StoreConsistent
    <3> QED
      BY <1>3, <3>1, <3>2
  <2> QED
    BY <1>4, <2>1, <2>2, <2>3, <2>4, <2>5 DEF StoreConsistent
<1>9. SigKept'
  <2> SUFFICES ASSUME NEW r \in Records, Reusable(r)'
               PROVE  rec'[r].sig \in DOMAIN bySig' /\ bySig'[rec'[r].sig] = rec'[r].id
    BY <1>4 DEF SigKept
  <2>1. Reusable(r) /\ r \notin gone /\ rec'[r] = rec[r]
    BY <1>4 DEF Reusable
  <2>2. ASSUME NEW g \in gone PROVE rec[g].sig # rec[r].sig
    <3>1. Open(g) /\ g \in Records /\ g # r /\ Open(r) /\ rec[r].reuse /\ ~ rec[r].again
      BY <1>2, <2>1 DEF Reusable
    <3>2. CASE r < g
      BY <1>1, <3>1, <3>2 DEF OneOpenPerInit
    <3>3. CASE g < r
      BY <1>1, <3>1, <3>3 DEF AgainTold
    <3> QED
      BY <1>5, <3>1, <3>2, <3>3
  <2> QED
    BY <1>1, <1>6, <2>1, <2>2 DEF SigKept, KeepsSigs
<1>10. AgainTold'
  BY <1>1, <1>4 DEF AgainTold
<1>11. OneOpenPerInit'
  BY <1>1, <1>4 DEF OneOpenPerInit
<1> QED
  BY <1>8, <1>9, <1>10, <1>11 DEF TableInv

\* findOrCreate: the table stays in order when a session is opened.  Its number is
\* free, and no session could have been found by its payload.
LEMMA CreateTable ==
  ASSUME IInv, NEW s \in Signatures, NEW c \in Cookies, Create(s, c)
  PROVE  TypeOK' /\ TableInv'
<1> DEFINE slot == allocateSlot
           n == Len(rec) + 1
           new == NewRecord(s, c)
<1>1. TypeOK /\ StoreConsistent /\ SigKept /\ AgainTold /\ OneOpenPerInit
  BY DEF IInv, TableInv
<1>2. /\ s \notin DOMAIN expireReuse /\ activeCount < MaxActive /\ Free # {}
      /\ rec' = Append(rec, new) /\ byID' = [byID EXCEPT ![slot] = n]
      /\ recentClosed' = recentClosed \ {slot}
      /\ nextID' = nextSessionID(slot) /\ activeCount' = activeCount + 1
      /\ UNCHANGED <<job, sweep, work>>
  BY DEF Create, CanAllocate
<1>3. bySig' = [x \in DOMAIN expireReuse \cup {s} |-> IF x = s THEN slot ELSE expireReuse[x]]
  BY DEF Create
<1>4. slot \in Ids /\ byID[slot] = 0 /\ nextID' \in Ids
  BY <1>2, SlotIsFree DEF Free
<1>5. /\ new \in SessionRecord /\ new.id = slot /\ new.sig = s /\ ~ new.closed
      /\ new.again <=> \E r \in Records : Open(r) /\ rec[r].sig = s
  BY <1>4 DEF NewRecord, SessionRecord
<1> HIDE DEF slot, new
<1>6. /\ Len(rec) \in Nat /\ Records = 1 .. Len(rec) /\ IsFiniteSet(Records)
      /\ \A r \in Records : rec[r] \in SessionRecord
  BY <1>1, RecordsAre DEF TypeOK
<1>7. /\ rec' \in Seq(SessionRecord) /\ Len(rec') = n /\ Records' = Records \cup {n}
      /\ n \notin Records /\ rec'[n] = new /\ \A r \in Records : rec'[r] = rec[r]
  BY <1>1, <1>2, <1>5, <1>6 DEF TypeOK, Records
<1>8. \A r : Open(r)' <=> r = n \/ Open(r)
  BY <1>5, <1>7 DEF Open
<1>9. KeepsSigs(expireReuse)
  BY <1>1, ExpireKeepsSigs
<1>10. byID'[slot] = n /\ \A i \in Ids \ {slot} : byID'[i] = byID[i]
  BY <1>1, <1>2, <1>4 DEF TypeOK
<1>11. /\ DOMAIN bySig' = DOMAIN expireReuse \cup {s} /\ bySig'[s] = slot
       /\ \A x \in DOMAIN expireReuse : bySig'[x] = bySig[x] /\ x \in DOMAIN bySig
  BY <1>2, <1>3, <1>9 DEF KeepsSigs
<1>12. activeCount' = Cardinality({r \in Records' : Open(r)'})
  <2> DEFINE live == {r \in Records : Open(r)}
  <2>1. {r \in Records' : Open(r)'} = live \cup {n} /\ n \notin live
    BY <1>7, <1>8
  <2>2. IsFiniteSet(live) /\ activeCount = Cardinality(live)
    BY <1>1, <1>6, FS_Subset DEF StoreConsistent
  <2>3. Cardinality(live \cup {n}) = Cardinality(live) + 1
    BY <2>1, <2>2, FS_AddElement
  <2> QED
    BY <1>2, <2>1, <2>2, <2>3
<1>13. TypeOK'
  <2>1. 0 .. Len(rec) \subseteq 0 .. Len(rec')
    BY <1>6, <1>7
  <2>2. byID' \in [Ids -> 0 .. Len(rec')]
    BY <1>1, <1>2, <1>4, <1>6, <1>7, <2>1 DEF TypeOK
  <2>3. DOMAIN bySig' \subseteq Signatures /\ \A x \in DOMAIN bySig' : bySig'[x] \in Ids
    BY <1>1, <1>4, <1>11 DEF TypeOK
  <2>4. activeCount' \in 0 .. MaxActive
    BY <1>1, <1>2, StoreAssumption DEF TypeOK
  <2>5. job' \in [Workers -> [op : {"idle", "touch", "handle", "close", "cleanup"},
                              r : 0 .. Len(rec')]]
    BY <1>1, <1>2, <2>1 DEF TypeOK
  <2>6. work' \subseteq [id : Ids, r : 0 .. Len(rec')]
    BY <1>1, <1>2, <2>1 DEF TypeOK
  <2>7. sweep' \in [pc : {"sleep", "collect", "clean"}, expired : SUBSET Records',
                    idle : SUBSET Records']
    BY <1>1, <1>2, <1>7 DEF TypeOK
  <2>8. recentClosed' \subseteq Ids
    BY <1>1, <1>2 DEF TypeOK
  <2> QED
    BY <1>4, <1>7, <2>2, <2>3, <2>4, <2>5, <2>6, <2>7, <2>8 DEF TypeOK
<1>14. StoreConsistent'
  <2>1. ASSUME NEW i \in Ids, byID'[i] # 0
        PROVE  (Open(byID[i]) /\ rec[byID[i]].id = i)'
    <3>1. CASE i = slot
      <4>1. byID'[i] = n
        BY <1>10, <3>1
      <4> QED
        BY <1>5, <1>7, <3>1, <4>1 DEF Open
    <3>2. CASE i # slot
      <4>1. byID'[i] = byID[i] /\ Open(byID[i]) /\ rec[byID[i]].id = i
        BY <1>1, <1>10, <2>1, <3>2 DEF StoreConsistent
      <4>2. byID[i] \in Records
        BY <4>1 DEF Open
      <4> QED
        BY <1>7, <1>8, <4>1, <4>2
    <3> QED
      BY <3>1, <3>2
  <2>2. ASSUME NEW r \in Records', Open(r)' PROVE byID'[rec'[r].id] = r
    <3>1. CASE r = n
      BY <1>5, <1>7, <1>10, <3>1
    <3>2. CASE r \in Records
      <4>1. Open(r) /\ byID[rec[r].id] = r /\ rec[r].id \in Ids /\ r # 0
        BY <1>1, <1>6, <1>8, <2>2, <3>2 DEF StoreConsistent, SessionRecord
      <4> QED
        BY <1>4, <1>7, <1>10, <3>2, <4>1
    <3> QED
      BY <1>7, <3>1, <3>2
  <2>3. ASSUME NEW x \in DOMAIN bySig'
        PROVE  byID'[bySig'[x]] # 0 /\ rec'[byID'[bySig'[x]]].sig = x
    <3>1. CASE x = s
      BY <1>5, <1>6, <1>7, <1>10, <1>11, <3>1
    <3>2. CASE x \in DOMAIN expireReuse
      <4>1. bySig'[x] = bySig[x] /\ bySig[x] \in Ids /\ x \in DOMAIN bySig
        BY <1>1, <1>11, <3>2 DEF TypeOK
      <4>2. byID[bySig[x]] # 0 /\ rec[byID[bySig[x]]].sig = x /\ byID[bySig[x]] \in Records
        BY <1>1, <4>1 DEF StoreConsistent, Open
      <4> QED
        BY <1>4, <1>7, <1>10, <4>1, <4>2
    <3> QED
      BY <1>11, <3>1, <3>2
  <2>4. \A i \in recentClosed' : byID'[i] = 0
    BY <1>1, <1>2, <1>10 DEF StoreConsistent, TypeOK
  <2> QED
    BY <1>12, <2>1, <2>2, <2>3, <2>4 DEF StoreConsistent
<1>15. \A r \in Records : Reusable(r) => rec[r].sig # s
  BY <1>2, <1>9 DEF KeepsSigs
<1>16. SigKept'
  <2> SUFFICES ASSUME NEW r \in Records', Reusable(r)'
               PROVE  rec'[r].sig \in DOMAIN bySig' /\ bySig'[rec'[r].sig] = rec'[r].id
    BY DEF SigKept
  <2>1. CASE r = n
    BY <1>5, <1>7, <1>11, <2>1
  <2>2. CASE r \in Records
    <3>1. Reusable(r) /\ rec'[r] = rec[r]
      BY <1>7, <1>8, <2>2 DEF Reusable
    <3> QED
      BY <1>1, <1>9, <1>11, <1>15, <2>2, <3>1 DEF SigKept, KeepsSigs
  <2> QED
    BY <1>7, <2>1, <2>2
<1>17. \A a, b \in Records' : a < b => a \in Records
  BY <1>6, <1>7
<1>18. AgainTold'
  <2> SUFFICES ASSUME NEW a \in Records', NEW b \in Records', a < b, Open(a)', Open(b)',
                      rec'[a].sig = rec'[b].sig
               PROVE  rec'[b].again
    BY DEF AgainTold
  <2>1. a \in Records /\ Open(a) /\ rec'[a] = rec[a]
    BY <1>7, <1>8, <1>17
  <2>2. CASE b = n
    BY <1>5, <1>7, <2>1, <2>2
  <2>3. CASE b \in Records
    BY <1>1, <1>7, <1>8, <2>1, <2>3 DEF AgainTold
  <2> QED
    BY <1>7, <2>2, <2>3
<1>19. OneOpenPerInit'
  <2> SUFFICES ASSUME NEW a \in Records', NEW b \in Records', a < b, Open(a)', Open(b)',
                      rec'[a].sig = rec'[b].sig, rec'[a].reuse
               PROVE  rec'[a].again
    BY DEF OneOpenPerInit
  <2>1. a \in Records /\ Open(a) /\ rec'[a] = rec[a]
    BY <1>7, <1>8, <1>17
  <2>2. CASE b = n
    BY <1>5, <1>7, <1>15, <2>1, <2>2 DEF Reusable
  <2>3. CASE b \in Records
    BY <1>1, <1>7, <1>8, <2>1, <2>3 DEF OneOpenPerInit
  <2> QED
    BY <1>7, <2>2, <2>3
<1> QED
  BY <1>13, <1>14, <1>16, <1>18, <1>19 DEF TableInv

-----------------------------------------------------------------------------
(* The invariant holds at first, and every step preserves it.                *)

\* What TypeOK says of the goroutines.
JobType ==
  job \in [Workers -> [op : {"idle", "touch", "handle", "close", "cleanup"}, r : 0 .. Len(rec)]]

SweepType ==
  sweep \in [pc : {"sleep", "collect", "clean"}, expired : SUBSET Records, idle : SUBSET Records]

WorkType == work \subseteq [id : Ids, r : 0 .. Len(rec)]

RoutineType == JobType /\ SweepType /\ WorkType

\* The store starts empty.
LEMMA InitIInv == Init => IInv
<1> SUFFICES ASSUME Init PROVE IInv
  OBVIOUS
<1>1. /\ rec = << >> /\ byID = [i \in Ids |-> 0] /\ bySig = << >>
      /\ recentClosed = {} /\ nextID = 1 /\ activeCount = 0 /\ work = {}
  BY DEF Init
<1>2. Len(rec) = 0 /\ Records = {} /\ rec \in Seq(SessionRecord) /\ DOMAIN bySig = {}
  BY <1>1 DEF Records
<1>3. TypeOK
  <2>1. job \in [Workers -> [op : {"idle", "touch", "handle", "close", "cleanup"},
                             r : 0 .. Len(rec)]]
    BY <1>2 DEF Init, Idle
  <2>2. sweep \in [pc : {"sleep", "collect", "clean"}, expired : SUBSET Records,
                   idle : SUBSET Records]
    BY DEF Init, Sleep
  <2>3. MaxActive \in Nat /\ 1 \in Ids
    BY StoreAssumption DEF Ids
  <2> QED
    BY <1>1, <1>2, <2>1, <2>2, <2>3 DEF TypeOK
<1>4. TableInv
  <2>1. activeCount = Cardinality({r \in Records : Open(r)})
    <3>1. {r \in Records : Open(r)} = {}
      BY <1>2
    <3> QED
      BY <1>1, <3>1, FS_EmptySet
  <2> QED
    BY <1>1, <1>2, <2>1 DEF TableInv, StoreConsistent, SigKept, AgainTold, OneOpenPerInit
<1>5. RoutineInv
  BY DEF RoutineInv, JobsPlaced, SweepTrue, Init, Idle, Sleep
<1> QED
  BY <1>3, <1>4, <1>5 DEF IInv

\* A step that leaves the sessions and their numbers as they are.
LEMMA SessionsStay ==
  ASSUME IInv, SameSessions, bySig' \in {bySig, expireReuse}, RoutineType',
         UNCHANGED <<byID, recentClosed, nextID, activeCount>>
  PROVE  TypeOK' /\ TableInv' /\ Records' = Records /\ \A r : Open(r)' <=> Open(r)
<1>1. TypeOK /\ StoreConsistent /\ SigKept
  BY DEF IInv, TableInv
<1>2. KeepsSigs(bySig')
  BY <1>1, ExpireKeepsSigs
<1>3. TableInv'
  BY <1>2, SameSessionsTable
<1>4. Records' = Records
  BY <1>1, RecordsAre DEF TypeOK, SameSessions, Records
<1>5. DOMAIN bySig' \subseteq Signatures /\ \A s \in DOMAIN bySig' : bySig'[s] \in Ids
  BY <1>1, <1>2 DEF KeepsSigs, TypeOK
<1>6. TypeOK'
  BY <1>1, <1>5 DEF TypeOK, SameSessions, RoutineType, JobType, SweepType, WorkType
<1> QED
  BY <1>3, <1>4, <1>6 DEF Open, SameSessions

\* A step of a goroutine that does not touch the store.
LEMMA StoreStays ==
  ASSUME IInv, UNCHANGED storeVars, RoutineType'
  PROVE  /\ TypeOK' /\ TableInv' /\ Records' = Records /\ rec' = rec
         /\ \A r : Open(r)' <=> Open(r)
<1>1. UNCHANGED <<rec, byID, bySig, recentClosed, nextID, activeCount>>
  BY DEF storeVars
<1>2. SameSessions
  BY <1>1 DEF IInv, TypeOK, SameSessions
<1> QED
  BY <1>1, <1>2, SessionsStay

\* setLastActivity: of a session that the cleanup loop has on its list of idle ones it
\* is remembered.
LEMMA TouchFacts ==
  ASSUME IInv, NEW r \in Records, rec' = Touch(r), UNCHANGED sweep
  PROVE  SameSessions /\ SweepTrue' /\ SweepType'
<1> DEFINE listed == r \in sweep.idle
           e == [rec[r] EXCEPT !.age = "active", !.swept = FALSE, !.woken = listed]
<1>1. /\ Len(rec) \in Nat /\ Records = 1 .. Len(rec) /\ rec \in Seq(SessionRecord)
      /\ \A q \in Records : rec[q] \in SessionRecord
  BY RecordsAre DEF IInv, TypeOK
<1>2. sweep.expired \subseteq Records /\ sweep.idle \subseteq Records /\ SweepType
  BY DEF IInv, TypeOK, SweepType
<1>3. SweepTrue
  BY DEF IInv, RoutineInv
<1>4. CASE rec[r].closed
  <2>1. rec' = rec
    BY <1>4 DEF Touch
  <2>2. SameSessions /\ Records' = Records
    BY <1>1, <2>1 DEF SameSessions, Records
  <2> QED
    BY <1>2, <1>3, <2>1, <2>2 DEF SweepTrue, SweepType
<1>5. CASE ~ rec[r].closed
  <2>1. rec' = [rec EXCEPT ![r] = e]
    BY <1>5 DEF Touch
  <2>2. /\ e \in SessionRecord /\ e.id = rec[r].id /\ e.sig = rec[r].sig
        /\ e.cookie = rec[r].cookie /\ e.closed = rec[r].closed /\ e.again = rec[r].again
        /\ e.reuse = rec[r].reuse /\ e.woken = listed
    <3>1. listed \in BOOLEAN
      OBVIOUS
    <3> HIDE DEF listed
    <3> QED
      BY <1>1, <3>1 DEF SessionRecord
  <2> HIDE DEF e
  <2>3. /\ rec' \in Seq(SessionRecord) /\ Len(rec') = Len(rec) /\ Records' = Records
        /\ rec'[r] = e /\ \A q \in Records \ {r} : rec'[q] = rec[q]
    BY <1>1, <2>1, <2>2 DEF Records
  <2>4. SameSessions
    BY <2>2, <2>3 DEF SameSessions
  <2>5. SweepTrue'
    BY <1>2, <1>3, <2>2, <2>3 DEF SweepTrue
  <2> QED
    BY <1>2, <2>3, <2>4, <2>5 DEF SweepType
<1> QED
  BY <1>4, <1>5

\* SESSION_INIT of a session that is there.
LEMMA FindExistingStep ==
  ASSUME IInv, NEW s \in Signatures, FindExisting(s) PROVE IInv' /\ SameSessions
<1>1. /\ bySig' = expireReuse /\ rec' = Touch(byID[bySig[s]]) /\ s \in DOMAIN bySig
      /\ UNCHANGED <<byID, recentClosed, nextID, activeCount, job, sweep, work>>
  BY DEF FindExisting, expireReuse, Restrict
<1>2. TypeOK /\ StoreConsistent /\ RoutineInv
  BY DEF IInv, TableInv
<1>3. byID[bySig[s]] \in Records
  BY <1>1, <1>2 DEF TypeOK, StoreConsistent, Open
<1>4. SameSessions /\ SweepTrue' /\ SweepType'
  BY <1>1, <1>3, TouchFacts
<1>5. RoutineType'
  BY <1>1, <1>2, <1>4 DEF SameSessions, RoutineType, JobType, WorkType, TypeOK
<1>6. TypeOK' /\ TableInv' /\ Records' = Records /\ \A r : Open(r)' <=> Open(r)
  BY <1>1, <1>4, <1>5, SessionsStay
<1>7. JobsPlaced'
  BY <1>1, <1>2, <1>6 DEF RoutineInv, JobsPlaced
<1> QED
  BY <1>4, <1>6, <1>7 DEF IInv, RoutineInv

\* SESSION_INIT that is refused.
LEMMA RefuseStep ==
  ASSUME IInv, NEW s \in Signatures, Refuse(s) PROVE IInv'
<1>1. /\ bySig' = expireReuse
      /\ UNCHANGED <<rec, byID, recentClosed, nextID, activeCount, job, sweep, work>>
  BY DEF Refuse
<1>2. TypeOK /\ RoutineInv
  BY DEF IInv
<1>3. SameSessions /\ RoutineType'
  BY <1>1, <1>2 DEF SameSessions, RoutineType, JobType, WorkType, SweepType, TypeOK, Records
<1>4. TypeOK' /\ TableInv' /\ Records' = Records /\ \A r : Open(r)' <=> Open(r)
  BY <1>1, <1>3, SessionsStay
<1>5. RoutineInv'
  BY <1>1, <1>2, <1>4 DEF RoutineInv, JobsPlaced, SweepTrue
<1> QED
  BY <1>4, <1>5 DEF IInv

\* SESSION_INIT that opens a session.
LEMMA CreateStep ==
  ASSUME IInv, NEW s \in Signatures, NEW c \in Cookies, Create(s, c) PROVE IInv'
<1>1. TypeOK' /\ TableInv'
  BY CreateTable
<1>2. TypeOK /\ RoutineInv
  BY DEF IInv
<1>3. UNCHANGED <<job, sweep>> /\ \E e : rec' = Append(rec, e)
  BY DEF Create
<1>4. /\ Records \subseteq Records'
      /\ \A r \in Records : rec'[r] = rec[r] /\ (Open(r)' <=> Open(r))
  <2>1. Len(rec) \in Nat /\ Records = 1 .. Len(rec)
    BY <1>2, RecordsAre DEF TypeOK
  <2>2. Records' = 1 .. Len(rec')
    BY <1>1 DEF TypeOK, Records
  <2>3. Records \subseteq Records' /\ \A r \in Records : rec'[r] = rec[r]
    BY <1>2, <1>3, <2>1, <2>2 DEF TypeOK
  <2> QED
    BY <2>3 DEF Open
<1>5. RoutineInv'
  <2>1. JobsPlaced'
    BY <1>2, <1>3, <1>4 DEF RoutineInv, JobsPlaced
  <2>2. SweepTrue'
    BY <1>2, <1>3, <1>4 DEF RoutineInv, SweepTrue, TypeOK
  <2> QED
    BY <2>1, <2>2 DEF RoutineInv
<1> QED
  BY <1>1, <1>5 DEF IInv

\* The session that a packet is taken to belong to is a record.
LEMMA MatchIsRecord ==
  ASSUME IInv, NEW r \in Records, Match(r) # 0 PROVE Match(r) \in Records
<1>1. TypeOK /\ StoreConsistent /\ rec[r].id \in Ids
  BY RecordsAre DEF IInv, TableInv, TypeOK, SessionRecord
<1> QED
  BY <1>1 DEF Match, StoreConsistent, Open

\* A worker takes up a packet of a session, or goes on to its next step.
LEMMA JobStep ==
  ASSUME IInv, UNCHANGED <<storeVars, sweep, work>>, NEW w \in Workers,
         NEW j \in [op : {"idle", "touch", "handle", "close"}, r : 0 .. Len(rec)],
         j.op # "idle" => j.r \in Records, job' = [job EXCEPT ![w] = j]
  PROVE  IInv'
<1>1. TypeOK /\ RoutineInv /\ rec' = rec
  BY DEF IInv, storeVars
<1>2. job'[w] = j /\ \A v \in Workers \ {w} : job'[v] = job[v]
  BY <1>1 DEF TypeOK
<1>3. RoutineType'
  <2>1. j \in [op : {"idle", "touch", "handle", "close", "cleanup"}, r : 0 .. Len(rec)]
    OBVIOUS
  <2>2. JobType'
    BY <1>1, <2>1 DEF TypeOK, JobType
  <2> QED
    BY <1>1, <2>2 DEF TypeOK, RoutineType, SweepType, WorkType, Records
<1>4. TypeOK' /\ TableInv' /\ Records' = Records /\ \A r : Open(r)' <=> Open(r)
  BY <1>3, StoreStays
<1>5. RoutineInv'
  <2>1. JobsPlaced'
    BY <1>1, <1>2, <1>4 DEF RoutineInv, JobsPlaced
  <2> QED
    BY <1>1, <2>1 DEF RoutineInv, SweepTrue
<1> QED
  BY <1>4, <1>5 DEF IInv

\* Validate and LookupClose: the lock is released with the session in hand.
LEMMA LookUpStep ==
  ASSUME IInv, NEW w \in Workers, NEW r \in Records, Validate(w, r) \/ LookupClose(w, r)
  PROVE  IInv'
<1>1. /\ Match(r) # 0 /\ UNCHANGED <<storeVars, sweep, work>>
      /\ \E o \in {"touch", "close"} : job' = [job EXCEPT ![w] = [op |-> o, r |-> Match(r)]]
  BY DEF Validate, LookupClose
<1>2. Match(r) \in Records /\ Match(r) \in 0 .. Len(rec)
  BY <1>1, MatchIsRecord, RecordsAre DEF IInv, TypeOK
<1>3. PICK o \in {"touch", "close"} : job' = [job EXCEPT ![w] = [op |-> o, r |-> Match(r)]]
  BY <1>1
<1> DEFINE j == [op |-> o, r |-> Match(r)]
<1>4. j \in [op : {"idle", "touch", "handle", "close"}, r : 0 .. Len(rec)] /\ j.r \in Records
  BY <1>2
<1> HIDE DEF j
<1>5. job' = [job EXCEPT ![w] = j]
  BY <1>3 DEF j
<1> QED
  BY <1>1, <1>4, <1>5, JobStep

\* The rest of ValidateAndTouch.
LEMMA TouchValidatedStep ==
  ASSUME IInv, NEW w \in Workers, TouchValidated(w) PROVE IInv' /\ SameSessions
<1>1. /\ job[w].op = "touch" /\ rec' = Touch(job[w].r) /\ job' = [job EXCEPT ![w].op = "handle"]
      /\ UNCHANGED <<byID, bySig, recentClosed, nextID, activeCount, sweep, work>>
  BY DEF TouchValidated
<1>2. TypeOK /\ RoutineInv
  BY DEF IInv
<1>3. job[w].r \in Records
  BY <1>1, <1>2 DEF RoutineInv, JobsPlaced
<1>4. SameSessions /\ SweepTrue' /\ SweepType'
  BY <1>1, <1>3, TouchFacts
<1>5. /\ job'[w].op = "handle" /\ job'[w].r = job[w].r
      /\ \A v \in Workers \ {w} : job'[v] = job[v]
  BY <1>1, <1>2 DEF TypeOK
<1>6. RoutineType'
  <2>1. JobType'
    BY <1>1, <1>2, <1>4 DEF SameSessions, JobType, TypeOK
  <2> QED
    BY <1>1, <1>2, <1>4, <2>1 DEF SameSessions, RoutineType, WorkType, TypeOK
<1>7. TypeOK' /\ TableInv' /\ Records' = Records /\ \A r : Open(r)' <=> Open(r)
  BY <1>1, <1>4, <1>6, SessionsStay
<1>8. JobsPlaced'
  BY <1>1, <1>2, <1>5, <1>7 DEF RoutineInv, JobsPlaced
<1> QED
  BY <1>4, <1>7, <1>8 DEF IInv, RoutineInv

\* A worker that is done with its packet, whatever it has left to do for others.
LEMMA IdleStep ==
  ASSUME IInv, NEW w \in Workers, UNCHANGED <<storeVars, sweep>>, job' = [job EXCEPT ![w] = Idle],
         WorkType'
  PROVE  IInv'
<1>1. TypeOK /\ RoutineInv /\ rec' = rec
  BY DEF IInv, storeVars
<1>2. job'[w] = Idle /\ \A v \in Workers \ {w} : job'[v] = job[v]
  BY <1>1 DEF TypeOK
<1>3. RoutineType'
  <2>1. Idle \in [op : {"idle", "touch", "handle", "close", "cleanup"}, r : 0 .. Len(rec)]
    BY <1>1, RecordsAre DEF Idle, TypeOK
  <2>2. JobType'
    BY <1>1, <2>1 DEF TypeOK, JobType
  <2> QED
    BY <1>1, <2>2 DEF TypeOK, RoutineType, SweepType, Records
<1>4. TypeOK' /\ TableInv' /\ Records' = Records /\ \A r : Open(r)' <=> Open(r)
  BY <1>3, StoreStays
<1>5. RoutineInv'
  <2>1. JobsPlaced'
    BY <1>1, <1>2, <1>4 DEF RoutineInv, JobsPlaced, Idle
  <2> QED
    BY <1>1, <2>1 DEF RoutineInv, SweepTrue
<1> QED
  BY <1>4, <1>5 DEF IInv

\* Handle leaves work under the number of the session, CleanupClosed takes work away.
LEMMA HandleOrCleanupStep ==
  ASSUME IInv, NEW w \in Workers, Handle(w) \/ CleanupClosed(w) PROVE IInv'
<1>1. TypeOK /\ rec' = rec /\ job[w].op # "idle" /\ UNCHANGED <<storeVars, sweep>>
  BY DEF IInv, Handle, CleanupClosed, storeVars
<1>2. job' = [job EXCEPT ![w] = Idle]
  BY DEF Handle, CleanupClosed
<1> DEFINE id == rec[job[w].r].id
<1>3. job[w].r \in Records /\ id \in Ids
  BY <1>1, RecordsAre DEF IInv, RoutineInv, JobsPlaced, TypeOK, SessionRecord
<1>4. [id |-> id, r |-> byID[id]] \in [id : Ids, r : 0 .. Len(rec)]
  BY <1>1, <1>3 DEF TypeOK
<1>5. work' \subseteq work \cup {[id |-> id, r |-> byID[id]]}
  BY DEF Handle, CleanupClosed, WorkWithout
<1>6. WorkType'
  BY <1>1, <1>4, <1>5 DEF TypeOK, WorkType
<1> QED
  BY <1>1, <1>2, <1>6, IdleStep

\* A deferred worker has done a piece of work.
LEMMA ExecuteStep ==
  ASSUME IInv, NEW x, Execute(x) PROVE IInv'
<1>1. work' \subseteq work /\ rec' = rec /\ UNCHANGED <<storeVars, job, sweep>>
  BY DEF Execute, storeVars
<1>2. TypeOK /\ RoutineInv
  BY DEF IInv
<1>3. RoutineType'
  BY <1>1, <1>2 DEF TypeOK, RoutineType, JobType, SweepType, WorkType, Records
<1>4. TypeOK' /\ TableInv' /\ Records' = Records /\ \A r : Open(r)' <=> Open(r)
  BY <1>1, <1>3, StoreStays
<1>5. RoutineInv'
  BY <1>1, <1>2, <1>4 DEF RoutineInv, JobsPlaced, SweepTrue
<1> QED
  BY <1>4, <1>5 DEF IInv

\* What Close and Cleanup leave of the types, and of the lists of the cleanup loop.
LEMMA RemoveRest ==
  ASSUME IInv, NEW gone, NEW sigs, NEW kept, Remove(gone, sigs, kept),
         \A r \in gone : Open(r), KeepsSigs(sigs), kept \subseteq recentClosed, WorkType'
  PROVE  /\ TableInv' /\ Records' = Records /\ Len(rec') = Len(rec)
         /\ JobType' /\ SweepType' => TypeOK'
         /\ \A r \in Records : rec[r].closed => rec'[r].closed
         /\ \A r \in Records \ gone : rec'[r] = rec[r]
         /\ \A r \in gone : rec'[r].closed /\ ~ Open(r)'
         /\ \A r : Open(r)' => Open(r)
<1>1. TypeOK
  BY DEF IInv
<1>2. TableInv' /\ activeCount' \in 0 .. MaxActive
  BY RemoveTable
<1>3. gone \in SUBSET Records
  BY DEF Open
<1>4. /\ rec' = Ended(gone) /\ recentClosed' = kept \cup {rec[r].id : r \in gone}
      /\ byID' = [i \in Ids |-> IF byID[i] \in gone THEN 0 ELSE byID[i]]
      /\ bySig' = Restrict(sigs, {s \in DOMAIN sigs : \A r \in gone : rec[r].sig # s})
      /\ nextID' = nextID
  BY DEF Remove
<1>5. /\ rec' \in Seq(SessionRecord) /\ Len(rec') = Len(rec) /\ Records' = Records
      /\ \A r \in Records : r \notin gone => rec'[r] = rec[r]
      /\ \A r \in gone : rec'[r].closed
      /\ \A r : Open(r)' <=> Open(r) /\ r \notin gone
  BY <1>1, <1>3, <1>4, EndedRecords DEF TypeOK
<1>6. \A r \in Records : rec[r].id \in Ids
  BY <1>1, RecordsAre DEF TypeOK, SessionRecord
<1>7. byID' \in [Ids -> 0 .. Len(rec')] /\ recentClosed' \subseteq Ids
  BY <1>1, <1>3, <1>4, <1>5, <1>6 DEF TypeOK
<1>8. DOMAIN bySig' \subseteq Signatures /\ \A s \in DOMAIN bySig' : bySig'[s] \in Ids
  BY <1>1, <1>4 DEF KeepsSigs, TypeOK, Restrict
<1>9. ASSUME JobType', SweepType' PROVE TypeOK'
  BY <1>1, <1>2, <1>4, <1>5, <1>7, <1>8, <1>9 DEF TypeOK, JobType, SweepType, WorkType
<1> QED
  BY <1>2, <1>5, <1>9

\* Close, by a worker, of the session that has the number.
LEMMA CloseStep ==
  ASSUME IInv, NEW w \in Workers, Close(w) PROVE IInv'
<1> DEFINE cur == byID[rec[job[w].r].id]
<1>1. TypeOK /\ RoutineInv /\ StoreConsistent /\ SigKept
  BY DEF IInv, TableInv
<1>2. job[w].op = "close" /\ UNCHANGED <<sweep, work>>
  BY DEF Close
<1>3. job[w].r \in Records /\ rec[job[w].r].id \in Ids
  BY <1>1, <1>2, RecordsAre DEF RoutineInv, JobsPlaced, TypeOK, SessionRecord
<1>4. CASE cur = 0
  <2>1. job' = [job EXCEPT ![w] = Idle] /\ UNCHANGED storeVars /\ rec' = rec
    BY <1>4 DEF Close, storeVars
  <2>2. WorkType'
    BY <1>1, <1>2, <2>1 DEF TypeOK, WorkType
  <2> QED
    BY <1>2, <2>1, <2>2, IdleStep
<1>5. CASE cur # 0
  <2>1. Remove({cur}, bySig, recentClosed) /\ job' = [job EXCEPT ![w] = [op |-> "cleanup", r |-> cur]]
    BY <1>5 DEF Close
  <2>2. Open(cur) /\ cur \in Records /\ cur \in 0 .. Len(rec)
    BY <1>1, <1>3, <1>5 DEF StoreConsistent, Open, TypeOK
  <2> HIDE DEF cur
  <2>3. Len(rec') = Len(rec)
    BY <1>1, <2>1, <2>2, EndedRecords DEF Remove, TypeOK
  <2>4. WorkType'
    BY <1>1, <1>2, <2>3 DEF TypeOK, WorkType
  <2>5. KeepsSigs(bySig)
    BY <1>1, ExpireKeepsSigs
  <2>6. /\ TableInv' /\ Records' = Records
        /\ JobType' /\ SweepType' => TypeOK'
        /\ \A r \in Records : rec[r].closed => rec'[r].closed
        /\ \A r \in Records \ {cur} : rec'[r] = rec[r]
        /\ rec'[cur].closed
        /\ \A r : r = cur => ~ Open(r)'
        /\ \A r : Open(r)' => Open(r)
    <3> DEFINE gone == {cur}
    <3>1. Remove(gone, bySig, recentClosed) /\ \A r \in gone : Open(r)
      BY <2>1, <2>2
    <3>2. gone = {cur}
      OBVIOUS
    <3> HIDE DEF gone
    <3>3. /\ TableInv' /\ Records' = Records
          /\ JobType' /\ SweepType' => TypeOK'
          /\ \A r \in Records : rec[r].closed => rec'[r].closed
          /\ \A r \in Records \ gone : rec'[r] = rec[r]
          /\ \A r \in gone : rec'[r].closed /\ ~ Open(r)'
          /\ \A r : Open(r)' => Open(r)
      BY <2>4, <2>5, <3>1, RemoveRest
    <3> QED
      BY <3>2, <3>3
  <2>7. JobType' /\ SweepType'
    <3> DEFINE j == [op |-> "cleanup", r |-> cur]
    <3>1. j \in [op : {"idle", "touch", "handle", "close", "cleanup"}, r : 0 .. Len(rec)]
      BY <2>2
    <3> HIDE DEF j
    <3>2. job' = [job EXCEPT ![w] = j]
      BY <2>1 DEF j
    <3>3. JobType'
      BY <1>1, <2>3, <3>1, <3>2 DEF TypeOK, JobType
    <3> QED
      BY <1>1, <1>2, <2>6, <3>3 DEF TypeOK, SweepType
  <2>8. JobsPlaced'
    <3>1. job'[w].op = "cleanup" /\ job'[w].r = cur /\ \A v \in Workers \ {w} : job'[v] = job[v]
      BY <1>1, <2>1 DEF TypeOK
    <3>2. ~ (Open(job[w].r))'
      BY <2>6, <3>1 DEF Open
    <3>3. \A v \in Workers \ {w} : job'[v].op = "cleanup" => ~ (Open(job[v].r))'
      BY <1>1, <2>6, <3>1 DEF RoutineInv, JobsPlaced, Open
    <3> QED
      BY <1>1, <2>2, <2>6, <3>1, <3>2, <3>3 DEF RoutineInv, JobsPlaced
  <2>9. SweepTrue'
    <3>1. sweep.expired \subseteq Records /\ sweep.idle \subseteq Records
      BY <1>1 DEF TypeOK
    <3> QED
      BY <1>1, <1>2, <2>6, <3>1 DEF RoutineInv, SweepTrue
  <2> QED
    BY <2>6, <2>7, <2>8, <2>9 DEF IInv, RoutineInv
<1> QED
  BY <1>4, <1>5

\* Cleanup, of all sessions not used for the session timeout.
LEMMA CleanupStep == ASSUME IInv, Cleanup PROVE IInv'
<1> DEFINE gone == {r \in Records : Open(r) /\ rec[r].age = "expired"}
<1>1. TypeOK /\ RoutineInv /\ StoreConsistent /\ SigKept
  BY DEF IInv, TableInv
<1>2. PICK kept \in SUBSET recentClosed : Remove(gone, expireReuse, kept)
  BY DEF Cleanup
<1>3. /\ sweep' = [pc |-> "collect", expired |-> gone, idle |-> {}] /\ UNCHANGED <<job, work>>
  BY DEF Cleanup
<1>4. gone \subseteq Records /\ \A r \in gone : Open(r)
  OBVIOUS
<1> HIDE DEF gone
<1>5. Len(rec') = Len(rec)
  BY <1>1, <1>2, <1>4, EndedRecords DEF Remove, TypeOK
<1>6. WorkType'
  BY <1>1, <1>3, <1>5 DEF TypeOK, WorkType
<1>7. KeepsSigs(expireReuse)
  BY <1>1, ExpireKeepsSigs
<1>8. /\ TableInv' /\ Records' = Records
      /\ JobType' /\ SweepType' => TypeOK'
      /\ \A r \in gone : rec'[r].closed
      /\ \A r : Open(r)' => Open(r)
  BY <1>2, <1>4, <1>6, <1>7, RemoveRest
<1>9. JobType' /\ SweepType'
  <2>1. JobType'
    BY <1>1, <1>3, <1>5 DEF TypeOK, JobType
  <2>2. SweepType'
    BY <1>3, <1>4, <1>8 DEF SweepType
  <2> QED
    BY <2>1, <2>2
<1>10. JobsPlaced'
  BY <1>1, <1>3, <1>8 DEF RoutineInv, JobsPlaced
<1>11. SweepTrue'
  BY <1>3, <1>8 DEF SweepTrue
<1> QED
  BY <1>8, <1>9, <1>10, <1>11 DEF IInv, RoutineInv

\* Changes of the records alone, each of which keeps what tells sessions apart.
LEMMA RecordsStep ==
  ASSUME IInv, SameSessions, UNCHANGED <<byID, bySig, recentClosed, nextID, activeCount, job, work>>,
         SweepType', SweepTrue'
  PROVE  IInv'
<1>1. TypeOK /\ RoutineInv
  BY DEF IInv
<1>2. RoutineType'
  BY <1>1 DEF SameSessions, RoutineType, JobType, WorkType, TypeOK
<1>3. TypeOK' /\ TableInv' /\ Records' = Records /\ \A r : Open(r)' <=> Open(r)
  BY <1>2, SessionsStay
<1>4. JobsPlaced'
  BY <1>1, <1>3 DEF RoutineInv, JobsPlaced
<1> QED
  BY <1>3, <1>4 DEF IInv, RoutineInv

\* A record of which only age, reuse, swept or woken changed.
Aged(e, d) ==
  /\ e \in SessionRecord /\ e.id = d.id /\ e.sig = d.sig /\ e.cookie = d.cookie
  /\ e.closed = d.closed /\ e.again = d.again /\ (e.reuse => d.reuse)

\* A table of such records.
LEMMA AgedRecords ==
  ASSUME rec \in Seq(SessionRecord), NEW f, rec' = [r \in Records |-> f[r]],
         \A r \in Records : Aged(f[r], rec[r])
  PROVE  SameSessions /\ Records' = Records /\ \A r \in Records : rec'[r] = f[r]
<1>1. Len(rec) \in Nat /\ Records = 1 .. Len(rec)
  BY RecordsAre
<1>2. \A r \in Records : f[r] \in SessionRecord
  BY DEF Aged
<1>3. rec' \in Seq(SessionRecord) /\ Len(rec') = Len(rec) /\ Records' = Records
  BY <1>1, <1>2 DEF Records
<1> QED
  BY <1>3 DEF SameSessions, Aged

\* CollectIdleDeferredSessions.
LEMMA CollectIdleStep == ASSUME IInv, CollectIdle PROVE IInv' /\ SameSessions
<1> DEFINE quiet == {r \in Records : Open(r) /\ rec[r].age # "active" /\ ~ rec[r].swept}
           f == [r \in Records |-> IF r \in quiet THEN [rec[r] EXCEPT !.swept = TRUE] ELSE rec[r]]
<1>1. TypeOK /\ SweepTrue
  BY DEF IInv, RoutineInv
<1>2. /\ rec' = f /\ sweep' = [sweep EXCEPT !.pc = "clean", !.idle = quiet]
      /\ UNCHANGED <<byID, bySig, recentClosed, nextID, activeCount, job, work>>
  BY DEF CollectIdle
<1>3. \A r \in Records : rec[r] \in SessionRecord
  BY <1>1, RecordsAre DEF TypeOK
<1>4. \A r \in Records : Aged(f[r], rec[r]) /\ f[r].age = rec[r].age
  BY <1>3 DEF Aged, SessionRecord
<1>5. quiet \subseteq Records /\ \A r \in quiet : rec[r].age # "active"
  OBVIOUS
<1>6. rec' = [r \in Records |-> f[r]]
  BY <1>2
<1> HIDE DEF quiet, f
<1>7. SameSessions /\ Records' = Records /\ \A r \in Records : rec'[r] = f[r]
  BY <1>1, <1>4, <1>6, AgedRecords DEF TypeOK
<1>8. sweep'.expired = sweep.expired /\ sweep'.idle = quiet /\ sweep.expired \subseteq Records
  BY <1>1, <1>2 DEF TypeOK
<1>9. SweepTrue'
  BY <1>1, <1>4, <1>5, <1>7, <1>8 DEF SweepTrue, SameSessions
<1>10. SweepType'
  BY <1>1, <1>2, <1>5, <1>7 DEF TypeOK, SweepType
<1> QED
  BY <1>2, <1>7, <1>9, <1>10, RecordsStep

\* The cleanup loop goes back to sleep.
LEMMA SweepDoneStep == ASSUME IInv, SweepDone PROVE IInv' /\ SameSessions
<1> DEFINE f == [r \in Records |-> [rec[r] EXCEPT !.woken = FALSE]]
<1>1. TypeOK
  BY DEF IInv
<1>2. /\ rec' = f /\ sweep' = Sleep
      /\ UNCHANGED <<byID, bySig, recentClosed, nextID, activeCount, job, work>>
  BY DEF SweepDone
<1>3. \A r \in Records : rec[r] \in SessionRecord
  BY <1>1, RecordsAre DEF TypeOK
<1>4. \A r \in Records : Aged(f[r], rec[r])
  BY <1>3 DEF Aged, SessionRecord
<1>5. rec' = [r \in Records |-> f[r]]
  BY <1>2
<1> HIDE DEF f
<1>6. SameSessions
  BY <1>1, <1>4, <1>5, AgedRecords DEF TypeOK
<1>7. SweepTrue' /\ SweepType'
  BY <1>2 DEF Sleep, SweepTrue, SweepType
<1> QED
  BY <1>2, <1>6, <1>7, RecordsStep

\* Time: a session is not used, or its reuse period runs out.
LEMMA TimeStep ==
  ASSUME IInv, NEW r \in Records, Age(r) \/ ReuseEnds(r) PROVE IInv' /\ SameSessions
<1>1. TypeOK /\ SweepTrue
  BY DEF IInv, RoutineInv
<1>2. \A q \in Records : rec[q] \in SessionRecord
  BY <1>1, RecordsAre DEF TypeOK
<1>3. UNCHANGED <<byID, bySig, recentClosed, nextID, activeCount, job, sweep, work>>
  BY DEF Age, ReuseEnds
<1>4. \E e : /\ rec' = [rec EXCEPT ![r] = e] /\ Aged(e, rec[r])
             /\ e.woken = rec[r].woken /\ (e.age = "active" => rec[r].age = "active")
  <2>1. CASE Age(r)
    <3> DEFINE a == IF rec[r].age = "active" THEN "quiet" ELSE "expired"
               e == [rec[r] EXCEPT !.age = a]
    <3>1. rec' = [rec EXCEPT ![r] = e]
      BY <2>1 DEF Age
    <3>2. a \in {"quiet", "expired"}
      OBVIOUS
    <3>3. Aged(e, rec[r]) /\ e.woken = rec[r].woken /\ e.age # "active"
      BY <1>2, <3>2 DEF Aged, SessionRecord
    <3> QED
      BY <3>1, <3>3
  <2>2. CASE ReuseEnds(r)
    <3> DEFINE e == [rec[r] EXCEPT !.reuse = FALSE]
    <3>1. rec' = [rec EXCEPT ![r] = e]
      BY <2>2 DEF ReuseEnds
    <3>2. Aged(e, rec[r]) /\ e.woken = rec[r].woken /\ e.age = rec[r].age
      BY <1>2 DEF Aged, SessionRecord
    <3> QED
      BY <3>1, <3>2
  <2> QED
    BY <2>1, <2>2
<1>5. PICK e : /\ rec' = [rec EXCEPT ![r] = e] /\ Aged(e, rec[r])
               /\ e.woken = rec[r].woken /\ (e.age = "active" => rec[r].age = "active")
  BY <1>4
<1> DEFINE f == [q \in Records |-> IF q = r THEN e ELSE rec[q]]
<1>6. rec' = [q \in Records |-> f[q]]
  BY <1>1, <1>5, RecordsAre DEF TypeOK, Records
<1>7. \A q \in Records : f[q] = IF q = r THEN e ELSE rec[q]
  OBVIOUS
<1> HIDE DEF f
<1>8. \A q \in Records : Aged(f[q], rec[q])
  BY <1>2, <1>5, <1>7 DEF Aged
<1>9. SameSessions /\ Records' = Records /\ \A q \in Records : rec'[q] = f[q]
  BY <1>1, <1>6, <1>8, AgedRecords DEF TypeOK
<1>10. SweepType'
  BY <1>1, <1>3, <1>9 DEF TypeOK, SweepType
<1>11. SweepTrue'
  <2>1. sweep.expired \subseteq Records /\ sweep.idle \subseteq Records
    BY <1>1 DEF TypeOK
  <2> QED
    BY <1>1, <1>3, <1>5, <1>7, <1>9, <2>1 DEF SweepTrue, SameSessions
<1> QED
  BY <1>3, <1>9, <1>10, <1>11, RecordsStep

\* The cleanup loop takes away the work of a session on one of its lists.
LEMMA CleanStep ==
  ASSUME IInv, NEW r \in Records, CleanIdle(r) \/ CleanExpired(r) PROVE IInv'
<1>1. TypeOK /\ RoutineInv
  BY DEF IInv
<1>2. rec' = rec /\ UNCHANGED <<storeVars, job>> /\ work' \subseteq work
  BY DEF CleanIdle, CleanExpired, WorkWithout, storeVars
<1>3. /\ sweep' \in [pc : {"sleep", "collect", "clean"}, expired : SUBSET Records,
                     idle : SUBSET Records]
      /\ sweep'.expired \subseteq sweep.expired /\ sweep'.idle \subseteq sweep.idle
  BY <1>1 DEF CleanIdle, CleanExpired, TypeOK
<1>4. RoutineType'
  BY <1>1, <1>2, <1>3 DEF TypeOK, RoutineType, JobType, SweepType, WorkType, Records
<1>5. TypeOK' /\ TableInv' /\ Records' = Records /\ \A q : Open(q)' <=> Open(q)
  BY <1>2, <1>4, StoreStays
<1>6. RoutineInv'
  BY <1>1, <1>2, <1>3, <1>5 DEF RoutineInv, JobsPlaced, SweepTrue
<1> QED
  BY <1>5, <1>6 DEF IInv

\* Every step of the server preserves the invariant.
LEMMA NextIInv == IInv /\ [Next]_serverVars => IInv'
<1> SUFFICES ASSUME IInv, [Next]_serverVars PROVE IInv'
  OBVIOUS
<1>1. ASSUME NEW s \in Signatures, FindExisting(s) \/ Refuse(s) \/ \E c \in Cookies : Create(s, c)
      PROVE  IInv'
  BY <1>1, FindExistingStep, RefuseStep, CreateStep
<1>2. ASSUME NEW w \in Workers, NEW r \in Records, Validate(w, r) \/ LookupClose(w, r)
      PROVE  IInv'
  BY <1>2, LookUpStep
<1>3. ASSUME NEW w \in Workers, WorkerStep(w) PROVE IInv'
  BY <1>3, TouchValidatedStep, HandleOrCleanupStep, CloseStep DEF WorkerStep
<1>4. ASSUME NEW x \in work, Execute(x) PROVE IInv'
  BY <1>4, ExecuteStep
<1>5. CASE SweepStep
  BY <1>5, CleanupStep, CollectIdleStep, SweepDoneStep, CleanStep DEF SweepStep
<1>6. ASSUME NEW r \in Records, Age(r) \/ ReuseEnds(r) PROVE IInv'
  BY <1>6, TimeStep
<1>7. CASE UNCHANGED serverVars
  <2>1. UNCHANGED <<byID, bySig, recentClosed, nextID, activeCount, job, work>> /\ rec' = rec
        /\ sweep' = sweep
    BY <1>7 DEF serverVars, storeVars
  <2>2. SameSessions /\ SweepType' /\ SweepTrue'
    BY <2>1 DEF IInv, TypeOK, SameSessions, SweepType, RoutineInv, SweepTrue, Records
  <2> QED
    BY <2>1, <2>2, RecordsStep
<1> QED
  BY <1>1, <1>2, <1>3, <1>4, <1>5, <1>6, <1>7 DEF Next

-----------------------------------------------------------------------------
(* The theorems.                                                             *)

\* Every reachable state satisfies the inductive invariant.
THEOREM Inductive == Spec => []IInv
BY InitIInv, NextIInv, PTL DEF Spec

\* Records, tables and goroutines have the types they should have.
THEOREM TypeCorrect == Spec => []TypeOK
<1>1. IInv => TypeOK
  BY DEF IInv
<1> QED
  BY <1>1, Inductive, PTL

\* The tables of sessionStore agree with one another and with activeCount.
THEOREM TablesAgree == Spec => []StoreConsistent
<1>1. IInv => StoreConsistent
  BY DEF IInv, TableInv
<1> QED
  BY <1>1, Inductive, PTL

\* A repeated SESSION_INIT opens no second session beside one that may be reused,
\* unless that one was itself opened beside an older one.
THEOREM OneSessionPerInit == Spec => []OneOpenPerInit
<1>1. IInv => OneOpenPerInit
  BY DEF IInv, TableInv
<1> QED
  BY <1>1, Inductive, PTL

\* Deferred work of a session in use is taken away only in the two races: a step that
\* removes work executes it or cleans by number, and the session on whose behalf it
\* cleans is closed, idle, or was used after it had been picked.
THEOREM WorkKept == Spec => WorkKeptUnlessRaced
<1> DEFINE Allowed(x) ==
             \/ Execute(x)
             \/ ~ Open(x.r) \/ rec[x.r].age # "active" \/ rec[x.r].woken
             \/ \E w \in Workers : CleanupClosed(w) /\ job[w].r # x.r
             \/ \E r \in Records : (CleanIdle(r) \/ CleanExpired(r)) /\ r # x.r
<1>1. ASSUME IInv, [Next]_serverVars PROVE [\A x \in work \ work' : Allowed(x)]_serverVars
  <2> SUFFICES ASSUME NEW x \in work, x \notin work' PROVE Allowed(x)
    OBVIOUS
  <2>1. RoutineInv /\ sweep.idle \subseteq Records /\ sweep.expired \subseteq Records
    BY <1>1 DEF IInv, TypeOK
  <2>2. ASSUME NEW y \in work, Execute(y) PROVE Execute(x)
    BY <2>2 DEF Execute
  <2>3. ASSUME NEW w \in Workers, WorkerStep(w) PROVE Allowed(x)
    <3>1. Handle(w) \/ CleanupClosed(w)
      BY <2>3 DEF WorkerStep, TouchValidated, Close
    <3>2. CleanupClosed(w)
      BY <3>1 DEF Handle
    <3>3. ~ Open(job[w].r)
      BY <2>1, <3>2 DEF CleanupClosed, RoutineInv, JobsPlaced
    <3> QED
      BY <3>2, <3>3
  <2>4. ASSUME NEW r \in Records, CleanIdle(r) PROVE Allowed(x)
    <3>1. rec[r].closed \/ rec[r].age # "active" \/ rec[r].woken
      BY <2>1, <2>4 DEF CleanIdle, RoutineInv, SweepTrue
    <3> QED
      BY <2>4, <3>1 DEF Open
  <2>5. ASSUME NEW r \in Records, CleanExpired(r) PROVE Allowed(x)
    <3>1. rec[r].closed
      BY <2>1, <2>5 DEF CleanExpired, RoutineInv, SweepTrue
    <3> QED
      BY <2>5, <3>1 DEF Open
  <2>6. CASE UNCHANGED work
    BY <2>6
  <2> HIDE DEF Allowed
  <2>7. ASSUME NEW s \in Signatures, FindExisting(s) \/ Refuse(s) \/ \E c \in Cookies : Create(s, c)
        PROVE  UNCHANGED work
    BY <2>7 DEF FindExisting, Refuse, Create
  <2>8. ASSUME NEW w \in Workers, NEW r \in Records, Validate(w, r) \/ LookupClose(w, r)
        PROVE  UNCHANGED work
    BY <2>8 DEF Validate, LookupClose
  <2>9. ASSUME Cleanup \/ CollectIdle \/ SweepDone PROVE UNCHANGED work
    BY <2>9 DEF Cleanup, CollectIdle, SweepDone
  <2>10. ASSUME NEW r \in Records, Age(r) \/ ReuseEnds(r) PROVE UNCHANGED work
    BY <2>10 DEF Age, ReuseEnds
  <2>11. CASE UNCHANGED serverVars
    BY <2>11 DEF serverVars
  <2>12. ASSUME NEW y \in work, Execute(y) PROVE Allowed(x)
    BY <2>2, <2>12 DEF Allowed
  <2> QED
    BY <1>1, <2>3, <2>4, <2>5, <2>6, <2>7, <2>8, <2>9, <2>10, <2>11, <2>12
       DEF Next, SweepStep
<1> QED
  BY <1>1, Inductive, PTL DEF Spec, WorkKeptUnlessRaced

\* A change of records that keeps what tells sessions apart is not seen in the table.
LEMMA SameTable ==
  ASSUME IInv, SameSessions PROVE UNCHANGED Table!tableVars
<1>1. Records' = Records /\ \A r \in Records : Open(r)' <=> Open(r)
  BY RecordsAre DEF IInv, TypeOK, SameSessions, Records, Open
<1> DEFINE entry(r) == [id |-> rec[r].id, sig |-> rec[r].sig, cookie |-> rec[r].cookie]
<1>2. \A r \in Records : entry(r)' = entry(r)
  BY DEF SameSessions
<1>3. UNCHANGED [r \in Records |-> entry(r)]
  BY <1>1, <1>2
<1>4. UNCHANGED {r \in Records : Open(r)}
  BY <1>1
<1> QED
  BY <1>3, <1>4 DEF Table!tableVars

\* The store implements the session table: findOrCreate opens a session under a number
\* that is free and while there is room, Close and Cleanup end sessions, and nothing
\* else touches the sessions.
THEOREM Refinement == Spec => ImplementsTable
<1> DEFINE entry(r) == [id |-> rec[r].id, sig |-> rec[r].sig, cookie |-> rec[r].cookie]
           log == [r \in Records |-> entry(r)]
           live == {r \in Records : Open(r)}
<1>1. Init => Table!TableInit
  <2> SUFFICES ASSUME Init PROVE log = << >> /\ live = {}
    BY DEF Table!TableInit
  <2>1. Records = {}
    BY DEF Init, Records
  <2> QED
    BY <2>1
<1>2. ASSUME IInv, [Next]_serverVars PROVE [Table!TableNext]_(Table!tableVars)
  <2>1. TypeOK /\ StoreConsistent /\ SigKept /\ RoutineInv
    BY <1>2 DEF IInv, TableInv
  <2>2. Len(rec) \in Nat /\ Records = 1 .. Len(rec) /\ \A r \in Records : rec[r] \in SessionRecord
    BY <2>1, RecordsAre DEF TypeOK
  <2>3. ASSUME NEW s \in Signatures, NEW c \in Cookies, Create(s, c)
        PROVE  \E i \in 1 .. MaxId : Table!OpenSession(i, s, c)
    <3> DEFINE slot == allocateSlot
               new == NewRecord(s, c)
    <3>1. activeCount < MaxActive /\ Free # {} /\ rec' = Append(rec, new)
      BY <2>3 DEF Create, CanAllocate
    <3>2. slot \in 1 .. MaxId /\ byID[slot] = 0
      BY <3>1, SlotIsFree DEF Free, Ids
    <3>3. new.id = slot /\ new.sig = s /\ new.cookie = c /\ ~ new.closed
      BY DEF NewRecord
    <3> HIDE DEF slot, new
    <3>4. /\ Records' = 1 .. Len(rec) + 1 /\ rec'[Len(rec) + 1] = new
          /\ \A r \in Records : rec'[r] = rec[r]
      BY <2>1, <2>2, <3>1 DEF Records, TypeOK
    <3>5. Table!Room
      <4>1. activeCount = Cardinality({r \in Records : Open(r)})
        BY <2>1 DEF StoreConsistent
      <4> QED
        BY <3>1, <4>1 DEF Table!Room, Table!Cardinality, Cardinality
    <3>6. Table!NumberFree(slot)
      <4> SUFFICES ASSUME NEW r \in live PROVE log[r].id # slot
        BY DEF Table!NumberFree
      <4>1. r \in Records /\ byID[rec[r].id] = r /\ r # 0
        BY <2>1, <2>2 DEF StoreConsistent
      <4> QED
        BY <3>2, <4>1
    <3>7. log' = Append(log, [id |-> slot, sig |-> s, cookie |-> c])
      BY <2>2, <3>3, <3>4
    <3>8. live' = live \cup {Len(log) + 1}
      <4>1. Len(log) = Len(rec)
        BY <2>2
      <4>2. \A r : Open(r)' <=> r = Len(rec) + 1 \/ Open(r)
        BY <2>2, <3>3, <3>4 DEF Open
      <4> QED
        BY <2>2, <3>4, <4>1, <4>2
    <3> QED
      BY <3>2, <3>5, <3>6, <3>7, <3>8 DEF Table!OpenSession
  <2>4. ASSUME NEW gone \in SUBSET Records, \A r \in gone : Open(r), rec' = Ended(gone)
        PROVE  UNCHANGED Table!tableVars \/ \E g \in SUBSET live : Table!EndSessions(g)
    <3>1. /\ Records' = Records /\ \A r : Open(r)' <=> Open(r) /\ r \notin gone
          /\ \A r \in Records : entry(r)' = entry(r)
      BY <2>1, <2>4, EndedRecords DEF TypeOK
    <3>2. live' = live \ gone
      BY <3>1
    <3>3. log' = log
      BY <3>1
    <3>4. gone \in SUBSET live
      BY <2>4
    <3>5. CASE gone = {}
      BY <3>2, <3>3, <3>5 DEF Table!tableVars
    <3>6. CASE gone # {}
      BY <3>2, <3>3, <3>4, <3>6 DEF Table!EndSessions
    <3> QED
      BY <3>5, <3>6
  <2>5. ASSUME rec' = rec PROVE UNCHANGED Table!tableVars
    BY <2>5 DEF Table!tableVars, Records, Open
  <2>6. ASSUME NEW s \in Signatures, FindExisting(s) \/ Refuse(s) \/ \E c \in Cookies : Create(s, c)
        PROVE  [Table!TableNext]_(Table!tableVars)
    <3>1. CASE FindExisting(s)
      BY <1>2, <3>1, FindExistingStep, SameTable
    <3>2. CASE Refuse(s)
      BY <2>5, <3>2 DEF Refuse
    <3>3. CASE \E c \in Cookies : Create(s, c)
      BY <2>3, <3>3 DEF Table!TableNext
    <3> QED
      BY <2>6, <3>1, <3>2, <3>3
  <2>7. ASSUME NEW w \in Workers, NEW r \in Records, Validate(w, r) \/ LookupClose(w, r)
        PROVE  rec' = rec
    BY <2>7 DEF Validate, LookupClose, storeVars
  <2>8. ASSUME NEW w \in Workers, WorkerStep(w) PROVE [Table!TableNext]_(Table!tableVars)
    <3>1. CASE TouchValidated(w)
      BY <1>2, <3>1, TouchValidatedStep, SameTable
    <3>2. CASE Handle(w) \/ CleanupClosed(w)
      BY <2>5, <3>2 DEF Handle, CleanupClosed, storeVars
    <3>3. CASE Close(w)
      <4> DEFINE cur == byID[rec[job[w].r].id]
      <4>1. job[w].r \in Records /\ rec[job[w].r].id \in Ids
        BY <2>1, <2>2, <3>3 DEF Close, RoutineInv, JobsPlaced, SessionRecord
      <4>2. CASE cur = 0
        BY <2>5, <3>3, <4>2 DEF Close, storeVars
      <4>3. CASE cur # 0
        <5>1. rec' = Ended({cur}) /\ Open(cur)
          BY <2>1, <3>3, <4>1, <4>3 DEF Close, Remove, StoreConsistent
        <5> DEFINE gone == {cur}
        <5>2. gone \in SUBSET Records /\ (\A r \in gone : Open(r)) /\ rec' = Ended(gone)
          BY <5>1 DEF Open
        <5> HIDE DEF gone
        <5> QED
          BY <2>4, <5>2 DEF Table!TableNext
      <4> QED
        BY <4>2, <4>3
    <3> QED
      BY <2>8, <3>1, <3>2, <3>3 DEF WorkerStep
  <2>9. ASSUME NEW x \in work, Execute(x) PROVE rec' = rec
    BY <2>9 DEF Execute, storeVars
  <2>10. CASE SweepStep
    <3>1. CASE Cleanup
      <4> DEFINE gone == {r \in Records : Open(r) /\ rec[r].age = "expired"}
      <4>1. gone \in SUBSET Records /\ (\A r \in gone : Open(r)) /\ rec' = Ended(gone)
        BY <3>1 DEF Cleanup, Remove
      <4> HIDE DEF gone
      <4> QED
        BY <2>4, <4>1 DEF Table!TableNext
    <3>2. CASE CollectIdle \/ SweepDone
      BY <1>2, <3>2, CollectIdleStep, SweepDoneStep, SameTable
    <3>3. ASSUME NEW r \in Records, CleanIdle(r) \/ CleanExpired(r) PROVE rec' = rec
      BY <3>3 DEF CleanIdle, CleanExpired, storeVars
    <3> QED
      BY <2>5, <2>10, <3>1, <3>2, <3>3 DEF SweepStep
  <2>11. ASSUME NEW r \in Records, Age(r) \/ ReuseEnds(r) PROVE UNCHANGED Table!tableVars
    BY <1>2, <2>11, TimeStep, SameTable
  <2>12. CASE UNCHANGED serverVars
    BY <2>5, <2>12 DEF serverVars, storeVars
  <2> QED
    BY <1>2, <2>5, <2>6, <2>7, <2>8, <2>9, <2>10, <2>11, <2>12 DEF Next
<1> QED
  BY <1>1, <1>2, Inductive, PTL DEF Spec, ImplementsTable, Table!TableSpec
=============================================================================
