------------------------------ MODULE DnsProofs ------------------------------
(***************************************************************************)
(* Proofs about DNS for every set of names, answers and queries.  Of       *)
(* DnsServer: who waits for a lookup waits for one that is under way, and  *)
(* a query is answered with what a resolver has said for its own name.  Of *)
(* DnsTunnel (at the end): the client puts together the responses that     *)
(* were sent.                                                              *)
(***************************************************************************)
EXTENDS DnsServer, DnsTunnel, TLAPS

-----------------------------------------------------------------------------
(* The inductive invariant.                                                  *)

JobStates == {"none", "queued", "acquire", "lookup", "store", "wait"}

CacheType ==
  cache \in [Names -> [st : {"none", "pending", "ready"}, ans : Answers \cup {None},
                       old : BOOLEAN]]

ResultType ==
  result \in [DOMAIN result -> [val : Answers \cup {"fail"}, own : BOOLEAN, late : BOOLEAN]]

Jobs ==
  [pc : JobStates, name : Names \cup {None}, on : Queries \cup {None},
   ans : Answers \cup {"fail", None}]

JobType == job \in [Queries -> Jobs]

TypeOK ==
  /\ CacheType /\ ResultType /\ JobType
  /\ entry \in [Names -> Queries \cup {None}]
  /\ old \subseteq Queries
  /\ DOMAIN result \subseteq Queries
  /\ panicked \in BOOLEAN
  /\ given \in [Names -> SUBSET Answers]

\* What the place of a worker says about the rest of its state.
Placed(q) ==
  /\ job[q].pc = "none" => job[q].name = None /\ job[q].on = None
  /\ job[q].pc # "none" => job[q].name \in Names
  /\ job[q].pc \in {"queued", "acquire"} => job[q].on = None
  /\ job[q].pc \in {"lookup", "store"} => job[q].on = q
  /\ job[q].pc = "wait" => job[q].on \in Queries

WorkersPlaced == \A q \in Queries : Placed(q)

\* The entries that still matter are those somebody leads or waits for.
OnlyUsedKept == \A e \in old \cup DOMAIN result : \E x \in Queries : job[x].on = e

\* A worker that has not asked for an entry yet has none that others wait for.
NewIsUnknown ==
  \A q \in Queries : job[q].pc \in {"queued", "acquire"} => \A x \in Queries : job[x].on # q

\* The channel of an entry in the table is open.
EntryIsOpen == \A n \in Names : entry[n] # None => entry[n] \notin DOMAIN result

\* A lookup that has lost its entry is late.
LostIsLate ==
  \A q \in Queries :
    job[q].pc = "lookup" /\ entry[job[q].name] # q => Lookups!Late(q)

\* Who waits for the entry of a name has asked for that name.
WaitsForOwnName ==
  \A q \in Queries : \A n \in Names :
    job[q].pc = "wait" /\ entry[n] = job[q].on => job[q].name = n

\* The answers at hand have been given by a resolver, for the name in question.
CacheTrue == \A n \in Names : cache[n].st = "ready" => cache[n].ans \in given[n]

StoreTrue ==
  \A q \in Queries :
    job[q].pc = "store" => job[q].ans \in given[job[q].name] \cup {"fail"}

ResultTrue ==
  \A q \in Queries :
    job[q].pc = "wait" /\ job[q].on \in DOMAIN result
      => result[job[q].on].val \in given[job[q].name] \cup {"fail"}

LookupInv ==
  /\ WorkersPlaced /\ OnlyUsedKept /\ NewIsUnknown
  /\ EntryHasLeader /\ EntryIsOpen /\ LostIsLate /\ OwnAnswerUnlessLate

AnswerInv == WaitsForOwnName /\ CacheTrue /\ StoreTrue /\ ResultTrue

IInv == TypeOK /\ LookupInv /\ AnswerInv

-----------------------------------------------------------------------------
(* It holds at first, and every step preserves it.                           *)

\* Nobody has asked for anything when the server starts.
LEMMA InitIInv == Init => IInv
<1> SUFFICES ASSUME Init PROVE IInv
  OBVIOUS
<1> USE DEF Init, Cache!CacheInit, Cache!NoEntry, Lookups!InflightInit, NoJob
<1>1. TypeOK
  <2>1. DOMAIN result = {}
    OBVIOUS
  <2>2. ResultType
    BY <2>1 DEF ResultType
  <2> QED
    BY <2>1, <2>2 DEF TypeOK, CacheType, JobType, Jobs, JobStates
<1>2. LookupInv
  BY DEF LookupInv, WorkersPlaced, Placed, OnlyUsedKept, NewIsUnknown, EntryHasLeader,
         EntryIsOpen, LostIsLate, OwnAnswerUnlessLate
<1>3. AnswerInv
  BY DnsServerAssumption DEF AnswerInv, WaitsForOwnName, CacheTrue, StoreTrue, ResultTrue
<1> QED
  BY <1>1, <1>2, <1>3 DEF IInv

\* An entry leads to one name only: that of the worker that has made it.
LEMMA EntryOfOneName ==
  ASSUME EntryHasLeader, NEW m \in Names, NEW n \in Names,
         entry[m] # None, entry[m] = entry[n]
  PROVE  m = n
BY DEF EntryHasLeader

\* A worker goes on to another place, with an entry or with what it has found out.
LEMMA JobMoves ==
  ASSUME JobType, NEW q \in Queries, NEW j \in Jobs, job' = [job EXCEPT ![q] = j]
  PROVE  JobType'
BY DEF JobType

LEMMA JobGetsEntry ==
  ASSUME JobType, NEW q \in Queries, NEW pc \in JobStates, NEW e \in Queries,
         job' = [job EXCEPT ![q].pc = pc, ![q].on = e]
  PROVE  JobType'
<1>1. job[q] \in Jobs
  BY DEF JobType
<1>2. [job[q] EXCEPT !.pc = pc, !.on = e] \in Jobs
  BY <1>1 DEF Jobs
<1>3. job' = [job EXCEPT ![q] = [job[q] EXCEPT !.pc = pc, !.on = e]]
  BY DEF JobType
<1> QED
  BY <1>2, <1>3, JobMoves

LEMMA JobGetsAnswer ==
  ASSUME JobType, NEW q \in Queries, NEW pc \in JobStates, NEW a \in Answers \cup {"fail"},
         job' = [job EXCEPT ![q].pc = pc, ![q].ans = a]
  PROVE  JobType'
<1>1. job[q] \in Jobs
  BY DEF JobType
<1>2. [job[q] EXCEPT !.pc = pc, !.ans = a] \in Jobs
  BY <1>1 DEF Jobs
<1>3. job' = [job EXCEPT ![q] = [job[q] EXCEPT !.pc = pc, !.ans = a]]
  BY DEF JobType
<1> QED
  BY <1>2, <1>3, JobMoves

\* A worker that is done (processDeferredDNSQuery has sent its response) leaves
\* nothing behind that others count on, whatever it has put into the cache.
LEMMA FinishStep ==
  ASSUME IInv, NEW q \in Queries, NEW a, Finish(q, a), job[q].pc # "lookup",
         CacheType', CacheTrue'
  PROVE  IInv'
<1> DEFINE used == {job[x].on : x \in Queries \ {q}} \cup {entry[n] : n \in Names}
<1>1. /\ job' = [job EXCEPT ![q] = NoJob] /\ given' = given
      /\ old' = old \cap used /\ entry' = entry /\ panicked' = panicked
      /\ result' = [x \in DOMAIN result \cap used |-> result[x]]
  BY DEF Finish, Lookups!Release, Lookups!Restrict
<1>2. /\ DOMAIN result' = DOMAIN result \cap used
      /\ \A x \in DOMAIN result' : result'[x] = result[x]
  BY <1>1
<1>3. TypeOK /\ LookupInv /\ AnswerInv
  BY DEF IInv
<1>4. job'[q] = NoJob /\ \A x \in Queries \ {q} : job'[x] = job[x]
  BY <1>1, <1>3 DEF TypeOK, JobType, Jobs
<1>5. TypeOK'
  <2>1. JobType'
    BY <1>1, <1>3 DEF TypeOK, JobType, Jobs, JobStates, NoJob
  <2>2. ResultType'
    BY <1>1, <1>2, <1>3 DEF TypeOK, ResultType
  <2> QED
    BY <1>1, <1>2, <1>3, <2>1, <2>2 DEF TypeOK
<1>6. \A x \in Queries \ {q} : job[x].on \in used
  OBVIOUS
<1>7. LookupInv'
  <2>1. WorkersPlaced'
    BY <1>3, <1>4 DEF LookupInv, WorkersPlaced, Placed, NoJob
  <2>2. OnlyUsedKept'
    <3> SUFFICES ASSUME NEW e \in old' \cup DOMAIN result' PROVE \E x \in Queries : job'[x].on = e
      BY DEF OnlyUsedKept
    <3>1. CASE \E x \in Queries \ {q} : job[x].on = e
      BY <3>1, <1>4
    <3>2. CASE \E n \in Names : entry[n] = e
      <4>1. PICK n \in Names : entry[n] = e
        BY <3>2
      <4>2. e \in Queries
        BY <1>1, <1>2, <1>3 DEF TypeOK
      <4>3. job[e].pc = "lookup" /\ job[e].on = e
        BY <4>1, <4>2, <1>3, DnsServerAssumption
           DEF LookupInv, EntryHasLeader, WorkersPlaced, Placed
      <4> QED
        BY <4>2, <4>3, <1>4
    <3> QED
      BY <1>1, <1>2, <3>1, <3>2
  <2>3. NewIsUnknown'
    BY <1>3, <1>4, DnsServerAssumption DEF LookupInv, NewIsUnknown, NoJob
  <2>4. EntryHasLeader'
    BY <1>1, <1>3, <1>4 DEF LookupInv, EntryHasLeader, TypeOK
  <2>5. EntryIsOpen'
    BY <1>1, <1>2, <1>3 DEF LookupInv, EntryIsOpen
  <2>6. LostIsLate'
    <3> SUFFICES ASSUME NEW x \in Queries, job'[x].pc = "lookup", entry'[job'[x].name] # x
                 PROVE  x \in old' \/ x \in DOMAIN result'
      BY DEF LostIsLate, Lookups!Late
    <3>1. x # q /\ job'[x] = job[x]
      BY <1>4 DEF NoJob
    <3>2. x \in used
      BY <3>1, <1>3, <1>6 DEF LookupInv, WorkersPlaced, Placed
    <3> QED
      BY <1>1, <1>2, <1>3, <3>1, <3>2 DEF LookupInv, LostIsLate, Lookups!Late
  <2>7. OwnAnswerUnlessLate'
    BY <1>2, <1>3 DEF LookupInv, OwnAnswerUnlessLate
  <2> QED
    BY <2>1, <2>2, <2>3, <2>4, <2>5, <2>6, <2>7 DEF LookupInv
<1>8. AnswerInv'
  BY <1>1, <1>2, <1>3, <1>4
     DEF AnswerInv, WaitsForOwnName, CacheTrue, StoreTrue, ResultTrue, NoJob
<1> QED
  BY <1>5, <1>7, <1>8 DEF IInv

\* A query is taken up: nobody waits for the entry that its worker may make.
LEMMA EnqueueStep ==
  ASSUME IInv, NEW q \in Queries, NEW n \in Names, Enqueue(q, n) PROVE IInv'
<1> DEFINE j == [NoJob EXCEPT !.pc = "queued", !.name = n]
<1>1. /\ job' = [job EXCEPT ![q] = j] /\ UNCHANGED <<cache, entry, old, result, panicked, given>>
      /\ job[q].pc = "none" /\ \A x \in Queries : job[x].on # q
  BY DEF Enqueue, inflightVars
<1>2. TypeOK /\ LookupInv /\ AnswerInv
  BY DEF IInv
<1>3. /\ j.pc = "queued" /\ j.name = n /\ j.on = None
      /\ j \in [pc : JobStates, name : Names \cup {None}, on : Queries \cup {None},
                ans : Answers \cup {"fail", None}]
  BY DEF NoJob, JobStates
<1>4. job'[q] = j /\ \A x \in Queries \ {q} : job'[x] = job[x]
  BY <1>1, <1>2 DEF TypeOK, JobType, Jobs
<1>5. TypeOK'
  <2>1. JobType'
    BY <1>1, <1>2, <1>3 DEF TypeOK, JobType, Jobs
  <2> QED
    BY <1>1, <1>2, <2>1 DEF TypeOK, CacheType, ResultType
<1> HIDE DEF j
<1>6. LookupInv'
  <2>1. WorkersPlaced'
    BY <1>2, <1>3, <1>4 DEF LookupInv, WorkersPlaced, Placed
  <2>2. OnlyUsedKept'
    <3>1. \A e \in old \cup DOMAIN result : e # None
      BY <1>2, DnsServerAssumption DEF TypeOK
    <3> QED
      BY <1>1, <1>2, <1>4, <3>1 DEF LookupInv, OnlyUsedKept, WorkersPlaced, Placed
  <2>3. NewIsUnknown'
    BY <1>1, <1>2, <1>3, <1>4, DnsServerAssumption DEF LookupInv, NewIsUnknown
  <2>4. EntryHasLeader'
    BY <1>1, <1>2, <1>4 DEF LookupInv, EntryHasLeader, TypeOK
  <2> QED
    BY <1>1, <1>2, <1>3, <1>4, <2>1, <2>2, <2>3, <2>4
       DEF LookupInv, EntryIsOpen, LostIsLate, Lookups!Late, OwnAnswerUnlessLate
<1>7. AnswerInv'
  BY <1>1, <1>2, <1>3, <1>4 DEF AnswerInv, WaitsForOwnName, CacheTrue, StoreTrue, ResultTrue
<1> QED
  BY <1>5, <1>6, <1>7 DEF IInv

\* A query whose session has ended before its worker began is dropped.
LEMMA SessionGoneStep ==
  ASSUME IInv, NEW q \in Queries, SessionGone(q) PROVE IInv'
<1>1. /\ job' = [job EXCEPT ![q] = NoJob] /\ job[q].pc = "queued"
      /\ UNCHANGED <<cache, entry, old, result, panicked, given>>
  BY DEF SessionGone, inflightVars
<1>2. TypeOK /\ LookupInv /\ AnswerInv
  BY DEF IInv
<1>3. job'[q] = NoJob /\ \A x \in Queries \ {q} : job'[x] = job[x]
  BY <1>1, <1>2 DEF TypeOK, JobType, Jobs
<1>4. TypeOK'
  <2>1. JobType'
    BY <1>1, <1>2 DEF TypeOK, JobType, Jobs, JobStates, NoJob
  <2> QED
    BY <1>1, <1>2, <2>1 DEF TypeOK, CacheType, ResultType
<1>5. LookupInv'
  <2>1. WorkersPlaced'
    BY <1>2, <1>3 DEF LookupInv, WorkersPlaced, Placed, NoJob
  <2>2. OnlyUsedKept'
    <3>1. \A e \in old \cup DOMAIN result : e # None
      BY <1>2, DnsServerAssumption DEF TypeOK
    <3> QED
      BY <1>1, <1>2, <1>3, <3>1 DEF LookupInv, OnlyUsedKept, WorkersPlaced, Placed
  <2>3. NewIsUnknown'
    BY <1>1, <1>2, <1>3, DnsServerAssumption DEF LookupInv, NewIsUnknown, NoJob
  <2>4. EntryHasLeader'
    BY <1>1, <1>2, <1>3 DEF LookupInv, EntryHasLeader, TypeOK
  <2> QED
    BY <1>1, <1>2, <1>3, <2>1, <2>2, <2>3, <2>4
       DEF LookupInv, EntryIsOpen, LostIsLate, Lookups!Late, OwnAnswerUnlessLate, NoJob
<1>6. AnswerInv'
  BY <1>1, <1>2, <1>3 DEF AnswerInv, WaitsForOwnName, CacheTrue, StoreTrue, ResultTrue, NoJob
<1> QED
  BY <1>4, <1>5, <1>6 DEF IInv

\* The cache holds what a resolver has said, whatever is removed from it.
LEMMA CacheShrinks ==
  ASSUME IInv, NEW n \in Names, given' = given,
         Cache!GetReadyMisses(n) \/ Cache!Ages(n) \/ Cache!Evict(n)
  PROVE  CacheType' /\ CacheTrue'
<1>1. CacheType /\ CacheTrue
  BY DEF IInv, TypeOK, AnswerInv
<1> DEFINE CacheEntry == [st : {"none", "pending", "ready"}, ans : Answers \cup {None}, old : BOOLEAN]
           Weaker(c) ==
             /\ c \in CacheEntry /\ cache' = [cache EXCEPT ![n] = c]
             /\ c.st = "ready" => cache[n].st = "ready" /\ c.ans = cache[n].ans
<1>2. cache[n] \in CacheEntry /\ Cache!NoEntry \in CacheEntry /\ Cache!NoEntry.st = "none"
  BY <1>1 DEF CacheType, Cache!NoEntry
<1>3. \E c : Weaker(c)
  <2>1. CASE cache' = [cache EXCEPT ![n] = Cache!NoEntry]
    BY <1>2, <2>1
  <2>2. CASE cache' = [cache EXCEPT ![n] = cache[n]]
    BY <1>2, <2>2
  <2>3. CASE Cache!Ages(n)
    <3> DEFINE c == [cache[n] EXCEPT !.old = TRUE]
    <3>1. cache' = [cache EXCEPT ![n] = c]
      BY <2>3 DEF Cache!Ages
    <3>2. c \in CacheEntry /\ c.st = cache[n].st /\ c.ans = cache[n].ans
      BY <1>2
    <3> QED
      BY <3>1, <3>2
  <2> QED
    BY <2>1, <2>2, <2>3 DEF Cache!GetReadyMisses, Cache!Evict
<1>4. PICK c : Weaker(c)
  BY <1>3
<1>5. CacheType'
  BY <1>1, <1>4 DEF CacheType
<1>6. CacheTrue'
  BY <1>1, <1>4 DEF CacheType, CacheTrue
<1> QED
  BY <1>5, <1>6

\* GetReady, by a worker that starts: an answer too old is removed.
LEMMA ExecuteMissStep ==
  ASSUME IInv, NEW q \in Queries, ExecuteMiss(q) PROVE IInv'
<1>1. /\ job' = [job EXCEPT ![q].pc = "acquire"] /\ job[q].pc = "queued"
      /\ UNCHANGED <<entry, old, result, panicked, given>>
  BY DEF ExecuteMiss, inflightVars
<1>2. TypeOK /\ LookupInv /\ AnswerInv
  BY DEF IInv
<1>3. /\ job'[q].pc = "acquire" /\ job'[q].on = job[q].on /\ job'[q].name = job[q].name
      /\ \A x \in Queries \ {q} : job'[x] = job[x]
  BY <1>1, <1>2 DEF TypeOK, JobType, Jobs
<1>4. job[q].name \in Names
  BY <1>1, <1>2 DEF LookupInv, WorkersPlaced, Placed
<1>5. CacheType' /\ CacheTrue'
  BY <1>1, <1>4, CacheShrinks DEF ExecuteMiss
<1>6. TypeOK'
  <2>1. JobType'
    BY <1>1, <1>2 DEF TypeOK, JobType, Jobs, JobStates
  <2> QED
    BY <1>1, <1>2, <1>5, <2>1 DEF TypeOK, ResultType
<1>7. LookupInv'
  <2>1. WorkersPlaced'
    BY <1>1, <1>2, <1>3 DEF LookupInv, WorkersPlaced, Placed
  <2>2. OnlyUsedKept'
    BY <1>1, <1>2, <1>3 DEF LookupInv, OnlyUsedKept
  <2>3. NewIsUnknown'
    BY <1>1, <1>2, <1>3 DEF LookupInv, NewIsUnknown
  <2>4. EntryHasLeader'
    BY <1>1, <1>2, <1>3 DEF LookupInv, EntryHasLeader, TypeOK
  <2> QED
    BY <1>1, <1>2, <1>3, <2>1, <2>2, <2>3, <2>4
       DEF LookupInv, EntryIsOpen, LostIsLate, Lookups!Late, OwnAnswerUnlessLate
<1>8. AnswerInv'
  BY <1>1, <1>2, <1>3, <1>5 DEF AnswerInv, WaitsForOwnName, StoreTrue, ResultTrue
<1> QED
  BY <1>6, <1>7, <1>8 DEF IInv

\* Manager.Acquire, by the first to ask or the first after the time limit: the entry
\* is one that nobody knows yet, so its channel is open.
LEMMA LeadStep ==
  ASSUME IInv, NEW q \in Queries, Lead(q) PROVE IInv'
<1> DEFINE n == job[q].name
<1>1. /\ job[q].pc = "acquire" /\ (entry[n] # None => entry[n] \in old)
      /\ job' = [job EXCEPT ![q].pc = "lookup", ![q].on = q]
      /\ entry' = [entry EXCEPT ![n] = q]
      /\ UNCHANGED <<cache, old, result, panicked, given>>
  BY DEF Lead, Lookups!AcquireLead, Lookups!Follows
<1>2. TypeOK /\ LookupInv /\ AnswerInv
  BY DEF IInv
<1>3. /\ job'[q].pc = "lookup" /\ job'[q].on = q /\ job'[q].name = n
      /\ \A x \in Queries \ {q} : job'[x] = job[x]
  BY <1>1, <1>2 DEF TypeOK, JobType, Jobs
<1>4. n \in Names /\ entry'[n] = q /\ \A m \in Names \ {n} : entry'[m] = entry[m]
  BY <1>1, <1>2 DEF LookupInv, WorkersPlaced, Placed, TypeOK
<1>5. \A x \in Queries : job[x].on # q
  BY <1>1, <1>2 DEF LookupInv, NewIsUnknown
<1>6. q \notin old /\ q \notin DOMAIN result
  BY <1>2, <1>5 DEF LookupInv, OnlyUsedKept
<1>7. TypeOK'
  <2>1. JobType'
    <3>1. JobType /\ "lookup" \in JobStates
      BY <1>2 DEF TypeOK, JobStates
    <3> QED
      BY <1>1, <3>1, JobGetsEntry
  <2> QED
    BY <1>1, <1>2, <1>4, <2>1 DEF TypeOK, CacheType, ResultType
<1> HIDE DEF n
<1>8. LookupInv'
  <2>1. WorkersPlaced'
    BY <1>2, <1>3, <1>4 DEF LookupInv, WorkersPlaced, Placed
  <2>2. OnlyUsedKept'
    <3>1. job[q].on \notin old \cup DOMAIN result
      BY <1>1, <1>2, DnsServerAssumption DEF LookupInv, WorkersPlaced, Placed, TypeOK
    <3>2. old' \cup DOMAIN result' = old \cup DOMAIN result
      BY <1>1
    <3> QED
      BY <1>2, <1>3, <3>1, <3>2 DEF LookupInv, OnlyUsedKept
  <2>3. NewIsUnknown'
    BY <1>1, <1>2, <1>3 DEF LookupInv, NewIsUnknown
  <2>4. EntryHasLeader'
    <3>1. \A m \in Names \ {n} : entry'[m] # None => entry'[m] \in Queries \ {q}
      BY <1>1, <1>2, <1>4 DEF LookupInv, EntryHasLeader, TypeOK
    <3>2. \A m \in Names \ {n} : entry'[m] # None =>
             job'[entry'[m]].pc = "lookup" /\ job'[entry'[m]].name = m
      BY <1>2, <1>3, <1>4, <3>1 DEF LookupInv, EntryHasLeader
    <3>3. ~ panicked'
      BY <1>1, <1>2 DEF LookupInv, EntryHasLeader
    <3> QED
      BY <1>3, <1>4, <3>2, <3>3 DEF EntryHasLeader
  <2>5. EntryIsOpen'
    BY <1>1, <1>2, <1>4, <1>6 DEF LookupInv, EntryIsOpen
  <2>6. LostIsLate'
    <3> SUFFICES ASSUME NEW x \in Queries, job'[x].pc = "lookup", entry'[job'[x].name] # x
                 PROVE  x \in old' \/ x \in DOMAIN result'
      BY DEF LostIsLate, Lookups!Late
    <3>1. x # q /\ job'[x] = job[x]
      BY <1>3, <1>4
    <3>2. job[x].name \in Names
      BY <3>1, <1>2 DEF LookupInv, WorkersPlaced, Placed
    <3>3. CASE entry[job[x].name] # x
      BY <1>1, <1>2, <3>1, <3>3 DEF LookupInv, LostIsLate, Lookups!Late
    <3>4. CASE entry[job[x].name] = x
      <4>1. job[x].name = n
        BY <1>4, <3>1, <3>2, <3>4
      <4>2. entry[n] # None
        BY <3>4, <4>1, DnsServerAssumption
      <4> QED
        BY <1>1, <4>1, <4>2, <3>4 DEF n
    <3> QED
      BY <3>3, <3>4
  <2> QED
    BY <1>1, <1>2, <2>1, <2>2, <2>3, <2>4, <2>5, <2>6 DEF LookupInv, OwnAnswerUnlessLate
<1>9. AnswerInv'
  <2>1. WaitsForOwnName'
    BY <1>2, <1>3, <1>4, <1>5 DEF AnswerInv, WaitsForOwnName
  <2> QED
    BY <1>1, <1>2, <1>3, <2>1 DEF AnswerInv, CacheTrue, StoreTrue, ResultTrue
<1> QED
  BY <1>7, <1>8, <1>9 DEF IInv

\* Manager.Acquire, by those who come while the entry is young.
LEMMA FollowStep ==
  ASSUME IInv, NEW q \in Queries, Follow(q) PROVE IInv'
<1> DEFINE n == job[q].name
           e == entry[n]
<1>1. /\ job[q].pc = "acquire" /\ e # None
      /\ job' = [job EXCEPT ![q].pc = "wait", ![q].on = e]
      /\ UNCHANGED <<cache, entry, old, result, panicked, given>>
  BY DEF Follow, Lookups!Follows, inflightVars
<1>2. TypeOK /\ LookupInv /\ AnswerInv
  BY DEF IInv
<1>3. n \in Names /\ e \in Queries
  BY <1>1, <1>2 DEF LookupInv, WorkersPlaced, Placed, TypeOK
<1>4. /\ job'[q].pc = "wait" /\ job'[q].on = e /\ job'[q].name = n
      /\ \A x \in Queries \ {q} : job'[x] = job[x]
  BY <1>1, <1>2 DEF TypeOK, JobType, Jobs
<1>5. job[e].pc = "lookup" /\ e \notin DOMAIN result
  BY <1>1, <1>2, <1>3 DEF LookupInv, EntryHasLeader, EntryIsOpen
<1>6. \A m \in Names : entry[m] = e => m = n
  BY <1>1, <1>2, <1>3, EntryOfOneName DEF LookupInv
<1>7. TypeOK'
  <2>1. JobType'
    <3>1. JobType /\ "wait" \in JobStates
      BY <1>2 DEF TypeOK, JobStates
    <3> QED
      BY <1>1, <1>3, <3>1, JobGetsEntry
  <2> QED
    BY <1>1, <1>2, <2>1 DEF TypeOK, CacheType, ResultType
<1> HIDE DEF n, e
<1>8. LookupInv'
  <2>1. WorkersPlaced'
    BY <1>2, <1>3, <1>4 DEF LookupInv, WorkersPlaced, Placed
  <2>2. OnlyUsedKept'
    <3>1. job[q].on \notin old \cup DOMAIN result
      BY <1>1, <1>2, DnsServerAssumption DEF LookupInv, WorkersPlaced, Placed, TypeOK
    <3>2. old' \cup DOMAIN result' = old \cup DOMAIN result
      BY <1>1
    <3>3. OnlyUsedKept
      BY <1>2 DEF LookupInv
    <3> SUFFICES ASSUME NEW k \in old \cup DOMAIN result
                 PROVE  \E x \in Queries : job'[x].on = k
      BY <3>2 DEF OnlyUsedKept
    <3>4. PICK x \in Queries : job[x].on = k
      BY <3>3 DEF OnlyUsedKept
    <3>5. x # q
      BY <3>1, <3>4
    <3> QED
      BY <1>4, <3>4, <3>5
  <2>3. NewIsUnknown'
    BY <1>2, <1>4, <1>5 DEF LookupInv, NewIsUnknown
  <2>4. EntryHasLeader'
    <3>1. \A m \in Names : entry[m] # None => entry[m] \in Queries \ {q}
      BY <1>1, <1>2 DEF LookupInv, EntryHasLeader, TypeOK
    <3>2. entry' = entry /\ ~ panicked'
      BY <1>1, <1>2 DEF LookupInv, EntryHasLeader
    <3> QED
      BY <1>2, <1>4, <3>1, <3>2 DEF LookupInv, EntryHasLeader
  <2>5. entry' = entry /\ old' = old /\ result' = result
    BY <1>1
  <2>6. EntryIsOpen' /\ OwnAnswerUnlessLate'
    BY <1>2, <2>5 DEF LookupInv, EntryIsOpen, OwnAnswerUnlessLate
  <2>7. LostIsLate'
    <3> SUFFICES ASSUME NEW x \in Queries, job'[x].pc = "lookup", entry'[job'[x].name] # x
                 PROVE  x \in old' \/ x \in DOMAIN result'
      BY DEF LostIsLate, Lookups!Late
    <3>1. x # q /\ job'[x] = job[x]
      BY <1>4
    <3> QED
      BY <1>2, <2>5, <3>1 DEF LookupInv, LostIsLate, Lookups!Late
  <2> QED
    BY <2>1, <2>2, <2>3, <2>4, <2>6, <2>7 DEF LookupInv
<1>9. AnswerInv'
  <2>1. WaitsForOwnName'
    <3> SUFFICES ASSUME NEW x \in Queries, NEW m \in Names,
                        job'[x].pc = "wait", entry'[m] = job'[x].on
                 PROVE  job'[x].name = m
      BY DEF WaitsForOwnName
    <3>1. entry' = entry
      BY <1>1
    <3>2. CASE x = q
      BY <1>4, <1>6, <3>1, <3>2
    <3>3. CASE x # q
      BY <1>2, <1>4, <3>1, <3>3 DEF AnswerInv, WaitsForOwnName
    <3> QED
      BY <3>2, <3>3
  <2>2. ResultTrue'
    BY <1>1, <1>2, <1>4, <1>5 DEF AnswerInv, ResultTrue
  <2> QED
    BY <1>1, <1>2, <1>4, <2>1, <2>2 DEF AnswerInv, CacheTrue, StoreTrue
<1> QED
  BY <1>7, <1>8, <1>9 DEF IInv

\* Manager.Resolve: of whatever entry the name has now, which is open, and whose
\* waiters have asked for that name.
LEMMA LookupEndsStep ==
  ASSUME IInv, NEW q \in Queries, NEW a \in Answers \cup {"fail"}, LookupEnds(q, a) PROVE IInv'
<1> DEFINE n == job[q].name
           e == entry[n]
           o == [val |-> a, own |-> e = q, late |-> q \in old \/ q \in DOMAIN result]
<1>1. /\ job[q].pc = "lookup"
      /\ job' = [job EXCEPT ![q].pc = "store", ![q].ans = a]
      /\ entry' = [entry EXCEPT ![n] = None]
      /\ panicked' = (panicked \/ e \in DOMAIN result)
      /\ given' = IF a = "fail" THEN given ELSE [given EXCEPT ![n] = @ \cup {a}]
      /\ UNCHANGED <<cache, old>>
  BY DEF LookupEnds, Lookups!Resolve
<1>2. result' = IF e = None THEN result
                ELSE [x \in DOMAIN result \cup {e} |-> IF x = e THEN o ELSE result[x]]
  BY DEF LookupEnds, Lookups!Resolve, Lookups!Closed, Lookups!Outcome, Lookups!Late
<1>3. TypeOK /\ LookupInv /\ AnswerInv
  BY DEF IInv
<1>4. n \in Names /\ e \in Queries \cup {None}
  BY <1>1, <1>3 DEF LookupInv, WorkersPlaced, Placed, TypeOK
<1>5. /\ job'[q].pc = "store" /\ job'[q].on = job[q].on /\ job'[q].name = n /\ job'[q].ans = a
      /\ \A x \in Queries \ {q} : job'[x] = job[x]
  BY <1>1, <1>3 DEF TypeOK, JobType, Jobs
<1>6. entry'[n] = None /\ \A m \in Names \ {n} : entry'[m] = entry[m]
  BY <1>1, <1>3, <1>4 DEF TypeOK
<1>7. e # None => /\ job[e].pc = "lookup" /\ job[e].on = e /\ e \notin DOMAIN result
                  /\ \A m \in Names : entry[m] = e => m = n
  BY <1>3, <1>4, EntryOfOneName, DnsServerAssumption
     DEF LookupInv, EntryHasLeader, EntryIsOpen, WorkersPlaced, Placed
<1>8. /\ \A x \in DOMAIN result : x \in DOMAIN result' /\ result'[x] = result[x]
      /\ \A x \in DOMAIN result' : x \in DOMAIN result \/ (x = e /\ e # None /\ result'[x] = o)
  BY <1>2, <1>7
<1>9. /\ \A m \in Names : given[m] \subseteq given'[m] /\ given'[m] \subseteq Answers
      /\ a \in given'[n] \cup {"fail"} /\ given' \in [Names -> SUBSET Answers]
  BY <1>1, <1>3, <1>4 DEF TypeOK
<1>10. o \in [val : Answers \cup {"fail"}, own : BOOLEAN, late : BOOLEAN]
  OBVIOUS
<1>11. TypeOK'
  <2>1. JobType'
    <3>1. JobType /\ "store" \in JobStates
      BY <1>3 DEF TypeOK, JobStates
    <3> QED
      BY <1>1, <3>1, JobGetsAnswer
  <2>2. ResultType' /\ DOMAIN result' \subseteq Queries
    <3> HIDE DEF o
    <3> QED
      BY <1>2, <1>3, <1>4, <1>10 DEF TypeOK, ResultType
  <2>3. entry' \in [Names -> Queries \cup {None}] /\ panicked' \in BOOLEAN
    BY <1>1, <1>3 DEF TypeOK
  <2> QED
    BY <1>1, <1>3, <1>9, <2>1, <2>2, <2>3 DEF TypeOK, CacheType
<1>12. e # q => q \in old \/ q \in DOMAIN result
  BY <1>1, <1>3 DEF LookupInv, LostIsLate, Lookups!Late
<1>13. o.val = a /\ (o.own \/ o.late)
  BY <1>12
<1> HIDE DEF n, e, o
<1>14. LookupInv'
  <2>1. WorkersPlaced'
    <3>1. \A x \in Queries : Placed(x)
      BY <1>3 DEF LookupInv, WorkersPlaced
    <3>2. job[q].on = q
      BY <1>1, <3>1 DEF Placed
    <3>3. Placed(q)'
      BY <1>4, <1>5, <3>2 DEF Placed
    <3>4. ASSUME NEW x \in Queries \ {q} PROVE Placed(x)'
      BY <1>5, <3>1 DEF Placed
    <3> QED
      BY <3>3, <3>4 DEF WorkersPlaced
  <2>2. OnlyUsedKept'
    <3>1. \A x \in Queries : job'[x].on = job[x].on
      BY <1>5
    <3>2. \A x \in old' \cup DOMAIN result' : x \in old \cup DOMAIN result \/ (x = e /\ e # None)
      <4>1. old' = old
        BY <1>1
      <4>2. \A x \in DOMAIN result' : x \in DOMAIN result \/ (x = e /\ e # None)
        BY <1>8
      <4> QED
        BY <4>1, <4>2
    <3> QED
      BY <1>3, <1>4, <1>7, <3>1, <3>2 DEF LookupInv, OnlyUsedKept
  <2>3. NewIsUnknown'
    BY <1>3, <1>5 DEF LookupInv, NewIsUnknown
  <2>4. EntryHasLeader'
    <3>1. \A m \in Names : entry'[m] # None => m # n /\ entry[m] # q /\ entry[m] \in Queries
      BY <1>3, <1>6 DEF LookupInv, EntryHasLeader, TypeOK, n
    <3>2. ~ panicked'
      BY <1>1, <1>3, <1>4, <1>7, DnsServerAssumption DEF LookupInv, EntryHasLeader, TypeOK
    <3> QED
      BY <1>3, <1>5, <1>6, <3>1, <3>2 DEF LookupInv, EntryHasLeader
  <2>5. EntryIsOpen'
    BY <1>3, <1>6, <1>7, <1>8 DEF LookupInv, EntryIsOpen
  <2>6. LostIsLate'
    <3> SUFFICES ASSUME NEW x \in Queries, job'[x].pc = "lookup", entry'[job'[x].name] # x
                 PROVE  x \in old' \/ x \in DOMAIN result'
      BY DEF LostIsLate, Lookups!Late
    <3>1. x # q /\ job'[x] = job[x] /\ job[x].name \in Names
      BY <1>3, <1>5 DEF LookupInv, WorkersPlaced, Placed
    <3>2. CASE entry[job[x].name] # x
      BY <1>1, <1>3, <1>8, <3>1, <3>2 DEF LookupInv, LostIsLate, Lookups!Late
    <3>3. CASE entry[job[x].name] = x
      <4>1. job[x].name = n
        BY <1>6, <3>1, <3>3
      <4>2. x = e /\ e # None
        BY <3>3, <4>1, DnsServerAssumption DEF e
      <4> QED
        BY <1>2, <4>2
    <3> QED
      BY <3>2, <3>3
  <2>7. OwnAnswerUnlessLate'
    BY <1>3, <1>8, <1>13 DEF LookupInv, OwnAnswerUnlessLate
  <2> QED
    BY <2>1, <2>2, <2>3, <2>4, <2>5, <2>6, <2>7 DEF LookupInv
<1>15. AnswerInv'
  <2>1. WaitsForOwnName'
    <3> SUFFICES ASSUME NEW x \in Queries, NEW m \in Names,
                        job'[x].pc = "wait", entry'[m] = job'[x].on
                 PROVE  job'[x].name = m
      BY DEF WaitsForOwnName
    <3>1. job'[x] = job[x] /\ job[x].on # None
      BY <1>3, <1>5, DnsServerAssumption DEF LookupInv, WorkersPlaced, Placed
    <3> QED
      BY <1>3, <1>6, <3>1 DEF AnswerInv, WaitsForOwnName
  <2>2. CacheTrue'
    BY <1>1, <1>3, <1>9 DEF AnswerInv, CacheTrue
  <2>3. StoreTrue'
    BY <1>3, <1>5, <1>9 DEF AnswerInv, StoreTrue, LookupInv, WorkersPlaced, Placed
  <2>4. ResultTrue'
    <3> SUFFICES ASSUME NEW x \in Queries, job'[x].pc = "wait", job'[x].on \in DOMAIN result'
                 PROVE  result'[job'[x].on].val \in given'[job'[x].name] \cup {"fail"}
      BY DEF ResultTrue
    <3>1. job'[x] = job[x] /\ job[x].name \in Names
      BY <1>3, <1>5 DEF LookupInv, WorkersPlaced, Placed
    <3>2. CASE job[x].on \in DOMAIN result
      BY <1>3, <1>8, <1>9, <3>1, <3>2 DEF AnswerInv, ResultTrue
    <3>3. CASE job[x].on = e /\ e # None /\ result'[e] = o
      <4>1. job[x].name = n
        BY <1>3, <1>4, <3>1, <3>3 DEF AnswerInv, WaitsForOwnName, e
      <4> QED
        BY <1>9, <1>13, <3>1, <3>3, <4>1
    <3> QED
      BY <1>8, <3>1, <3>2, <3>3
  <2> QED
    BY <2>1, <2>2, <2>3, <2>4 DEF AnswerInv
<1> QED
  BY <1>11, <1>14, <1>15 DEF IInv

\* m.timeout goes by for the entry of a name.
LEMMA LookupAgesStep ==
  ASSUME IInv, NEW n \in Names, LookupAges(n) PROVE IInv'
<1>1. /\ entry[n] # None /\ old' = old \cup {entry[n]}
      /\ UNCHANGED <<cache, entry, result, panicked, job, given>>
  BY DEF LookupAges, Lookups!EntryAges, Lookups!Follows
<1>2. TypeOK /\ LookupInv /\ AnswerInv
  BY DEF IInv
<1>3. entry[n] \in Queries /\ job[entry[n]].on = entry[n]
  BY <1>1, <1>2 DEF TypeOK, LookupInv, EntryHasLeader, WorkersPlaced, Placed
<1>4. TypeOK'
  BY <1>1, <1>2, <1>3 DEF TypeOK, CacheType, ResultType, JobType
<1>5. LookupInv'
  <2>1. OnlyUsedKept'
    BY <1>1, <1>2, <1>3 DEF LookupInv, OnlyUsedKept
  <2>2. LostIsLate'
    BY <1>1, <1>2 DEF LookupInv, LostIsLate, Lookups!Late
  <2> QED
    BY <1>1, <1>2, <2>1, <2>2
       DEF LookupInv, WorkersPlaced, Placed, NewIsUnknown, EntryHasLeader, EntryIsOpen,
           OwnAnswerUnlessLate
<1>6. AnswerInv'
  BY <1>1, <1>2 DEF AnswerInv, WaitsForOwnName, CacheTrue, StoreTrue, ResultTrue
<1> QED
  BY <1>4, <1>5, <1>6 DEF IInv

\* Nothing but the cache changes.
LEMMA CacheStep ==
  ASSUME IInv, CacheType', CacheTrue', UNCHANGED <<inflightVars, job, given>> PROVE IInv'
<1>1. UNCHANGED <<entry, old, result, panicked, job, given>>
  BY DEF inflightVars
<1>2. TypeOK /\ LookupInv /\ AnswerInv
  BY DEF IInv
<1>3. TypeOK'
  BY <1>1, <1>2 DEF TypeOK, ResultType, JobType
<1>4. LookupInv'
  BY <1>1, <1>2
     DEF LookupInv, WorkersPlaced, Placed, OnlyUsedKept, NewIsUnknown, EntryHasLeader,
         EntryIsOpen, LostIsLate, Lookups!Late, OwnAnswerUnlessLate
<1>5. AnswerInv'
  BY <1>1, <1>2 DEF AnswerInv, WaitsForOwnName, StoreTrue, ResultTrue
<1> QED
  BY <1>3, <1>4, <1>5 DEF IInv

\* Each way to answer: what is sent has been said by a resolver for the name of the
\* query, or is SERVFAIL, and what goes into the cache has been said too.
LEMMA AnswerTrue ==
  ASSUME IInv, NEW q \in Queries,
         ExecuteHit(q) \/ Store(q) \/ FollowerGets(q) \/ FollowerHit(q) \/ FollowerFails(q)
  PROVE  /\ job[q].pc \notin {"none", "lookup"} /\ job[q].name \in Names
         /\ \E a \in given[job[q].name] \cup {"fail"} : Finish(q, a)
         /\ CacheType' /\ CacheTrue'
<1> DEFINE n == job[q].name
<1>1. TypeOK /\ WorkersPlaced /\ CacheTrue /\ StoreTrue /\ ResultTrue
  BY DEF IInv, LookupInv, AnswerInv
<1>2. given' = given
  BY DEF ExecuteHit, Store, FollowerGets, FollowerHit, FollowerFails, Finish
<1>3. job[q].pc \in {"queued", "store", "wait"}
  BY DEF ExecuteHit, Store, FollowerGets, FollowerHit, FollowerFails
<1>4. n \in Names
  BY <1>1, <1>3 DEF WorkersPlaced, Placed
<1>5. \E a \in given[n] \cup {"fail"} : Finish(q, a)
  <2>1. CASE ExecuteHit(q)
    BY <1>1, <1>4, <2>1 DEF ExecuteHit, Cache!Usable, CacheTrue
  <2>2. CASE Store(q)
    BY <1>1, <1>4, <2>2 DEF Store, StoreTrue
  <2>3. CASE FollowerGets(q)
    BY <1>1, <1>4, <2>3 DEF FollowerGets, ResultTrue
  <2>4. CASE FollowerHit(q)
    BY <1>1, <1>4, <2>4 DEF FollowerHit, CacheTrue
  <2>5. CASE FollowerFails(q)
    BY <2>5 DEF FollowerFails
  <2> QED
    BY <2>1, <2>2, <2>3, <2>4, <2>5
<1>6. CacheType' /\ CacheTrue'
  <2>1. CASE cache' = cache
    BY <1>1, <1>2, <2>1 DEF TypeOK, CacheType, CacheTrue
  <2>2. CASE Cache!GetReadyMisses(n)
    BY <1>2, <1>4, <2>2, CacheShrinks
  <2>3. CASE Store(q) /\ job[q].ans # "fail"
    <3>1. /\ cache' = [cache EXCEPT ![n] = [st |-> "ready", ans |-> job[q].ans, old |-> FALSE]]
          /\ job[q].ans \in given[n]
      BY <1>1, <2>3 DEF Store, StoreTrue, Cache!SetReady, Cache!ReadyEntry
    <3>2. job[q].ans \in Answers
      BY <1>1, <1>4, <3>1 DEF TypeOK
    <3> QED
      BY <1>1, <1>2, <1>4, <3>1, <3>2 DEF TypeOK, CacheType, CacheTrue
  <2> QED
    BY <2>1, <2>2, <2>3 DEF ExecuteHit, Store, FollowerGets, FollowerHit, FollowerFails
<1> QED
  BY <1>3, <1>4, <1>5, <1>6

\* Every step of the server preserves the invariant.
LEMMA NextIInv == IInv /\ [Next]_vars => IInv'
<1> SUFFICES ASSUME IInv, [Next]_vars PROVE IInv'
  OBVIOUS
<1>1. ASSUME NEW q \in Queries, Worker(q) PROVE IInv'
  <2>1. CASE ExecuteHit(q) \/ Store(q) \/ FollowerGets(q) \/ FollowerHit(q) \/ FollowerFails(q)
    BY <2>1, AnswerTrue, FinishStep
  <2>2. CASE ExecuteMiss(q)
    BY <2>2, ExecuteMissStep
  <2>3. CASE Lead(q)
    BY <2>3, LeadStep
  <2>4. CASE Follow(q)
    BY <2>4, FollowStep
  <2>5. CASE \E a \in Answers \cup {"fail"} : LookupEnds(q, a)
    BY <2>5, LookupEndsStep
  <2> QED
    BY <1>1, <2>1, <2>2, <2>3, <2>4, <2>5 DEF Worker
<1>2. ASSUME NEW q \in Queries, SessionGone(q) PROVE IInv'
  BY <1>2, SessionGoneStep
<1>3. ASSUME NEW q \in Queries, NEW n \in Names, Enqueue(q, n) PROVE IInv'
  BY <1>3, EnqueueStep
<1>4. ASSUME NEW n \in Names, LookupAges(n) PROVE IInv'
  BY <1>4, LookupAgesStep
<1>5. ASSUME NEW n \in Names, CacheChanges(n) PROVE IInv'
  <2>1. /\ Cache!Ages(n) \/ Cache!Evict(n)
        /\ UNCHANGED <<inflightVars, job, given>>
    BY <1>5 DEF CacheChanges
  <2> QED
    BY <2>1, CacheShrinks, CacheStep
<1>6. CASE UNCHANGED vars
  <2>1. UNCHANGED <<cache, inflightVars, job, given>>
    BY <1>6 DEF vars
  <2>2. CacheType' /\ CacheTrue'
    BY <2>1 DEF IInv, TypeOK, CacheType, AnswerInv, CacheTrue
  <2> QED
    BY <2>1, <2>2, CacheStep
<1> QED
  BY <1>1, <1>2, <1>3, <1>4, <1>5, <1>6 DEF Next

-----------------------------------------------------------------------------
(* The theorems.                                                             *)

\* Every reachable state satisfies the inductive invariant.
THEOREM Inductive == Spec => []IInv
BY InitIInv, NextIInv, PTL DEF Spec

\* Whoever waits in the table of lookups under way waits for one that is being made,
\* and no channel is closed twice: Manager.Resolve never panics.
THEOREM LeadersLookUp == Spec => []EntryHasLeader
<1>1. IInv => EntryHasLeader
  BY DEF IInv, LookupInv
<1> QED
  BY <1>1, Inductive, PTL

\* Who waits for a lookup gets its result, or that of one that had outlived the limit.
THEOREM OwnAnswer == Spec => []OwnAnswerUnlessLate
<1>1. IInv => OwnAnswerUnlessLate
  BY DEF IInv, LookupInv
<1> QED
  BY <1>1, Inductive, PTL

\* Two lookups of one name are under way only when one of them is late: one of the
\* two does not have the entry of the name, and so has lost it.
THEOREM OneLookup == Spec => []OneLookupUnlessLate
<1>1. IInv => OneLookupUnlessLate
  BY DEF IInv, LookupInv, LostIsLate, OneLookupUnlessLate
<1> QED
  BY <1>1, Inductive, PTL

\* The workers, the cache and the table of lookups implement the service: each query
\* is answered once, with what a resolver has said for its name or with SERVFAIL.
THEOREM Refinement == Spec => ImplementsService
<1> DEFINE asked == [q \in Queries |-> job[q].name]
<1> USE DEF Service!serviceVars
<1>1. Init => Service!ServiceInit
  <2> SUFFICES ASSUME Init PROVE Service!ServiceInit
    OBVIOUS
  <2>1. asked = [q \in Queries |-> None]
    BY DEF Init, NoJob
  <2> QED
    BY <2>1 DEF Init, Service!ServiceInit
<1>2. ASSUME IInv, [Next]_vars PROVE [Service!ServiceNext]_(Service!serviceVars)
  <2>1. JobType /\ WorkersPlaced /\ None \notin Names /\ TypeOK
    BY <1>2, DnsServerAssumption DEF IInv, TypeOK, LookupInv
  <2>2. ASSUME NEW q \in Queries, NEW j, job' = [job EXCEPT ![q] = j]
        PROVE  asked' = [asked EXCEPT ![q] = j.name]
    BY <2>1, <2>2 DEF JobType
  <2> NoJob.name = None
    BY DEF NoJob
  <2>3. ASSUME NEW q \in Queries, NEW n \in Names, Enqueue(q, n) PROVE Service!Accept(q, n)
    <3>1. asked[q] = None
      BY <2>1, <2>3 DEF Enqueue, WorkersPlaced, Placed
    <3>2. asked' = [asked EXCEPT ![q] = n]
      <4> DEFINE j == [NoJob EXCEPT !.pc = "queued", !.name = n]
      <4>1. job' = [job EXCEPT ![q] = j] /\ j.name = n
        BY <2>3 DEF Enqueue, NoJob
      <4> HIDE DEF j
      <4> QED
        BY <2>2, <4>1
    <3> QED
      BY <2>3, <3>1, <3>2 DEF Enqueue, Service!Accept
  <2>4. ASSUME NEW q \in Queries, SessionGone(q) PROVE Service!Dismiss(q)
    <3>1. asked[q] # None
      BY <2>1, <2>4 DEF SessionGone, WorkersPlaced, Placed
    <3>2. asked' = [asked EXCEPT ![q] = None]
      BY <2>2, <2>4 DEF SessionGone
    <3> QED
      BY <2>4, <3>1, <3>2 DEF SessionGone, Service!Dismiss
  <2>5. ASSUME NEW q \in Queries,
               ExecuteHit(q) \/ Store(q) \/ FollowerGets(q) \/ FollowerHit(q) \/ FollowerFails(q)
        PROVE  \E a \in Answers \cup {"fail"} : Service!Reply(q, a)
    <3>1. job[q].name \in Names
      BY <1>2, <2>5, AnswerTrue
    <3>2. PICK a \in given[job[q].name] \cup {"fail"} : Finish(q, a)
      BY <1>2, <2>5, AnswerTrue
    <3>3. a \in Answers \cup {"fail"}
      BY <2>1, <3>1, <3>2 DEF TypeOK
    <3>4. asked[q] # None /\ asked[q] = job[q].name
      BY <2>1, <3>1
    <3>5. asked' = [asked EXCEPT ![q] = None] /\ reply' = <<q, a>> /\ given' = given
      BY <2>2, <3>2 DEF Finish
    <3> QED
      BY <3>2, <3>3, <3>4, <3>5 DEF Service!Reply
  <2>6. ASSUME NEW q \in Queries, NEW a \in Answers \cup {"fail"}, LookupEnds(q, a)
        PROVE  UNCHANGED <<asked, given, reply>> \/ \E n \in Names : a \in Answers /\ Service!Upstream(n, a)
    <3>1. job[q].name \in Names /\ asked' = asked /\ reply' = reply
      BY <2>1, <2>6 DEF LookupEnds, JobType, WorkersPlaced, Placed
    <3>2. CASE a = "fail"
      BY <2>6, <3>1, <3>2 DEF LookupEnds
    <3>3. CASE a # "fail"
      BY <2>6, <3>1, <3>3 DEF LookupEnds, Service!Upstream
    <3> QED
      BY <3>2, <3>3
  <2>7. ASSUME NEW q \in Queries, ExecuteMiss(q) \/ Lead(q) \/ Follow(q)
        PROVE  UNCHANGED <<asked, given, reply>>
    <3>1. given' = given /\ reply' = reply
      BY <2>7 DEF ExecuteMiss, Lead, Follow
    <3>2. CASE ExecuteMiss(q)
      BY <2>1, <3>1, <3>2 DEF ExecuteMiss, JobType
    <3>3. CASE Lead(q)
      BY <2>1, <3>1, <3>3 DEF Lead, JobType
    <3>4. CASE Follow(q)
      BY <2>1, <3>1, <3>4 DEF Follow, JobType
    <3> QED
      BY <2>7, <3>2, <3>3, <3>4
  <2>8. ASSUME NEW n \in Names, LookupAges(n) \/ CacheChanges(n)
        PROVE  UNCHANGED <<asked, given, reply>>
    BY <2>8 DEF LookupAges, CacheChanges
  <2>9. CASE UNCHANGED vars
    BY <2>9 DEF vars
  <2> QED
    BY <1>2, <2>3, <2>4, <2>5, <2>6, <2>7, <2>8, <2>9 DEF Next, Worker, Service!ServiceNext
<1> QED
  BY <1>1, <1>2, Inductive, PTL DEF Spec, ImplementsService, Service!ServiceSpec

-----------------------------------------------------------------------------
(* DnsTunnel: the inductive invariant.                                       *)

\* Every name has an entry with an answer, or None, in the client's cache.
CachedWhole ==
  /\ DOMAIN localCache = Names
  /\ \A n \in Names : "ans" \in DOMAIN localCache[n]

\* No answer in it is made of two responses.
NoneMixed == \A n \in Names : localCache[n].ans # "mixed"

\* The queries that workers have in hand.
Held == {m.seq : m \in taken}

\* What a worker has or has answered counts as completed, one worker has it, and
\* nothing of a response is there while it has: a query is answered once.
AnsweredOnce ==
  /\ Held \subseteq qDone
  /\ \A m, k \in taken : m.seq = k.seq => m = k
  /\ DOMAIN rItems \subseteq qDone \ Held
  /\ \A m \in down : m.seq \in qDone \ Held

\* The fragments with one number, on their way or stored, are of one response.
OneResponse(m) ==
  /\ m.ans # "mixed"
  /\ \A k \in down : k.seq = m.seq => k.ans = m.ans
  /\ m.seq \in DOMAIN rItems =>
       \A f \in DOMAIN rItems[m.seq].chunks : rItems[m.seq].chunks[f] = m.ans

TunnelInv ==
  /\ CachedWhole
  /\ ~ overrun => NoneMixed /\ AnsweredOnce /\ \A m \in down : OneResponse(m)

\* The chunks of a key when one more has come: that one, and old ones.
LEMMA ChunksFacts ==
  ASSUME NEW m, NEW c, c = ResponseStore!Chunks(m.seq, m.ans, m.frag, m.total)
  PROVE  /\ m.frag \in DOMAIN c /\ c[m.frag] = m.ans
         /\ \A f \in DOMAIN c : \/ c[f] = m.ans
                                \/ /\ m.seq \in DOMAIN rItems
                                   /\ f \in DOMAIN rItems[m.seq].chunks
                                   /\ c[f] = rItems[m.seq].chunks[f]
<1>1. PICK o : o = IF m.seq \in DOMAIN rItems /\ rItems[m.seq].total = m.total
                   THEN rItems[m.seq].chunks ELSE << >>
  OBVIOUS
<1>2. c = [x \in DOMAIN o \cup {m.frag} |-> IF x = m.frag THEN m.ans ELSE o[x]]
  BY <1>1 DEF ResponseStore!Chunks, ResponseStore!Stored
<1>3. \A f \in DOMAIN o : m.seq \in DOMAIN rItems /\ o = rItems[m.seq].chunks
  BY <1>1
<1> QED BY <1>2, <1>3

\* So the chunks of one response are of that response when one more of it has come.
LEMMA ChunksOfOne ==
  ASSUME NEW m, OneResponse(m), NEW c,
         c = ResponseStore!Chunks(m.seq, m.ans, m.frag, m.total)
  PROVE  m.frag \in DOMAIN c /\ \A f \in DOMAIN c : c[f] = m.ans
<1>1. /\ m.frag \in DOMAIN c
      /\ \A f \in DOMAIN c : \/ c[f] = m.ans
                             \/ /\ m.seq \in DOMAIN rItems
                                /\ f \in DOMAIN rItems[m.seq].chunks
                                /\ c[f] = rItems[m.seq].chunks[f]
  BY ChunksFacts, Zenon
<1> QED BY <1>1 DEF OneResponse

\* A response that is completed is the one that was sent.
LEMMA AssembledWhole ==
  ASSUME NEW m, OneResponse(m) PROVE Assembled(m) # "mixed"
<1>1. PICK c : c = ResponseStore!Chunks(m.seq, m.ans, m.frag, m.total)
  OBVIOUS
<1>2. m.frag \in DOMAIN c /\ \A f \in DOMAIN c : c[f] = m.ans
  BY <1>1, ChunksOfOne
<1>3. Range(c) = {m.ans}
  BY <1>2 DEF Range
<1>4. Assembled(m) = m.ans
  BY <1>1, <1>3 DEF Assembled
<1> QED BY <1>4 DEF OneResponse

\* A name gets no answer but the one that is stored.
LEMMA CacheSteps ==
  ASSUME CachedWhole,
         \/ UNCHANGED localCache
         \/ \E n \in Names : \/ Local!Dispatches(n) \/ Local!Ages(n)
                             \/ Local!Evict(n)
         \/ Local!ClearPending
  PROVE  CachedWhole' /\ (NoneMixed => NoneMixed')
<1>0. None # "mixed"
  BY DnsAssumption
<1>1. PICK e : e = Local!NoEntry /\ "ans" \in DOMAIN e /\ e.ans # "mixed"
  <2>1. Local!NoEntry.ans = None
    BY DEF Local!NoEntry
  <2>2. "ans" \in DOMAIN Local!NoEntry
    BY DEF Local!NoEntry
  <2> QED BY <1>0, <2>1, <2>2
<1>2. PICK p : p = Local!PendingEntry /\ "ans" \in DOMAIN p /\ p.ans # "mixed"
  <2>1. Local!PendingEntry.ans = None
    BY DEF Local!PendingEntry
  <2>2. "ans" \in DOMAIN Local!PendingEntry
    BY DEF Local!PendingEntry
  <2> QED BY <1>0, <2>1, <2>2
<1>3. CASE UNCHANGED localCache
  BY <1>3 DEF CachedWhole, NoneMixed
<1>4. ASSUME NEW n \in Names, NEW v, v \in {e, p}, localCache' = [localCache EXCEPT ![n] = v]
      PROVE  CachedWhole' /\ (NoneMixed => NoneMixed')
  BY <1>1, <1>2, <1>4 DEF CachedWhole, NoneMixed
<1>5. ASSUME NEW n \in Names, Local!Ages(n)
      PROVE  CachedWhole' /\ (NoneMixed => NoneMixed')
  <2>1. localCache' = [localCache EXCEPT ![n].old = TRUE]
    BY <1>5 DEF Local!Ages
  <2>2. PICK v : v = [localCache[n] EXCEPT !.old = TRUE]
    OBVIOUS
  <2>3. "ans" \in DOMAIN v /\ v.ans = localCache[n].ans
    BY <2>2 DEF CachedWhole
  <2>4. localCache' = [localCache EXCEPT ![n] = v]
    BY <2>1, <2>2
  <2> QED BY <2>3, <2>4 DEF CachedWhole, NoneMixed
<1>6. CASE Local!ClearPending
  BY <1>1, <1>6 DEF Local!ClearPending, CachedWhole, NoneMixed
<1> QED BY <1>1, <1>2, <1>3, <1>4, <1>5, <1>6
        DEF Local!Dispatches, Local!Evict

\* A step that touches no response and has no part in it.
LEMMA ResponsesAlone ==
  ASSUME TunnelInv, CachedWhole', NoneMixed => NoneMixed', ~ overrun' => ~ overrun,
         ~ overrun' => AnsweredOnce', down' \subseteq down, UNCHANGED rItems
  PROVE  TunnelInv'
<1>1. ASSUME ~ overrun, NEW m \in down' PROVE OneResponse(m)'
  BY <1>1 DEF TunnelInv, OneResponse
<1> QED BY <1>1 DEF TunnelInv

\* The application asks, and the client's cache grows old.
LEMMA TunnelAsks ==
  ASSUME TunnelInv, NEW n \in Names,
         \/ Ask(n) \/ PendingAges(n) \/ AnswerAges(n)
         \/ PushedOut(n)
  PROVE  TunnelInv'
<1>1. /\ \/ Local!Dispatches(n) \/ Local!Ages(n) \/ Local!Evict(n)
      /\ UNCHANGED <<qDone, overrun, taken, down, rItems>>
  BY DEF Ask, PendingAges, AnswerAges, PushedOut,
         queryVars, responseVars
<1>2. CachedWhole' /\ (NoneMixed => NoneMixed')
  BY <1>1, CacheSteps DEF TunnelInv
<1>3. ~ overrun' => AnsweredOnce'
  BY <1>1 DEF TunnelInv, AnsweredOnce, Held
<1> QED BY <1>1, <1>2, <1>3, ResponsesAlone

\* The server collects the query. One that was completed is not assembled again.
LEMMA TunnelQuery ==
  ASSUME TunnelInv, NEW m,
         \/ GiveUp(m) \/ QueryPart(m) \/ QueryComplete(m)
         \/ QueryDropped(m)
  PROVE  TunnelInv'
<1>1. UNCHANGED <<localCache, overrun, down, rItems>>
  BY DEF GiveUp, QueryPart, QueryComplete, QueryDropped,
         responseVars
<1>2. \/ UNCHANGED <<qDone, taken>>
      \/ /\ m.seq \notin qDone /\ qDone' = qDone \cup {m.seq}
         /\ taken' \in {taken, taken \cup {m}}
  <2>1. CASE GiveUp(m) \/ QueryPart(m)
    BY <2>1 DEF GiveUp, QueryPart, QueryStore!CollectNotReady
  <2>2. CASE QueryComplete(m)
    BY <2>2 DEF QueryComplete, QueryStore!CollectReady
  <2>3. CASE QueryDropped(m)
    BY <2>3 DEF QueryDropped, QueryStore!CollectReady
  <2> QED BY <2>1, <2>2, <2>3
<1>3. CachedWhole' /\ (NoneMixed => NoneMixed')
  BY <1>1 DEF TunnelInv, CachedWhole, NoneMixed
<1>4. ~ overrun' => AnsweredOnce'
  BY <1>1, <1>2 DEF TunnelInv, AnsweredOnce, Held
<1> QED BY <1>1, <1>3, <1>4, ResponsesAlone

\* The worker answers, if it can: there was no response with that number.
LEMMA TunnelRespond ==
  ASSUME TunnelInv, NEW q \in taken, NEW a \in Answers \cup {"fail"},
         Respond(q, a)
  PROVE  TunnelInv'
<1>1. /\ taken' = taken \ {q}
      /\ down' = down \cup Fragments(q, a) \/ down' = down
      /\ UNCHANGED <<localCache, qDone, overrun, rItems>>
  BY DEF Respond, queryVars
<1>2. \A k \in Fragments(q, a) : k.seq = q.seq /\ k.ans = a
  BY DEF Fragments
<1>3. a # "mixed"
  BY DnsAssumption
<1>4. ASSUME ~ overrun PROVE AnsweredOnce' /\ \A m \in down' : OneResponse(m)'
  <2>1. AnsweredOnce /\ \A m \in down : OneResponse(m)
    BY <1>4 DEF TunnelInv
  <2>2. q.seq \in qDone /\ q.seq \notin DOMAIN rItems /\ \A m \in down : m.seq # q.seq
    BY <2>1 DEF AnsweredOnce, Held
  <2>3. Held' \subseteq Held /\ q.seq \notin Held'
    BY <1>1, <2>1 DEF AnsweredOnce, Held
  <2>4. AnsweredOnce'
    BY <1>1, <1>2, <2>1, <2>2, <2>3 DEF AnsweredOnce
  <2>5. \A m \in down' : OneResponse(m)'
    BY <1>1, <1>2, <1>3, <2>1, <2>2 DEF OneResponse
  <2> QED BY <2>4, <2>5
<1>5. CachedWhole' /\ (NoneMixed => NoneMixed')
  BY <1>1 DEF TunnelInv, CachedWhole, NoneMixed
<1> QED BY <1>1, <1>4, <1>5 DEF TunnelInv

\* The client collects the response.
LEMMA TunnelReceive ==
  ASSUME TunnelInv, NEW m \in down, ClientReceives(m) \/ LoseResponse(m)
  PROVE  TunnelInv'
<1>1. UNCHANGED <<qDone, overrun, taken>> /\ down' \subseteq down
  BY DEF ClientReceives, ResponseRepeated, ResponsePart,
         ResponseComplete, LoseResponse, Arrives, queryVars
<1>2. CASE UNCHANGED <<localCache, rItems>>
  <2>1. CachedWhole' /\ (NoneMixed => NoneMixed')
    BY <1>2 DEF TunnelInv, CachedWhole, NoneMixed
  <2>2. ~ overrun' => AnsweredOnce'
    BY <1>1, <1>2 DEF TunnelInv, AnsweredOnce, Held
  <2> QED BY <1>1, <1>2, <2>1, <2>2, ResponsesAlone
<1>3. CASE ResponsePart(m)
  <2>1. PICK c, r : /\ c = ResponseStore!Chunks(m.seq, m.ans, m.frag, m.total)
                    /\ r = [total |-> m.total, chunks |-> c]
    OBVIOUS
  <2>2. /\ UNCHANGED localCache
        /\ rItems' = [x \in DOMAIN rItems \cup {m.seq} |-> IF x = m.seq THEN r ELSE rItems[x]]
    BY <1>3, <2>1
       DEF ResponsePart, ResponseStore!CollectNotReady, ResponseStore!Stored
  <2>3. r.chunks = c
    BY <2>1
  <2>4. CachedWhole' /\ (NoneMixed => NoneMixed')
    BY <2>2 DEF TunnelInv, CachedWhole, NoneMixed
  <2>5. ASSUME ~ overrun PROVE AnsweredOnce' /\ \A k \in down' : OneResponse(k)'
    <3>1. AnsweredOnce /\ \A k \in down : OneResponse(k)
      BY <2>5 DEF TunnelInv
    <3>2. AnsweredOnce'
      BY <1>1, <2>2, <3>1 DEF AnsweredOnce, Held
    <3>3. \A f \in DOMAIN c : c[f] = m.ans
      BY <2>1, <3>1, ChunksOfOne
    <3>4. ASSUME NEW k \in down' PROVE OneResponse(k)'
      <4>1. k \in down /\ OneResponse(k)
        BY <1>1, <3>1
      <4>2. k.ans # "mixed" /\ \A j \in down' : j.seq = k.seq => j.ans = k.ans
        BY <1>1, <4>1 DEF OneResponse
      <4>3. CASE k.seq = m.seq
        <5>1. rItems'[k.seq].chunks = c /\ k.ans = m.ans
          BY <2>2, <2>3, <4>1, <4>3 DEF OneResponse
        <5> QED BY <3>3, <4>2, <5>1 DEF OneResponse
      <4>4. CASE k.seq # m.seq
        BY <2>2, <4>1, <4>2, <4>4 DEF OneResponse
      <4> QED BY <4>3, <4>4
    <3> QED BY <3>2, <3>4
  <2> QED BY <1>1, <2>4, <2>5 DEF TunnelInv
<1>4. CASE ResponseComplete(m)
  <2>1. PICK v : v = Local!ReadyEntry(Assembled(m))
    OBVIOUS
  <2>2. /\ localCache' = [localCache EXCEPT ![m.name] = v]
        /\ rItems' = [x \in DOMAIN rItems \ {m.seq} |-> rItems[x]]
    BY <1>4, <2>1
       DEF ResponseComplete, Local!SetReady, ResponseStore!CollectReady,
           ResponseStore!Without, ResponseStore!Restrict
  <2>3. "ans" \in DOMAIN v /\ v.ans = Assembled(m)
    BY <2>1 DEF Local!ReadyEntry
  <2>4. CachedWhole'
    BY <2>2, <2>3 DEF TunnelInv, CachedWhole
  <2>5. ASSUME ~ overrun
        PROVE  NoneMixed' /\ AnsweredOnce' /\ \A k \in down' : OneResponse(k)'
    <3>1. NoneMixed /\ AnsweredOnce /\ \A k \in down : OneResponse(k)
      BY <2>5 DEF TunnelInv
    <3>2. v.ans # "mixed"
      BY <2>3, <3>1, AssembledWhole
    <3>3. NoneMixed'
      BY <2>2, <3>1, <3>2 DEF NoneMixed, TunnelInv, CachedWhole
    <3>4. AnsweredOnce'
      BY <1>1, <2>2, <3>1 DEF AnsweredOnce, Held
    <3>5. \A k \in down' : OneResponse(k)'
      BY <1>1, <2>2, <3>1 DEF OneResponse
    <3> QED BY <3>3, <3>4, <3>5
  <2> QED BY <1>1, <2>4, <2>5 DEF TunnelInv
<1>5. CASE ResponseRepeated(m) \/ LoseResponse(m)
  <2>1. UNCHANGED <<localCache, rItems>>
    BY <1>5 DEF ResponseRepeated, LoseResponse,
                ResponseStore!CollectCompleted, ResponseStore!fragmentVars
  <2> QED BY <1>2, <2>1
<1> QED BY <1>3, <1>4, <1>5 DEF ClientReceives

\* A store forgets. If it is a query of which there is a response, that is an overrun.
LEMMA TunnelForgets ==
  ASSUME TunnelInv, NEW s, QueryPurged(s) \/ ResponsePurged(s)
  PROVE  TunnelInv'
<1>1. UNCHANGED <<localCache, taken, down>>
  BY DEF QueryPurged, ResponsePurged, responseVars
<1>2. CachedWhole' /\ (NoneMixed => NoneMixed')
  BY <1>1 DEF TunnelInv, CachedWhole, NoneMixed
<1>3. CASE QueryPurged(s)
  <2>1. /\ qDone' = qDone \ {s} /\ UNCHANGED rItems
        /\ overrun' = (overrun \/ Unanswered(s))
    BY <1>3 DEF QueryPurged, QueryStore!Purge, responseVars
  <2>2. ~ overrun' => /\ ~ overrun /\ s \notin Held /\ s \notin DOMAIN rItems
                      /\ \A m \in down : m.seq # s
    BY <2>1 DEF Unanswered, Held
  <2>3. ~ overrun' => AnsweredOnce'
    BY <1>1, <2>1, <2>2 DEF TunnelInv, AnsweredOnce, Held
  <2> QED BY <1>1, <1>2, <2>1, <2>2, <2>3, ResponsesAlone
<1>4. CASE ResponsePurged(s)
  <2>1. rItems' = [x \in DOMAIN rItems \ {s} |-> rItems[x]] /\ UNCHANGED <<qDone, overrun>>
    BY <1>4 DEF ResponsePurged, ResponseStore!Purge, ResponseStore!Without,
                ResponseStore!Restrict, queryVars
  <2>2. ASSUME ~ overrun PROVE AnsweredOnce' /\ \A k \in down' : OneResponse(k)'
    <3>1. AnsweredOnce /\ \A k \in down : OneResponse(k)
      BY <2>2 DEF TunnelInv
    <3> QED BY <1>1, <2>1, <3>1 DEF AnsweredOnce, OneResponse, Held
  <2> QED BY <1>2, <2>1, <2>2 DEF TunnelInv
<1> QED BY <1>3, <1>4

\* A new session begins with nothing of the old one.
LEMMA TunnelRestart ==
  ASSUME TunnelInv, Restart PROVE TunnelInv'
<1>1. /\ Local!ClearPending /\ rItems' = << >> /\ qDone' = {} /\ down' = {}
      /\ taken' = {} /\ UNCHANGED overrun
  BY DEF Restart, ResponseStore!RemoveAll, QueryStore!RemoveAll
<1>2. CachedWhole' /\ (NoneMixed => NoneMixed')
  BY <1>1, CacheSteps DEF TunnelInv
<1>3. AnsweredOnce' /\ \A m \in down' : OneResponse(m)'
  BY <1>1 DEF AnsweredOnce, Held
<1> QED BY <1>1, <1>2, <1>3 DEF TunnelInv

\* Nothing is on its way at the beginning.
LEMMA TunnelBegins == ASSUME TunnelInit PROVE TunnelInv
<1>1. /\ localCache = [n \in Names |-> Local!NoEntry]
      /\ taken = {} /\ down = {} /\ rItems = << >>
  BY DEF TunnelInit, Local!CacheInit
<1>2. CachedWhole /\ NoneMixed
  BY <1>1, DnsAssumption DEF CachedWhole, NoneMixed, Local!NoEntry
<1>3. AnsweredOnce
  BY <1>1 DEF AnsweredOnce, Held
<1> QED BY <1>1, <1>2, <1>3 DEF TunnelInv

\* Every step preserves the invariant.
LEMMA TunnelStep ==
  ASSUME TunnelInv, [TunnelNext]_tunnelVars PROVE TunnelInv'
<1>1. CASE UNCHANGED tunnelVars
  BY <1>1 DEF tunnelVars, queryVars, responseVars, TunnelInv, CachedWhole,
              NoneMixed, AnsweredOnce, Held, OneResponse
<1>2. CASE TunnelNext
  BY <1>2, TunnelAsks, TunnelQuery, TunnelRespond, TunnelReceive, TunnelForgets,
     TunnelRestart
     DEF TunnelNext
<1> QED BY <1>1, <1>2

\* Whatever is lost, repeated, reordered, purged or dropped by a full queue, Collect
\* never puts together pieces of two responses to a query, unless the server forgot
\* the query before its answer was assembled.
THEOREM ResponsesWhole == TunnelSpec => []WholeUnlessOverrun
<1>1. TunnelInit => TunnelInv
  BY TunnelBegins
<1>2. TunnelInv /\ [TunnelNext]_tunnelVars => TunnelInv'
  BY TunnelStep
<1>3. TunnelInv => WholeUnlessOverrun
  BY DEF TunnelInv, NoneMixed, WholeUnlessOverrun
<1> QED BY <1>1, <1>2, <1>3, PTL DEF TunnelSpec
=============================================================================
