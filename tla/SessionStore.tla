----------------------------- MODULE SessionStore -----------------------------
(***************************************************************************)
(* The session table of the tunnel server (internal/udpserver/session.go)  *)
(* and the goroutines that work on it: the packet workers, which create    *)
(* sessions, validate packets and close sessions, and sessionCleanupLoop,  *)
(* which times sessions out and takes away the deferred work of idle ones. *)
(*                                                                         *)
(* An action is one critical section of sessionStore.mu, or what happens   *)
(* outside of it between two of them.  A record is known by its place in   *)
(* rec, the pointer of the code; session numbers (byID) are used again.    *)
(* Time is what it does to a record: age says how long ago the record was  *)
(* last used, reuse whether its reuse period is still running.             *)
(***************************************************************************)
EXTENDS Integers, Sequences, FiniteSets, FiniteSetsExt, Functions

CONSTANTS
  MaxId,        \* maxServerSessionID (255 in the code)
  MaxActive,    \* maxActiveSessions
  Signatures,   \* session-init payloads
  Cookies,      \* session cookies: random bytes, which may repeat
  Workers,      \* goroutines that handle packets
  MaxRecords,   \* bound: sessions ever created
  MaxWork       \* bound: pieces of deferred work waiting at a time

ASSUME StoreAssumption ==
  /\ MaxId \in Nat \ {0} /\ MaxActive \in 1 .. MaxId /\ MaxRecords \in Nat
  /\ MaxWork \in Nat
  /\ Cookies # {}

Ids == 1 .. MaxId

VARIABLES
  rec,           \* the session records created so far
  byID,          \* session number -> its record, 0 for none
  bySig,         \* signature -> the session number it is kept for
  recentClosed,  \* numbers of sessions that ended not long ago
  nextID,        \* where the search for a free number starts
  activeCount,   \* s.activeCount
  job,           \* worker -> what it is doing
  sweep,         \* sessionCleanupLoop: its step and the lists it has made
  work           \* what is kept for a session outside of the table

storeVars == <<rec, byID, bySig, recentClosed, nextID, activeCount>>
serverVars == <<storeVars, job, sweep, work>>

Records == DOMAIN rec
Open(r) == r \in Records /\ ~ rec[r].closed

\* What the workers and the cleanup loop may be doing.
Idle == [op |-> "idle", r |-> 0]
Sleep == [pc |-> "sleep", expired |-> {}, idle |-> {}]

Init ==
  /\ rec = << >> /\ byID = [i \in Ids |-> 0] /\ bySig = << >>
  /\ recentClosed = {} /\ nextID = 1 /\ activeCount = 0
  /\ job = [w \in Workers |-> Idle] /\ sweep = Sleep /\ work = {}

\* setLastActivity.  woken (history): the session was used again after the
\* cleanup loop had picked it as idle.
Touch(r) ==
  IF rec[r].closed THEN rec
  ELSE [rec EXCEPT ![r].age = "active", ![r].swept = FALSE,
                   ![r].woken = r \in sweep.idle]

-----------------------------------------------------------------------------
(* findOrCreate: SESSION_INIT, under the lock from beginning to end.         *)

\* Mutant of expireReuse: the signature of a session that is quiet goes.
expireReuseQuiet ==
  Restrict(bySig, {s \in DOMAIN bySig :
                     /\ byID[bySig[s]] # 0 /\ rec[byID[bySig[s]]].reuse
                     /\ rec[byID[bySig[s]]].age = "active"})

\* expireReuseLocked: the signatures that stay.
expireReuse ==
  Restrict(bySig, {s \in DOMAIN bySig :
                     byID[bySig[s]] # 0 /\ rec[byID[bySig[s]]].reuse})

Free == {i \in Ids : byID[i] = 0}

\* Mutant of allocateSlot: the next number, free or not.
allocateSlotNext == nextID

allocateSlot ==
  LET ahead == {i \in Free : i >= nextID}
  IN  IF ahead # {} THEN Min(ahead) ELSE Min(Free)

nextSessionID(id) == IF id >= MaxId THEN 1 ELSE id + 1

CanAllocate == activeCount < MaxActive /\ Free # {}

\* again (history): an older session of the same payload is still open.
NewRecord(s, c) ==
  [id |-> allocateSlot, sig |-> s, cookie |-> c, age |-> "active",
   reuse |-> TRUE, swept |-> FALSE, closed |-> FALSE,
   again |-> \E r \in Records : Open(r) /\ rec[r].sig = s, woken |-> FALSE]

FindExisting(s) ==
  /\ s \in DOMAIN expireReuse
  /\ bySig' = expireReuse
  /\ rec' = Touch(byID[bySig[s]])
  /\ UNCHANGED <<byID, recentClosed, nextID, activeCount, job, sweep, work>>

Create(s, c) ==
  /\ s \notin DOMAIN expireReuse /\ CanAllocate
  /\ Len(rec) < MaxRecords
  /\ LET slot == allocateSlot IN
       /\ rec' = Append(rec, NewRecord(s, c))
       /\ byID' = [byID EXCEPT ![slot] = Len(rec) + 1]
       /\ bySig' = [x \in DOMAIN expireReuse \cup {s} |-> IF x = s THEN slot ELSE expireReuse[x]]
       /\ recentClosed' = recentClosed \ {slot}
       /\ nextID' = nextSessionID(slot)
       /\ activeCount' = activeCount + 1
  /\ UNCHANGED <<job, sweep, work>>

\* ErrSessionTableFull: the client is told SESSION_BUSY.
Refuse(s) ==
  /\ s \notin DOMAIN expireReuse /\ ~ CanAllocate
  /\ bySig' = expireReuse
  /\ UNCHANGED <<rec, byID, recentClosed, nextID, activeCount, job, sweep, work>>

-----------------------------------------------------------------------------
(* A packet of the session r, as its client knows it by number and cookie.   *)

\* The record that a packet of r is taken to belong to, 0 for none.
Match(r) ==
  LET cur == byID[rec[r].id]
  IN  IF cur # 0 /\ rec[cur].cookie = rec[r].cookie THEN cur ELSE 0

\* ValidateAndTouch up to the release of the lock.  A packet that fits no session
\* changes nothing here: it is answered with ERROR_DROP (see SessionLife).
Validate(w, r) ==
  /\ job[w] = Idle /\ Match(r) # 0
  /\ job' = [job EXCEPT ![w] = [op |-> "touch", r |-> Match(r)]]
  /\ UNCHANGED <<storeVars, sweep, work>>

\* The rest of ValidateAndTouch, outside of the lock.
TouchValidated(w) ==
  /\ job[w].op = "touch"
  /\ rec' = Touch(job[w].r)
  /\ job' = [job EXCEPT ![w].op = "handle"]
  /\ UNCHANGED <<byID, bySig, recentClosed, nextID, activeCount, sweep, work>>

\* handlePostSessionPacket: a DNS query or its fragments are left for the deferred
\* workers under the session number, whichever session has it now, if any; other
\* packets go to the streams of that session.
Handle(w) ==
  /\ job[w].op = "handle"
  /\ job' = [job EXCEPT ![w] = Idle]
  /\ LET id == rec[job[w].r].id
     IN  \/ Cardinality(work) < MaxWork /\ work' = work \cup {[id |-> id, r |-> byID[id]]}
         \/ UNCHANGED work
  /\ UNCHANGED <<storeVars, sweep>>

\* The work of a session is done, or the session is no longer there.
Execute(x) ==
  /\ x \in work
  /\ work' = work \ {x}
  /\ UNCHANGED <<storeVars, job, sweep>>

-----------------------------------------------------------------------------
(* The end of a session.                                                     *)

\* The records when those of gone have ended; their age matters no more.
Ended(gone) ==
  [r \in Records |->
     IF r \in gone
     THEN [rec[r] EXCEPT !.closed = TRUE, !.age = "active", !.swept = FALSE,
                         !.woken = FALSE]
     ELSE rec[r]]

\* Mutant of Remove: the count is not taken down.
RemoveUncounted(gone, sigs, kept) ==
  /\ rec' = Ended(gone)
  /\ byID' = [i \in Ids |-> IF byID[i] \in gone THEN 0 ELSE byID[i]]
  /\ bySig' = Restrict(sigs, {s \in DOMAIN sigs : \A r \in gone : rec[r].sig # s})
  /\ recentClosed' = kept \cup {rec[r].id : r \in gone}
  /\ UNCHANGED <<nextID, activeCount>>

\* What Close and Cleanup do to the table, from the signatures sigs and the
\* closed sessions kept.  The signature of a session goes with it, whichever of
\* the sessions of that signature it stood for.
Remove(gone, sigs, kept) ==
  /\ rec' = Ended(gone)
  /\ byID' = [i \in Ids |-> IF byID[i] \in gone THEN 0 ELSE byID[i]]
  /\ bySig' = Restrict(sigs, {s \in DOMAIN sigs : \A r \in gone : rec[r].sig # s})
  /\ activeCount' = activeCount - Cardinality(gone)
  /\ recentClosed' = kept \cup {rec[r].id : r \in gone}
  /\ UNCHANGED nextID

\* handleSessionCloseNotice: Lookup.
LookupClose(w, r) ==
  /\ job[w] = Idle /\ Match(r) # 0
  /\ job' = [job EXCEPT ![w] = [op |-> "close", r |-> Match(r)]]
  /\ UNCHANGED <<storeVars, sweep, work>>

\* Close, of whatever session has the number now.
Close(w) ==
  /\ job[w].op = "close"
  /\ LET cur == byID[rec[job[w].r].id] IN
       IF cur = 0
       THEN /\ job' = [job EXCEPT ![w] = Idle]
            /\ UNCHANGED storeVars
       ELSE /\ Remove({cur}, bySig, recentClosed)
            /\ job' = [job EXCEPT ![w] = [op |-> "cleanup", r |-> cur]]
  /\ UNCHANGED <<sweep, work>>

\* cleanupClosedSession and cleanupIdleDeferredSession go by the number alone.
WorkWithout(id) == {x \in work : x.id # id}

CleanupClosed(w) ==
  /\ job[w].op = "cleanup"
  /\ work' = WorkWithout(rec[job[w].r].id)
  /\ job' = [job EXCEPT ![w] = Idle]
  /\ UNCHANGED <<storeVars, sweep>>

-----------------------------------------------------------------------------
(* sessionCleanupLoop.                                                       *)

\* Cleanup: signatures and closed sessions kept long enough are forgotten, and
\* sessions not used for the session timeout are closed.
Cleanup ==
  /\ sweep.pc = "sleep"
  /\ \E kept \in SUBSET recentClosed :
       LET gone == {r \in Records : Open(r) /\ rec[r].age = "expired"}
       IN  /\ Remove(gone, expireReuse, kept)
           /\ sweep' = [pc |-> "collect", expired |-> gone, idle |-> {}]
  /\ UNCHANGED <<job, work>>

\* Mutant of CollectIdle: how long a session has been idle is not looked at.
CollectIdleAll ==
  /\ sweep.pc = "collect"
  /\ LET quiet == {r \in Records : Open(r) /\ ~ rec[r].swept}
     IN  /\ rec' = [r \in Records |-> IF r \in quiet
                                      THEN [rec[r] EXCEPT !.swept = TRUE] ELSE rec[r]]
         /\ sweep' = [sweep EXCEPT !.pc = "clean", !.idle = quiet]
  /\ UNCHANGED <<byID, bySig, recentClosed, nextID, activeCount, job, work>>

\* CollectIdleDeferredSessions: sessions that have not been used for a while,
\* each of them once until it is used again.
CollectIdle ==
  /\ sweep.pc = "collect"
  /\ LET quiet == {r \in Records : Open(r) /\ rec[r].age # "active" /\ ~ rec[r].swept}
     IN  /\ rec' = [r \in Records |-> IF r \in quiet
                                      THEN [rec[r] EXCEPT !.swept = TRUE] ELSE rec[r]]
         /\ sweep' = [sweep EXCEPT !.pc = "clean", !.idle = quiet]
  /\ UNCHANGED <<byID, bySig, recentClosed, nextID, activeCount, job, work>>

\* The idle ones first, then the closed ones; their order does not matter.
CleanIdle(r) ==
  /\ sweep.pc = "clean" /\ r \in sweep.idle
  /\ work' = WorkWithout(rec[r].id)
  /\ sweep' = [sweep EXCEPT !.idle = @ \ {r}]
  /\ UNCHANGED <<storeVars, job>>

CleanExpired(r) ==
  /\ sweep.pc = "clean" /\ sweep.idle = {} /\ r \in sweep.expired
  /\ work' = WorkWithout(rec[r].id)
  /\ sweep' = [sweep EXCEPT !.expired = @ \ {r}]
  /\ UNCHANGED <<storeVars, job>>

SweepDone ==
  /\ sweep.pc = "clean" /\ sweep.idle = {} /\ sweep.expired = {}
  /\ sweep' = Sleep
  /\ rec' = [r \in Records |-> [rec[r] EXCEPT !.woken = FALSE]]
  /\ UNCHANGED <<byID, bySig, recentClosed, nextID, activeCount, job, work>>

SweepStep ==
  \/ Cleanup \/ CollectIdle \/ SweepDone
  \/ \E r \in Records : CleanIdle(r) \/ CleanExpired(r)

-----------------------------------------------------------------------------
(* Time.                                                                     *)

\* A session that is not used grows quiet (deferredIdleCleanupTimeout), and
\* then has not been used for the session timeout.
Age(r) ==
  /\ Open(r) /\ rec[r].age # "expired"
  /\ rec' = [rec EXCEPT ![r].age = IF @ = "active" THEN "quiet" ELSE "expired"]
  /\ UNCHANGED <<byID, bySig, recentClosed, nextID, activeCount, job, sweep, work>>

\* The reuse period, of the same length for all, runs out.
ReuseEnds(r) ==
  /\ rec[r].reuse
  /\ \A q \in 1 .. r - 1 : ~ rec[q].reuse
  /\ rec' = [rec EXCEPT ![r].reuse = FALSE]
  /\ UNCHANGED <<byID, bySig, recentClosed, nextID, activeCount, job, sweep, work>>

\* A worker goes on with the packet it has.
WorkerStep(w) == TouchValidated(w) \/ Handle(w) \/ Close(w) \/ CleanupClosed(w)

\* Packets of any session ever created may arrive, at any time and repeatedly:
\* the tunnel runs over UDP and through resolvers that repeat queries.
Next ==
  \/ \E s \in Signatures : FindExisting(s) \/ Refuse(s) \/ \E c \in Cookies : Create(s, c)
  \/ \E w \in Workers, r \in Records : Validate(w, r) \/ LookupClose(w, r)
  \/ \E w \in Workers : WorkerStep(w)
  \/ \E x \in work : Execute(x)
  \/ SweepStep
  \/ \E r \in Records : Age(r) \/ ReuseEnds(r)

Spec == Init /\ [][Next]_serverVars

-----------------------------------------------------------------------------
(* Properties.                                                               *)

SessionRecord ==
  [id : Ids, sig : Signatures, cookie : Cookies, age : {"active", "quiet", "expired"},
   reuse : BOOLEAN, swept : BOOLEAN, closed : BOOLEAN, again : BOOLEAN, woken : BOOLEAN]

\* Types: records, tables and the states of the goroutines are what they should
\* be (sessionRecord, sessionStore).
TypeOK ==
  /\ rec \in Seq(SessionRecord)
  /\ byID \in [Ids -> 0 .. Len(rec)]
  /\ DOMAIN bySig \subseteq Signatures /\ \A s \in DOMAIN bySig : bySig[s] \in Ids
  /\ recentClosed \subseteq Ids /\ nextID \in Ids /\ activeCount \in 0 .. MaxActive
  /\ job \in [Workers -> [op : {"idle", "touch", "handle", "close", "cleanup"},
                          r : 0 .. Len(rec)]]
  /\ sweep \in [pc : {"sleep", "collect", "clean"}, expired : SUBSET Records,
                idle : SUBSET Records]
  /\ work \subseteq [id : Ids, r : 0 .. Len(rec)]

\* The tables of the store agree whatever order the packets, the close notices
\* and the cleanup loop come in: every open session has its own number and every
\* number an open session, activeCount counts them (a count that drifts turns
\* clients away for good), a signature leads to an open session of that very
\* signature, and no open session counts as recently closed.
StoreConsistent ==
  /\ \A i \in Ids : byID[i] # 0 => Open(byID[i]) /\ rec[byID[i]].id = i
  /\ \A r \in Records : Open(r) => byID[rec[r].id] = r
  /\ activeCount = Cardinality({r \in Records : Open(r)})
  /\ \A s \in DOMAIN bySig : byID[bySig[s]] # 0 /\ rec[byID[bySig[s]]].sig = s
  /\ \A i \in recentClosed : byID[i] = 0

\* The store implements the session table that its clients can rely on: the slot
\* that allocateSlotLocked finds with its own counter and search is free, and no
\* more sessions are open than are allowed.
Table == INSTANCE SessionTable WITH
           log <- [r \in Records |-> [id |-> rec[r].id, sig |-> rec[r].sig,
                                      cookie |-> rec[r].cookie]],
           live <- {r \in Records : Open(r)}
ImplementsTable == Table!TableSpec

\* Repetitions of a SESSION_INIT do not open a second session while the first one
\* is open and may be reused, unless the first one was itself opened beside an
\* older session of the payload, whose end took the signature away (session.go,
\* delete(s.bySig, record.Signature)).
OneOpenPerInit ==
  \A a, b \in Records :
    a < b /\ Open(a) /\ Open(b) /\ rec[a].sig = rec[b].sig /\ rec[a].reuse => rec[a].again

\* Deferred work of a session in use is not taken away, except in two races: the
\* session was used again after the cleanup loop had picked it as idle, or the
\* number it had was cleaned on behalf of an earlier session (both clean by number).
WorkKeptUnlessRaced ==
  [][\A x \in work \ work' :
       \/ Execute(x)
       \/ ~ Open(x.r) \/ rec[x.r].age # "active" \/ rec[x.r].woken
       \/ \E w \in Workers : CleanupClosed(w) /\ job[w].r # x.r
       \/ \E r \in Records : (CleanIdle(r) \/ CleanExpired(r)) /\ r # x.r]_serverVars

=============================================================================
