------------------------------ MODULE DnsServer ------------------------------
(***************************************************************************)
(* The server's side of DNS through the tunnel: the deferred workers that  *)
(* answer queries (processDeferredDNSQuery and                             *)
(* buildDNSQueryResponsePayload) with the cache, with the lookup of        *)
(* another worker (Inflight) or with a lookup of their own.                *)
(***************************************************************************)
EXTENDS Naturals, FiniteSets, DnsNames

CONSTANT
  Queries    \* queries of clients; one that is done stands for a new one later

ASSUME DnsServerAssumption ==
  "fail" \notin Answers /\ None \notin Names \cup Answers \cup Queries

VARIABLES
  cache,                          \* s.dnsCache
  entry, old, result, panicked,   \* s.dnsResolveInflight
  job,     \* query -> what its worker is doing
  given,   \* history: the answers of upstream resolvers
  reply    \* history: the last response, and the query it was sent for

Cache == INSTANCE DnsCache
Lookups == INSTANCE Inflight

inflightVars == <<entry, old, result, panicked>>
vars == <<cache, inflightVars, job, given, reply>>

\* on is the entry the worker leads or waits for, ans what it has found out.
NoJob == [pc |-> "none", name |-> None, on |-> None, ans |-> None]

Init ==
  /\ Cache!CacheInit /\ Lookups!InflightInit
  /\ job = [q \in Queries |-> NoJob]
  /\ given = [n \in Names |-> {}] /\ reply = None

\* A query has been assembled and put into a queue (see DnsTunnel).  As q also names
\* the entry its worker makes, it is used anew when nobody waits for that entry.
Enqueue(q, n) ==
  /\ job[q].pc = "none" /\ \A x \in Queries : job[x].on # q
  /\ job' = [job EXCEPT ![q] = [NoJob EXCEPT !.pc = "queued", !.name = n]]
  /\ UNCHANGED <<cache, inflightVars, given, reply>>

\* The session has ended: nothing is done, or what was found out goes nowhere.
SessionGone(q) ==
  /\ job[q].pc = "queued"
  /\ job' = [job EXCEPT ![q] = NoJob]
  /\ UNCHANGED <<cache, inflightVars, given, reply>>

-----------------------------------------------------------------------------
(* buildDNSQueryResponsePayload.                                             *)

\* Mutant of Finish: the worker takes the query up again.
FinishAgain(q, a) ==
  /\ job' = [job EXCEPT ![q].pc = "queued"]
  /\ reply' = <<q, a>>
  /\ Lookups!Release({job[x].on : x \in Queries \ {q}} \cup {entry[n] : n \in Names})
  /\ UNCHANGED given

\* The worker is done; entries that nobody refers to any more are forgotten.
Finish(q, a) ==
  /\ job' = [job EXCEPT ![q] = NoJob]
  /\ reply' = <<q, a>>
  /\ Lookups!Release({job[x].on : x \in Queries \ {q}} \cup {entry[n] : n \in Names})
  /\ UNCHANGED given

ExecuteHit(q) ==
  /\ job[q].pc = "queued" /\ Cache!Usable(job[q].name)
  /\ Finish(q, cache[job[q].name].ans)
  /\ UNCHANGED cache

ExecuteMiss(q) ==
  /\ job[q].pc = "queued"
  /\ Cache!GetReadyMisses(job[q].name)
  /\ job' = [job EXCEPT ![q].pc = "acquire"]
  /\ UNCHANGED <<inflightVars, given, reply>>

Lead(q) ==
  /\ job[q].pc = "acquire"
  /\ Lookups!AcquireLead(job[q].name, q)
  /\ job' = [job EXCEPT ![q].pc = "lookup", ![q].on = q]
  /\ UNCHANGED <<cache, given, reply>>

Follow(q) ==
  /\ job[q].pc = "acquire" /\ Lookups!Follows(job[q].name)
  /\ job' = [job EXCEPT ![q].pc = "wait", ![q].on = entry[job[q].name]]
  /\ UNCHANGED <<cache, inflightVars, given, reply>>

\* resolveDNSUpstream: a resolver has answered, or none has in time.
LookupEnds(q, a) ==
  /\ job[q].pc = "lookup"
  /\ Lookups!Resolve(job[q].name, q, a)
  /\ job' = [job EXCEPT ![q].pc = "store", ![q].ans = a]
  /\ given' = IF a = "fail" THEN given ELSE [given EXCEPT ![job[q].name] = @ \cup {a}]
  /\ UNCHANGED <<cache, reply>>

Store(q) ==
  /\ job[q].pc = "store"
  /\ IF job[q].ans = "fail" THEN UNCHANGED cache ELSE Cache!SetReady(job[q].name, job[q].ans)
  /\ Finish(q, job[q].ans)

FollowerGets(q) ==
  /\ job[q].pc = "wait"
  /\ job[q].on \in DOMAIN result /\ result[job[q].on].val # "fail"
  /\ Finish(q, result[job[q].on].val)
  /\ UNCHANGED cache

\* The wait is over without an answer, because it took too long or because the
\* lookup failed: the cache is tried once more, with the time at which the query was
\* begun, so that an answer that has grown old since may still do.
FollowerHit(q) ==
  /\ job[q].pc = "wait" /\ cache[job[q].name].st = "ready"
  /\ Finish(q, cache[job[q].name].ans)
  /\ UNCHANGED cache

\* Mutant of FollowerFails: the wait has no time limit.
FollowerFailsWhenTold(q) ==
  /\ job[q].pc = "wait" /\ job[q].on \in DOMAIN result
  /\ Cache!GetReadyMisses(job[q].name)
  /\ Finish(q, "fail")

FollowerFails(q) ==
  /\ job[q].pc = "wait"
  /\ Cache!GetReadyMisses(job[q].name)
  /\ Finish(q, "fail")

Worker(q) ==
  \/ ExecuteHit(q) \/ ExecuteMiss(q) \/ Lead(q) \/ Follow(q)
  \/ \E a \in Answers \cup {"fail"} : LookupEnds(q, a)
  \/ Store(q) \/ FollowerGets(q) \/ FollowerHit(q) \/ FollowerFails(q)

-----------------------------------------------------------------------------

LookupAges(n) == Lookups!EntryAges(n) /\ UNCHANGED <<cache, job, given, reply>>

CacheChanges(n) == (Cache!Ages(n) \/ Cache!Evict(n)) /\ UNCHANGED <<inflightVars, job, given, reply>>

Next ==
  \/ \E q \in Queries : Worker(q) \/ SessionGone(q) \/ \E n \in Names : Enqueue(q, n)
  \/ \E n \in Names : LookupAges(n) \/ CacheChanges(n)

Spec == Init /\ [][Next]_vars

\* Workers go on: an upstream lookup and a wait both have a deadline.
FairSpec == Spec /\ \A q \in Queries : WF_vars(Worker(q))

-----------------------------------------------------------------------------
(* Properties.                                                               *)

\* An entry that others may wait for has a leader that is still looking the name
\* up: nobody is made to wait for an answer that cannot come. And the channel of an
\* entry is closed once, whichever lookups end in its place: to close it again would
\* bring the server down (Manager.Resolve).
EntryHasLeader ==
  /\ \A n \in Names :
       entry[n] # None => job[entry[n]].pc = "lookup" /\ job[entry[n]].name = n
  /\ ~ panicked

\* Who waits for a lookup gets the result of that lookup, or of an earlier one that
\* had outlived the time limit: it resolves by name, and so takes the entry of its
\* successor (manager.go, Resolve), which then does the same to the next one.
OwnAnswerUnlessLate == \A e \in DOMAIN result : result[e].own \/ result[e].late

\* A name is looked up once at a time ("only one upstream lookup is performed and
\* the rest wait as followers"), unless a lookup has outlived the time limit or
\* lost its entry to one that has.
OneLookupUnlessLate ==
  \A p, q \in Queries :
    /\ p # q /\ job[p].pc = "lookup" /\ job[q].pc = "lookup" /\ job[p].name = job[q].name
    => Lookups!Late(p) \/ Lookups!Late(q)

\* Each query is answered once, with what a resolver said for its own name.
Service == INSTANCE QueryService WITH asked <- [q \in Queries |-> job[q].name]
ImplementsService == Service!ServiceSpec

\* Every query that was taken is done in the end: nobody waits for ever for a
\* lookup whose entry was taken away by another one.
QueriesEnd == \A q \in Queries : job[q].pc # "none" ~> job[q].pc = "none"
=============================================================================
