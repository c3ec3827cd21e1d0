------------------------------ MODULE DnsTunnel ------------------------------
(***************************************************************************)
(* DNS through the tunnel, from the application that asks the client       *)
(* (client/dns_listener.go) to the server (handleDNSQueryRequest) and      *)
(* back.  The client's cache keeps the names it waits for; a query travels *)
(* in fragments that are sent again until they are acknowledged or given   *)
(* up; the server assembles it, leaves it to a deferred worker and sends   *)
(* the response in fragments, each of them once.  The worker is that of    *)
(* DnsServer, here only what QueryService says of it.                      *)
(*                                                                         *)
(* A sequence number is used again when nothing is left of its last use;   *)
(* the code has 65536 of them.  faults counts what goes wrong: packets     *)
(* lost for good, queries dropped by a full queue or forgotten too early,  *)
(* responses that cannot be sent, entries pushed out of the cache,         *)
(* restarts of the session.                                                *)
(***************************************************************************)
EXTENDS Naturals, FiniteSets, Functions, DnsNames

CONSTANTS
  Seqs,            \* sequence numbers of queries
  QueryFragments,  \* fragments of a query
  MaxFaults        \* bound: faults

ASSUME DnsAssumption ==
  /\ Seqs \subseteq Nat /\ QueryFragments \in Nat \ {0} /\ MaxFaults \in Nat
  /\ None \notin Answers \cup {"fail", "mixed"} /\ Answers \cap {"fail", "mixed"} = {}

VARIABLES
  localCache,      \* c.localDNSCache
  up,              \* query fragments that the client's ARQ still sends
  qItems, qDone,   \* s.dnsFragments
  taken,           \* the query fragments whose work a deferred worker has in hand
  down,            \* response fragments on their way
  rItems, rDone,   \* c.dnsResponses
  ran,             \* history: the queries the server has assembled
  overrun,         \* history: a query was forgotten before its answer was assembled
  faults

queryVars == <<up, qItems, qDone, ran, overrun>>
responseVars == <<down, rItems, rDone>>
tunnelVars == <<localCache, queryVars, taken, responseVars, faults>>

Local == INSTANCE DnsCache WITH cache <- localCache
QueryStore == INSTANCE FragmentStore WITH items <- qItems, completed <- qDone
ResponseStore == INSTANCE FragmentStore WITH items <- rItems, completed <- rDone

TunnelInit ==
  /\ Local!CacheInit /\ taken = {} /\ faults = 0
  /\ up = {} /\ qItems = << >> /\ qDone = {} /\ ran = {} /\ overrun = FALSE
  /\ down = {} /\ rItems = << >> /\ rDone = {}

\* A step that costs a fault, unless it is a harmless one.
FaultUnless(harmless) ==
  IF harmless THEN UNCHANGED faults
  ELSE faults < MaxFaults /\ faults' = faults + 1

-----------------------------------------------------------------------------
(* The client asks.                                                          *)

InUse ==
  {m.seq : m \in up \cup down \cup taken} \cup DOMAIN qItems \cup qDone
  \cup DOMAIN rItems \cup rDone

\* ProcessDNSQuery and dispatchDNSQueryToTunnel.  A usable answer is given to the
\* application, and one that is pending is waited for: nothing changes then.
Ask(n) ==
  /\ Local!Dispatches(n)
  /\ Seqs \ InUse # {}
  /\ LET s == CHOOSE x \in Seqs \ InUse : \A y \in Seqs \ InUse : x <= y
     IN  /\ up' = up \cup {[seq |-> s, frag |-> f, name |-> n] : f \in 1 .. QueryFragments}
         /\ ran' = ran \ {s}
  /\ UNCHANGED <<qItems, qDone, overrun, taken, responseVars, faults>>

\* The server has had the query, or its other fragments are no longer sent.
Needless(m) ==
  m.seq \in ran \/ \E f \in 1 .. QueryFragments : [m EXCEPT !.frag = f] \notin up

\* A fragment is not sent again after its time to live.  The query may be lost if it
\* has not been assembled until then.
GiveUp(m) ==
  /\ m \in up /\ up' = up \ {m}
  /\ FaultUnless(Needless(m))
  /\ UNCHANGED <<localCache, qItems, qDone, ran, overrun, taken, responseVars>>

-----------------------------------------------------------------------------
(* The server: handleDNSQueryRequest and processDeferredDNSQuery.            *)

\* A fragment of a query that counts as completed changes nothing, and is not
\* acknowledged; nor is one that does not complete its query.
QueryPart(m) ==
  /\ m \in up
  /\ QueryStore!CollectNotReady(m.seq, m.name, m.frag, QueryFragments)
  /\ UNCHANGED <<localCache, up, ran, overrun, taken, responseVars, faults>>

\* The fragment that completes the query is acknowledged once, which may be lost.
\* It is what the work is tracked under (deferredTrackedPacketKey): the query is not
\* given to a worker again while the work for the same fragment is in hand.
QueryComplete(m) ==
  /\ m \in up
  /\ QueryStore!CollectReady(m.seq, m.name, m.frag, QueryFragments)
  /\ taken' = taken \cup {m}
  /\ up' \in {up, up \ {m}}
  /\ ran' = ran \cup {m.seq}
  /\ UNCHANGED <<localCache, overrun, responseVars, faults>>

\* The deferred queue is full: no work and no acknowledgement, and the query counts
\* as completed when it is sent again.
QueryDropped(m) ==
  /\ m \in up /\ m \notin taken
  /\ QueryStore!CollectReady(m.seq, m.name, m.frag, QueryFragments)
  /\ ran' = ran \cup {m.seq}
  /\ FaultUnless(FALSE)
  /\ UNCHANGED <<localCache, up, overrun, taken, responseVars>>

\* An answer takes two fragments, SERVFAIL one.
Fragments(m, a) ==
  LET total == IF a = "fail" THEN 1 ELSE 2
  IN  {[seq |-> m.seq, frag |-> f, total |-> total, name |-> m.name, ans |-> a] :
       f \in 1 .. total}

\* Nothing is sent when no response can be built, or it is too long for 255 fragments.
Respond(m, a) ==
  /\ m \in taken /\ taken' = taken \ {m}
  /\ \/ down' = down \cup Fragments(m, a) /\ UNCHANGED faults
     \/ UNCHANGED down /\ FaultUnless(FALSE)
  /\ UNCHANGED <<localCache, queryVars, rItems, rDone>>

-----------------------------------------------------------------------------
(* The client: HandleDNSQueryRes.                                            *)

\* A packet that has arrived may arrive again.
Arrives(m) == m \in down /\ down' \in {down, down \ {m}}

ResponseRepeated(m) ==
  /\ m \in down /\ down' = down \ {m}
  /\ ResponseStore!CollectCompleted(m.seq)
  /\ UNCHANGED <<localCache, queryVars, taken, faults>>

ResponsePart(m) ==
  /\ Arrives(m)
  /\ ResponseStore!CollectNotReady(m.seq, m.ans, m.frag, m.total)
  /\ UNCHANGED <<localCache, queryVars, taken, faults>>

\* What the chunks add up to.
Assembled(m) ==
  IF Range(ResponseStore!Chunks(m.seq, m.ans, m.frag, m.total)) = {m.ans}
  THEN m.ans ELSE "mixed"

\* Any response is kept as an answer, SERVFAIL too.
ResponseComplete(m) ==
  /\ Arrives(m)
  /\ ResponseStore!CollectReady(m.seq, m.ans, m.frag, m.total)
  /\ Local!SetReady(m.name, Assembled(m))
  /\ UNCHANGED <<queryVars, taken, faults>>

ClientReceives(m) == ResponseRepeated(m) \/ ResponsePart(m) \/ ResponseComplete(m)

-----------------------------------------------------------------------------
(* Time and faults.                                                          *)

\* The answer to s is being made or sent, or has arrived in part.
Unanswered(s) == s \in DOMAIN rItems \/ \E m \in taken \cup down : m.seq = s

\* The server's store forgets (DNS_FRAGMENT_ASSEMBLY_TIMEOUT).  The client may be
\* sending the query for longer (ARQ_CONTROL_PACKET_TTL_SECONDS), and nothing makes the
\* server remember a query for as long as the client keeps pieces of its response
\* (DNS_RESPONSE_FRAGMENT_TIMEOUT), although it does at the defaults.
QueryPurged(s) ==
  /\ QueryStore!Purge(s)
  /\ FaultUnless(~ Unanswered(s) /\ (s \in ran \/ \A m \in up : m.seq # s))
  /\ overrun' = (overrun \/ Unanswered(s))
  /\ UNCHANGED <<localCache, up, ran, taken, responseVars>>

\* The client's store forgets (DNS_RESPONSE_FRAGMENT_TIMEOUT).
ResponsePurged(s) ==
  /\ ResponseStore!Purge(s)
  /\ FaultUnless(s \in rDone \/ \A m \in down : m.seq # s)
  /\ UNCHANGED <<localCache, queryVars, taken, down>>

PendingAges(n) ==
  /\ localCache[n].st = "pending" /\ Local!Ages(n)
  /\ UNCHANGED <<queryVars, taken, responseVars, faults>>

AnswerAges(n) ==
  /\ localCache[n].st = "ready" /\ Local!Ages(n)
  /\ UNCHANGED <<queryVars, taken, responseVars, faults>>

LoseResponse(m) ==
  /\ m \in down /\ down' = down \ {m} /\ FaultUnless(FALSE)
  /\ UNCHANGED <<localCache, queryVars, taken, rItems, rDone>>

PushedOut(n) ==
  /\ Local!Evict(n) /\ FaultUnless(FALSE)
  /\ UNCHANGED <<queryVars, taken, responseVars>>

\* The client starts a new session: what is pending is cleared, the server removes
\* what it has of the old session, and a worker that is not done sends nothing.
Restart ==
  /\ FaultUnless(FALSE)
  /\ Local!ClearPending /\ ResponseStore!RemoveAll /\ QueryStore!RemoveAll
  /\ up' = {} /\ down' = {} /\ ran' = {} /\ taken' = {}
  /\ UNCHANGED overrun

TunnelNext ==
  \/ \E n \in Names : Ask(n) \/ PendingAges(n) \/ AnswerAges(n) \/ PushedOut(n)
  \/ \E m \in up : GiveUp(m) \/ QueryPart(m) \/ QueryComplete(m) \/ QueryDropped(m)
  \/ \E m \in taken, a \in Answers \cup {"fail"} : Respond(m, a)
  \/ \E s \in Seqs : QueryPurged(s) \/ ResponsePurged(s)
  \/ \E m \in down : ClientReceives(m) \/ LoseResponse(m)
  \/ Restart

TunnelSpec == TunnelInit /\ [][TunnelNext]_tunnelVars

\* The application asks again and again, timers run out, what is sent again arrives
\* and workers answer (DnsServer).  Faults, which answer it is, answers growing old
\* and copies of packets come as they may.
Fairness ==
  /\ \A n \in Names : WF_tunnelVars(Ask(n)) /\ WF_tunnelVars(PendingAges(n))
  /\ WF_tunnelVars(\E m \in up : Needless(m) /\ GiveUp(m))
  /\ \A s \in Seqs :
       /\ WF_tunnelVars(\E m \in taken, a \in Answers \cup {"fail"} : m.seq = s /\ Respond(m, a))
       /\ WF_tunnelVars((QueryPurged(s) \/ ResponsePurged(s)) /\ UNCHANGED faults)
       /\ WF_tunnelVars(\E m \in up : m.seq = s /\ (QueryPart(m) \/ QueryComplete(m)))
       /\ WF_tunnelVars(\E m \in down : m.seq = s /\ ClientReceives(m) /\ m \notin down')

FairTunnelSpec == TunnelSpec /\ Fairness

-----------------------------------------------------------------------------
(* Properties.                                                               *)

\* A response put together from fragments is one that the server has sent: pieces of
\* two responses to a query are never mixed (fragmentstore, Collect), unless the
\* server forgot the query, which is still being sent, before its answer was there.
WholeUnlessOverrun ==
  \A n \in Names : localCache[n].ans = "mixed" => overrun

\* A name that the application keeps asking for is answered, whatever was lost on
\* the way, dropped by a full queue after it was taken as complete, or forgotten by
\* a restart: LookupOrCreatePending asks again after pendingTimeout.
Answered == \A n \in Names : []<>(localCache[n].st = "ready")

\* "How long successful DNS records stay in the local cache": a failure is not one.
OnlySuccessesKept == \A n \in Names : localCache[n].ans # "fail"
=============================================================================
