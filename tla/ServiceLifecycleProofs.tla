------------------------ MODULE ServiceLifecycleProofs ------------------------
(***************************************************************************)
(* Two invariants of ServiceLifecycle, for any number of profiles,         *)
(* requests, starts and faults:                                            *)
(*                                                                         *)
(*   CoresOwned   a core that runs is the one that the next stop closes,   *)
(*                unless its clean-up has failed before closing it;        *)
(*   StopsHold    nothing is started on behalf of a request to stop.       *)
(*                                                                         *)
(* The first needs that lifecycleMutex excludes (Exclusive) and what the   *)
(* clean-up of a stop leaves behind at each of its steps (Killed).  The    *)
(* second follows a number from the request through the intent, Data, and  *)
(* the restart that reads it back, to the start (Numbers).  The two share  *)
(* only the shape of the state (Types).                                    *)
(*                                                                         *)
(* Data is a record that the methods of Interface rewrite field by field.  *)
(* Most of them change nothing that either invariant depends on: they are  *)
(* Tame, and a lemma for each method says so.                              *)
(***************************************************************************)
EXTENDS ServiceLifecycle, FiniteSetTheorems, SequenceTheorems, TLAPS

\* Where a stop holds lifecycleMutex, and where a start does.
Held == {"kill", "settle", "timedOut"}
Inside == {"init", "warn", "launch", "launched", "connect", "late", "unwanted", "stopping"}

\* The fields of the records.  The proofs need to know that a field exists, not what
\* type it has.
DataFields ==
  {"state", "desired", "latest", "pending", "pendingAuto", "registered", "proxy",
   "connectingJob", "stops", "restarts"}
StopFields == {"pc", "restart", "auto", "join"}
RestartFields == {"pc", "auto", "profile", "latest"}
JobFields == {"pc", "profile", "req", "auto", "cancelled"}

\* The shape of Data.  The stops and the restarts are finite in number, so that there is
\* a number for another one.
DataOK(d) ==
  /\ DOMAIN d = DataFields
  /\ IsFiniteSet(DOMAIN d.stops)
  /\ \A i \in DOMAIN d.stops : DOMAIN d.stops[i] = StopFields
  /\ IsFiniteSet(DOMAIN d.restarts)
  /\ \A k \in DOMAIN d.restarts : DOMAIN d.restarts[k] = RestartFields

\* From d to e nobody enters the clean-up of a stop, and the core is the same.
Calm(d, e) ==
  /\ e.proxy = d.proxy
  /\ e.state = "Stopped" => d.state = "Stopped"
  /\ \A i \in DOMAIN e.stops :
       e.stops[i].pc \in Held => i \in DOMAIN d.stops /\ e.stops[i].pc = d.stops[i].pc

\* From d to e no request is accepted, no profile is wanted that was not, and no
\* restart reads what it is to send.
Idles(d, e) ==
  /\ e.latest = d.latest
  /\ e.desired = 0 \/ e.desired = d.desired
  /\ \A k \in DOMAIN e.restarts :
       e.restarts[k].pc = "read" => k \in DOMAIN d.restarts /\ e.restarts[k] = d.restarts[k]

Tame(d, e) == DataOK(e) /\ Calm(d, e) /\ Idles(d, e)

\* One call after the other.
LEMMA TameChain ==
  ASSUME NEW d, NEW e, NEW f, Tame(d, e), Tame(e, f)
  PROVE  Tame(d, f)
BY DEF Tame, Calm, Idles

\* The coroutines g are those of f and one more.
Launched(f, x, g) ==
  \E new : /\ new \notin DOMAIN f /\ DOMAIN g = DOMAIN f \cup {new}
           /\ g[new] = x /\ \A i \in DOMAIN f : g[i] = f[i]
           /\ IsFiniteSet(DOMAIN g)

\* A coroutine that is launched takes a number of its own.
LEMMA LaunchFacts ==
  ASSUME NEW f, NEW x, IsFiniteSet(DOMAIN f)
  PROVE  Launched(f, x, Launch(f, x))
<1> DEFINE n == Cardinality(DOMAIN f)
           new == CHOOSE i \in 1 .. n + 1 : i \notin DOMAIN f
<1>1. n \in Nat
  BY FS_CardinalityType
<1>2. \E i \in 1 .. n + 1 : i \notin DOMAIN f
  <2> SUFFICES ASSUME 1 .. n + 1 \subseteq DOMAIN f
               PROVE  FALSE
    OBVIOUS
  <2>1. Cardinality(1 .. n + 1) = n + 1
    <3>1. 1 \in Int /\ n + 1 \in Int /\ ~ (1 > n + 1) /\ n + 1 - 1 + 1 = n + 1
      BY <1>1
    <3> HIDE DEF n
    <3> QED BY <3>1, FS_Interval
  <2>2. Cardinality(1 .. n + 1) <= n
    BY FS_Subset
  <2> QED BY <1>1, <2>1, <2>2
<1>3. new \notin DOMAIN f
  BY <1>2
<1>4. PICK g : g = Launch(f, x)
  OBVIOUS
<1>5. g = [i \in DOMAIN f \cup {new} |-> IF i = new THEN x ELSE f[i]]
  BY <1>4 DEF Launch
<1> HIDE DEF new
<1>6. IsFiniteSet(DOMAIN f \cup {new})
  BY FS_AddElement
<1>7. Launched(f, x, g)
  BY <1>3, <1>5, <1>6 DEF Launched
<1> QED BY <1>4, <1>7

\* ++restartGeneration only drops coroutines.
LEMMA GenerationFacts ==
  ASSUME NEW d, DataOK(d), NEW e, e = NextGeneration(d)
  PROVE  /\ Tame(d, e)
         /\ e.desired = d.desired /\ e.state = d.state
         /\ \A k \in DOMAIN e.restarts : k \in DOMAIN d.restarts /\ e.restarts[k] = d.restarts[k]
<1> DEFINE R == {k \in DOMAIN d.restarts : d.restarts[k].pc # "wait"}
           S == {i \in DOMAIN d.stops : d.stops[i].pc # "delay"}
<1>1. e = [d EXCEPT !.restarts = [k \in R |-> d.restarts[k]], !.stops = [i \in S |-> d.stops[i]]]
  BY DEF NextGeneration, RestrictValues, RestrictDomain, Restrict, DataOK, DataFields
<1>2. IsFiniteSet(R) /\ IsFiniteSet(S)
  BY FS_Subset DEF DataOK
<1>3. /\ DOMAIN e = DataFields /\ e.restarts = [k \in R |-> d.restarts[k]]
      /\ e.stops = [i \in S |-> d.stops[i]]
      /\ e.desired = d.desired /\ e.state = d.state /\ e.latest = d.latest /\ e.proxy = d.proxy
  BY <1>1 DEF DataOK, DataFields
<1>4. R \subseteq DOMAIN d.restarts /\ S \subseteq DOMAIN d.stops
  OBVIOUS
<1> HIDE DEF R, S
<1>5. /\ DOMAIN e.restarts = R /\ \A k \in R : e.restarts[k] = d.restarts[k]
      /\ DOMAIN e.stops = S /\ \A i \in S : e.stops[i] = d.stops[i]
  BY <1>3
<1>6. PICK f : f = e
  OBVIOUS
<1>7. DataOK(f)
  BY <1>2, <1>3, <1>4, <1>5, <1>6 DEF DataOK
<1> QED BY <1>3, <1>4, <1>5, <1>6, <1>7 DEF Tame, Calm, Idles

\* The coroutine of a stop begins outside the mutex.
LEMMA LaunchStop ==
  ASSUME NEW d, DataOK(d), NEW x, DOMAIN x = StopFields, x.pc \notin Held,
         NEW e,
         DOMAIN e = DataFields, e.state = "Stopping",
         e.stops = Launch(d.stops, x),
         e.restarts = d.restarts, e.desired = d.desired, e.latest = d.latest,
         e.proxy = d.proxy
  PROVE  Tame(d, e)
<1>1. PICK new : /\ new \notin DOMAIN d.stops /\ DOMAIN e.stops = DOMAIN d.stops \cup {new}
                 /\ e.stops[new] = x /\ \A i \in DOMAIN d.stops : e.stops[i] = d.stops[i]
                 /\ IsFiniteSet(DOMAIN e.stops)
  <2>1. Launched(d.stops, x, e.stops)
    BY LaunchFacts DEF DataOK
  <2> QED BY <2>1 DEF Launched
<1>2. DataOK(e)
  BY <1>1 DEF DataOK
<1> QED BY <1>1, <1>2 DEF Tame, Calm, Idles

\* stopRunner changes the state to Stopping and, when it is not to restart, the profile
\* to none.
LEMMA StopRunnerFacts ==
  ASSUME NEW d, DataOK(d), NEW restart, NEW auto,
         NEW e, e = StopRunner(d, restart, auto)
  PROVE  Tame(d, e) /\ (~ restart => e.desired = 0)
<1> DEFINE g == NextGeneration(d)
           b == IF restart THEN d
                ELSE [g EXCEPT !.desired = 0, !.pending = FALSE, !.pendingAuto = FALSE]
<1>1. Tame(d, g) /\ DataOK(g)
  BY GenerationFacts DEF Tame
<1>2. Tame(d, b) /\ DataOK(b) /\ (~ restart => b.desired = 0)
  <2>1. CASE restart
    BY <2>1 DEF Tame, Calm, Idles
  <2>2. CASE ~ restart
    <3>1. PICK h : h = g
      OBVIOUS
    <3>2. PICK f : f = [h EXCEPT !.desired = 0, !.pending = FALSE, !.pendingAuto = FALSE]
      OBVIOUS
    <3>3. b = f
      BY <2>2, <3>1, <3>2
    <3> HIDE DEF g, b
    <3>4. DataOK(h) /\ Tame(d, h)
      BY <1>1, <3>1
    <3>5. /\ DOMAIN f = DataFields /\ f.desired = 0 /\ f.state = h.state /\ f.latest = h.latest
          /\ f.proxy = h.proxy /\ f.stops = h.stops
          /\ f.restarts = h.restarts
      BY <3>2, <3>4 DEF DataOK, DataFields
    <3>6. DataOK(f)
      BY <3>4, <3>5 DEF DataOK
    <3>7. Tame(d, f)
      BY <3>4, <3>5, <3>6 DEF Tame, Calm, Idles
    <3> QED BY <3>3, <3>5, <3>6, <3>7
  <2> QED BY <2>1, <2>2
<1>3. e = IF d.state = "Stopping"
          THEN IF restart THEN [b EXCEPT !.pending = TRUE, !.pendingAuto = @ \/ auto] ELSE b
          ELSE [b EXCEPT !.state = "Stopping", !.stops = Launch(@, Stopping(restart, auto))]
  BY DEF StopRunner
<1>4. PICK f : f = b
  OBVIOUS
<1> HIDE DEF b, g
<1>5. CASE d.state = "Stopping" /\ restart
  <2>1. e = [f EXCEPT !.pending = TRUE, !.pendingAuto = @ \/ auto]
    BY <1>3, <1>4, <1>5
  <2>2. /\ DOMAIN e = DataFields /\ e.desired = f.desired /\ e.state = f.state
        /\ e.latest = f.latest /\ e.proxy = f.proxy
        /\ e.stops = f.stops /\ e.restarts = f.restarts
    BY <1>2, <1>4, <2>1 DEF DataOK, DataFields
  <2>3. DataOK(e)
    BY <1>2, <1>4, <2>2 DEF DataOK
  <2>4. Calm(d, f) /\ Idles(d, f)
    BY <1>2, <1>4 DEF Tame
  <2>5. Calm(d, e)
    BY <2>2, <2>4 DEF Calm
  <2>6. Idles(d, e)
    BY <2>2, <2>4 DEF Idles
  <2> QED BY <1>5, <2>3, <2>5, <2>6 DEF Tame
<1>6. CASE d.state = "Stopping" /\ ~ restart
  BY <1>2, <1>3, <1>6
<1>7. CASE d.state # "Stopping"
  <2>1. e = [f EXCEPT !.state = "Stopping", !.stops = Launch(f.stops, Stopping(restart, auto))]
    BY <1>3, <1>4, <1>7
  <2>2. /\ DOMAIN e = DataFields /\ e.desired = f.desired /\ e.state = "Stopping"
        /\ e.latest = f.latest /\ e.proxy = f.proxy
        /\ e.stops = Launch(f.stops, Stopping(restart, auto)) /\ e.restarts = f.restarts
    BY <1>2, <1>4, <2>1 DEF DataOK, DataFields
  <2>3. DOMAIN Stopping(restart, auto) = StopFields /\ Stopping(restart, auto).pc \notin Held
    BY DEF Stopping, StopFields, Held
  <2>4. Tame(f, e)
    BY <1>2, <1>4, <2>2, <2>3, LaunchStop
  <2> QED BY <1>2, <1>4, <2>2, <2>4, TameChain
<1> QED BY <1>5, <1>6, <1>7

\* startRunner launches a restart that has not read anything yet.
LEMMA StartRunnerFacts ==
  ASSUME NEW d, DataOK(d), NEW auto, NEW e, e = StartRunner(d, auto)
  PROVE  Tame(d, e)
<1> DEFINE x == [pc |-> "wait", auto |-> auto, profile |-> 0, latest |-> 0]
<1>1. PICK f : f = NextGeneration(d)
  OBVIOUS
<1>2. Tame(d, f) /\ DataOK(f)
  BY <1>1, GenerationFacts DEF Tame
<1>3. e = [f EXCEPT !.restarts = Launch(f.restarts, x)]
  BY <1>1 DEF StartRunner
<1>4. DOMAIN x = RestartFields /\ x.pc = "wait"
  BY DEF RestartFields
<1> HIDE DEF x
<1>5. /\ DOMAIN e = DataFields /\ e.desired = f.desired /\ e.state = f.state
      /\ e.latest = f.latest /\ e.proxy = f.proxy
      /\ e.stops = f.stops /\ e.restarts = Launch(f.restarts, x)
  BY <1>2, <1>3 DEF DataOK, DataFields
<1>6. PICK new : /\ new \notin DOMAIN f.restarts /\ DOMAIN e.restarts = DOMAIN f.restarts \cup {new}
                 /\ e.restarts[new] = x /\ \A i \in DOMAIN f.restarts : e.restarts[i] = f.restarts[i]
                 /\ IsFiniteSet(DOMAIN e.restarts)
  <2>1. IsFiniteSet(DOMAIN f.restarts)
    BY <1>2 DEF DataOK
  <2>2. Launched(f.restarts, x, e.restarts)
    BY <1>5, <2>1, LaunchFacts
  <2> QED BY <2>2 DEF Launched
<1>7. DataOK(e)
  BY <1>2, <1>4, <1>5, <1>6 DEF DataOK
<1>8. Tame(f, e)
  BY <1>4, <1>5, <1>6, <1>7 DEF Tame, Calm, Idles
<1> QED BY <1>2, <1>8, TameChain

\* reload, once the profile is the one asked for.
LEMMA ReloadFacts ==
  ASSUME NEW d, DataOK(d), NEW p, NEW canSelect,
         NEW e, e = Reload(d, p, canSelect)
  PROVE  Tame([d EXCEPT !.desired = p], e)
<1>1. PICK f : f = [d EXCEPT !.desired = p]
  OBVIOUS
<1>2. DataOK(f)
  BY <1>1 DEF DataOK, DataFields
<1>3. CASE p = 0
  BY <1>1, <1>2, <1>3, StopRunnerFacts DEF Reload
<1>4. CASE p # 0 /\ canSelect
  BY <1>1, <1>2, <1>4 DEF Reload, Tame, Calm, Idles
<1>5. CASE p # 0 /\ ~ canSelect /\ d.state # "Stopping"
  BY <1>1, <1>2, <1>5, StopRunnerFacts DEF Reload
<1>6. CASE p # 0 /\ ~ canSelect /\ d.state = "Stopping"
  <2>1. e = [f EXCEPT !.pending = TRUE, !.pendingAuto = FALSE]
    BY <1>1, <1>6 DEF Reload
  <2>2. /\ DOMAIN e = DataFields /\ e.desired = f.desired /\ e.state = f.state
        /\ e.latest = f.latest /\ e.proxy = f.proxy
        /\ e.stops = f.stops /\ e.restarts = f.restarts
    BY <1>2, <2>1 DEF DataOK, DataFields
  <2>3. DataOK(e)
    BY <1>2, <2>2 DEF DataOK
  <2> QED BY <1>1, <2>2, <2>3 DEF Tame, Calm, Idles
<1> QED BY <1>3, <1>4, <1>5, <1>6

-----------------------------------------------------------------------------
(* The invariant.                                                            *)

\* s is a sequence, of whatever.
IsSeq(s) == \E S : s \in Seq(S)

\* The shape of the state.
Types ==
  /\ DataOK(data)
  /\ IsSeq(jobs) /\ \A j \in DOMAIN jobs : DOMAIN jobs[j] = JobFields
  /\ IsSeq(req)
  /\ DOMAIN intents = {"start", "close"} /\ IsSeq(intents.start) /\ IsSeq(intents.close)

\* lifecycleMutex: one start or one stop at a time.
Exclusive(d, jb) ==
  /\ \A j, k \in DOMAIN jb : jb[j].pc \in Inside /\ jb[k].pc \in Inside => j = k
  /\ \A i, k \in DOMAIN d.stops : d.stops[i].pc \in Held /\ d.stops[k].pc \in Held => i = k
  /\ \A j \in DOMAIN jb, i \in DOMAIN d.stops :
       jb[j].pc \in Inside => d.stops[i].pc \notin Held

\* The cores cs are those of the starts jb.  A core that is not data.proxy is left to the
\* replacement of the process.  So that the end of a stop, which forgets data.proxy,
\* leaves no core behind, the core is closed when the stop has come that far; and so
\* that a start, which overwrites it, does not, there is none when the state is Stopped.
Killed(d, jb, cs, rc) ==
  /\ cs \subseteq DOMAIN jb
  /\ \A c \in cs : c = d.proxy \/ rc # {}
  /\ d.state = "Stopped" => d.proxy = 0
  /\ \A i \in DOMAIN d.stops : d.stops[i].pc = "settle" => d.proxy \notin cs \/ rc # {}

\* The request of the app that the number n goes back to, when rq are the requests; and
\* that it is not one to stop.
App(rq, n) == IF n = 0 THEN 0 ELSE rq[n].app
NoStop(rq, n) ==
  LET a == App(rq, n)
  IN  a = 0 \/ ~ (rq[a].kind = "CLOSE" \/ (rq[a].kind = "RELOAD" /\ rq[a].profile = 0))

\* Numbers are those of requests.
Numbered(d, rq) ==
  /\ \A r \in DOMAIN rq : rq[r].app \in 0 .. Len(rq)
  /\ d.latest \in 0 .. Len(rq)
\* A profile is wanted only as long as the request accepted last is not one to stop.
DesiredIs(d, rq, tn) == tn \/ d.desired = 0 \/ NoStop(rq, d.latest)
\* A start under way has the number of a request that is not one to stop.
JobsAre(jb, rq, tn) ==
  \A j \in DOMAIN jb :
    /\ jb[j].req \in 0 .. Len(rq)
    /\ jb[j].pc \in {"done", "up"} \/ tn \/ NoStop(rq, jb[j].req)
\* What a restart has read, a profile and a number, fits together.
RestartsAre(d, rq, tn) ==
  \A k \in DOMAIN d.restarts :
    d.restarts[k].pc = "read" =>
      /\ d.restarts[k].latest \in 0 .. Len(rq)
      /\ tn \/ d.restarts[k].profile = 0 \/ NoStop(rq, d.restarts[k].latest)

\* The intent of a start has the number of a request that is not one to stop.  One sent
\* by a restart that found no profile wanted may have the number of a stop: it carries
\* no profile, and the stop has already been accepted.
StartIs(i, latest, rq, tn) ==
  /\ i.id \in 0 .. Len(rq)
  /\ \/ i.kind = "START" /\ (tn \/ NoStop(rq, i.id) \/ (i.profile = 0 /\ i.id <= latest))
     \/ i.kind = "RELOAD" /\ (i.profile = 0 \/ NoStop(rq, i.id))
CloseIs(i, rq) == i.kind = "CLOSE" /\ i.id \in 0 .. Len(rq)
IntentsAre(d, it, rq, tn) ==
  /\ \A k \in DOMAIN it.start : StartIs(it.start[k], d.latest, rq, tn)
  /\ \A k \in DOMAIN it.close : CloseIs(it.close[k], rq)

\* The cores that somebody is to close: all but those whose clean-up has failed.
Owned == cores \ leaked

\* What CoresOwned follows from, and what StopsHold follows from.
Exclusion == Exclusive(data, jobs) /\ Killed(data, jobs, Owned, recovery)
Numbers ==
  /\ Numbered(data, req) /\ DesiredIs(data, req, torn) /\ JobsAre(jobs, req, torn)
  /\ RestartsAre(data, req, torn) /\ IntentsAre(data, intents, req, torn)

\* The inductive invariant.
IInv == Types /\ Exclusion /\ Numbers

-----------------------------------------------------------------------------
\* t is s with x at its end.
Grown(s, x, t) ==
  /\ IsSeq(t) /\ Len(s) \in Nat /\ Len(t) = Len(s) + 1
  /\ DOMAIN s = 1 .. Len(s) /\ DOMAIN t = 1 .. Len(t)
  /\ t[Len(s) + 1] = x /\ \A k \in DOMAIN s : t[k] = s[k]

LEMMA AppendFacts ==
  ASSUME NEW s, IsSeq(s), NEW x
  PROVE  Grown(s, x, Append(s, x))
<1>1. PICK S : s \in Seq(S)
  BY DEF IsSeq
<1>2. PICK T, t : T = S \cup {x} /\ t = Append(s, x)
  OBVIOUS
<1>3. s \in Seq(T)
  <2>1. s \in [1 .. Len(s) -> S] /\ Len(s) \in Nat
    BY <1>1
  <2>2. s \in [1 .. Len(s) -> T]
    BY <1>2, <2>1
  <2> QED BY <2>1, <2>2
<1>4. t \in Seq(T)
  BY <1>2, <1>3
<1>5. Grown(s, x, t)
  BY <1>2, <1>3, <1>4 DEF IsSeq, Grown
<1> QED BY <1>2, <1>5

\* What is left of a sequence was in it.
LEMMA TailFacts ==
  ASSUME NEW s, IsSeq(s), s # << >>, NEW t, t = Tail(s)
  PROVE  /\ IsSeq(t) /\ 1 \in DOMAIN s /\ Head(s) = s[1]
         /\ \A k \in DOMAIN t : k + 1 \in DOMAIN s /\ t[k] = s[k + 1]
<1>1. PICK S : s \in Seq(S)
  BY DEF IsSeq
<1>2. t \in Seq(S)
  BY <1>1
<1> QED BY <1>1, <1>2 DEF IsSeq

\* One element of a sequence is replaced.
LEMMA SetAtFacts ==
  ASSUME NEW s, IsSeq(s), NEW j \in DOMAIN s, NEW x, NEW t, t = [s EXCEPT ![j] = x]
  PROVE  /\ IsSeq(t) /\ DOMAIN t = DOMAIN s /\ t[j] = x
         /\ \A k \in DOMAIN s : k # j => t[k] = s[k]
<1>1. PICK S : s \in Seq(S)
  BY DEF IsSeq
<1>2. PICK T : T = S \cup {x}
  OBVIOUS
<1>3. s \in [1 .. Len(s) -> S] /\ Len(s) \in Nat /\ DOMAIN s = 1 .. Len(s)
  BY <1>1
<1>4. t \in [1 .. Len(s) -> T]
  BY <1>2, <1>3
<1>5. t \in Seq(T)
  <2>1. PICK n \in Nat : n = Len(s)
    BY <1>3
  <2>2. t \in [1 .. n -> T]
    BY <1>4, <2>1
  <2>3. Seq(T) = UNION {[1 .. m -> T] : m \in Nat}
    BY SeqDef, Zenon
  <2>4. t \in UNION {[1 .. m -> T] : m \in Nat}
    BY <2>1, <2>2
  <2> QED BY <2>3, <2>4, Zenon
<1> QED BY <1>3, <1>4, <1>5 DEF IsSeq

\* A start keeps its number, does not enter the mutex, and does not come back.
JobsTame(jb, jc) ==
  /\ IsSeq(jc) /\ DOMAIN jc = DOMAIN jb
  /\ \A j \in DOMAIN jb :
       /\ DOMAIN jc[j] = JobFields /\ jc[j].req = jb[j].req
       /\ jc[j].pc \in Inside => jb[j].pc \in Inside
       /\ jb[j].pc \in {"done", "up"} => jc[j].pc \in {"done", "up"}

\* Exclusion is kept where nobody enters the mutex and no core starts or stops.
LEMMA TameExclusion ==
  ASSUME NEW d, NEW e, NEW jb, NEW jc, NEW cs, NEW rc, NEW rd,
         Exclusive(d, jb), Killed(d, jb, cs, rc), Calm(d, e), JobsTame(jb, jc), rc \subseteq rd
  PROVE  Exclusive(e, jc) /\ Killed(e, jc, cs, rd)
<1>1. Exclusive(e, jc)
  BY DEF Exclusive, Calm, JobsTame
<1>2. Killed(e, jc, cs, rd)
  BY DEF Killed, Calm, JobsTame, Held
<1> QED BY <1>1, <1>2

\* Numbers is kept where no request is accepted and nothing is read or sent.
LEMMA TameNumbers ==
  ASSUME NEW d, NEW e, NEW jb, NEW jc, NEW it, NEW rq, NEW tn,
         Numbered(d, rq), DesiredIs(d, rq, tn), JobsAre(jb, rq, tn), RestartsAre(d, rq, tn),
         IntentsAre(d, it, rq, tn), Idles(d, e), JobsTame(jb, jc)
  PROVE  /\ Numbered(e, rq) /\ DesiredIs(e, rq, tn) /\ JobsAre(jc, rq, tn)
         /\ RestartsAre(e, rq, tn) /\ IntentsAre(e, it, rq, tn)
<1>1. Numbered(e, rq) /\ IntentsAre(e, it, rq, tn)
  BY DEF Numbered, IntentsAre, Idles
<1>2. DesiredIs(e, rq, tn)
  BY DEF DesiredIs, Idles
<1>3. JobsAre(jc, rq, tn)
  BY DEF JobsAre, JobsTame
<1>4. RestartsAre(e, rq, tn)
  BY DEF RestartsAre, Idles
<1> QED BY <1>1, <1>2, <1>3, <1>4

\* Starts that do nothing.
LEMMA SameJobs ==
  ASSUME Types PROVE JobsTame(jobs, jobs)
BY DEF Types, JobsTame

\* Most steps are of this kind.
LEMMA TameStep ==
  ASSUME IInv, Tame(data, data'), JobsTame(jobs, jobs'), cores' = cores,
         recovery \subseteq recovery', UNCHANGED <<intents, req, torn, leaked>>
  PROVE  IInv'
<1>1. Types'
  BY DEF IInv, Types, Tame, JobsTame
<1>2. Exclusion'
  <2>1. Exclusive(data', jobs') /\ Killed(data', jobs', Owned, recovery')
    BY TameExclusion DEF IInv, Exclusion, Tame
  <2> QED BY <2>1 DEF Exclusion, Owned
<1>3. Numbers'
  <2>1. /\ Numbered(data', req) /\ DesiredIs(data', req, torn) /\ JobsAre(jobs', req, torn)
        /\ RestartsAre(data', req, torn) /\ IntentsAre(data', intents, req, torn)
    BY TameNumbers DEF IInv, Numbers, Tame
  <2> QED BY <2>1 DEF Numbers
<1> QED BY <1>1, <1>2, <1>3 DEF IInv

\* One start goes on.
LEMMA OneJobMoves ==
  ASSUME Types, NEW j \in DOMAIN jobs, NEW x, NEW jc, jc = [jobs EXCEPT ![j] = x],
         DOMAIN x = JobFields, x.req = jobs[j].req,
         x.pc \in Inside => jobs[j].pc \in Inside,
         jobs[j].pc \in {"done", "up"} => x.pc \in {"done", "up"}
  PROVE  JobsTame(jobs, jc)
<1>1. IsSeq(jc) /\ DOMAIN jc = DOMAIN jobs /\ jc[j] = x
      /\ \A k \in DOMAIN jobs : k # j => jc[k] = jobs[k]
  BY SetAtFacts DEF Types
<1>2. ASSUME NEW k \in DOMAIN jobs
      PROVE  /\ DOMAIN jc[k] = JobFields /\ jc[k].req = jobs[k].req
             /\ jc[k].pc \in Inside => jobs[k].pc \in Inside
             /\ jobs[k].pc \in {"done", "up"} => jc[k].pc \in {"done", "up"}
  <2>1. CASE k = j
    BY <1>1, <2>1
  <2>2. CASE k # j
    BY <1>1, <2>2 DEF Types
  <2> QED BY <2>1, <2>2
<1> QED BY <1>1, <1>2 DEF JobsTame

\* A start goes on inside the mutex,
LEMMA JobMoves ==
  ASSUME Types, NEW j \in DOMAIN jobs, NEW pc,
         pc \in Inside /\ jobs[j].pc \in Inside
  PROVE  JobsTame(jobs, Goto(j, pc))
<1>1. PICK x : x = [jobs[j] EXCEPT !.pc = pc]
  OBVIOUS
<1>2. DOMAIN x = JobFields /\ x.req = jobs[j].req /\ x.pc = pc
  BY <1>1 DEF Types, JobFields
<1>3. Goto(j, pc) = [jobs EXCEPT ![j] = x]
  BY <1>1 DEF Goto
<1> QED BY <1>2, <1>3, OneJobMoves DEF Inside

\* ends,
LEMMA JobEnds ==
  ASSUME Types, NEW j \in DOMAIN jobs, NEW pc \in {"done", "up"}
  PROVE  JobsTame(jobs, EndAt(j, pc))
<1>1. PICK x : x = [jobs[j] EXCEPT !.pc = pc, !.profile = 0, !.cancelled = FALSE, !.auto = FALSE]
  OBVIOUS
<1>2. DOMAIN x = JobFields /\ x.req = jobs[j].req /\ x.pc = pc
  BY <1>1 DEF Types, JobFields
<1>3. EndAt(j, pc) = [jobs EXCEPT ![j] = x]
  BY <1>1 DEF EndAt
<1> QED BY <1>2, <1>3, OneJobMoves DEF Inside

\* or is cancelled.
LEMMA JobIsCancelled ==
  ASSUME Types, NEW c
  PROVE  JobsTame(jobs, [jobs EXCEPT ![c].cancelled = TRUE])
<1>1. CASE c \in DOMAIN jobs
  <2>1. PICK x : x = [jobs[c] EXCEPT !.cancelled = TRUE]
    OBVIOUS
  <2>2. DOMAIN x = JobFields /\ x.req = jobs[c].req /\ x.pc = jobs[c].pc
    BY <1>1, <2>1 DEF Types, JobFields
  <2>3. [jobs EXCEPT ![c].cancelled = TRUE] = [jobs EXCEPT ![c] = x]
    BY <2>1
  <2> QED BY <1>1, <2>2, <2>3, OneJobMoves
<1>2. CASE c \notin DOMAIN jobs
  <2>1. PICK jc : jc = [jobs EXCEPT ![c].cancelled = TRUE]
    OBVIOUS
  <2>2. PICK S : jobs \in Seq(S)
    BY DEF Types, IsSeq
  <2>3. jobs \in [DOMAIN jobs -> S]
    BY <2>2
  <2>4. jc = jobs
    <3>1. PICK x : x = [jobs[c] EXCEPT !.cancelled = TRUE]
      OBVIOUS
    <3>2. jc = [jobs EXCEPT ![c] = x]
      BY <2>1, <3>1
    <3>3. jc = [k \in DOMAIN jobs |-> IF k = c THEN x ELSE jobs[k]]
      BY <3>2, Zenon
    <3> HIDE <3>2
    <3>4. jc = [k \in DOMAIN jobs |-> jobs[k]]
      BY <1>2, <3>3
    <3> QED BY <2>3, <3>4
  <2> QED BY <2>1, <2>4, SameJobs
<1> QED BY <1>1, <1>2

-----------------------------------------------------------------------------
(* Updates of Data.                                                          *)

\* e differs from d in the coroutines of stops only.
StopsOnly(d, e) ==
  /\ DOMAIN e = DataFields /\ e.state = d.state /\ e.desired = d.desired
  /\ e.latest = d.latest /\ e.proxy = d.proxy /\ e.restarts = d.restarts

\* The coroutine of a stop goes on,
LEMMA StopMoves ==
  ASSUME NEW d, DataOK(d), NEW i \in DOMAIN d.stops, NEW x, DOMAIN x = StopFields,
         NEW e, e = [d EXCEPT !.stops[i] = x]
  PROVE  /\ DataOK(e) /\ StopsOnly(d, e)
         /\ DOMAIN e.stops = DOMAIN d.stops /\ e.stops[i] = x
         /\ \A k \in DOMAIN d.stops : k # i => e.stops[k] = d.stops[k]
<1>1. StopsOnly(d, e) /\ e.stops = [d.stops EXCEPT ![i] = x]
  BY DEF StopsOnly, DataOK, DataFields
<1>2. /\ DOMAIN e.stops = DOMAIN d.stops /\ e.stops[i] = x
      /\ \A k \in DOMAIN d.stops : k # i => e.stops[k] = d.stops[k]
  BY <1>1
<1>3. \A k \in DOMAIN e.stops : DOMAIN e.stops[k] = StopFields
  BY <1>2 DEF DataOK
<1>4. PICK f : f = e
  OBVIOUS
<1>5. DataOK(f)
  BY <1>1, <1>2, <1>3, <1>4 DEF DataOK, StopsOnly
<1> QED BY <1>1, <1>2, <1>4, <1>5

\* or ends.
LEMMA StopGone ==
  ASSUME NEW d, DataOK(d), NEW i, NEW e, e = StopEnds(d, i)
  PROVE  /\ DataOK(e) /\ StopsOnly(d, e)
         /\ DOMAIN e.stops = DOMAIN d.stops \ {i}
         /\ \A k \in DOMAIN e.stops : e.stops[k] = d.stops[k]
<1>1. StopsOnly(d, e) /\ e.stops = [k \in DOMAIN d.stops \ {i} |-> d.stops[k]]
  BY DEF StopsOnly, DataOK, DataFields, StopEnds, Restrict
<1>2. /\ DOMAIN e.stops = DOMAIN d.stops \ {i}
      /\ \A k \in DOMAIN e.stops : e.stops[k] = d.stops[k]
  BY <1>1
<1>3. IsFiniteSet(DOMAIN d.stops \ {i})
  BY FS_RemoveElement DEF DataOK
<1>4. PICK f : f = e
  OBVIOUS
<1>5. DataOK(f)
  BY <1>1, <1>2, <1>3, <1>4 DEF DataOK, StopsOnly
<1> QED BY <1>1, <1>2, <1>4, <1>5

\* e differs from d in the restarts only.
RestartsOnly(d, e) ==
  /\ DOMAIN e = DataFields /\ e.state = d.state /\ e.desired = d.desired
  /\ e.latest = d.latest /\ e.proxy = d.proxy /\ e.stops = d.stops

\* A restart goes on,
LEMMA RestartMoves ==
  ASSUME NEW d, DataOK(d), NEW i \in DOMAIN d.restarts, NEW x, DOMAIN x = RestartFields,
         NEW e, e = [d EXCEPT !.restarts[i] = x]
  PROVE  /\ DataOK(e) /\ RestartsOnly(d, e)
         /\ DOMAIN e.restarts = DOMAIN d.restarts /\ e.restarts[i] = x
         /\ \A k \in DOMAIN d.restarts : k # i => e.restarts[k] = d.restarts[k]
<1>1. RestartsOnly(d, e) /\ e.restarts = [d.restarts EXCEPT ![i] = x]
  BY DEF RestartsOnly, DataOK, DataFields
<1>2. /\ DOMAIN e.restarts = DOMAIN d.restarts /\ e.restarts[i] = x
      /\ \A k \in DOMAIN d.restarts : k # i => e.restarts[k] = d.restarts[k]
  BY <1>1
<1>3. \A k \in DOMAIN e.restarts : DOMAIN e.restarts[k] = RestartFields
  BY <1>2 DEF DataOK
<1>4. PICK f : f = e
  OBVIOUS
<1>5. DataOK(f)
  BY <1>1, <1>2, <1>3, <1>4 DEF DataOK, RestartsOnly
<1> QED BY <1>1, <1>2, <1>4, <1>5

\* or ends.
RestartEnds(d, i) == [d EXCEPT !.restarts = Restrict(@, DOMAIN @ \ {i})]

LEMMA RestartGone ==
  ASSUME NEW d, DataOK(d), NEW i, NEW e, e = RestartEnds(d, i)
  PROVE  /\ DataOK(e) /\ RestartsOnly(d, e)
         /\ DOMAIN e.restarts = DOMAIN d.restarts \ {i}
         /\ \A k \in DOMAIN e.restarts : e.restarts[k] = d.restarts[k]
<1>1. RestartsOnly(d, e) /\ e.restarts = [k \in DOMAIN d.restarts \ {i} |-> d.restarts[k]]
  BY DEF RestartEnds, RestartsOnly, DataOK, DataFields, Restrict
<1>2. /\ DOMAIN e.restarts = DOMAIN d.restarts \ {i}
      /\ \A k \in DOMAIN e.restarts : e.restarts[k] = d.restarts[k]
  BY <1>1
<1>3. IsFiniteSet(DOMAIN d.restarts \ {i})
  BY FS_RemoveElement DEF DataOK
<1>4. PICK f : f = e
  OBVIOUS
<1>5. DataOK(f)
  BY <1>1, <1>2, <1>3, <1>4 DEF DataOK, RestartsOnly
<1> QED BY <1>1, <1>2, <1>4, <1>5

\* finally: connectingJob is forgotten.
LEMMA LeftFacts ==
  ASSUME NEW d, DataOK(d), NEW e, e = Left(d)
  PROVE  Tame(d, e) /\ DataOK(e)
<1>1. /\ DOMAIN e = DataFields /\ e.state = d.state /\ e.desired = d.desired
      /\ e.latest = d.latest /\ e.proxy = d.proxy /\ e.stops = d.stops /\ e.restarts = d.restarts
  BY DEF Left, DataOK, DataFields
<1>2. DataOK(e)
  BY <1>1 DEF DataOK
<1> QED BY <1>1, <1>2 DEF Tame, Calm, Idles

\* Nothing is called.
LEMMA SameData ==
  ASSUME NEW d, DataOK(d) PROVE Tame(d, d)
BY DEF Tame, Calm, Idles

-----------------------------------------------------------------------------
(* Steps of a start.                                                         *)

\* A start goes on, and forgets its profile.
LEMMA JobCalls ==
  ASSUME Types, NEW j \in DOMAIN jobs, jobs[j].pc \in Inside, NEW restart, NEW auto,
         Calls(j, restart, auto)
  PROVE  /\ Tame(data, data') /\ JobsTame(jobs, jobs') /\ cores' = cores
         /\ recovery' = recovery /\ UNCHANGED <<intents, req, torn, leaked>>
<1>1. PICK x : x = [jobs[j] EXCEPT !.pc = "stopping", !.profile = 0, !.auto = FALSE]
  OBVIOUS
<1>2. DOMAIN x = JobFields /\ x.req = jobs[j].req /\ x.pc = "stopping"
  BY <1>1 DEF Types, JobFields
<1>3. jobs' = [jobs EXCEPT ![j] = x]
  BY <1>1 DEF Calls
<1>4. JobsTame(jobs, jobs')
  BY <1>2, <1>3, OneJobMoves DEF Inside
<1> QED BY <1>4, SameData DEF Calls, Others, Types

\* Only the state changes, and not to Stopped.
LEMMA StateSet ==
  ASSUME NEW d, DataOK(d), NEW e, DOMAIN e = DataFields, e.state # "Stopped",
         e.desired = d.desired, e.latest = d.latest, e.proxy = d.proxy, e.stops = d.stops,
         e.restarts = d.restarts
  PROVE  Tame(d, e)
BY DEF Tame, Calm, Idles, DataOK

\* The steps of a start that neither take the mutex nor launch a core.
LEMMA JobSteps ==
  ASSUME IInv, NEW j \in DOMAIN jobs,
         \/ JobCancelled(j) \/ JobInit(j) \/ JobWarns(j) \/ JobLaunched(j) \/ JobUnwanted(j)
         \/ JobHasNoProxy(j) \/ JobConnect(j) \/ JobFinish(j) \/ JobFails(j)
  PROVE  IInv'
<1>0. Types /\ DataOK(data)
  BY DEF IInv, Types
<1> SUFFICES Tame(data, data') /\ JobsTame(jobs, jobs') /\ cores' = cores
             /\ recovery' = recovery /\ UNCHANGED <<intents, req, torn, leaked>>
  BY TameStep
<1>1. CASE JobCancelled(j)
  BY <1>0, <1>1, JobEnds, LeftFacts, SameData DEF JobCancelled, Ended, Others
<1>2. CASE JobInit(j) \/ JobLaunched(j)
  <2>1. PICK next \in {"warn", "launch", "connect"} : JobChecks(j, next)
    BY <1>2 DEF JobInit, JobLaunched
  <2>2. PICK pc \in {"warn", "launch", "connect", "unwanted"} : jobs' = Goto(j, pc)
    BY <2>1 DEF JobChecks
  <2>3. jobs[j].pc \in Inside /\ pc \in Inside
    BY <1>2 DEF JobInit, JobLaunched, Inside
  <2>4. JobsTame(jobs, jobs')
    BY <1>0, <2>2, <2>3, JobMoves
  <2> QED BY <1>0, <2>1, <2>4, SameData DEF JobChecks, Others
<1>3. CASE JobUnwanted(j) \/ JobHasNoProxy(j) \/ JobFails(j)
  <2>1. PICK restart, auto : Calls(j, restart, auto)
    BY <1>3 DEF JobUnwanted, JobHasNoProxy, JobFails, Fails
  <2>2. jobs[j].pc \in Inside
    BY <1>3 DEF JobUnwanted, JobHasNoProxy, JobFails, Inside
  <2> QED BY <1>0, <2>1, <2>2, JobCalls
<1>4. CASE JobConnect(j) \/ JobWarns(j)
  <2>1. JobsTame(jobs, jobs')
    BY <1>0, <1>4, JobMoves DEF JobConnect, JobWarns, Inside
  <2>2. PICK e : e = data'
    OBVIOUS
  <2>3. /\ DOMAIN e = DataFields /\ e.state # "Stopped" /\ e.desired = data.desired
        /\ e.latest = data.latest /\ e.proxy = data.proxy /\ e.stops = data.stops
        /\ e.restarts = data.restarts
    BY <1>0, <1>4, <2>2 DEF JobConnect, JobWarns, DataOK, DataFields
  <2>4. Tame(data, e)
    BY <1>0, <2>3, StateSet
  <2> QED BY <1>4, <2>1, <2>2, <2>4 DEF JobConnect, JobWarns, Others
<1>5. CASE JobFinish(j)
  BY <1>0, <1>5, JobEnds, LeftFacts DEF JobFinish, Ended, Others
<1> QED BY <1>1, <1>2, <1>3, <1>4, <1>5

\* stopRunner on another thread: each of its steps is Tame.
LEMMA CallSteps ==
  ASSUME IInv, NEW c \in DOMAIN calls, CallStep(c)
  PROVE  IInv'
<1>0. Types /\ DataOK(data) /\ JobsTame(jobs, jobs)
  BY SameJobs DEF IInv, Types
<1>1. UNCHANGED <<jobs, cores, recovery, intents, req, torn, leaked>>
  BY DEF CallStep, Others
<1> SUFFICES Tame(data, data')
  BY <1>0, <1>1, TameStep
<1>2. PICK e : e = data'
  OBVIOUS
<1>3. CASE CallClear(c)
  <2>1. /\ DOMAIN e = DataFields /\ e.desired = 0 /\ e.state = data.state
        /\ e.latest = data.latest /\ e.proxy = data.proxy /\ e.stops = data.stops
        /\ e.restarts = data.restarts
    BY <1>0, <1>2, <1>3 DEF CallClear, DataOK, DataFields
  <2> QED BY <1>0, <1>2, <2>1 DEF Tame, Calm, Idles, DataOK
<1>4. CASE CallForget(c)
  <2>1. PICK g : g = NextGeneration(data)
    OBVIOUS
  <2>2. Tame(data, g) /\ DataOK(g)
    BY <1>0, <2>1, GenerationFacts DEF Tame
  <2>3. e = [g EXCEPT !.pending = FALSE, !.pendingAuto = FALSE]
    BY <1>2, <1>4, <2>1 DEF CallForget
  <2>4. /\ DOMAIN e = DataFields /\ e.desired = g.desired /\ e.state = g.state
        /\ e.latest = g.latest /\ e.proxy = g.proxy /\ e.stops = g.stops
        /\ e.restarts = g.restarts
    BY <2>2, <2>3 DEF DataOK, DataFields
  <2>5. Tame(g, e)
    BY <2>2, <2>4 DEF Tame, Calm, Idles, DataOK
  <2> QED BY <1>2, <2>2, <2>5, TameChain
<1>5. CASE CallLook(c) \/ CallEnter(c)
  BY <1>0, <1>5, SameData DEF CallLook, CallEnter
<1>6. CASE CallMark(c)
  <2>1. /\ DOMAIN e = DataFields /\ e.desired = data.desired /\ e.state = data.state
        /\ e.latest = data.latest /\ e.proxy = data.proxy /\ e.stops = data.stops
        /\ e.restarts = data.restarts
    BY <1>0, <1>2, <1>6 DEF CallMark, DataOK, DataFields
  <2> QED BY <1>0, <1>2, <2>1 DEF Tame, Calm, Idles, DataOK
<1>7. CASE CallStop(c)
  <2>1. PICK x : x = Stopping(calls[c].restart, calls[c].auto)
    OBVIOUS
  <2>2. DOMAIN x = StopFields /\ x.pc \notin Held
    BY <2>1 DEF Stopping, StopFields, Held
  <2>3. e = [data EXCEPT !.state = "Stopping", !.stops = Launch(data.stops, x)]
    BY <1>2, <1>7, <2>1 DEF CallStop
  <2>4. /\ DOMAIN e = DataFields /\ e.desired = data.desired /\ e.state = "Stopping"
        /\ e.latest = data.latest /\ e.proxy = data.proxy
        /\ e.stops = Launch(data.stops, x) /\ e.restarts = data.restarts
    BY <1>0, <2>3 DEF DataOK, DataFields
  <2> QED BY <1>0, <1>2, <2>2, <2>4, LaunchStop
<1> QED BY <1>3, <1>4, <1>5, <1>6, <1>7 DEF CallStep

\* A start that takes the mutex finds nobody in it.
LEMMA LockStep ==
  ASSUME IInv, NEW j \in DOMAIN jobs, JobLock(j)
  PROVE  IInv'
<1>0. Types /\ DataOK(data)
  BY DEF IInv, Types
<1>1. PICK x : x = [jobs[j] EXCEPT !.pc = "init"]
  OBVIOUS
<1>2. DOMAIN x = JobFields /\ x.req = jobs[j].req /\ x.pc = "init"
  BY <1>0, <1>1 DEF Types, JobFields
<1>3. PICK jc : jc = jobs'
  OBVIOUS
<1>4. jc = [jobs EXCEPT ![j] = x]
  BY <1>1, <1>3 DEF JobLock, Goto
<1>5. IsSeq(jc) /\ DOMAIN jc = DOMAIN jobs /\ jc[j] = x
      /\ \A k \in DOMAIN jobs : k # j => jc[k] = jobs[k]
  BY <1>0, <1>4, SetAtFacts DEF Types
<1>6. UNCHANGED <<data, cores, recovery, intents, req, torn, leaked>> /\ jobs[j].pc = "lock"
  BY DEF JobLock, Others
<1>7. Types'
  BY <1>0, <1>2, <1>3, <1>5, <1>6 DEF Types
<1>8. Exclusive(data, jc)
  <2>1. \A k \in DOMAIN jobs : k # j => jc[k].pc \notin Inside
    BY <1>5 DEF JobLock, MutexFree, Inside
  <2>2. \A i \in DOMAIN data.stops : data.stops[i].pc \notin Held
    BY DEF JobLock, MutexFree, Held
  <2> QED BY <1>5, <2>1, <2>2 DEF Exclusive
<1>9. Killed(data, jc, Owned, recovery)
  BY <1>5 DEF IInv, Exclusion, Killed
<1>10. JobsAre(jc, req, torn)
  <2>1. JobsAre(jobs, req, torn)
    BY DEF IInv, Numbers
  <2>2. \A k \in DOMAIN jobs : /\ jc[k].req = jobs[k].req
                               /\ jobs[k].pc \in {"done", "up"} => jc[k].pc = jobs[k].pc
    BY <1>2, <1>5, <1>6
  <2> QED BY <1>5, <2>1, <2>2 DEF JobsAre
<1> QED BY <1>3, <1>6, <1>7, <1>8, <1>9, <1>10 DEF IInv, Exclusion, Owned, Numbers

\* The core that is launched is that of data.proxy, and nobody is about to forget it.
LEMMA LaunchStep ==
  ASSUME IInv, NEW j \in DOMAIN jobs, JobLaunch(j)
  PROVE  IInv'
<1>0. Types /\ DataOK(data) /\ Exclusion /\ Numbers
  BY DEF IInv, Types
<1>1. jobs[j].pc \in Inside /\ "launched" \in Inside /\ data.proxy = j
  BY DEF JobLaunch, Inside
<1>2. JobsTame(jobs, jobs')
  BY <1>0, <1>1, JobMoves DEF JobLaunch
<1>3. cores' = cores \cup {j} /\ UNCHANGED <<data, recovery, intents, req, torn, leaked>>
  BY DEF JobLaunch, Others
<1>4. PICK jc : jc = jobs'
  OBVIOUS
<1>5. Calm(data, data) /\ Idles(data, data) /\ JobsTame(jobs, jc)
  BY <1>0, <1>2, <1>4, SameData DEF Tame
<1>6. Types'
  BY <1>0, <1>3, <1>4, <1>5 DEF Types, JobsTame
<1>7. Exclusive(data, jc) /\ Killed(data, jc, Owned, recovery)
  BY <1>0, <1>5, TameExclusion DEF Exclusion
<1>8. \A i \in DOMAIN data.stops : data.stops[i].pc # "settle"
  BY <1>0, <1>1 DEF Exclusion, Exclusive, Held
<1>9. Owned' \subseteq Owned \cup {j}
  BY <1>3 DEF Owned
<1>10. Killed(data, jc, Owned', recovery)
  BY <1>1, <1>5, <1>7, <1>8, <1>9 DEF Killed, JobsTame
<1>11. /\ Numbered(data, req) /\ DesiredIs(data, req, torn) /\ JobsAre(jc, req, torn)
       /\ RestartsAre(data, req, torn) /\ IntentsAre(data, intents, req, torn)
  BY <1>0, <1>5, TameNumbers DEF Numbers
<1> QED BY <1>3, <1>4, <1>6, <1>7, <1>10, <1>11 DEF IInv, Exclusion, Numbers

-----------------------------------------------------------------------------
(* Steps of a stop.                                                          *)

\* A stop comes to pc,
LEMMA GotoFacts ==
  ASSUME Types, NEW i \in DOMAIN data.stops, NEW pc, NEW e, e = StopGoto(i, pc)
  PROVE  /\ DataOK(e) /\ StopsOnly(data, e)
         /\ DOMAIN e.stops = DOMAIN data.stops /\ e.stops[i].pc = pc
         /\ \A k \in DOMAIN data.stops : k # i => e.stops[k] = data.stops[k]
<1>1. PICK x : x = [data.stops[i] EXCEPT !.pc = pc]
  OBVIOUS
<1>2. DOMAIN x = StopFields /\ x.pc = pc
  BY <1>1 DEF Types, DataOK, StopFields
<1>3. e = [data EXCEPT !.stops[i] = x]
  BY <1>1 DEF StopGoto
<1> QED BY <1>2, <1>3, StopMoves DEF Types

\* which is outside of the clean-up.
LEMMA TameGoto ==
  ASSUME Types, NEW i \in DOMAIN data.stops, NEW pc, pc \notin Held
  PROVE  Tame(data, StopGoto(i, pc))
<1>1. PICK e : e = StopGoto(i, pc)
  OBVIOUS
<1>2. /\ DataOK(e) /\ StopsOnly(data, e)
      /\ DOMAIN e.stops = DOMAIN data.stops /\ e.stops[i].pc = pc
      /\ \A k \in DOMAIN data.stops : k # i => e.stops[k] = data.stops[k]
  BY <1>1, GotoFacts
<1> QED BY <1>1, <1>2 DEF Tame, Calm, Idles, StopsOnly

\* The steps of a stop before it takes the mutex, and after it has left it.
LEMMA StopSteps ==
  ASSUME IInv, NEW i \in DOMAIN data.stops,
         StopBegin(i) \/ StopJoined(i) \/ StopJoinTimeout(i) \/ StopRestarts(i)
  PROVE  IInv'
<1>0. Types /\ DataOK(data)
  BY DEF IInv, Types
<1>1. JobsTame(jobs, jobs)
  BY <1>0, SameJobs
<1> SUFFICES Tame(data, data') /\ JobsTame(jobs, jobs') /\ cores' = cores
             /\ recovery \subseteq recovery' /\ UNCHANGED <<intents, req, torn, leaked>>
  BY TameStep
<1>2. CASE StopBegin(i)
  <2>1. PICK c : c = data.connectingJob
    OBVIOUS
  <2>2. JobsTame(jobs, jobs')
    BY <1>0, <1>1, <1>2, <2>1, JobIsCancelled DEF StopBegin
  <2>3. Tame(data, data')
    <3>1. CASE c = 0
      <4>1. "lock" \notin Held
        BY DEF Held
      <4>2. data' = StopGoto(i, "lock")
        BY <1>2, <2>1, <3>1 DEF StopBegin
      <4> QED BY <1>0, <4>1, <4>2, TameGoto
    <3>2. CASE c # 0
      <4>1. PICK f : f = StopGoto(i, "join")
        OBVIOUS
      <4>2. "join" \notin Held
        BY DEF Held
      <4>3. Tame(data, f) /\ DataOK(f) /\ DOMAIN f.stops = DOMAIN data.stops /\ f.stops[i].pc = "join"
        BY <1>0, <4>1, <4>2, GotoFacts, TameGoto
      <4>4. PICK e, x : e = data' /\ x = [f.stops[i] EXCEPT !.join = c]
        OBVIOUS
      <4>5. DOMAIN x = StopFields /\ x.pc = "join"
        BY <4>3, <4>4 DEF DataOK, StopFields
      <4>6. e = [f EXCEPT !.stops[i] = x]
        BY <1>2, <2>1, <3>2, <4>1, <4>4 DEF StopBegin
      <4>7. /\ DataOK(e) /\ StopsOnly(f, e)
            /\ DOMAIN e.stops = DOMAIN f.stops /\ e.stops[i] = x
            /\ \A k \in DOMAIN f.stops : k # i => e.stops[k] = f.stops[k]
        BY <4>3, <4>5, <4>6, StopMoves
      <4>8. Tame(f, e)
        BY <4>2, <4>5, <4>7 DEF Tame, Calm, Idles, StopsOnly
      <4> QED BY <4>3, <4>4, <4>8, TameChain
    <3> QED BY <3>1, <3>2
  <2> QED BY <1>2, <2>2, <2>3 DEF StopBegin, Quietly, Silently
<1>3. CASE StopJoined(i)
  <2>1. PICK e, x : e = data' /\ x = [data.stops[i] EXCEPT !.pc = "lock", !.join = 0]
    OBVIOUS
  <2>2. DOMAIN x = StopFields /\ x.pc = "lock" /\ "lock" \notin Held
    BY <1>0, <2>1 DEF DataOK, StopFields, Held
  <2>3. e = [data EXCEPT !.stops[i] = x]
    BY <1>0, <1>3, <2>1 DEF StopJoined, StopGoto, DataOK, DataFields, StopFields
  <2>4. /\ DataOK(e) /\ StopsOnly(data, e)
        /\ DOMAIN e.stops = DOMAIN data.stops /\ e.stops[i] = x
        /\ \A k \in DOMAIN data.stops : k # i => e.stops[k] = data.stops[k]
    BY <1>0, <2>2, <2>3, StopMoves
  <2>5. Tame(data, e)
    BY <2>2, <2>4 DEF Tame, Calm, Idles, StopsOnly
  <2> QED BY <1>1, <1>3, <2>1, <2>5 DEF StopJoined, Quietly, Silently
<1>4. CASE StopJoinTimeout(i)
  <2>1. PICK e : e = data'
    OBVIOUS
  <2>2. /\ DataOK(e) /\ StopsOnly(data, e)
        /\ DOMAIN e.stops = DOMAIN data.stops \ {i}
        /\ \A k \in DOMAIN e.stops : e.stops[k] = data.stops[k]
    BY <1>0, <1>4, <2>1, StopGone DEF StopJoinTimeout
  <2>3. Tame(data, e)
    BY <2>2 DEF Tame, Calm, Idles, StopsOnly
  <2> QED BY <1>1, <1>4, <2>1, <2>3 DEF StopJoinTimeout, Quietly, Silently
<1>5. CASE StopRestarts(i)
  BY <1>0, <1>1, <1>5, StartRunnerFacts DEF StopRestarts, Quietly, Silently
<1> QED BY <1>2, <1>3, <1>4, <1>5

\* What a step of the clean-up leaves alone.
LEMMA CleanUpStep ==
  ASSUME IInv, NEW e, DataOK(e), Idles(data, e), NEW cs, NEW rc,
         Exclusive(e, jobs), Killed(e, jobs, cs, rc),
         data' = e, Owned' = cs, recovery' = rc, UNCHANGED <<jobs, intents, req, torn>>
  PROVE  IInv'
<1>0. Types /\ Numbers
  BY DEF IInv
<1>1. Types'
  BY <1>0 DEF Types
<1>2. /\ Numbered(e, req) /\ DesiredIs(e, req, torn) /\ JobsAre(jobs, req, torn)
      /\ RestartsAre(e, req, torn) /\ IntentsAre(e, intents, req, torn)
  BY <1>0, SameJobs, TameNumbers DEF Numbers
<1> QED BY <1>1, <1>2 DEF IInv, Exclusion, Numbers

\* A stop that takes the mutex finds nobody in it.
LEMMA StopLockStep ==
  ASSUME IInv, NEW i \in DOMAIN data.stops, StopLock(i)
  PROVE  IInv'
<1>0. Types /\ DataOK(data) /\ Exclusion
  BY DEF IInv, Types
<1>1. PICK f : f = StopGoto(i, "kill")
  OBVIOUS
<1>2. /\ DataOK(f) /\ StopsOnly(data, f)
      /\ DOMAIN f.stops = DOMAIN data.stops /\ f.stops[i].pc = "kill"
      /\ \A k \in DOMAIN data.stops : k # i => f.stops[k] = data.stops[k]
  BY <1>0, <1>1, GotoFacts
<1>3. PICK e, x : e = data' /\ x = [f.stops[i] EXCEPT !.restart = ShouldRestart(data, @)]
  OBVIOUS
<1>4. DOMAIN x = StopFields /\ x.pc = "kill"
  BY <1>2, <1>3 DEF DataOK, StopFields
<1>5. e = [f EXCEPT !.stops[i] = x]
  BY <1>1, <1>3 DEF StopLock
<1>6. /\ DataOK(e) /\ StopsOnly(f, e)
      /\ DOMAIN e.stops = DOMAIN f.stops /\ e.stops[i] = x
      /\ \A k \in DOMAIN f.stops : k # i => e.stops[k] = f.stops[k]
  BY <1>2, <1>4, <1>5, StopMoves
<1>7. /\ DOMAIN e.stops = DOMAIN data.stops /\ e.stops[i].pc = "kill"
      /\ \A k \in DOMAIN data.stops : k # i => e.stops[k].pc \notin Held
  BY <1>2, <1>4, <1>6 DEF StopLock, MutexFree, Held
<1>8. Exclusive(e, jobs)
  <2>1. \A k \in DOMAIN jobs : jobs[k].pc \notin Inside
    BY DEF StopLock, MutexFree, Inside
  <2> QED BY <1>7, <2>1 DEF Exclusive
<1>9. Killed(e, jobs, Owned, recovery)
  BY <1>0, <1>2, <1>6, <1>7 DEF Exclusion, Killed, StopsOnly, Held
<1>10. Idles(data, e)
  BY <1>2, <1>6 DEF Idles, StopsOnly
<1>11. /\ Owned' = Owned /\ recovery' = recovery
       /\ UNCHANGED <<jobs, intents, req, torn>>
  BY DEF StopLock, Quietly, Silently, Owned
<1> QED BY <1>3, <1>6, <1>8, <1>9, <1>10, <1>11, CleanUpStep

\* killProcesses closes the core, or fails before it has, or times out.
LEMMA StopKillStep ==
  ASSUME IInv, NEW i \in DOMAIN data.stops, StopKill(i) \/ StopKillFails(i) \/ StopKillTimeout(i)
  PROVE  IInv'
<1>0. Types /\ DataOK(data) /\ Exclusion
  BY DEF IInv, Types
<1>1. PICK e, pc : /\ e = StopGoto(i, pc) /\ e = data'
                   /\ \/ pc = "settle" /\ Owned' = Owned \ {data.proxy}
                      \/ pc = "timedOut" /\ Owned' = Owned
  BY DEF StopKill, StopKillFails, StopKillTimeout, Quietly, Owned
<1>2. /\ DataOK(e) /\ StopsOnly(data, e)
      /\ DOMAIN e.stops = DOMAIN data.stops /\ e.stops[i].pc = pc
      /\ \A k \in DOMAIN data.stops : k # i => e.stops[k] = data.stops[k]
  <2>1. e = StopGoto(i, pc)
    BY <1>1
  <2> QED BY <1>0, <2>1, GotoFacts
<1>3. At(i, "kill") /\ UNCHANGED <<jobs, recovery, intents, req, torn>>
  BY DEF StopKill, StopKillFails, StopKillTimeout, Quietly, Silently
<1>4. data.stops[i].pc \in Held
  BY <1>3 DEF At, Held
<1>5. Exclusive(e, jobs)
  BY <1>0, <1>2, <1>4 DEF Exclusion, Exclusive
<1>6. PICK cs : cs = Owned'
  OBVIOUS
<1>7. Killed(e, jobs, cs, recovery)
  BY <1>0, <1>1, <1>2, <1>6 DEF Exclusion, Killed, StopsOnly
<1>8. Idles(data, e)
  BY <1>2 DEF Idles, StopsOnly
<1> QED BY <1>1, <1>2, <1>3, <1>5, <1>6, <1>7, <1>8, CleanUpStep

\* The core that is forgotten has been closed, or the process is to be replaced.
LEMMA StopSettleStep ==
  ASSUME IInv, NEW i \in DOMAIN data.stops, StopSettle(i)
  PROVE  IInv'
<1>0. Types /\ DataOK(data) /\ Exclusion
  BY DEF IInv, Types
<1> DEFINE s == data.stops[i]
           restart == ShouldRestart(data, s.restart)
           d0 == [data EXCEPT !.state = "Stopped", !.proxy = 0, !.registered = @ /\ restart,
                              !.pending = FALSE, !.pendingAuto = FALSE]
<1>1. PICK d : d = d0
  OBVIOUS
<1>2. /\ DOMAIN d = DataFields /\ d.state = "Stopped" /\ d.desired = data.desired
      /\ d.latest = data.latest /\ d.proxy = 0 /\ d.stops = data.stops
      /\ d.restarts = data.restarts
  BY <1>0, <1>1 DEF DataOK, DataFields
<1>3. DataOK(d)
  BY <1>0, <1>2 DEF DataOK
<1>4. PICK e : e = data'
  OBVIOUS
<1>5. \/ e = StopEnds(d, i)
      \/ e = [d EXCEPT !.stops[i].pc = "delay", !.stops[i].auto = @ \/ data.pendingAuto]
  BY <1>1, <1>4 DEF StopSettle
<1>6. s.pc \in {"settle", "timedOut"} /\ UNCHANGED <<jobs, intents, req, torn>> /\ Owned' = Owned
  BY DEF StopSettle, At, Quietly, Silently, Owned
<1>7. recovery \subseteq recovery' /\ (s.pc = "timedOut" => recovery' # {})
  BY DEF StopSettle
<1> HIDE DEF s, restart, d0
<1>8. /\ DataOK(e) /\ StopsOnly(d, e) /\ DOMAIN e.stops \subseteq DOMAIN data.stops
      /\ \A k \in DOMAIN e.stops : \/ k # i /\ e.stops[k] = data.stops[k]
                                   \/ e.stops[k].pc = "delay"
  <2>1. CASE e = StopEnds(d, i)
    <3>1. /\ DataOK(e) /\ StopsOnly(d, e)
          /\ DOMAIN e.stops = DOMAIN d.stops \ {i}
          /\ \A k \in DOMAIN e.stops : e.stops[k] = d.stops[k]
      BY <1>3, <2>1, StopGone
    <3> QED BY <1>2, <3>1
  <2>2. CASE e = [d EXCEPT !.stops[i].pc = "delay", !.stops[i].auto = @ \/ data.pendingAuto]
    <3>1. PICK x : x = [d.stops[i] EXCEPT !.pc = "delay", !.auto = @ \/ data.pendingAuto]
      OBVIOUS
    <3>2. DOMAIN x = StopFields /\ x.pc = "delay"
      BY <1>2, <1>3, <3>1 DEF DataOK, StopFields
    <3>3. i \in DOMAIN d.stops
      BY <1>2
    <3>4. e = [d EXCEPT !.stops[i] = x]
      BY <1>2, <1>3, <2>2, <3>1, <3>3 DEF DataOK, DataFields, StopFields
    <3>5. /\ DataOK(e) /\ StopsOnly(d, e)
          /\ DOMAIN e.stops = DOMAIN d.stops /\ e.stops[i] = x
          /\ \A k \in DOMAIN d.stops : k # i => e.stops[k] = d.stops[k]
      BY <1>3, <3>2, <3>3, <3>4, StopMoves
    <3> QED BY <1>2, <3>2, <3>5
  <2> QED BY <1>5, <2>1, <2>2
<1>9. s.pc \in Held /\ "delay" \notin Held
  BY <1>6 DEF Held
<1>10. \A k \in DOMAIN e.stops : e.stops[k].pc \notin Held
  BY <1>0, <1>8, <1>9 DEF Exclusion, Exclusive, s
<1>11. Exclusive(e, jobs)
  BY <1>0, <1>10 DEF Exclusion, Exclusive
<1>12. Killed(e, jobs, Owned, recovery')
  <2>1. \A c \in Owned : recovery' # {}
    <3>1. Killed(data, jobs, Owned, recovery)
      BY <1>0 DEF Exclusion
    <3>2. CASE s.pc = "settle"
      BY <1>7, <3>1, <3>2 DEF Killed, s
    <3>3. CASE s.pc = "timedOut"
      BY <1>7, <3>3
    <3> QED BY <1>6, <3>2, <3>3
  <2>2. \A k \in DOMAIN e.stops : e.stops[k].pc # "settle"
    BY <1>10 DEF Held
  <2>3. e.proxy = 0
    BY <1>2, <1>8 DEF StopsOnly
  <2> QED BY <1>0, <2>1, <2>2, <2>3 DEF Exclusion, Killed
<1>13. Idles(data, e)
  BY <1>2, <1>8 DEF Idles, StopsOnly
<1> QED BY <1>4, <1>6, <1>8, <1>11, <1>12, <1>13, CleanUpStep

-----------------------------------------------------------------------------
(* Requests and restarts: who may act on a number.                           *)

\* A number of the past means the same when there are more requests.
LEMMA StableRequests ==
  ASSUME IsSeq(req), Numbered(data, req), NEW x, NEW rq, rq = Append(req, x),
         x.app \in 0 .. Len(req) + 1
  PROVE  /\ IsSeq(rq) /\ Len(req) \in Nat /\ Len(rq) = Len(req) + 1 /\ rq[Len(rq)] = x
         /\ \A n \in 0 .. Len(req) : n \in 0 .. Len(rq) /\ NoStop(rq, n) = NoStop(req, n)
         /\ \A n \in 0 .. Len(req) : App(rq, n) = App(req, n) /\ App(req, n) \in 0 .. Len(req)
         /\ Numbered(data, rq)
         /\ \A n \in 1 .. Len(req) : rq[n] = req[n]
<1>1. /\ IsSeq(rq) /\ Len(req) \in Nat /\ Len(rq) = Len(req) + 1
      /\ DOMAIN req = 1 .. Len(req) /\ DOMAIN rq = 1 .. Len(rq)
      /\ rq[Len(req) + 1] = x /\ \A k \in DOMAIN req : rq[k] = req[k]
  <2>1. Grown(req, x, rq)
    BY AppendFacts
  <2> QED BY <2>1 DEF Grown
<1>2. ASSUME NEW n \in 0 .. Len(req)
      PROVE  App(rq, n) = App(req, n) /\ App(req, n) \in 0 .. Len(req)
  BY <1>1 DEF App, Numbered
<1>3. ASSUME NEW n \in 0 .. Len(req)
      PROVE  n \in 0 .. Len(rq) /\ NoStop(rq, n) = NoStop(req, n)
  <2>1. App(rq, n) = App(req, n) /\ App(req, n) \in 0 .. Len(req)
    BY <1>2
  <2>2. App(req, n) # 0 => rq[App(req, n)] = req[App(req, n)]
    BY <1>1, <2>1
  <2> QED BY <1>1, <2>1, <2>2 DEF NoStop
<1>4. Numbered(data, rq)
  <2>1. \A r \in DOMAIN rq : rq[r].app \in 0 .. Len(rq)
    BY <1>1 DEF Numbered
  <2> QED BY <1>1, <2>1 DEF Numbered
<1> QED BY <1>1, <1>2, <1>3, <1>4

\* What held of numbers before a request was added holds after it.
LEMMA MoreRequests ==
  ASSUME IInv, NEW x, NEW rq, rq = Append(req, x), x.app \in 0 .. Len(req) + 1
  PROVE  /\ Numbered(data, rq) /\ DesiredIs(data, rq, torn) /\ JobsAre(jobs, rq, torn)
         /\ RestartsAre(data, rq, torn) /\ IntentsAre(data, intents, rq, torn)
<1>0. IsSeq(req) /\ Numbers /\ Numbered(data, req)
  BY DEF IInv, Types, Numbers
<1>1. /\ \A n \in 0 .. Len(req) : n \in 0 .. Len(rq) /\ NoStop(rq, n) = NoStop(req, n)
      /\ Numbered(data, rq)
  BY <1>0, StableRequests
<1>2. DesiredIs(data, rq, torn)
  BY <1>0, <1>1 DEF Numbers, DesiredIs, Numbered
<1>3. JobsAre(jobs, rq, torn)
  BY <1>0, <1>1 DEF Numbers, JobsAre
<1>4. RestartsAre(data, rq, torn)
  BY <1>0, <1>1 DEF Numbers, RestartsAre
<1>5. IntentsAre(data, intents, rq, torn)
  BY <1>0, <1>1 DEF Numbers, IntentsAre, StartIs, CloseIs
<1> QED BY <1>1, <1>2, <1>3, <1>4, <1>5

\* An intent is sent: what holds of all intents holds of one more.
LEMMA SentFacts ==
  ASSUME Types, NEW i, NEW it, it = Sent(i), NEW d, NEW rq, NEW tn,
         IntentsAre(d, intents, rq, tn),
         IF i.kind = "CLOSE" THEN CloseIs(i, rq) ELSE StartIs(i, d.latest, rq, tn)
  PROVE  /\ DOMAIN it = {"start", "close"} /\ IsSeq(it.start) /\ IsSeq(it.close)
         /\ IntentsAre(d, it, rq, tn)
<1>1. CASE i.kind = "CLOSE"
  <2>1. /\ DOMAIN it = {"start", "close"} /\ it.start = intents.start
        /\ it.close = Append(intents.close, i)
    BY <1>1 DEF Sent, Types
  <2>2. PICK t : t = it.close
    OBVIOUS
  <2>3. /\ IsSeq(t) /\ Len(intents.close) \in Nat /\ Len(t) = Len(intents.close) + 1
        /\ DOMAIN intents.close = 1 .. Len(intents.close) /\ DOMAIN t = 1 .. Len(t)
        /\ t[Len(intents.close) + 1] = i
        /\ \A k \in DOMAIN intents.close : t[k] = intents.close[k]
    <3>1. Grown(intents.close, i, t)
      BY <2>1, <2>2, AppendFacts DEF Types
    <3> QED BY <3>1 DEF Grown
  <2>4. ASSUME NEW k \in DOMAIN t PROVE CloseIs(t[k], rq)
    <3>1. CASE k = Len(intents.close) + 1
      BY <1>1, <2>3, <3>1
    <3>2. CASE k \in DOMAIN intents.close
      BY <2>3, <3>2 DEF IntentsAre
    <3> QED BY <2>3, <2>4, <3>1, <3>2
  <2> QED BY <2>1, <2>2, <2>3, <2>4 DEF IntentsAre, Types
<1>2. CASE i.kind # "CLOSE"
  <2>1. /\ DOMAIN it = {"start", "close"} /\ it.close = intents.close
        /\ it.start = Append(intents.start, i)
    BY <1>2 DEF Sent, Types
  <2>2. PICK t : t = it.start
    OBVIOUS
  <2>3. /\ IsSeq(t) /\ Len(intents.start) \in Nat /\ Len(t) = Len(intents.start) + 1
        /\ DOMAIN intents.start = 1 .. Len(intents.start) /\ DOMAIN t = 1 .. Len(t)
        /\ t[Len(intents.start) + 1] = i
        /\ \A k \in DOMAIN intents.start : t[k] = intents.start[k]
    <3>1. Grown(intents.start, i, t)
      BY <2>1, <2>2, AppendFacts DEF Types
    <3> QED BY <3>1 DEF Grown
  <2>4. ASSUME NEW k \in DOMAIN t PROVE StartIs(t[k], d.latest, rq, tn)
    <3>1. CASE k = Len(intents.start) + 1
      BY <1>2, <2>3, <3>1
    <3>2. CASE k \in DOMAIN intents.start
      BY <2>3, <3>2 DEF IntentsAre
    <3> QED BY <2>3, <2>4, <3>1, <3>2
  <2> QED BY <2>1, <2>2, <2>3, <2>4 DEF IntentsAre, Types
<1> QED BY <1>1, <1>2

\* The app makes a request: its intent fits its number.
LEMMA RequestStep ==
  ASSUME IInv, NEW kind \in Kinds, NEW p, Request(kind, p)
  PROVE  IInv'
<1>0. Types /\ IsSeq(req) /\ Numbered(data, req) /\ Exclusion
  BY DEF IInv, Types, Numbers
<1>1. PICK n : n = Len(req) + 1
  OBVIOUS
<1>2. PICK x, i : /\ x = [kind |-> kind, profile |-> p, app |-> n]
                  /\ i = [kind |-> kind, profile |-> p, id |-> n, auto |-> FALSE]
  OBVIOUS
<1>3. PICK rq, it : rq = Append(req, x) /\ it = Sent(i)
  OBVIOUS
<1>4. /\ req' = rq /\ intents' = it /\ UNCHANGED <<data, jobs, cores, leaked, recovery, torn>>
      /\ kind = "START" => p # 0
      /\ kind = "CLOSE" => p = 0
  BY <1>1, <1>2, <1>3 DEF Request, history
<1>5. Len(req) \in Nat
  <2>1. PICK S : req \in Seq(S)
    BY <1>0 DEF IsSeq
  <2> QED BY <2>1
<1>6. x.app = n /\ n \in 0 .. Len(req) + 1
  BY <1>1, <1>2, <1>5
<1>7. /\ Numbered(data, rq) /\ DesiredIs(data, rq, torn) /\ JobsAre(jobs, rq, torn)
      /\ RestartsAre(data, rq, torn) /\ IntentsAre(data, intents, rq, torn)
  BY <1>3, <1>6, MoreRequests
<1>8. IsSeq(rq) /\ Len(rq) = n /\ rq[n] = x
  <2>1. IsSeq(rq) /\ Len(rq) = Len(req) + 1 /\ rq[Len(rq)] = x
    BY <1>0, <1>3, <1>6, StableRequests, Zenon
  <2> QED BY <1>1, <2>1
<1>9. App(rq, n) = n /\ n # 0 /\ n \in 0 .. Len(rq)
  BY <1>1, <1>5, <1>6, <1>8 DEF App
<1>10. IF i.kind = "CLOSE" THEN CloseIs(i, rq) ELSE StartIs(i, data.latest, rq, torn)
  <2>1. i.kind = kind /\ i.profile = p /\ i.id = n /\ x.kind = kind /\ x.profile = p
    BY <1>2
  <2>2. kind # "CLOSE" /\ p # 0 => NoStop(rq, n)
    BY <1>8, <1>9, <2>1 DEF NoStop
  <2> QED BY <1>4, <1>9, <2>1, <2>2 DEF CloseIs, StartIs, Kinds
<1>11. /\ DOMAIN it = {"start", "close"} /\ IsSeq(it.start) /\ IsSeq(it.close)
       /\ IntentsAre(data, it, rq, torn)
  BY <1>0, <1>3, <1>7, <1>10, SentFacts
<1>12. Types'
  BY <1>0, <1>4, <1>8, <1>11 DEF Types
<1>13. Exclusion'
  BY <1>0, <1>4 DEF Exclusion, Owned
<1>14. Numbers'
  BY <1>4, <1>7, <1>11 DEF Numbers
<1> QED BY <1>12, <1>13, <1>14 DEF IInv

\* A broadcast of the system has a number that goes back to the request accepted before.
LEMMA BroadcastStep ==
  ASSUME IInv, SystemBroadcast
  PROVE  IInv'
<1>0. Types /\ DataOK(data) /\ IsSeq(req) /\ Numbered(data, req) /\ Exclusion
  BY DEF IInv, Types, Numbers
<1>1. PICK n, a : n = Len(req) + 1 /\ a = App(req, data.latest)
  OBVIOUS
<1>2. PICK x : x = [kind |-> "SYSTEM", profile |-> 0, app |-> a]
  OBVIOUS
<1>3. PICK rq, e : rq = Append(req, x) /\ e = data'
  OBVIOUS
<1>4. /\ req' = rq /\ e = [data EXCEPT !.latest = n]
      /\ UNCHANGED <<intents, jobs, cores, leaked, recovery, torn>>
  BY <1>1, <1>2, <1>3 DEF SystemBroadcast, AppRequest, App
<1>5. Len(req) \in Nat
  <2>1. PICK S : req \in Seq(S)
    BY <1>0 DEF IsSeq
  <2> QED BY <2>1
<1>6. a \in 0 .. Len(req) /\ data.latest \in 0 .. Len(req)
  <2>1. DOMAIN req = 1 .. Len(req)
    <3>1. PICK S : req \in Seq(S)
      BY <1>0 DEF IsSeq
    <3> QED BY <3>1
  <2> QED BY <1>0, <1>1, <1>5, <2>1 DEF App, Numbered
<1>7. x.app = a /\ a \in 0 .. Len(req) + 1
  BY <1>2, <1>5, <1>6
<1>8. /\ Numbered(data, rq) /\ DesiredIs(data, rq, torn) /\ JobsAre(jobs, rq, torn)
      /\ RestartsAre(data, rq, torn) /\ IntentsAre(data, intents, rq, torn)
  BY <1>3, <1>7, MoreRequests
<1>9. /\ IsSeq(rq) /\ Len(rq) = n /\ rq[n] = x /\ App(rq, data.latest) = a
  <2>1. IsSeq(rq) /\ Len(rq) = Len(req) + 1 /\ rq[Len(rq)] = x
        /\ App(rq, data.latest) = App(req, data.latest)
    BY <1>0, <1>3, <1>6, <1>7, StableRequests, Zenon
  <2> QED BY <1>1, <2>1
<1>10. /\ DOMAIN e = DataFields /\ e.state = data.state /\ e.desired = data.desired
       /\ e.latest = n /\ e.proxy = data.proxy /\ e.stops = data.stops
       /\ e.restarts = data.restarts
  BY <1>0, <1>4 DEF DataOK, DataFields
<1>11. DataOK(e)
  BY <1>0, <1>10 DEF DataOK
<1>12. Exclusive(e, jobs) /\ Killed(e, jobs, Owned, recovery)
  BY <1>0, <1>10 DEF Exclusion, Exclusive, Killed
<1>13. NoStop(rq, n) = NoStop(rq, data.latest) /\ n \in 0 .. Len(rq) /\ data.latest <= n
  <2>1. App(rq, n) = a
    BY <1>1, <1>5, <1>7, <1>9 DEF App
  <2>2. NoStop(rq, n) = NoStop(rq, data.latest)
    BY <1>9, <2>1 DEF NoStop
  <2> QED BY <1>1, <1>5, <1>6, <1>9, <2>2
<1>14. Numbered(e, rq) /\ DesiredIs(e, rq, torn) /\ RestartsAre(e, rq, torn)
  BY <1>8, <1>10, <1>13 DEF Numbered, DesiredIs, RestartsAre
<1>15. IntentsAre(e, intents, rq, torn)
  <2>1. ASSUME NEW k \in DOMAIN intents.start
        PROVE  StartIs(intents.start[k], n, rq, torn)
    <3>1. StartIs(intents.start[k], data.latest, rq, torn)
      BY <1>8 DEF IntentsAre
    <3> QED BY <1>1, <1>5, <1>6, <1>9, <1>13, <3>1 DEF StartIs
  <2> QED BY <1>8, <1>10, <2>1 DEF IntentsAre
<1>16. Types'
  BY <1>0, <1>3, <1>4, <1>9, <1>11 DEF Types
<1> QED BY <1>3, <1>4, <1>8, <1>12, <1>14, <1>15, <1>16 DEF IInv, Exclusion, Numbers, Owned

\* What a restart has read is what the service wants.
LEMMA RestartSteps ==
  ASSUME IInv, NEW k \in DOMAIN data.restarts, RestartStep(k)
  PROVE  IInv'
<1>0. Types /\ DataOK(data) /\ Exclusion /\ Numbers
  BY DEF IInv, Types
<1>1. UNCHANGED <<jobs, cores, leaked, req, recovery>>
  BY DEF RestartStep
<1>2. JobsTame(jobs, jobs)
  BY <1>0, SameJobs
<1>3. CASE RestartCheck(k)
  <2>1. PICK e, x : e = data' /\ x = [data.restarts[k] EXCEPT !.pc = "checked"]
    OBVIOUS
  <2>2. DOMAIN x = RestartFields /\ x.pc = "checked"
    BY <1>0, <2>1 DEF DataOK, RestartFields
  <2>3. e = [data EXCEPT !.restarts[k] = x]
    BY <1>3, <2>1 DEF RestartCheck
  <2>4. /\ DataOK(e) /\ RestartsOnly(data, e)
        /\ DOMAIN e.restarts = DOMAIN data.restarts /\ e.restarts[k] = x
        /\ \A m \in DOMAIN data.restarts : m # k => e.restarts[m] = data.restarts[m]
    BY <1>0, <2>2, <2>3, RestartMoves
  <2>5. Tame(data, e)
    BY <2>2, <2>4 DEF Tame, Calm, Idles, RestartsOnly
  <2>6. UNCHANGED <<intents, torn>>
    BY <1>3 DEF RestartCheck
  <2> QED BY <1>1, <1>2, <2>1, <2>5, <2>6, TameStep
<1>4. CASE RestartRead(k)
  <2>1. PICK e, x : /\ e = data'
                    /\ x = [data.restarts[k] EXCEPT !.pc = "read", !.profile = data.desired,
                                                    !.latest = data.latest]
    OBVIOUS
  <2>2. /\ DOMAIN x = RestartFields /\ x.pc = "read" /\ x.profile = data.desired
        /\ x.latest = data.latest
    BY <1>0, <2>1 DEF DataOK, RestartFields
  <2>3. e = [data EXCEPT !.restarts[k] = x]
    BY <1>4, <2>1 DEF RestartRead
  <2>4. /\ DataOK(e) /\ RestartsOnly(data, e)
        /\ DOMAIN e.restarts = DOMAIN data.restarts /\ e.restarts[k] = x
        /\ \A m \in DOMAIN data.restarts : m # k => e.restarts[m] = data.restarts[m]
    BY <1>0, <2>2, <2>3, RestartMoves
  <2>5. Exclusive(e, jobs) /\ Killed(e, jobs, Owned, recovery)
    BY <1>0, <2>4 DEF Exclusion, Exclusive, Killed, RestartsOnly
  <2>6. Numbered(e, req) /\ DesiredIs(e, req, torn) /\ IntentsAre(e, intents, req, torn)
    BY <1>0, <2>4 DEF Numbers, Numbered, DesiredIs, IntentsAre, RestartsOnly
  <2>7. RestartsAre(e, req, torn)
    <3>1. ASSUME NEW m \in DOMAIN e.restarts, e.restarts[m].pc = "read"
          PROVE  /\ e.restarts[m].latest \in 0 .. Len(req)
                 /\ torn \/ e.restarts[m].profile = 0 \/ NoStop(req, e.restarts[m].latest)
      <4>1. CASE m = k
        BY <1>0, <2>2, <2>4, <4>1 DEF Numbers, Numbered, DesiredIs
      <4>2. CASE m # k
        BY <1>0, <2>4, <3>1, <4>2 DEF Numbers, RestartsAre
      <4> QED BY <4>1, <4>2
    <3> QED BY <3>1 DEF RestartsAre
  <2>8. UNCHANGED <<intents, torn>>
    BY <1>4 DEF RestartRead
  <2>9. Types'
    BY <1>0, <1>1, <2>1, <2>4, <2>8 DEF Types
  <2> QED BY <1>0, <1>1, <2>1, <2>5, <2>6, <2>7, <2>8, <2>9
       DEF IInv, Exclusion, Numbers, Owned
<1>5. CASE RestartSend(k)
  <2>1. PICK e, r, tn : e = data' /\ r = data.restarts[k] /\ tn = torn'
    OBVIOUS
  <2>2. /\ r.pc = "read" /\ (tn <=> (torn \/ r.latest # data.latest))
        /\ e = [data EXCEPT !.restarts = Restrict(@, DOMAIN @ \ {k})]
    BY <1>5, <2>1 DEF RestartSend, Waits
  <2>3. PICK i, it : /\ i = [kind |-> "START", profile |-> r.profile, id |-> data.latest,
                             auto |-> r.auto]
                     /\ it = Sent(i)
    OBVIOUS
  <2>4. intents' = it
    BY <1>5, <2>1, <2>3 DEF RestartSend
  <2>5. /\ DataOK(e) /\ RestartsOnly(data, e)
        /\ DOMAIN e.restarts = DOMAIN data.restarts \ {k}
        /\ \A m \in DOMAIN e.restarts : e.restarts[m] = data.restarts[m]
    <3>1. e = RestartEnds(data, k)
      BY <2>2 DEF RestartEnds
    <3> QED BY <1>0, <3>1, RestartGone
  <2>6. Exclusive(e, jobs) /\ Killed(e, jobs, Owned, recovery)
    BY <1>0, <2>5 DEF Exclusion, Exclusive, Killed, RestartsOnly
  <2>7. Numbered(e, req) /\ DesiredIs(e, req, tn) /\ JobsAre(jobs, req, tn)
    BY <1>0, <2>2, <2>5 DEF Numbers, Numbered, DesiredIs, JobsAre, RestartsOnly
  <2>8. RestartsAre(e, req, tn)
    BY <1>0, <2>2, <2>5 DEF Numbers, RestartsAre
  <2>9. IntentsAre(e, intents, req, tn)
    BY <1>0, <2>2, <2>5 DEF Numbers, IntentsAre, StartIs, RestartsOnly
  <2>10. tn \/ r.profile = 0 \/ NoStop(req, data.latest)
    BY <1>0, <2>1, <2>2 DEF Numbers, RestartsAre
  <2>11. data.latest \in 0 .. Len(req) /\ data.latest <= data.latest
    BY <1>0 DEF Numbers, Numbered
  <2>12. i.kind = "START" /\ i.profile = r.profile /\ i.id = data.latest /\ e.latest = data.latest
    BY <2>3, <2>5 DEF RestartsOnly
  <2>13. StartIs(i, e.latest, req, tn)
    BY <2>10, <2>11, <2>12 DEF StartIs
  <2>14. /\ DOMAIN it = {"start", "close"} /\ IsSeq(it.start) /\ IsSeq(it.close)
         /\ IntentsAre(e, it, req, tn)
    BY <1>0, <2>3, <2>9, <2>12, <2>13, SentFacts
  <2>15. Types'
    BY <1>0, <1>1, <2>1, <2>4, <2>5, <2>14 DEF Types
  <2> QED
    BY <1>1, <2>1, <2>4, <2>6, <2>7, <2>8, <2>14, <2>15
    DEF IInv, Exclusion, Numbers, Owned
<1> QED BY <1>3, <1>4, <1>5 DEF RestartStep

-----------------------------------------------------------------------------
(* Intents that are delivered.                                               *)

\* An intent is taken from its queue: it is as intents are, and so are the others.
LEMMA TakenFacts ==
  ASSUME Types, NEW c \in DOMAIN intents, intents[c] # << >>,
         NEW it, it = [intents EXCEPT ![c] = Tail(@)],
         NEW d, NEW rq, NEW tn, IntentsAre(d, intents, rq, tn), NEW i, i = Head(intents[c])
  PROVE  /\ DOMAIN it = {"start", "close"} /\ IsSeq(it.start) /\ IsSeq(it.close)
         /\ CloseIs(i, rq) \/ StartIs(i, d.latest, rq, tn)
         /\ \A e : IntentsAre(e, intents, rq, tn) => IntentsAre(e, it, rq, tn)
<1>1. PICK s, t : s = intents[c] /\ t = Tail(s)
  OBVIOUS
<1>2. IsSeq(s)
  BY <1>1 DEF Types
<1>3. /\ IsSeq(t) /\ 1 \in DOMAIN s /\ Head(s) = s[1]
      /\ \A k \in DOMAIN t : k + 1 \in DOMAIN s /\ t[k] = s[k + 1]
  <2>1. s # << >> /\ t = Tail(s)
    BY <1>1
  <2> QED BY <1>2, <2>1, TailFacts, Zenon
<1>4. CASE c = "start"
  <2>1. /\ DOMAIN it = {"start", "close"} /\ it.start = t /\ it.close = intents.close
        /\ s = intents.start
    BY <1>1, <1>4 DEF Types
  <2>2. StartIs(i, d.latest, rq, tn)
    BY <1>1, <1>3, <2>1 DEF IntentsAre
  <2>3. ASSUME NEW e, IntentsAre(e, intents, rq, tn) PROVE IntentsAre(e, it, rq, tn)
    BY <1>3, <2>1, <2>3 DEF IntentsAre
  <2> QED BY <1>3, <2>1, <2>2, <2>3 DEF Types
<1>5. CASE c = "close"
  <2>1. /\ DOMAIN it = {"start", "close"} /\ it.close = t /\ it.start = intents.start
        /\ s = intents.close
    BY <1>1, <1>5 DEF Types
  <2>2. CloseIs(i, rq)
    BY <1>1, <1>3, <2>1 DEF IntentsAre
  <2>3. ASSUME NEW e, IntentsAre(e, intents, rq, tn) PROVE IntentsAre(e, it, rq, tn)
    BY <1>3, <2>1, <2>3 DEF IntentsAre
  <2> QED BY <1>3, <2>1, <2>2, <2>3 DEF Types
<1> QED BY <1>4, <1>5 DEF Types

\* e is d with a newer request accepted, and perhaps another profile wanted.
Accepts(d, e) ==
  /\ DOMAIN e = DataFields /\ e.state = d.state /\ e.proxy = d.proxy
  /\ e.stops = d.stops /\ e.restarts = d.restarts

\* The invariant, with e for data and jc for jobs.
Good(e, jc) ==
  /\ DataOK(e) /\ Exclusive(e, jc) /\ Killed(e, jc, Owned, recovery)
  /\ Numbered(e, req) /\ DesiredIs(e, req, torn) /\ JobsAre(jc, req, torn)
  /\ RestartsAre(e, req, torn) /\ IntentsAre(e, intents, req, torn)

\* A newer request is accepted, and the profile that is wanted fits it.
LEMMA AcceptFacts ==
  ASSUME IInv, NEW e, Accepts(data, e), e.latest \in 0 .. Len(req), e.latest >= data.latest,
         torn \/ e.desired = 0 \/ NoStop(req, e.latest)
  PROVE  Good(e, jobs)
<1>0. Types /\ DataOK(data) /\ Exclusion /\ Numbers
  BY DEF IInv, Types
<1>1. DataOK(e)
  BY <1>0 DEF DataOK, Accepts
<1>2. Exclusive(e, jobs) /\ Killed(e, jobs, Owned, recovery)
  BY <1>0 DEF Exclusion, Exclusive, Killed, Accepts
<1>3. Numbered(e, req) /\ DesiredIs(e, req, torn) /\ RestartsAre(e, req, torn)
  BY <1>0 DEF Numbers, Numbered, DesiredIs, RestartsAre, Accepts
<1>4. Len(req) \in Nat
  <2>1. PICK S : req \in Seq(S)
    BY <1>0 DEF Types, IsSeq
  <2> QED BY <2>1
<1>5. IntentsAre(e, intents, req, torn)
  <2>1. ASSUME NEW k \in DOMAIN intents.start
        PROVE  StartIs(intents.start[k], e.latest, req, torn)
    <3>1. StartIs(intents.start[k], data.latest, req, torn)
      BY <1>0 DEF Numbers, IntentsAre
    <3>2. data.latest \in 0 .. Len(req)
      BY <1>0 DEF Numbers, Numbered
    <3> QED BY <1>4, <3>1, <3>2 DEF StartIs
  <2> QED BY <1>0, <2>1 DEF Numbers, IntentsAre
<1> QED BY <1>0, <1>1, <1>2, <1>3, <1>5 DEF Good, Numbers

\* Methods are called after that.
LEMMA TameGood ==
  ASSUME Types, NEW d, Good(d, jobs), NEW e, Tame(d, e)
  PROVE  Good(e, jobs)
<1>1. JobsTame(jobs, jobs)
  BY SameJobs
<1>2. Exclusive(e, jobs) /\ Killed(e, jobs, Owned, recovery)
  BY <1>1, TameExclusion DEF Good, Tame
<1>3. /\ Numbered(e, req) /\ DesiredIs(e, req, torn) /\ JobsAre(jobs, req, torn)
      /\ RestartsAre(e, req, torn) /\ IntentsAre(e, intents, req, torn)
  BY <1>1, TameNumbers DEF Good, Tame
<1> QED BY <1>2, <1>3 DEF Good, Tame

\* A newer request is accepted, with the profile p, and methods are called.
LEMMA AcceptThenTame ==
  ASSUME IInv, NEW n \in 0 .. Len(req), n >= data.latest, NEW p,
         torn \/ p = 0 \/ NoStop(req, n),
         NEW e, Tame([[data EXCEPT !.latest = n] EXCEPT !.desired = p], e)
  PROVE  Good(e, jobs)
<1>0. Types /\ DataOK(data)
  BY DEF IInv, Types
<1>1. PICK d : d = [[data EXCEPT !.latest = n] EXCEPT !.desired = p]
  OBVIOUS
<1>2. Accepts(data, d) /\ d.latest = n /\ d.desired = p
  BY <1>0, <1>1 DEF Accepts, DataOK, DataFields
<1>3. Good(d, jobs)
  BY <1>2, AcceptFacts
<1> QED BY <1>0, <1>1, <1>3, TameGood

\* A newer request to stop is accepted.
LEMMA AcceptThenStop ==
  ASSUME IInv, NEW n \in 0 .. Len(req), n >= data.latest, NEW d,
         Accepts(data, d), d.latest = n,
         NEW e, e = StopRunner(d, FALSE, FALSE)
  PROVE  Good(e, jobs)
<1>0. Types /\ DataOK(data)
  BY DEF IInv, Types
<1>1. DataOK(d)
  BY <1>0 DEF Accepts, DataOK
<1>2. Tame(d, e) /\ e.desired = 0
  BY <1>1, StopRunnerFacts
<1>3. PICK f : f = [d EXCEPT !.desired = 0]
  OBVIOUS
<1>4. Accepts(data, f) /\ f.latest = n /\ f.desired = 0
      /\ f.state = d.state /\ f.proxy = d.proxy /\ f.stops = d.stops /\ f.restarts = d.restarts
  BY <1>3 DEF Accepts, DataFields
<1>5. Good(f, jobs)
  BY <1>4, AcceptFacts
<1>6. Tame(f, e)
  BY <1>2, <1>4 DEF Tame, Calm, Idles
<1> QED BY <1>0, <1>5, <1>6, TameGood

\* The intent of a request to stop starts nothing, and a start does not wipe out a core.
LEMMA DeliverGood ==
  ASSUME IInv, NEW i, CloseIs(i, req) \/ StartIs(i, data.latest, req, torn),
         IgnoreStart(i) \/ StartReloads(i) \/ Starts(i) \/ ReceiveClose(i)
  PROVE  /\ Good(data', jobs') /\ UNCHANGED cores
         /\ IsSeq(jobs') /\ \A j \in DOMAIN jobs' : DOMAIN jobs'[j] = JobFields
<1>0. Types /\ DataOK(data) /\ Exclusion /\ Numbers
  BY DEF IInv, Types
<1>1. Good(data, jobs)
  BY <1>0 DEF Good, Exclusion, Numbers
<1>2. PICK n, p : n = i.id /\ p = i.profile
  OBVIOUS
<1>3. n \in 0 .. Len(req) /\ Len(req) \in Nat /\ data.latest \in 0 .. Len(req)
  <2>1. PICK S : req \in Seq(S)
    BY <1>0 DEF Types, IsSeq
  <2> QED BY <1>0, <1>2, <2>1 DEF CloseIs, StartIs, Numbers, Numbered
<1>4. i.kind # "CLOSE" => StartIs(i, data.latest, req, torn)
  BY DEF CloseIs
<1>5. CASE IgnoreStart(i)
  <2>1. UNCHANGED <<jobs, cores>>
    BY <1>5 DEF IgnoreStart, Idle
  <2>2. CASE UNCHANGED data
    BY <1>0, <1>1, <2>1, <2>2 DEF Types
  <2>3. CASE ~ UNCHANGED data
    <3>1. PICK e : e = data'
      OBVIOUS
    <3>2. n >= data.latest /\ i.kind = "START" /\ e = [data EXCEPT !.latest = n]
      BY <1>2, <1>5, <2>3, <3>1 DEF IgnoreStart
    <3>3. Accepts(data, e) /\ e.latest = n /\ e.desired = data.desired
      BY <1>0, <3>2 DEF Accepts, DataOK, DataFields
    <3>4. torn \/ NoStop(req, n) \/ n = data.latest
      BY <1>2, <1>3, <1>4, <3>2 DEF StartIs
    <3>5. torn \/ e.desired = 0 \/ NoStop(req, n)
      BY <1>0, <3>3, <3>4 DEF Numbers, DesiredIs
    <3>6. Good(e, jobs)
      BY <1>3, <3>2, <3>3, <3>5, AcceptFacts
    <3> QED BY <1>0, <2>1, <3>1, <3>6 DEF Types
  <2> QED BY <2>2, <2>3
<1>6. CASE StartReloads(i)
  <2>1. UNCHANGED <<jobs, cores>> /\ i.kind = "RELOAD" /\ n >= data.latest
    BY <1>2, <1>6 DEF StartReloads
  <2>2. PICK canSelect, d, e : /\ d = [data EXCEPT !.latest = n] /\ e = data'
                               /\ e = Reload(d, p, canSelect)
    BY <1>2, <1>6 DEF StartReloads
  <2>3. DataOK(d)
    BY <1>0, <2>2 DEF DataOK, DataFields
  <2>4. Tame([d EXCEPT !.desired = p], e)
    <3>1. e = Reload(d, p, canSelect)
      BY <2>2
    <3> QED BY <2>3, <3>1, ReloadFacts
  <2>5. torn \/ p = 0 \/ NoStop(req, n)
    BY <1>2, <1>4, <2>1 DEF StartIs
  <2>6. Tame([[data EXCEPT !.latest = n] EXCEPT !.desired = p], e)
    BY <2>2, <2>4
  <2>7. Good(e, jobs)
    BY <1>3, <2>1, <2>5, <2>6, AcceptThenTame
  <2> QED BY <1>0, <2>1, <2>2, <2>7 DEF Types
<1>7. CASE Starts(i)
  <2>1. /\ cores' = cores /\ i.kind # "CLOSE" /\ n >= data.latest /\ data.state = "Stopped"
    BY <1>2, <1>7 DEF Starts
  <2>2. PICK d, j : d = [data EXCEPT !.latest = n, !.desired = p] /\ j = Len(jobs) + 1
    OBVIOUS
  <2>3. Accepts(data, d) /\ d.latest = n /\ d.desired = p
    BY <1>0, <2>2 DEF Accepts, DataOK, DataFields
  <2>4. CASE p = 0
    <3>1. data' = StopRunner(d, FALSE, FALSE) /\ jobs' = jobs
      BY <1>2, <1>7, <2>2, <2>4 DEF Starts
    <3>2. Good(data', jobs)
      BY <1>3, <2>1, <2>3, <3>1, AcceptThenStop
    <3> QED BY <1>0, <2>1, <3>1, <3>2 DEF Types
  <2>5. CASE p # 0
    <3>1. PICK e, x, jc :
            /\ e = [d EXCEPT !.state = "Connecting", !.proxy = j, !.connectingJob = j,
                             !.registered = TRUE]
            /\ x = [pc |-> "lock", profile |-> p, req |-> n, auto |-> i.auto,
                    cancelled |-> FALSE]
            /\ jc = Append(jobs, x)
      OBVIOUS
    <3>2. data' = e /\ jobs' = jc
      BY <1>2, <1>7, <2>2, <2>5, <3>1 DEF Starts
    <3>3. DOMAIN x = JobFields /\ x.pc = "lock" /\ x.req = n
      BY <3>1 DEF JobFields
    <3>4. Grown(jobs, x, jc)
      BY <1>0, <3>1, AppendFacts DEF Types
    <3>5. /\ IsSeq(jc) /\ Len(jobs) \in Nat /\ DOMAIN jobs = 1 .. Len(jobs)
          /\ DOMAIN jc = DOMAIN jobs \cup {j} /\ j \notin DOMAIN jobs /\ 0 \notin DOMAIN jobs
          /\ jc[j] = x /\ \A k \in DOMAIN jobs : jc[k] = jobs[k]
      BY <2>2, <3>4 DEF Grown
    <3>6. torn \/ NoStop(req, n)
      BY <1>2, <1>4, <2>1, <2>5 DEF StartIs
    <3>7. Good(d, jobs)
      BY <1>3, <2>1, <2>3, <3>6, AcceptFacts
    <3>8. /\ DOMAIN e = DataFields /\ e.state = "Connecting" /\ e.desired = d.desired
          /\ e.latest = d.latest /\ e.proxy = j /\ e.stops = d.stops /\ e.restarts = d.restarts
      BY <2>3, <3>1 DEF Accepts, DataFields
    <3>9. DataOK(e)
      BY <3>7, <3>8 DEF Good, DataOK
    <3>10. Exclusive(e, jc)
      <4>1. \A k \in DOMAIN jc : jc[k].pc \in Inside => k \in DOMAIN jobs /\ jobs[k].pc \in Inside
        BY <3>3, <3>5 DEF Inside
      <4>2. Exclusive(d, jobs)
        BY <3>7 DEF Good
      <4> QED BY <3>8, <4>1, <4>2 DEF Exclusive
    <3>11. Killed(e, jc, Owned, recovery)
      <4>1. Killed(d, jobs, Owned, recovery) /\ d.proxy = 0
        BY <1>0, <2>1, <2>3, <3>7 DEF Good, Accepts, Exclusion, Killed
      <4> QED BY <3>5, <3>8, <4>1 DEF Killed
    <3>12. Numbered(e, req) /\ DesiredIs(e, req, torn) /\ RestartsAre(e, req, torn)
           /\ IntentsAre(e, intents, req, torn)
      BY <3>7, <3>8 DEF Good, Numbered, DesiredIs, RestartsAre, IntentsAre
    <3>13. JobsAre(jc, req, torn)
      <4>1. ASSUME NEW k \in DOMAIN jc
            PROVE  /\ jc[k].req \in 0 .. Len(req)
                   /\ jc[k].pc \in {"done", "up"} \/ torn \/ NoStop(req, jc[k].req)
        <5>1. CASE k = j
          BY <1>3, <3>3, <3>5, <3>6, <5>1
        <5>2. CASE k \in DOMAIN jobs
          BY <1>0, <3>5, <5>2 DEF Numbers, JobsAre
        <5> QED BY <3>5, <5>1, <5>2
      <4> QED BY <4>1 DEF JobsAre
    <3>14. \A k \in DOMAIN jc : DOMAIN jc[k] = JobFields
      BY <1>0, <3>3, <3>5 DEF Types
    <3> QED BY <2>1, <3>2, <3>5, <3>9, <3>10, <3>11, <3>12, <3>13, <3>14 DEF Good
  <2> QED BY <2>4, <2>5
<1>8. CASE ReceiveClose(i)
  <2>1. UNCHANGED <<jobs, cores>>
    BY <1>8 DEF ReceiveClose, Idle
  <2>2. CASE data.registered /\ n >= data.latest
    <3>1. PICK d : d = [data EXCEPT !.latest = n]
      OBVIOUS
    <3>2. Accepts(data, d) /\ d.latest = n
      BY <1>0, <3>1 DEF Accepts, DataOK, DataFields
    <3>3. data' = StopRunner(d, FALSE, FALSE)
      BY <1>2, <1>8, <2>2, <3>1 DEF ReceiveClose
    <3>4. Good(data', jobs)
      BY <1>3, <2>2, <3>2, <3>3, AcceptThenStop
    <3> QED BY <1>0, <2>1, <3>4 DEF Types
  <2>3. CASE ~ (data.registered /\ n >= data.latest)
    <3>1. data' = data
      BY <1>2, <1>8, <2>3 DEF ReceiveClose
    <3> QED BY <1>0, <1>1, <2>1, <3>1 DEF Types
  <2> QED BY <2>2, <2>3
<1> QED BY <1>5, <1>6, <1>7, <1>8

\* An intent is taken and handled.
LEMMA DeliverStep ==
  ASSUME IInv, Deliver
  PROVE  IInv'
<1>0. Types /\ IntentsAre(data, intents, req, torn)
  BY DEF IInv, Numbers
<1>1. PICK c \in DOMAIN intents :
        /\ intents[c] # << >>
        /\ \/ IgnoreStart(Head(intents[c])) \/ StartReloads(Head(intents[c]))
           \/ Starts(Head(intents[c])) \/ ReceiveClose(Head(intents[c]))
        /\ intents' = [intents EXCEPT ![c] = Tail(@)]
  BY DEF Deliver
<1>2. PICK i, it : i = Head(intents[c]) /\ it = [intents EXCEPT ![c] = Tail(@)]
  OBVIOUS
<1>3. /\ DOMAIN it = {"start", "close"} /\ IsSeq(it.start) /\ IsSeq(it.close)
      /\ CloseIs(i, req) \/ StartIs(i, data.latest, req, torn)
      /\ \A e : IntentsAre(e, intents, req, torn) => IntentsAre(e, it, req, torn)
  <2>1. intents[c] # << >>
    BY <1>1
  <2> QED BY <1>0, <1>2, <2>1, TakenFacts
<1>4. IgnoreStart(i) \/ StartReloads(i) \/ Starts(i) \/ ReceiveClose(i)
  BY <1>1, <1>2
<1>5. /\ Good(data', jobs') /\ UNCHANGED cores
      /\ IsSeq(jobs') /\ \A j \in DOMAIN jobs' : DOMAIN jobs'[j] = JobFields
  BY <1>3, <1>4, DeliverGood
<1>6. intents' = it /\ UNCHANGED <<req, recovery, torn, leaked>>
  BY <1>1, <1>2 DEF Deliver, history
<1>7. PICK e : e = data'
  OBVIOUS
<1>8. IntentsAre(e, it, req, torn)
  BY <1>3, <1>5, <1>7 DEF Good
<1>9. Types'
  BY <1>0, <1>3, <1>5, <1>6 DEF Types, Good
<1> QED BY <1>5, <1>6, <1>7, <1>8, <1>9 DEF IInv, Exclusion, Numbers, Good, Owned

-----------------------------------------------------------------------------
(* The rest.                                                                 *)

\* Data of a process that has just begun.
LEMMA NewDataFacts ==
  /\ DataOK(NewData) /\ NewData.state = "Stopped" /\ NewData.desired = 0 /\ NewData.latest = 0
  /\ NewData.proxy = 0 /\ DOMAIN NewData.stops = {} /\ DOMAIN NewData.restarts = {}
<1>1. /\ DOMAIN NewData = DataFields /\ NewData.state = "Stopped" /\ NewData.desired = 0
      /\ NewData.latest = 0 /\ NewData.proxy = 0 /\ NewData.stops = << >>
      /\ NewData.restarts = << >>
  BY DEF NewData, DataFields
<1>2. DOMAIN NewData.stops = {} /\ DOMAIN NewData.restarts = {}
  BY <1>1
<1>3. IsFiniteSet({})
  BY FS_EmptySet
<1> QED BY <1>1, <1>2, <1>3 DEF DataOK

\* The empty sequence.
LEMMA EmptyIsSeq ==
  IsSeq(<< >>) /\ DOMAIN << >> = {}
BY DEF IsSeq

\* The new process has accepted no request: an intent without a profile and with the
\* number of a stop is no longer covered by the stop, and that is torn.
LEMMA ReplaceStep ==
  ASSUME IInv, NEW restart, ReplaceProcess(restart)
  PROVE  IInv'
<1>0. Types /\ IsSeq(req) /\ Numbered(data, req) /\ Numbers
  BY DEF IInv, Types, Numbers
<1>1. PICK d, tn : d = NewData /\ tn = torn'
  OBVIOUS
<1>2. /\ data' = d /\ jobs' = << >> /\ cores' = {} /\ recovery' = {}
      /\ tn <=> (torn \/ \E i \in Range(intents.start) : i.kind = "START" /\ i.profile = 0)
  BY <1>1 DEF ReplaceProcess
<1>3. /\ DataOK(d) /\ d.state = "Stopped" /\ d.desired = 0 /\ d.latest = 0
      /\ d.proxy = 0 /\ DOMAIN d.stops = {} /\ DOMAIN d.restarts = {}
  BY <1>1, NewDataFacts
<1>4. Exclusion'
  <2>1. DOMAIN jobs' = {}
    BY <1>2, EmptyIsSeq
  <2> QED BY <1>2, <1>3, <2>1 DEF Exclusion, Exclusive, Killed, Owned
<1>5. Len(req) \in Nat
  <2>1. PICK S : req \in Seq(S)
    BY <1>0 DEF IsSeq
  <2> QED BY <2>1
<1>6. ASSUME NEW rq, IntentsAre(data, intents, rq, torn)
      PROVE  IntentsAre(d, intents, rq, tn)
  <2>1. ASSUME NEW k \in DOMAIN intents.start
        PROVE  StartIs(intents.start[k], 0, rq, tn)
    <3>1. StartIs(intents.start[k], data.latest, rq, torn)
      BY <1>6 DEF IntentsAre
    <3>2. intents.start[k] \in Range(intents.start)
      BY DEF Range
    <3> QED BY <1>2, <3>1, <3>2 DEF StartIs
  <2> QED BY <1>3, <1>6, <2>1 DEF IntentsAre
<1>7. ASSUME NEW rq, IsSeq(rq), Numbered(data, rq), Len(rq) \in Nat,
             NEW it, DOMAIN it = {"start", "close"}, IsSeq(it.start), IsSeq(it.close),
             IntentsAre(d, it, rq, tn), req' = rq, intents' = it
      PROVE  IInv'
  <2>1. Types'
    BY <1>2, <1>3, <1>7, EmptyIsSeq DEF Types
  <2>2. Numbers'
    <3>1. Numbered(d, rq) /\ DesiredIs(d, rq, tn) /\ RestartsAre(d, rq, tn)
      BY <1>3, <1>7 DEF Numbered, DesiredIs, RestartsAre
    <3>2. JobsAre(jobs', rq, tn)
      BY <1>2, EmptyIsSeq DEF JobsAre
    <3> QED BY <1>1, <1>2, <1>7, <3>1, <3>2 DEF Numbers
  <2> QED BY <1>4, <2>1, <2>2 DEF IInv
<1>8. CASE restart
  <2>1. PICK n : n = Len(req) + 1
    OBVIOUS
  <2>2. PICK x, i : /\ x = [kind |-> "START", profile |-> Selected, app |-> n]
                    /\ i = [kind |-> "START", profile |-> Selected, id |-> n, auto |-> FALSE]
    OBVIOUS
  <2>3. PICK rq, it : rq = Append(req, x) /\ it = Sent(i)
    OBVIOUS
  <2>4. req' = rq /\ intents' = it
    BY <1>8, <2>1, <2>2, <2>3 DEF ReplaceProcess
  <2>5. x.app = n /\ n \in 0 .. Len(req) + 1 /\ x.kind = "START"
        /\ i.kind = "START" /\ i.id = n
    BY <1>5, <2>1, <2>2
  <2>6. Numbered(data, rq) /\ IntentsAre(data, intents, rq, torn)
    BY <2>3, <2>5, MoreRequests
  <2>7. IsSeq(rq) /\ Len(rq) = n /\ rq[n] = x
    <3>1. IsSeq(rq) /\ Len(rq) = Len(req) + 1 /\ rq[Len(rq)] = x
      BY <1>0, <2>3, <2>5, StableRequests, Zenon
    <3> QED BY <2>1, <3>1
  <2>8. App(rq, n) = n /\ n # 0 /\ n \in 0 .. Len(rq) /\ Len(rq) \in Nat
    BY <1>5, <2>1, <2>5, <2>7 DEF App
  <2>9. NoStop(rq, n)
    BY <2>5, <2>7, <2>8 DEF NoStop
  <2>10. StartIs(i, d.latest, rq, tn)
    BY <2>5, <2>8, <2>9 DEF StartIs
  <2>11. IntentsAre(d, intents, rq, tn)
    BY <1>6, <2>6
  <2>12. /\ DOMAIN it = {"start", "close"} /\ IsSeq(it.start) /\ IsSeq(it.close)
         /\ IntentsAre(d, it, rq, tn)
    BY <1>0, <2>3, <2>5, <2>10, <2>11, SentFacts
  <2> QED BY <1>7, <2>4, <2>6, <2>7, <2>8, <2>12
<1>9. CASE ~ restart
  <2>1. req' = req /\ intents' = intents
    BY <1>9 DEF ReplaceProcess
  <2>2. IntentsAre(d, intents, req, tn)
    BY <1>0, <1>6 DEF Numbers
  <2> QED BY <1>0, <1>5, <1>7, <2>1, <2>2 DEF Types
<1> QED BY <1>8, <1>9

\* An automatic reconnect, or a core that dies.
LEMMA FaultSteps ==
  ASSUME IInv, AutoReconnect \/ \E c \in cores : CoreDies(c)
  PROVE  IInv'
<1>0. Types /\ DataOK(data)
  BY DEF IInv, Types
<1>1. CASE AutoReconnect
  BY <1>0, <1>1, SameData, SameJobs, TameStep DEF AutoReconnect, history
<1>2. CASE \E c \in cores : CoreDies(c)
  <2>1. /\ data' = StopRunner(data, FALSE, FALSE)
        /\ UNCHANGED <<jobs, cores, leaked, recovery, intents, req, torn>>
    BY <1>2 DEF CoreDies
  <2>2. Tame(data, data')
    BY <1>0, <2>1, StopRunnerFacts
  <2> QED BY <1>0, <2>1, <2>2, SameJobs, TameStep
<1> QED BY <1>1, <1>2

\* The first state.
LEMMA Initially ==
  Init => IInv
<1> SUFFICES ASSUME Init PROVE IInv
  OBVIOUS
<1>1. DOMAIN jobs = {} /\ DOMAIN req = {} /\ IsSeq(jobs) /\ IsSeq(req) /\ Len(req) = 0
  BY EmptyIsSeq DEF Init
<1>2. /\ DOMAIN intents = {"start", "close"} /\ IsSeq(intents.start) /\ IsSeq(intents.close)
      /\ DOMAIN intents.start = {} /\ DOMAIN intents.close = {}
  BY EmptyIsSeq DEF Init
<1>3. /\ DataOK(data) /\ data.state = "Stopped" /\ data.desired = 0 /\ data.latest = 0
      /\ data.proxy = 0 /\ DOMAIN data.stops = {} /\ DOMAIN data.restarts = {}
  BY NewDataFacts DEF Init
<1>4. cores = {}
  BY DEF Init
<1>5. Exclusion
  BY <1>1, <1>3, <1>4 DEF Exclusion, Exclusive, Killed, Owned
<1>6. Numbers
  BY <1>1, <1>2, <1>3 DEF Numbers, Numbered, DesiredIs, JobsAre, RestartsAre, IntentsAre
<1> QED BY <1>1, <1>2, <1>3, <1>5, <1>6 DEF IInv, Types

\* Every step.
LEMMA NextKeeps ==
  IInv /\ [Next]_vars => IInv'
<1> SUFFICES ASSUME IInv, [Next]_vars PROVE IInv'
  OBVIOUS
<1>1. CASE UNCHANGED vars
  BY <1>1 DEF vars, history, IInv, Types, Exclusion, Numbers, Owned
<1>2. CASE \E kind \in Kinds, p \in Profiles \cup {0} : Request(kind, p)
  BY <1>2, RequestStep
<1>3. CASE SystemBroadcast
  BY <1>3, BroadcastStep
<1>4. CASE Progress
  <2>1. CASE Deliver
    BY <2>1, DeliverStep
  <2>2. ASSUME NEW j \in DOMAIN jobs, JobStep(j) PROVE IInv'
    BY <2>2, JobSteps, LockStep, LaunchStep DEF JobStep
  <2>6. ASSUME NEW c \in DOMAIN calls, CallStep(c) PROVE IInv'
    BY <2>6, CallSteps
  <2>3. ASSUME NEW i \in DOMAIN data.stops, StopStep(i) PROVE IInv'
    BY <2>3, StopSteps, StopLockStep, StopKillStep, StopSettleStep DEF StopStep
  <2>4. ASSUME NEW k \in DOMAIN data.restarts, RestartStep(k) PROVE IInv'
    BY <2>4, RestartSteps
  <2>5. ASSUME NEW restart \in recovery, ReplaceProcess(restart) PROVE IInv'
    BY <2>5, ReplaceStep
  <2> QED BY <1>4, <2>1, <2>2, <2>3, <2>4, <2>5, <2>6 DEF Progress
<1>5. CASE Disturbance
  <2>1. ASSUME NEW j \in DOMAIN jobs, JobFails(j) PROVE IInv'
    BY <2>1, JobSteps
  <2>2. ASSUME NEW i \in DOMAIN data.stops,
               StopJoinTimeout(i) \/ StopKillTimeout(i) \/ StopKillFails(i)
        PROVE  IInv'
    BY <2>2, StopSteps, StopKillStep
  <2>3. CASE AutoReconnect \/ \E c \in cores : CoreDies(c)
    BY <2>3, FaultSteps
  <2> QED BY <1>5, <2>1, <2>2, <2>3 DEF Disturbance
<1> QED BY <1>1, <1>2, <1>3, <1>4, <1>5 DEF Next

\* The invariant holds in every state of BaseService's life cycle.
THEOREM Inductive ==
  Spec => []IInv
BY Initially, NextKeeps, PTL DEF Spec

\* Every native core that runs is that of data.proxy, which the next stopRunner closes,
\* or the process has been asked to be replaced, or killProcesses has failed before it
\* came to close that very core: however starts, stops, calls of stopRunner on other
\* threads, cancelled jobs, failures and timeouts of killProcesses follow each other.
THEOREM CoresOwned ==
  Spec => []NoOrphanUnlessCleanupFails
<1>1. IInv => NoOrphanUnlessCleanupFails
  BY DEF IInv, Exclusion, Killed, Owned, NoOrphanUnlessCleanupFails
<1> QED BY <1>1, Inductive, PTL

\* No start that is under way belongs to a request to stop, although a restart job sends
\* the number that it finds in data.latestRequestId; unless its intent was torn.
THEOREM StopsHold ==
  Spec => []StopHoldsUnlessTorn
<1>1. IInv => StopHoldsUnlessTorn
  BY DEF IInv, Numbers, JobsAre, StopHoldsUnlessTorn, NoStop, App, AppRequest, IsStop, Over
<1> QED BY <1>1, Inductive, PTL
=============================================================================
