--------------------------- MODULE ServiceLifecycle ---------------------------
(***************************************************************************)
(* Starting, stopping, reloading and restarting the proxy service of the   *)
(* Android app (bg/BaseService.kt with ServiceLifecyclePolicy.kt).         *)
(*                                                                         *)
(* The app asks for a start or a reload of a profile by an intent, for a   *)
(* stop by a broadcast; each carries a number that grows.  Intents arrive  *)
(* in order, and so do broadcasts, but either may overtake the other.  The *)
(* handlers, and the coroutine that each stop launches, run on the main    *)
(* thread and are atomic between two suspensions.  A start (connectingJob) *)
(* and a delayed restart (restartJob) run on other threads; lifecycleMutex *)
(* keeps the body of a start and the clean-up of a stop apart, but not the *)
(* fields of Data they read and write.  A start that fails, and the        *)
(* ConnectionRecoveryQueue, call stopRunner on a thread of their own.      *)
(*                                                                         *)
(* The record data is BaseService.Data; a method called on the main thread *)
(* is an operator from the record before the call to the one after it,     *)
(* one called elsewhere is a call that goes on step by step.  Profile 0 is *)
(* "none".                                                                 *)
(***************************************************************************)
EXTENDS Integers, Sequences, FiniteSets, FiniteSetsExt, Functions, TLC

CONSTANTS
  Profiles,      \* profiles that exist
  MaxRequests,   \* bound: requests of the app
  MaxStarts,     \* bound: starts in one process
  MaxFaults      \* bound: failures, timeouts, automatic reconnects and configs with warnings

ASSUME LifecycleAssumption ==
  /\ Profiles \subseteq Nat \ {0}
  /\ MaxRequests \in Nat /\ MaxStarts \in Nat /\ MaxFaults \in Nat

VARIABLES
  data,      \* BaseService.Data
  jobs,      \* the starts of this process, by number; also their ProxyInstances
  calls,     \* calls of stopRunner under way outside the main thread, by the start that
             \* makes it; 0 is the ConnectionRecoveryQueue
  cores,     \* numbers of the ProxyInstances whose native core is running
  chosen,    \* the profile the running core sends its traffic through
  intents,   \* start intents and CLOSE broadcasts under way, each in order
  req,       \* the requests made so far; the index is the request id
  recovery,  \* process recoveries requested: is the service to be restarted?
  faults,    \* faults so far
  failed,    \* requests whose start or core has failed (history)
  torn,      \* the intent of a restart does not fit its number: it was put together
             \* around a newer request, or for none and has outlived its process (history)
  raced,     \* stopRunner, or a start, has interfered with a newer request from another
             \* thread (history)
  overtaken, \* a broadcast of the system has overtaken a request (history)
  leaked,    \* cores whose clean-up has failed before it came to close them (history)
  untagged   \* reloads of a profile the running config has no tag for (history)

history == <<failed, torn, raced, overtaken, leaked, untagged>>
vars == <<data, jobs, calls, cores, chosen, intents, req, recovery, faults, history>>

NewData ==
  [state |-> "Stopped", desired |-> 0, latest |-> 0,
   pending |-> FALSE, pendingAuto |-> FALSE,    \* pendingRestart and its origin
   registered |-> FALSE,                        \* closeReceiverRegistered
   proxy |-> 0, connectingJob |-> 0,
   stops |-> << >>,                             \* stop coroutines under way, by number
   restarts |-> << >>]                          \* restart jobs of a valid generation,
                                                \* or past the test of it, by number
Init ==
  /\ data = NewData /\ jobs = << >> /\ calls = << >> /\ cores = {} /\ chosen = 0
  /\ intents = [start |-> << >>, close |-> << >>] /\ req = << >> /\ recovery = {} /\ faults = 0
  /\ failed = {} /\ torn = FALSE /\ raced = FALSE /\ overtaken = FALSE
  /\ leaked = {} /\ untagged = {}

Fault == faults < MaxFaults /\ faults' = faults + 1

\* Mutant of MutexFree: a start that ends early keeps the mutex.
MutexFreeIfConnected ==
  /\ \A j \in DOMAIN jobs : jobs[j].pc \in {"lock", "up"}
  /\ \A i \in DOMAIN data.stops : data.stops[i].pc \notin {"kill", "settle", "timedOut"}

\* lifecycleMutex is free.
MutexFree ==
  /\ \A j \in DOMAIN jobs : jobs[j].pc \in {"lock", "done", "up"}
  /\ \A i \in DOMAIN data.stops : data.stops[i].pc \notin {"kill", "settle", "timedOut"}

-----------------------------------------------------------------------------
(* Methods of Interface.                                                     *)

\* A coroutine x is launched besides those of f.
Launch(f, x) ==
  LET new == CHOOSE i \in 1 .. Cardinality(DOMAIN f) + 1 : i \notin DOMAIN f
  IN  [i \in DOMAIN f \cup {new} |-> IF i = new THEN x ELSE f[i]]

\* ++restartGeneration: who has noted the generation and not yet compared it
\* will give up.
NextGeneration(d) ==
  [d EXCEPT !.restarts = RestrictValues(@, LAMBDA r : r.pc # "wait"),
            !.stops = RestrictValues(@, LAMBDA s : s.pc # "delay")]

StartRunner(d, auto) ==
  LET e == NextGeneration(d) IN
  [e EXCEPT !.restarts = Launch(@, [pc |-> "wait", auto |-> auto, profile |-> 0, latest |-> 0])]

Stopping(restart, auto) == [pc |-> "begin", restart |-> restart, auto |-> auto, join |-> 0]

\* Mutant of StopRunner: a stop leaves a restart that has been scheduled alone.
StopRunnerKeepsRestart(d, restart, auto) ==
  LET e == IF restart THEN d ELSE [d EXCEPT !.pending = FALSE, !.pendingAuto = FALSE]
  IN  IF d.state = "Stopping"
      THEN IF restart THEN [e EXCEPT !.pending = TRUE, !.pendingAuto = @ \/ auto] ELSE e
      ELSE [e EXCEPT !.state = "Stopping", !.stops = Launch(@, Stopping(restart, auto))]

StopRunner(d, restart, auto) ==
  LET e == IF restart THEN d
           ELSE [NextGeneration(d) EXCEPT !.desired = 0, !.pending = FALSE, !.pendingAuto = FALSE]
  IN  IF d.state = "Stopping"
      THEN IF restart THEN [e EXCEPT !.pending = TRUE, !.pendingAuto = @ \/ auto] ELSE e
      ELSE [e EXCEPT !.state = "Stopping", !.stops = Launch(@, Stopping(restart, auto))]

\* The same call on another thread, before its first step.
Call(restart, auto) == [pc |-> IF restart THEN "look" ELSE "clear", restart |-> restart, auto |-> auto]

\* shouldRestartAfterStop
ShouldRestart(d, restart) == (restart \/ d.pending) /\ d.desired # 0

\* Mutant of Reload: a reload during a stop only changes the profile.
ReloadUnmarked(d, p, canSelect) ==
  LET e == [d EXCEPT !.desired = p] IN
  CASE p = 0 -> StopRunner(e, FALSE, FALSE)
    [] p # 0 /\ (canSelect \/ d.state = "Stopping") -> e
    [] p # 0 /\ ~ canSelect /\ d.state # "Stopping" -> StopRunner(e, TRUE, FALSE)

\* reload of a service that is not Stopped; canSelect says whether the running core
\* can switch to the profile by itself (canReloadSelector).
Reload(d, p, canSelect) ==
  LET e == [d EXCEPT !.desired = p] IN
  CASE p = 0 -> StopRunner(e, FALSE, FALSE)
    [] p # 0 /\ canSelect -> e
    [] p # 0 /\ ~ canSelect /\ d.state # "Stopping" -> StopRunner(e, TRUE, FALSE)
    [] p # 0 /\ ~ canSelect /\ d.state = "Stopping" ->
         [e EXCEPT !.pending = TRUE, !.pendingAuto = FALSE]

-----------------------------------------------------------------------------
(* Requests.                                                                 *)

Kinds == {"START", "RELOAD", "CLOSE"}

Sent(i) ==
  LET c == IF i.kind = "CLOSE" THEN "close" ELSE "start"
  IN  [intents EXCEPT ![c] = Append(@, i)]

\* SagerNet.startService, reloadService, stopService.  (A start with no profile selected
\* is a reload with none, as far as the service is concerned.)
Request(kind, p) ==
  /\ Len(req) < MaxRequests
  /\ CASE kind = "START" -> p # 0 [] kind = "CLOSE" -> p = 0 [] OTHER -> TRUE
  /\ req' = Append(req, [kind |-> kind, profile |-> p, app |-> Len(req) + 1])
  /\ intents' = Sent([kind |-> kind, profile |-> p, id |-> Len(req) + 1, auto |-> FALSE])
  /\ UNCHANGED <<data, jobs, calls, cores, chosen, recovery, faults, history>>

\* The request of the app that the number n goes back to.
AppRequest(n) == IF n = 0 THEN 0 ELSE req[n].app

\* The receiver also gets broadcasts of the system, screen on or off among them.  They
\* carry no number, and are given one when they arrive: what was asked for and has not
\* been delivered until then is out of date, and so is a restart under way.
SystemBroadcast ==
  /\ data.registered /\ Len(req) < MaxRequests
  /\ req' = Append(req, [kind |-> "SYSTEM", profile |-> 0, app |-> AppRequest(data.latest)])
  /\ data' = [data EXCEPT !.latest = Len(req) + 1]
  /\ overtaken' = (overtaken \/ \E c \in DOMAIN intents : intents[c] # << >>)
  /\ UNCHANGED <<jobs, calls, cores, chosen, intents, recovery, faults>>
  /\ UNCHANGED <<failed, torn, raced, leaked, untagged>>

Idle == UNCHANGED <<jobs, cores, chosen, untagged>>

\* An intent of an earlier request, or one that the state does not call for.
IgnoreStart(i) ==
  /\ i.kind # "CLOSE"
  /\ \/ i.id < data.latest /\ UNCHANGED data
     \/ /\ i.id >= data.latest /\ i.kind = "START"
        /\ data.state # "Stopped" \/ data.desired \notin {0, i.profile}
        /\ data' = [data EXCEPT !.latest = i.id]
  /\ Idle

\* canReloadSelector compares the groups of the profiles only: the running config may
\* have no tag for the profile, and then nothing is selected.
StartReloads(i) ==
  \E canSelect, hasTag \in BOOLEAN :
    LET selects == canSelect /\ i.profile # 0 IN
    /\ i.kind = "RELOAD" /\ i.id >= data.latest /\ data.state # "Stopped"
    /\ canSelect => data.state = "Connected" /\ data.proxy # 0
    /\ hasTag => selects
    /\ data' = Reload([data EXCEPT !.latest = i.id], i.profile, canSelect)
    /\ chosen' = IF hasTag THEN i.profile ELSE chosen
    /\ untagged' = IF selects /\ ~ hasTag THEN untagged \cup {AppRequest(i.id)} ELSE untagged
    /\ UNCHANGED <<jobs, cores>>

Starts(i) ==
  /\ i.kind # "CLOSE" /\ i.id >= data.latest /\ data.state = "Stopped"
  /\ i.kind = "RELOAD" \/ data.desired \in {0, i.profile}
  /\ Len(jobs) < MaxStarts
  /\ LET d == [data EXCEPT !.latest = i.id, !.desired = i.profile]
         j == Len(jobs) + 1
     IN  IF i.profile = 0
         THEN data' = StopRunner(d, FALSE, FALSE) /\ UNCHANGED jobs
         ELSE /\ data' = [d EXCEPT !.state = "Connecting", !.proxy = j, !.connectingJob = j,
                                   !.registered = TRUE]
              /\ jobs' = Append(jobs, [pc |-> "lock", profile |-> i.profile, req |-> i.id,
                                       auto |-> i.auto, cancelled |-> FALSE])
  /\ UNCHANGED <<cores, chosen, untagged>>

\* The broadcast reaches nobody while the receiver is not registered.
ReceiveClose(i) ==
  /\ i.kind = "CLOSE"
  /\ data' = IF data.registered /\ i.id >= data.latest
             THEN StopRunner([data EXCEPT !.latest = i.id], FALSE, FALSE) ELSE data
  /\ Idle

Deliver ==
  \E c \in DOMAIN intents :
    /\ intents[c] # << >>
    /\ intents' = [intents EXCEPT ![c] = Tail(@)]
    /\ LET i == Head(intents[c])
       IN  IgnoreStart(i) \/ StartReloads(i) \/ Starts(i) \/ ReceiveClose(i)
    /\ UNCHANGED <<calls, req, recovery, faults, failed, torn, raced, overtaken, leaked>>

-----------------------------------------------------------------------------
(* The start of a profile: connectingJob.                                    *)

\* The job is "done", or "up" when it has connected.
EndAt(j, pc) == [jobs EXCEPT ![j] = [@ EXCEPT !.pc = pc, !.profile = 0, !.cancelled = FALSE,
                                         !.auto = FALSE]]
Ended(j) == EndAt(j, "done")
Over(j) == jobs[j].pc \in {"done", "up"}
Goto(j, pc) == [jobs EXCEPT ![j].pc = pc]
Left(d) == [d EXCEPT !.connectingJob = 0]

Others == UNCHANGED <<intents, req, recovery, torn, overtaken, leaked, untagged>>

JobLock(j) ==
  /\ jobs[j].pc = "lock" /\ MutexFree
  /\ jobs' = Goto(j, "init")
  /\ UNCHANGED <<data, calls, cores, chosen, faults, failed, raced>> /\ Others

\* The job notices that it was cancelled; the finally clause is inside the mutex.
JobCancelled(j) ==
  /\ jobs[j].cancelled /\ jobs[j].pc \in {"lock", "init", "launch", "launched"}
  /\ jobs' = Ended(j)
  /\ data' = IF jobs[j].pc = "lock" THEN data ELSE Left(data)
  /\ UNCHANGED <<calls, cores, chosen, faults, failed, raced>> /\ Others

\* ensureActive and startupProfileStillDesired, which a cancellation cannot tell apart:
\* the profile changes before the start is cancelled.
JobChecks(j, next) ==
  /\ ~ jobs[j].cancelled
  /\ jobs' = Goto(j, IF jobs[j].profile = data.desired THEN next ELSE "unwanted")
  /\ UNCHANGED <<data, calls, cores, chosen, failed, raced>> /\ Others

\* prepareService, preInit, proxy.init.  The config may have warnings.
JobInit(j) ==
  /\ jobs[j].pc = "init"
  /\ \/ JobChecks(j, "launch") /\ UNCHANGED faults
     \/ JobChecks(j, "warn") /\ jobs[j].profile = data.desired /\ Fault

\* The warnings are shown as Connecting, whatever the state has become since.
JobWarns(j) ==
  /\ jobs[j].pc = "warn"
  /\ jobs' = Goto(j, "launch")
  /\ data' = [data EXCEPT !.state = "Connecting"]
  /\ raced' = (raced \/ data.state # "Connecting")
  /\ UNCHANGED <<calls, cores, chosen, faults, failed>> /\ Others

\* startProcesses launches data.proxy.
JobLaunch(j) ==
  /\ jobs[j].pc = "launch" /\ data.proxy = j
  /\ cores' = cores \cup {j} /\ chosen' = jobs[j].profile
  /\ jobs' = Goto(j, "launched")
  /\ UNCHANGED <<data, calls, faults, failed, raced>> /\ Others

JobLaunched(j) == jobs[j].pc = "launched" /\ JobChecks(j, "connect") /\ UNCHANGED faults

\* The job calls stopRunner.
Calls(j, restart, auto) ==
  /\ jobs' = [jobs EXCEPT ![j] = [@ EXCEPT !.pc = "stopping", !.profile = 0, !.auto = FALSE]]
  /\ calls' = (j :> Call(restart, auto)) @@ calls
  /\ UNCHANGED <<data, cores, chosen, raced>> /\ Others

\* It is no longer the profile that is desired, which is read again.
JobUnwanted(j) ==
  /\ jobs[j].pc = "unwanted"
  /\ Calls(j, data.desired # 0, FALSE)
  /\ UNCHANGED <<faults, failed>>

\* stopAfterStartFailure: an automatic restart is tried again.
Fails(j) ==
  /\ Calls(j, jobs[j].auto, jobs[j].auto)
  /\ failed' = failed \cup {AppRequest(jobs[j].req)}

\* The core may be running by then.
JobFails(j) ==
  jobs[j].pc \in {"init", "launch", "launched", "connect", "late"} /\ Fault /\ Fails(j)

\* data.proxy is null, or not the instance that was initialised.
JobHasNoProxy(j) ==
  jobs[j].pc = "launch" /\ data.proxy # j /\ Fails(j) /\ UNCHANGED faults

\* Connected is set whatever the state has become since the last test.
JobConnect(j) ==
  /\ jobs[j].pc = "connect"
  /\ jobs' = Goto(j, "late")
  /\ data' = [data EXCEPT !.state = "Connected", !.pendingAuto = FALSE]
  /\ raced' = (raced \/ data.state # "Connecting")
  /\ UNCHANGED <<calls, cores, chosen, faults, failed>> /\ Others

\* The end of the job, when it has connected, or stopRunner has returned.
JobFinish(j) ==
  /\ jobs[j].pc = "late" \/ (jobs[j].pc = "stopping" /\ j \notin DOMAIN calls)
  /\ jobs' = IF jobs[j].pc = "late" THEN EndAt(j, "up") ELSE Ended(j)
  /\ data' = Left(data)
  /\ UNCHANGED <<calls, cores, chosen, faults, failed, raced>> /\ Others

JobStep(j) ==
  \/ JobLock(j) \/ JobCancelled(j) \/ JobInit(j) \/ JobWarns(j) \/ JobLaunch(j) \/ JobLaunched(j)
  \/ JobUnwanted(j) \/ JobHasNoProxy(j) \/ JobConnect(j) \/ JobFinish(j)

-----------------------------------------------------------------------------
(* stopRunner on another thread: nothing keeps the main thread from Data      *)
(* between two accesses.                                                      *)

Calling(c, pc) == c \in DOMAIN calls /\ calls[c].pc = pc
CallGoto(c, pc) == [calls EXCEPT ![c].pc = pc]
Returned(c) == Restrict(calls, DOMAIN calls \ {c})

\* The app has asked for something else since the request n, and it is wanted.
Newer(n) == data.desired # 0 /\ AppRequest(data.latest) # AppRequest(n)

\* A call that does not restart takes back what a newer request has set.
Races(c) == raced' = (raced \/ (~ calls[c].restart /\ Newer(jobs[c].req)))

CallClear(c) ==
  /\ Calling(c, "clear")
  /\ calls' = CallGoto(c, "forget")
  /\ data' = [data EXCEPT !.desired = 0]
  /\ Races(c)

CallForget(c) ==
  /\ Calling(c, "forget")
  /\ calls' = CallGoto(c, "enter")
  /\ data' = [NextGeneration(data) EXCEPT !.pending = FALSE, !.pendingAuto = FALSE]
  /\ Races(c)

\* shouldPreserveRestartOnDuplicateStop
CallLook(c) ==
  /\ Calling(c, "look")
  /\ calls' = CallGoto(c, IF data.state = "Stopping" THEN "mark" ELSE "enter")
  /\ UNCHANGED <<data, raced>>

CallMark(c) ==
  /\ Calling(c, "mark")
  /\ calls' = Returned(c)
  /\ data' = [data EXCEPT !.pending = TRUE, !.pendingAuto = @ \/ calls[c].auto]
  /\ UNCHANGED raced

CallEnter(c) ==
  /\ Calling(c, "enter")
  /\ calls' = IF data.state = "Stopping" THEN Returned(c) ELSE CallGoto(c, "stop")
  /\ UNCHANGED <<data, raced>>

CallStop(c) ==
  /\ Calling(c, "stop")
  /\ calls' = Returned(c)
  /\ data' = [data EXCEPT !.state = "Stopping",
                          !.stops = Launch(@, Stopping(calls[c].restart, calls[c].auto))]
  /\ raced' = (raced \/ data.state = "Stopping" \/ (~ calls[c].restart /\ Newer(jobs[c].req)))

CallStep(c) ==
  /\ CallClear(c) \/ CallForget(c) \/ CallLook(c) \/ CallMark(c) \/ CallEnter(c) \/ CallStop(c)
  /\ UNCHANGED <<jobs, cores, chosen, faults, failed>> /\ Others

-----------------------------------------------------------------------------
(* The coroutine of a stop.                                                  *)

At(i, pc) == i \in DOMAIN data.stops /\ data.stops[i].pc = pc
StopGoto(i, pc) == [data EXCEPT !.stops[i].pc = pc]
StopEnds(d, i) == [d EXCEPT !.stops = Restrict(@, DOMAIN @ \ {i})]

Silently == UNCHANGED <<calls, intents, req, failed, torn, raced, overtaken, untagged>>
Quietly == Silently /\ UNCHANGED leaked

\* The start under way, if any, is cancelled.
StopBegin(i) ==
  LET c == data.connectingJob IN
  /\ At(i, "begin")
  /\ data' = IF c = 0 THEN StopGoto(i, "lock")
             ELSE [StopGoto(i, "join") EXCEPT !.stops[i].join = c]
  /\ jobs' = IF c = 0 \/ Over(c) THEN jobs
             ELSE [jobs EXCEPT ![c].cancelled = TRUE]
  /\ UNCHANGED <<cores, chosen, recovery, faults>> /\ Quietly

StopJoined(i) ==
  /\ At(i, "join") /\ Over(data.stops[i].join)
  /\ data' = [StopGoto(i, "lock") EXCEPT !.stops[i].join = 0]
  /\ UNCHANGED <<jobs, cores, chosen, recovery, faults>> /\ Quietly

\* The start does not end in time: the process is to be replaced, and the service
\* stays Stopping until it is.
StopJoinTimeout(i) ==
  /\ At(i, "join") /\ ~ Over(data.stops[i].join) /\ Fault
  /\ recovery' = recovery \cup {ShouldRestart(data, data.stops[i].restart)}
  /\ data' = StopEnds(data, i)
  /\ UNCHANGED <<jobs, cores, chosen>> /\ Quietly

StopLock(i) ==
  /\ At(i, "lock") /\ MutexFree
  /\ data' = [StopGoto(i, "kill") EXCEPT !.stops[i].restart = ShouldRestart(data, @)]
  /\ UNCHANGED <<jobs, cores, chosen, recovery, faults>> /\ Quietly

\* Mutant of StopKill: the core is left running.
StopKillNothing(i) ==
  /\ At(i, "kill")
  /\ data' = StopGoto(i, "settle")
  /\ UNCHANGED <<cores, jobs, chosen, recovery, faults>> /\ Quietly

\* killProcesses closes data.proxy.
StopKill(i) ==
  /\ At(i, "kill")
  /\ cores' = cores \ {data.proxy} /\ chosen' = 0
  /\ data' = StopGoto(i, "settle")
  /\ UNCHANGED <<jobs, recovery, faults>> /\ Quietly

\* The clean-up fails before it comes to box.closeTimeout, and that is no timeout: the
\* stop goes on, and the core is left running.
StopKillFails(i) ==
  /\ At(i, "kill") /\ data.proxy \in cores /\ Fault
  /\ leaked' = leaked \cup {data.proxy}
  /\ data' = StopGoto(i, "settle")
  /\ UNCHANGED <<jobs, cores, chosen, recovery>> /\ Silently

StopKillTimeout(i) ==
  /\ At(i, "kill") /\ Fault
  /\ data' = StopGoto(i, "timedOut")
  /\ UNCHANGED <<jobs, cores, chosen, recovery>> /\ Quietly

\* Back on the main thread: is the service to be restarted, all told?
StopSettle(i) ==
  /\ At(i, "settle") \/ At(i, "timedOut")
  /\ LET s       == data.stops[i]
         restart == ShouldRestart(data, s.restart)
         d == [data EXCEPT !.state = "Stopped", !.proxy = 0, !.registered = @ /\ restart,
                           !.pending = FALSE, !.pendingAuto = FALSE]
     IN  /\ data' = IF s.pc = "settle" /\ restart
                    THEN [d EXCEPT !.stops[i].pc = "delay",
                                   !.stops[i].auto = @ \/ data.pendingAuto]
                    ELSE StopEnds(d, i)
         /\ recovery' = IF s.pc = "timedOut" THEN recovery \cup {restart} ELSE recovery
  /\ UNCHANGED <<jobs, cores, chosen, faults>> /\ Quietly

StopRestarts(i) ==
  /\ At(i, "delay")
  /\ data' = StartRunner(data, data.stops[i].auto)
  /\ UNCHANGED <<jobs, cores, chosen, recovery, faults>> /\ Quietly

StopStep(i) ==
  \/ StopBegin(i) \/ StopJoined(i) \/ StopLock(i) \/ StopKill(i)
  \/ StopSettle(i) \/ StopRestarts(i)

-----------------------------------------------------------------------------
(* A restart job: compares the generation, reads the profile and the latest  *)
(* request from Data, one after the other, and starts the service.           *)

Waits(k, pc) == k \in DOMAIN data.restarts /\ data.restarts[k].pc = pc

RestartCheck(k) ==
  /\ Waits(k, "wait")
  /\ data' = [data EXCEPT !.restarts[k].pc = "checked"]
  /\ UNCHANGED <<intents, torn>>

RestartRead(k) ==
  /\ Waits(k, "checked")
  /\ data' = [data EXCEPT !.restarts[k] = [@ EXCEPT !.pc = "read", !.profile = data.desired,
                                                    !.latest = data.latest]]
  /\ UNCHANGED <<intents, torn>>

RestartSend(k) ==
  /\ Waits(k, "read")
  /\ LET r == data.restarts[k] IN
     /\ intents' = Sent([kind |-> "START", profile |-> r.profile, id |-> data.latest,
                         auto |-> r.auto])
     /\ torn' = (torn \/ r.latest # data.latest)
  /\ data' = [data EXCEPT !.restarts = Restrict(@, DOMAIN @ \ {k})]

RestartStep(k) ==
  /\ RestartCheck(k) \/ RestartRead(k) \/ RestartSend(k)
  /\ UNCHANGED <<jobs, calls, cores, chosen, req, recovery, faults>>
  /\ UNCHANGED <<failed, raced, overtaken, leaked, untagged>>

-----------------------------------------------------------------------------
(* Faults and recovery.                                                      *)

\* The network has changed, or the device has woken up (ConnectionRecoveryQueue, which
\* handles one event after the other).
AutoReconnect ==
  /\ data.proxy # 0 /\ data.state \in {"Connecting", "Connected"}
  /\ jobs[data.proxy].pc \in {"late", "up"} /\ 0 \notin DOMAIN calls
  /\ Fault
  /\ calls' = (0 :> Call(TRUE, TRUE)) @@ calls
  /\ UNCHANGED <<data, jobs, cores, chosen, intents, req, recovery, history>>

\* A process of the core exits for good (GuardedProcessPool).
CoreDies(c) ==
  /\ Fault
  /\ data' = StopRunner(data, FALSE, FALSE)
  /\ failed' = failed \cup {AppRequest(jobs[c].req)}
  /\ raced' = (raced \/ Newer(jobs[c].req))
  /\ UNCHANGED <<jobs, calls, cores, chosen, intents, req, recovery>>
  /\ UNCHANGED <<torn, overtaken, leaked, untagged>>

\* The profile the app has selected: that of its last start or reload.
Selected ==
  LET asked == {r \in DOMAIN req : req[r].kind \in {"START", "RELOAD"}}
  IN  IF asked = {} THEN 0 ELSE req[Max(asked)].profile

\* CoreRecoveryCoordinator.recover: the process is killed and, where asked for, the
\* service started in a new one, with the profile that is selected.  Intents on their
\* way are delivered to the new process.
ReplaceProcess(restart) ==
  /\ data' = NewData /\ jobs' = << >> /\ calls' = << >> /\ cores' = {} /\ chosen' = 0
  /\ recovery' = {} /\ leaked' = {}
  /\ IF restart
     THEN /\ req' = Append(req, [kind |-> "START", profile |-> Selected, app |-> Len(req) + 1])
          /\ intents' = Sent([kind |-> "START", profile |-> Selected, id |-> Len(req) + 1,
                              auto |-> FALSE])
     ELSE UNCHANGED <<req, intents>>
  /\ torn' = (torn \/ \E i \in Range(intents.start) : i.kind = "START" /\ i.profile = 0)
  /\ UNCHANGED <<faults, failed, raced, overtaken, untagged>>

-----------------------------------------------------------------------------
Progress ==
  \/ \E j \in DOMAIN jobs : JobStep(j)
  \/ \E c \in DOMAIN calls : CallStep(c)
  \/ \E i \in DOMAIN data.stops : StopStep(i)
  \/ \E k \in DOMAIN data.restarts : RestartStep(k)
  \/ \E restart \in recovery : ReplaceProcess(restart)
  \/ Deliver

Disturbance ==
  \/ \E j \in DOMAIN jobs : JobFails(j)
  \/ \E i \in DOMAIN data.stops : StopJoinTimeout(i) \/ StopKillTimeout(i) \/ StopKillFails(i)
  \/ AutoReconnect
  \/ \E c \in cores : CoreDies(c)

Next ==
  \/ \E kind \in Kinds, p \in Profiles \cup {0} : Request(kind, p)
  \/ SystemBroadcast
  \/ Progress \/ Disturbance

Spec == Init /\ [][Next]_vars

\* Threads run, delays end, intents are delivered.  Requests and faults are bounded,
\* so that there is always only finitely much left to be done.
FairSpec == Spec /\ WF_vars(Progress)

-----------------------------------------------------------------------------
(* Properties.                                                               *)

\* Every core that runs is the one of data.proxy: the next stop closes it, and no
\* second core runs beside it.  A core whose clean-up timed out is left to the
\* replacement of the process, which has then been asked for.  The one core that is left
\* to nobody is one whose clean-up failed in another way before it came to close it.
NoOrphanUnlessCleanupFails ==
  \A c \in cores : c = data.proxy \/ recovery # {} \/ c \in leaked

\* Request r is one to stop: CLOSE, or a reload with no profile selected.
IsStop(r) == req[r].kind = "CLOSE" \/ (req[r].kind = "RELOAD" /\ req[r].profile = 0)

\* What is being started was asked for: no start belongs to a request to stop, even
\* though a restart scheduled before the stop carries the number of the stop; except
\* where the stop came between the two reads the restart's intent is made from, or came
\* before both and the intent, for no profile and with the number of the stop, is
\* delivered to the next process, which has not seen the stop.
StopHoldsUnlessTorn ==
  \A j \in DOMAIN jobs :
    \/ Over(j) \/ torn
    \/ AppRequest(jobs[j].req) = 0 \/ ~ IsStop(AppRequest(jobs[j].req))

\* The request of the app that the service has accepted last.
Accepted == AppRequest(data.latest)

\* A stop that was accepted, with no newer request, ends with the service stopped and no
\* core running, but one whose clean-up has failed.
StopHonoured ==
  []<>(Accepted # 0 /\ IsStop(Accepted) =>
         torn \/ (data.state = "Stopped" /\ cores \subseteq leaked))

\* A reload that was accepted, with no newer request, ends with the service connected
\* through its profile, or its start fails; except where the running config has no tag
\* for the profile, where the failing or connecting start of an earlier request has
\* interfered, or a broadcast of the system has outdated the intent of the restart.
ReloadHonouredUnlessRaced ==
  []<>(Accepted # 0 /\ req[Accepted].kind = "RELOAD" /\ req[Accepted].profile # 0 =>
         \/ Accepted \in failed \cup untagged \/ raced \/ overtaken
         \/ data.state = "Connected" /\ chosen = req[Accepted].profile)
=============================================================================
