---------------------------- MODULE DeferredSession ----------------------------
(***************************************************************************)
(* The deferred session runtime of the server: STREAM_SYN, SOCKS5_SYN and  *)
(* DNS queries are not worked on by the goroutine that received them but    *)
(* handed to a pool of workers (udpserver/deferred_session.go), behind a    *)
(* table of the packets in progress (deferredInflight in                    *)
(* udpserver/server_postsession.go) that turns away their repetitions.      *)
(*                                                                          *)
(* A lane is a (session, stream) pair.  Two locks are involved: one for     *)
(* deferredInflight and one for the processor; an operation that needs both *)
(* takes them one after the other, and is therefore two actions here.  The  *)
(* channel of a worker is read without either of them.                      *)
(*                                                                          *)
(* Left out: which of several least loaded workers is chosen (nextWorker),  *)
(* worker.pending as a counter of its own, logging, and panics, which end a *)
(* task like a return.                                                      *)
(***************************************************************************)
EXTENDS Naturals, Sequences, FiniteSets, SequencesExt

CONSTANTS
    Sessions, Lanes, Packets,  \* Packets: the keys of deferredInflight
    SessionOf, LaneOf,         \* lane -> session, packet -> lane
    Dispatchers, Removers,     \* goroutines that dispatch packets, that remove lanes or
                               \* sessions; one may be of both kinds
    Workers,
    QueueLimit, SessionCap,    \* capacity of a worker's channel; sessionPendingCap
    MaxTasks                   \* bound of the model: tasks created

ASSUME DeferredAssumption ==
    /\ LaneOf \in [Packets -> Lanes]
    /\ SessionOf \in [Lanes -> Sessions]
    /\ QueueLimit \in Nat \ {0}
    /\ SessionCap \in 1 .. (QueueLimit * Cardinality(Workers))
    /\ MaxTasks \in Nat

VARIABLES
    tracked,        \* s.deferredInflight
    handler,        \* what each goroutine is in the middle of
    jobs,           \* worker.jobs, the channel of each worker
    cur,            \* the task each worker has in hand, and how far it is
    laneWorker, cancelled, running, sessionPending,  \* fields of the processor
    pkt,            \* pkt[n]: the packet of task n; tasks are numbered as they are created
    ctxDone,        \* the tasks in hand whose context has been cancelled
    removed,        \* history: tasks in hand when their lane or session was removed
    overtaken,      \* history: packets tracked anew between the two steps of a removal
    split           \* history: lanes that two workers have had in hand at once

processor == <<laneWorker, cancelled, running, sessionPending>>
history == <<removed, overtaken, split>>
vars == <<tracked, handler, jobs, cur, processor, pkt, ctxDone, history>>

Handlers == Dispatchers \union Removers
None == "none"
Idle == [op |-> "idle"]
Free == [task |-> 0, phase |-> "idle"]
Tasks == 1 .. MaxTasks
Phases == {"taken", "begun", "running", "finalizing", "returning", "ending"}

At(w, phases) == cur[w].phase \in phases
Lane(n) == LaneOf[pkt[n]]
Session(n) == SessionOf[Lane(n)]

Init ==
    /\ tracked = {} /\ pkt = <<>> /\ ctxDone = {}
    /\ handler = [h \in Handlers |-> Idle]
    /\ jobs = [w \in Workers |-> <<>>] /\ cur = [w \in Workers |-> Free]
    /\ laneWorker = [l \in Lanes |-> None] /\ cancelled = {}
    /\ running = [l \in Lanes |-> 0] /\ sessionPending = [s \in Sessions |-> 0]
    /\ removed = {} /\ overtaken = {} /\ split = {}
--------------------------------------------------------------------------------
(* Mutated forms of operators below *)

\* Enqueue leaves the mark of an earlier removal.
UnmarkNot(l) == cancelled' = cancelled

\* A refused packet stays in deferredInflight.
FinishRefusedKeeps(h) ==
    /\ handler[h].op = "refused"
    /\ handler' = [handler EXCEPT ![h] = Idle]
    /\ UNCHANGED <<tracked, jobs, cur, processor, pkt, ctxDone, history>>

\* A removal counts the tasks it drops from a session as one.
DecrementOnce(s, k) ==
    IF k = 0 THEN sessionPending[s] ELSE IF sessionPending[s] > 1 THEN sessionPending[s] - 1 ELSE 0

\* A removal forgets the running tasks without cancelling them.
ForgetRunning(lanes) ==
    /\ ctxDone' = ctxDone
    /\ running' = [l \in Lanes |-> IF l \in lanes THEN 0 ELSE running[l]]
--------------------------------------------------------------------------------
(* Dispatch: dispatchDeferredSessionPacketTracked *)

\* A packet that is tracked already is only acknowledged again.
TryBeginDeferredPacket(h, p) ==
    /\ handler[h] = Idle /\ p \notin tracked /\ Len(pkt) < MaxTasks
    /\ tracked' = tracked \union {p}
    /\ pkt' = Append(pkt, p)
    /\ handler' = [handler EXCEPT ![h] = [op |-> "enqueue", task |-> Len(pkt) + 1]]
    /\ UNCHANGED <<jobs, cur, processor, ctxDone, history>>

\* worker.pending counts a task from its push to a moment of its end.
PendingAtMost(w) == Len(jobs[w]) + IF cur[w] = Free THEN 0 ELSE 1
PendingAtLeast(w) == Len(jobs[w]) + IF cur[w] = Free \/ At(w, {"ending"}) THEN 0 ELSE 1

LeastLoaded == {w \in Workers : \A v \in Workers : PendingAtLeast(w) <= PendingAtMost(v)}

CanAcceptSession(s) == sessionPending[s] < SessionCap

Unmark(l) == cancelled' = cancelled \ {l}

\* The mark of a cancelled lane is taken away even when the task is refused.
Enqueue(h) ==
    /\ handler[h].op = "enqueue"
    /\ LET n == handler[h].task
           l == Lane(n)
           s == Session(n)
       IN /\ Unmark(l)
          /\ \E w \in IF laneWorker[l] # None THEN {laneWorker[l]} ELSE LeastLoaded :
               \/ /\ CanAcceptSession(s) /\ Len(jobs[w]) < QueueLimit
                  /\ jobs' = [jobs EXCEPT ![w] = Append(@, n)]
                  /\ laneWorker' = [laneWorker EXCEPT ![l] = w]
                  /\ sessionPending' = [sessionPending EXCEPT ![s] = @ + 1]
                  /\ handler' = [handler EXCEPT ![h] = Idle]
               \/ /\ ~ (CanAcceptSession(s) /\ Len(jobs[w]) < QueueLimit)
                  /\ handler' = [handler EXCEPT ![h].op = "refused"]
                  /\ UNCHANGED <<jobs, laneWorker, sessionPending>>
    /\ UNCHANGED <<tracked, cur, running, pkt, ctxDone, history>>

FinishRefused(h) ==
    /\ handler[h].op = "refused"
    /\ tracked' = tracked \ {pkt[handler[h].task]}
    /\ handler' = [handler EXCEPT ![h] = Idle]
    /\ UNCHANGED <<jobs, cur, processor, pkt, ctxDone, history>>
--------------------------------------------------------------------------------
(* Removal: clearDeferredPacketsForStream, cleanupDeferredSessionState *)

LanesOfSession(s) == {l \in Lanes : SessionOf[l] = s}
PacketsOf(lanes) == {p \in Packets : LaneOf[p] \in lanes}
TasksIn(hands) == {hands[w].task : w \in Workers} \ {0}
Queued == UNION {ToSet(jobs[w]) : w \in Workers}

ClearDeferredInflight(lanes) == tracked' = tracked \ PacketsOf(lanes)

\* History: two workers now have tasks of the lane in hand.
NoteSplit ==
    split' = split \union {l \in Lanes : Cardinality({n \in TasksIn(cur') : Lane(n) = l}) > 1}

DecrementSessionPending(s, k) ==
    IF sessionPending[s] > k THEN sessionPending[s] - k ELSE 0

\* The tasks of the queue s that are not in D, in their order.
Without(s, D) ==
    LET kept[i \in 0 .. Len(s)] ==
          IF i = 0 THEN <<>> ELSE IF s[i] \in D THEN kept[i - 1] ELSE Append(kept[i - 1], s[i])
    IN kept[Len(s)]

\* compactQueuesLocked, with p.mu held: the channels are emptied, the tasks of the
\* lanes that are gone, or marked as cancelled, are dropped, and the others put back.
\* Every idle worker may read its channel meanwhile and so get a task that is not the
\* first: steal[w], if w is in its domain.
Compact(gone, hands, steal) ==
    LET stolen == {jobs[w][steal[w]] : w \in DOMAIN steal}
        dropped == {n \in Queued \ stolen : Lane(n) \in gone \union cancelled'}
        count(s) == Cardinality({n \in dropped : Session(n) = s})
    IN /\ \A w \in DOMAIN steal : hands[w] = Free /\ steal[w] <= Len(jobs[w])
       /\ jobs' = [w \in Workers |-> Without(jobs[w], dropped \union stolen)]
       /\ cur' = [w \in Workers |->
                    IF w \in DOMAIN steal THEN [task |-> jobs[w][steal[w]], phase |-> "taken"]
                    ELSE hands[w]]
       /\ sessionPending' = [s \in Sessions |-> DecrementSessionPending(s, count(s))]
       /\ laneWorker' = [l \in Lanes |-> IF l \in gone \union {Lane(n) : n \in dropped}
                                         THEN None ELSE laneWorker[l]]
       /\ overtaken' = overtaken \union (PacketsOf(gone) \intersect tracked)
       /\ NoteSplit

\* The workers that take a task from their queue during a compaction, with its place
\* (the first place is an ordinary read of the channel, just before the compaction).
Steals == UNION {[W -> 2 .. QueueLimit] : W \in SUBSET Workers}

CancelRunning(lanes) ==
    /\ ctxDone' = ctxDone \union ({running[l] : l \in lanes} \ {0})
    /\ running' = [l \in Lanes |-> IF l \in lanes THEN 0 ELSE running[l]]

\* RemoveLane and RemoveSession cancel what is running and mark lanes, for the tasks
\* that have been taken from the channel and have no context yet.
RemoveTasks(lanes, marked) ==
    /\ CancelRunning(lanes)
    /\ cancelled' = cancelled \union marked
    /\ \E steal \in Steals : Compact(lanes, cur, steal)
    /\ removed' = removed \union {n \in TasksIn(cur') : Lane(n) \in lanes}

StartRemoveLane(h, l) ==
    /\ handler[h] = Idle
    /\ ClearDeferredInflight({l})
    /\ handler' = [handler EXCEPT ![h] = [op |-> "removeLane", lane |-> l]]
    /\ UNCHANGED <<jobs, cur, processor, pkt, ctxDone, history>>

RemoveLane(h) ==
    /\ handler[h].op = "removeLane"
    /\ RemoveTasks({handler[h].lane}, {handler[h].lane})
    /\ handler' = [handler EXCEPT ![h] = Idle]
    /\ UNCHANGED <<tracked, pkt>>

StartRemoveSession(h, s) ==
    /\ handler[h] = Idle
    /\ ClearDeferredInflight(LanesOfSession(s))
    /\ handler' = [handler EXCEPT ![h] = [op |-> "removeSession", session |-> s]]
    /\ UNCHANGED <<jobs, cur, processor, pkt, ctxDone, history>>

\* Only the lanes that laneWorker still knows are marked.
RemoveSession(h) ==
    /\ handler[h].op = "removeSession"
    /\ LET lanes == LanesOfSession(handler[h].session)
       IN RemoveTasks(lanes, {l \in lanes : laneWorker[l] # None})
    /\ handler' = [handler EXCEPT ![h] = Idle]
    /\ UNCHANGED <<tracked, pkt>>
--------------------------------------------------------------------------------
(* The workers: runDeferredWorker, and the wrappedRun of a task *)

Goto(w, phase) == [cur EXCEPT ![w].phase = phase]

Take(w) ==
    /\ cur[w] = Free /\ jobs[w] # <<>>
    /\ cur' = [cur EXCEPT ![w] = [task |-> Head(jobs[w]), phase |-> "taken"]]
    /\ jobs' = [jobs EXCEPT ![w] = Tail(@)]
    /\ NoteSplit
    /\ UNCHANGED <<tracked, handler, processor, pkt, ctxDone, removed, overtaken>>

BeginTaskContext(w) ==
    LET n == cur[w].task
        l == Lane(n)
    IN /\ At(w, {"taken"}) /\ cur' = Goto(w, "begun")
       /\ \/ /\ l \in cancelled
             /\ ctxDone' = ctxDone \union {n}
             /\ UNCHANGED running
          \/ /\ l \notin cancelled
             /\ running' = [running EXCEPT ![l] = n]
             /\ UNCHANGED ctxDone
       /\ UNCHANGED <<tracked, handler, jobs, laneWorker, cancelled, sessionPending, pkt, history>>

\* The checks of wrappedRun and of the function it wraps.  Whether the session is
\* active and the stream open (shouldExecuteDeferredPacket) is not known here: see Return.
Run(w) ==
    /\ At(w, {"begun"})
    /\ cur[w].task \notin ctxDone /\ pkt[cur[w].task] \in tracked
    /\ cur' = Goto(w, "running")
    /\ UNCHANGED <<tracked, handler, jobs, processor, pkt, ctxDone, history>>

\* The connection is made, or has failed, and the client is told: the lane is finalized.
\* The context was last tested before: after the dial, or, where the stream is connected
\* already or the attempt has timed out, not since Run.
Answer(w) ==
    /\ At(w, {"running"})
    /\ ClearDeferredInflight({Lane(cur[w].task)})
    /\ cur' = Goto(w, "finalizing")
    /\ UNCHANGED <<handler, jobs, processor, pkt, ctxDone, history>>

FinalizeLane(w) ==
    /\ At(w, {"finalizing"})
    /\ LET l == Lane(cur[w].task)
       IN /\ cancelled' = cancelled \union {l}
          /\ \E steal \in Steals : Compact({l}, Goto(w, "returning"), steal)
    /\ UNCHANGED <<tracked, handler, running, pkt, ctxDone, removed>>

\* wrappedRun returns: it has finalized the lane; or a check has failed; or it has
\* stored a fragment that does not complete the request; or its context was cancelled
\* while it was dialling.  Its deferred finishDeferredPacket forgets the packet.
Return(w) ==
    /\ At(w, {"begun", "running", "returning"})
    /\ tracked' = tracked \ {pkt[cur[w].task]}
    /\ cur' = Goto(w, "ending")
    /\ UNCHANGED <<handler, jobs, processor, pkt, ctxDone, history>>

FinishLane(w) ==
    LET n == cur[w].task
        l == Lane(n)
    IN /\ At(w, {"ending"})
       /\ cur' = [cur EXCEPT ![w] = Free]
       /\ laneWorker' = [laneWorker EXCEPT ![l] = IF @ = w THEN None ELSE @]
       /\ ctxDone' = (ctxDone \union {running[l]}) \ {0, n}
       /\ removed' = removed \ {n}
       /\ running' = [running EXCEPT ![l] = 0]
       /\ cancelled' = cancelled \ {l}
       /\ sessionPending' = [sessionPending EXCEPT ![Session(n)] = DecrementSessionPending(Session(n), 1)]
       /\ UNCHANGED <<tracked, handler, jobs, pkt, overtaken, split>>
--------------------------------------------------------------------------------
HandlerStep(h) ==
    Enqueue(h) \/ FinishRefused(h) \/ RemoveLane(h) \/ RemoveSession(h)

WorkerStep(w) ==
    Take(w) \/ BeginTaskContext(w) \/ Run(w) \/ Answer(w) \/ FinalizeLane(w)
      \/ Return(w) \/ FinishLane(w)

Next ==
    \/ \E h \in Dispatchers, p \in Packets : TryBeginDeferredPacket(h, p)
    \/ \E h \in Removers, l \in Lanes : StartRemoveLane(h, l)
    \/ \E h \in Removers, s \in Sessions : StartRemoveSession(h, s)
    \/ \E h \in Handlers : HandlerStep(h)
    \/ \E w \in Workers : WorkerStep(w)

Spec == Init /\ [][Next]_vars
--------------------------------------------------------------------------------
\* The counter behind the per-session limit is the number of tasks of the session
\* that are queued or in hand, however removals, refusals and ends of tasks cross.
\* A counter that is too high locks the session out of the processor for good.
SessionPendingExact ==
    \A s \in Sessions :
        sessionPending[s] = Cardinality({n \in TasksIn(cur) \union Queued : Session(n) = s})

Redispatched(n) == \E m \in DOMAIN pkt : m > n /\ pkt[m] = pkt[n]

\* A task whose stream or session has been removed does not go on with its work: it
\* never starts, or its context is cancelled.  Excepted are lanes that two workers
\* have had in hand at once, and packets dispatched again since the removal began.
RemovedStops ==
    \A w \in Workers :
        LET n == cur[w].task
        IN At(w, {"running"}) /\ n \in removed /\ Lane(n) \notin split
             => n \in ctxDone \/ Redispatched(n) \/ pkt[n] \in overtaken

\* A task whose stream and session stay keeps its context until it has finished.
\* Excepted are lanes that two workers have had in hand at once: finishLane forgets
\* the lane although another of its tasks is queued, the next one goes to a second
\* worker, and the end of the first of the two cancels the context of the other.
AliveUnlessSplit ==
    \A w \in Workers :
        At(w, {"begun", "running"}) /\ cur[w].task \notin removed /\ Lane(cur[w].task) \notin split
          => cur[w].task \notin ctxDone

\* A packet that is tracked has a task that will make it forgotten: being dispatched,
\* queued, or in hand and not yet returned.  Without one, every repetition of the packet
\* would be acknowledged as pending and never worked on.  Excepted are packets tracked
\* between the two steps of a removal, the second of which may drop their task.
NoneStranded ==
    \A p \in tracked \ overtaken :
        \/ \E n \in Queued : pkt[n] = p
        \/ \E w \in Workers : cur[w] # Free /\ ~ At(w, {"ending"}) /\ pkt[cur[w].task] = p
        \/ \E h \in Handlers : handler[h].op \in {"enqueue", "refused"} /\ pkt[handler[h].task] = p
================================================================================
