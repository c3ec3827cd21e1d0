# NekoBox+ in TLA+

A verification project for the concurrent core of NekoBox+: TLA+ modules
translated from the source, TLC configurations that check them on small
instances, and TLAPS proofs of what holds for every value of the parameters.
Paths are relative to `src/workspace/`; `internal/` means
`MasterDnsVPN-plus/internal/`. `PROJECT.json` maps every definition to the lines
it stands for.

## 1. The system

NekoBox+ is an Android proxy client. Most of the tree is third-party code
(sing-box, utls, amneziawg-go, sing-vmess, byedpi, libneko) with patches, or an
Android user interface. The part with distributed and concurrent logic of its own
is **MasterDnsVPN-plus**, a VPN that tunnels TCP streams and DNS queries through
DNS messages: a transport that loses, repeats and reorders, with small payloads.

    local application            internet host
          |                            ^
    SOCKS/TCP listener            deferred session runtime (dials)
          |                            |
    ARQ (client) <== DNS/UDP ==>  ARQ (server)
          |      resolvers             |
    TX queue, dispatcher          TX queue, session store

### Inventory

| Component | State | Operations | What is hard | What makes it correct |
| --- | --- | --- | --- | --- |
| ARQ data plane (`arq/arq.go`) | `sndBuf`, `sndNxt`, `rcvBuf`, `rcvNxt`, dispatch marks | read, push, dequeue, retransmit, NACK, acknowledge, reorder, write | 16-bit numbers, five goroutines and one lock released between steps | every chunk once and in order; nothing forgotten; bounded buffers; delivery |
| ARQ close (`arq/arq.go`, packet handlers) | close flags of both directions, `waitingAck`, `deferredClose`, `controlSndBuf` | half-closes, deferred terminal packets, resets, timeouts, answers for streams that are gone | terminal packets overtake data; two sides close at once; late copies | no truncated stream shown as complete; both sides end |
| TX queue (`mlq/mlq.go`, `stream_client.go`, `stream_server.go`, `dispatcher.go`) | priority queues, key census, control counter | push, pop, pop-if, remove, pack, clear | pops between the steps of a push; pooled packets; a cached list of streams | counter exact; packets leave under their own stream's number; every queue gets its turn |
| Deferred session runtime (`udpserver/deferred_session.go`, `server_postsession.go`) | tracked packets, lanes, worker channels, contexts, counters | dispatch, refuse, run, answer, remove, finalise, compact | two locks, a channel read without one | a removed stream's work stops, a kept one's does not; nothing stays tracked for ever; limits exact |
| Session store (`udpserver/session.go`, `server_session.go`, `server_runtime.go`) | sessions by number, signatures, cookies, activity, recently closed numbers | initialise, validate, look up, close, expire, sweep | numbers are reused; a notice and a sweep act on what they saw under an earlier lock | the tables agree; repeated inits find their session; work of sessions in use survives sweeps |
| Client session (`client/client.go`, `session.go`, `async_runtime.go`) | session, init payload, restart flag and signal | initialise, race, retry, request a restart, stop | restart requests from goroutines nobody waits for | uses only its own session; recovers from every fault; leaves nothing behind |
| Fragment store (`fragmentstore/store.go`) | partial and completed messages | collect, purge, remove | repeated and conflicting fragments; key reuse | assembles exactly what was sent, once |
| In-flight DNS, cache (`inflight`, `dnscache`, `udpserver/dns_tunnel.go`) | entries by name | acquire, resolve, wait, expire | a late leader meets its successor | one lookup at a time; everyone who waits is answered, with a true answer |
| DNS through the tunnel (`client/dns_listener.go`, `server_postsession.go`) | pending names, fragments both ways | ask, assemble, work, respond | losses, full queues, retention against retransmission | whoever keeps asking is answered, with one whole response |
| Android service lifecycle (`bg/BaseService.kt`, `ServiceLifecyclePolicy.kt`) | state, desired profile, latest request, pending restart, generation, jobs | start, stop, reload, restart, recover | intents and broadcasts overtake each other; coroutines on several threads share fields | the last accepted request wins; no orphaned core |
| Pings, balancer, MTU (`client/`) | resolver scores | probe | | heuristics, not modelled |
| Encodings, configuration, UI, libcore, forks | | | | not modelled, see section 8 |

Components meet at four places. The ARQ puts packets into its stream's TX queue
and is told when they leave it (`NoteTXPacketDequeued`), without a common lock.
Packet handlers call the ARQ (`ReceiveData`, `ReceiveAck`, `MarkCloseReadReceived`...)
and answer on their own for streams that are gone. Handlers and sweeps of the
session store dispatch to, and remove from, the deferred runtime, by session number.
The server's answers (`ERROR_DROP`, `SESSION_BUSY`) drive the client's restarts.

## 2. Modules

| Module | What it is |
| --- | --- |
| `ReliableStream` | abstract specification: one direction of a stream is a FIFO pipe |
| `ArqData` | the ARQ data plane, one direction, with the DATA/RESEND half of the TX queue |
| `MCArqData` | fairness and instances for TLC |
| `ArqDataProofs`, `ArqCloseProofs`, `DeferredSessionProofs`, `SessionStoreProofs`, `SessionLifeProofs`, `ServiceLifecycleProofs`, `TxQueueProofs` | inductive invariant and theorems of the module of that name |
| `DnsProofs` | the same for `DnsServer` and `DnsTunnel`, whose specification is called `TunnelSpec` so that one module can extend both |
| `ArqClose`, `MCArqClose` | both ARQs of a stream, from the first read to the final close |
| `DeferredSession`, `MCDeferredSession` | tracked dispatch and the worker pool of the server |
| `SessionTable` | abstract specification: numbers are unique among open sessions, and limited |
| `SessionStore`, `MCSessionStore` | the server's session table, packet workers and cleanup loop |
| `ClientSession` | the client's session loop and restart requests |
| `SessionLife`, `MCSessionLife` | `ClientSession` composed with `SessionTable` over a lossy network |
| `FragmentStore`, `Inflight`, `DnsCache` | the three stores of the DNS path, used through INSTANCE |
| `DnsNames` | the names and answers `DnsServer` and `DnsTunnel` have in common |
| `QueryService` | abstract specification: a query is answered once, with a true answer |
| `DnsServer`, `MCDnsServer` | the server's deferred DNS workers over `DnsCache` and `Inflight` |
| `DnsTunnel`, `MCDnsTunnel` | DNS end to end: two fragment stores, the client's cache, a worker as `QueryService` has it |
| `ServiceLifecycle`, `MCServiceLifecycle` | the Android proxy service |
| `MultiLevelQueue` | the priority queue as operators on a sequence |
| `TxQueue`, `MCTxQueue` | the client's queues, control counter, dispatcher and packing |

### ArqData

Chunk `d` is the d-th chunk read; it stands for its bytes, and its wire number is
`d % SeqSpace`. `sndBuf` and `rcvBuf` are the code's maps, keyed by wire number.
An action is one critical section: what a goroutine carries from one to the next
is a variable (`ioPc`, `hand`, `rtxJobs`, `rtxMark`, `rx`, `writing`).

| Code | Actions |
| --- | --- |
| `ioLoop` | `IoLoopRead`, `IoLoopPush` |
| dispatcher | `PopNextTXPacket`, `NoteTXPacketDequeued` |
| `checkRetransmits` | `CheckRetransmitsScan`, `...Push`, `...Mark`, `MaxRetransmissionsExceeded` |
| handlers | `ReceiveAck`, `HandleDataNack` |
| `rxLoop` | `ProcessReceivedData`, `AnswerReceivedData` |
| `retransmitLoop` of the receiver | `RunGapRecoveryWatchdog`; for `lastActivity`, which it looks at first, `ReverseTraffic`, `ReversePauses`, `IntervalPasses` |
| `writeLoop` | `WriteLoopTake`, `WriteLoopFlush` |
| network (external) | `LoseData`, `LoseAck`, `LoseNack`; a receive may leave a copy behind |

A stream begins with chunk `First`: 0 for a new one, more for one whose first chunks are
all acknowledged and written, so that a short run can cross the wrap-around.
`activity` is what the idle guard of the gap watchdog (`arq.go:2088`) sees: data that has
just come, traffic of the other direction that may go on for as long as it likes
(the receiver's own reads, and acknowledgements and NACKs for them, renew `lastActivity` at
lines 1167, 1831, 1880 and 2253), or none for an interval. A write takes any
part of what remains of the batch: all of it, or what the local connection had accepted when
it timed out or failed transiently (`arq.go:1731-1764`).

Abstractions: `rxChan` is part of the network, the receiver's TX queue part of
`ackNet` and `nackNet`; "the timer may have run out" stands for the RTO arithmetic;
the push of a RESEND and the eviction of the queued DATA packet are one step, and so
are the look-up and the push of `HandleDataNack`; control packets
and the reset's aftermath belong to `ArqClose`.

One assumption is about the environment, `NoStragglers`: by the time `Half` newer
chunks have been read (32768 in the code), no copy of a chunk, no acknowledgement of
it and no unacknowledged item for it is left. The code does not enforce it; it
follows in practice from the retry limit and the packet TTL, and without it
no 16-bit sequence space can tell an old packet from a new one. Everything up to
that age (late copies and acknowledgements across the wrap-around) is in the model.

### ArqClose

The state of one ARQ is a record and a method of the code an operator from record
to record, so an action is a handler with all the calls it makes. Handlers are
atomic; `ioLoop` and `writeLoop` are split where they block on the local connection,
`rxLoop` takes from its channel in steps of its own. With `"preempt"` in `Faults`,
`writeLoop` is also split between its two critical sections. The network is the
set of everything ever sent: a packet may arrive at any later time, any number of
times. `Faults` says what else may go wrong: a failing read or write, an abort by
the owner, deadlines and retry limits, the inactivity timeout.

Left out: `StartPaused`/`SetIOReady`, the final-ACK watchdog (it repeats an
acknowledgement), virtual stream 0, the send window. `CloseStream` without force
has no caller. A recently closed stream and an unknown one answer the modelled
packets alike.

### DeferredSession

A lane is a (session, stream) pair. `deferredInflight` and the processor have a
lock each; an operation that needs both is two actions, and another goroutine may
come in between (`TryBeginDeferredPacket`/`Enqueue`/`FinishRefused`,
`StartRemoveLane`/`RemoveLane`, `StartRemoveSession`/`RemoveSession`,
`Answer`/`FinalizeLane`, `Return`/`FinishLane`). Channels are read without a lock:
while `compactWorkerLocked` empties and refills one, every idle worker may take any
task out of its own (`Compact`'s parameter `steal`). `Answer` asks for no live context:
the code tests it some time before, and on some paths not since `Run`. `worker.pending`, decremented without
the lock, is bracketed by `PendingAtMost` and `PendingAtLeast`; among equally loaded
workers the choice is open. What `shouldExecuteDeferredPacket` sees of the session
store is left open: `Return` may always happen. The histories `removed`,
`overtaken` and `split` only serve to state the properties.

### SessionStore

A record is known by its place in `rec`, the pointer of the code; numbers are used
again. An action is one critical section of `sessionStore.mu`, or what a goroutine
does between two of them: `Validate`/`TouchValidated`/`Handle`,
`LookupClose`/`Close`/`CleanupClosed`, `Cleanup`/`CollectIdle`/`CleanIdle`/`CleanExpired`.
Time is what it does to a record (`Age`, `ReuseEnds`). `work` is what is kept for a
session outside of the table, deferred tasks and fragments, which are cleaned by
number. Packets of every session ever opened may arrive at any time.

### ClientSession and SessionLife

`Run` is a program counter; the two goroutines that may ask for a restart, a packet
handler and the network-change hook, take the steps of `requestSessionRestart` one by
one, and `clearRuntimeResetRequest` is its two steps. `sess` is the server's record,
which stands for number and cookie. `SessionLife` adds the server as `SessionTable`
describes it, which `SessionStore` is shown to implement, and faults: lost packets,
a server restart, a session in use that times out, changes of the network. `reusable` is
the sessions that a repeated `SESSION_INIT` still finds; a client that goes on asking for
one whose reuse period is over is refused until that one times out, or is given another.

### The DNS path

`FragmentStore`, `Inflight` and `DnsCache` have no specification of their own; they
are instantiated over the variables of `DnsServer` and `DnsTunnel`, so that one
definition of `Collect` serves both directions. An in-flight entry is known by the
query that leads it; `result` is the closed channels. `DnsTunnel` does not repeat the
worker: it sends some answer or SERVFAIL, which is what `DnsServer` is shown to do, or
nothing at all when no response can be built or it is too long for 255 fragments. `taken`
is keyed as `deferredTrackedPacketKey` keys it: by the fragment that completed the query.
Fragments of a query are sent until given up (the ARQ's control packets), those of a
response once. `faults` bounds what is lost for good; steps that cost nothing
(`FaultUnless`) are not bounded.

### ServiceLifecycle

`data` is `BaseService.Data`; a method called on the main thread is an operator from
record to record, for main thread code is atomic between suspensions. `connectingJob`,
`restartJob` and the `ConnectionRecoveryQueue` run on other threads. When one of them
calls `stopRunner`, the call is an entry of `calls` that goes on step by step (`CallClear`,
`CallForget`, `CallLook`, `CallMark`, `CallEnter`, `CallStop`), and the main thread may come
in between any two of them; the test that leads to the call is a step of its own
(`JobChecks`, `JobUnwanted`), and so are the end of the job (`JobFinish`), its warnings,
which set Connecting over whatever the state is (`JobWarns`), and the launch. These
accesses are still one step:

- `ensureActive` and the test of the profile after it: the profile is changed before a
  start is cancelled, so that a cancellation in between is one that comes after the test;
- `restartGeneration++`, `pendingRestart = false` and what belongs to it (899-904): the main thread
  could come in between only with a reload or a restart of its own, whose mark is lost
  either way; that two threads increment the generation at once and one of the two is lost
  is not modelled;
- `changeState(Connected)` and `pendingRestartOrigin` (1443-1445), as the origin is read
  only by a stop that finds a restart pending and decides nothing but the delay of it;
- the reads of `RestartRead`: profile and number are read one after the other, and it is
  `RestartSend` that reads the number again, so that a request between the two shows as `torn`.

A request id is the index in `req`; the time stamps of the code grow the same way. Start
intents arrive in order, broadcasts too, either may overtake the other. The generation
counter is modelled by what it does: whoever noted it and has not compared it yet is
removed. Stop and restart coroutines are numbered, so that the end of one does not
renumber the others. A start may fail at any point up to its end, with the core running
(`JobFails`). A clean-up may fail without a timeout before it comes to close the core
(`StopKillFails`): the stop goes on, `data.proxy` is forgotten, nobody asks for the
replacement of the process, and the core runs on. A reload that `canReloadSelector` allows
selects nothing when the running config has no tag for the profile (`hasTag` in
`StartReloads`). Warnings of a config count as faults, only to bound their number.

### TxQueue

A queue is a sequence ordered by priority, and every operation of `mlq` is atomic,
as its lock makes it. The dispatcher does not take `txQueueMu`, so a push is split
after the insertion: marking the packet (`MarkQueued`, `MarkInHand`, `MarkLost`),
counting it (`AddCount`), or evicting the chunk it repeats (`ReplaceData`). `pushing`
is the push that holds the mutex. When the packet has been dispatched before it is
marked, the mark falls on a pooled object that may belong to another stream by then:
`MarkLost` leaves open which packet bears it, and `MaxRaces` bounds how often it
happens. Creating and removing a stream are two steps each, around the change of
`streamSetVersion` (`versionNew`: not the version the dispatcher has cached).

| Code | Actions |
| --- | --- |
| `PushTXPacket` | `PushTXPacket`, `Mark...`, `AddCount`, `ReplaceData` |
| `RemoveQueuedData`, `RemoveQueuedDataNack` | the same names |
| `new_stream`, `finalizeAfterARQClose`, `cleanupResources` | `NewStream`, `BumpNew`, `DeleteStream`, `CleanupResources` |
| dispatcher: cached streams | `LoadVersion`, `Snapshot` |
| dispatcher: choice | `ScanEmpty`, `ScanFound`, `ScanNothing`, one queue at a time |
| dispatcher: pop and note | `PopStream`, `PopNothing`, `PopOrphan`, `NoteSelected`, `NoteUnwanted` |
| dispatcher: packing | `PackPop`, `PackNote`, `PackOrphan`, `PackNext`, `PackDone` |
| `asyncPlanEncodeWorker` | `PlannerTake`, `PlannerRequeue` |

The planner takes one task at a time; the dispatcher looks for room before it pops, so
its queue never blocks between a pop and a push. Wake-up signals are left out, because
the dispatcher also looks again when its timer fires.

## 3. Runs

| Run | Instance | Checks |
| --- | --- | --- |
| `ArqWrap` | 8 chunks over 6 numbers, limit 1, window 1, no NACKs; 0.1 M states | `TypeOK`, `NothingLost`, `SpanWithinHalf` |
| `ArqLive` | chunks 7 and 8 over 8 numbers, limit 2, window 1, NACKs, partial writes, reverse traffic, fairness for the first chunk only; 0.3 M states | `InOrder`, `ReorderBufferBounded`, `ImplementsStream`, `DeliveredUnlessMarkLost`, `GapRecoveredUnlessBusy` |
| `CloseLive` | one chunk each way, failing reads | `HandshakeDeliversUnlessReset`, `EofUnlessCopy`, `BothCloseUnlessCopy` |
| `CloseFaults` | one chunk from the server, failing writes, aborts, deadlines, inactivity; 1.0 M states | `NoTruncation`, `HandshakeComplete`, `BothClose` |
| `DeferredSafe` | 1 session, 2 streams, 3 packets (two are fragments of one request), 2 workers, 3 tasks; 1.3 M states with symmetry | `SessionPendingExact`, `RemovedStops`, `AliveUnlessSplit`, `NoneStranded` |
| `SessionStore` | 2 numbers, 3 sessions, 2 payloads, one worker and the cleanup loop | `StoreConsistent`, `OneOpenPerInit`, `WorkKeptUnlessRaced`, `ImplementsTable` |
| `SessionLife` | 1 number, 3 payloads, 2 cookies, 7 sessions, 2 faults; 49 k states | `OwnSession`, `RequestHeardUnlessLost`, `RecoversUnlessLost`, `SlotsReclaimed` |
| `DnsServer` | 1 name, 3 queries; 84 k states | `EntryHasLeader`, `OwnAnswerUnlessLate`, `OneLookupUnlessLate`, `ImplementsService`, `QueriesEnd` |
| `DnsTunnel` | 1 name, 2 answers, 2 fragments each way, 3 faults; 0.13 M states | `WholeUnlessOverrun`, `Answered` |
| `DnsFailureKept` | the same with 1 fault | `OnlySuccessesKept` is **violated** |
| `ServiceLifecycle` | 2 profiles, 3 requests or system broadcasts, 4 starts, 1 fault; 2.25 M states | `NoOrphanUnlessCleanupFails`, `StopHoldsUnlessTorn`, `StopHonoured`, `ReloadHonouredUnlessRaced` |
| `TxQueue` | streams 0, 1 (comes and goes) and 2, an orphan, 2 blocks to a packet, 1 race; 0.45 M states | `CountExactUnlessRaced`, `OwnStreamUnlessPutOff`, `ServedUnlessTopBusy` |

### The exceptions

Properties whose name ends in "Unless..." hold outside the case they name and fail
without the exception; each exception is a race TLC has shown, at these lines:

- **UnlessMarkLost** (`arq.go:2404`). `checkRetransmits` pushes a retransmission without
  `a.mu` and then clears `Dispatched` under it. If the dispatcher dequeues the packet
  in between, its mark is overwritten and the timer of that chunk is dead.
  `GapRecoveredUnlessBusy` shows that NACKs repair it whenever a later chunk has arrived.
- **UnlessBusy** (`arq.go:2088`). The watchdog that asks for a missing chunk waits for an
  interval in which nothing was received or read. Steady traffic in the other
  direction postpones it for ever, and with it the repair of a lost mark; TLC finds that
  behaviour when the exception is taken away.
- **HandshakeDeliversUnlessReset** (`client_utils.go:513`). A side that has completed
  the handshake and is gone answers a late copy of a DATA packet with an RST, which
  makes the peer throw away acknowledged data it has not written yet.
- **UnlessCopy** (`arq.go:1583`). A late copy in `rxChan` at the moment `CLOSE_READ`
  arrives makes both the writer and `tryFinalizeRemoteEOF` wait; dropping the copy
  wakes neither before the inactivity timeout.
- **UnlessSplit** (`deferred_session.go:310`). The end of one task unmaps its lane
  although another task of the lane is queued, so two workers get tasks of one lane,
  and the end of the first cancels the context of the second. The DNS pool has one
  worker and is not exposed, the connect pool is.
- **WorkKeptUnlessRaced** (`server_runtime.go:148`, `server_session.go:78`). Sweeps and
  close notices clean by number what they saw under an earlier lock.
- **UnlessLost** (`async_runtime.go:273`). A restart requested between the clearing of
  the flag and the draining of the channel has its signal swallowed while the flag
  stays set; later requests are turned away, and the client stays on a dead session.
- **UnlessLate** (`inflight/manager.go:88`). A lookup that outlives the time limit
  resolves by name and so takes the entry of its successor.
- **UnlessOverrun.** The server's fragment store forgets a completed query
  (`DNS_FRAGMENT_ASSEMBLY_TIMEOUT`) while the client still sends it and its answer is being
  made, is on its way, or has arrived in part; it is then answered twice, and the responses
  may mix. At the default settings the server remembers a query for longer than the client
  keeps pieces of a response; nothing in the code makes it so (`client.go:454`,
  `server.go:381`).
- **UnlessCleanupFails** (`BaseService.kt:881`). An exception in the clean-up before
  `box.closeTimeout`, for instance where the traffic statistics are written to the database,
  leaves the core running; `data.proxy` becomes null all the same (982), and
  `stopCleanupAction` asks for the replacement of the process only after a timeout. That the
  restart goes on is what the test `nonTimeoutCleanupErrorKeepsRequestedRestart` wants; the
  core that is left behind is what the properties name (`leaked`), in `StopHonoured` too.
- **UnlessTorn** (`BaseService.kt:738`). A restart reads the profile and then the request
  number; a stop in between gives the old profile the number of the stop. And a restart
  that comes after the stop sends the stop's number with no profile, which does nothing
  in the process that has accepted the stop; when the intent outlives that process, the
  next one takes the number of the stop for that of a start. The second case needs three
  faults, more than the run has: it was found by the proof (section 4).
- **UnlessRaced** (`BaseService.kt:1443`, `:1409`, `:898`, `:126`, `:665`). A start
  overwrites Stopping with Connected, or with Connecting and its warnings; one that fails, or is no longer
  wanted, calls `stopRunner` on its own thread, which takes back a newer request or begins a
  second stop; a system broadcast makes the intent of a restart stale; and a selector reload
  of a profile that the running config has no tag for selects nothing (`untagged`).
- **CountExactUnlessRaced** (`stream_client.go:242`). The dispatcher pops a control packet
  after its insertion and before its counting: the counter stays too high, or, through
  the pooled object, too low for another stream. `ServedUnlessTopBusy` shows that no
  packet is stuck for that; it is only packed less well.
- **UnlessPutOff** (`dispatcher.go:218`). A ping that is put off leaves `selected` at
  stream 0; if the round then finds an orphan, a packet of stream 0 is popped and sent
  under the orphan's stream number.
- **UnlessTopBusy** (`dispatcher.go:120`). The orphan queue is last in the round and the
  cursor can only get there from the stream with the highest number, so one that is
  always busy starves the orphans.

`NoTruncation` has an exception that its name does not show: a side whose `writeLoop` was
suspended between its two critical sections (`arq.go:1684`, `preempted`). `CloseFaults` has
`"preempt"` in `Faults`, so that this happens, and without the exception the property fails;
`CloseLive` runs without it. And a late copy of a `SESSION_INIT` may open
a session again after the first one was closed, as `Close` forgets the signature
(README.MD:746 speaks of "simple replay protection"); `SlotsReclaimed` shows that such a
session is given up again.

**DnsFailureKept** is the one disagreement with the documentation that has a run:
README.MD:593 says how long "successful DNS records" are kept, and `HandleDNSQueryRes`
keeps a SERVFAIL just as long.

### Bounds

Every bound is a CONSTANT: `MaxChunks`, `NetCap` (packets in flight per kind),
`MaxRetries`, `Dequeuers`, `MaxRead`, `MaxTasks`, `MaxRecords`, `MaxWork`,
`MaxSessions`, `MaxTokens`, `MaxFaults`, `MaxRequests`, `MaxStarts`,
`MaxRaces`. `ArqWrap` uses every number
of the sequence space again, which is where late acknowledgements and
the `diff >= Half` test can go wrong; with `NetCap` 1 there is still a packet, an
acknowledgement and a queued copy of the same chunk at once. Its limit of 1 makes it
stop-and-wait, so what is about order is checked in `ArqLive`: with two chunks under way
the second may come first, which leaves a hole and a full reorder buffer that must admit the
first, or come while the first fills the buffer and be refused. `First` makes the numbers
of the two wrap round. For the invariants and
refinements of section 4 the proofs remove the bounds altogether; what depends on the
bounds is liveness. One chunk is
enough for `ArqClose`, whose properties are about data that is, or is not, ahead of
a terminal packet; its order is `ArqData`'s matter. `DeferredSafe` needs two tasks
of one lane, a third to contend for the limits (`QueueLimit` 2, `SessionCap` 2),
and a second worker; nothing tells the workers or the fragments apart, so
they are symmetric. `SessionStore` needs a third session that takes the number of
an earlier one and one payload with two sessions; `SessionLife` has a single number, so that
every session takes the place of another. Three queries are a leader, its successor
and a follower; `DnsTunnel` uses one sequence number over and over, the worst case
for its stores, and three faults: two that lead to an answer being sent twice and
one more. `ServiceLifecycle`'s three requests are a start, a stop or reload, and one
that meets it; four starts leave room for a restart after each.
`TxQueue` has one stream of each sort: the control stream with its ping, one whose
control packets are packed with others and that is removed under the dispatcher, and the
highest one, with data; `PingLimit` and `MaxBlocks` are small so that both are reached.

Deadlock is not checked where the system may stop for good: all chunks delivered,
both ARQs closed, no more tasks, sessions, or requests.

### Fairness

- `ArqData`: goroutines keep running (WF on their steps); a packet that stays queued is
  dequeued (`Pending`), the timer of an item that stays dispatched and unacknowledged
  runs out (`Timed`), and a packet sent for ever is received for ever (`InFlight`, and SF
  for acknowledgements); no packet lives for ever. A NACK that arrives again and again while its chunk is held
  is handled then (`Wanted`). An interval without activity ends when it is not disturbed (WF on
  `IntervalPasses`), but reverse traffic need never pause. Nothing is assumed of the
  application, and the reset after too many retransmissions is not forced.
- `ArqClose`: goroutines run and writes to a local connection end; what is
  retransmitted until acknowledged arrives, and so do the answers; only finitely
  many copies are late. The applications and the faults are free. `InactivityTimeout`
  is fair where the fault is enabled.
- `SessionLife`: goroutines go on, unused sessions time out; what the client sends
  again and again while it waits is received in the end, and so is the answer (SF).
- `DnsServer`: workers go on (WF): an upstream lookup and a follower's wait have
  deadlines in the code.
- `DnsTunnel`: the application keeps asking, timers run out, workers answer, and what
  is sent again arrives (WF); losses are the bounded faults.
- `ServiceLifecycle`: threads run, delays end and intents are delivered (WF on
  `Progress`); requests and faults are bounded and free. The two liveness properties have the
  form `[]<>`: requests end, so what the last accepted one asks for holds in the end.
- `TxQueue`: the dispatcher and the planner run, and a goroutine that has begun a push,
  an insertion or a removal finishes it (WF). Nothing need be pushed, and the planner is
  not forced to send what it may queue again.
- `DeferredSession` has no liveness property: a dial may take as long as it likes.
  `NoneStranded` is the safety core of "a tracked packet is eventually forgotten".

## 4. Proofs

Every theorem has the form `Spec => []P`, or `Spec => P` for an action property or a
refinement, and is proved for all values of the constants that satisfy the ASSUME of
its module. The properties are the ones the runs check.

| Module | Theorem | Property |
| --- | --- | --- |
| `ArqDataProofs` | `TypeCorrect` | `TypeOK` |
| | `InOrderDelivery` | `InOrder` |
| | `NoChunkLost` | `NothingLost` |
| | `SpanBounded` | `SpanWithinHalf` |
| | `ReorderBounded` | `ReorderBufferBounded` |
| | `Refinement` | `ImplementsStream`: `ArqData` implements `ReliableStream` |
| `ArqCloseProofs` | `StreamsWhole` | `NoTruncation` |
| | `HandshakeTrue` | `HandshakeComplete` |
| | `HandshakeDelivers` | `HandshakeDeliversUnlessReset`, assuming `Strict` |
| `DeferredSessionProofs` | `CountExact` | `SessionPendingExact` |
| | `PacketsForgotten` | `NoneStranded` |
| | `ContextsKept` | `AliveUnlessSplit` |
| | `RemovalsStop` | `RemovedStops` |
| `SessionStoreProofs` | `TypeCorrect` | `TypeOK` |
| | `TablesAgree` | `StoreConsistent` |
| | `OneSessionPerInit` | `OneOpenPerInit` |
| | `WorkKept` | `WorkKeptUnlessRaced` (an action property) |
| | `Refinement` | `ImplementsTable`: `SessionStore` implements `SessionTable` |
| `SessionLifeProofs` | `ClientOwnsSession` | `OwnSession` |
| | `RequestHeard` | `RequestHeardUnlessLost` |
| `DnsProofs` | `LeadersLookUp` | `EntryHasLeader` |
| | `OwnAnswer` | `OwnAnswerUnlessLate` |
| | `OneLookup` | `OneLookupUnlessLate` |
| | `Refinement` | `ImplementsService`: `DnsServer` implements `QueryService` |
| | `ResponsesWhole` | `WholeUnlessOverrun` (of `TunnelSpec`) |
| `ServiceLifecycleProofs` | `CoresOwned` | `NoOrphanUnlessCleanupFails` |
| | `StopsHold` | `StopHoldsUnlessTorn` |
| `TxQueueProofs` | `CounterIsRight` | `CountExactUnlessRaced` |
| | `PacketsKeepTheirNumber` | `OwnStreamUnlessPutOff` |

### Assumptions

`WindowAssumption` of `ArqData` is `RcvWindow + Limit < Half`. In the code the receive
window is `2 * windowSize`, the limit `0.8 * windowSize`, the configuration clamps
`windowSize` to 8000 and `Half` is 32768, so it holds with room to spare. The other
assumptions say what the constants are: bounds are natural numbers, there is a number
and a cookie for a session, a packet has a lane and a lane a session, the markers
`None`, `"fail"` and `"mixed"` are no names or answers. Nothing is
assumed of the packets of `TxQueue`. `HandshakeDelivers` alone has a hypothesis besides,
`Strict`: writes do not fail and `writeLoop` is not suspended between two critical
sections, which is how `CloseLive` runs it. A write that fails makes a client send a
`CLOSE_READ` that is not the end of its stream.

### ArqData

None of the properties is inductive by itself. The inductive invariant `IInv` adds
to them where each thing may be:

- `FlightNumbered`, `SndBufNumbered`, `RcvBufNumbered`: whatever is in flight,
  in hand or buffered bears the number of its chunk, and that chunk has been read;
- `AcksTrue`: an acknowledgement under way is for a chunk that has arrived;
- `WindowKept`: the reorder buffer holds chunks from `taken` to `taken + RcvWindow`;
- `WrittenInOrder`: delivered and being written together are `0 .. taken - 1`;
- `PushPending`: the chunk `ioLoop` is about to push is the last one read.

The heart is `SpanWithinHalf`. The send limit bounds the number of unacknowledged
chunks, not how far the newest is from the writer. A chunk below `read` is
unacknowledged, or has arrived and is then below `taken` or inside the receive
window; so `read - taken` is at most `RcvWindow + Limit + 1`. Within that
span wire numbers are injective and `Diff` tells old from new (`DiffOf`, from the
lemmas on numbers modulo an even size), which gives in turn that nothing new is taken for old
(`NothingLost`) and nothing old for new (`InOrder`). There is one lemma per
action, `NextIInv` puts them together.

### ArqClose

The invariant has a part about one ARQ (`Own`) and a part about an ARQ and its peer
(`Link`), as the network remembers everything ever sent. `Own` says that what was
acknowledged is written, being written or buffered (`Writer`, `Buffered`), that a
terminal packet that is out has been marked as sent (`Told`), that `CLOSE_READ` comes
after the end of the connection (`Ended`), and how an ARQ comes to be closed (`Over`,
`Careful`). `Link` says that what an ARQ has received its peer has sent (`Sources`), that
the peer has acknowledged what is no longer in the send buffer, and everything once
`CLOSE_READ` is out (`Arrived`), and that at the end of the stream all of it is written
(`Whole`). Each operator of `ArqClose` is shown to keep both, and of a step of one side
the other needs to know only that it is `Later`: what it relies on grows.

### DeferredSession

`Placed`: a task is in one place, once in one queue, in one hand, or with the goroutine
that is about to queue it. Without it the count of a session cannot be compared with a
set of tasks. `Contexts` says what is known of the contexts of the tasks in hand: a
lane whose context another task has taken over is `split`, a lane that is removed has
its tasks marked. The counter's exactness needs that removing from a queue, or
compacting it, changes the number of a session's tasks by as many as were taken, which
is induction over a sequence; it is done through the least number of a set
(`SetInduction`, from `WFMin`), as the library's induction theorems cannot be
instantiated by the installed provers.

### SessionStore and SessionLife

`StoreConsistent` is nearly inductive; the rest is about time. `SigKept`: a session
that may be found again by its payload still has the signature; `AgainTold`: of two
open sessions of one payload the later was opened knowingly; `JobsPlaced` and
`SweepTrue`: what a goroutine carries from one critical section to the next is still
true, or is one of the races that `WorkKeptUnlessRaced` names. In `SessionLife` the
invariant adds that an acceptance on its way names a session made of the payload it
answers (`AcceptsTrue`), and that the payload in use is the last one (`TokenIsLast`).

### DnsServer

`LookupInv` places the workers: an entry in the table is open, its leader looks it up,
and a leader that has lost its entry is late. `AnswerInv` follows an answer from the
resolver to the cache, the entry and the reply: it was given for that very name, and
whoever waits for an entry has asked for the entry's name.

### DnsTunnel

`WholeUnlessOverrun` is about the cache; what makes it true is that a query is answered
once. `AnsweredOnce`: a query in the hands of a worker counts as completed at the
server, so does one of whose response anything is on its way or stored, and there is
nothing of a response while a worker has the query. `OneResponse`: the fragments with
one number, on their way or in the client's store, are of one response. Both hold until
the server forgets a query before its answer is there (`overrun`).
A number may be used again, and fragments may be repeated or replaced by those of
another total, without any further condition.

### ServiceLifecycle

`CoresOwned` needs that `lifecycleMutex` excludes (`Exclusive`) and what each step of a
clean-up leaves behind (`Killed`): the core is closed, or the clean-up has failed
(`leaked`), before the stop forgets it, and
there is no other when a start overwrites `data.proxy`. `StopsHold` follows a number from
the request through the intent to `Data`, back to the intent of a restart, and to the start
(`Numbers`). The attempt to prove it with the exception as it was first stated failed
at the replacement of the process; TLC then found the case with three faults. It is
now part of `torn`.

### TxQueue

`RoundInv`, for the number a packet leaves under, follows the dispatcher's locals from
the scan to the note: `selected` is the stream whose number was taken, or it is 0 and a
ping was put off (`OwnNumber`); when no stream is selected the first orphan is still the
one that was peeked, since the orphans have one priority and only the dispatcher takes
them away (`OrphansInOrder`, `SelectionPlaced`). That last part is what a newly queued
orphan could have broken.

`CountInv`, for the counter, holds as long as there was no race. Every control packet in
a queue or in the dispatcher's hand bears a mark, or its push is about to mark it and
will find it (`EntriesMarked`, `HeldMarked`, `MarkFinds`); the counter, and one more
while a push is between its mark and its `Add`, is the number of marks in the queue and
in hand (`SumsUp`). The property itself says nothing while a push or the dispatcher is
at work, which is when the counter can go wrong. The marks are counted by keys, which the
census keeps unique (`Keyed`), so that inserting, removing and marking become facts
about sets (`EnqueueFacts`, `RemoveFacts`, `MarkedFacts`, `KeyCount`). For that
`MultiLevelQueue` is written with `InsertAt` and `RemoveAt` rather than with `SelectSeq`,
which the provers cannot expand.

### What is left to TLC

Out of the prover's reach: liveness under fairness (`DeliveredUnlessMarkLost`,
`GapRecoveredUnlessBusy`, `EofUnlessCopy`,
`BothCloseUnlessCopy`, `BothClose`, `RecoversUnlessLost`, `SlotsReclaimed`,
`QueriesEnd`, `Answered`, `StopHonoured`, `ReloadHonouredUnlessRaced`,
`ServedUnlessTopBusy`). Every invariant and every action property that a run checks is
proved, and so are the three refinements.

## 5. Hazards

`PROJECT.json` lists what is hard to test in this code, at its line, with the
properties that would catch it. The one without a property, the final-ACK watchdog's
reading of `rcvNxt = 0` (`arq.go:976`), carries a note.

## 6. Plan

1. Done: ARQ data plane with its proofs, close handshake, deferred runtime, session
   store and client session, DNS path, service lifecycle,
   the client's transmission queue.
2. Done: the proofs of section 4.
3. Left to model: the server's counterpart of `TxQueue` (`dequeueSessionResponse`); in
   `ArqClose` the final-ACK watchdog and the paused start.

## 7. How to run

    tlc -workers 2 -config ArqDataWrap.cfg MCArqData
    tlapm ArqDataProofs.tla       # and the other modules with Proofs in their name

The configuration and the module of every run are in `PROJECT.json`.

## 8. Not modelled

- RTT and RTO estimation, resolver scoring and MTU probing: they decide when, or
  through which resolver, something is sent, which the models leave open.
- Packet building and parsing, DNS messages, base-N codecs, ciphers, compression:
  pure functions over long byte strings.
- Of the TX queue: the capacity of the planner's queue and the wake-up signals,
  `clearOrphanResets` and the draining when the runtime stops, the server's side.
- The final-ACK watchdog and the paused start of the ARQ. A chunk whose read was in
  progress when reading was stopped (`arq.go:1171`) may still be sent by a client whose
  writer broke; no text says what should become of it, and no property is about it.
- The cache file of `dnscache`; the lists of recently closed streams; the tracker of
  invalid cookies, which only decides whether an invalid packet is answered.
- Configuration, logging, bindings, command-line programs.
- Of the Android service: keeping the TUN device, notifications, the stop watchdog,
  sleep and wake of the core, the RELOAD broadcast, the destruction of the service.
- The rest of the Android application (user interface, database, rendering of
  configurations), libcore and the forks (sing-box, utls, amneziawg-go, sing-vmess,
  byedpi, libneko). They are most of the tree: data transformation, cryptography and
  third-party code, without state machines of this program's own. A map of a few
  thousand lines is therefore a small share of the repository, but most of its own
  concurrent logic.
