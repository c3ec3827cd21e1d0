------------------------------- MODULE TxQueue -------------------------------
(***************************************************************************)
(* How the client's packets leave: every stream has a queue, filled by the *)
(* goroutines of the stream (PushTXPacket, under txQueueMu) and emptied by *)
(* the one dispatcher, which does not take that mutex.  The dispatcher     *)
(* goes round the streams it has cached and a queue of packets for streams *)
(* that are gone (the orphans), packs small control packets of all queues  *)
(* into one and hands the result to the planner.                           *)
(***************************************************************************)
EXTENDS Integers, FiniteSets, FiniteSetsExt, MultiLevelQueue

CONSTANTS
  Streams,    \* numbers of the streams; 0 is the control stream
  Dynamic,    \* those that are opened and removed while the dispatcher runs
  Packets,    \* stream -> the packets its goroutines queue
  Orphans,    \* packets for streams that are gone
  MaxBlocks,  \* c.maxPackedBlocks
  PingLimit,  \* 500: a ping is refused when more packets than this wait
  MaxRaces    \* bound: packets that are dispatched before they are counted

Orphan == -1  \* the orphan queue among the stream numbers
None == -2

ASSUME TxQueueAssumption ==
  /\ Streams \subseteq Nat /\ 0 \in Streams /\ IsFiniteSet(Streams)
  /\ Dynamic \subseteq Streams \ {0}
  /\ MaxBlocks \in Nat \ {0} /\ PingLimit \in Nat /\ MaxRaces \in Nat

VARIABLES
  txQueue,      \* stream -> its queue; counted is packet.isControlCounted
  controlCount, \* stream -> s.controlCount
  pushing,      \* stream -> the push that holds txQueueMu, after its insertion
  orphanQueue,
  life,         \* stream -> how far its creation or removal has come
  versionNew,   \* streamSetVersion is not the one the dispatcher cached
  cached,       \* cachedIDs
  rrCursor,
  pc,           \* the dispatcher's place
  round,        \* its local variables
  hand,         \* the entry it has popped and not yet noted
  task,         \* the blocks it has put together
  races         \* history: packets taken for good before their push marked them

vars == <<txQueue, controlCount, pushing, orphanQueue, life, versionNew, cached,
          rrCursor, pc, round, hand, task, races>>

dispatcherVars == <<versionNew, cached, rrCursor, pc, round, hand, task>>

-----------------------------------------------------------------------------
(* Packets: [kind, sn], and a stream for an orphan. *)

\* DefaultPacketPriority
Priority(kind) ==
  CASE kind \in {"ack", "nack", "rst"} -> 0 [] kind = "resend" -> 1
    [] kind = "data" -> 3 [] kind = "ping" -> 5

\* IsPackableControlPacket: a reset is not packable, its acknowledgement is.
PackableKinds == {"ack", "nack"}
Packable(p) == p.kind \in PackableKinds

\* Peek, of a queue that is not empty.
Peeked(s) == Head(txQueue[s]).key

Idle == [pc |-> "idle"]
NoEntry == [stream |-> None, early |-> FALSE]
NoRound == [ids |-> {}, todo |-> {}, start |-> 0, source |-> None, selected |-> None,
            selectedID |-> None, label |-> None, rrApplied |-> FALSE, putOff |-> FALSE]

Init ==
  /\ txQueue = [s \in Streams |-> << >>]
  /\ controlCount = [s \in Streams |-> 0]
  /\ pushing = [s \in Streams |-> Idle]
  /\ orphanQueue = << >>
  /\ life = [s \in Streams |-> IF s \in Dynamic THEN "absent" ELSE "open"]
  /\ versionNew = TRUE /\ cached = {} /\ rrCursor = 0
  /\ pc = "load" /\ round = NoRound /\ hand = NoEntry
  /\ task = << >>
  /\ races = 0

-----------------------------------------------------------------------------
(* The goroutines of a stream. *)

\* A chunk that waits as a retransmission is not queued as data too; otherwise
\* only the same packet is a duplicate.
Duplicate(s, p) ==
  \/ Queued(txQueue[s], p)
  \/ p.kind = "data" /\ Queued(txQueue[s], [p EXCEPT !.kind = "resend"])

Entry(p) == [pri |-> Priority(p.kind), key |-> p, counted |-> FALSE]

\* The steps of the push that are left when the packet is in the queue.
Rest(p) ==
  IF Packable(p) THEN [pc |-> "mark", pkt |-> p]
  ELSE IF p.kind = "resend" THEN [pc |-> "replace", pkt |-> p] ELSE Idle

\* A goroutine may still push to a stream that is being removed; what it pushes
\* later stays in a queue that nobody reads.
Accepted(s, p) ==
  /\ pushing[s] = Idle /\ life[s] \notin {"absent", "gone"}
  /\ p.kind = "ping" => Len(txQueue[s]) <= PingLimit
  /\ ~ Duplicate(s, p)

\* PushTXPacket as far as the insertion. The wake-up it sends is not needed: the
\* dispatcher also looks again when its timer fires.
PushTXPacket(s, p) ==
  /\ Accepted(s, p)
  /\ txQueue' = [txQueue EXCEPT ![s] = Enqueue(@, Entry(p))]
  /\ pushing' = [pushing EXCEPT ![s] = Rest(p)]
  /\ UNCHANGED <<controlCount, orphanQueue, life, races>> /\ UNCHANGED dispatcherVars

Marked(q, p) ==
  [i \in DOMAIN q |-> IF q[i].key = p THEN [q[i] EXCEPT !.counted = TRUE] ELSE q[i]]

IsCounted(q, p) == \E i \in DOMAIN q : q[i].key = p /\ q[i].counted

\* The push of stream s has inserted p and has not marked it.
Unmarked(s, p) == pushing[s].pc = "mark" /\ pushing[s].pkt = p

InHand(s) == hand.stream = s /\ hand.early

\* isControlCounted.CompareAndSwap(false, true) while the packet is queued. It fails
\* when a stray mark (MarkLost) has come before.
MarkQueued(s) ==
  LET p == pushing[s].pkt IN
  /\ pushing[s].pc = "mark" /\ Queued(txQueue[s], p)
  /\ txQueue' = [txQueue EXCEPT ![s] = Marked(@, p)]
  /\ pushing' = [pushing EXCEPT ![s] = IF IsCounted(txQueue[s], p) THEN Idle
                                       ELSE [@ EXCEPT !.pc = "add"]]
  /\ UNCHANGED <<controlCount, orphanQueue, life, races>> /\ UNCHANGED dispatcherVars

\* The dispatcher has popped the packet and will still see the mark.
MarkInHand(s) ==
  /\ pushing[s].pc = "mark" /\ ~ Queued(txQueue[s], pushing[s].pkt) /\ InHand(s)
  /\ hand' = [hand EXCEPT !.entry.counted = TRUE, !.early = FALSE]
  /\ pushing' = [pushing EXCEPT ![s].pc = "add"]
  /\ UNCHANGED <<txQueue, controlCount, orphanQueue, life, versionNew, cached,
                 rrCursor, pc, round, task, races>>

\* The packet has been dispatched, or cleared away. Its object is still held or free,
\* and the mark is wiped later, or the pool has given it to another stream: which
\* packet then bears the mark is undefined, and the swap fails if it has one.
MarkLost(s) ==
  /\ pushing[s].pc = "mark" /\ ~ Queued(txQueue[s], pushing[s].pkt) /\ ~ InHand(s)
  /\ \/ /\ pushing' = [pushing EXCEPT ![s].pc = "add"]
        /\ \/ UNCHANGED txQueue
           \/ \E t \in Streams \ {s} : \E i \in DOMAIN txQueue[t] :
                /\ ~ txQueue[t][i].counted
                /\ txQueue' = [txQueue EXCEPT ![t][i].counted = TRUE]
     \/ /\ \E t \in Streams \ {s} : \E i \in DOMAIN txQueue[t] : txQueue[t][i].counted
        /\ pushing' = [pushing EXCEPT ![s] = Idle]
        /\ UNCHANGED txQueue
  /\ UNCHANGED <<controlCount, orphanQueue, life, races>> /\ UNCHANGED dispatcherVars

\* controlCount.Add(1)
AddCount(s) ==
  /\ pushing[s].pc = "add"
  /\ controlCount' = [controlCount EXCEPT ![s] = @ + 1]
  /\ pushing' = [pushing EXCEPT ![s] = Idle]
  /\ UNCHANGED <<txQueue, orphanQueue, life, races>> /\ UNCHANGED dispatcherVars

\* The retransmission takes the place of the data packet.
ReplaceData(s) ==
  /\ pushing[s].pc = "replace"
  /\ txQueue' = [txQueue EXCEPT ![s] =
                   RemoveByKey(@, [kind |-> "data", sn |-> pushing[s].pkt.sn])]
  /\ pushing' = [pushing EXCEPT ![s] = Idle]
  /\ UNCHANGED <<controlCount, orphanQueue, life, races>> /\ UNCHANGED dispatcherVars

\* Mutant of RemoveQueued: the counter is left alone.
RemoveUncounted(s, p, q) ==
  /\ pushing[s] = Idle /\ (Queued(txQueue[s], p) \/ Queued(txQueue[s], q))
  /\ txQueue' = [txQueue EXCEPT ![s] = RemoveByKey(RemoveByKey(@, p), q)]
  /\ UNCHANGED <<controlCount, pushing, orphanQueue, life, races>>
  /\ UNCHANGED dispatcherVars

RemoveQueued(s, p, q) ==
  /\ pushing[s] = Idle /\ (Queued(txQueue[s], p) \/ Queued(txQueue[s], q))
  /\ txQueue' = [txQueue EXCEPT ![s] = RemoveByKey(RemoveByKey(@, p), q)]
  /\ controlCount' = [controlCount EXCEPT ![s] =
       @ - Cardinality({i \in DOMAIN txQueue[s] :
                          txQueue[s][i].key \in {p, q} /\ txQueue[s][i].counted})]
  /\ UNCHANGED <<pushing, orphanQueue, life, races>> /\ UNCHANGED dispatcherVars

\* The chunk sn has been acknowledged.
RemoveQueuedData(s, sn) ==
  RemoveQueued(s, [kind |-> "data", sn |-> sn], [kind |-> "resend", sn |-> sn])

\* The chunk sn has come, so that it need not be asked for.
RemoveQueuedDataNack(s, sn) ==
  LET p == [kind |-> "nack", sn |-> sn] IN RemoveQueued(s, p, p)

-----------------------------------------------------------------------------
(* Orphans, and the creation and removal of streams. *)

\* The key of an orphan is its kind and its stream.
EnqueueOrphanReset(o) ==
  /\ ~ Queued(orphanQueue, o)
  /\ orphanQueue' = Enqueue(orphanQueue, [pri |-> 0, key |-> o])
  /\ UNCHANGED <<txQueue, controlCount, pushing, life, races>> /\ UNCHANGED dispatcherVars

active == {s \in Streams : life[s] \in {"inserted", "open"}}

Lives(s, from, to) == life[s] = from /\ life' = [life EXCEPT ![s] = to]

\* new_stream: the stream enters active_streams, then the version goes up.
NewStream(s) ==
  /\ Lives(s, "absent", "inserted")
  /\ UNCHANGED <<txQueue, controlCount, pushing, orphanQueue, races>>
  /\ UNCHANGED dispatcherVars

\* Mutant of BumpNew: the version went up before the stream was entered.
BumpedBefore(s) ==
  /\ Lives(s, "inserted", "open")
  /\ UNCHANGED <<txQueue, controlCount, pushing, orphanQueue, races>>
  /\ UNCHANGED dispatcherVars

BumpNew(s) ==
  /\ Lives(s, "inserted", "open") /\ versionNew' = TRUE
  /\ UNCHANGED <<txQueue, controlCount, pushing, orphanQueue, cached, rrCursor, pc,
                 round, hand, task, races>>

\* finalizeAfterARQClose takes the stream out of active_streams first.
DeleteStream(s) ==
  /\ s \in Dynamic /\ Lives(s, "open", "deleted")
  /\ UNCHANGED <<txQueue, controlCount, pushing, orphanQueue, races>>
  /\ UNCHANGED dispatcherVars

\* A packet is taken for good before its push has marked it.
Race(early) ==
  /\ early => races < MaxRaces
  /\ races' = IF early THEN races + 1 ELSE races

\* Then come the version, the queue and the counter (cleanupResources).
CleanupResources(s) ==
  /\ Lives(s, "deleted", "gone") /\ versionNew' = TRUE
  /\ Race(\E i \in DOMAIN txQueue[s] : Unmarked(s, txQueue[s][i].key))
  /\ txQueue' = [txQueue EXCEPT ![s] = << >>]
  /\ controlCount' = [controlCount EXCEPT ![s] = 0]
  /\ UNCHANGED <<pushing, orphanQueue, cached, rrCursor, pc, round, hand, task>>

-----------------------------------------------------------------------------
(* asyncStreamDispatcher *)

othersVars == <<controlCount, pushing, life, races>>

\* The streams in their order and then the orphans, beginning at rrCursor: at the
\* first stream when no stream's number reaches the cursor.
Begin(ids) ==
  LET all == ids \cup (IF orphanQueue # << >> THEN {Orphan} ELSE {}) IN
  IF all = {} THEN pc' = "load" /\ round' = NoRound
  ELSE /\ pc' = "scan"
       /\ round' = [NoRound EXCEPT !.ids = all, !.todo = all,
                      !.start = IF \E id \in ids : id >= rrCursor THEN rrCursor ELSE 0]

NextID ==
  LET ahead == {id \in round.todo : id >= round.start} IN
  IF ahead # {} THEN Min(ahead)
  ELSE IF Orphan \in round.todo THEN Orphan ELSE Min(round.todo)

\* The version is loaded before the streams are read.
LoadVersion ==
  /\ pc = "load"
  /\ IF versionNew THEN pc' = "snapshot" /\ versionNew' = FALSE /\ UNCHANGED round
     ELSE Begin(cached) /\ UNCHANGED versionNew
  /\ UNCHANGED <<txQueue, orphanQueue, cached, rrCursor, hand, task>>
  /\ UNCHANGED othersVars

Snapshot ==
  /\ pc = "snapshot" /\ cached' = active /\ Begin(active)
  /\ UNCHANGED <<txQueue, orphanQueue, versionNew, rrCursor, hand, task>>
  /\ UNCHANGED othersVars

Queue(id) == IF id = Orphan THEN orphanQueue ELSE txQueue[id]
HasWork(id) == Queue(id) # << >>

\* A ping waits while any other queue of the round has a packet.
PutOff(id) ==
  id = 0 /\ Peeked(0).kind = "ping" /\ \E other \in round.ids \ {0} : HasWork(other)

ScanUnchanged ==
  /\ UNCHANGED <<txQueue, orphanQueue, versionNew, cached, hand, task>>
  /\ UNCHANGED othersVars

\* The queue is passed over: it is empty.
ScanEmpty ==
  /\ pc = "scan" /\ round.todo # {} /\ ~ HasWork(NextID)
  /\ round' = [round EXCEPT !.todo = @ \ {NextID}]
  /\ UNCHANGED <<rrCursor, pc>> /\ ScanUnchanged

\* An orphan leaves "selected" as a ping that was put off has set it.
Chosen(id) ==
  [round EXCEPT !.selectedID = id, !.rrApplied = TRUE,
     !.selected = IF id = Orphan THEN @ ELSE id,
     !.label = IF id = Orphan THEN orphanQueue[1].key.stream ELSE id]

\* The cursor moves past the first queue that is not empty.
ScanFound ==
  /\ pc = "scan" /\ round.todo # {} /\ HasWork(NextID)
  /\ rrCursor' = IF round.rrApplied THEN rrCursor ELSE NextID + 1
  /\ IF PutOff(NextID)
     THEN /\ round' = [Chosen(NextID) EXCEPT !.todo = @ \ {NextID}, !.putOff = TRUE]
          /\ UNCHANGED pc
     ELSE /\ round' = [Chosen(NextID) EXCEPT !.todo = {}, !.start = 0, !.rrApplied = FALSE]
          /\ pc' = "pop"
  /\ ScanUnchanged

\* waitForWork
ScanNothing ==
  /\ pc = "scan" /\ round.todo = {}
  /\ pc' = "load" /\ round' = NoRound
  /\ UNCHANGED rrCursor /\ ScanUnchanged

Block(from, label, p) == [from |-> from, label |-> label, pkt |-> p]

Send(blocks) ==
  task' = blocks /\ pc' = "send" /\ round' = [NoRound EXCEPT !.putOff = round.putOff]

\* A packet that can be packed collects others: of its own queue first, when the
\* counter says that there are some, then of the other queues of the round.
Launch(block) ==
  IF Packable(block.pkt) /\ MaxBlocks > 1
  THEN /\ task' = <<block>> /\ pc' = "pack"
       /\ round' = [NoRound EXCEPT
            !.putOff = round.putOff,
            !.todo = round.ids \ {round.selectedID},
            !.source = IF round.selected # None /\ controlCount'[round.selected] > 0
                       THEN round.selected
                       ELSE IF round.selectedID = Orphan THEN Orphan ELSE None]
  ELSE Send(<<block>>)

Take(s, e) ==
  /\ hand' = [stream |-> s, entry |-> e, early |-> Unmarked(s, e.key)]
  /\ txQueue' = [txQueue EXCEPT ![s] = RemoveByKey(@, e.key)]

\* PopNextTXPacket, up to the note. What is popped need not be what was peeked: it
\* may have been removed, or an urgent packet may have come before it.
PopStream ==
  /\ pc = "pop" /\ round.selected # None
  /\ txQueue[round.selected] # << >>
  /\ Take(round.selected, Head(txQueue[round.selected]))
  /\ pc' = "note"
  /\ UNCHANGED <<orphanQueue, versionNew, cached, rrCursor, round, task>>
  /\ UNCHANGED othersVars

PopNothing ==
  /\ pc = "pop" /\ round.selected # None
  /\ txQueue[round.selected] = << >>
  /\ pc' = "load" /\ round' = NoRound
  /\ UNCHANGED <<txQueue, orphanQueue, versionNew, cached, rrCursor, hand, task>>
  /\ UNCHANGED othersVars

PopOrphan ==
  /\ pc = "pop" /\ round.selected = None
  /\ orphanQueue' = Tail(orphanQueue)
  /\ UNCHANGED othersVars
  /\ Launch(Block(Orphan, round.label, orphanQueue[1].key))
  /\ UNCHANGED <<txQueue, versionNew, cached, rrCursor, hand>>

\* NoteTXPacketDequeued: the mark is taken back and the counter lowered.
NoteDequeued ==
  LET s == hand.stream  e == hand.entry IN
  /\ Race(hand.early)
  /\ controlCount' = [controlCount EXCEPT ![s] = IF e.counted THEN @ - 1 ELSE @]
  /\ hand' = NoEntry

NoteUnchanged ==
  UNCHANGED <<txQueue, pushing, orphanQueue, life, versionNew, cached, rrCursor>>

NoteSelected ==
  /\ pc = "note" /\ NoteDequeued
  /\ Launch(Block(hand.stream, round.label, hand.entry.key))
  /\ NoteUnchanged

\* shouldTransmitQueuedStreamPacket: the chunk has been acknowledged meanwhile.
NoteUnwanted ==
  /\ pc = "note" /\ hand.entry.key.kind \in {"data", "resend"} /\ NoteDequeued
  /\ pc' = "load" /\ round' = NoRound /\ UNCHANGED task
  /\ NoteUnchanged

Packing == pc = "pack" /\ Len(task) < MaxBlocks
From(id) == Candidates(Queue(id), 2, PackableKinds)
First(id) == Queue(id)[Min(From(id))]

PackPop ==
  /\ Packing /\ round.source \in Streams /\ From(round.source) # {}
  /\ Take(round.source, First(round.source))
  /\ pc' = "packNote"
  /\ UNCHANGED <<orphanQueue, versionNew, cached, rrCursor, round, task>>
  /\ UNCHANGED othersVars

\* Mutant of PackNote: the block gets the number of the stream that was selected.
PackNoteSelected ==
  /\ pc = "packNote" /\ NoteDequeued
  /\ task' = Append(task, Block(hand.stream, task[1].label, hand.entry.key))
  /\ pc' = "pack" /\ UNCHANGED round /\ NoteUnchanged

PackNote ==
  /\ pc = "packNote" /\ NoteDequeued
  /\ task' = Append(task, Block(hand.stream, hand.stream, hand.entry.key))
  /\ pc' = "pack" /\ UNCHANGED round /\ NoteUnchanged

PackOrphan ==
  /\ Packing /\ round.source = Orphan /\ From(Orphan) # {}
  /\ LET o == First(Orphan).key IN
       /\ orphanQueue' = RemoveByKey(orphanQueue, o)
       /\ task' = Append(task, Block(Orphan, o.stream, o))
  /\ UNCHANGED <<txQueue, versionNew, cached, rrCursor, pc, round, hand>>
  /\ UNCHANGED othersVars

\* The source has nothing more and the next one is tried: a stream only if its
\* counter says that it has control packets.
PackNext ==
  /\ Packing /\ round.todo # {}
  /\ round.source # None => From(round.source) = {}
  /\ LET streams == round.todo \ {Orphan}
         id == IF streams # {} THEN Min(streams) ELSE Orphan IN
       round' = [round EXCEPT !.todo = @ \ {id},
                   !.source = IF id = Orphan \/ controlCount[id] > 0 THEN id ELSE None]
  /\ UNCHANGED <<txQueue, orphanQueue, versionNew, cached, rrCursor, pc, hand, task>>
  /\ UNCHANGED othersVars

PackDone ==
  /\ pc = "pack"
  /\ \/ Len(task) = MaxBlocks
     \/ round.todo = {} /\ (round.source # None => From(round.source) = {})
  /\ Send(task)
  /\ UNCHANGED <<txQueue, orphanQueue, versionNew, cached, rrCursor, hand>>
  /\ UNCHANGED othersVars

RoundOver == pc = "send" /\ task' = << >> /\ pc' = "load" /\ round' = NoRound

\* The planner takes the task and sends it, or drops it when no resolver is left
\* (asyncPlanEncodeWorker). Its queue never blocks the dispatcher here: room for the
\* task was looked for before the packet was popped.
PlannerTake ==
  /\ RoundOver
  /\ UNCHANGED <<txQueue, orphanQueue, versionNew, cached, rrCursor, hand>>
  /\ UNCHANGED othersVars

\* requeuePlannerTaskForRetry: a chunk that no resolver can take is queued again.
PlannerRequeue ==
  /\ RoundOver
  /\ task[1].pkt.kind \in {"data", "resend"}
  /\ LET s == task[1].from  p == task[1].pkt IN
       /\ pushing[s] = Idle
       /\ IF Duplicate(s, p) THEN UNCHANGED <<txQueue, pushing>>
          ELSE /\ txQueue' = [txQueue EXCEPT ![s] = Enqueue(@, Entry(p))]
               /\ pushing' = [pushing EXCEPT ![s] = Rest(p)]
  /\ UNCHANGED <<controlCount, orphanQueue, life, versionNew, cached, rrCursor, hand, races>>

-----------------------------------------------------------------------------

Dispatch ==
  \/ LoadVersion \/ Snapshot
  \/ ScanEmpty \/ ScanFound \/ ScanNothing
  \/ PopStream \/ PopNothing \/ PopOrphan \/ NoteSelected \/ NoteUnwanted
  \/ PackPop \/ PackNote \/ PackOrphan \/ PackNext \/ PackDone

FinishPush(s) ==
  MarkQueued(s) \/ MarkInHand(s) \/ MarkLost(s) \/ AddCount(s) \/ ReplaceData(s)

FinishChange(s) == BumpNew(s) \/ CleanupResources(s)

Next ==
  \/ \E s \in Streams : \/ \E p \in Packets[s] : \/ PushTXPacket(s, p)
                                                 \/ RemoveQueuedData(s, p.sn)
                                                 \/ RemoveQueuedDataNack(s, p.sn)
                        \/ FinishPush(s)
                        \/ NewStream(s) \/ DeleteStream(s) \/ FinishChange(s)
  \/ \E o \in Orphans : EnqueueOrphanReset(o)
  \/ Dispatch
  \/ PlannerTake \/ PlannerRequeue

Spec == Init /\ [][Next]_vars

\* Goroutines that have begun something go on with it; nothing need be pushed.
FairSpec ==
  /\ Spec
  /\ WF_vars(Dispatch) /\ WF_vars(PlannerTake)
  /\ \A s \in Streams : WF_vars(FinishPush(s)) /\ WF_vars(FinishChange(s))

-----------------------------------------------------------------------------

PackableIn(s) == {i \in DOMAIN txQueue[s] : Packable(txQueue[s][i].key)}

\* controlCount, which decides whether a stream's control packets are looked for
\* when a packet is packed, is the number of them, as long as no packet has been
\* dispatched between its insertion and the counting of it (PushTXPacket counts
\* after it has inserted, and the dispatcher does not take txQueueMu).
CountExactUnlessRaced ==
  \A s \in Streams :
    races = 0 /\ life[s] = "open" /\ pushing[s] = Idle /\ hand.stream # s
      => controlCount[s] = Cardinality(PackableIn(s))

\* A packet leaves under the number of the stream in whose queue it was, unless it
\* is one of stream 0 and the round had put off a ping: then an orphan found later
\* lends its number to what is popped from stream 0 ("selected" is not reset).
OwnStreamUnlessPutOff ==
  \A i \in DOMAIN task :
    LET b == task[i] IN
    \/ b.label = (IF b.from = Orphan THEN b.pkt.stream ELSE b.from)
    \/ b.from = 0 /\ round.putOff /\ i = 1

Waiting(s, p) == life[s] = "open" /\ Queued(txQueue[s], p)

ControlLeaves ==
  \A s \in Streams : \A p \in {q \in Packets[s] : Packable(q)} :
    Waiting(s, p) ~> ~ Waiting(s, p)

TopBusy == cached # {} /\ txQueue[Max(cached)] # << >>

OrphansLeave ==
  \A o \in Orphans : Queued(orphanQueue, o) ~> ~ Queued(orphanQueue, o)

\* "fair round-robin": every control packet of an open stream is sent or withdrawn,
\* whatever is queued elsewhere, however streams come and go, and also when
\* controlCount is wrong. An orphan leaves too, unless the stream with the highest
\* number is found busy again and again: the orphans stand behind it in the round,
\* and a round that would begin after it begins with the first stream.
ServedUnlessTopBusy == ControlLeaves /\ ([]<>TopBusy \/ OrphansLeave)
=============================================================================
