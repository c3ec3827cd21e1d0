------------------------------- MODULE ArqData -------------------------------
(***************************************************************************)
(* The data plane of one direction of an ARQ stream of MasterDnsVPN-plus   *)
(* (internal/arq/arq.go), between the ARQ that reads the local connection  *)
(* (the sender) and the ARQ of the peer that writes it out (the receiver). *)
(*                                                                         *)
(* An action is one critical section of the code: what one goroutine does  *)
(* between taking and releasing a.mu, or one call of the TX queue.  The    *)
(* goroutines are ioLoop, the dispatcher, retransmitLoop and the packet    *)
(* handlers on the sender, and rxLoop, writeLoop and retransmitLoop on the *)
(* receiver; what one holds between two critical sections is a variable.   *)
(*                                                                         *)
(* Chunk number d (0, 1, 2, ...) is the d-th chunk read from the local     *)
(* connection; it stands for its bytes.  Its sequence number on the wire   *)
(* is d % SeqSpace (a uint16 in the code), and the maps are keyed by it.   *)
(***************************************************************************)
EXTENDS Integers, Sequences, FiniteSets

CONSTANTS
  Half,          \* half of the sequence space (32768 in the code)
  Limit,         \* a.limit: unacknowledged chunks the sender may hold
  RcvWindow,     \* a.receiveWindowSize of the receiver
  MaxRetries,    \* a.maxDataRetries
  FrontBudget,   \* retransmissions of one scan that go out as RESEND
  NackMaxGap,    \* a.dataNackMaxGap of the receiver; 0 turns NACKs off
  Dequeuers,     \* goroutines that dequeue the sender's TX queue
  First,         \* chunks the stream has carried, and settled, when the model begins
  MaxChunks,     \* bound: chunks the local connection delivers
  NetCap         \* bound: distinct packets in flight, per kind

\* NewARQ makes the receive window 2 * windowSize and the limit 0.8 *
\* windowSize, and the configuration clamps windowSize to at most 8000: their
\* sum stays below half of the 16-bit sequence space.
ASSUME WindowAssumption ==
  /\ Half \in Nat /\ Limit \in Nat \ {0} /\ RcvWindow \in Nat \ {0}
  /\ RcvWindow + Limit < Half

ASSUME BoundAssumption ==
  /\ MaxRetries \in Nat \ {0} /\ FrontBudget \in Nat \ {0}
  /\ NackMaxGap \in Nat /\ NackMaxGap < Half
  /\ Dequeuers \in Nat \ {0} /\ First \in Nat /\ MaxChunks \in Nat /\ NetCap \in Nat \ {0}

SeqSpace == 2 * Half

Wire == 0 .. SeqSpace - 1

\* A packet, an acknowledgement or a job: a wire number and the chunk it is about.
Pkt(d) == [sn |-> d % SeqSpace, dat |-> d]

VARIABLES
  \* the sender
  read,      \* chunks read so far; a.sndNxt is read % SeqSpace
  sndBuf,    \* a.sndBuf: wire number -> [dat, dispatched, retries]
  rstSent,   \* the stream was reset after too many retransmissions
  ioPc,      \* ioLoop: about to "read" a chunk, or to "push" the one just read
  txQ,       \* the stream's TX queue, as far as DATA and RESEND packets go
  hand,      \* packets popped by a dequeuer and not yet noted and sent
  rtxJobs,   \* checkRetransmits: jobs of the current scan not yet pushed
  rtxMark,   \* checkRetransmits: the job pushed and not yet marked
  \* the network, and the receiver's TX queue in front of it
  dataNet, ackNet, nackNet,
  \* the receiver
  rx,        \* rxLoop: the packet in hand and what remains to be done for it
  rcvBuf,    \* a.rcvBuf: wire number -> chunk
  taken,     \* chunks taken out of rcvBuf; a.rcvNxt is taken % SeqSpace
  writing,   \* writeLoop: contiguous chunks being written
  delivered, \* chunks the local connection has accepted
  activity   \* a.lastActivity, as the gap watchdog reads it: "recent", "none" for
             \* dataNackRepeatInterval, or "steady", never out of date as the traffic of
             \* the other direction goes on

sndVars == <<read, sndBuf, rstSent>>
jobVars == <<hand, rtxJobs, rtxMark>>
netVars == <<dataNet, ackNet, nackNet>>
rcvVars == <<rx, rcvBuf, taken, writing, delivered, activity>>
vars == <<sndVars, ioPc, txQ, jobVars, netVars, rcvVars>>

\* Mutant of sndNxt: the sequence number is not reduced to its width.
sndNxtUnbounded == read

sndNxt == read % SeqSpace
rcvNxt == taken % SeqSpace

\* f without the key k, and f with k mapped to v.
Without(f, k) == [s \in DOMAIN f \ {k} |-> f[s]]
With(f, k, v) == [s \in DOMAIN f \cup {k} |-> IF s = k THEN v ELSE f[s]]

Chunks(buf) == {buf[s].dat : s \in DOMAIN buf}

\* The send buffer when the item of sn, if there is one, has been dispatched,
\* and when it has been queued for one more retransmission.
Dispatched(sn) ==
  IF sn \in DOMAIN sndBuf
  THEN With(sndBuf, sn, [dat |-> sndBuf[sn].dat, dispatched |-> TRUE,
                         retries |-> sndBuf[sn].retries])
  ELSE sndBuf

Requeued(sn) ==
  IF sn \in DOMAIN sndBuf
  THEN With(sndBuf, sn, [dat |-> sndBuf[sn].dat, dispatched |-> FALSE,
                         retries |-> IF sndBuf[sn].retries < MaxRetries
                                     THEN sndBuf[sn].retries + 1 ELSE MaxRetries])
  ELSE sndBuf

\* A new stream (First = 0), or one whose first chunks are all acknowledged and written,
\* with no copy of them left.
Init ==
  /\ read = First /\ sndBuf = << >> /\ rstSent = FALSE
  /\ ioPc = "read" /\ txQ = {} /\ hand = {}
  /\ rtxJobs = {} /\ rtxMark = {}
  /\ dataNet = {} /\ ackNet = {} /\ nackNet = {}
  /\ rx = {} /\ rcvBuf = << >> /\ taken = First /\ writing = << >>
  /\ delivered = [i \in 1 .. First |-> i - 1] /\ activity = "recent"

-----------------------------------------------------------------------------
(* The stream's TX queue (Stream_client and Stream_server).                  *)

Queued(typ, sn) == \E p \in txQ : p.typ = typ /\ p.sn = sn

\* PushTXPacket refuses a DATA packet while a copy of either type is queued,
\* and a RESEND while a RESEND is queued; a RESEND evicts the queued DATA.
CanPush(typ, sn) ==
  /\ ~ Queued("RESEND", sn)
  /\ typ = "DATA" => ~ Queued("DATA", sn)

PushTXPacket(typ, j) ==
  LET p == [typ |-> typ, sn |-> j.sn, dat |-> j.dat]
  IN  txQ' = (IF typ = "RESEND" THEN {q \in txQ : q.sn # j.sn} ELSE txQ) \cup {p}

RemoveQueuedData(sn) == {p \in txQ : p.sn # sn}

-----------------------------------------------------------------------------
(* The sender.                                                               *)

\* Every copy of a chunk and every acknowledgement of one that is under way.
Flight == txQ \cup hand \cup rtxJobs \cup rtxMark \cup dataNet \cup rx \cup ackNet

\* The packet lifetime the protocol relies on: by the time Half newer chunks
\* have been read, no copy of a chunk and no acknowledgement of it is left.
NoStragglers ==
  \A d \in {p.dat : p \in Flight} \cup Chunks(sndBuf) : read - d < Half

\* Mutant of IoLoopRead: ioLoop does not wait for the window.
IoLoopReadAnyWindow ==
  /\ ioPc = "read" /\ ~ rstSent /\ read < MaxChunks /\ NoStragglers
  /\ sndBuf' = With(sndBuf, sndNxt, [dat |-> read, dispatched |-> FALSE, retries |-> 0])
  /\ read' = read + 1
  /\ ioPc' = "push"
  /\ UNCHANGED <<rstSent, txQ, jobVars, netVars, rcvVars>>

\* The window is not full and the read returns a chunk, which enters the send
\* buffer as not yet dispatched.
IoLoopRead ==
  /\ ioPc = "read"
  /\ ~ rstSent
  /\ Cardinality(DOMAIN sndBuf) < Limit
  /\ read < MaxChunks
  /\ NoStragglers
  /\ sndBuf' = With(sndBuf, sndNxt, [dat |-> read, dispatched |-> FALSE, retries |-> 0])
  /\ read' = read + 1
  /\ ioPc' = "push"
  /\ UNCHANGED <<rstSent, txQ, jobVars, netVars, rcvVars>>

\* The chunk just read is pushed; when a copy is queued already the item is
\* marked as dispatched, so that the retransmission timer takes over.
IoLoopPush ==
  LET p == Pkt(read - 1) IN
  /\ ioPc = "push"
  /\ ioPc' = "read"
  /\ IF CanPush("DATA", p.sn)
     THEN PushTXPacket("DATA", p) /\ UNCHANGED sndBuf
     ELSE sndBuf' = Dispatched(p.sn) /\ UNCHANGED txQ
  /\ UNCHANGED <<read, rstSent, jobVars, netVars, rcvVars>>

\* A dequeuer takes a packet out of the TX queue.
PopNextTXPacket(sn) ==
  \E p \in txQ :
    /\ p.sn = sn
    /\ Cardinality(hand) < Dequeuers
    /\ txQ' = txQ \ {p}
    /\ hand' = hand \cup {p}
    /\ UNCHANGED <<sndVars, ioPc, rtxJobs, rtxMark, netVars, rcvVars>>

\* It tells the ARQ, and sends the packet unless its chunk has been
\* acknowledged in the meantime.
NoteTXPacketDequeued ==
  \E p \in hand :
    /\ hand' = hand \ {p}
    /\ IF p.sn \in DOMAIN sndBuf
       THEN /\ Cardinality(dataNet) < NetCap
            /\ sndBuf' = Dispatched(p.sn)
            /\ dataNet' = dataNet \cup {[sn |-> p.sn, dat |-> p.dat]}
       ELSE UNCHANGED <<sndBuf, dataNet>>
    /\ UNCHANGED <<read, rstSent, ioPc, txQ, rtxJobs, rtxMark,
                   ackNet, nackNet, rcvVars>>

\* Mutant of Resendable: the flag is read the wrong way round.
ResendableQueued(sn) == ~ sndBuf[sn].dispatched

\* An item whose retransmission timer may have run out.
Resendable(sn) == sndBuf[sn].dispatched

\* The FrontBudget oldest jobs of a scan are resent with priority.
FrontJobs(S) ==
  {s \in S : Cardinality({t \in S : (sndNxt - t) % SeqSpace > (sndNxt - s) % SeqSpace})
               < FrontBudget}

\* checkRetransmits, under the read lock: collect the expired items S.
CheckRetransmitsScan(S) ==
    /\ rtxJobs = {} /\ rtxMark = {}
    /\ S \subseteq DOMAIN sndBuf
    /\ \A s \in S : Resendable(s)
    /\ rtxJobs' = {[typ |-> IF s \in FrontJobs(S) THEN "RESEND" ELSE "DATA",
                    sn |-> s, dat |-> sndBuf[s].dat] : s \in S}
    /\ UNCHANGED <<sndVars, ioPc, txQ, hand, rtxMark, netVars, rcvVars>>

\* checkRetransmits, without the lock: push one job.
CheckRetransmitsPush ==
  \E j \in rtxJobs :
    /\ rtxMark = {}
    /\ rtxJobs' = rtxJobs \ {j}
    /\ IF CanPush(j.typ, j.sn)
       THEN PushTXPacket(j.typ, j) /\ rtxMark' = {j}
       ELSE UNCHANGED <<txQ, rtxMark>>
    /\ UNCHANGED <<sndVars, ioPc, hand, netVars, rcvVars>>

\* checkRetransmits, under the lock again: restart the item's timer, which
\* then waits for the pushed packet to be dequeued.
CheckRetransmitsMark ==
  \E j \in rtxMark :
    /\ rtxMark' = {}
    /\ sndBuf' = Requeued(j.sn)
    /\ UNCHANGED <<read, rstSent, ioPc, txQ, hand, rtxJobs, netVars, rcvVars>>

\* The scan meets an item that is too old and was retried too often: the
\* stream is reset, which clears the send buffer (and leaves the TX queue).
MaxRetransmissionsExceeded ==
  /\ ~ rstSent
  /\ rtxJobs = {} /\ rtxMark = {}
  /\ \E sn \in DOMAIN sndBuf : sndBuf[sn].retries >= MaxRetries
  /\ sndBuf' = << >>
  /\ rstSent' = TRUE
  /\ UNCHANGED <<read, ioPc, txQ, jobVars, netVars, rcvVars>>

\* A DATA_ACK arrives: the item and its queued copies go.  The copy of the
\* acknowledgement in the network stays, so it may arrive again.
ReceiveAck(sn) ==
  \E a \in ackNet :
    /\ a.sn = sn
    /\ sndBuf' = Without(sndBuf, a.sn)
    /\ txQ' = IF a.sn \in DOMAIN sndBuf THEN RemoveQueuedData(a.sn) ELSE txQ
    /\ UNCHANGED <<read, rstSent, ioPc, jobVars, netVars, rcvVars>>

\* Mutant of HandleDataNack: a NACK for a chunk that waits for its dequeue is
\* ignored, the way checkRetransmits skips such a chunk.
HandleDataNackIfDispatched(sn) ==
    /\ ~ rstSent
    /\ sn \in nackNet \cap DOMAIN sndBuf
    /\ IF CanPush("RESEND", sn) /\ sndBuf[sn].dispatched
       THEN PushTXPacket("RESEND", [sn |-> sn, dat |-> sndBuf[sn].dat])
       ELSE UNCHANGED txQ
    /\ nackNet' = nackNet \ {sn}
    /\ UNCHANGED <<sndVars, ioPc, jobVars, dataNet, ackNet, rcvVars>>

\* A DATA_NACK arrives for a chunk that is still held, and is consumed.  (The
\* chunk is copied under the lock and pushed after it; an acknowledgement that
\* comes in between leaves a RESEND without an item in the queue, as it may
\* between the scan and the push of checkRetransmits.  A NACK ignored because
\* the last one is too recent is a lost one.)
HandleDataNack(sn) ==
    /\ ~ rstSent
    /\ sn \in nackNet \cap DOMAIN sndBuf
    /\ IF CanPush("RESEND", sn)
       THEN PushTXPacket("RESEND", [sn |-> sn, dat |-> sndBuf[sn].dat])
       ELSE UNCHANGED txQ
    /\ nackNet' = nackNet \ {sn}
    /\ UNCHANGED <<sndVars, ioPc, jobVars, dataNet, ackNet, rcvVars>>

-----------------------------------------------------------------------------
(* The network loses, duplicates and reorders.  A packet that is received    *)
(* may stay, to be received again, until it is lost.  The receiver's TX      *)
(* queue drops nothing, keeps one copy per packet and sends each at a moment *)
(* of the dispatcher's choosing: it is the first leg of the network.         *)

LoseData ==
  /\ \E p \in dataNet : dataNet' = dataNet \ {p}
  /\ UNCHANGED <<sndVars, ioPc, txQ, jobVars, ackNet, nackNet, rcvVars>>

LoseAck ==
  /\ \E a \in ackNet : ackNet' = ackNet \ {a}
  /\ UNCHANGED <<sndVars, ioPc, txQ, jobVars, dataNet, nackNet, rcvVars>>

LoseNack ==
  /\ \E sn \in nackNet : nackNet' = nackNet \ {sn}
  /\ UNCHANGED <<sndVars, ioPc, txQ, jobVars, dataNet, ackNet, rcvVars>>

-----------------------------------------------------------------------------
(* The receiver.                                                             *)

Diff(sn) == (sn - rcvNxt) % SeqSpace

\* Mutants of Accept: no half-space test and no window test, so that a late
\* duplicate is buffered; a packet dropped for lack of room is acknowledged all
\* the same.
AcceptAnything(p) ==
  /\ rx' = {[step |-> "answer", sn |-> p.sn, dat |-> p.dat]}
  /\ rcvBuf' = IF p.sn \in DOMAIN rcvBuf THEN rcvBuf ELSE With(rcvBuf, p.sn, p.dat)

AcceptAcksDropped(p) ==
  LET old == Diff(p.sn) >= Half IN
  /\ rx' = {[step |-> IF old THEN "reack" ELSE "answer", sn |-> p.sn, dat |-> p.dat]}
  /\ rcvBuf' = IF old \/ p.sn \in DOMAIN rcvBuf \/ Diff(p.sn) > RcvWindow
               THEN rcvBuf ELSE With(rcvBuf, p.sn, p.dat)

\* processReceivedData, under the lock: drop the packet, or buffer its chunk
\* when it is new, and remember which answer it is owed.
Accept(p) ==
  LET exists == p.sn \in DOMAIN rcvBuf
      old    == Diff(p.sn) >= Half
      drop   == /\ ~ old
                /\ \/ Diff(p.sn) > RcvWindow
                   \/ /\ ~ exists
                      /\ Cardinality(DOMAIN rcvBuf) >= RcvWindow
                      /\ p.sn # rcvNxt
  IN  /\ rx' = IF drop THEN {}
               ELSE {[step |-> IF old THEN "reack" ELSE "answer", sn |-> p.sn, dat |-> p.dat]}
      /\ rcvBuf' = IF drop \/ old \/ exists THEN rcvBuf ELSE With(rcvBuf, p.sn, p.dat)

\* The inbound channel is part of the network: a packet refused because the
\* channel is full is a lost packet.
ProcessReceivedData(sn) ==
  \E p \in dataNet :
    /\ p.sn = sn
    /\ rx = {}
    /\ Accept(p)
    /\ activity' = "recent"
    /\ UNCHANGED <<sndVars, ioPc, txQ, jobVars, netVars, taken, writing, delivered>>

\* Offsets from rcvNxt, below n, whose chunk is not buffered.
Missing(n) == {i \in 0 .. n - 1 : (rcvNxt + i) % SeqSpace \notin DOMAIN rcvBuf}

WireOf(S) == {(rcvNxt + i) % SeqSpace : i \in S}

SampleCount == (NackMaxGap + 19) \div 20

\* The offsets maybeSendDataNacks asks for when the packet sn has arrived: all
\* of a near gap, or the first few and the last one of a far gap's window.
NackCandidates(sn) ==
  LET gap == Diff(sn) IN
  IF NackMaxGap = 0 \/ gap = 0 \/ gap >= Half THEN {}
  ELSE IF gap <= NackMaxGap THEN Missing(gap)
  ELSE {i \in Missing(gap) : Cardinality({j \in Missing(gap) : j < i}) < SampleCount}
         \cup {i \in Missing(NackMaxGap) : \A j \in Missing(NackMaxGap) : j <= i}

\* A NACK is queued for every wire number in S; nothing is queued twice.
PushNacks(S) ==
  /\ Cardinality(nackNet \cup S) <= NetCap
  /\ nackNet' = nackNet \cup S

\* rxLoop, after releasing the lock: acknowledge the packet and, unless it was
\* an old one, ask for what is missing before it.  The initial delay and the
\* repeat interval decide which candidates are asked for now.  (The queued
\* NACK of the packet itself is withdrawn, or is on its way: LoseNack.)
AnswerReceivedData ==
  \E r \in rx :
    /\ Cardinality(ackNet) < NetCap
    /\ ackNet' = ackNet \cup {[sn |-> r.sn, dat |-> r.dat]}
    /\ \E S \in SUBSET WireOf(NackCandidates(r.sn)) :
         IF r.step = "reack" THEN UNCHANGED nackNet ELSE PushNacks(S)
    /\ rx' = {}
    /\ UNCHANGED <<sndVars, ioPc, txQ, jobVars, dataNet, rcvBuf, taken, writing, delivered,
                   activity>>

\* A gap in the reorder buffer.  It opens and closes with an arrival, and
\* runGapRecoveryWatchdog looks at lastActivity only while it is open.
GapOpen == DOMAIN rcvBuf # {} /\ rcvNxt \notin DOMAIN rcvBuf

Watched == NackMaxGap > 0 /\ GapOpen

\* The receiver's own reads, and the acknowledgements and NACKs that it gets for them,
\* renew lastActivity too, and may do so as long as they like.
ReverseTraffic ==
  /\ Watched /\ activity' = "steady"
  /\ UNCHANGED <<sndVars, ioPc, txQ, jobVars, netVars, rx, rcvBuf, taken, writing, delivered>>

ReversePauses ==
  /\ activity = "steady" /\ activity' = "recent"
  /\ UNCHANGED <<sndVars, ioPc, txQ, jobVars, netVars, rx, rcvBuf, taken, writing, delivered>>

IntervalPasses ==
  /\ Watched /\ activity = "recent" /\ activity' = "none"
  /\ UNCHANGED <<sndVars, ioPc, txQ, jobVars, netVars, rx, rcvBuf, taken, writing, delivered>>

\* runGapRecoveryWatchdog: a gap is open and there was no activity for a while.
RunGapRecoveryWatchdog(S) ==
  /\ Watched /\ activity = "none"
  /\ S \subseteq WireOf(Missing(NackMaxGap))
  /\ PushNacks(S)
  /\ UNCHANGED <<sndVars, ioPc, txQ, jobVars, dataNet, ackNet, rcvVars>>

\* Mutant of WriteLoopTake: it begins with the first chunk that is there, over a gap.
WriteLoopTakeOverGap ==
  \E n, skip \in 0 .. RcvWindow + 1 :
    /\ writing = << >> /\ n > 0
    /\ Cardinality(Missing(skip)) = skip /\ Missing(skip + n) = Missing(skip)
    /\ skip + n \in Missing(skip + n + 1)
    /\ writing' = [i \in 1 .. n |-> rcvBuf[(rcvNxt + skip + i - 1) % SeqSpace]]
    /\ rcvBuf' = [s \in DOMAIN rcvBuf \ WireOf(0 .. skip + n - 1) |-> rcvBuf[s]]
    /\ taken' = taken + skip + n
    /\ UNCHANGED <<sndVars, ioPc, txQ, jobVars, netVars, rx, delivered, activity>>

\* writeLoop, under the lock: take every contiguous chunk.
WriteLoopTake ==
  \E n \in 1 .. RcvWindow + 1 :
    /\ writing = << >>
    /\ Missing(n) = {} /\ n \in Missing(n + 1)
    /\ writing' = [i \in 1 .. n |-> rcvBuf[(rcvNxt + i - 1) % SeqSpace]]
    /\ rcvBuf' = [s \in DOMAIN rcvBuf \ WireOf(0 .. n - 1) |-> rcvBuf[s]]
    /\ taken' = taken + n
    /\ UNCHANGED <<sndVars, ioPc, txQ, jobVars, netVars, rx, delivered, activity>>

\* Mutant of WriteLoopFlush: after a partial write with a transient error the whole
\* batch is written again instead of what remains of it.
WriteLoopFlushAgain ==
  \E n \in 1 .. Len(writing) :
    /\ delivered' = delivered \o SubSeq(writing, 1, n)
    /\ writing' = IF n = Len(writing) THEN << >> ELSE writing
    /\ UNCHANGED <<sndVars, ioPc, txQ, jobVars, netVars, rx, rcvBuf, taken, activity>>

\* One write of what remains of the batch: the local connection accepts all of it, or a
\* part and times out or fails transiently.  A write that accepts nothing changes nothing
\* (the budget of such retries, and other errors, break the writer: ArqClose).
WriteLoopFlush ==
  \E n \in 1 .. Len(writing) :
    /\ delivered' = delivered \o SubSeq(writing, 1, n)
    /\ writing' = SubSeq(writing, n + 1, Len(writing))
    /\ UNCHANGED <<sndVars, ioPc, txQ, jobVars, netVars, rx, rcvBuf, taken, activity>>

-----------------------------------------------------------------------------
Sender ==
  \/ IoLoopRead \/ IoLoopPush
  \/ \E sn \in Wire : PopNextTXPacket(sn)
  \/ NoteTXPacketDequeued
  \/ \E S \in SUBSET DOMAIN sndBuf : S # {} /\ CheckRetransmitsScan(S)
  \/ CheckRetransmitsPush \/ CheckRetransmitsMark \/ MaxRetransmissionsExceeded
  \/ \E sn \in Wire : ReceiveAck(sn)
  \/ \E sn \in Wire : HandleDataNack(sn)

Network == LoseData \/ LoseAck \/ LoseNack

Receiver ==
  \/ \E sn \in Wire : ProcessReceivedData(sn)
  \/ AnswerReceivedData
  \/ \E S \in (SUBSET WireOf(Missing(NackMaxGap))) \ {{}} : RunGapRecoveryWatchdog(S)
  \/ ReverseTraffic \/ ReversePauses \/ IntervalPasses
  \/ WriteLoopTake \/ WriteLoopFlush

Next == Sender \/ Network \/ Receiver

Spec == Init /\ [][Next]_vars

\* A packet of sn is queued; the timer of sn runs; a packet of sn is in the network.
Pending(sn) == \E p \in txQ : p.sn = sn
Timed(sn) == sn \in DOMAIN sndBuf /\ Resendable(sn)
InFlight(sn) == \E p \in dataNet : p.sn = sn

\* An arrival finds out that the chunk sn is missing, or a NACK of it is under way.
Wanted(sn) ==
  /\ ~ rstSent /\ sn \in DOMAIN sndBuf
  /\ \/ sn \in nackNet
     \/ \E r \in rx : r.step = "answer" /\ sn \in WireOf(NackCandidates(r.sn))

\* Every goroutine keeps running; a packet that stays queued is popped, the timer of an
\* item that stays in the send buffer runs out again and again, and so do the delays of a NACK that an arrival or the
\* watchdog calls for; a packet sent again and again is received again and again, and
\* does not live for ever.  Nothing makes the local connection produce more or the
\* traffic of the other direction pause, and the reset after too many retransmissions
\* is never forced.  C is the set of chunks' wire numbers this is assumed for.
Fairness(C) ==
  /\ WF_vars(IoLoopPush) /\ WF_vars(NoteTXPacketDequeued)
  /\ WF_vars(CheckRetransmitsPush \/ CheckRetransmitsMark)
  /\ WF_vars(AnswerReceivedData) /\ WF_vars(IntervalPasses)
  /\ WF_vars(WriteLoopTake \/ WriteLoopFlush)
  /\ WF_vars(LoseData) /\ WF_vars(LoseAck) /\ WF_vars(LoseNack)
  /\ \A sn \in C :
       /\ <>[]Pending(sn) => []<><<PopNextTXPacket(sn)>>_vars
       /\ <>[]Timed(sn)
            => []<><<\E S \in SUBSET DOMAIN sndBuf : sn \in S /\ CheckRetransmitsScan(S)>>_vars
       /\ []<>InFlight(sn) => []<><<ProcessReceivedData(sn)>>_vars
       /\ SF_vars(ReceiveAck(sn))
       /\ []<>Wanted(sn) => []<><<HandleDataNack(sn)>>_vars
       /\ WF_vars(rcvNxt = sn /\ RunGapRecoveryWatchdog({sn}))

-----------------------------------------------------------------------------
(* Properties.                                                               *)

Packet == [sn : Wire, dat : Nat]
QueuedPacket == [typ : {"DATA", "RESEND"}, sn : Wire, dat : Nat]
Item == [dat : Nat, dispatched : BOOLEAN, retries : 0 .. MaxRetries]

\* The type invariant of the two ARQ objects, the TX queues and the network.
TypeOK ==
  /\ read \in Nat /\ taken \in Nat /\ rstSent \in BOOLEAN
  /\ DOMAIN sndBuf \subseteq Wire /\ sndBuf \in [DOMAIN sndBuf -> Item]
  /\ DOMAIN rcvBuf \subseteq Wire /\ rcvBuf \in [DOMAIN rcvBuf -> Nat]
  /\ ioPc \in {"read", "push"}
  /\ txQ \subseteq QueuedPacket /\ hand \subseteq QueuedPacket
  /\ rtxJobs \subseteq QueuedPacket /\ rtxMark \subseteq QueuedPacket
  /\ dataNet \subseteq Packet /\ ackNet \subseteq Packet /\ nackNet \subseteq Wire
  /\ rx \subseteq [step : {"reack", "answer"}, sn : Wire, dat : Nat]
  /\ writing \in Seq(Nat) /\ delivered \in Seq(Nat)
  /\ activity \in {"recent", "none", "steady"}

\* Chunk d has reached the receiving ARQ, which answers for it from now on.
Received(d) == d < taken \/ \E s \in DOMAIN rcvBuf : rcvBuf[s] = d

\* The receiving connection is given exactly the chunks the sending one
\* produced, in order, none twice and none left out (processReceivedData and
\* writeLoop), whatever the network and the sequence numbers' wrap-around do.
InOrder ==
  /\ \A i \in 1 .. Len(delivered) : delivered[i] = i - 1
  /\ Len(delivered) <= read

\* A chunk leaves the send buffer only when the receiver holds it: an
\* acknowledgement, late, repeated or of an earlier use of the same sequence
\* number, never makes ReceiveAck drop a chunk that has not arrived.
NothingLost ==
  ~ rstSent => \A d \in 0 .. read - 1 : d \in Chunks(sndBuf) \/ Received(d)

\* The send limit counts chunks and does not bound how far the sender runs
\* ahead, yet together with the receive window it does: the receiver's test
\* diff >= 32768 never meets a new chunk.
SpanWithinHalf == read - taken <= RcvWindow + Limit + 1

\* The reorder buffer stays within the receive window, plus the one chunk that
\* is always admitted, and holds nothing the writer has passed already.
ReorderBufferBounded ==
  /\ Cardinality(DOMAIN rcvBuf) <= RcvWindow + 1
  /\ \A s \in DOMAIN rcvBuf : rcvBuf[s] \in taken .. taken + RcvWindow

\* The detailed protocol implements the FIFO pipe of ReliableStream.
Stream == INSTANCE ReliableStream WITH read <- read, delivered <- delivered
ImplementsStream == Stream!Spec

\* The dispatch mark of the item s is lost: it waits for a dequeue, and no packet of it
\* is queued, in a dequeuer's hand or about to be pushed by ioLoop.
MarkLost(s) ==
  /\ s \in DOMAIN sndBuf /\ ~ sndBuf[s].dispatched
  /\ ~ \E p \in txQ \cup hand : p.sn = s
  /\ ~ (ioPc = "push" /\ sndBuf[s].dat = read - 1)

\* Chunk d is with the receiving connection and its window slot is free
\* again, or the stream was given up.
Settled(d) == (Len(delivered) > d /\ d \notin Chunks(sndBuf)) \/ rstSent

\* The first chunk that is read is delivered or the stream is reset ("reliable
\* transport"), whether or not a second one follows it, unless its dispatch mark stays
\* lost: when the dispatcher sends a retransmission between its push and the re-lock
\* that clears Dispatched (checkRetransmits), the timer of the chunk does not fire again.
DeliveredUnlessMarkLost ==
  []<>(read = First \/ Settled(First) \/ MarkLost(First % SeqSpace))

\* A gap in the reorder buffer does not stay open for ever unless the stream is reset:
\* NACKs rescue even a chunk whose dispatch mark was lost.  But it may when nothing
\* arrives any more in this direction and the traffic of the other one never pauses: it
\* keeps renewing lastActivity, and runGapRecoveryWatchdog waits for it to grow old.
GapRecoveredUnlessBusy == []<>(~ GapOpen \/ rstSent \/ activity = "steady")
=============================================================================
