------------------------------ MODULE ArqClose ------------------------------
(***************************************************************************)
(* How an ARQ stream of MasterDnsVPN-plus ends (internal/arq/arq.go): the  *)
(* close handshake of the client's and the server's ARQ with CLOSE_READ,   *)
(* CLOSE_WRITE and RST, racing the data still under way in both directions.*)
(*                                                                         *)
(* The state of one ARQ is a record; a method of the code is an operator   *)
(* from the record before the call to the record after it, so that an      *)
(* action is a handler with every call it makes.  ioLoop and writeLoop are *)
(* split where they block on the local connection, rxLoop takes packets    *)
(* from its channel in steps of its own.                                   *)
(*                                                                         *)
(* Data transfer is ArqData's: here chunk d of a side arrives some time    *)
(* after it was read, as often as the network likes, or never.             *)
(***************************************************************************)
EXTENDS Integers, FiniteSets

CONSTANTS
  MaxRead,   \* bound, per side: chunks the local connection delivers
  Faults     \* what may go wrong besides the network, see Fault

Side == {"client", "server"}
Peer(e) == IF e = "client" THEN "server" ELSE "client"

\* A fatal error of the local connection's read or write; the stream aborted by
\* its owner; a deadline, a retry limit or the inactivity timeout reached;
\* writeLoop suspended between two critical sections.
Fault == {"read", "write", "abort", "deadline", "inactive", "preempt"}

ASSUME CloseAssumption == MaxRead \in [Side -> Nat] /\ Faults \subseteq Fault

Terminal == {"CLOSE_READ", "CLOSE_WRITE", "RST"}
AckOf(p) == CASE p = "CLOSE_READ" -> "CLOSE_READ_ACK"
              [] p = "CLOSE_WRITE" -> "CLOSE_WRITE_ACK"
              [] p = "RST" -> "RST_ACK"

VARIABLE arq   \* the two ARQ objects, by side

NewARQ ==
  [read |-> 0, sndBuf |-> {},            \* chunks read; those not acknowledged
   ioPc |-> "check", eof |-> FALSE,      \* ioLoop; its connection reported EOF
   inbound |-> {},                       \* rxChan, counted by a.pendingInbound
   rcvBuf |-> {}, taken |-> 0,           \* reorder buffer and a.rcvNxt
   wrPc |-> "inner", flush |-> FALSE,    \* writeLoop and a.flushSignal
   writing |-> 0, written |-> 0,         \* chunks in the write, and written
   writerBroken |-> FALSE, writeClosed |-> FALSE,
   eofShown |-> FALSE,                   \* CloseWrite called on the connection,
   preempted |-> FALSE,                  \* with a chunk left in rcvBuf (history)
   stopLocalRead |-> FALSE, deferred |-> "none", waitingAckFor |-> "none",
   tracked |-> {},                       \* controlSndBuf
   crSent |-> FALSE, crRcvd |-> FALSE, crAcked |-> FALSE,
   cwSent |-> FALSE, cwRcvd |-> FALSE, cwAcked |-> FALSE,
   rstSent |-> FALSE, rstRcvd |-> FALSE, reset |-> FALSE,
   closed |-> FALSE, handshake |-> FALSE, cancelled |-> FALSE,
   acked |-> {}, sent |-> {}]            \* DATA_ACKs and control packets sent

Init == arq = [e \in Side |-> NewARQ]

-----------------------------------------------------------------------------
(* Final close.                                                              *)

\* handshake says whether the close handshake was completed.
FinalizeClose(a, done) ==
  IF a.closed THEN a
  ELSE [a EXCEPT !.closed = TRUE, !.handshake = done,
                 !.deferred = "none", !.waitingAckFor = "none",
                 !.sndBuf = {}, !.rcvBuf = {}, !.tracked = {}, !.inbound = {}]

TryFinalizeClientLocalDisconnect(e, a) ==
  IF /\ e = "client" /\ a.writerBroken
     /\ a.cwAcked /\ a.crSent /\ a.crAcked
     /\ a.sndBuf = {} /\ a.rcvBuf = {} /\ a.inbound = {} /\ a.writing = 0
     /\ a.waitingAckFor = "none" /\ a.deferred = "none"
  THEN FinalizeClose(a, TRUE) ELSE a

\* Mutant of TryFinalizeRemoteEOF: CLOSE_WRITE must have been exchanged as well.
TryFinalizeIfWriteClosed(e, a) ==
  IF /\ a.crRcvd /\ a.crAcked /\ a.cwAcked
     /\ a.writerBroken \/ (a.rcvBuf = {} /\ a.inbound = {} /\ a.writing = 0)
  THEN FinalizeClose(a, TRUE) ELSE TryFinalizeClientLocalDisconnect(e, a)

\* Mutant of TryFinalizeRemoteEOF: what is buffered is not waited for.
TryFinalizeUndrained(e, a) ==
  IF a.crRcvd /\ (a.crAcked \/ (a.crSent /\ a.waitingAckFor # "CLOSE_READ"))
  THEN FinalizeClose(a, TRUE) ELSE TryFinalizeClientLocalDisconnect(e, a)

TryFinalizeRemoteEOF(e, a) ==
  IF /\ a.crRcvd
     /\ a.writerBroken \/ (a.rcvBuf = {} /\ a.inbound = {} /\ a.writing = 0)
     /\ a.crAcked \/ (a.crSent /\ a.waitingAckFor # "CLOSE_READ")
     /\ IF a.writerBroken THEN a.cwAcked \/ a.cwRcvd ELSE a.cwSent => a.cwAcked
  THEN FinalizeClose(a, TRUE) ELSE TryFinalizeClientLocalDisconnect(e, a)

-----------------------------------------------------------------------------
(* Terminal packets.                                                         *)

Resetting(a) ==
  \/ a.rstSent \/ a.rstRcvd
  \/ a.waitingAckFor = "RST" \/ a.deferred = "RST"

MarkSent(e, a, p) ==
  CASE p = "CLOSE_READ" ->
         TryFinalizeRemoteEOF(e, [a EXCEPT !.crSent = TRUE, !.reset = FALSE])
    [] p = "CLOSE_WRITE" ->
         [a EXCEPT !.cwSent = TRUE, !.writerBroken = TRUE, !.writeClosed = TRUE,
                   !.rcvBuf = {}, !.reset = @ /\ ~ a.crRcvd]
    [] p = "RST" ->
         [a EXCEPT !.rstSent = TRUE, !.reset = TRUE,
                   !.sndBuf = {}, !.rcvBuf = {}, !.tracked = {}]

\* emitTerminalPacketWithTTL: whatever was deferred is dropped; the packet is
\* sent and tracked unless it was sent before or the stream is being reset.
Emit(e, a, p) ==
  LET quiet == [a EXCEPT !.stopLocalRead = TRUE, !.deferred = "none"]
      b     == MarkSent(e, [quiet EXCEPT !.waitingAckFor = p], p)
  IN  IF a.closed THEN a
      ELSE IF \/ a.waitingAckFor = p \/ a.rstSent \/ a.rstRcvd
              \/ p = "CLOSE_READ" /\ a.crSent
              \/ p = "CLOSE_WRITE" /\ a.cwSent
           THEN quiet
           ELSE [b EXCEPT !.tracked = @ \cup {p}, !.sent = @ \cup {p}]

\* deferTerminalPacket, up to the test for an empty send buffer.
Arm(a, p) ==
  IF a.closed THEN a ELSE [a EXCEPT !.stopLocalRead = TRUE, !.deferred = p]

\* Close with SendRST.
CloseRST(e, a, afterDrain) ==
  LET b == [a EXCEPT !.deferred = "none", !.reset = TRUE]
  IN  IF a.closed \/ Resetting(a) THEN a
      ELSE IF afterDrain /\ a.sndBuf # {} THEN Arm(b, "RST") ELSE Emit(e, b, "RST")

\* Mutant of SettleTerminalDrain: at the deadline the deferred packet goes out too.
SettleAtDeadline(e, a, expired) ==
  LET b == [a EXCEPT !.deferred = "none"]
  IN  IF a.closed \/ a.deferred = "none" \/ (a.sndBuf # {} /\ ~ expired) THEN a
      ELSE IF a.deferred = "RST" THEN CloseRST(e, b, FALSE)
      ELSE Emit(e, b, a.deferred)

\* settleTerminalDrain: when the send buffer is empty the deferred packet goes
\* out; when the deadline has passed (expired), an RST does.
SettleTerminalDrain(e, a, expired) ==
  LET b == [a EXCEPT !.deferred = "none"]
  IN  IF a.closed \/ a.deferred = "none" THEN a
      ELSE IF a.sndBuf = {} /\ a.deferred # "RST" THEN Emit(e, b, a.deferred)
      ELSE IF a.sndBuf = {} \/ expired THEN CloseRST(e, b, FALSE)
      ELSE a

\* Mutant of CloseReadAfterDrain: AfterDrain is forgotten.
CloseReadAtOnce(e, a) == Emit(e, a, "CLOSE_READ")

\* Close with SendCloseRead and AfterDrain.
CloseReadAfterDrain(e, a) ==
  IF a.sndBuf = {} THEN SettleTerminalDrain(e, Arm(a, "CLOSE_READ"), FALSE)
  ELSE Arm(a, "CLOSE_READ")

\* Data arrives for a writer that is gone: tell the peer to stop.
RefuseData(e, a) ==
  IF /\ a.writerBroken /\ ~ a.cwSent /\ a.waitingAckFor # "CLOSE_WRITE"
     /\ ~ a.closed /\ ~ a.rstRcvd /\ ~ a.rstSent
  THEN Emit(e, a, "CLOSE_WRITE") ELSE a

-----------------------------------------------------------------------------
(* The local connection.                                                     *)

Becomes(e, a) == arq' = [arq EXCEPT ![e] = a]

IoLoopCheck(e) ==
  LET a == arq[e] IN
  /\ a.ioPc = "check"
  /\ Becomes(e, [a EXCEPT !.ioPc = IF a.stopLocalRead \/ a.closed THEN "done" ELSE "read"])

AppendChunk(a) == [a EXCEPT !.sndBuf = @ \cup {a.read}, !.read = @ + 1]

\* The read returns a chunk.  Nothing is checked again before it is appended.
IoLoopRead(e) ==
  LET a == arq[e] IN
  /\ a.ioPc = "read" /\ a.read < MaxRead[e]
  /\ Becomes(e, [AppendChunk(a) EXCEPT !.ioPc = "check"])

IoLoopEOF(e) ==
  LET a == [arq[e] EXCEPT !.ioPc = "done", !.eof = TRUE] IN
  /\ arq[e].ioPc = "read"
  /\ Becomes(e, IF a.closed THEN a ELSE CloseReadAfterDrain(e, a))

\* isGracefulCloseInProgress
Graceful(a) ==
  \/ a.closed
  \/ {a.waitingAckFor, a.deferred} \cap {"CLOSE_READ", "CLOSE_WRITE"} # {}
  \/ a.crSent \/ a.crRcvd \/ a.cwSent \/ a.cwRcvd

\* The read fails, possibly together with a last chunk; that the connection was
\* closed under it is expected while a graceful close is in progress.
IoLoopError(e) ==
  \E withData, closedErr \in BOOLEAN :
    LET old == arq[e]
        a   == [(IF withData THEN AppendChunk(old) ELSE old) EXCEPT !.ioPc = "done"]
    IN  /\ "read" \in Faults
        /\ old.ioPc = "read"
        /\ withData => old.read < MaxRead[e]
        /\ Becomes(e, IF a.closed \/ (closedErr /\ Graceful(old)) THEN a
                      ELSE CloseRST(e, a, withData))

\* halfCloseLocalWriter
HalfCloseLocalWriter(a) ==
  IF a.writeClosed \/ a.closed THEN a
  ELSE [a EXCEPT !.writeClosed = TRUE, !.eofShown = TRUE]

Contiguous(a) == {n \in 1 .. Cardinality(a.rcvBuf) : a.taken .. a.taken + n - 1 \subseteq a.rcvBuf}

\* writeLoop wakes up: something is ready, it was signalled, or it is to end.
WriteLoopWake(e) ==
  LET a == arq[e] IN
  /\ a.wrPc = "wait"
  /\ Contiguous(a) # {} \/ a.flush \/ a.closed
  /\ Becomes(e, [a EXCEPT !.wrPc = "inner", !.flush = Contiguous(a) # {} /\ a.flush])

\* Nothing was ready: has the stream come to its end?
LookForEnd(e, a) ==
  LET h == IF a.crRcvd /\ a.inbound = {}
           THEN [HalfCloseLocalWriter(a) EXCEPT !.preempted = @ \/ a.rcvBuf # {}]
           ELSE a
  IN  TryFinalizeRemoteEOF(e, [h EXCEPT !.wrPc = "wait"])

\* It takes what is contiguous.  When there is nothing, it gives up the lock before
\* it looks for the end, without looking at the buffer again.  (Once every chunk has
\* been taken, a pause between the two is no different from a pause before them.)
WriteLoopTake(e) ==
  LET a == arq[e]
      n == Cardinality(Contiguous(a))
  IN  /\ a.wrPc \in {"inner", "empty"}
      /\ Becomes(e,
           CASE a.wrPc = "empty" -> LookForEnd(e, a)
             [] a.wrPc = "inner" /\ a.closed -> [a EXCEPT !.wrPc = "done"]
             [] a.wrPc = "inner" /\ ~ a.closed /\ n > 0 ->
                  [a EXCEPT !.wrPc = "write", !.writing = n, !.taken = @ + n,
                            !.rcvBuf = @ \ (a.taken .. a.taken + n - 1)]
             [] a.wrPc = "inner" /\ ~ a.closed /\ n = 0 ->
                  IF "preempt" \in Faults /\ a.taken < MaxRead[Peer(e)]
                  THEN [a EXCEPT !.wrPc = "empty"]
                  ELSE LookForEnd(e, a))

WriteLoopWrite(e) ==
  LET a == arq[e] IN
  /\ a.wrPc = "write" /\ ~ a.eofShown
  /\ Becomes(e, TryFinalizeRemoteEOF(e,
                  [a EXCEPT !.wrPc = "inner", !.written = @ + a.writing, !.writing = 0]))

\* The write fails for good: what is buffered is thrown away (markLocalWriterBroken)
\* and the peer is told with CLOSE_WRITE.
WriteLoopError(e) ==
  LET a == arq[e] IN
  /\ a.wrPc = "write"
  /\ "write" \in Faults \/ a.closed \/ a.eofShown
  /\ Becomes(e, Emit(e, [a EXCEPT !.wrPc = "done", !.writing = 0, !.writerBroken = TRUE,
                                  !.rcvBuf = {}], "CLOSE_WRITE"))

\* The owner of the stream aborts it: CloseStream(force) or Abort.
Abort(e) ==
  LET a == arq[e] IN
  /\ "abort" \in Faults /\ ~ a.closed
  /\ Becomes(e, CloseRST(e, [a EXCEPT !.cancelled = (e = "client")], FALSE))

-----------------------------------------------------------------------------
(* Packets.  A packet that was sent may arrive at any time and repeatedly.   *)

Answer(a, p) == [a EXCEPT !.sent = @ \cup {p}]

\* A chunk of the peer arrives.  A stream that is closed, cancelled or being
\* reset answers with an RST of its own.
ReceiveData(e, d) ==
  LET a == arq[e] IN
  /\ d < arq[Peer(e)].read
  /\ Becomes(e, IF \/ a.closed
                   \/ e = "client" /\ a.cancelled
                   \/ e = "server" /\ (a.reset \/ a.rstSent \/ a.rstRcvd)
                THEN Answer(a, "RST")
                ELSE IF a.rstSent \/ a.rstRcvd THEN a
                ELSE IF a.writerBroken THEN RefuseData(e, a)
                ELSE [a EXCEPT !.inbound = @ \cup {d}])

\* processReceivedData: an old chunk is acknowledged again, a new one buffered.
ProcessReceivedData(e) ==
  \E d \in arq[e].inbound :
    LET a == [arq[e] EXCEPT !.inbound = @ \ {d}] IN
    Becomes(e, IF a.writerBroken \/ a.cwSent \/ a.cwAcked THEN RefuseData(e, a)
               ELSE IF d < a.taken THEN [a EXCEPT !.acked = @ \cup {d}]
               ELSE [a EXCEPT !.rcvBuf = @ \cup {d}, !.acked = @ \cup {d}, !.flush = TRUE])

ReceiveAck(e) ==
  \E d \in arq[Peer(e)].acked \cap arq[e].sndBuf :
    LET a == [arq[e] EXCEPT !.sndBuf = @ \ {d}]
        b == IF a.crRcvd THEN TryFinalizeRemoteEOF(e, a) ELSE a
    IN  /\ ~ a.closed
        /\ Becomes(e, SettleTerminalDrain(e, b, FALSE))

\* Mutant of MarkCloseReadReceived: writeLoop is not woken up.
MarkCloseReadReceivedUnsignalled(e, a) ==
  TryFinalizeRemoteEOF(e, [a EXCEPT !.crRcvd = TRUE, !.reset = FALSE])

MarkCloseReadReceived(e, a) ==
  TryFinalizeRemoteEOF(e, [a EXCEPT !.crRcvd = TRUE, !.reset = FALSE, !.flush = TRUE])

MarkCloseWriteReceived(e, a) ==
  TryFinalizeRemoteEOF(e,
    SettleTerminalDrain(e, [a EXCEPT !.cwRcvd = TRUE, !.stopLocalRead = TRUE, !.sndBuf = {}],
                        FALSE))

\* MarkRstReceived, and the forced close both handlers make after it.
MarkRstReceived(a) ==
  FinalizeClose([a EXCEPT !.rstRcvd = TRUE, !.reset = TRUE, !.stopLocalRead = TRUE,
                          !.sndBuf = {}, !.tracked = {}], FALSE)

\* Mutant of ReceiveTerminal: a stream that is gone acknowledges nothing.
ReceiveTerminalIfOpen(e, p) ==
  LET a == Answer(arq[e], AckOf(p)) IN
  /\ p \in arq[Peer(e)].sent /\ ~ a.closed
  /\ Becomes(e, CASE p = "CLOSE_READ"  -> MarkCloseReadReceived(e, a)
                  [] p = "CLOSE_WRITE" -> MarkCloseWriteReceived(e, a)
                  [] p = "RST"         -> MarkRstReceived(a))

\* A terminal packet is always acknowledged, also for a stream that is gone.
ReceiveTerminal(e, p) ==
  LET a == Answer(arq[e], AckOf(p)) IN
  /\ p \in arq[Peer(e)].sent
  /\ Becomes(e, IF a.closed THEN a
                ELSE CASE p = "CLOSE_READ"  -> MarkCloseReadReceived(e, a)
                       [] p = "CLOSE_WRITE" -> MarkCloseWriteReceived(e, a)
                       [] p = "RST"         -> MarkRstReceived(a))

\* maybeInitiateClientCloseReadAfterWriterBreak
InitiateClientCloseRead(e, a) ==
  IF /\ e = "client" /\ a.writerBroken /\ ~ a.closed
     /\ ~ a.rstSent /\ ~ a.rstRcvd /\ ~ a.crSent /\ ~ a.crRcvd
  THEN IF a.sndBuf # {} \/ a.writing > 0
       THEN CloseReadAfterDrain(e, a) ELSE Emit(e, a, "CLOSE_READ")
  ELSE a

\* The acknowledgement of a terminal packet that is tracked or waited for.
ReceiveControlAck(e, p) ==
  LET old == arq[e]
      a   == [old EXCEPT !.tracked = @ \ {p},
                         !.waitingAckFor = IF @ = p THEN "none" ELSE @]
  IN  /\ AckOf(p) \in arq[Peer(e)].sent
      /\ ~ old.closed
      /\ p \in old.tracked \/ old.waitingAckFor = p
      /\ Becomes(e,
           CASE p = "CLOSE_READ" ->
                  TryFinalizeRemoteEOF(e, [a EXCEPT !.crAcked = TRUE, !.reset = @ /\ ~ a.crRcvd])
             [] p = "CLOSE_WRITE" ->
                  TryFinalizeRemoteEOF(e, InitiateClientCloseRead(e,
                    [a EXCEPT !.cwAcked = TRUE, !.writerBroken = TRUE, !.writeClosed = TRUE]))
             [] p = "RST" -> FinalizeClose(a, FALSE))

-----------------------------------------------------------------------------
(* retransmitLoop.                                                           *)

\* The deadline of a drain, of an acknowledgement or of a tracked packet, or a
\* retry limit, is reached.
DrainDeadline(e) ==
  /\ "deadline" \in Faults /\ ~ arq[e].closed /\ arq[e].deferred # "none"
  /\ Becomes(e, SettleTerminalDrain(e, arq[e], TRUE))

AckDeadline(e) ==
  LET a == arq[e] IN
  /\ "deadline" \in Faults /\ ~ a.closed
  /\ a.deferred = "none" /\ a.waitingAckFor # "none"
  /\ Becomes(e, IF a.waitingAckFor = "RST" THEN FinalizeClose(a, FALSE)
                ELSE CloseRST(e, a, FALSE))

ControlExpired(e) ==
  \E p \in arq[e].tracked :
    LET a == [arq[e] EXCEPT !.tracked = @ \ {p}] IN
    /\ "deadline" \in Faults /\ ~ a.closed
    /\ Becomes(e, IF p = "RST" THEN FinalizeClose(a, FALSE) ELSE CloseRST(e, a, FALSE))

DataExpired(e) ==
  /\ "deadline" \in Faults /\ ~ arq[e].closed /\ arq[e].sndBuf # {}
  /\ Becomes(e, CloseRST(e, arq[e], FALSE))

\* The client has had its CLOSE_READ acknowledged for a while and the peer has
\* finished sending: it closes the other direction too.
InitiateCloseWrite(e) ==
  LET a == arq[e] IN
  /\ e = "client" /\ ~ a.closed /\ ~ a.rstSent /\ ~ a.rstRcvd
  /\ a.deferred = "none"
  /\ a.crSent /\ a.crAcked /\ ~ a.cwSent /\ ~ a.cwAcked /\ ~ a.cwRcvd
  /\ a.waitingAckFor # "CLOSE_WRITE"
  /\ a.rcvBuf = {} /\ a.inbound = {} /\ a.writing = 0
  /\ a.crRcvd \/ a.writerBroken
  /\ Becomes(e, Emit(e, a, "CLOSE_WRITE"))

\* Nothing has happened for a long time, and nothing is waiting to be acknowledged.
InactivityTimeout(e) ==
  LET a == arq[e] IN
  /\ "inactive" \in Faults /\ ~ a.closed
  /\ a.deferred = "none" /\ a.sndBuf = {} /\ a.tracked = {}
  /\ Becomes(e, CloseRST(e, a, FALSE))

-----------------------------------------------------------------------------
Local(e) ==
  \/ IoLoopCheck(e) \/ IoLoopRead(e) \/ IoLoopEOF(e) \/ IoLoopError(e)
  \/ WriteLoopWake(e) \/ WriteLoopTake(e) \/ WriteLoopWrite(e) \/ WriteLoopError(e)
  \/ Abort(e)

Receive(e) ==
  \/ \E d \in 0 .. MaxRead[Peer(e)] - 1 : ReceiveData(e, d)
  \/ ProcessReceivedData(e) \/ ReceiveAck(e)
  \/ \E p \in Terminal : ReceiveTerminal(e, p) \/ ReceiveControlAck(e, p)

Timers(e) ==
  \/ DrainDeadline(e) \/ AckDeadline(e) \/ ControlExpired(e) \/ DataExpired(e)
  \/ InitiateCloseWrite(e) \/ InactivityTimeout(e)

Next == \E e \in Side : Local(e) \/ Receive(e) \/ Timers(e)

Spec == Init /\ [][Next]_arq

\* A copy of a chunk that has been acknowledged arrives.
LateCopy ==
  \E e \in Side : \E d \in 0 .. MaxRead[Peer(e)] - 1 :
    d \notin arq[Peer(e)].sndBuf /\ ReceiveData(e, d)

\* The goroutines of a stream run, and a write to the local connection ends.
\* What is retransmitted until it is acknowledged arrives, and so do the
\* acknowledgement that every copy of it triggers and the RST with which a closed
\* stream answers data; only finitely many copies of a chunk are late.  Nothing is
\* assumed of the applications, which may read, send and hang up when they like,
\* nor of the faults.
Fairness ==
  /\ \A e \in Side :
       /\ WF_arq(IoLoopCheck(e)) /\ WF_arq(WriteLoopWake(e)) /\ WF_arq(WriteLoopTake(e))
       /\ WF_arq(WriteLoopWrite(e) \/ WriteLoopError(e))
       /\ WF_arq(ProcessReceivedData(e)) /\ WF_arq(ReceiveAck(e))
       /\ WF_arq(InitiateCloseWrite(e)) /\ WF_arq(InactivityTimeout(e))
       /\ \A d \in 0 .. MaxRead[Peer(e)] - 1 :
            WF_arq(d \in arq[Peer(e)].sndBuf /\ ReceiveData(e, d))
       /\ \A p \in Terminal :
            /\ WF_arq(p \in arq[Peer(e)].tracked /\ ReceiveTerminal(e, p))
            /\ WF_arq(ReceiveControlAck(e, p))
       /\ WF_arq(arq[e].sndBuf # {} /\ arq[Peer(e)].closed /\ ReceiveTerminal(e, "RST"))
  /\ <>[][~ LateCopy]_arq

FairSpec == Spec /\ Fairness

-----------------------------------------------------------------------------
(* Properties.                                                               *)

Control == Terminal \cup {AckOf(p) : p \in Terminal}

\* The type of the two ARQs; a buffer holds only chunks that were read.
TypeOK ==
  \A e \in Side :
    LET a == arq[e] IN
    /\ a.read \in 0 .. MaxRead[e] /\ a.sndBuf \subseteq 0 .. a.read - 1
    /\ a.inbound \cup a.rcvBuf \cup a.acked \subseteq 0 .. arq[Peer(e)].read - 1
    /\ a.taken \in Nat /\ a.writing \in Nat /\ a.written \in Nat
    /\ a.ioPc \in {"check", "read", "done"}
    /\ a.wrPc \in {"wait", "inner", "empty", "write", "done"}
    /\ a.deferred \in {"none", "CLOSE_READ", "RST"}
    /\ a.waitingAckFor \in {"none"} \cup Terminal
    /\ a.tracked \subseteq Terminal /\ a.sent \subseteq Control

\* A connection is shown the end of its stream (CloseWrite in writeLoop) only after
\* the other connection has ended and all it sent has been written, unless this
\* side reset the stream, the other closed it because its writer broke, or writeLoop
\* was suspended between finding nothing to write and looking at CLOSE_READ while
\* the last chunk and the CLOSE_READ arrived.
NoTruncation ==
  \A e \in Side :
    arq[e].eofShown /\ ~ arq[e].preempted /\ ~ arq[e].rstSent /\ ~ arq[Peer(e)].writerBroken =>
      arq[e].written = arq[Peer(e)].read /\ arq[Peer(e)].eof

\* A side that ends with "close handshake completed" (tryFinalizeRemoteEOF) has
\* written all the other side sent and has had all it sent acknowledged, although
\* the code looks at neither sndBuf nor at the peer; a side that had reset the
\* stream, or a broken writer, is no such case.
HandshakeComplete ==
  \A e \in Side :
    LET a == arq[e]  p == arq[Peer(e)] IN
    a.handshake /\ ~ a.rstSent /\ ~ a.writerBroken /\ ~ p.writerBroken =>
      a.written = p.read /\ p.eof /\ 0 .. a.read - 1 \subseteq p.acked

\* What a side sent before it completed the handshake is written by the peer before
\* the peer closes: CLOSE_READ asks the peer to "finish draining inbound and close
\* writer".  Excepted is a peer whose writer broke, and one that was reset: a late
\* copy of a chunk that meets the side that has closed is answered with an RST,
\* which makes the peer throw away what it has acknowledged and not yet written.
HandshakeDeliversUnlessReset ==
  \A e \in Side :
    LET a == arq[e]  p == arq[Peer(e)] IN
    a.handshake /\ p.closed /\ ~ p.writerBroken /\ ~ p.rstRcvd /\ ~ p.rstSent =>
      p.written = a.read

EofSeen(e) == arq[e].eofShown \/ arq[e].closed

\* A copy of a chunk already written waits in rxChan after CLOSE_READ arrived.
CopyWaits(e) == arq[e].crRcvd /\ \E d \in arq[e].inbound : d < arq[e].taken

\* When a connection ends, the connection at the other end is shown the end of the
\* stream or is closed: CLOSE_READ is delivered and acted upon.  A late copy of a
\* chunk that meets the CLOSE_READ at the receiver is excepted: writeLoop, for which
\* it counts as pending, is not woken up when the copy has been dropped.
EofUnlessCopy ==
  \A e \in Side : [] ~ CopyWaits(Peer(e)) => (arq[e].eof ~> EofSeen(Peer(e)))

\* When both connections have ended, both ARQs are closed and their stream removed;
\* so it is with the inactivity timeout, whatever was lost or missed before.
BothClose == (\A e \in Side : arq[e].eof) ~> (\A e \in Side : arq[e].closed)

\* BothClose without the timeout, when no late copy meets a CLOSE_READ.
BothCloseUnlessCopy == (\A e \in Side : [] ~ CopyWaits(e)) => BothClose
=============================================================================
