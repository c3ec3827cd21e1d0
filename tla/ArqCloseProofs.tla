--------------------------- MODULE ArqCloseProofs ---------------------------
(***************************************************************************)
(* Proofs about ArqClose: for any number of chunks, any faults and any     *)
(* behaviour of the network, no truncated stream is shown as complete and  *)
(* a completed close handshake means what it says.                         *)
(*                                                                         *)
(* The inductive invariant has a part about one ARQ (Own) and one about an *)
(* ARQ and its peer (Link).  Every operator of ArqClose is shown to keep   *)
(* Pair, which is both parts in both directions; of the step of one side   *)
(* the other need only know that it is Later.                              *)
(***************************************************************************)
EXTENDS ArqClose, FiniteSetTheorems, TLAPS

\* Writes do not fail and writeLoop is not suspended between two critical sections.
Strict == Faults \cap {"write", "preempt"} = {}

\* The CLOSE_READ of this side is the end of its stream.  (A client whose writer has
\* broken sends one although its connection may go on.)
Sound(a) == Strict \/ ~ a.writerBroken

-----------------------------------------------------------------------------
(* One ARQ.                                                                  *)

Fields ==
  {"read", "sndBuf", "ioPc", "eof", "inbound", "rcvBuf", "taken", "wrPc", "flush", "writing",
   "written", "writerBroken", "writeClosed", "eofShown", "preempted", "stopLocalRead",
   "deferred", "waitingAckFor", "tracked", "crSent", "crRcvd", "crAcked", "cwSent", "cwRcvd",
   "cwAcked", "rstSent", "rstRcvd", "reset", "closed", "handshake", "cancelled", "acked", "sent"}

Typed(a) ==
  /\ DOMAIN a = Fields
  /\ a.read \in Nat /\ a.taken \in Nat /\ a.writing \in Nat /\ a.written \in Nat
  /\ a.deferred \in {"none", "CLOSE_READ", "RST"}

\* What has been taken is written or in the write; a broken writer keeps nothing.
Writer(a) ==
  /\ (a.wrPc = "write") <=> (a.writing > 0)
  /\ a.writerBroken \/ a.taken = a.written + a.writing
  /\ a.writerBroken => a.rcvBuf = {} /\ (a.writeClosed \/ a.wrPc = "done")

\* What has been acknowledged is taken or waits in the reorder buffer.
Buffered(a) ==
  /\ a.closed \/ a.rstSent \/ a.writerBroken \/ a.acked \subseteq (0 .. a.taken - 1) \cup a.rcvBuf
  /\ \A d \in a.rcvBuf : d >= a.taken

\* A terminal packet that is out, or waited for, has been marked as sent.
Told(a) ==
  /\ \/ a.waitingAckFor = "CLOSE_READ" \/ a.crAcked
     \/ "CLOSE_READ" \in a.tracked \cup a.sent
     => a.crSent
  /\ a.waitingAckFor = "CLOSE_WRITE" \/ "CLOSE_WRITE" \in a.tracked \cup a.sent => a.writerBroken
  /\ a.waitingAckFor = "RST" \/ "RST" \in a.tracked => a.rstSent

\* CLOSE_READ comes after the end of the connection.
Ended(a) ==
  /\ a.eof => a.ioPc = "done"
  /\ a.deferred = "CLOSE_READ" => a.eof \/ a.writerBroken
  /\ a.crSent /\ Sound(a) => a.eof

\* How an ARQ comes to be closed.
Over(a) ==
  /\ a.handshake \/ a.rstRcvd => a.closed
  /\ a.closed => a.handshake \/ a.rstRcvd \/ a.rstSent
  /\ a.handshake /\ ~ a.writerBroken => a.crSent /\ a.crRcvd /\ a.writing = 0

\* What failing writes and suspensions would spoil.
Careful(a) ==
  Strict => /\ a.preempted => a.rstSent
            /\ a.wrPc # "empty"
            /\ a.writerBroken => a.eof \/ a.closed \/ a.rstSent

Own(a) == Typed(a) /\ Writer(a) /\ Buffered(a) /\ Told(a) /\ Ended(a) /\ Over(a) /\ Careful(a)

-----------------------------------------------------------------------------
(* An ARQ a and its peer p.                                                  *)

\* Whatever has arrived was sent.
Sources(a, p) ==
  /\ a.taken <= p.read
  /\ a.inbound \subseteq 0 .. p.read - 1 /\ a.rcvBuf \subseteq 0 .. p.read - 1
  /\ a.crRcvd => p.crSent

\* A chunk that is no longer in the send buffer has been acknowledged by the peer, and
\* when CLOSE_READ has been sent, all of them have.
Arrived(a, p) ==
  /\ a.closed \/ a.rstSent \/ p.writerBroken \/ (0 .. a.read - 1) \ a.sndBuf \subseteq p.acked
  /\ a.crSent /\ Sound(a) => p.writerBroken \/ 0 .. a.read - 1 \subseteq p.acked

\* At the end of the stream everything has been written.
Whole(a, p) ==
  /\ a.handshake /\ ~ a.rstSent /\ ~ a.writerBroken /\ Sound(p) => a.written = p.read
  /\ a.eofShown /\ ~ a.preempted /\ ~ a.rstSent /\ Sound(p) => a.crRcvd /\ a.written = p.read

Link(a, p) == Sources(a, p) /\ Arrived(a, p) /\ Whole(a, p)

Pair(a, p) == Own(a) /\ Own(p) /\ Link(a, p) /\ Link(p, a)

\* The inductive invariant.
IInv ==
  /\ DOMAIN arq = Side
  /\ \A e \in Side : Own(arq[e]) /\ Link(arq[e], arq[Peer(e)])

-----------------------------------------------------------------------------
(* What a step of one ARQ is to the other.                                   *)

\* All that a peer relies on grows, and a stream that has ended stays as it is.
Later(a, b) ==
  /\ a.read <= b.read /\ a.acked \subseteq b.acked
  /\ a.eof => b.eof /\ b.read = a.read
  /\ a.crSent => b.crSent
  /\ a.writerBroken => b.writerBroken

\* b is a with other values for the fields of F.
Keeps(a, b, F) == DOMAIN b = Fields /\ \A f \in Fields \ F : b[f] = a[f]

\* A later state of one side does not disturb what the other knows of it.
LEMMA LinkLater ==
  ASSUME NEW a, NEW b, NEW p, Own(a), Own(b), Own(p), Link(p, a), Later(a, b)
  PROVE  Link(p, b)
<1>1. Sources(p, b)
  BY DEF Own, Typed, Link, Sources, Later
<1>2. Arrived(p, b)
  BY DEF Own, Typed, Link, Arrived, Later
<1>3. Sound(b) => Sound(a)
  BY DEF Sound, Later
<1>4. Whole(p, b)
  BY <1>3 DEF Own, Typed, Ended, Over, Link, Sources, Whole, Later
<1> QED BY <1>1, <1>2, <1>4 DEF Link

\* So only what the side that takes a step knows has to be looked at.
LEMMA LaterPair ==
  ASSUME NEW a, NEW b, NEW p, Pair(a, p), Own(b), Link(b, p), Later(a, b)
  PROVE  Pair(b, p)
BY LinkLater DEF Pair

\* finalizeClose: a side that is done must have written everything.
LEMMA FinalizeCloseStep ==
  ASSUME NEW a, NEW p, NEW done \in BOOLEAN, Pair(a, p),
         ~ done => a.rstRcvd \/ a.rstSent,
         done /\ ~ a.closed /\ ~ a.writerBroken =>
            /\ a.crSent /\ a.crRcvd /\ a.writing = 0
            /\ ~ a.rstSent /\ Sound(p) => a.written = p.read
  PROVE  Pair(FinalizeClose(a, done), p) /\ Later(a, FinalizeClose(a, done))
<1> DEFINE b == FinalizeClose(a, done)
<1>1. CASE a.closed
  BY <1>1 DEF FinalizeClose, Later, Pair, Own, Typed
<1>2. CASE ~ a.closed
  <2>1. /\ DOMAIN b = Fields /\ b.read = a.read /\ b.taken = a.taken /\ b.writing = a.writing
        /\ b.written = a.written /\ b.deferred = "none" /\ b.sndBuf = {} /\ b.rcvBuf = {}
        /\ b.inbound = {} /\ b.tracked = {} /\ b.waitingAckFor = "none" /\ b.closed
        /\ b.handshake = done /\ b.ioPc = a.ioPc /\ b.eof = a.eof /\ b.wrPc = a.wrPc
        /\ b.writerBroken = a.writerBroken /\ b.writeClosed = a.writeClosed
        /\ b.eofShown = a.eofShown /\ b.preempted = a.preempted
        /\ b.crSent = a.crSent /\ b.crRcvd = a.crRcvd /\ b.crAcked = a.crAcked
        /\ b.rstSent = a.rstSent /\ b.rstRcvd = a.rstRcvd /\ b.acked = a.acked /\ b.sent = a.sent
    BY <1>2 DEF FinalizeClose, Pair, Own, Typed, Fields
  <2> HIDE DEF b
  <2>2. Own(b)
    BY <1>2, <2>1 DEF Pair, Own, Typed, Writer, Buffered, Told, Ended, Over, Careful, Sound
  <2>3. Link(b, p)
    BY <1>2, <2>1 DEF Pair, Own, Typed, Over, Link, Sources, Arrived, Whole, Sound
  <2>4. Later(a, b)
    BY <2>1 DEF Pair, Own, Typed, Later
  <2> QED BY <2>2, <2>3, <2>4, LaterPair DEF b
<1> QED BY <1>1, <1>2

\* tryFinalizeRemoteEOF looks at what is buffered here; what it does not look at, the
\* send buffer and the peer, follows from what the CLOSE_READs stand for.
LEMMA TryFinalizeStep ==
  ASSUME NEW a, NEW p, NEW e, Pair(a, p)
  PROVE  LET b == TryFinalizeRemoteEOF(e, a) IN Pair(b, p) /\ Later(a, b)
<1>1. Later(a, a)
  BY DEF Pair, Own, Typed, Later
<1>2. a.writerBroken =>
        Pair(FinalizeClose(a, TRUE), p) /\ Later(a, FinalizeClose(a, TRUE))
  BY FinalizeCloseStep
<1>3. /\ a.crRcvd
      /\ a.rcvBuf = {} /\ a.writing = 0
      /\ a.crAcked \/ a.crSent
      =>  Pair(FinalizeClose(a, TRUE), p) /\ Later(a, FinalizeClose(a, TRUE))
  <2> SUFFICES ASSUME a.crRcvd, a.rcvBuf = {}, a.writing = 0, a.crAcked \/ a.crSent
                PROVE  Pair(FinalizeClose(a, TRUE), p) /\ Later(a, FinalizeClose(a, TRUE))
    OBVIOUS
  <2>1. a.crSent
    BY DEF Pair, Own, Told
  <2>2. ASSUME ~ a.closed, ~ a.writerBroken, ~ a.rstSent, Sound(p)
        PROVE  a.written = p.read
    <3>1. 0 .. p.read - 1 \subseteq a.acked
      BY <2>2 DEF Pair, Link, Sources, Arrived
    <3>2. a.acked \subseteq 0 .. a.taken - 1
      BY <2>2 DEF Pair, Own, Buffered
    <3> QED BY <2>2, <3>1, <3>2 DEF Pair, Own, Typed, Writer, Link, Sources
  <2> QED BY <2>1, <2>2, FinalizeCloseStep
<1> QED BY <1>1, <1>2, <1>3 DEF TryFinalizeRemoteEOF, TryFinalizeClientLocalDisconnect

-----------------------------------------------------------------------------
(* Terminal packets.                                                         *)

\* Emit when there is nothing to be sent.
LEMMA QuietStep ==
  ASSUME NEW a, NEW p, Pair(a, p),
         NEW b, b = [a EXCEPT !.stopLocalRead = TRUE, !.deferred = "none"]
  PROVE  Pair(b, p)
<1>1. Own(b)
  BY DEF Fields, Pair, Own, Typed, Writer, Buffered, Told, Ended, Over, Careful, Sound
<1>2. Link(b, p)
  BY DEF Fields, Pair, Own, Typed, Writer, Ended, Over, Careful, Link, Sources, Arrived, Whole,
      Sound
<1>3. Later(a, b)
  BY DEF Fields, Pair, Own, Typed, Ended, Later
<1> QED BY <1>1, <1>2, <1>3, LaterPair

\* CLOSE_READ goes out once nothing is left to be acknowledged.
LEMMA EmitCloseRead ==
  ASSUME NEW a, NEW p, NEW e, Pair(a, p), ~ a.closed, ~ a.rstSent,
         a.sndBuf = {}, a.eof \/ a.writerBroken,
         NEW b, b = [a EXCEPT !.stopLocalRead = TRUE, !.deferred = "none",
                              !.waitingAckFor = "CLOSE_READ"],
         NEW t, t = MarkSent(e, b, "CLOSE_READ"),
         NEW s, s = [t EXCEPT !.tracked = @ \cup {"CLOSE_READ"}, !.sent = @ \cup {"CLOSE_READ"}]
  PROVE  Pair(s, p)
<1>1. PICK c : c = [b EXCEPT !.crSent = TRUE, !.reset = FALSE]
  OBVIOUS
<1>2. Pair(c, p)
  <2>1. Own(c)
    BY <1>1 DEF Fields, Pair, Own, Typed, Writer, Buffered, Told, Ended, Over, Careful, Sound
  <2>2. Link(c, p)
    BY <1>1
    DEF Fields, Pair, Own, Typed, Writer, Ended, Over, Careful, Link, Sources, Arrived,
        Whole, Sound
  <2>3. Later(a, c)
    BY <1>1 DEF Fields, Pair, Own, Typed, Ended, Later
  <2> QED BY <2>1, <2>2, <2>3, LaterPair
<1>3. t = TryFinalizeRemoteEOF(e, c)
  BY <1>1 DEF MarkSent
<1>4. Pair(t, p) /\ Later(c, t)
  BY <1>2, <1>3, TryFinalizeStep
<1>5. t.crSent
  BY <1>1, <1>4 DEF Fields, Pair, Own, Typed, Later
<1>6. Own(s)
  BY <1>4, <1>5 DEF Fields, Pair, Own, Typed, Writer, Buffered, Told, Ended, Over, Careful, Sound
<1>7. Link(s, p)
  BY <1>4
  DEF Fields, Pair, Own, Typed, Writer, Ended, Over, Careful, Link, Sources, Arrived, Whole,
      Sound
<1>8. Later(t, s)
  BY <1>4 DEF Fields, Pair, Own, Typed, Ended, Later
<1> QED BY <1>4, <1>6, <1>7, <1>8, LaterPair

\* CLOSE_WRITE is sent.
LEMMA CloseWriteSent ==
  ASSUME NEW a, NEW p, Pair(a, p), ~ a.closed, Strict => a.eof \/ a.rstSent,
         NEW s,
         Keeps(a, s, {"stopLocalRead", "deferred", "waitingAckFor", "cwSent", "writerBroken",
                      "writeClosed", "rcvBuf", "reset", "tracked", "sent"}),
         s.deferred = "none", s.waitingAckFor = "CLOSE_WRITE", s.writerBroken, s.writeClosed,
         s.rcvBuf = {}, s.tracked = a.tracked \cup {"CLOSE_WRITE"},
         s.sent = a.sent \cup {"CLOSE_WRITE"}
  PROVE  Pair(s, p)
<1>1. Own(s)
  BY DEF Keeps, Fields, Pair, Own, Typed, Writer, Buffered, Told, Ended, Over, Careful, Sound
<1>2. Link(s, p)
  BY DEF Keeps, Fields, Pair, Own, Typed, Writer, Ended, Over, Careful, Link, Sources, Arrived,
      Whole, Sound
<1>3. Later(a, s)
  BY DEF Keeps, Fields, Pair, Own, Typed, Ended, Later
<1> QED BY <1>1, <1>2, <1>3, LaterPair

\* An RST is sent.
LEMMA ResetSent ==
  ASSUME NEW a, NEW p, Pair(a, p), ~ a.closed,
         NEW s,
         Keeps(a, s, {"stopLocalRead", "deferred", "waitingAckFor", "rstSent", "reset", "sndBuf",
                      "rcvBuf", "tracked", "sent"}),
         s.deferred = "none", s.waitingAckFor = "RST", s.rstSent,
         s.sndBuf = {}, s.rcvBuf = {}, s.tracked = {"RST"}, s.sent = a.sent \cup {"RST"}
  PROVE  Pair(s, p)
<1>1. Own(s)
  BY DEF Keeps, Fields, Pair, Own, Typed, Writer, Buffered, Told, Ended, Over, Careful, Sound
<1>2. Link(s, p)
  BY DEF Keeps, Fields, Pair, Own, Typed, Writer, Ended, Over, Careful, Link, Sources, Arrived,
      Whole, Sound
<1>3. Later(a, s)
  BY DEF Keeps, Fields, Pair, Own, Typed, Ended, Later
<1> QED BY <1>1, <1>2, <1>3, LaterPair

\* emitTerminalPacketWithTTL, with what its callers have made sure of.
LEMMA EmitStep ==
  ASSUME NEW a, NEW p, NEW e, NEW q \in Terminal, Pair(a, p),
         q = "CLOSE_READ" => a.sndBuf = {} /\ (a.eof \/ a.writerBroken),
         q = "CLOSE_WRITE" => (Strict => a.eof \/ a.closed \/ a.rstSent)
  PROVE  Pair(Emit(e, a, q), p)
<1> DEFINE quiet == [a EXCEPT !.stopLocalRead = TRUE, !.deferred = "none"]
           b == [quiet EXCEPT !.waitingAckFor = q]
           t == MarkSent(e, b, q)
           s == [t EXCEPT !.tracked = @ \cup {q}, !.sent = @ \cup {q}]
<1>1. Pair(quiet, p)
  BY QuietStep
<1>2. ASSUME ~ a.closed, ~ a.rstSent
      PROVE  Pair(s, p)
  <2>1. CASE q = "CLOSE_READ"
    BY <1>2, <2>1, EmitCloseRead
  <2>2. CASE q = "CLOSE_WRITE"
    <3>1. t = [b EXCEPT !.cwSent = TRUE, !.writerBroken = TRUE, !.writeClosed = TRUE,
                        !.rcvBuf = {}, !.reset = @ /\ ~ b.crRcvd]
      BY <2>2 DEF MarkSent
    <3>2. Keeps(a, s, {"stopLocalRead", "deferred", "waitingAckFor", "cwSent", "writerBroken",
                       "writeClosed", "rcvBuf", "reset", "tracked", "sent"})
      BY <3>1 DEF Keeps, Fields, Pair, Own, Typed
    <3> HIDE DEF t
    <3>3. /\ t.deferred = "none" /\ t.waitingAckFor = "CLOSE_WRITE"
          /\ t.writerBroken /\ t.writeClosed /\ t.rcvBuf = {}
          /\ t.tracked = a.tracked /\ t.sent = a.sent /\ DOMAIN t = Fields
      BY <2>2, <3>1 DEF Fields, Pair, Own, Typed
    <3>4. /\ s.deferred = "none" /\ s.waitingAckFor = "CLOSE_WRITE"
          /\ s.writerBroken /\ s.writeClosed /\ s.rcvBuf = {}
          /\ s.tracked = a.tracked \cup {"CLOSE_WRITE"} /\ s.sent = a.sent \cup {"CLOSE_WRITE"}
      BY <2>2, <3>3 DEF Fields
    <3> HIDE DEF s
    <3> QED BY <1>2, <2>2, <3>2, <3>4, CloseWriteSent
  <2>3. CASE q = "RST"
    <3>1. t = [b EXCEPT !.rstSent = TRUE, !.reset = TRUE,
                        !.sndBuf = {}, !.rcvBuf = {}, !.tracked = {}]
      BY <2>3 DEF MarkSent
    <3>2. Keeps(a, s, {"stopLocalRead", "deferred", "waitingAckFor", "rstSent", "reset",
                       "sndBuf", "rcvBuf", "tracked", "sent"})
      BY <3>1 DEF Keeps, Fields, Pair, Own, Typed
    <3> HIDE DEF t
    <3>3. /\ t.deferred = "none" /\ t.waitingAckFor = "RST" /\ t.rstSent
          /\ t.sndBuf = {} /\ t.rcvBuf = {} /\ t.tracked = {}
          /\ t.sent = a.sent /\ DOMAIN t = Fields
      BY <2>3, <3>1 DEF Fields, Pair, Own, Typed
    <3>4. /\ s.deferred = "none" /\ s.waitingAckFor = "RST" /\ s.rstSent
          /\ s.sndBuf = {} /\ s.rcvBuf = {} /\ s.tracked = {"RST"}
          /\ s.sent = a.sent \cup {"RST"}
      BY <2>3, <3>3 DEF Fields
    <3> HIDE DEF s
    <3> QED BY <1>2, <3>2, <3>4, ResetSent
  <2> QED BY <2>1, <2>2, <2>3 DEF Terminal
<1> HIDE DEF quiet, s
<1>3. \/ Emit(e, a, q) = a
      \/ Emit(e, a, q) = quiet
      \/ ~ a.closed /\ ~ a.rstSent /\ Emit(e, a, q) = s
  BY DEF Emit, quiet, s
<1> QED BY <1>1, <1>2, <1>3

\* Close with SendRST.
LEMMA CloseRSTStep ==
  ASSUME NEW a, NEW p, NEW e, NEW afterDrain, Pair(a, p)
  PROVE  Pair(CloseRST(e, a, afterDrain), p)
<1> DEFINE b == [a EXCEPT !.deferred = "none", !.reset = TRUE]
           c == [b EXCEPT !.stopLocalRead = TRUE, !.deferred = "RST"]
<1>1. Pair(b, p)
  <2>1. Own(b)
    BY DEF Fields, Pair, Own, Typed, Writer, Buffered, Told, Ended, Over, Careful, Sound
  <2>2. Link(b, p)
    BY DEF Fields, Pair, Own, Typed, Writer, Ended, Over, Careful, Link, Sources, Arrived,
        Whole, Sound
  <2>3. Later(a, b)
    BY DEF Fields, Pair, Own, Typed, Ended, Later
  <2> QED BY <2>1, <2>2, <2>3, LaterPair
<1> HIDE DEF b
<1>2. Pair(c, p)
  <2>1. Own(c)
    BY <1>1 DEF Fields, Pair, Own, Typed, Writer, Buffered, Told, Ended, Over, Careful, Sound
  <2>2. Link(c, p)
    BY <1>1
    DEF Fields, Pair, Own, Typed, Writer, Ended, Over, Careful, Link, Sources, Arrived,
        Whole, Sound
  <2>3. Later(b, c)
    BY <1>1 DEF Fields, Pair, Own, Typed, Ended, Later
  <2> QED BY <1>1, <2>1, <2>2, <2>3, LaterPair
<1>3. Pair(Emit(e, b, "RST"), p)
  BY <1>1, EmitStep DEF Terminal
<1>4. Pair(Arm(b, "RST"), p)
  BY <1>1, <1>2 DEF Arm
<1> QED BY <1>3, <1>4 DEF CloseRST, b

\* deferTerminalPacket for CLOSE_READ.
LEMMA ArmCloseRead ==
  ASSUME NEW a, NEW p, Pair(a, p), a.eof \/ a.writerBroken
  PROVE  Pair(Arm(a, "CLOSE_READ"), p)
<1> DEFINE b == [a EXCEPT !.stopLocalRead = TRUE, !.deferred = "CLOSE_READ"]
<1>1. Pair(b, p)
  <2>1. Own(b)
    BY DEF Fields, Pair, Own, Typed, Writer, Buffered, Told, Ended, Over, Careful, Sound
  <2>2. Link(b, p)
    BY DEF Fields, Pair, Own, Typed, Writer, Ended, Over, Careful, Link, Sources, Arrived,
        Whole, Sound
  <2>3. Later(a, b)
    BY DEF Fields, Pair, Own, Typed, Ended, Later
  <2> QED BY <2>1, <2>2, <2>3, LaterPair
<1> QED BY <1>1 DEF Arm

\* settleTerminalDrain.
LEMMA SettleStep ==
  ASSUME NEW a, NEW p, NEW e, NEW expired, Pair(a, p)
  PROVE  Pair(SettleTerminalDrain(e, a, expired), p)
<1> DEFINE b == [a EXCEPT !.deferred = "none"]
<1>1. Pair(b, p)
  <2>1. Own(b)
    BY DEF Fields, Pair, Own, Typed, Writer, Buffered, Told, Ended, Over, Careful, Sound
  <2>2. Link(b, p)
    BY DEF Fields, Pair, Own, Typed, Writer, Ended, Over, Careful, Link, Sources, Arrived,
        Whole, Sound
  <2>3. Later(a, b)
    BY DEF Fields, Pair, Own, Typed, Ended, Later
  <2> QED BY <2>1, <2>2, <2>3, LaterPair
<1>2. /\ b.sndBuf = a.sndBuf /\ b.eof = a.eof /\ b.writerBroken = a.writerBroken
      /\ a.deferred = "CLOSE_READ" => a.eof \/ a.writerBroken
      /\ a.deferred \in {"none", "CLOSE_READ", "RST"}
  BY DEF Fields, Pair, Own, Typed, Ended
<1> HIDE DEF b
<1>3. ASSUME a.sndBuf = {}, a.deferred = "CLOSE_READ"
      PROVE  Pair(Emit(e, b, "CLOSE_READ"), p)
  BY <1>1, <1>2, <1>3, EmitStep DEF Terminal
<1>4. Pair(CloseRST(e, b, FALSE), p)
  BY <1>1, CloseRSTStep
<1> QED BY <1>2, <1>3, <1>4 DEF SettleTerminalDrain, b

\* Close with SendCloseRead and AfterDrain.
LEMMA CloseReadStep ==
  ASSUME NEW a, NEW p, NEW e, Pair(a, p), a.eof \/ a.writerBroken
  PROVE  Pair(CloseReadAfterDrain(e, a), p)
<1> DEFINE b == Arm(a, "CLOSE_READ")
<1>1. Pair(b, p)
  BY ArmCloseRead
<1> HIDE DEF b
<1>2. Pair(SettleTerminalDrain(e, b, FALSE), p)
  BY <1>1, SettleStep
<1> QED BY <1>1, <1>2 DEF CloseReadAfterDrain, b

\* Data for a writer that is gone.
LEMMA RefuseStep ==
  ASSUME NEW a, NEW p, NEW e, Pair(a, p)
  PROVE  Pair(RefuseData(e, a), p)
<1>1. a.writerBroken => (Strict => a.eof \/ a.closed \/ a.rstSent)
  BY DEF Pair, Own, Careful
<1>2. a.writerBroken => Pair(Emit(e, a, "CLOSE_WRITE"), p)
  BY <1>1, EmitStep DEF Terminal
<1> QED BY <1>2 DEF RefuseData

-----------------------------------------------------------------------------
(* The actions.                                                              *)

\* An ARQ takes a step, and the two still fit together.
Goes(e) == \E b : Becomes(e, b) /\ Pair(b, arq[Peer(e)])

\* ioLoop, before it reads.
LEMMA IoLoopCheckStep ==
  ASSUME NEW a, NEW p, Pair(a, p), a.ioPc = "check", NEW pc,
         NEW b, b = [a EXCEPT !.ioPc = pc]
  PROVE  Pair(b, p)
<1>1. Own(b)
  BY DEF Fields, Pair, Own, Typed, Writer, Buffered, Told, Ended, Over, Careful, Sound
<1>2. Link(b, p)
  BY DEF Fields, Pair, Own, Typed, Writer, Ended, Over, Careful, Link, Sources, Arrived, Whole,
      Sound
<1>3. Later(a, b)
  BY DEF Fields, Pair, Own, Typed, Ended, Later
<1> QED BY <1>1, <1>2, <1>3, LaterPair

\* ioLoop has read a chunk: its stream has not ended.
LEMMA ReadStep ==
  ASSUME NEW a, NEW p, Pair(a, p), a.ioPc = "read", NEW pc,
         NEW b, b = [AppendChunk(a) EXCEPT !.ioPc = pc]
  PROVE  Pair(b, p)
<1>1. Keeps(a, b, {"read", "sndBuf", "ioPc"})
  BY DEF Keeps, AppendChunk, Fields, Pair, Own, Typed
<1>2. b.read = a.read + 1 /\ b.sndBuf = a.sndBuf \cup {a.read}
  BY DEF AppendChunk, Fields, Pair, Own, Typed
<1>3. ~ a.eof
  BY DEF Pair, Own, Ended
<1>4. PICK c : c = b
  OBVIOUS
<1>5. Pair(c, p)
  <2>1. Own(c)
    BY <1>1, <1>2, <1>3, <1>4
    DEF Keeps, Fields, Pair, Own, Typed, Writer, Buffered, Told, Ended, Over, Careful, Sound
  <2>2. Link(c, p)
    BY <1>1, <1>2, <1>3, <1>4
    DEF Keeps, Fields, Pair, Own, Typed, Writer, Ended, Over, Careful, Link, Sources,
        Arrived, Whole, Sound
  <2>3. Later(a, c)
    BY <1>1, <1>2, <1>3, <1>4 DEF Keeps, Fields, Pair, Own, Typed, Ended, Later
  <2> QED BY <2>1, <2>2, <2>3, LaterPair
<1> QED BY <1>4, <1>5

\* ioLoop has come to the end.
LEMMA EofStep ==
  ASSUME NEW a, NEW p, NEW e, Pair(a, p),
         NEW b, b = [a EXCEPT !.ioPc = "done", !.eof = TRUE]
  PROVE  Pair(b, p) /\ Pair(CloseReadAfterDrain(e, b), p)
<1>1. Pair(b, p)
  <2>1. Own(b)
    BY DEF Fields, Pair, Own, Typed, Writer, Buffered, Told, Ended, Over, Careful, Sound
  <2>2. Link(b, p)
    BY DEF Fields, Pair, Own, Typed, Writer, Ended, Over, Careful, Link, Sources, Arrived,
        Whole, Sound
  <2>3. Later(a, b)
    BY DEF Fields, Pair, Own, Typed, Ended, Later
  <2> QED BY <2>1, <2>2, <2>3, LaterPair
<1>2. b.eof
  BY DEF Fields, Pair, Own, Typed
<1> QED BY <1>1, <1>2, CloseReadStep

\* ioLoop gives up.
LEMMA IoDoneStep ==
  ASSUME NEW a, NEW p, Pair(a, p), NEW b, b = [a EXCEPT !.ioPc = "done"]
  PROVE  Pair(b, p)
<1>1. Own(b)
  BY DEF Fields, Pair, Own, Typed, Writer, Buffered, Told, Ended, Over, Careful, Sound
<1>2. Link(b, p)
  BY DEF Fields, Pair, Own, Typed, Writer, Ended, Over, Careful, Link, Sources, Arrived, Whole,
      Sound
<1>3. Later(a, b)
  BY DEF Fields, Pair, Own, Typed, Ended, Later
<1> QED BY <1>1, <1>2, <1>3, LaterPair

\* writeLoop takes chunks that are there, and none only if the next one is missing.
LEMMA ContiguousFacts ==
  ASSUME NEW a, NEW p, Pair(a, p), NEW n, n = Cardinality(Contiguous(a))
  PROVE  /\ n \in Nat
         /\ a.taken .. a.taken + n - 1 \subseteq a.rcvBuf
         /\ n = 0 => a.taken \notin a.rcvBuf
<1> DEFINE k == Cardinality(a.rcvBuf)
           C == Contiguous(a)
<1>1. a.taken \in Nat /\ p.read \in Nat /\ a.rcvBuf \subseteq 0 .. p.read - 1
  BY DEF Pair, Own, Typed, Link, Sources
<1>2. IsFiniteSet(a.rcvBuf) /\ k \in Nat
  <2>1. 0 \in Int /\ p.read - 1 \in Int
    BY <1>1
  <2>2. IsFiniteSet(0 .. p.read - 1)
    BY <2>1, FS_Interval
  <2>3. IsFiniteSet(a.rcvBuf)
    BY <1>1, <2>2, FS_Subset
  <2> QED BY <2>3, FS_CardinalityType
<1>3. /\ \A m \in C : m \in 1 .. k /\ a.taken .. a.taken + m - 1 \subseteq a.rcvBuf
      /\ \A m \in 1 .. k : a.taken .. a.taken + m - 1 \subseteq a.rcvBuf => m \in C
  BY DEF Contiguous
<1>4. IsFiniteSet(C) /\ n \in Nat
  <2>1. C \subseteq 1 .. k /\ 1 \in Int /\ k \in Int
    BY <1>2, <1>3
  <2>2. IsFiniteSet(1 .. k)
    BY <2>1, FS_Interval
  <2>3. IsFiniteSet(C)
    BY <2>1, <2>2, FS_Subset
  <2> QED BY <2>3, FS_CardinalityType
<1>5. ASSUME n # 0, n \notin C
      PROVE  FALSE
  <2>1. ASSUME NEW m \in C
        PROVE  m \in 1 .. n - 1
    <3>1. m \in 1 .. k /\ a.taken .. a.taken + m - 1 \subseteq a.rcvBuf
      BY <1>3
    <3>2. m >= n => n \in 1 .. k /\ a.taken .. a.taken + n - 1 \subseteq a.rcvBuf
      BY <1>1, <1>2, <1>4, <1>5, <3>1
    <3> QED BY <1>2, <1>3, <1>4, <1>5, <3>1, <3>2
  <2>2. C \subseteq 1 .. n - 1 /\ n - 1 \in Int /\ 1 \in Int
    BY <1>4, <2>1
  <2>3. /\ IsFiniteSet(1 .. n - 1)
        /\ Cardinality(1 .. n - 1) = IF 1 > n - 1 THEN 0 ELSE n - 1 - 1 + 1
    BY <2>2, FS_Interval
  <2>4. n <= Cardinality(1 .. n - 1)
    BY <2>2, <2>3, FS_Subset
  <2> QED BY <1>4, <1>5, <2>3, <2>4
<1>6. ASSUME n = 0, a.taken \in a.rcvBuf
      PROVE  FALSE
  <2>1. C = {}
    BY <1>4, <1>6, FS_EmptySet
  <2>2. k # 0
    BY <1>2, <1>6, FS_EmptySet
  <2>3. 1 \in 1 .. k /\ a.taken .. a.taken + 1 - 1 \subseteq a.rcvBuf
    BY <1>1, <1>2, <1>6, <2>2
  <2> QED BY <1>3, <2>1, <2>3
<1>7. a.taken .. a.taken + n - 1 \subseteq a.rcvBuf
  <2>1. CASE n = 0
    BY <1>1, <2>1
  <2>2. CASE n # 0
    BY <1>3, <1>5, <2>2
  <2> QED BY <2>1, <2>2
<1> QED BY <1>4, <1>6, <1>7

\* writeLoop wakes up.
LEMMA WakeStep ==
  ASSUME NEW a, NEW p, Pair(a, p), a.wrPc = "wait", NEW f,
         NEW b, b = [a EXCEPT !.wrPc = "inner", !.flush = f]
  PROVE  Pair(b, p)
<1>1. Own(b)
  BY DEF Fields, Pair, Own, Typed, Writer, Buffered, Told, Ended, Over, Careful, Sound
<1>2. Link(b, p)
  BY DEF Fields, Pair, Own, Typed, Writer, Ended, Over, Careful, Link, Sources, Arrived, Whole,
      Sound
<1>3. Later(a, b)
  BY DEF Fields, Pair, Own, Typed, Ended, Later
<1> QED BY <1>1, <1>2, <1>3, LaterPair

\* writeLoop ends.
LEMMA WriterDoneStep ==
  ASSUME NEW a, NEW p, Pair(a, p), a.wrPc = "inner",
         NEW b, b = [a EXCEPT !.wrPc = "done"]
  PROVE  Pair(b, p)
<1>1. Own(b)
  BY DEF Fields, Pair, Own, Typed, Writer, Buffered, Told, Ended, Over, Careful, Sound
<1>2. Link(b, p)
  BY DEF Fields, Pair, Own, Typed, Writer, Ended, Over, Careful, Link, Sources, Arrived, Whole,
      Sound
<1>3. Later(a, b)
  BY DEF Fields, Pair, Own, Typed, Ended, Later
<1> QED BY <1>1, <1>2, <1>3, LaterPair

\* writeLoop is suspended between its critical sections.
LEMMA SuspendStep ==
  ASSUME NEW a, NEW p, Pair(a, p), a.wrPc = "inner", "preempt" \in Faults,
         NEW b, b = [a EXCEPT !.wrPc = "empty"]
  PROVE  Pair(b, p)
<1>0. ~ Strict
  BY DEF Strict
<1>1. Own(b)
  BY <1>0 DEF Fields, Pair, Own, Typed, Writer, Buffered, Told, Ended, Over, Careful, Sound
<1>2. Link(b, p)
  BY <1>0
  DEF Fields, Pair, Own, Typed, Writer, Ended, Over, Careful, Link, Sources, Arrived, Whole,
      Sound
<1>3. Later(a, b)
  BY <1>0 DEF Fields, Pair, Own, Typed, Ended, Later
<1> QED BY <1>1, <1>2, <1>3, LaterPair

\* writeLoop takes the next chunks from the reorder buffer.
LEMMA TakeStep ==
  ASSUME NEW a, NEW p, Pair(a, p), a.wrPc = "inner", ~ a.closed,
         NEW n \in Nat, n > 0, a.taken .. a.taken + n - 1 \subseteq a.rcvBuf,
         NEW b, b = [a EXCEPT !.wrPc = "write", !.writing = n, !.taken = @ + n,
                              !.rcvBuf = @ \ (a.taken .. a.taken + n - 1)]
  PROVE  Pair(b, p)
<1>1. a.taken \in Nat /\ a.rcvBuf \subseteq 0 .. p.read - 1 /\ p.read \in Nat
  BY DEF Pair, Own, Typed, Link, Sources
<1>2. a.taken + n <= p.read
  <2>1. a.taken + n - 1 \in a.taken .. a.taken + n - 1
    BY <1>1
  <2> QED BY <1>1, <2>1
<1>3. Keeps(a, b, {"wrPc", "writing", "taken", "rcvBuf"})
  BY DEF Keeps, Fields, Pair, Own, Typed
<1>4. /\ b.wrPc = "write" /\ b.writing = n /\ b.taken = a.taken + n
      /\ b.rcvBuf = a.rcvBuf \ (a.taken .. a.taken + n - 1)
  BY DEF Fields, Pair, Own, Typed
<1>5. \A d : d \in b.rcvBuf <=> d \in a.rcvBuf /\ d \notin a.taken .. a.taken + n - 1
  BY <1>4
<1>6. PICK c : c = b
  OBVIOUS
<1>7. Pair(c, p)
  <2>0. Buffered(c)
    <3>1. \A d \in (0 .. a.taken - 1) \cup a.rcvBuf : d \in (0 .. a.taken + n - 1) \cup c.rcvBuf
      BY <1>1, <1>5, <1>6
    <3>2. \A d \in c.rcvBuf : d >= a.taken + n
      BY <1>1, <1>5, <1>6 DEF Pair, Own, Buffered
    <3>3. /\ c.taken = a.taken + n /\ c.acked = a.acked /\ c.closed = a.closed
          /\ c.rstSent = a.rstSent /\ c.writerBroken = a.writerBroken
      BY <1>3, <1>4, <1>6 DEF Keeps, Fields
    <3>4. \/ a.closed \/ a.rstSent \/ a.writerBroken
          \/ \A d \in a.acked : d \in (0 .. a.taken - 1) \cup a.rcvBuf
      BY DEF Pair, Own, Buffered
    <3>5. \/ a.closed \/ a.rstSent \/ a.writerBroken
          \/ \A d \in a.acked : d \in (0 .. a.taken + n - 1) \cup c.rcvBuf
      BY <3>1, <3>4
    <3> QED BY <1>1, <3>2, <3>3, <3>5 DEF Buffered
  <2>1. Own(c)
    BY <1>3, <1>4, <1>6, <2>0
    DEF Keeps, Fields, Pair, Own, Typed, Writer, Told, Ended, Over, Careful, Sound
  <2>2. Link(c, p)
    BY <1>2, <1>3, <1>4, <1>6
    DEF Keeps, Fields, Pair, Own, Typed, Writer, Ended, Over, Careful, Link, Sources,
        Arrived, Whole, Sound
  <2>3. Later(a, c)
    BY <1>3, <1>6 DEF Keeps, Fields, Pair, Own, Typed, Ended, Later
  <2> QED BY <2>1, <2>2, <2>3, LaterPair
<1> QED BY <1>6, <1>7

\* A writer that finds CLOSE_READ received and nothing waiting has written everything.
LEMMA AllTaken ==
  ASSUME NEW a, NEW p, Pair(a, p), a.crRcvd, ~ a.closed, ~ a.rstSent, ~ a.writerBroken, Sound(p)
  PROVE  0 .. p.read - 1 \subseteq (0 .. a.taken - 1) \cup a.rcvBuf
<1>1. 0 .. p.read - 1 \subseteq a.acked
  BY DEF Pair, Link, Sources, Arrived
<1>2. a.acked \subseteq (0 .. a.taken - 1) \cup a.rcvBuf
  BY DEF Pair, Own, Buffered
<1> QED BY <1>1, <1>2

\* writeLoop looks for the end of the stream.
LEMMA LookForEndStep ==
  ASSUME NEW a, NEW p, NEW e, Pair(a, p), a.wrPc \in {"inner", "empty"},
         Strict => a.taken \notin a.rcvBuf /\ ~ a.closed
  PROVE  Pair(LookForEnd(e, a), p)
<1> DEFINE h == IF a.crRcvd /\ a.inbound = {}
                THEN [HalfCloseLocalWriter(a) EXCEPT !.preempted = @ \/ a.rcvBuf # {}]
                ELSE a
           b == [h EXCEPT !.wrPc = "wait"]
<1>1. a.taken \in Nat /\ p.read \in Nat /\ a.taken <= p.read /\ a.rcvBuf \subseteq 0 .. p.read - 1
  BY DEF Pair, Own, Typed, Link, Sources
<1>2. ASSUME a.crRcvd, ~ a.closed, ~ a.rstSent, ~ a.writerBroken, Sound(p)
      PROVE  /\ a.rcvBuf = {} => a.written = p.read
             /\ Strict => a.rcvBuf = {}
  <2>1. 0 .. p.read - 1 \subseteq (0 .. a.taken - 1) \cup a.rcvBuf
    BY <1>2, AllTaken
  <2>2. a.written = a.taken
    BY <1>2 DEF Pair, Own, Typed, Writer
  <2>3. a.taken < p.read => a.taken \in a.rcvBuf
    BY <1>1, <2>1
  <2>4. a.rcvBuf # {} => a.taken < p.read
    BY <1>1 DEF Pair, Own, Buffered
  <2> QED BY <1>1, <2>2, <2>3, <2>4
<1>3. Pair(b, p)
  <2>1. CASE a.crRcvd /\ a.inbound = {} /\ ~ a.writeClosed /\ ~ a.closed
    <3>1. h = [[a EXCEPT !.writeClosed = TRUE, !.eofShown = TRUE] EXCEPT
                 !.preempted = @ \/ a.rcvBuf # {}]
      BY <2>1 DEF HalfCloseLocalWriter
    <3> HIDE DEF h
    <3>2. Keeps(a, b, {"writeClosed", "eofShown", "preempted", "wrPc"})
      BY <3>1 DEF Keeps, Fields, Pair, Own, Typed
    <3>3. /\ b.writeClosed /\ b.wrPc = "wait"
          /\ b.preempted <=> a.preempted \/ a.rcvBuf # {}
      BY <3>1 DEF Fields, Pair, Own, Typed
    <3>4. ~ a.writerBroken
      BY <2>1 DEF Pair, Own, Writer
    <3> HIDE DEF b
    <3>5. Own(b)
      BY <1>2, <2>1, <3>2, <3>3, <3>4
      DEF Keeps, Fields, Pair, Own, Typed, Writer, Buffered, Told, Ended, Over, Careful,
          Sound
    <3>6. Link(b, p)
      BY <1>2, <2>1, <3>2, <3>3, <3>4
      DEF Keeps, Fields, Pair, Own, Typed, Writer, Ended, Over, Careful, Link, Sources,
          Arrived, Whole, Sound
    <3>7. Later(a, b)
      BY <3>2 DEF Keeps, Fields, Pair, Own, Typed, Ended, Later
    <3> QED BY <3>5, <3>6, <3>7, LaterPair
  <2>2. CASE a.crRcvd /\ a.inbound = {} /\ (a.writeClosed \/ a.closed)
    <3>1. h = [a EXCEPT !.preempted = @ \/ a.rcvBuf # {}]
      BY <2>2 DEF HalfCloseLocalWriter
    <3> HIDE DEF h
    <3>2. Keeps(a, b, {"preempted", "wrPc"})
      BY <3>1 DEF Keeps, Fields, Pair, Own, Typed
    <3>3. /\ b.wrPc = "wait"
          /\ b.preempted <=> a.preempted \/ a.rcvBuf # {}
      BY <3>1 DEF Fields, Pair, Own, Typed
    <3> HIDE DEF b
    <3>5. Own(b)
      BY <1>2, <2>2, <3>2, <3>3
      DEF Keeps, Fields, Pair, Own, Typed, Writer, Buffered, Told, Ended, Over, Careful,
          Sound
    <3>6. Link(b, p)
      BY <1>2, <2>2, <3>2, <3>3
      DEF Keeps, Fields, Pair, Own, Typed, Writer, Ended, Over, Careful, Link, Sources,
          Arrived, Whole, Sound
    <3>7. Later(a, b)
      BY <3>2 DEF Keeps, Fields, Pair, Own, Typed, Ended, Later
    <3> QED BY <3>5, <3>6, <3>7, LaterPair
  <2>3. CASE ~ (a.crRcvd /\ a.inbound = {})
    <3>1. b = [a EXCEPT !.wrPc = "wait"]
      BY <2>3
    <3> HIDE DEF b
    <3>5. Own(b)
      BY <3>1 DEF Fields, Pair, Own, Typed, Writer, Buffered, Told, Ended, Over, Careful, Sound
    <3>6. Link(b, p)
      BY <3>1
      DEF Fields, Pair, Own, Typed, Writer, Ended, Over, Careful, Link, Sources, Arrived,
          Whole, Sound
    <3>7. Later(a, b)
      BY <3>1 DEF Fields, Pair, Own, Typed, Ended, Later
    <3> QED BY <3>5, <3>6, <3>7, LaterPair
  <2> QED BY <2>1, <2>2, <2>3
<1> HIDE DEF b
<1>4. Pair(TryFinalizeRemoteEOF(e, b), p)
  BY <1>3, TryFinalizeStep
<1> QED BY <1>4 DEF LookForEnd, b

\* writeLoop has written.
LEMMA WriteStep ==
  ASSUME NEW a, NEW p, Pair(a, p), a.wrPc = "write", ~ a.eofShown,
         NEW b, b = [a EXCEPT !.wrPc = "inner", !.written = @ + a.writing, !.writing = 0]
  PROVE  Pair(b, p)
<1>1. Own(b)
  BY DEF Fields, Pair, Own, Typed, Writer, Buffered, Told, Ended, Over, Careful, Sound
<1>2. Link(b, p)
  BY DEF Fields, Pair, Own, Typed, Writer, Ended, Over, Careful, Link, Sources, Arrived, Whole,
      Sound
<1>3. Later(a, b)
  BY DEF Fields, Pair, Own, Typed, Ended, Later
<1> QED BY <1>1, <1>2, <1>3, LaterPair

\* The write fails.  Without faults of the connection that happens only once the
\* stream was over.
LEMMA BreakStep ==
  ASSUME NEW a, NEW p, Pair(a, p), a.wrPc = "write",
         "write" \in Faults \/ a.closed \/ a.eofShown,
         NEW b, b = [a EXCEPT !.wrPc = "done", !.writing = 0, !.writerBroken = TRUE,
                              !.rcvBuf = {}]
  PROVE  Pair(b, p)
<1>0. Strict => a.eof \/ a.closed \/ a.rstSent
  <2> SUFFICES ASSUME Strict, ~ a.closed, ~ a.rstSent, ~ a.writerBroken
               PROVE  FALSE
    BY DEF Pair, Own, Careful
  <2>1. a.eofShown
    BY DEF Strict
  <2>2. a.written = p.read
    BY <2>1 DEF Pair, Own, Careful, Link, Whole, Sound
  <2> QED BY <2>2 DEF Pair, Own, Typed, Writer, Link, Sources
<1>1. Own(b)
  BY <1>0 DEF Fields, Pair, Own, Typed, Writer, Buffered, Told, Ended, Over, Careful, Sound
<1>2. Link(b, p)
  BY <1>0
  DEF Fields, Pair, Own, Typed, Writer, Ended, Over, Careful, Link, Sources, Arrived, Whole,
      Sound
<1>3. Later(a, b)
  BY <1>0 DEF Fields, Pair, Own, Typed, Ended, Later
<1> QED BY <1>1, <1>2, <1>3, LaterPair

\* The owner aborts.
LEMMA CancelStep ==
  ASSUME NEW a, NEW p, Pair(a, p), NEW f, NEW b, b = [a EXCEPT !.cancelled = f]
  PROVE  Pair(b, p)
<1>1. Own(b)
  BY DEF Fields, Pair, Own, Typed, Writer, Buffered, Told, Ended, Over, Careful, Sound
<1>2. Link(b, p)
  BY DEF Fields, Pair, Own, Typed, Writer, Ended, Over, Careful, Link, Sources, Arrived, Whole,
      Sound
<1>3. Later(a, b)
  BY DEF Fields, Pair, Own, Typed, Ended, Later
<1> QED BY <1>1, <1>2, <1>3, LaterPair

\* A packet is answered.
LEMMA AnswerStep ==
  ASSUME NEW a, NEW p, Pair(a, p), NEW q, q \notin {"CLOSE_READ", "CLOSE_WRITE"},
         NEW b, b = [a EXCEPT !.sent = @ \cup {q}]
  PROVE  Pair(b, p)
<1>1. Own(b)
  BY DEF Fields, Pair, Own, Typed, Writer, Buffered, Told, Ended, Over, Careful, Sound
<1>2. Link(b, p)
  BY DEF Fields, Pair, Own, Typed, Writer, Ended, Over, Careful, Link, Sources, Arrived, Whole,
      Sound
<1>3. Later(a, b)
  BY DEF Fields, Pair, Own, Typed, Ended, Later
<1> QED BY <1>1, <1>2, <1>3, LaterPair

\* A chunk enters rxChan.
LEMMA InboundStep ==
  ASSUME NEW a, NEW p, Pair(a, p), NEW d \in 0 .. p.read - 1,
         NEW b, b = [a EXCEPT !.inbound = @ \cup {d}]
  PROVE  Pair(b, p)
<1>1. Own(b)
  BY DEF Fields, Pair, Own, Typed, Writer, Buffered, Told, Ended, Over, Careful, Sound
<1>2. Link(b, p)
  BY DEF Fields, Pair, Own, Typed, Writer, Ended, Over, Careful, Link, Sources, Arrived, Whole,
      Sound
<1>3. Later(a, b)
  BY DEF Fields, Pair, Own, Typed, Ended, Later
<1> QED BY <1>1, <1>2, <1>3, LaterPair

\* A chunk leaves rxChan.
LEMMA InboundLessStep ==
  ASSUME NEW a, NEW p, Pair(a, p), NEW d, NEW b, b = [a EXCEPT !.inbound = @ \ {d}]
  PROVE  Pair(b, p)
<1>1. Own(b)
  BY DEF Fields, Pair, Own, Typed, Writer, Buffered, Told, Ended, Over, Careful, Sound
<1>2. Link(b, p)
  BY DEF Fields, Pair, Own, Typed, Writer, Ended, Over, Careful, Link, Sources, Arrived, Whole,
      Sound
<1>3. Later(a, b)
  BY DEF Fields, Pair, Own, Typed, Ended, Later
<1> QED BY <1>1, <1>2, <1>3, LaterPair

\* An old chunk is acknowledged again.
LEMMA AckAgainStep ==
  ASSUME NEW a, NEW p, Pair(a, p), NEW d \in 0 .. p.read - 1, d < a.taken,
         NEW b, b = [a EXCEPT !.acked = @ \cup {d}]
  PROVE  Pair(b, p)
<1>1. Own(b)
  BY DEF Fields, Pair, Own, Typed, Writer, Buffered, Told, Ended, Over, Careful, Sound
<1>2. Link(b, p)
  BY DEF Fields, Pair, Own, Typed, Writer, Ended, Over, Careful, Link, Sources, Arrived, Whole,
      Sound
<1>3. Later(a, b)
  BY DEF Fields, Pair, Own, Typed, Ended, Later
<1> QED BY <1>1, <1>2, <1>3, LaterPair

\* A new chunk is buffered and acknowledged.
LEMMA BufferStep ==
  ASSUME NEW a, NEW p, Pair(a, p), NEW d \in 0 .. p.read - 1, ~ (d < a.taken), ~ a.writerBroken,
         NEW b, b = [a EXCEPT !.rcvBuf = @ \cup {d}, !.acked = @ \cup {d}, !.flush = TRUE]
  PROVE  Pair(b, p)
<1>1. Own(b)
  BY DEF Fields, Pair, Own, Typed, Writer, Buffered, Told, Ended, Over, Careful, Sound
<1>2. Link(b, p)
  BY DEF Fields, Pair, Own, Typed, Writer, Ended, Over, Careful, Link, Sources, Arrived, Whole,
      Sound
<1>3. Later(a, b)
  BY DEF Fields, Pair, Own, Typed, Ended, Later
<1> QED BY <1>1, <1>2, <1>3, LaterPair

\* An acknowledgement takes a chunk from the send buffer.
LEMMA AckedStep ==
  ASSUME NEW a, NEW p, Pair(a, p), NEW d \in p.acked,
         NEW b, b = [a EXCEPT !.sndBuf = @ \ {d}]
  PROVE  Pair(b, p)
<1>1. Own(b)
  BY DEF Fields, Pair, Own, Typed, Writer, Buffered, Told, Ended, Over, Careful, Sound
<1>2. Link(b, p)
  BY DEF Fields, Pair, Own, Typed, Writer, Ended, Over, Careful, Link, Sources, Arrived, Whole,
      Sound
<1>3. Later(a, b)
  BY DEF Fields, Pair, Own, Typed, Ended, Later
<1> QED BY <1>1, <1>2, <1>3, LaterPair

\* CLOSE_READ is received.
LEMMA CloseReadReceived ==
  ASSUME NEW a, NEW p, Pair(a, p), p.crSent,
         NEW b, b = [a EXCEPT !.crRcvd = TRUE, !.reset = FALSE, !.flush = TRUE]
  PROVE  Pair(b, p)
<1>1. Own(b)
  BY DEF Fields, Pair, Own, Typed, Writer, Buffered, Told, Ended, Over, Careful, Sound
<1>2. Link(b, p)
  BY DEF Fields, Pair, Own, Typed, Writer, Ended, Over, Careful, Link, Sources, Arrived, Whole,
      Sound
<1>3. Later(a, b)
  BY DEF Fields, Pair, Own, Typed, Ended, Later
<1> QED BY <1>1, <1>2, <1>3, LaterPair

\* CLOSE_WRITE is received: the send buffer is given up.
LEMMA CloseWriteReceived ==
  ASSUME NEW a, NEW p, Pair(a, p), p.writerBroken,
         NEW b, b = [a EXCEPT !.cwRcvd = TRUE, !.stopLocalRead = TRUE, !.sndBuf = {}]
  PROVE  Pair(b, p)
<1>1. Own(b)
  BY DEF Fields, Pair, Own, Typed, Writer, Buffered, Told, Ended, Over, Careful, Sound
<1>2. Link(b, p)
  BY DEF Fields, Pair, Own, Typed, Writer, Ended, Over, Careful, Link, Sources, Arrived, Whole,
      Sound
<1>3. Later(a, b)
  BY DEF Fields, Pair, Own, Typed, Ended, Later
<1> QED BY <1>1, <1>2, <1>3, LaterPair

\* An RST is received.
LEMMA RstReceived ==
  ASSUME NEW a, NEW p, Pair(a, p), ~ a.closed
  PROVE  Pair(MarkRstReceived(a), p)
<1> DEFINE c == [a EXCEPT !.rstRcvd = TRUE, !.reset = TRUE, !.stopLocalRead = TRUE,
                          !.sndBuf = {}, !.tracked = {}]
           b == [c EXCEPT !.closed = TRUE, !.handshake = FALSE,
                 !.deferred = "none", !.waitingAckFor = "none",
                 !.sndBuf = {}, !.rcvBuf = {}, !.tracked = {}, !.inbound = {}]
<1>0. ~ c.closed
  BY DEF Fields, Pair, Own, Typed
<1>1. MarkRstReceived(a) = b
  BY <1>0 DEF MarkRstReceived, FinalizeClose
<1>2. Keeps(a, b, {"rstRcvd", "reset", "stopLocalRead", "closed", "handshake", "deferred",
                   "waitingAckFor", "sndBuf", "rcvBuf", "tracked", "inbound"})
  BY DEF Keeps, Fields, Pair, Own, Typed
<1>3. /\ b.rstRcvd /\ b.closed /\ ~ b.handshake /\ b.deferred = "none"
      /\ b.waitingAckFor = "none" /\ b.rcvBuf = {} /\ b.tracked = {} /\ b.inbound = {}
  BY DEF Fields, Pair, Own, Typed
<1> HIDE DEF b
<1>4. Own(b)
  BY <1>2, <1>3
  DEF Keeps, Fields, Pair, Own, Typed, Writer, Buffered, Told, Ended, Over, Careful, Sound
<1>5. Link(b, p)
  BY <1>2, <1>3
  DEF Keeps, Fields, Pair, Own, Typed, Writer, Ended, Over, Careful, Link, Sources, Arrived,
      Whole, Sound
<1>6. Later(a, b)
  BY <1>2, <1>3 DEF Keeps, Fields, Pair, Own, Typed, Ended, Later
<1> QED BY <1>1, <1>4, <1>5, <1>6, LaterPair

\* A terminal packet is acknowledged.
LEMMA SettledStep ==
  ASSUME NEW a, NEW p, Pair(a, p), NEW q, NEW w, w = a.waitingAckFor \/ w = "none",
         NEW b, b = [a EXCEPT !.tracked = @ \ {q}, !.waitingAckFor = w]
  PROVE  Pair(b, p)
<1>1. Own(b)
  BY DEF Fields, Pair, Own, Typed, Writer, Buffered, Told, Ended, Over, Careful, Sound
<1>2. Link(b, p)
  BY DEF Fields, Pair, Own, Typed, Writer, Ended, Over, Careful, Link, Sources, Arrived, Whole,
      Sound
<1>3. Later(a, b)
  BY DEF Fields, Pair, Own, Typed, Ended, Later
<1> QED BY <1>1, <1>2, <1>3, LaterPair

\* A terminal packet is given up.
LEMMA UntrackedStep ==
  ASSUME NEW a, NEW p, Pair(a, p), NEW q, NEW b, b = [a EXCEPT !.tracked = @ \ {q}]
  PROVE  Pair(b, p)
<1>1. Own(b)
  BY DEF Fields, Pair, Own, Typed, Writer, Buffered, Told, Ended, Over, Careful, Sound
<1>2. Link(b, p)
  BY DEF Fields, Pair, Own, Typed, Writer, Ended, Over, Careful, Link, Sources, Arrived, Whole,
      Sound
<1>3. Later(a, b)
  BY DEF Fields, Pair, Own, Typed, Ended, Later
<1> QED BY <1>1, <1>2, <1>3, LaterPair

\* CLOSE_READ is acknowledged.
LEMMA CloseReadAcked ==
  ASSUME NEW a, NEW p, Pair(a, p), a.crSent, NEW f,
         NEW b, b = [a EXCEPT !.crAcked = TRUE, !.reset = f]
  PROVE  Pair(b, p)
<1>1. Own(b)
  BY DEF Fields, Pair, Own, Typed, Writer, Buffered, Told, Ended, Over, Careful, Sound
<1>2. Link(b, p)
  BY DEF Fields, Pair, Own, Typed, Writer, Ended, Over, Careful, Link, Sources, Arrived, Whole,
      Sound
<1>3. Later(a, b)
  BY DEF Fields, Pair, Own, Typed, Ended, Later
<1> QED BY <1>1, <1>2, <1>3, LaterPair

\* CLOSE_WRITE is acknowledged.
LEMMA CloseWriteAcked ==
  ASSUME NEW a, NEW p, Pair(a, p), a.writerBroken,
         NEW b, b = [a EXCEPT !.cwAcked = TRUE, !.writerBroken = TRUE, !.writeClosed = TRUE]
  PROVE  Pair(b, p)
<1>1. Own(b)
  BY DEF Fields, Pair, Own, Typed, Writer, Buffered, Told, Ended, Over, Careful, Sound
<1>2. Link(b, p)
  BY DEF Fields, Pair, Own, Typed, Writer, Ended, Over, Careful, Link, Sources, Arrived, Whole,
      Sound
<1>3. Later(a, b)
  BY DEF Fields, Pair, Own, Typed, Ended, Later
<1> QED BY <1>1, <1>2, <1>3, LaterPair

\* maybeInitiateClientCloseReadAfterWriterBreak.
LEMMA ClientCloseReadStep ==
  ASSUME NEW a, NEW p, NEW e, Pair(a, p)
  PROVE  Pair(InitiateClientCloseRead(e, a), p)
<1>1. a.writerBroken => Pair(CloseReadAfterDrain(e, a), p)
  BY CloseReadStep
<1>2. a.writerBroken /\ a.sndBuf = {} => Pair(Emit(e, a, "CLOSE_READ"), p)
  BY EmitStep DEF Terminal
<1> QED BY <1>1, <1>2 DEF InitiateClientCloseRead

\* There are two sides.
LEMMA PeerSide ==
  \A e \in Side : /\ Peer(e) \in Side /\ Peer(e) # e /\ Peer(Peer(e)) = e
                  /\ Side = {e, Peer(e)}
BY DEF Side, Peer

\* The steps of ioLoop, writeLoop and the owner.
LEMMA LocalStep ==
  ASSUME NEW e \in Side, Pair(arq[e], arq[Peer(e)]), Local(e)
  PROVE  Goes(e)
<1> DEFINE a == arq[e]
           p == arq[Peer(e)]
<1>0. Pair(a, p)
  OBVIOUS
<1> SUFFICES \E b : Becomes(e, b) /\ Pair(b, p)
  BY DEF Goes
<1>1. CASE IoLoopCheck(e)
  <2> DEFINE b == [a EXCEPT !.ioPc = IF a.stopLocalRead \/ a.closed THEN "done" ELSE "read"]
  <2>1. Becomes(e, b) /\ a.ioPc = "check"
    BY <1>1 DEF IoLoopCheck
  <2> HIDE DEF a, p
  <2>2. Pair(b, p)
    BY <1>0, <2>1, IoLoopCheckStep
  <2> QED BY <2>1, <2>2
<1>2. CASE IoLoopRead(e)
  <2> DEFINE b == [AppendChunk(a) EXCEPT !.ioPc = "check"]
  <2>1. Becomes(e, b) /\ a.ioPc = "read"
    BY <1>2 DEF IoLoopRead
  <2> HIDE DEF a, p
  <2>2. Pair(b, p)
    BY <1>0, <2>1, ReadStep
  <2> QED BY <2>1, <2>2
<1>3. CASE IoLoopEOF(e)
  <2> DEFINE b == [a EXCEPT !.ioPc = "done", !.eof = TRUE]
  <2>1. Becomes(e, IF b.closed THEN b ELSE CloseReadAfterDrain(e, b))
    BY <1>3 DEF IoLoopEOF
  <2>2. Pair(b, p) /\ Pair(CloseReadAfterDrain(e, b), p)
    <3> HIDE DEF a, p
    <3> QED BY <1>0, EofStep
  <2> HIDE DEF b
  <2> QED BY <2>1, <2>2
<1>4. CASE IoLoopError(e)
  <2>1. PICK withData \in BOOLEAN, closedErr \in BOOLEAN :
          LET b == [(IF withData THEN AppendChunk(a) ELSE a) EXCEPT !.ioPc = "done"]
          IN  /\ a.ioPc = "read"
              /\ Becomes(e, IF b.closed \/ (closedErr /\ Graceful(a)) THEN b
                            ELSE CloseRST(e, b, withData))
    BY <1>4 DEF IoLoopError
  <2> DEFINE b == [(IF withData THEN AppendChunk(a) ELSE a) EXCEPT !.ioPc = "done"]
  <2>2. Pair(b, p)
    <3>1. Pair([AppendChunk(a) EXCEPT !.ioPc = "done"], p)
      BY <1>0, <2>1, ReadStep
    <3>2. Pair([a EXCEPT !.ioPc = "done"], p)
      BY <1>0, IoDoneStep
    <3> QED BY <3>1, <3>2
  <2> HIDE DEF b
  <2>3. Pair(CloseRST(e, b, withData), p)
    BY <2>2, CloseRSTStep
  <2>4. \/ Becomes(e, b)
        \/ Becomes(e, CloseRST(e, b, withData))
    BY <2>1 DEF b
  <2> QED BY <2>2, <2>3, <2>4
<1>5. CASE WriteLoopWake(e)
  <2> DEFINE b == [a EXCEPT !.wrPc = "inner", !.flush = Contiguous(a) # {} /\ a.flush]
  <2>1. Becomes(e, b) /\ a.wrPc = "wait"
    BY <1>5 DEF WriteLoopWake
  <2> HIDE DEF a, p
  <2>2. Pair(b, p)
    BY <1>0, <2>1, WakeStep
  <2> QED BY <2>1, <2>2
<1>6. CASE WriteLoopTake(e)
  <2> DEFINE n == Cardinality(Contiguous(a))
             b == [a EXCEPT !.wrPc = "write", !.writing = n, !.taken = @ + n,
                            !.rcvBuf = @ \ (a.taken .. a.taken + n - 1)]
  <2>1. /\ n \in Nat /\ a.taken .. a.taken + n - 1 \subseteq a.rcvBuf
        /\ n = 0 => a.taken \notin a.rcvBuf
    <3> HIDE DEF a, p
    <3> QED BY <1>0, ContiguousFacts
  <2>2. \/ a.wrPc = "empty" /\ Becomes(e, LookForEnd(e, a))
        \/ a.wrPc = "inner" /\ Becomes(e, [a EXCEPT !.wrPc = "done"])
        \/ a.wrPc = "inner" /\ ~ a.closed /\ n > 0 /\ Becomes(e, b)
        \/ /\ a.wrPc = "inner" /\ "preempt" \in Faults
           /\ Becomes(e, [a EXCEPT !.wrPc = "empty"])
        \/ a.wrPc = "inner" /\ ~ a.closed /\ n = 0 /\ Becomes(e, LookForEnd(e, a))
    <3>1. n > 0 \/ n = 0
      BY <2>1
    <3> HIDE DEF n
    <3> QED BY <1>6, <3>1 DEF WriteLoopTake, n
  <2> HIDE DEF a, p, n
  <2>3. CASE a.wrPc = "empty" /\ Becomes(e, LookForEnd(e, a))
    <3>1. ~ Strict
      BY <1>0, <2>3 DEF Pair, Own, Careful
    <3> QED BY <1>0, <2>3, <3>1, LookForEndStep
  <2>4. CASE a.wrPc = "inner" /\ Becomes(e, [a EXCEPT !.wrPc = "done"])
    BY <1>0, <2>4, WriterDoneStep
  <2>5. CASE a.wrPc = "inner" /\ ~ a.closed /\ n > 0 /\ Becomes(e, b)
    <3>1. Pair(b, p)
      BY <1>0, <2>1, <2>5, TakeStep
    <3> QED BY <2>5, <3>1
  <2>6. CASE /\ a.wrPc = "inner" /\ "preempt" \in Faults
             /\ Becomes(e, [a EXCEPT !.wrPc = "empty"])
    BY <1>0, <2>6, SuspendStep
  <2>7. CASE a.wrPc = "inner" /\ ~ a.closed /\ n = 0 /\ Becomes(e, LookForEnd(e, a))
    BY <1>0, <2>1, <2>7, LookForEndStep
  <2> QED BY <2>2, <2>3, <2>4, <2>5, <2>6, <2>7
<1>7. CASE WriteLoopWrite(e)
  <2> DEFINE b == [a EXCEPT !.wrPc = "inner", !.written = @ + a.writing, !.writing = 0]
  <2>1. Becomes(e, TryFinalizeRemoteEOF(e, b)) /\ a.wrPc = "write" /\ ~ a.eofShown
    BY <1>7 DEF WriteLoopWrite
  <2> HIDE DEF a, p
  <2>2. Pair(b, p)
    BY <1>0, <2>1, WriteStep
  <2> HIDE DEF b
  <2>3. Pair(TryFinalizeRemoteEOF(e, b), p)
    BY <2>2, TryFinalizeStep
  <2> QED BY <2>1, <2>3
<1>8. CASE WriteLoopError(e)
  <2> DEFINE b == [a EXCEPT !.wrPc = "done", !.writing = 0, !.writerBroken = TRUE,
                            !.rcvBuf = {}]
  <2>1. /\ Becomes(e, Emit(e, b, "CLOSE_WRITE"))
        /\ a.wrPc = "write" /\ ("write" \in Faults \/ a.closed \/ a.eofShown)
    BY <1>8 DEF WriteLoopError
  <2> HIDE DEF a, p
  <2>2. Pair(b, p)
    BY <1>0, <2>1, BreakStep
  <2>3. b.writerBroken
    BY <1>0 DEF Fields, Pair, Own, Typed
  <2> HIDE DEF b
  <2>4. Strict => b.eof \/ b.closed \/ b.rstSent
    BY <2>2, <2>3 DEF Pair, Own, Careful
  <2>5. Pair(Emit(e, b, "CLOSE_WRITE"), p)
    BY <2>2, <2>4, EmitStep DEF Terminal
  <2> QED BY <2>1, <2>5
<1>9. CASE Abort(e)
  <2> DEFINE b == [a EXCEPT !.cancelled = (e = "client")]
  <2>1. Becomes(e, CloseRST(e, b, FALSE))
    BY <1>9 DEF Abort
  <2> HIDE DEF a, p
  <2>2. Pair(b, p)
    BY <1>0, CancelStep
  <2> HIDE DEF b
  <2>3. Pair(CloseRST(e, b, FALSE), p)
    BY <2>2, CloseRSTStep
  <2> QED BY <2>1, <2>3
<1> QED BY <1>1, <1>2, <1>3, <1>4, <1>5, <1>6, <1>7, <1>8, <1>9 DEF Local

\* The steps of retransmitLoop.
LEMMA TimersStep ==
  ASSUME NEW e \in Side, Pair(arq[e], arq[Peer(e)]), Timers(e)
  PROVE  Goes(e)
<1> DEFINE a == arq[e]
           p == arq[Peer(e)]
<1>0. Pair(a, p)
  OBVIOUS
<1> SUFFICES \E b : Becomes(e, b) /\ Pair(b, p)
  BY DEF Goes
<1>r. Pair(CloseRST(e, a, FALSE), p)
  <2> HIDE DEF a, p
  <2> QED BY <1>0, CloseRSTStep
<1>1. CASE DrainDeadline(e)
  <2>1. Becomes(e, SettleTerminalDrain(e, a, TRUE))
    BY <1>1 DEF DrainDeadline
  <2> HIDE DEF a, p
  <2> QED BY <1>0, <2>1, SettleStep
<1>2. CASE AckDeadline(e)
  <2>1. \/ a.waitingAckFor = "RST" /\ Becomes(e, FinalizeClose(a, FALSE))
        \/ Becomes(e, CloseRST(e, a, FALSE))
    BY <1>2 DEF AckDeadline
  <2> HIDE DEF a, p
  <2>2. a.waitingAckFor = "RST" => Pair(FinalizeClose(a, FALSE), p)
    <3>1. a.waitingAckFor = "RST" => a.rstSent
      BY <1>0 DEF Pair, Own, Told
    <3> QED BY <1>0, <3>1, FinalizeCloseStep
  <2> QED BY <1>r, <2>1, <2>2
<1>3. CASE ControlExpired(e)
  <2>1. PICK q \in a.tracked :
          LET b == [a EXCEPT !.tracked = @ \ {q}]
          IN  Becomes(e, IF q = "RST" THEN FinalizeClose(b, FALSE) ELSE CloseRST(e, b, FALSE))
    BY <1>3 DEF ControlExpired
  <2> DEFINE b == [a EXCEPT !.tracked = @ \ {q}]
  <2> HIDE DEF a, p
  <2>2. Pair(b, p)
    BY <1>0, UntrackedStep
  <2>3. q = "RST" => b.rstSent
    BY <1>0, <2>1 DEF Fields, Pair, Own, Typed, Told
  <2>4. \/ q = "RST" /\ Becomes(e, FinalizeClose(b, FALSE))
        \/ Becomes(e, CloseRST(e, b, FALSE))
    BY <2>1
  <2> HIDE DEF b
  <2>5. Pair(CloseRST(e, b, FALSE), p)
    BY <2>2, CloseRSTStep
  <2>6. q = "RST" => Pair(FinalizeClose(b, FALSE), p)
    BY <2>2, <2>3, FinalizeCloseStep
  <2> QED BY <2>4, <2>5, <2>6
<1>4. CASE DataExpired(e)
  BY <1>4, <1>r DEF DataExpired
<1>5. CASE InitiateCloseWrite(e)
  <2>1. Becomes(e, Emit(e, a, "CLOSE_WRITE")) /\ a.crSent
    BY <1>5 DEF InitiateCloseWrite
  <2> HIDE DEF a, p
  <2>2. Strict => a.eof
    BY <1>0, <2>1 DEF Pair, Own, Ended, Sound
  <2>3. Pair(Emit(e, a, "CLOSE_WRITE"), p)
    BY <1>0, <2>2, EmitStep DEF Terminal
  <2> QED BY <2>1, <2>3
<1>6. CASE InactivityTimeout(e)
  BY <1>6, <1>r DEF InactivityTimeout
<1> QED BY <1>1, <1>2, <1>3, <1>4, <1>5, <1>6 DEF Timers

\* ReceiveData.
LEMMA ReceiveDataStep ==
  ASSUME NEW e \in Side, Pair(arq[e], arq[Peer(e)]),
         NEW d \in 0 .. MaxRead[Peer(e)] - 1, ReceiveData(e, d)
  PROVE  Goes(e)
<1> DEFINE a == arq[e]
           p == arq[Peer(e)]
<1>0. Pair(a, p)
  OBVIOUS
<1> SUFFICES \E b : Becomes(e, b) /\ Pair(b, p)
  BY DEF Goes
<1>1. /\ d < p.read
      /\ \/ Becomes(e, [a EXCEPT !.sent = @ \cup {"RST"}])
         \/ Becomes(e, a)
         \/ Becomes(e, RefuseData(e, a))
         \/ Becomes(e, [a EXCEPT !.inbound = @ \cup {d}])
  BY DEF ReceiveData, Answer
<1> HIDE DEF a, p
<1>2. d \in 0 .. p.read - 1
  <2>1. d \in Nat
    BY CloseAssumption, PeerSide DEF CloseAssumption
  <2> QED BY <1>0, <1>1, <2>1 DEF Pair, Own, Typed
<1>3. Pair([a EXCEPT !.sent = @ \cup {"RST"}], p)
  BY <1>0, AnswerStep
<1>4. Pair(RefuseData(e, a), p)
  BY <1>0, RefuseStep
<1>5. Pair([a EXCEPT !.inbound = @ \cup {d}], p)
  BY <1>0, <1>2, InboundStep
<1> QED BY <1>0, <1>1, <1>3, <1>4, <1>5

\* processReceivedData.
LEMMA ProcessStep ==
  ASSUME NEW e \in Side, Pair(arq[e], arq[Peer(e)]), ProcessReceivedData(e)
  PROVE  Goes(e)
<1> DEFINE a == arq[e]
           p == arq[Peer(e)]
<1>0. Pair(a, p)
  OBVIOUS
<1> SUFFICES \E b : Becomes(e, b) /\ Pair(b, p)
  BY DEF Goes
<1>1. PICK d \in a.inbound :
        LET b == [a EXCEPT !.inbound = @ \ {d}]
        IN  Becomes(e, IF b.writerBroken \/ b.cwSent \/ b.cwAcked THEN RefuseData(e, b)
                       ELSE IF d < b.taken THEN [b EXCEPT !.acked = @ \cup {d}]
                       ELSE [b EXCEPT !.rcvBuf = @ \cup {d}, !.acked = @ \cup {d},
                                      !.flush = TRUE])
  BY DEF ProcessReceivedData
<1> DEFINE b == [a EXCEPT !.inbound = @ \ {d}]
           c == [b EXCEPT !.acked = @ \cup {d}]
           f == [b EXCEPT !.rcvBuf = @ \cup {d}, !.acked = @ \cup {d}, !.flush = TRUE]
<1>2. \/ Becomes(e, RefuseData(e, b))
      \/ d < b.taken /\ Becomes(e, c)
      \/ ~ b.writerBroken /\ ~ (d < b.taken) /\ Becomes(e, f)
  BY <1>1
<1> HIDE DEF a, p
<1>3. Pair(b, p)
  BY <1>0, InboundLessStep
<1> HIDE DEF b
<1>4. d \in 0 .. p.read - 1
  BY <1>0, <1>1 DEF Pair, Link, Sources
<1>5. Pair(RefuseData(e, b), p)
  BY <1>3, RefuseStep
<1>6. d < b.taken => Pair(c, p)
  BY <1>3, <1>4, AckAgainStep
<1>7. ~ b.writerBroken /\ ~ (d < b.taken) => Pair(f, p)
  BY <1>3, <1>4, BufferStep
<1> HIDE DEF c, f
<1> QED BY <1>2, <1>5, <1>6, <1>7

\* ReceiveAck.
LEMMA ReceiveAckStep ==
  ASSUME NEW e \in Side, Pair(arq[e], arq[Peer(e)]), ReceiveAck(e)
  PROVE  Goes(e)
<1> DEFINE a == arq[e]
           p == arq[Peer(e)]
<1>0. Pair(a, p)
  OBVIOUS
<1> SUFFICES \E b : Becomes(e, b) /\ Pair(b, p)
  BY DEF Goes
<1>1. PICK d \in p.acked \cap a.sndBuf :
        LET b == [a EXCEPT !.sndBuf = @ \ {d}]
            c == IF b.crRcvd THEN TryFinalizeRemoteEOF(e, b) ELSE b
        IN  Becomes(e, SettleTerminalDrain(e, c, FALSE))
  BY DEF ReceiveAck
<1> DEFINE b == [a EXCEPT !.sndBuf = @ \ {d}]
           c == IF b.crRcvd THEN TryFinalizeRemoteEOF(e, b) ELSE b
<1>2. Becomes(e, SettleTerminalDrain(e, c, FALSE))
  BY <1>1
<1> HIDE DEF a, p
<1>3. Pair(b, p)
  BY <1>0, AckedStep
<1> HIDE DEF b
<1>4. Pair(c, p)
  BY <1>3, TryFinalizeStep
<1> HIDE DEF c
<1>5. Pair(SettleTerminalDrain(e, c, FALSE), p)
  BY <1>4, SettleStep
<1> QED BY <1>2, <1>5

\* A terminal packet arrives.
LEMMA ReceiveTerminalStep ==
  ASSUME NEW e \in Side, Pair(arq[e], arq[Peer(e)]), NEW q \in Terminal, ReceiveTerminal(e, q)
  PROVE  Goes(e)
<1> DEFINE p == arq[Peer(e)]
           a == [arq[e] EXCEPT !.sent = @ \cup {AckOf(q)}]
           r == [a EXCEPT !.crRcvd = TRUE, !.reset = FALSE, !.flush = TRUE]
           w == [a EXCEPT !.cwRcvd = TRUE, !.stopLocalRead = TRUE, !.sndBuf = {}]
           s == SettleTerminalDrain(e, w, FALSE)
<1> SUFFICES \E b : Becomes(e, b) /\ Pair(b, p)
  BY DEF Goes
<1>1. /\ q \in p.sent
      /\ \/ Becomes(e, a)
         \/ q = "CLOSE_READ" /\ Becomes(e, TryFinalizeRemoteEOF(e, r))
         \/ q = "CLOSE_WRITE" /\ Becomes(e, TryFinalizeRemoteEOF(e, s))
         \/ q = "RST" /\ ~ a.closed /\ Becomes(e, MarkRstReceived(a))
  BY DEF ReceiveTerminal, Terminal, Answer, MarkCloseReadReceived, MarkCloseWriteReceived
<1>2. Pair(a, p)
  <2>1. AckOf(q) \notin {"CLOSE_READ", "CLOSE_WRITE"}
    BY DEF AckOf, Terminal
  <2> HIDE DEF p
  <2> QED BY <2>1, AnswerStep DEF p
<1> HIDE DEF a, p
<1>3. q = "CLOSE_READ" => Pair(TryFinalizeRemoteEOF(e, r), p)
  <2>1. q = "CLOSE_READ" => p.crSent
    BY <1>1, <1>2 DEF Pair, Own, Told
  <2>2. q = "CLOSE_READ" => Pair(r, p)
    BY <1>2, <2>1, CloseReadReceived
  <2> HIDE DEF r
  <2> QED BY <2>2, TryFinalizeStep
<1>4. q = "CLOSE_WRITE" => Pair(TryFinalizeRemoteEOF(e, s), p)
  <2>1. q = "CLOSE_WRITE" => p.writerBroken
    BY <1>1, <1>2 DEF Pair, Own, Told
  <2>2. q = "CLOSE_WRITE" => Pair(w, p)
    BY <1>2, <2>1, CloseWriteReceived
  <2> HIDE DEF w
  <2>3. q = "CLOSE_WRITE" => Pair(s, p)
    BY <2>2, SettleStep
  <2> HIDE DEF s
  <2> QED BY <2>3, TryFinalizeStep
<1>5. ~ a.closed => Pair(MarkRstReceived(a), p)
  BY <1>2, RstReceived
<1> HIDE DEF r, s
<1> QED BY <1>1, <1>2, <1>3, <1>4, <1>5

\* The acknowledgement of a terminal packet arrives.
LEMMA ReceiveControlAckStep ==
  ASSUME NEW e \in Side, Pair(arq[e], arq[Peer(e)]), NEW q \in Terminal, ReceiveControlAck(e, q)
  PROVE  Goes(e)
<1> DEFINE old == arq[e]
           p == arq[Peer(e)]
           v == IF old.waitingAckFor = q THEN "none" ELSE old.waitingAckFor
           a == [old EXCEPT !.tracked = @ \ {q}, !.waitingAckFor = v]
           r == [a EXCEPT !.crAcked = TRUE, !.reset = @ /\ ~ a.crRcvd]
           w == [a EXCEPT !.cwAcked = TRUE, !.writerBroken = TRUE, !.writeClosed = TRUE]
           i == InitiateClientCloseRead(e, w)
<1>0. Pair(old, p)
  OBVIOUS
<1> SUFFICES \E b : Becomes(e, b) /\ Pair(b, p)
  BY DEF Goes
<1>1. /\ q \in old.tracked \/ old.waitingAckFor = q
      /\ \/ q = "CLOSE_READ" /\ Becomes(e, TryFinalizeRemoteEOF(e, r))
         \/ q = "CLOSE_WRITE" /\ Becomes(e, TryFinalizeRemoteEOF(e, i))
         \/ q = "RST" /\ Becomes(e, FinalizeClose(a, FALSE))
  BY DEF ReceiveControlAck, Terminal
<1> HIDE DEF old, p
<1>2. Pair(a, p)
  BY <1>0, SettledStep
<1>3. /\ q = "CLOSE_READ" => a.crSent
      /\ q = "CLOSE_WRITE" => a.writerBroken
      /\ q = "RST" => a.rstSent
  <2>1. /\ q = "CLOSE_READ" => old.crSent
        /\ q = "CLOSE_WRITE" => old.writerBroken
        /\ q = "RST" => old.rstSent
    BY <1>0, <1>1 DEF Pair, Own, Told
  <2>2. a.crSent = old.crSent /\ a.writerBroken = old.writerBroken /\ a.rstSent = old.rstSent
    BY <1>0 DEF Fields, Pair, Own, Typed
  <2> QED BY <2>1, <2>2
<1> HIDE DEF a
<1>4. q = "CLOSE_READ" => Pair(TryFinalizeRemoteEOF(e, r), p)
  <2>1. q = "CLOSE_READ" => Pair(r, p)
    BY <1>2, <1>3, CloseReadAcked
  <2> HIDE DEF r
  <2> QED BY <2>1, TryFinalizeStep
<1>5. q = "CLOSE_WRITE" => Pair(TryFinalizeRemoteEOF(e, i), p)
  <2>1. q = "CLOSE_WRITE" => Pair(w, p)
    BY <1>2, <1>3, CloseWriteAcked
  <2> HIDE DEF w
  <2>2. q = "CLOSE_WRITE" => Pair(i, p)
    BY <2>1, ClientCloseReadStep
  <2> HIDE DEF i
  <2> QED BY <2>2, TryFinalizeStep
<1>6. q = "RST" => Pair(FinalizeClose(a, FALSE), p)
  BY <1>2, <1>3, FinalizeCloseStep
<1> HIDE DEF r, i
<1> QED BY <1>1, <1>4, <1>5, <1>6

\* The steps of the packet handlers.
LEMMA ReceiveStep ==
  ASSUME NEW e \in Side, Pair(arq[e], arq[Peer(e)]), Receive(e)
  PROVE  Goes(e)
BY ReceiveDataStep, ProcessStep, ReceiveAckStep, ReceiveTerminalStep, ReceiveControlAckStep
DEF Receive

-----------------------------------------------------------------------------
(* The invariant and the theorems.                                           *)

\* The invariant holds at first.
LEMMA InitIInv == Init => IInv
<1> SUFFICES ASSUME Init
             PROVE  IInv
  OBVIOUS
<1>1. /\ DOMAIN arq = Side
      /\ \A e \in Side : arq[e] = NewARQ /\ arq[Peer(e)] = NewARQ
  BY PeerSide DEF Init
<1>2. PICK a : a = NewARQ
  OBVIOUS
<1>3. /\ DOMAIN a = Fields
      /\ a.read = 0 /\ a.sndBuf = {} /\ ~ a.eof /\ a.inbound = {} /\ a.rcvBuf = {}
      /\ a.taken = 0 /\ a.wrPc = "inner" /\ a.writing = 0 /\ a.written = 0
      /\ ~ a.writerBroken /\ ~ a.eofShown /\ ~ a.preempted
      /\ a.deferred = "none" /\ a.waitingAckFor = "none" /\ a.tracked = {}
      /\ ~ a.crSent /\ ~ a.crRcvd /\ ~ a.crAcked /\ ~ a.rstSent /\ ~ a.rstRcvd
      /\ ~ a.closed /\ ~ a.handshake /\ a.acked = {} /\ a.sent = {}
  BY <1>2 DEF NewARQ, Fields
<1>4. Own(a)
  BY <1>3 DEF Own, Typed, Writer, Buffered, Told, Ended, Over, Careful
<1>5. Link(a, a)
  BY <1>3 DEF Link, Sources, Arrived, Whole
<1> QED BY <1>1, <1>2, <1>4, <1>5 DEF IInv

\* Every step keeps it.
LEMMA NextIInv == IInv /\ [Next]_arq => IInv'
<1> SUFFICES ASSUME IInv, [Next]_arq
             PROVE  IInv'
  OBVIOUS
<1>1. CASE UNCHANGED arq
  BY <1>1 DEF IInv
<1>2. CASE Next
  <2>1. PICK e \in Side : Local(e) \/ Receive(e) \/ Timers(e)
    BY <1>2 DEF Next
  <2>2. Peer(e) \in Side /\ Peer(e) # e /\ Peer(Peer(e)) = e /\ Side = {e, Peer(e)}
    BY PeerSide
  <2>3. Pair(arq[e], arq[Peer(e)])
    BY <2>2 DEF IInv, Pair
  <2>4. Goes(e)
    BY <2>1, <2>3, LocalStep, ReceiveStep, TimersStep
  <2>5. PICK b : Becomes(e, b) /\ Pair(b, arq[Peer(e)])
    BY <2>4 DEF Goes
  <2>6. DOMAIN arq' = Side /\ arq'[e] = b /\ arq'[Peer(e)] = arq[Peer(e)]
    BY <2>2, <2>5 DEF Becomes, IInv
  <2>7. PICK p : p = arq[Peer(e)]
    OBVIOUS
  <2>8. Pair(b, p) /\ arq'[Peer(e)] = p
    BY <2>5, <2>6, <2>7
  <2> QED BY <2>2, <2>6, <2>8 DEF IInv, Pair
<1> QED BY <1>1, <1>2

\* The inductive invariant holds in every state.
THEOREM Inductive == Spec => []IInv
<1> QED BY InitIInv, NextIInv, PTL DEF Spec

\* A connection is shown the end of its stream only when the other has ended and all it
\* sent has been written (writeLoop's CloseWrite), with the exceptions the property names.
THEOREM StreamsWhole == Spec => []NoTruncation
<1>1. IInv => NoTruncation
  <2> SUFFICES ASSUME IInv, NEW e \in Side
               PROVE  LET a == arq[e]  p == arq[Peer(e)] IN
                      a.eofShown /\ ~ a.preempted /\ ~ a.rstSent /\ ~ p.writerBroken =>
                        a.written = p.read /\ p.eof
    BY DEF NoTruncation
  <2>1. PICK a, p : a = arq[e] /\ p = arq[Peer(e)]
    OBVIOUS
  <2>2. Link(a, p) /\ Own(p)
    BY <2>1, PeerSide DEF IInv
  <2>3. a.eofShown /\ ~ a.preempted /\ ~ a.rstSent /\ ~ p.writerBroken =>
          a.written = p.read /\ p.eof
    BY <2>2 DEF Link, Sources, Whole, Own, Ended, Sound
  <2> QED BY <2>1, <2>3
<1> QED BY <1>1, Inductive, PTL

\* A side whose close handshake is complete (tryFinalizeRemoteEOF) has written all that
\* the other sent and has had all that it sent acknowledged.
THEOREM HandshakeTrue == Spec => []HandshakeComplete
<1>1. IInv => HandshakeComplete
  <2> SUFFICES ASSUME IInv, NEW e \in Side
               PROVE  LET a == arq[e]  p == arq[Peer(e)] IN
                      a.handshake /\ ~ a.rstSent /\ ~ a.writerBroken /\ ~ p.writerBroken =>
                        a.written = p.read /\ p.eof /\ 0 .. a.read - 1 \subseteq p.acked
    BY DEF HandshakeComplete
  <2>1. PICK a, p : a = arq[e] /\ p = arq[Peer(e)]
    OBVIOUS
  <2>2. Own(a) /\ Link(a, p) /\ Own(p)
    BY <2>1, PeerSide DEF IInv
  <2>3. a.handshake /\ ~ a.rstSent /\ ~ a.writerBroken /\ ~ p.writerBroken =>
          a.written = p.read /\ p.eof /\ 0 .. a.read - 1 \subseteq p.acked
    BY <2>2 DEF Link, Sources, Arrived, Whole, Own, Ended, Over, Sound
  <2> QED BY <2>1, <2>3
<1> QED BY <1>1, Inductive, PTL

\* Where no write to a connection fails and writeLoop is not suspended at the one
\* place, what was sent before a completed handshake is written by a peer that
\* closes without a reset, whatever else goes wrong.
THEOREM HandshakeDelivers ==
  ASSUME Strict
  PROVE  Spec => []HandshakeDeliversUnlessReset
<1>1. IInv => HandshakeDeliversUnlessReset
  <2> SUFFICES ASSUME IInv, NEW e \in Side
               PROVE  LET a == arq[e]  p == arq[Peer(e)] IN
                      a.handshake /\ p.closed /\ ~ p.writerBroken /\ ~ p.rstRcvd /\ ~ p.rstSent =>
                        p.written = a.read
    BY DEF HandshakeDeliversUnlessReset
  <2>1. PICK a, p : a = arq[e] /\ p = arq[Peer(e)]
    OBVIOUS
  <2>2. Own(p) /\ Link(p, a)
    BY <2>1, PeerSide DEF IInv
  <2>3. p.closed /\ ~ p.writerBroken /\ ~ p.rstRcvd /\ ~ p.rstSent => p.written = a.read
    BY <2>2 DEF Own, Over, Link, Whole, Sound
  <2> QED BY <2>1, <2>3
<1> QED BY <1>1, Inductive, PTL

=============================================================================
