---------------------------- MODULE ArqDataProofs ----------------------------
(***************************************************************************)
(* Proofs about ArqData for every window, sequence space, number of chunks *)
(* and network capacity that satisfy the module's assumptions.             *)
(***************************************************************************)
EXTENDS ArqData, FiniteSetTheorems, SequenceTheorems, TLAPS

-----------------------------------------------------------------------------
(* Arithmetic of sequence numbers modulo M: what a uint16 subtraction in     *)
(* arq.go says about the two counts it compares.                             *)

\* Division with remainder by a positive number.
LEMMA DivMod ==
  ASSUME NEW M \in Nat \ {0}, NEW x \in Int
  PROVE  /\ x % M \in 0 .. M - 1
         /\ x \div M \in Int
         /\ x = M * (x \div M) + (x % M)
  OBVIOUS

\* x is a multiple of M, by q, and a remainder.
Splits(M, x, q, r) == q \in Int /\ r \in 0 .. M - 1 /\ x = M * q + r

\* The quotient and the remainder of a division are unique.
LEMMA UniqueRemainder ==
  ASSUME NEW M \in Nat \ {0}, NEW x \in Int, NEW q1, NEW r1, NEW q2, NEW r2,
         Splits(M, x, q1, r1), Splits(M, x, q2, r2)
  PROVE  q1 = q2 /\ r1 = r2
<1> USE DEF Splits
<1>1. M * q1 - M * q2 = r2 - r1
  OBVIOUS
<1>2. CASE q1 >= q2 + 1
  <2>1. M * q1 >= M * (q2 + 1)
    BY <1>2
  <2>2. M * (q2 + 1) = M * q2 + M
    OBVIOUS
  <2>3. QED
    BY <2>1, <2>2, <1>1
<1>3. CASE q2 >= q1 + 1
  <2>1. M * q2 >= M * (q1 + 1)
    BY <1>3
  <2>2. M * (q1 + 1) = M * q1 + M
    OBVIOUS
  <2>3. QED
    BY <2>1, <2>2, <1>1
<1>4. CASE q1 = q2
  BY <1>4, <1>1
<1>5. QED
  BY <1>2, <1>3, <1>4

\* A number written as a multiple of M plus a remainder has that remainder.
LEMMA Remainder ==
  ASSUME NEW M \in Nat \ {0}, NEW x \in Int, NEW q \in Int, NEW r \in 0 .. M - 1,
         x = M * q + r
  PROVE  x % M = r
<1> DEFINE qx == x \div M
           rem == x % M
<1>1. rem \in 0 .. M - 1 /\ qx \in Int /\ x = M * qx + rem
  BY DivMod
<1> HIDE DEF qx, rem
<1>2. Splits(M, x, qx, rem) /\ Splits(M, x, q, r)
  BY <1>1 DEF Splits
<1>3. rem = r
  BY <1>2, UniqueRemainder, Zenon
<1>4. QED
  BY <1>3 DEF rem

\* Two counts less than M apart that share a wire number are equal.
LEMMA SameWire ==
  ASSUME NEW M \in Nat \ {0}, NEW a \in Nat, NEW b \in Nat,
         a - b < M, b - a < M, a % M = b % M
  PROVE  a = b
<1> DEFINE qa == a \div M
           qb == b \div M
           r  == a % M
<1>1. qa \in Int /\ r \in 0 .. M - 1 /\ a = M * qa + r
  BY DivMod
<1>2. qb \in Int /\ b = M * qb + r
  BY DivMod
<1> HIDE DEF qa, qb, r
<1>3. CASE qa >= qb + 1
  <2>1. M * qa >= M * (qb + 1)
    BY <1>1, <1>2, <1>3
  <2>2. M * (qb + 1) = M * qb + M
    BY <1>2
  <2>3. QED
    BY <2>1, <2>2, <1>1, <1>2
<1>4. CASE qb >= qa + 1
  <2>1. M * qb >= M * (qa + 1)
    BY <1>1, <1>2, <1>4
  <2>2. M * (qa + 1) = M * qa + M
    BY <1>1
  <2>3. QED
    BY <2>1, <2>2, <1>1, <1>2
<1>5. CASE qa = qb
  BY <1>5, <1>1, <1>2
<1>6. QED
  BY <1>1, <1>2, <1>3, <1>4, <1>5

\* The difference of two wire numbers, as uint16 arithmetic computes it, is the
\* difference of the counts when a is at most M - 1 ahead of b, ...
LEMMA DiffAhead ==
  ASSUME NEW M \in Nat \ {0}, NEW a \in Nat, NEW b \in Nat, b <= a, a - b < M
  PROVE  ((a % M) - (b % M)) % M = a - b
<1> DEFINE qa == a \div M
           qb == b \div M
           ra == a % M
           rb == b % M
<1>1. qa \in Int /\ ra \in 0 .. M - 1 /\ a = M * qa + ra
  BY DivMod
<1>2. qb \in Int /\ rb \in 0 .. M - 1 /\ b = M * qb + rb
  BY DivMod
<1> HIDE DEF qa, qb, ra, rb
<1>3. ra - rb = M * (qb - qa) + (a - b)
  <2>1. M * (qb - qa) = M * qb - M * qa
    BY <1>1, <1>2
  <2>2. QED
    BY <2>1, <1>1, <1>2
<1>4. ra - rb \in Int /\ qb - qa \in Int /\ a - b \in 0 .. M - 1
  BY <1>1, <1>2
<1>5. (ra - rb) % M = a - b
  BY ONLY M \in Nat \ {0}, <1>3, <1>4, Remainder
<1>6. QED
  BY <1>5 DEF ra, rb

\* ... and M less what a is behind b otherwise.
LEMMA DiffBehind ==
  ASSUME NEW M \in Nat \ {0}, NEW a \in Nat, NEW b \in Nat, a < b, b - a <= M
  PROVE  ((a % M) - (b % M)) % M = M - (b - a)
<1> DEFINE qa == a \div M
           qb == b \div M
           ra == a % M
           rb == b % M
<1>1. qa \in Int /\ ra \in 0 .. M - 1 /\ a = M * qa + ra
  BY DivMod
<1>2. qb \in Int /\ rb \in 0 .. M - 1 /\ b = M * qb + rb
  BY DivMod
<1> HIDE DEF qa, qb, ra, rb
<1>3. ra - rb = M * (qb - qa - 1) + (M - (b - a))
  <2>1. M * (qb - qa - 1) = M * qb - M * qa - M
    BY <1>1, <1>2
  <2>2. QED
    BY <2>1, <1>1, <1>2
<1>4. (ra - rb) % M = M - (b - a)
  BY <1>1, <1>2, <1>3, Remainder
<1>5. QED
  BY <1>4 DEF ra, rb

\* Advancing a wire number is advancing the count.
LEMMA Advance ==
  ASSUME NEW M \in Nat \ {0}, NEW a \in Nat, NEW i \in Nat
  PROVE  ((a % M) + i) % M = (a + i) % M
<1> DEFINE qa == a \div M
           ra == a % M
           q  == (ra + i) \div M
           r  == (ra + i) % M
<1>1. qa \in Int /\ ra \in 0 .. M - 1 /\ a = M * qa + ra
  BY DivMod
<1>2. ra + i \in Int
  BY <1>1
<1>3. q \in Int /\ r \in 0 .. M - 1 /\ ra + i = M * q + r
  BY <1>2, DivMod
<1> HIDE DEF qa, ra, q, r
<1>4. a + i = M * (qa + q) + r
  <2>1. M * (qa + q) = M * qa + M * q
    BY <1>1, <1>3
  <2>2. QED
    BY <2>1, <1>1, <1>3
<1>5. a + i \in Int /\ qa + q \in Int
  BY <1>1, <1>3
<1>6. (a + i) % M = r
  BY ONLY M \in Nat \ {0}, <1>3, <1>4, <1>5, Remainder
<1>7. QED
  BY <1>6 DEF ra, r

-----------------------------------------------------------------------------
(* The inductive invariant.                                                  *)

\* A packet carries the wire number of its chunk, and is not too old.
Numbered(p) ==
  /\ p.dat \in 0 .. read - 1
  /\ read - p.dat <= Half
  /\ p.sn = p.dat % SeqSpace

FlightNumbered == \A p \in Flight : Numbered(p)

SndBufNumbered ==
  \A s \in DOMAIN sndBuf :
    /\ sndBuf[s].dat \in 0 .. read - 1
    /\ read - sndBuf[s].dat <= Half
    /\ s = sndBuf[s].dat % SeqSpace

RcvBufNumbered ==
  \A s \in DOMAIN rcvBuf :
    /\ rcvBuf[s] \in taken .. taken + RcvWindow
    /\ rcvBuf[s] < read
    /\ s = rcvBuf[s] % SeqSpace

\* What is acknowledged, or about to be, has been received.
AcksTrue == \A a \in ackNet \cup rx : Received(a.dat)

WindowKept == Cardinality(DOMAIN sndBuf) <= Limit

\* The writer's two stages hold the first `taken' chunks in order.
WrittenInOrder ==
  /\ taken <= read
  /\ Len(delivered) + Len(writing) = taken
  /\ \A i \in 1 .. Len(delivered) : delivered[i] = i - 1
  /\ \A i \in 1 .. Len(writing) : writing[i] = Len(delivered) + i - 1

\* What ioLoop is about to push is a chunk it has read.
PushPending == ioPc = "push" => read > 0

IInv ==
  /\ TypeOK
  /\ FlightNumbered
  /\ SndBufNumbered
  /\ RcvBufNumbered
  /\ AcksTrue
  /\ NothingLost
  /\ WindowKept
  /\ SpanWithinHalf
  /\ WrittenInOrder
  /\ PushPending

-----------------------------------------------------------------------------
(* Facts about the constants and the sequence numbers.                       *)

\* What the assumptions say, without the multiplication in SeqSpace.
LEMMA Constants ==
  /\ SeqSpace \in Nat \ {0} /\ SeqSpace = Half + Half
  /\ Half \in Nat /\ Limit \in Nat \ {0} /\ RcvWindow \in Nat \ {0}
  /\ RcvWindow + Limit < Half
  /\ MaxRetries \in Nat \ {0} /\ First \in Nat
  BY WindowAssumption, BoundAssumption DEF SeqSpace

\* A chunk's wire number is one.
LEMMA WireNumber == \A d \in Nat : d % SeqSpace \in Wire
  BY Constants, DivMod DEF Wire

\* The wire numbers are finitely many, and so is every buffer they index.
LEMMA BuffersFinite ==
  ASSUME NEW S \in SUBSET Wire
  PROVE  IsFiniteSet(S) /\ Cardinality(S) \in Nat
<1>1. IsFiniteSet(Wire)
  BY Constants, FS_Interval DEF Wire
<1>2. IsFiniteSet(S)
  BY <1>1, FS_Subset
<1>3. QED
  BY <1>2, FS_CardinalityType

\* The half-space test of processReceivedData tells the chunks the writer has
\* passed from those it has not, and the distance is exact.
LEMMA DiffOf ==
  ASSUME IInv, NEW d \in 0 .. read - 1, read - d <= Half
  PROVE  /\ d < taken => Diff(d % SeqSpace) >= Half
         /\ d >= taken => Diff(d % SeqSpace) = d - taken /\ d - taken < Half
<1> DEFINE M == SeqSpace
<1>0. /\ M \in Nat \ {0} /\ M = Half + Half /\ Half \in Nat
      /\ Limit \in Nat /\ RcvWindow \in Nat /\ RcvWindow + Limit < Half
  BY Constants
<1>1. /\ taken \in Nat /\ read \in Nat /\ taken <= read
      /\ read - taken <= RcvWindow + Limit + 1 /\ d \in Nat
  BY DEF IInv, TypeOK, WrittenInOrder, SpanWithinHalf
<1>2. Diff(d % M) = ((d % M) - (taken % M)) % M
  BY DEF Diff, rcvNxt
<1> HIDE DEF M
<1>3. ASSUME d < taken PROVE Diff(d % M) >= Half
  <2>1. ((d % M) - (taken % M)) % M = M - (taken - d)
    <3>1. /\ M \in Nat \ {0} /\ d \in Nat /\ taken \in Nat
          /\ d < taken /\ taken - d <= M
      BY <1>0, <1>1, <1>3
    <3>2. QED
      BY ONLY <3>1, DiffBehind
  <2>2. QED
    BY <1>0, <1>1, <1>2, <1>3, <2>1
<1>4. ASSUME d >= taken PROVE Diff(d % M) = d - taken /\ d - taken < Half
  <2>1. d - taken < Half
    BY <1>0, <1>1, <1>4
  <2>2. ((d % M) - (taken % M)) % M = d - taken
    <3>1. /\ M \in Nat \ {0} /\ d \in Nat /\ taken \in Nat
          /\ taken <= d /\ d - taken < M
      BY <1>0, <1>1, <1>4, <2>1
    <3>2. QED
      BY ONLY <3>1, DiffAhead
  <2>3. QED
    BY <1>2, <2>1, <2>2
<1>5. QED
  BY <1>3, <1>4 DEF M

\* Two chunks less than a sequence space apart have different wire numbers.
LEMMA WireInjective ==
  ASSUME NEW a \in Nat, NEW b \in Nat, a - b < SeqSpace, b - a < SeqSpace,
         a % SeqSpace = b % SeqSpace
  PROVE  a = b
  BY Constants, SameWire

-----------------------------------------------------------------------------
(* Initially and in every step.                                              *)

\* The inductive invariant holds initially.
LEMMA InitIInv == Init => IInv
<1> SUFFICES ASSUME Init PROVE IInv
  OBVIOUS
<1>1. TypeOK
  <2>1. DOMAIN << >> = {}
    OBVIOUS
  <2>2. << >> \in [{} -> Item] /\ << >> \in [{} -> Nat]
    OBVIOUS
  <2>3. /\ DOMAIN sndBuf \subseteq Wire /\ sndBuf \in [DOMAIN sndBuf -> Item]
        /\ DOMAIN rcvBuf \subseteq Wire /\ rcvBuf \in [DOMAIN rcvBuf -> Nat]
    BY <2>1, <2>2, Zenon DEF Init
  <2>4. writing \in Seq(Nat) /\ delivered \in Seq(Nat)
    BY Constants DEF Init
  <2>5. QED
    BY <2>3, <2>4, Constants DEF Init, TypeOK
<1>2. WindowKept
  BY FS_EmptySet, Constants DEF Init, WindowKept
<1>3. FlightNumbered /\ SndBufNumbered /\ RcvBufNumbered /\ AcksTrue
  BY DEF Init, FlightNumbered, Flight, SndBufNumbered, RcvBufNumbered, AcksTrue
<1>4. NothingLost /\ SpanWithinHalf /\ PushPending
  BY Constants DEF Init, NothingLost, Received, SpanWithinHalf, PushPending
<1>6. WrittenInOrder
  <2>1. Len(delivered) = First /\ \A i \in 1 .. First : delivered[i] = i - 1
    BY Constants DEF Init
  <2>2. Len(writing) = 0
    BY DEF Init
  <2>3. QED
    BY <2>1, <2>2, Constants DEF Init, WrittenInOrder
<1>5. QED
  BY <1>1, <1>2, <1>3, <1>4, <1>6 DEF IInv

\* A step that leaves the two counts, the receiver and the chunks held in the
\* send buffer alone, and puts only properly numbered packets under way.
LEMMA MovesOnly ==
  ASSUME IInv, TypeOK',
         UNCHANGED <<read, rstSent, rcvBuf, taken, writing, delivered>>,
         DOMAIN sndBuf' = DOMAIN sndBuf,
         \A s \in DOMAIN sndBuf : sndBuf'[s].dat = sndBuf[s].dat,
         \A p \in Flight' : Numbered(p),
         \A a \in ackNet' \cup rx' : Received(a.dat),
         ioPc' = "push" => ioPc = "push"
  PROVE  IInv'
<1>1. FlightNumbered'
  BY DEF FlightNumbered, Numbered
<1>2. SndBufNumbered'
  BY DEF IInv, SndBufNumbered
<1>3. RcvBufNumbered' /\ SpanWithinHalf' /\ WrittenInOrder' /\ PushPending'
  BY DEF IInv, RcvBufNumbered, SpanWithinHalf, WrittenInOrder, PushPending
<1>4. AcksTrue'
  BY DEF AcksTrue, Received
<1>5. Chunks(sndBuf)' = Chunks(sndBuf)
  BY DEF Chunks
<1>6. NothingLost'
  BY <1>5 DEF IInv, NothingLost, Received
<1>7. WindowKept'
  BY DEF IInv, WindowKept
<1>8. QED
  BY <1>1, <1>2, <1>3, <1>4, <1>6, <1>7 DEF IInv

\* Marking an item changes neither its chunk nor its place.
LEMMA MarkKeepsChunks ==
  ASSUME IInv, NEW sn, \/ sndBuf' = Dispatched(sn)
                       \/ sndBuf' = Requeued(sn)
                       \/ UNCHANGED sndBuf
  PROVE  /\ DOMAIN sndBuf' = DOMAIN sndBuf /\ DOMAIN sndBuf' \subseteq Wire
         /\ \A s \in DOMAIN sndBuf : sndBuf'[s].dat = sndBuf[s].dat
         /\ sndBuf' \in [DOMAIN sndBuf' -> Item]
<1>1. DOMAIN sndBuf \subseteq Wire /\ sndBuf \in [DOMAIN sndBuf -> Item]
  BY DEF IInv, TypeOK
<1>2. MaxRetries \in Nat
  BY Constants
<1>3. CASE UNCHANGED sndBuf \/ sn \notin DOMAIN sndBuf
  BY <1>1, <1>3 DEF Dispatched, Requeued
<1>4. ASSUME sn \in DOMAIN sndBuf,
             NEW b \in BOOLEAN, NEW r \in 0 .. MaxRetries,
             sndBuf' = With(sndBuf, sn, [dat |-> sndBuf[sn].dat,
                                         dispatched |-> b, retries |-> r])
      PROVE  /\ DOMAIN sndBuf' = DOMAIN sndBuf
             /\ \A s \in DOMAIN sndBuf : sndBuf'[s].dat = sndBuf[s].dat
             /\ sndBuf' \in [DOMAIN sndBuf' -> Item]
  BY <1>1, <1>4 DEF With, Item
<1>5. CASE sn \in DOMAIN sndBuf /\ ~ UNCHANGED sndBuf
  <2>1. sndBuf[sn].retries \in 0 .. MaxRetries
    BY <1>1, <1>5 DEF Item
  <2>2. CASE sndBuf' = Dispatched(sn)
    <3>1. sndBuf' = With(sndBuf, sn, [dat |-> sndBuf[sn].dat, dispatched |-> TRUE,
                                      retries |-> sndBuf[sn].retries])
      BY <1>5, <2>2 DEF Dispatched
    <3>2. QED
      BY <1>1, <1>4, <1>5, <2>1, <3>1
  <2>3. CASE sndBuf' = Requeued(sn)
    <3> DEFINE r == IF sndBuf[sn].retries < MaxRetries
                    THEN sndBuf[sn].retries + 1 ELSE MaxRetries
    <3>1. sndBuf' = With(sndBuf, sn, [dat |-> sndBuf[sn].dat, dispatched |-> FALSE,
                                      retries |-> r])
      BY <1>5, <2>3 DEF Requeued
    <3>2. r \in 0 .. MaxRetries
      BY <1>2, <2>1
    <3> HIDE DEF r
    <3>3. QED
      BY <1>1, <1>4, <1>5, <3>1, <3>2
  <2>4. QED
    BY <1>5, <2>2, <2>3
<1>6. QED
  BY <1>3, <1>5

\* Pushing the chunk just read, or marking it when a copy is queued, keeps IInv.
LEMMA IoLoopPushStep == ASSUME IInv, IoLoopPush PROVE IInv'
<1> DEFINE d == read - 1
           p == Pkt(d)
<1>1. /\ d \in Nat /\ d \in 0 .. read - 1 /\ read - d <= Half
      /\ p.sn = d % SeqSpace /\ p.dat = d /\ p.sn \in Wire
  <2>1. d \in Nat /\ read \in Nat
    BY DEF IInv, TypeOK, IoLoopPush, PushPending
  <2>2. QED
    BY <2>1, WireNumber, Constants DEF Pkt
<1>2. /\ UNCHANGED <<read, rstSent, jobVars, netVars, rcvVars>>
      /\ ioPc' = "read"
      /\ \/ PushTXPacket("DATA", p) /\ UNCHANGED sndBuf
         \/ sndBuf' = Dispatched(p.sn) /\ UNCHANGED txQ
  BY DEF IoLoopPush
<1> HIDE DEF d, p
<1>3. \A q \in txQ' : q \in txQ \/ (q = [typ |-> "DATA", sn |-> p.sn, dat |-> p.dat])
  BY <1>2 DEF PushTXPacket
<1>4. /\ DOMAIN sndBuf' = DOMAIN sndBuf /\ DOMAIN sndBuf' \subseteq Wire
      /\ \A s \in DOMAIN sndBuf : sndBuf'[s].dat = sndBuf[s].dat
      /\ sndBuf' \in [DOMAIN sndBuf' -> Item]
  BY <1>2, MarkKeepsChunks
<1>5. TypeOK'
  <2>1. txQ' \subseteq QueuedPacket
    BY <1>1, <1>3 DEF IInv, TypeOK, QueuedPacket
  <2>2. QED
    BY <1>2, <1>4, <2>1 DEF IInv, TypeOK, jobVars, netVars, rcvVars
<1>6. \A q \in Flight' : Numbered(q)
  BY <1>1, <1>2, <1>3 DEF IInv, FlightNumbered, Flight, Numbered, jobVars, netVars, rcvVars
<1>7. QED
  BY <1>2, <1>4, <1>5, <1>6, MovesOnly DEF jobVars, netVars, rcvVars, IInv, AcksTrue

\* Whatever the receiver asks for is a wire number.
LEMMA NacksAreWire ==
  ASSUME taken \in Nat, NEW S, S \subseteq Nat
  PROVE  WireOf(S) \subseteq Wire
<1>1. rcvNxt \in Nat
  BY WireNumber DEF rcvNxt, Wire
<1>2. QED
  BY <1>1, WireNumber DEF WireOf

\* Taking a packet out of the TX queue keeps IInv.
LEMMA PopStep == ASSUME IInv, NEW sn, PopNextTXPacket(sn) PROVE IInv'
<1>1. PICK p \in txQ : txQ' = txQ \ {p} /\ hand' = hand \cup {p}
  BY DEF PopNextTXPacket
<1>2. UNCHANGED <<sndVars, ioPc, rtxJobs, rtxMark, netVars, rcvVars>>
  BY DEF PopNextTXPacket
<1>3. TypeOK'
  BY <1>1, <1>2 DEF IInv, TypeOK, sndVars, netVars, rcvVars
<1>4. \A q \in Flight' : Numbered(q)
  BY <1>1, <1>2 DEF IInv, FlightNumbered, Flight, Numbered, netVars, rcvVars
<1>5. QED
  BY <1>2, <1>3, <1>4, MovesOnly DEF IInv, AcksTrue, sndVars, netVars, rcvVars

\* Noting and sending a dequeued packet keeps IInv.
LEMMA NoteDequeuedStep == ASSUME IInv, NoteTXPacketDequeued PROVE IInv'
<1>1. PICK p \in hand :
        /\ hand' = hand \ {p}
        /\ \/ sndBuf' = Dispatched(p.sn) /\ dataNet' = dataNet \cup {[sn |-> p.sn, dat |-> p.dat]}
           \/ UNCHANGED <<sndBuf, dataNet>>
  BY DEF NoteTXPacketDequeued
<1>2. UNCHANGED <<read, rstSent, ioPc, txQ, rtxJobs, rtxMark, ackNet, nackNet, rcvVars>>
  BY DEF NoteTXPacketDequeued
<1>3. /\ DOMAIN sndBuf' = DOMAIN sndBuf /\ DOMAIN sndBuf' \subseteq Wire
      /\ \A s \in DOMAIN sndBuf : sndBuf'[s].dat = sndBuf[s].dat
      /\ sndBuf' \in [DOMAIN sndBuf' -> Item]
  BY <1>1, MarkKeepsChunks
<1>4. \A q \in dataNet' : q \in dataNet \/ q = [sn |-> p.sn, dat |-> p.dat]
  BY <1>1
<1>5. TypeOK'
  <2>1. dataNet' \subseteq Packet /\ hand' \subseteq QueuedPacket
    BY <1>1, <1>4 DEF IInv, TypeOK, Packet, QueuedPacket
  <2>2. QED
    BY <1>2, <1>3, <2>1 DEF IInv, TypeOK, rcvVars
<1>6. \A q \in Flight' : Numbered(q)
  <2>1. Numbered(p)
    BY DEF IInv, FlightNumbered, Flight
  <2>2. QED
    BY <1>1, <1>2, <1>4, <2>1 DEF IInv, FlightNumbered, Flight, Numbered, rcvVars
<1>7. QED
  BY <1>2, <1>3, <1>5, <1>6, MovesOnly DEF IInv, AcksTrue, rcvVars

\* Collecting the expired items keeps IInv.
LEMMA ScanStep == ASSUME IInv, NEW S, CheckRetransmitsScan(S) PROVE IInv'
<1>1. /\ S \subseteq DOMAIN sndBuf
      /\ UNCHANGED <<sndVars, ioPc, txQ, hand, rtxMark, netVars, rcvVars>>
  BY DEF CheckRetransmitsScan
<1>2. \A j \in rtxJobs' : /\ j \in QueuedPacket
                         /\ j.sn \in DOMAIN sndBuf /\ j.dat = sndBuf[j.sn].dat
  BY <1>1 DEF CheckRetransmitsScan, IInv, TypeOK, QueuedPacket, Item
<1>3. TypeOK'
  BY <1>1, <1>2 DEF IInv, TypeOK, sndVars, netVars, rcvVars
<1>4. \A q \in Flight' : Numbered(q)
  <2>1. \A j \in rtxJobs' : Numbered(j)
    BY <1>2 DEF IInv, SndBufNumbered, Numbered
  <2>2. QED
    BY <1>1, <2>1 DEF IInv, FlightNumbered, Flight, netVars, rcvVars
<1>5. QED
  BY <1>1, <1>3, <1>4, MovesOnly DEF IInv, AcksTrue, sndVars, netVars, rcvVars

\* Pushing a retransmission keeps IInv.
LEMMA PushStep == ASSUME IInv, CheckRetransmitsPush PROVE IInv'
<1>1. PICK j \in rtxJobs :
        /\ rtxJobs' = rtxJobs \ {j}
        /\ \/ PushTXPacket(j.typ, j) /\ rtxMark' = {j}
           \/ UNCHANGED <<txQ, rtxMark>>
  BY DEF CheckRetransmitsPush
<1>2. UNCHANGED <<sndVars, ioPc, hand, netVars, rcvVars>>
  BY DEF CheckRetransmitsPush
<1>3. /\ \A q \in txQ' : q \in txQ \/ q = [typ |-> j.typ, sn |-> j.sn, dat |-> j.dat]
      /\ \A q \in rtxMark' : q \in rtxMark \/ q = j
  BY <1>1 DEF PushTXPacket
<1>4. TypeOK'
  <2>1. j \in QueuedPacket /\ [typ |-> j.typ, sn |-> j.sn, dat |-> j.dat] \in QueuedPacket
    BY DEF IInv, TypeOK, QueuedPacket
  <2>2. txQ' \subseteq QueuedPacket /\ rtxMark' \subseteq QueuedPacket
    BY <1>3, <2>1 DEF IInv, TypeOK
  <2>3. QED
    BY <1>1, <1>2, <2>2 DEF IInv, TypeOK, sndVars, netVars, rcvVars
<1>5. \A q \in Flight' : Numbered(q)
  <2>1. Numbered(j)
    BY DEF IInv, FlightNumbered, Flight
  <2>2. \A q \in txQ' \cup rtxMark' : Numbered(q)
    BY <1>3, <2>1 DEF IInv, FlightNumbered, Flight, Numbered
  <2>3. QED
    BY <1>1, <1>2, <2>2 DEF IInv, FlightNumbered, Flight, netVars, rcvVars
<1>6. QED
  BY <1>2, <1>4, <1>5, MovesOnly DEF IInv, AcksTrue, sndVars, netVars, rcvVars

\* Restarting the timer of a retransmitted item keeps IInv.
LEMMA MarkStep == ASSUME IInv, CheckRetransmitsMark PROVE IInv'
<1>1. PICK j \in rtxMark : rtxMark' = {} /\ sndBuf' = Requeued(j.sn)
  BY DEF CheckRetransmitsMark
<1>2. UNCHANGED <<read, rstSent, ioPc, txQ, hand, rtxJobs, netVars, rcvVars>>
  BY DEF CheckRetransmitsMark
<1>3. /\ DOMAIN sndBuf' = DOMAIN sndBuf /\ DOMAIN sndBuf' \subseteq Wire
      /\ \A s \in DOMAIN sndBuf : sndBuf'[s].dat = sndBuf[s].dat
      /\ sndBuf' \in [DOMAIN sndBuf' -> Item]
  BY <1>1, MarkKeepsChunks
<1>4. TypeOK'
  BY <1>1, <1>2, <1>3 DEF IInv, TypeOK, netVars, rcvVars
<1>5. \A q \in Flight' : Numbered(q)
  BY <1>1, <1>2 DEF IInv, FlightNumbered, Flight, netVars, rcvVars
<1>6. QED
  BY <1>2, <1>3, <1>4, <1>5, MovesOnly DEF IInv, AcksTrue, netVars, rcvVars

\* Answering a NACK keeps IInv.
LEMMA NackStep == ASSUME IInv, NEW sn, HandleDataNack(sn) PROVE IInv'
<1> DEFINE j == [typ |-> "RESEND", sn |-> sn, dat |-> sndBuf[sn].dat]
<1>1. /\ sn \in DOMAIN sndBuf
      /\ nackNet' = nackNet \ {sn}
      /\ UNCHANGED <<sndVars, ioPc, jobVars, dataNet, ackNet, rcvVars>>
  BY DEF HandleDataNack
<1>2. \A q \in txQ' : q \in txQ \/ q = j
  BY DEF HandleDataNack, PushTXPacket
<1>3. j \in QueuedPacket /\ Numbered(j)
  BY <1>1 DEF IInv, TypeOK, SndBufNumbered, QueuedPacket, Item, Numbered
<1> HIDE DEF j
<1>4. TypeOK'
  BY <1>1, <1>2, <1>3 DEF IInv, TypeOK, sndVars, jobVars, rcvVars
<1>5. \A q \in Flight' : Numbered(q)
  BY <1>1, <1>2, <1>3 DEF IInv, FlightNumbered, Flight, jobVars, rcvVars
<1>6. QED
  BY <1>1, <1>4, <1>5, MovesOnly DEF IInv, AcksTrue, sndVars, jobVars, rcvVars

\* Losing a packet keeps IInv.
LEMMA NetworkStep == ASSUME IInv, Network PROVE IInv'
<1>1. /\ dataNet' \subseteq dataNet /\ ackNet' \subseteq ackNet /\ nackNet' \subseteq nackNet
      /\ UNCHANGED <<sndVars, ioPc, txQ, jobVars, rcvVars>>
  BY DEF Network, LoseData, LoseAck, LoseNack
<1>2. TypeOK'
  BY <1>1 DEF IInv, TypeOK, sndVars, jobVars, rcvVars
<1>3. \A q \in Flight' : Numbered(q)
  BY <1>1 DEF IInv, FlightNumbered, Flight, jobVars, rcvVars
<1>4. QED
  BY <1>1, <1>2, <1>3, MovesOnly DEF IInv, AcksTrue, sndVars, jobVars, rcvVars

\* The gap watchdog keeps IInv.
LEMMA WatchdogStep == ASSUME IInv, NEW S, RunGapRecoveryWatchdog(S) PROVE IInv'
<1>1. /\ nackNet' = nackNet \cup S /\ S \subseteq WireOf(Missing(NackMaxGap))
      /\ UNCHANGED <<sndVars, ioPc, txQ, jobVars, dataNet, ackNet, rcvVars>>
  BY DEF RunGapRecoveryWatchdog, Watched, PushNacks
<1>2. S \subseteq Wire
  <2>1. Missing(NackMaxGap) \subseteq Nat
    BY BoundAssumption DEF Missing
  <2>2. QED
    BY <1>1, <2>1, NacksAreWire DEF IInv, TypeOK
<1>3. TypeOK'
  BY <1>1, <1>2 DEF IInv, TypeOK, sndVars, jobVars, rcvVars
<1>4. \A q \in Flight' : Numbered(q)
  BY <1>1 DEF IInv, FlightNumbered, Flight, jobVars, rcvVars
<1>5. QED
  BY <1>1, <1>3, <1>4, MovesOnly DEF IInv, AcksTrue, sndVars, jobVars, rcvVars

\* Time, and the traffic of the other direction, keep IInv.
LEMMA ActivityStep ==
  ASSUME IInv, ReverseTraffic \/ ReversePauses \/ IntervalPasses PROVE IInv'
<1>1. /\ activity' \in {"recent", "none", "steady"}
      /\ UNCHANGED <<sndVars, ioPc, txQ, jobVars, netVars, rx, rcvBuf, taken, writing, delivered>>
  BY DEF ReverseTraffic, ReversePauses, IntervalPasses
<1>2. TypeOK'
  BY <1>1 DEF IInv, TypeOK, sndVars, jobVars, netVars
<1>3. \A q \in Flight' : Numbered(q)
  BY <1>1 DEF IInv, FlightNumbered, Flight, jobVars, netVars
<1>4. QED
  BY <1>1, <1>2, <1>3, MovesOnly DEF IInv, AcksTrue, sndVars, jobVars, netVars

\* Acknowledging a packet, and asking for what is missing, keeps IInv.
LEMMA AnswerStep == ASSUME IInv, AnswerReceivedData PROVE IInv'
<1>1. PICK r \in rx :
        /\ ackNet' = ackNet \cup {[sn |-> r.sn, dat |-> r.dat]}
        /\ rx' = {}
        /\ \E S \in SUBSET WireOf(NackCandidates(r.sn)) :
             IF r.step = "reack" THEN UNCHANGED nackNet ELSE PushNacks(S)
  BY DEF AnswerReceivedData
<1>2. UNCHANGED <<sndVars, ioPc, txQ, jobVars, dataNet, rcvBuf, taken, writing, delivered,
                  activity>>
  BY DEF AnswerReceivedData
<1>3. nackNet' \subseteq Wire
  <2>1. \A n : Missing(n) \subseteq Nat
    BY DEF Missing
  <2>2. NackCandidates(r.sn) \subseteq Nat
    BY <2>1 DEF NackCandidates
  <2>3. WireOf(NackCandidates(r.sn)) \subseteq Wire
    BY <2>2, NacksAreWire DEF IInv, TypeOK
  <2>4. QED
    BY <1>1, <2>3 DEF PushNacks, IInv, TypeOK
<1>4. \A a \in ackNet' : a \in ackNet \/ a = [sn |-> r.sn, dat |-> r.dat]
  BY <1>1
<1>5. TypeOK'
  <2>1. ackNet' \subseteq Packet
    BY <1>4 DEF IInv, TypeOK, Packet
  <2>2. QED
    BY <1>1, <1>2, <1>3, <2>1 DEF IInv, TypeOK, sndVars, jobVars
<1>6. \A q \in Flight' : Numbered(q)
  <2>1. Numbered(r)
    BY DEF IInv, FlightNumbered, Flight
  <2>2. \A q \in ackNet' : Numbered(q)
    BY <1>4, <2>1 DEF IInv, FlightNumbered, Flight, Numbered
  <2>3. QED
    BY <1>1, <1>2, <2>2 DEF IInv, FlightNumbered, Flight, jobVars
<1>7. \A a \in ackNet' \cup rx' : Received(a.dat)
  BY <1>1, <1>4 DEF IInv, AcksTrue
<1>8. QED
  BY <1>2, <1>5, <1>6, <1>7, MovesOnly DEF sndVars, jobVars

\* An acknowledgement removes the chunk it is about and no other: the two share
\* a wire number and lie within half a sequence space of the newest chunk.
LEMMA ReceiveAckStep == ASSUME IInv, NEW sn, ReceiveAck(sn) PROVE IInv'
<1>1. PICK a \in ackNet :
        /\ sndBuf' = Without(sndBuf, a.sn)
        /\ txQ' \subseteq txQ
  BY DEF ReceiveAck, RemoveQueuedData
<1>2. UNCHANGED <<read, rstSent, ioPc, jobVars, netVars, rcvVars>>
  BY DEF ReceiveAck
<1>3. /\ DOMAIN sndBuf' = DOMAIN sndBuf \ {a.sn}
      /\ \A s \in DOMAIN sndBuf' : sndBuf'[s] = sndBuf[s]
      /\ sndBuf' \in [DOMAIN sndBuf' -> Item]
  BY <1>1 DEF Without, IInv, TypeOK
<1>4. Numbered(a) /\ Received(a.dat)
  BY DEF IInv, FlightNumbered, Flight, AcksTrue
<1>5. TypeOK'
  BY <1>1, <1>2, <1>3 DEF IInv, TypeOK, jobVars, netVars, rcvVars
<1>6. FlightNumbered'
  BY <1>1, <1>2 DEF IInv, FlightNumbered, Flight, Numbered, jobVars, netVars, rcvVars
<1>7. SndBufNumbered'
  BY <1>2, <1>3 DEF IInv, SndBufNumbered
<1>8. NothingLost'
  <2> SUFFICES ASSUME ~ rstSent, NEW d \in 0 .. read - 1
               PROVE  d \in Chunks(sndBuf') \/ Received(d)
    BY <1>2 DEF NothingLost, Received, Chunks, rcvVars
  <2>1. d \in Chunks(sndBuf) \/ Received(d)
    BY DEF IInv, NothingLost
  <2>2. ASSUME NEW s \in DOMAIN sndBuf, sndBuf[s].dat = d PROVE d \in Chunks(sndBuf') \/ Received(d)
    <3>1. CASE s # a.sn
      BY <1>3, <2>2, <3>1 DEF Chunks
    <3>2. CASE s = a.sn
      <4>1. /\ a.dat \in 0 .. read - 1 /\ read - a.dat <= Half
            /\ a.sn = a.dat % SeqSpace
        BY <1>4 DEF Numbered
      <4>2. read - d <= Half /\ s = d % SeqSpace
        BY <2>2 DEF IInv, SndBufNumbered
      <4>3. /\ a.dat \in Nat /\ d \in Nat
            /\ d - a.dat < SeqSpace /\ a.dat - d < SeqSpace
        <5>1. read \in Nat
          BY DEF IInv, TypeOK
        <5>2. QED
          BY <4>1, <4>2, <5>1, Constants
      <4>4. d % SeqSpace = a.dat % SeqSpace
        BY <3>2, <4>1, <4>2
      <4>5. d = a.dat
        BY ONLY <4>3, <4>4, WireInjective
      <4>6. QED
        BY <4>5, <1>4
    <3>3. QED
      BY <3>1, <3>2
  <2>3. QED
    BY <2>1, <2>2 DEF Chunks
<1>9. WindowKept'
  <2>1. IsFiniteSet(DOMAIN sndBuf) /\ Cardinality(DOMAIN sndBuf) \in Nat
    BY BuffersFinite DEF IInv, TypeOK
  <2>2. DOMAIN sndBuf' \in SUBSET DOMAIN sndBuf
    BY <1>3
  <2>3. Cardinality(DOMAIN sndBuf') <= Cardinality(DOMAIN sndBuf)
    BY <2>1, <2>2, FS_Subset
  <2>4. IsFiniteSet(DOMAIN sndBuf') /\ Cardinality(DOMAIN sndBuf') \in Nat
    BY <2>1, <2>2, FS_Subset, FS_CardinalityType
  <2>5. QED
    BY <2>1, <2>3, <2>4, Constants DEF IInv, WindowKept
<1>10. /\ RcvBufNumbered' /\ AcksTrue' /\ SpanWithinHalf' /\ WrittenInOrder' /\ PushPending'
  BY <1>2 DEF IInv, RcvBufNumbered, AcksTrue, Received, SpanWithinHalf, WrittenInOrder,
              PushPending, netVars, rcvVars
<1>11. QED
  BY <1>5, <1>6, <1>7, <1>8, <1>9, <1>10 DEF IInv

\* Resetting the stream keeps IInv.
LEMMA ResetStep == ASSUME IInv, MaxRetransmissionsExceeded PROVE IInv'
<1>1. /\ sndBuf' = << >> /\ rstSent'
      /\ UNCHANGED <<read, ioPc, txQ, jobVars, netVars, rcvVars>>
  BY DEF MaxRetransmissionsExceeded
<1>2. DOMAIN sndBuf' = {} /\ sndBuf' \in [{} -> Item]
  BY <1>1
<1>3. TypeOK'
  BY <1>1, <1>2 DEF IInv, TypeOK, MaxRetransmissionsExceeded, jobVars, netVars, rcvVars
<1>4. FlightNumbered'
  BY <1>1 DEF IInv, FlightNumbered, Flight, Numbered, jobVars, netVars, rcvVars
<1>5. WindowKept' /\ SndBufNumbered' /\ NothingLost'
  BY <1>1, <1>2, FS_EmptySet, Constants DEF WindowKept, SndBufNumbered, NothingLost
<1>6. /\ RcvBufNumbered' /\ AcksTrue' /\ SpanWithinHalf' /\ WrittenInOrder' /\ PushPending'
  BY <1>1 DEF IInv, RcvBufNumbered, AcksTrue, Received, SpanWithinHalf, WrittenInOrder,
              PushPending, netVars, rcvVars
<1>7. QED
  BY <1>3, <1>4, <1>5, <1>6 DEF IInv

\* The step that depends on the half-space test: what is re-acknowledged has been
\* taken, what is acknowledged is buffered, under its own number.
LEMMA ProcessStep == ASSUME IInv, NEW sn, ProcessReceivedData(sn) PROVE IInv'
<1>1. PICK p \in dataNet : Accept(p)
  BY DEF ProcessReceivedData
<1>2. /\ UNCHANGED <<sndVars, ioPc, txQ, jobVars, netVars, taken, writing, delivered>>
      /\ activity' = "recent"
  BY DEF ProcessReceivedData
<1> DEFINE d == p.dat
<1>3. /\ d \in Nat /\ d \in 0 .. read - 1 /\ read - d <= Half
      /\ p.sn = d % SeqSpace /\ p.sn \in Wire
      /\ read \in Nat /\ taken \in Nat
  BY DEF IInv, TypeOK, Packet, FlightNumbered, Flight, Numbered
<1>4. /\ d < taken => Diff(p.sn) >= Half
      /\ d >= taken => Diff(p.sn) = d - taken /\ d - taken < Half
  BY <1>3, DiffOf
<1> HIDE DEF d
<1>5. \A q \in rx' : q.sn = p.sn /\ q.dat = d /\ q.step \in {"reack", "answer"}
                    /\ q \in [step : {"reack", "answer"}, sn : Wire, dat : Nat]
  BY <1>1, <1>3 DEF Accept, d
<1>6. \/ rcvBuf' = rcvBuf
      \/ /\ p.sn \notin DOMAIN rcvBuf /\ rcvBuf' = With(rcvBuf, p.sn, d)
         /\ d >= taken /\ d <= taken + RcvWindow
  <2>1. \/ rcvBuf' = rcvBuf
        \/ /\ p.sn \notin DOMAIN rcvBuf /\ rcvBuf' = With(rcvBuf, p.sn, d)
           /\ ~ (Diff(p.sn) >= Half) /\ ~ (Diff(p.sn) > RcvWindow)
    BY <1>1 DEF Accept, d
  <2>2. QED
    BY <1>3, <1>4, <2>1, Constants
<1>7. /\ DOMAIN rcvBuf' \subseteq Wire /\ rcvBuf' \in [DOMAIN rcvBuf' -> Nat]
      /\ DOMAIN rcvBuf \subseteq DOMAIN rcvBuf'
      /\ \A s \in DOMAIN rcvBuf : rcvBuf'[s] = rcvBuf[s]
      /\ \A s \in DOMAIN rcvBuf' : s \in DOMAIN rcvBuf \/
           (s = p.sn /\ rcvBuf'[s] = d /\ d >= taken /\ d <= taken + RcvWindow)
  BY <1>3, <1>6 DEF With, IInv, TypeOK
<1>8. \A e : Received(e) => Received(e)'
  BY <1>2, <1>7 DEF Received
<1>9. TypeOK'
  BY <1>2, <1>5, <1>7 DEF IInv, TypeOK, sndVars, jobVars, netVars
<1>10. FlightNumbered'
  BY <1>2, <1>3, <1>5 DEF IInv, FlightNumbered, Flight, Numbered, sndVars, jobVars, netVars
<1>11. RcvBufNumbered'
  BY <1>2, <1>3, <1>7 DEF IInv, RcvBufNumbered, sndVars
<1>12. ASSUME rx' # {} PROVE Received(d)'
  <2>1. CASE d < taken
    BY <1>2, <2>1 DEF Received
  <2>2. CASE d >= taken /\ p.sn \in DOMAIN rcvBuf
    <3> DEFINE e == rcvBuf[p.sn]
    <3>1. e \in taken .. taken + RcvWindow /\ p.sn = e % SeqSpace
      BY <2>2 DEF IInv, RcvBufNumbered
    <3> HIDE DEF e
    <3>2. e \in Nat /\ d \in Nat /\ d - e < SeqSpace /\ e - d < SeqSpace
      BY <1>3, <1>4, <2>2, <3>1, Constants
    <3>3. d % SeqSpace = e % SeqSpace
      BY <1>3, <3>1
    <3>4. d = e
      BY ONLY <3>2, <3>3, WireInjective
    <3>5. QED
      BY <1>7, <2>2, <3>4 DEF Received, e
  <2>3. CASE d >= taken /\ p.sn \notin DOMAIN rcvBuf
    <3>1. ~ (Diff(p.sn) >= Half)
      BY <1>3, <1>4, <2>3, Constants
    <3>2. rcvBuf' = With(rcvBuf, p.sn, d)
      BY <1>1, <1>12, <2>3, <3>1 DEF Accept, d
    <3>3. QED
      BY <3>2 DEF With, Received
  <2>4. QED
    BY <1>3, <2>1, <2>2, <2>3
<1>13. AcksTrue'
  BY <1>2, <1>5, <1>8, <1>12 DEF IInv, AcksTrue, netVars
<1>14. NothingLost'
  BY <1>2, <1>8 DEF IInv, NothingLost, Chunks, sndVars
<1>15. /\ SndBufNumbered' /\ WindowKept' /\ SpanWithinHalf' /\ WrittenInOrder' /\ PushPending'
  BY <1>2 DEF IInv, SndBufNumbered, WindowKept, SpanWithinHalf, WrittenInOrder, PushPending, sndVars
<1>16. QED
  BY <1>9, <1>10, <1>11, <1>13, <1>14, <1>15 DEF IInv

\* The step that depends on the packet lifetime: the wire number of the new chunk
\* is free, and the chunks out of the receiver's reach are all in the send buffer,
\* so the limit on their number bounds the span.
LEMMA IoLoopReadStep == ASSUME IInv, IoLoopRead PROVE IInv'
<1> DEFINE item == [dat |-> read, dispatched |-> FALSE, retries |-> 0]
<1>1. /\ Cardinality(DOMAIN sndBuf) < Limit
      /\ NoStragglers
      /\ sndBuf' = With(sndBuf, sndNxt, item)
      /\ read' = read + 1
      /\ ioPc' = "push"
      /\ ~ rstSent
      /\ UNCHANGED <<rstSent, txQ, jobVars, netVars, rcvVars>>
  BY DEF IoLoopRead
<1>2. read \in Nat /\ taken \in Nat /\ sndNxt \in Wire /\ item \in Item /\ item.dat = read
  BY WireNumber, Constants DEF IInv, TypeOK, sndNxt, Item
<1> HIDE DEF item
<1>3. sndNxt \notin DOMAIN sndBuf
  <2>1. SUFFICES ASSUME sndNxt \in DOMAIN sndBuf PROVE FALSE
    OBVIOUS
  <2> DEFINE e == sndBuf[sndNxt].dat
  <2>2. e \in 0 .. read - 1 /\ read - e <= Half /\ read % SeqSpace = e % SeqSpace
    BY <2>1 DEF IInv, SndBufNumbered, sndNxt
  <2> HIDE DEF e
  <2>3. e \in Nat /\ read \in Nat /\ read - e < SeqSpace /\ e - read < SeqSpace
    BY <1>2, <2>2, Constants
  <2>4. read = e
    BY ONLY <2>2, <2>3, WireInjective
  <2>5. QED
    BY <1>2, <2>2, <2>4
<1>4. /\ DOMAIN sndBuf' = DOMAIN sndBuf \cup {sndNxt}
      /\ \A s \in DOMAIN sndBuf : sndBuf'[s] = sndBuf[s]
      /\ sndBuf'[sndNxt] = item
      /\ sndBuf' \in [DOMAIN sndBuf' -> Item]
      /\ DOMAIN sndBuf' \subseteq Wire
  BY <1>1, <1>2, <1>3 DEF With, IInv, TypeOK
<1>5. TypeOK'
  BY <1>1, <1>2, <1>4 DEF IInv, TypeOK, jobVars, netVars, rcvVars
<1>6. FlightNumbered'
  <2>1. \A p \in Flight : read - p.dat < Half
    BY <1>1 DEF NoStragglers
  <2>2. ASSUME NEW p \in Flight PROVE Numbered(p)'
    <3>1. p.dat \in 0 .. read - 1 /\ p.sn = p.dat % SeqSpace /\ read - p.dat < Half
      BY <2>1 DEF IInv, FlightNumbered, Numbered
    <3>2. QED
      BY <1>1, <1>2, <3>1, Constants DEF Numbered
  <2>3. Flight' = Flight
    BY <1>1 DEF Flight, jobVars, netVars, rcvVars
  <2>4. QED
    BY <2>2, <2>3 DEF FlightNumbered
<1>7. SndBufNumbered'
  <2>1. ASSUME NEW s \in DOMAIN sndBuf
        PROVE  /\ sndBuf'[s].dat \in 0 .. read
               /\ read + 1 - sndBuf'[s].dat <= Half /\ s = sndBuf'[s].dat % SeqSpace
    <3>1. read - sndBuf[s].dat < Half
      BY <1>1 DEF NoStragglers, Chunks
    <3>2. sndBuf[s].dat \in 0 .. read - 1 /\ s = sndBuf[s].dat % SeqSpace
      BY DEF IInv, SndBufNumbered
    <3>3. QED
      BY <1>2, <1>4, <3>1, <3>2, Constants
  <2>2. /\ sndBuf'[sndNxt].dat \in 0 .. read
        /\ read + 1 - sndBuf'[sndNxt].dat <= Half /\ sndNxt = sndBuf'[sndNxt].dat % SeqSpace
    BY <1>2, <1>4, Constants DEF sndNxt
  <2>3. read' = read + 1 /\ 0 .. read' - 1 = 0 .. read
    BY <1>1, <1>2
  <2>4. \A s \in DOMAIN sndBuf' :
          /\ sndBuf'[s].dat \in 0 .. read' - 1
          /\ read' - sndBuf'[s].dat <= Half /\ s = sndBuf'[s].dat % SeqSpace
    BY <1>2, <1>4, <2>1, <2>2, <2>3
  <2>5. QED
    BY <2>4 DEF SndBufNumbered
<1>8. NothingLost'
  <2>1. SUFFICES ASSUME NEW d \in 0 .. read PROVE d \in Chunks(sndBuf') \/ Received(d)
    BY <1>1, <1>2 DEF NothingLost, Received, Chunks, rcvVars
  <2>2. CASE d = read
    BY <1>2, <1>4, <2>2 DEF Chunks
  <2>3. CASE d \in 0 .. read - 1
    <3>1. d \in Chunks(sndBuf) \/ Received(d)
      BY <1>1, <2>3 DEF IInv, NothingLost
    <3>2. QED
      BY <1>4, <3>1 DEF Chunks
  <2>4. QED
    BY <1>2, <2>2, <2>3
<1>9. IsFiniteSet(DOMAIN sndBuf') /\ WindowKept'
  <2>1. IsFiniteSet(DOMAIN sndBuf) /\ Cardinality(DOMAIN sndBuf) \in Nat
    BY BuffersFinite DEF IInv, TypeOK
  <2>2. /\ IsFiniteSet(DOMAIN sndBuf \cup {sndNxt})
        /\ Cardinality(DOMAIN sndBuf \cup {sndNxt}) = Cardinality(DOMAIN sndBuf) + 1
    BY <1>3, <2>1, FS_AddElement
  <2>3. QED
    BY <1>1, <1>4, <2>1, <2>2, Constants DEF WindowKept
<1>10. SpanWithinHalf'
  <2> DEFINE lo == taken + RcvWindow + 1
             I  == lo .. read
             f  == [d \in I |-> d % SeqSpace]
  <2>1. /\ RcvWindow \in Nat /\ Limit \in Nat /\ Half \in Nat
        /\ RcvWindow + Limit < Half /\ SeqSpace \in Nat /\ SeqSpace = Half + Half
        /\ read - taken <= RcvWindow + Limit + 1
    BY Constants DEF IInv, SpanWithinHalf
  <2>2. ASSUME NEW d \in I PROVE d \in 0 .. read /\ ~ Received(d)'
    <3>1. d \in 0 .. read /\ d > taken + RcvWindow
      BY <1>2, <2>1, <2>2
    <3>2. ~ (d < taken) /\ d \notin taken .. taken + RcvWindow
      BY <1>2, <2>1, <3>1
    <3>3. QED
      BY <1>1, <3>1, <3>2 DEF Received, IInv, RcvBufNumbered, rcvVars
  <2>3. ASSUME NEW d \in I PROVE d % SeqSpace \in DOMAIN sndBuf'
    <3>1. 0 .. read = 0 .. read' - 1 /\ ~ rstSent'
      BY <1>1, <1>2
    <3>2. d \in Chunks(sndBuf')
      BY <1>8, <2>2, <3>1 DEF NothingLost, Chunks
    <3>3. QED
      BY <1>7, <3>2 DEF Chunks, SndBufNumbered
  <2>4. \A a, b \in I : f[a] = f[b] => a = b
    <3>1. SUFFICES ASSUME NEW a \in I, NEW b \in I, a % SeqSpace = b % SeqSpace PROVE a = b
      OBVIOUS
    <3>2. a \in Nat /\ b \in Nat /\ a - b < SeqSpace /\ b - a < SeqSpace
      BY <1>2, <2>1
    <3>3. QED
      BY ONLY <3>1, <3>2, WireInjective
  <2>5. f \in [I -> DOMAIN sndBuf']
    BY <2>3
  <2>6. f \in Injection(I, DOMAIN sndBuf')
    BY ONLY <2>4, <2>5 DEF Injection, IsInjective
  <2> HIDE DEF f
  <2>7. Cardinality(I) <= Cardinality(DOMAIN sndBuf')
    BY <1>9, <2>6, FS_Injection
  <2>8. lo \in Int /\ read \in Int
    BY <1>2, <2>1
  <2> HIDE DEF lo
  <2>9. Cardinality(I) = IF lo > read THEN 0 ELSE read - lo + 1
    BY ONLY <2>8, FS_Interval
  <2>10. Cardinality(DOMAIN sndBuf') \in Nat /\ Cardinality(DOMAIN sndBuf') <= Limit
    BY <1>9, FS_CardinalityType DEF WindowKept
  <2>11. read + 1 - taken <= RcvWindow + Limit + 1
    <3> HIDE DEF I
    <3>1. CASE lo > read
      BY <1>2, <2>1, <3>1 DEF lo
    <3>2. CASE ~ (lo > read)
      BY <1>2, <2>1, <2>7, <2>8, <2>9, <2>10, <3>2 DEF lo
    <3>3. QED
      BY <3>1, <3>2
  <2>12. read' = read + 1 /\ taken' = taken
    BY <1>1 DEF rcvVars
  <2>13. QED
    BY <1>2, <2>1, <2>11, <2>12 DEF SpanWithinHalf
<1>11. RcvBufNumbered' /\ AcksTrue' /\ WrittenInOrder' /\ PushPending'
  <2>1. WrittenInOrder'
    BY <1>1, <1>2 DEF IInv, WrittenInOrder, rcvVars
  <2>2. RcvBufNumbered'
    BY <1>1, <1>2 DEF IInv, TypeOK, RcvBufNumbered, rcvVars
  <2>3. AcksTrue' /\ PushPending'
    BY <1>1, <1>2 DEF IInv, AcksTrue, Received, PushPending, netVars, rcvVars
  <2>4. QED
    BY <2>1, <2>2, <2>3
<1>12. QED
  BY <1>5, <1>6, <1>7, <1>8, <1>9, <1>10, <1>11 DEF IInv

\* The writer takes the next chunks and no others: the wire numbers it walks over
\* belong to chunks within the receive window.
LEMMA TakeStep == ASSUME IInv, WriteLoopTake PROVE IInv'
<1>1. PICK n \in 1 .. RcvWindow + 1 :
        /\ writing = << >> /\ Missing(n) = {}
        /\ writing' = [i \in 1 .. n |-> rcvBuf[(rcvNxt + i - 1) % SeqSpace]]
        /\ rcvBuf' = [s \in DOMAIN rcvBuf \ WireOf(0 .. n - 1) |-> rcvBuf[s]]
        /\ taken' = taken + n
  BY DEF WriteLoopTake
<1>2. UNCHANGED <<sndVars, ioPc, txQ, jobVars, netVars, rx, delivered, activity>>
  BY DEF WriteLoopTake
<1>3. /\ taken \in Nat /\ read \in Nat /\ n \in Nat /\ RcvWindow \in Nat
      /\ n >= 1 /\ n <= RcvWindow + 1 /\ RcvWindow + 1 < SeqSpace
  BY Constants DEF IInv, TypeOK
<1>4. ASSUME NEW i \in 0 .. n - 1
      PROVE  (rcvNxt + i) % SeqSpace \in DOMAIN rcvBuf /\ rcvBuf[(rcvNxt + i) % SeqSpace] = taken + i
  <2> DEFINE s == (rcvNxt + i) % SeqSpace
             e == rcvBuf[s]
  <2>1. s \in DOMAIN rcvBuf
    BY <1>1 DEF Missing
  <2>2. e \in taken .. taken + RcvWindow /\ s = e % SeqSpace
    BY <2>1 DEF IInv, RcvBufNumbered
  <2>3. s = (taken + i) % SeqSpace
    <3>1. SeqSpace \in Nat \ {0} /\ taken \in Nat /\ i \in Nat
      BY <1>3, Constants
    <3>2. QED
      BY ONLY <3>1, Advance DEF rcvNxt
  <2> HIDE DEF e
  <2>4. /\ e \in Nat /\ taken + i \in Nat
        /\ e - (taken + i) < SeqSpace /\ (taken + i) - e < SeqSpace
    <3> HIDE DEF s
    <3>1. SeqSpace \in Nat /\ e \in taken .. taken + RcvWindow
      BY <2>2, Constants
    <3>2. QED
      BY <1>3, <3>1
  <2>5. e % SeqSpace = (taken + i) % SeqSpace
    BY <2>2, <2>3
  <2>6. e = taken + i
    BY ONLY <2>4, <2>5, WireInjective
  <2>7. QED
    BY <2>1, <2>6 DEF e
<1>5. \A s \in DOMAIN rcvBuf : s \in WireOf(0 .. n - 1) <=> rcvBuf[s] < taken + n
  <2>1. ASSUME NEW s \in DOMAIN rcvBuf, s \in WireOf(0 .. n - 1) PROVE rcvBuf[s] < taken + n
    <3>1. PICK i \in 0 .. n - 1 : s = (rcvNxt + i) % SeqSpace
      BY <2>1 DEF WireOf
    <3>2. rcvBuf[s] = taken + i
      BY <1>4, <3>1
    <3>3. QED
      BY <1>3, <3>2
  <2>2. ASSUME NEW s \in DOMAIN rcvBuf, rcvBuf[s] < taken + n PROVE s \in WireOf(0 .. n - 1)
    <3> DEFINE i == rcvBuf[s] - taken
    <3>1. rcvBuf[s] \in taken .. taken + RcvWindow /\ s = rcvBuf[s] % SeqSpace
      BY DEF IInv, RcvBufNumbered
    <3>2. i \in 0 .. n - 1 /\ rcvBuf[s] = taken + i
      BY <1>3, <2>2, <3>1
    <3> HIDE DEF i
    <3>3. SeqSpace \in Nat \ {0} /\ taken \in Nat /\ i \in Nat
      BY <1>3, <3>2, Constants
    <3>4. (rcvNxt + i) % SeqSpace = (taken + i) % SeqSpace
      BY ONLY <3>3, Advance DEF rcvNxt
    <3>5. s = (rcvNxt + i) % SeqSpace
      BY <3>1, <3>2, <3>4
    <3>6. QED
      BY <3>2, <3>5 DEF WireOf
  <2>3. QED
    BY <2>1, <2>2
<1>6. taken + n <= read
  <2>1. n - 1 \in 0 .. n - 1
    BY <1>3
  <2>2. taken + (n - 1) < read
    BY <1>4, <2>1 DEF IInv, RcvBufNumbered
  <2>3. QED
    BY <1>3, <2>2
<1>7. /\ DOMAIN rcvBuf' = DOMAIN rcvBuf \ WireOf(0 .. n - 1)
      /\ \A s \in DOMAIN rcvBuf' : rcvBuf'[s] = rcvBuf[s]
      /\ rcvBuf' \in [DOMAIN rcvBuf' -> Nat]
  BY <1>1 DEF IInv, TypeOK
<1>8. /\ \A i \in 1 .. n : writing'[i] = taken + i - 1
      /\ writing' \in Seq(Nat) /\ Len(writing') = n
  <2>1. ASSUME NEW i \in 1 .. n PROVE rcvBuf[(rcvNxt + i - 1) % SeqSpace] = taken + i - 1
    <3>1. rcvNxt \in Int
      BY <1>3, WireNumber DEF rcvNxt, Wire
    <3>2. i - 1 \in 0 .. n - 1 /\ rcvNxt + i - 1 = rcvNxt + (i - 1)
      BY <1>3, <3>1
    <3>3. taken + (i - 1) = taken + i - 1
      BY <1>3
    <3>4. QED
      BY <1>4, <3>2, <3>3
  <2>2. writing' = [i \in 1 .. n |-> taken + i - 1]
    BY <1>1, <2>1
  <2>3. QED
    BY <1>3, <2>2
<1>9. \A e \in Nat : Received(e) => Received(e)'
  <2>1. SUFFICES ASSUME NEW e \in Nat, Received(e), ~ (e < taken + n)
                 PROVE  \E s \in DOMAIN rcvBuf' : rcvBuf'[s] = e
    BY <1>1 DEF Received
  <2>2. PICK s \in DOMAIN rcvBuf : rcvBuf[s] = e
    BY <1>3, <2>1 DEF Received
  <2>3. QED
    BY <1>5, <1>7, <2>1, <2>2
<1>10. TypeOK'
  BY <1>1, <1>2, <1>3, <1>7, <1>8 DEF IInv, TypeOK, sndVars, jobVars, netVars
<1>11. FlightNumbered' /\ SndBufNumbered' /\ WindowKept' /\ PushPending'
  BY <1>2 DEF IInv, FlightNumbered, Flight, Numbered, SndBufNumbered, WindowKept, PushPending,
              sndVars, jobVars, netVars
<1>12. RcvBufNumbered'
  <2>1. SUFFICES ASSUME NEW s \in DOMAIN rcvBuf'
                 PROVE  /\ rcvBuf'[s] \in taken' .. taken' + RcvWindow
                        /\ rcvBuf'[s] < read' /\ s = rcvBuf'[s] % SeqSpace
    BY DEF RcvBufNumbered
  <2>2. s \in DOMAIN rcvBuf /\ rcvBuf'[s] = rcvBuf[s] /\ ~ (rcvBuf[s] < taken + n)
    BY <1>5, <1>7
  <2>3. /\ rcvBuf[s] \in taken .. taken + RcvWindow
        /\ rcvBuf[s] < read /\ s = rcvBuf[s] % SeqSpace
    BY <2>2 DEF IInv, RcvBufNumbered
  <2>4. read' = read /\ taken' = taken + n
    BY <1>1, <1>2 DEF sndVars
  <2>5. rcvBuf[s] \in taken + n .. (taken + n) + RcvWindow
    BY <1>3, <2>2, <2>3
  <2>6. QED
    BY <2>2, <2>3, <2>4, <2>5
<1>13. AcksTrue'
  <2>1. \A a \in ackNet \cup rx : a.dat \in Nat
    BY DEF IInv, TypeOK, Packet
  <2>2. QED
    BY <1>2, <1>9, <2>1 DEF IInv, AcksTrue, netVars
<1>14. NothingLost'
  BY <1>2, <1>3, <1>9 DEF IInv, NothingLost, Chunks, sndVars
<1>15. SpanWithinHalf'
  BY <1>1, <1>2, <1>3, Constants DEF IInv, SpanWithinHalf, sndVars
<1>16. WrittenInOrder'
  <2>1. Len(delivered) = taken /\ Len(delivered) \in Nat
    BY <1>1, <1>3 DEF IInv, WrittenInOrder, TypeOK
  <2>2. delivered' = delivered /\ read' = read /\ taken' = taken + n
    BY <1>1, <1>2 DEF sndVars
  <2>3. \A i \in 1 .. Len(delivered) : delivered[i] = i - 1
    BY DEF IInv, WrittenInOrder
  <2>4. QED
    BY <1>6, <1>8, <2>1, <2>2, <2>3 DEF WrittenInOrder
<1>17. QED
  BY <1>10, <1>11, <1>12, <1>13, <1>14, <1>15, <1>16 DEF IInv

\* d and w before, e and v after: n chunks of the batch w have moved to the end of d.
Moved(w, d, n, v, e) ==
  /\ e \in Seq(Nat) /\ Len(e) = Len(d) + n
  /\ \A i \in 1 .. Len(d) : e[i] = d[i]
  /\ \A i \in 1 .. n : e[Len(d) + i] = w[i]
  /\ v \in Seq(Nat) /\ Len(v) = Len(w) - n
  /\ \A i \in 1 .. Len(w) - n : v[i] = w[n + i]

\* A write, whole or partial, moves the front of the batch to the local connection.
LEMMA WriteMoves ==
  ASSUME NEW w, NEW d, NEW n, NEW v, NEW e,
         w \in Seq(Nat), d \in Seq(Nat), n \in 1 .. Len(w),
         v = SubSeq(w, n + 1, Len(w)), e = d \o SubSeq(w, 1, n)
  PROVE  Moved(w, d, n, v, e)
<1>1. Len(w) \in Nat /\ Len(d) \in Nat /\ n \in Nat
  OBVIOUS
<1>2. PICK u : u = SubSeq(w, 1, n)
  OBVIOUS
<1>3. u \in Seq(Nat) /\ Len(u) = n /\ \A i \in 1 .. n : u[i] = w[i]
  BY <1>1, <1>2
<1>4. e = d \o u
  BY <1>2
<1>5. e \in Seq(Nat) /\ Len(e) = Len(d) + n
  BY ONLY d \in Seq(Nat), <1>3, <1>4, ConcatProperties
<1>6. \A i \in 1 .. Len(d) : e[i] = d[i]
  BY <1>1, <1>3, <1>4
<1>7. \A i \in 1 .. n : e[Len(d) + i] = w[i]
  BY <1>1, <1>3, <1>4
<1>8. v \in Seq(Nat) /\ Len(v) = Len(w) - n /\ \A i \in 1 .. Len(w) - n : v[i] = w[n + i]
  <2>1. PICK a, b : a = n + 1 /\ b = Len(w)
    OBVIOUS
  <2>2. a \in Int /\ b \in Int /\ b - a + 1 = b - n /\ b - n \in Nat
    BY <1>1, <2>1
  <2>3. \A i \in a .. b : w[i] \in Nat
    BY <1>1, <2>1
  <2>4. v = SubSeq(w, a, b)
    BY <2>1
  <2>5. /\ v \in Seq(Nat) /\ Len(v) = IF a <= b THEN b - a + 1 ELSE 0
        /\ \A i \in 1 .. b - a + 1 : v[i] = w[a + i - 1]
    BY ONLY <2>2, <2>3, <2>4, SubSeqProperties
  <2>6. Len(v) = b - n
    BY <1>1, <2>1, <2>2, <2>5
  <2>7. ASSUME NEW i \in 1 .. b - n PROVE v[i] = w[n + i]
    <3>1. a + i - 1 = n + i /\ i \in 1 .. b - a + 1
      BY <1>1, <2>1
    <3>2. QED
      BY <2>5, <3>1
  <2>8. QED
    BY <2>1, <2>5, <2>6, <2>7
<1>9. QED
  BY <1>5, <1>6, <1>7, <1>8 DEF Moved

\* A write keeps IInv, whether it accepts the batch or a part of it.
LEMMA FlushStep == ASSUME IInv, WriteLoopFlush PROVE IInv'
<1>0. PICK n \in 1 .. Len(writing) : /\ delivered' = delivered \o SubSeq(writing, 1, n)
                                     /\ writing' = SubSeq(writing, n + 1, Len(writing))
  BY DEF WriteLoopFlush
<1>1. UNCHANGED <<sndVars, ioPc, txQ, jobVars, netVars, rx, rcvBuf, taken, activity>>
  BY DEF WriteLoopFlush
<1>2. writing \in Seq(Nat) /\ delivered \in Seq(Nat)
  BY DEF IInv, TypeOK
<1>3. PICK d, e, w, v : d = delivered /\ e = delivered' /\ w = writing /\ v = writing'
  OBVIOUS
<1>4. /\ e \in Seq(Nat) /\ Len(e) = Len(d) + n
      /\ \A i \in 1 .. Len(d) : e[i] = d[i]
      /\ \A i \in 1 .. n : e[Len(d) + i] = w[i]
      /\ v \in Seq(Nat) /\ Len(v) = Len(w) - n
      /\ \A i \in 1 .. Len(w) - n : v[i] = w[n + i]
  <2>1. /\ w \in Seq(Nat) /\ d \in Seq(Nat) /\ n \in 1 .. Len(w)
        /\ v = SubSeq(w, n + 1, Len(w)) /\ e = d \o SubSeq(w, 1, n)
    BY <1>0, <1>2, <1>3
  <2>2. Moved(w, d, n, v, e)
    BY ONLY <2>1, WriteMoves, Zenon
  <2>3. QED
    BY <2>2 DEF Moved
<1>5. TypeOK'
  BY <1>1, <1>3, <1>4 DEF IInv, TypeOK, sndVars, jobVars, netVars
<1>6. WrittenInOrder'
  <2>1. /\ taken <= read /\ Len(d) + Len(w) = taken
        /\ \A i \in 1 .. Len(d) : d[i] = i - 1
        /\ \A i \in 1 .. Len(w) : w[i] = Len(d) + i - 1
    BY <1>3 DEF IInv, WrittenInOrder
  <2>2. Len(d) \in Nat /\ Len(w) \in Nat /\ n \in 1 .. Len(w)
    BY <1>2, <1>3
  <2>3. ASSUME NEW i \in 1 .. Len(e) PROVE e[i] = i - 1
    <3>1. CASE i <= Len(d)
      BY <1>4, <2>1, <2>2, <3>1
    <3>2. CASE ~ (i <= Len(d))
      <4>1. PICK k : k = i - Len(d)
        OBVIOUS
      <4>2. k \in 1 .. n /\ k \in 1 .. Len(w) /\ i = Len(d) + k
        BY <1>4, <2>2, <3>2, <4>1
      <4>3. e[i] = w[k] /\ w[k] = Len(d) + k - 1
        BY <1>4, <2>1, <4>2
      <4>4. QED
        BY <2>2, <4>2, <4>3
    <3>3. QED
      BY <3>1, <3>2
  <2>4. ASSUME NEW i \in 1 .. Len(v) PROVE v[i] = Len(e) + i - 1
    <3>1. PICK k : k = n + i
      OBVIOUS
    <3>2. i \in 1 .. Len(w) - n /\ k \in 1 .. Len(w) /\ Len(d) + k - 1 = Len(e) + i - 1
      BY <1>4, <2>2, <3>1
    <3>3. v[i] = w[k] /\ w[k] = Len(d) + k - 1
      BY <1>4, <2>1, <3>1, <3>2
    <3>4. QED
      BY <3>2, <3>3
  <2>5. Len(e) + Len(v) = taken
    BY <1>4, <2>1, <2>2
  <2>6. read' = read /\ taken' = taken
    BY <1>1 DEF sndVars
  <2>7. QED
    BY <1>3, <2>1, <2>3, <2>4, <2>5, <2>6 DEF WrittenInOrder
<1>7. /\ FlightNumbered' /\ SndBufNumbered' /\ RcvBufNumbered' /\ AcksTrue' /\ NothingLost'
      /\ WindowKept' /\ SpanWithinHalf' /\ PushPending'
  BY <1>1 DEF IInv, FlightNumbered, Flight, Numbered, SndBufNumbered, RcvBufNumbered, AcksTrue,
              NothingLost, Received, Chunks, WindowKept, SpanWithinHalf, PushPending,
              sndVars, jobVars, netVars
<1>8. QED
  BY <1>5, <1>6, <1>7 DEF IInv

\* Every step keeps IInv.
LEMMA NextIInv == IInv /\ [Next]_vars => IInv'
<1> SUFFICES ASSUME IInv, [Next]_vars PROVE IInv'
  OBVIOUS
<1>1. CASE IoLoopRead
  BY <1>1, IoLoopReadStep
<1>2. CASE IoLoopPush
  BY <1>2, IoLoopPushStep
<1>3. CASE \E sn \in Wire : PopNextTXPacket(sn)
  BY <1>3, PopStep
<1>4. CASE NoteTXPacketDequeued
  BY <1>4, NoteDequeuedStep
<1>5. CASE \E S \in SUBSET DOMAIN sndBuf : S # {} /\ CheckRetransmitsScan(S)
  BY <1>5, ScanStep
<1>6. CASE CheckRetransmitsPush
  BY <1>6, PushStep
<1>7. CASE CheckRetransmitsMark
  BY <1>7, MarkStep
<1>8. CASE MaxRetransmissionsExceeded
  BY <1>8, ResetStep
<1>9. CASE \E sn \in Wire : ReceiveAck(sn)
  BY <1>9, ReceiveAckStep
<1>10. CASE \E sn \in Wire : HandleDataNack(sn)
  BY <1>10, NackStep
<1>11. CASE Network
  BY <1>11, NetworkStep
<1>12. CASE \E sn \in Wire : ProcessReceivedData(sn)
  BY <1>12, ProcessStep
<1>13. CASE AnswerReceivedData
  BY <1>13, AnswerStep
<1>14. CASE \E S \in SUBSET WireOf(Missing(NackMaxGap)) : S # {} /\ RunGapRecoveryWatchdog(S)
  BY <1>14, WatchdogStep
<1>15. CASE WriteLoopTake
  BY <1>15, TakeStep
<1>16. CASE WriteLoopFlush
  BY <1>16, FlushStep
<1>17. CASE UNCHANGED vars
  BY <1>17 DEF vars, sndVars, jobVars, netVars, rcvVars, IInv, TypeOK, FlightNumbered, Flight,
     Numbered, SndBufNumbered, RcvBufNumbered, AcksTrue, Received, NothingLost, Chunks,
     WindowKept, SpanWithinHalf, WrittenInOrder, PushPending
<1>18. CASE ReverseTraffic \/ ReversePauses \/ IntervalPasses
  BY <1>18, ActivityStep
<1>19. QED
  BY <1>1, <1>2, <1>3, <1>4, <1>5, <1>6, <1>7, <1>8, <1>9, <1>10, <1>11, <1>12, <1>13,
     <1>14, <1>15, <1>16, <1>17, <1>18 DEF Next, Sender, Receiver

-----------------------------------------------------------------------------
(* What follows, for every window and sequence space.                        *)

\* The inductive invariant holds in every reachable state.
THEOREM Inductive == Spec => []IInv
<1>1. QED
  BY InitIInv, NextIInv, PTL DEF Spec

\* The buffers, queues and packets keep their types; in particular every wire
\* number fits the sequence space.
THEOREM TypeCorrect == Spec => []TypeOK
<1>1. IInv => TypeOK
  BY DEF IInv
<1>2. QED
  BY <1>1, Inductive, PTL

\* The receiving connection is given the chunks that were read, in order.
THEOREM InOrderDelivery == Spec => []InOrder
<1>1. IInv => InOrder
  BY DEF IInv, TypeOK, WrittenInOrder, InOrder
<1>2. QED
  BY <1>1, Inductive, PTL

\* No acknowledgement makes the sender forget a chunk that has not arrived.
THEOREM NoChunkLost == Spec => []NothingLost
<1>1. IInv => NothingLost
  BY DEF IInv
<1>2. QED
  BY <1>1, Inductive, PTL

\* Send limit and receive window together bound how far the sender runs ahead of
\* the writer, so that half the sequence space is never exceeded.
THEOREM SpanBounded == Spec => []SpanWithinHalf
<1>1. IInv => SpanWithinHalf
  BY DEF IInv
<1>2. QED
  BY <1>1, Inductive, PTL

\* The reorder buffer never holds more than the receive window and one chunk.
THEOREM ReorderBounded == Spec => []ReorderBufferBounded
<1>1. ASSUME IInv PROVE ReorderBufferBounded
  <2> DEFINE T == taken .. taken + RcvWindow
  <2>1. /\ taken \in Nat /\ RcvWindow \in Nat
        /\ rcvBuf \in [DOMAIN rcvBuf -> T]
        /\ \A s \in DOMAIN rcvBuf : s = rcvBuf[s] % SeqSpace
    BY <1>1, Constants DEF IInv, TypeOK, RcvBufNumbered
  <2>2. rcvBuf \in Injection(DOMAIN rcvBuf, T)
    BY <2>1 DEF Injection, IsInjective
  <2>3. /\ IsFiniteSet(T) /\ Cardinality(T) = RcvWindow + 1
    <3>1. taken \in Int /\ taken + RcvWindow \in Int
      BY <2>1
    <3>2. /\ IsFiniteSet(T)
          /\ Cardinality(T) = IF taken > taken + RcvWindow THEN 0
                              ELSE (taken + RcvWindow) - taken + 1
      BY ONLY <3>1, FS_Interval
    <3>3. QED
      BY <2>1, <3>2
  <2>4. Cardinality(DOMAIN rcvBuf) <= Cardinality(T)
    BY <2>2, <2>3, FS_Injection
  <2>5. QED
    BY <2>1, <2>3, <2>4 DEF ReorderBufferBounded
<1>2. QED
  BY <1>1, Inductive, PTL

\* The ARQ implements the FIFO pipe: reading a chunk is the pipe's Read, what one write
\* of writeLoop accepts its Deliver, and every other step is invisible.
THEOREM Refinement == Spec => ImplementsStream
<1>1. Init => Stream!Init
  BY DEF Init, Stream!Init
<1>2. IInv /\ [Next]_vars => [Stream!Next]_<<read, delivered>>
  <2> SUFFICES ASSUME IInv, [Next]_vars PROVE [Stream!Next]_<<read, delivered>>
    OBVIOUS
  <2>1. CASE IoLoopRead
    BY <2>1 DEF IoLoopRead, rcvVars, Stream!Next, Stream!Read
  <2>2. CASE WriteLoopFlush
    <3>1. PICK n \in 1 .. Len(writing) :
            /\ delivered' = delivered \o SubSeq(writing, 1, n) /\ UNCHANGED read
      BY <2>2 DEF WriteLoopFlush, sndVars
    <3>2. /\ writing \in Seq(Nat) /\ delivered \in Seq(Nat)
          /\ taken <= read /\ Len(delivered) + Len(writing) = taken
          /\ \A i \in 1 .. Len(writing) : writing[i] = Len(delivered) + i - 1
          /\ read \in Nat /\ taken \in Nat
      BY <2>2 DEF IInv, TypeOK, WrittenInOrder
    <3>3. n \in 1 .. read - Len(delivered)
      BY <3>2
    <3>4. SubSeq(writing, 1, n) = [i \in 1 .. n |-> Len(delivered) + i - 1]
      BY <3>2
    <3>5. Stream!Deliver
      BY <3>1, <3>3, <3>4 DEF Stream!Deliver
    <3>6. QED
      BY <3>5 DEF Stream!Next
  <2>3. CASE UNCHANGED <<read, delivered>>
    BY <2>3
  <2>4. QED
    BY <2>1, <2>2, <2>3 DEF Next, Sender, Network, Receiver, vars, sndVars, jobVars, netVars,
       rcvVars, IoLoopPush, PopNextTXPacket, NoteTXPacketDequeued, CheckRetransmitsScan,
       CheckRetransmitsPush, CheckRetransmitsMark, MaxRetransmissionsExceeded, ReceiveAck,
       HandleDataNack, LoseData, LoseAck, LoseNack, ProcessReceivedData, AnswerReceivedData,
       RunGapRecoveryWatchdog, ReverseTraffic, ReversePauses, IntervalPasses, WriteLoopTake
<1>3. QED
  BY <1>1, <1>2, Inductive, PTL DEF Spec, ImplementsStream, Stream!Spec
=============================================================================
