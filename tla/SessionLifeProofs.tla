-------------------------- MODULE SessionLifeProofs --------------------------
(***************************************************************************)
(* Proofs about SessionLife, for any number of sessions, payloads and      *)
(* faults: a client uses only sessions made for its last payload, and a    *)
(* restart that was asked for is on its way.                               *)
(***************************************************************************)
EXTENDS SessionLife, TLAPS

-----------------------------------------------------------------------------
(* The inductive invariant.                                                  *)

Session == [id : 1 .. MaxId, sig : Signatures, cookie : Cookies]

TypeOK ==
  /\ pc \in {"init", "wait", "run", "stopping", "clear", "drain", "stopped"}
  /\ token \in Nat /\ tokens \in Nat /\ faults \in Nat
  /\ resetPending \in BOOLEAN /\ signal \in BOOLEAN /\ lost \in BOOLEAN
  /\ rx \in {"idle", "won"} /\ hook \in {"idle", "checked", "won"}
  /\ log \in Seq(Session) /\ live \subseteq DOMAIN log /\ reusable \subseteq live

\* A session is in use from its acceptance to the end of the runtime.
SessionPlaced == sess # 0 => pc \in {"run", "stopping"} /\ sess \in DOMAIN log

\* The payload in use is the last one that was made.
TokenIsLast == (token # 0 => token = tokens) /\ (pc = "wait" => token # 0)

\* An acceptance on its way names a session made of the payload it answers.
AcceptsTrue ==
  \A m \in down : m.typ = "ACCEPT" => m.r \in DOMAIN log /\ log[m.r].sig = m.of

IInv ==
  TypeOK /\ SessionPlaced /\ TokenIsLast /\ AcceptsTrue /\ OwnSession /\ RequestHeardUnlessLost

-----------------------------------------------------------------------------
(* It holds at first, and every step preserves it.                           *)

\* The client has nothing and the server knows nobody.
LEMMA InitIInv == Init => IInv
<1> SUFFICES ASSUME Init PROVE IInv
  OBVIOUS
<1>1. log = << >> /\ live = {} /\ reusable = {}
  BY DEF Init, TableInit
<1>2. log \in Seq(Session)
  BY <1>1
<1> QED
  BY <1>1, <1>2
     DEF Init, ClientInit, IInv, TypeOK, SessionPlaced, TokenIsLast, AcceptsTrue, OwnSession,
         RequestHeardUnlessLost

\* Packets that are lost, and steps that are about nothing but packets to the server.
LEMMA FewerAnswers ==
  ASSUME IInv, UNCHANGED <<pc, sess, token, tokens, resetPending, signal, rx, hook, lost>>, UNCHANGED serverVars,
         faults' \in Nat, down' \subseteq down
  PROVE  IInv'
BY DEF IInv, TypeOK, SessionPlaced, TokenIsLast, AcceptsTrue, OwnSession, RequestHeardUnlessLost,
       serverVars, tableVars

\* The steps of InitializeSession: a payload, its copies, and what comes back.
LEMMA InitializeStep ==
  ASSUME IInv, UNCHANGED serverVars,
         NextAttempt \/ RaceCopy \/ AttemptFails \/ \E m \in down : Accepted(m.r)
  PROVE  IInv'
<1> USE DEF serverVars, tableVars
<1>1. CASE NextAttempt
  BY <1>1 DEF NextAttempt, IInv, TypeOK, SessionPlaced, TokenIsLast, AcceptsTrue, OwnSession,
              RequestHeardUnlessLost
<1>2. CASE RaceCopy
  BY <1>2, FewerAnswers DEF RaceCopy, clientVars, IInv, TypeOK
<1>3. CASE AttemptFails
  BY <1>3 DEF AttemptFails, IInv, TypeOK, SessionPlaced, TokenIsLast, AcceptsTrue, OwnSession,
              RequestHeardUnlessLost
<1>4. ASSUME NEW m \in down, Accepted(m.r) PROVE IInv'
  <2> DEFINE r == m.r
  <2>1. /\ pc = "wait" /\ ACCEPT(token, r) \in down
        /\ sess' = r /\ token' = 0 /\ pc' = "run" /\ down' = {}
        /\ UNCHANGED <<tokens, resetPending, signal, rx, hook, lost, faults>>
    BY <1>4 DEF Accepted
  <2>2. r \in DOMAIN log /\ log[r].sig = token /\ token = tokens
    <3>1. ACCEPT(token, r).typ = "ACCEPT" /\ ACCEPT(token, r).r = r /\ ACCEPT(token, r).of = token
      BY DEF ACCEPT
    <3> QED
      BY <2>1, <3>1 DEF IInv, AcceptsTrue, TokenIsLast
  <2> HIDE DEF r
  <2> QED
    BY <2>1, <2>2 DEF IInv, TypeOK, SessionPlaced, TokenIsLast, AcceptsTrue, OwnSession,
                      RequestHeardUnlessLost
<1> QED
  BY <1>1, <1>2, <1>3, <1>4

\* The two who ask for a restart.
LEMMA RequestStep ==
  ASSUME IInv, UNCHANGED serverVars,
         HandleErrorDrop \/ RxSignal \/ HookCheck \/ HookRequest \/ HookSignal
  PROVE  IInv'
<1> USE DEF serverVars, tableVars, netVars
<1>1. UNCHANGED <<pc, sess, token, tokens, lost, log, live>> /\ down' \subseteq down /\ faults' \in Nat
  BY DEF HandleErrorDrop, RxSignal, HookCheck, HookRequest, HookSignal, IInv, TypeOK
<1>2. TypeOK' /\ RequestHeardUnlessLost'
  <2>1. CASE HandleErrorDrop
    BY <1>1, <2>1 DEF HandleErrorDrop, Request, IInv, TypeOK, RequestHeardUnlessLost
  <2>2. CASE RxSignal
    BY <1>1, <2>2 DEF RxSignal, IInv, TypeOK, RequestHeardUnlessLost
  <2>3. CASE HookCheck
    BY <1>1, <2>3 DEF HookCheck, IInv, TypeOK, RequestHeardUnlessLost
  <2>4. CASE HookRequest
    BY <1>1, <2>4 DEF HookRequest, Request, IInv, TypeOK, RequestHeardUnlessLost
  <2>5. CASE HookSignal
    BY <1>1, <2>5 DEF HookSignal, IInv, TypeOK, RequestHeardUnlessLost
  <2> QED
    BY <2>1, <2>2, <2>3, <2>4, <2>5
<1> QED
  BY <1>1, <1>2 DEF IInv, SessionPlaced, TokenIsLast, AcceptsTrue, OwnSession

\* The loop that carries the restart out, and the end of the client.  The flag is
\* cleared before the channel, so that only DrainSignal can take a request back.
LEMMA RestartStep ==
  ASSUME IInv, UNCHANGED serverVars,
         SendData \/ TakeSignal \/ StopRuntime \/ ClearPending \/ DrainSignal \/ Cancel
  PROVE  IInv'
<1> USE DEF serverVars, tableVars, netVars
<1>1. CASE SendData
  BY <1>1, FewerAnswers DEF SendData, clientVars, IInv, TypeOK
<1>2. CASE TakeSignal
  BY <1>2 DEF TakeSignal, IInv, TypeOK, SessionPlaced, TokenIsLast, AcceptsTrue, OwnSession,
              RequestHeardUnlessLost
<1>3. CASE StopRuntime
  BY <1>3 DEF StopRuntime, IInv, TypeOK, SessionPlaced, TokenIsLast, AcceptsTrue, OwnSession,
              RequestHeardUnlessLost
<1>4. CASE ClearPending
  BY <1>4 DEF ClearPending, IInv, TypeOK, SessionPlaced, TokenIsLast, AcceptsTrue, OwnSession,
              RequestHeardUnlessLost
<1>5. CASE DrainSignal
  BY <1>5 DEF DrainSignal, IInv, TypeOK, SessionPlaced, TokenIsLast, AcceptsTrue, OwnSession,
              RequestHeardUnlessLost
<1>6. CASE Cancel
  BY <1>6 DEF Cancel, IInv, TypeOK, SessionPlaced, TokenIsLast, AcceptsTrue, OwnSession,
              RequestHeardUnlessLost
<1> QED
  BY <1>1, <1>2, <1>3, <1>4, <1>5, <1>6

\* The server and the network, which leave the client as it is: sessions are only
\* added, and an answer speaks of the session it stands for.
LEMMA ServerStep ==
  ASSUME IInv, UNCHANGED <<pc, sess, token, tokens, resetPending, signal, rx, hook, lost>>,
         faults' \in Nat, log' \in Seq(Session), live' \subseteq DOMAIN log', reusable' \subseteq live',
         DOMAIN log \subseteq DOMAIN log', \A r \in DOMAIN log : log'[r] = log[r],
         \A m \in down' \ down : m.typ = "ACCEPT" => m.r \in DOMAIN log' /\ log'[m.r].sig = m.of
  PROVE  IInv'
<1>1. TypeOK'
  BY DEF IInv, TypeOK
<1>2. SessionPlaced' /\ OwnSession'
  BY DEF IInv, SessionPlaced, OwnSession
<1>3. AcceptsTrue'
  BY DEF IInv, AcceptsTrue
<1> QED
  BY <1>1, <1>2, <1>3 DEF IInv, TokenIsLast, RequestHeardUnlessLost

\* SESSION_INIT that finds its session, opens one, or is refused.
LEMMA ServeInitStep ==
  ASSUME IInv, NEW s \in Signatures, FindSession(s) \/ CreateSession(s) \/ RefuseSession(s)
  PROVE  IInv'
<1> USE DEF clientVars, serverVars, tableVars
<1>1. TypeOK
  BY DEF IInv
<1>2. CASE FindSession(s)
  <2>1. PICK r \in reusable : log[r].sig = s /\ down' = down \cup {ACCEPT(s, r)}
    BY <1>2 DEF FindSession
  <2>2. \A m \in down' \ down : m.r = r /\ m.of = s
    BY <2>1 DEF ACCEPT
  <2>3. /\ UNCHANGED <<pc, sess, token, tokens, resetPending, signal, rx, hook, lost, serverVars>>
        /\ faults' \in Nat
    BY <1>1, <1>2 DEF FindSession, TypeOK
  <2> QED
    BY <1>1, <2>1, <2>2, <2>3, ServerStep DEF TypeOK
<1>3. CASE CreateSession(s)
  <2> DEFINE n == Len(log) + 1
  <2>1. PICK i \in 1 .. MaxId, c \in RandomCookie : OpenSession(i, s, c)
    BY <1>3 DEF CreateSession
  <2>2. c \in Cookies
    BY LifeAssumption DEF RandomCookie
  <2> DEFINE e == [id |-> i, sig |-> s, cookie |-> c]
  <2>3. e \in Session /\ e.sig = s
    BY <2>2 DEF Session
  <2>4. log' = Append(log, e) /\ live' = live \cup {n} /\ reusable' = reusable \cup {n}
    BY <1>3, <2>1 DEF OpenSession, CreateSession
  <2> HIDE DEF e
  <2>5. /\ log' \in Seq(Session) /\ DOMAIN log' = DOMAIN log \cup {n} /\ log'[n] = e
        /\ \A r \in DOMAIN log : log'[r] = log[r]
    BY <1>1, <2>3, <2>4 DEF TypeOK
  <2>6. \A m \in down' \ down : m.r = n /\ m.of = s
    BY <1>3 DEF CreateSession, ACCEPT
  <2>7. /\ UNCHANGED <<pc, sess, token, tokens, resetPending, signal, rx, hook, lost>>
        /\ faults' \in Nat
    BY <1>1, <1>3 DEF CreateSession, TypeOK
  <2>8. live' \subseteq DOMAIN log' /\ reusable' \subseteq live'
    BY <1>1, <2>4, <2>5 DEF TypeOK
  <2> HIDE DEF n
  <2> QED
    BY <2>3, <2>5, <2>6, <2>7, <2>8, ServerStep
<1>4. CASE RefuseSession(s)
  <2>1. \A m \in down' \ down : m.typ # "ACCEPT"
    BY <1>4 DEF RefuseSession, BUSY
  <2>2. /\ UNCHANGED <<pc, sess, token, tokens, resetPending, signal, rx, hook, lost, serverVars>>
        /\ faults' \in Nat
    BY <1>1, <1>4 DEF RefuseSession, TypeOK
  <2> QED
    BY <1>1, <2>1, <2>2, ServerStep DEF TypeOK
<1> QED
  BY <1>2, <1>3, <1>4

\* The steps of the server that are not about SESSION_INIT, and the faults.
ServerTurn ==
  \/ \E r \in DOMAIN log : ServeData(r) \/ ServeClose(r)
  \/ \E r \in reusable : ReuseOver(r)
  \/ TimeOut \/ Lose \/ Fault

\* Packets of a session, and its end: by a notice, by a timeout or by a restart.
LEMMA ServeSessionStep ==
  ASSUME IInv, ServerTurn
  PROVE  IInv'
<1> USE DEF clientVars, serverVars, tableVars, netVars, ServerTurn, Ended
<1>1. TypeOK
  BY DEF IInv
<1>2. /\ UNCHANGED <<pc, sess, token, tokens, resetPending, signal, rx, hook, lost>>
      /\ faults' \in Nat
  BY <1>1 DEF ServeData, ServeClose, ReuseOver, TimeOut, Lose, Fault, TypeOK
<1>3. log' = log /\ live' \subseteq live /\ reusable' \subseteq live'
  BY <1>1 DEF TypeOK, ReuseOver, ServeData, ServeClose, TimeOut, Lose, Fault, EndSessions
<1>4. \A m \in down' \ down : m.typ # "ACCEPT"
  BY DEF ServeData, ServeClose, ReuseOver, TimeOut, Lose, Fault, DROP
<1> QED
  BY <1>1, <1>2, <1>3, <1>4, ServerStep DEF TypeOK

\* Every step preserves the invariant.
LEMMA NextIInv == IInv /\ [Next]_vars => IInv'
<1> SUFFICES ASSUME IInv, [Next]_vars PROVE IInv'
  OBVIOUS
<1>1. CASE ClientStep /\ UNCHANGED serverVars
  BY <1>1, InitializeStep, RequestStep, RestartStep DEF ClientStep
<1>2. ASSUME NEW s \in Signatures, FindSession(s) \/ CreateSession(s) \/ RefuseSession(s)
      PROVE  IInv'
  BY <1>2, ServeInitStep
<1>3. CASE ServerTurn
  BY <1>3, ServeSessionStep
<1>4. CASE UNCHANGED vars
  BY <1>4, FewerAnswers DEF vars, clientVars, netVars, IInv, TypeOK
<1> QED
  BY <1>1, <1>2, <1>3, <1>4 DEF Next, ServerTurn

-----------------------------------------------------------------------------
(* The theorems.                                                             *)

\* Every reachable state satisfies the inductive invariant.
THEOREM Inductive == Spec => []IInv
BY InitIInv, NextIInv, PTL DEF Spec

\* The client never takes the answer to an earlier payload, or to someone else's, for
\* its own (applySessionInitPacket).
THEOREM ClientOwnsSession == Spec => []OwnSession
<1>1. IInv => OwnSession
  BY DEF IInv
<1> QED
  BY <1>1, Inductive, PTL

\* A restart request that turns others away is being carried out or about to be
\* heard, unless it came between the two halves of clearRuntimeResetRequest.
THEOREM RequestHeard == Spec => []RequestHeardUnlessLost
<1>1. IInv => RequestHeardUnlessLost
  BY DEF IInv
<1> QED
  BY <1>1, Inductive, PTL
=============================================================================
