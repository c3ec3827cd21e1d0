---------------------------- MODULE ClientSession ----------------------------
(***************************************************************************)
(* The session of a tunnel client: the loop of Client.Run                  *)
(* (internal/client/client.go), the exchange that opens a session          *)
(* (session.go), and the two sides of a restart request, who asks for it   *)
(* (requestSessionRestart, from a packet handler or the network-change     *)
(* hook) and the loop that carries it out.                                 *)
(*                                                                         *)
(* A session is known here by the server's record r of it, which stands    *)
(* for the number and cookie the client was given; an init payload with    *)
(* its random verify code is a number of its own.  up and down are the     *)
(* packets on their way to the server and back: they may be lost, late and *)
(* out of order.                                                           *)
(***************************************************************************)
EXTENDS Naturals

CONSTANTS
  MaxTokens,   \* bound: init payloads the client makes
  MaxFaults    \* bound: network changes and other faults

VARIABLES
  pc,            \* where Run is
  sess,          \* the session the client has, 0 for none (sessionReady)
  token,         \* the init payload in use, 0 for none (sessionInitReady)
  tokens,        \* init payloads made so far
  resetPending,  \* runtimeResetPending
  signal,        \* sessionResetSignal, a channel that holds one
  rx,            \* the packet handler that asks for a restart
  hook,          \* the network-change hook
  lost,          \* history: a request was taken back by the clearing of another
  faults,        \* faults so far
  up, down       \* the network

clientVars == <<pc, sess, token, tokens, resetPending, signal, rx, hook, lost, faults>>
netVars == <<up, down>>

ClientInit ==
  /\ pc = "init" /\ sess = 0 /\ token = 0 /\ tokens = 0
  /\ resetPending = FALSE /\ signal = FALSE /\ rx = "idle" /\ hook = "idle"
  /\ lost = FALSE /\ faults = 0 /\ up = {} /\ down = {}

-----------------------------------------------------------------------------
(* InitializeSession.                                                        *)

INIT(s) == [typ |-> "INIT", of |-> s]
DATA(r) == [typ |-> "DATA", of |-> r]
CLOSE(r) == [typ |-> "CLOSE", of |-> r]
ACCEPT(s, r) == [typ |-> "ACCEPT", of |-> s, r |-> r]
BUSY(s) == [typ |-> "BUSY", of |-> s, r |-> 0]
DROP(r) == [typ |-> "DROP", of |-> r, r |-> 0]

\* nextSessionInitAttempt: the payload of the last attempt is used again until a
\* session has been made of it.
NextAttempt ==
  /\ pc = "init"
  /\ \/ token # 0 /\ UNCHANGED <<token, tokens>>
     \/ token = 0 /\ tokens < MaxTokens /\ tokens' = tokens + 1 /\ token' = tokens + 1
  /\ pc' = "wait"
  /\ up' = up \cup {INIT(token')}
  /\ UNCHANGED <<sess, resetPending, signal, rx, hook, lost, faults, down>>

\* Another of the three racing copies.
RaceCopy ==
  /\ pc = "wait"
  /\ up' = up \cup {INIT(token)}
  /\ UNCHANGED <<clientVars, down>>

\* Mutant of Accepted: the verify code is not looked at.
AcceptedAny(r) ==
  /\ pc = "wait" /\ \E s \in 1 .. tokens : ACCEPT(s, r) \in down
  /\ sess' = r /\ token' = 0 /\ pc' = "run"
  /\ down' = {}
  /\ UNCHANGED <<tokens, resetPending, signal, rx, hook, lost, faults, up>>

\* applySessionInitPacket: the verify code must be the one of this attempt.
Accepted(r) ==
  /\ pc = "wait" /\ ACCEPT(token, r) \in down
  /\ sess' = r /\ token' = 0 /\ pc' = "run"
  /\ down' = {}
  /\ UNCHANGED <<tokens, resetPending, signal, rx, hook, lost, faults, up>>

\* SESSION_BUSY, or no answer in time: the sockets of the attempt are closed.
AttemptFails ==
  /\ pc = "wait"
  /\ pc' = "init" /\ down' = {}
  /\ UNCHANGED <<sess, token, tokens, resetPending, signal, rx, hook, lost, faults, up>>

-----------------------------------------------------------------------------
(* The session in use, and its restart.                                      *)

\* Pings, if nothing else, keep packets of the session on their way.
SendData ==
  /\ pc = "run" /\ DATA(sess) \notin up
  /\ up' = up \cup {DATA(sess)}
  /\ UNCHANGED <<clientVars, down>>

\* requestSessionRestart begins: the first one to ask goes on to signal.
Request(who, asked) ==
  /\ resetPending' = TRUE
  /\ who' = IF resetPending THEN "idle" ELSE asked

\* HandleErrorDrop, in a goroutine of the runtime.
HandleErrorDrop ==
  /\ pc \in {"run", "stopping"} /\ rx = "idle" /\ DROP(sess) \in down
  /\ down' = down \ {DROP(sess)}
  /\ Request(rx, "won")
  /\ UNCHANGED <<pc, sess, token, tokens, signal, hook, lost, faults, up>>

RxSignal ==
  /\ rx = "won"
  /\ rx' = "idle" /\ signal' = TRUE
  /\ UNCHANGED <<pc, sess, token, tokens, resetPending, hook, lost, faults, netVars>>

\* handleNetbindChange, in a goroutine that nobody waits for: it looks at
\* asyncCancel first.
HookCheck ==
  /\ pc \in {"run", "stopping"} /\ hook = "idle" /\ faults < MaxFaults
  /\ hook' = "checked" /\ faults' = faults + 1
  /\ UNCHANGED <<pc, sess, token, tokens, resetPending, signal, rx, lost, netVars>>

HookRequest ==
  /\ hook = "checked"
  /\ Request(hook, "won")
  /\ UNCHANGED <<pc, sess, token, tokens, signal, rx, lost, faults, netVars>>

HookSignal ==
  /\ hook = "won"
  /\ hook' = "idle" /\ signal' = TRUE
  /\ UNCHANGED <<pc, sess, token, tokens, resetPending, rx, lost, faults, netVars>>

\* Run takes the signal.
TakeSignal ==
  /\ pc = "run" /\ signal
  /\ signal' = FALSE /\ pc' = "stopping"
  /\ UNCHANGED <<sess, token, tokens, resetPending, rx, hook, lost, faults, netVars>>

\* StopAsyncRuntime closes the sockets and waits for the goroutines of the
\* runtime; resetSessionState.  What the server answers to packets still on
\* their way reaches nobody, so they are forgotten here.
StopRuntime ==
  /\ pc = "stopping" /\ rx = "idle"
  /\ sess' = 0 /\ token' = 0 /\ pc' = "clear"
  /\ up' = up \ {DATA(sess)} /\ down' = {}
  /\ UNCHANGED <<tokens, resetPending, signal, rx, hook, lost, faults>>

\* Mutant of ClearPending: the flag stays set.
ClearNothing ==
  /\ pc = "clear"
  /\ pc' = "drain"
  /\ UNCHANGED <<sess, token, tokens, resetPending, signal, rx, hook, lost, faults, netVars>>

\* clearRuntimeResetRequest: the flag first, then the channel.  A request that
\* comes in between finds the flag clear, and its signal is drained.
ClearPending ==
  /\ pc = "clear"
  /\ resetPending' = FALSE /\ pc' = "drain"
  /\ UNCHANGED <<sess, token, tokens, signal, rx, hook, lost, faults, netVars>>

DrainSignal ==
  /\ pc = "drain"
  /\ signal' = FALSE /\ pc' = "init"
  /\ lost' = (lost \/ (signal /\ resetPending))
  /\ UNCHANGED <<sess, token, tokens, resetPending, rx, hook, faults, netVars>>

\* ctx.Done: notifySessionCloseBurst, if there is a session, and StopAsyncRuntime.
Cancel ==
  /\ pc \in {"init", "run"} /\ rx = "idle"
  /\ up' = IF sess # 0 THEN (up \ {DATA(sess)}) \cup {CLOSE(sess)} ELSE up
  /\ pc' = "stopped" /\ sess' = 0 /\ token' = 0 /\ down' = {}
  /\ UNCHANGED <<tokens, resetPending, signal, rx, hook, lost, faults>>

ClientStep ==
  \/ NextAttempt \/ RaceCopy \/ AttemptFails \/ \E m \in down : Accepted(m.r)
  \/ SendData \/ HandleErrorDrop \/ RxSignal
  \/ HookCheck \/ HookRequest \/ HookSignal
  \/ TakeSignal \/ StopRuntime \/ ClearPending \/ DrainSignal \/ Cancel
=============================================================================
