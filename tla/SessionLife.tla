----------------------------- MODULE SessionLife -----------------------------
(***************************************************************************)
(* A tunnel client (ClientSession) and a server that keeps the promise of  *)
(* SessionTable, over a network that loses, delays and reorders packets.   *)
(* The server may be restarted, which empties its table; the client's      *)
(* pings may fail to arrive for as long as the session timeout; the        *)
(* network of the client may change.                                       *)
(***************************************************************************)
EXTENDS ClientSession, SessionTable

CONSTANT MaxSessions   \* bound: sessions the server opens

ASSUME LifeAssumption == Cookies # {} /\ MaxTokens \in Nat /\ MaxFaults \in Nat

VARIABLE reusable   \* the open sessions whose reuse period (reuseUntilUnixNano) is not over

serverVars == <<tableVars, reusable>>
vars == <<clientVars, netVars, serverVars>>

Init == ClientInit /\ TableInit /\ reusable = {}

-----------------------------------------------------------------------------
(* The server answers.                                                       *)

\* handleSessionInitRequest for a copy of the payload s: the session of that
\* payload if it may be reused, or a new one, or SESSION_BUSY.
FindSession(s) ==
  /\ INIT(s) \in up
  /\ up' = up \ {INIT(s)}
  /\ \E r \in reusable : log[r].sig = s /\ down' = down \cup {ACCEPT(s, r)}
  /\ UNCHANGED <<clientVars, serverVars>>

\* The cookie is random; only whether it is that of the client's own session
\* matters, so that a client without one need not tell cookies apart.
RandomCookie == IF sess = 0 THEN {CHOOSE c \in Cookies : TRUE} ELSE Cookies

CreateSession(s) ==
  /\ INIT(s) \in up /\ Len(log) < MaxSessions
  /\ up' = up \ {INIT(s)}
  /\ \A r \in reusable : log[r].sig # s
  /\ \E i \in 1 .. MaxId, c \in RandomCookie : OpenSession(i, s, c)
  /\ reusable' = reusable \cup {Len(log) + 1}
  /\ down' = down \cup {ACCEPT(s, Len(log) + 1)}
  /\ UNCHANGED clientVars

RefuseSession(s) ==
  /\ INIT(s) \in up
  /\ up' = up \ {INIT(s)}
  /\ ~ Room /\ \A r \in reusable : log[r].sig # s
  /\ down' = down \cup {BUSY(s)}
  /\ UNCHANGED <<clientVars, serverVars>>

\* The reuse period is over.  A client that still asks for the session, because it
\* was not answered for that long, will not get it: that counts as a fault.
ReuseOver(r) ==
  /\ reusable' = reusable \ {r}
  /\ faults' = IF token # 0 /\ log[r].sig = token THEN faults + 1 ELSE faults
  /\ faults' <= MaxFaults
  /\ UNCHANGED <<pc, sess, token, tokens, resetPending, signal, rx, hook, lost, netVars, tableVars>>

\* The session that has the number and the cookie of r.
Match(r) == {q \in live : log[q].id = log[r].id /\ log[q].cookie = log[r].cookie}

\* Sessions end, and with a session the entry of its payload in bySig, whichever
\* session that stands for.
Ended(gone) ==
  /\ EndSessions(gone)
  /\ reusable' = {r \in reusable : \A q \in gone : log[q].sig # log[r].sig}

\* handleTunnelCandidate for a packet of r: it is taken, or answered with
\* ERROR_DROP.  When another session has the number, there is no such answer
\* before the threshold of invalid cookies is reached.
ServeData(r) ==
  /\ DATA(r) \in up
  /\ up' = up \ {DATA(r)}
  /\ \/ Match(r) # {} /\ UNCHANGED down
     \/ Match(r) = {} /\ down' = down \cup {DROP(r)}
     \/ Match(r) = {} /\ ~ NumberFree(log[r].id) /\ UNCHANGED down
  /\ UNCHANGED <<clientVars, serverVars>>

\* handleSessionCloseNotice.
ServeClose(r) ==
  /\ CLOSE(r) \in up
  /\ up' = up \ {CLOSE(r)}
  /\ \/ Ended(Match(r))
     \/ Match(r) = {} /\ UNCHANGED serverVars
  /\ UNCHANGED <<clientVars, down>>

\* The client is using the session r, or asking for it while it may be reused.
InUse(r) == sess = r \/ (token # 0 /\ log[r].sig = token /\ r \in reusable)

\* Mutant of TimeOut: only sessions of the client's last payload time out.
TimeOutLatest ==
  /\ \E r \in live : ~ InUse(r) /\ log[r].sig = tokens /\ Ended({r})
  /\ UNCHANGED <<clientVars, netVars>>

\* A session nobody uses reaches the session timeout.
TimeOut ==
  /\ \E r \in live : ~ InUse(r) /\ Ended({r})
  /\ UNCHANGED <<clientVars, netVars>>

-----------------------------------------------------------------------------
(* Faults.                                                                   *)

Lose ==
  /\ \/ \E m \in up : up' = up \ {m} /\ UNCHANGED down
     \/ \E m \in down : down' = down \ {m} /\ UNCHANGED up
  /\ UNCHANGED <<clientVars, serverVars>>

\* The server is restarted, or a session in use reaches the session timeout.
Fault ==
  /\ faults < MaxFaults /\ faults' = faults + 1
  /\ \/ Ended(live)
     \/ \E r \in live : InUse(r) /\ Ended({r})
  /\ UNCHANGED <<pc, sess, token, tokens, resetPending, signal, rx, hook, lost, netVars>>

Next ==
  \/ ClientStep /\ UNCHANGED serverVars
  \/ \E s \in Signatures : FindSession(s) \/ CreateSession(s) \/ RefuseSession(s)
  \/ \E r \in DOMAIN log : ServeData(r) \/ ServeClose(r)
  \/ \E r \in reusable : ReuseOver(r)
  \/ TimeOut \/ Lose \/ Fault

Spec == Init /\ [][Next]_vars

\* Goroutines go on and time goes by; a packet that is sent again and again is
\* received in the end, and so is the answer to it, both in time for the client
\* that waits for them.  A late copy of SESSION_INIT or a close notice need not
\* ever arrive, and nothing is assumed of the coming of a fault or of Cancel.
Fairness ==
  /\ WF_vars(TimeOut)
  /\ \A s \in Signatures : SF_vars(pc = "wait" /\ (FindSession(s) \/ CreateSession(s)))
  /\ SF_vars(\E r \in DOMAIN log : pc = "run" /\ r = sess /\ ServeData(r))
  /\ WF_vars((NextAttempt \/ SendData \/ AttemptFails) /\ UNCHANGED serverVars)
  /\ SF_vars((\E m \in down : Accepted(m.r)) /\ UNCHANGED serverVars)
  /\ SF_vars(HandleErrorDrop /\ UNCHANGED serverVars)
  /\ WF_vars((RxSignal \/ HookRequest \/ HookSignal) /\ UNCHANGED serverVars)
  /\ WF_vars((TakeSignal \/ StopRuntime \/ ClearPending \/ DrainSignal)
             /\ UNCHANGED serverVars)

FairSpec == Spec /\ Fairness

-----------------------------------------------------------------------------
(* Properties.                                                               *)

\* The client uses only sessions that were made for it: an answer to an earlier
\* payload, or to someone else's, is never taken for its own (the verify code).
OwnSession == sess # 0 => log[sess].sig = tokens

\* A restart that was asked for is on its way: as long as the flag is set, which
\* turns later requests away, the loop is carrying the restart out, or it has the
\* signal, or whoever won the flag is about to give it, unless the request came
\* while clearRuntimeResetRequest was between the flag and the channel.
RequestHeardUnlessLost ==
  resetPending =>
    \/ signal \/ rx = "won" \/ hook = "won"
    \/ pc \in {"stopping", "clear", "stopped"}
    \/ lost

\* Whatever happens to its session, to the server or to its network, the server
\* takes the packets of a client that is not stopped, again and again, unless a
\* restart request was lost when another one was cleared (clearRuntimeResetRequest,
\* async_runtime.go).
RecoversUnlessLost ==
  []<>((pc = "run" /\ Match(sess) # {}) \/ pc = "stopped" \/ lost)

\* A client that has gone leaves nothing behind: the sessions it had, and those
\* that late copies of its SESSION_INIT make, give their numbers free.
SlotsReclaimed == (pc = "stopped") ~> [](live = {})
=============================================================================
