----------------------------- MODULE SessionTable -----------------------------
(***************************************************************************)
(* What the session table of the tunnel server promises: sessions are      *)
(* opened one at a time, each under a number that no other open session    *)
(* has and never more than MaxActive of them, and end once and for all.    *)
(***************************************************************************)
EXTENDS Naturals, Sequences, FiniteSets

CONSTANTS
  MaxId, MaxActive, Signatures, Cookies

VARIABLES
  log,    \* the sessions opened so far: number, init payload and cookie
  live    \* those of them that are open

tableVars == <<log, live>>

TableInit == log = << >> /\ live = {}

NumberFree(i) == \A r \in live : log[r].id # i

Room == Cardinality(live) < MaxActive

OpenSession(i, s, c) ==
  /\ Room /\ NumberFree(i)
  /\ log' = Append(log, [id |-> i, sig |-> s, cookie |-> c])
  /\ live' = live \cup {Len(log) + 1}

EndSessions(gone) ==
  /\ gone # {}
  /\ live' = live \ gone
  /\ UNCHANGED log

TableNext ==
  \/ \E i \in 1 .. MaxId, s \in Signatures, c \in Cookies : OpenSession(i, s, c)
  \/ \E gone \in SUBSET live : EndSessions(gone)

TableSpec == TableInit /\ [][TableNext]_tableVars
=============================================================================
