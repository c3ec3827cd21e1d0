------------------------------- MODULE DnsCache -------------------------------
(***************************************************************************)
(* The DNS cache (internal/dnscache), one at the client, which also keeps  *)
(* the names it is waiting for in it, and one at the server.               *)
(*                                                                         *)
(* Time: old says of an answer that it has not been used for the TTL of    *)
(* the cache, and of a pending name that pendingTimeout has gone by since  *)
(* it was last dispatched.  The order of use in a shard is left out: any   *)
(* entry may be pushed out by others.                                      *)
(***************************************************************************)
CONSTANTS Names, Answers, None

VARIABLE cache

NoEntry == [st |-> "none", ans |-> None, old |-> FALSE]
PendingEntry == [st |-> "pending", ans |-> None, old |-> FALSE]
ReadyEntry(a) == [st |-> "ready", ans |-> a, old |-> FALSE]

CacheInit == cache = [n \in Names |-> NoEntry]

Usable(n) == cache[n].st = "ready" /\ ~ cache[n].old

\* Mutant of Dispatches: a pending name is not asked for again.
DispatchesOnce(n) ==
  /\ cache[n].st = "none" \/ (cache[n].st = "ready" /\ cache[n].old)
  /\ cache' = [cache EXCEPT ![n] = PendingEntry]

\* LookupOrCreatePending when it says that a query is to be sent.  A name with a
\* usable answer, or pending and not old, is left as it is.
Dispatches(n) ==
  /\ cache[n].st = "none" \/ cache[n].old
  /\ cache' = [cache EXCEPT ![n] = PendingEntry]

\* GetReady without an answer: one too old is removed.
GetReadyMisses(n) ==
  /\ ~ Usable(n)
  /\ cache' = [cache EXCEPT ![n] = IF @.st = "ready" THEN NoEntry ELSE @]

SetReady(n, a) == cache' = [cache EXCEPT ![n] = ReadyEntry(a)]

ClearPending ==
  cache' = [n \in Names |-> IF cache[n].st = "pending" THEN NoEntry ELSE cache[n]]

\* evictIfNeededLocked, because of other names.
Evict(n) ==
  /\ cache[n].st # "none"
  /\ cache' = [cache EXCEPT ![n] = NoEntry]

Ages(n) ==
  /\ cache[n].st # "none" /\ ~ cache[n].old
  /\ cache' = [cache EXCEPT ![n].old = TRUE]
=============================================================================
