------------------------------- MODULE Inflight -------------------------------
(***************************************************************************)
(* The lookups under way (internal/inflight): the first to ask for a key   *)
(* becomes the leader and the others wait for the entry it has made.  An   *)
(* entry is known by its leader.                                           *)
(***************************************************************************)
EXTENDS Functions

CONSTANTS Names, None

VARIABLES
  entry,     \* key -> the entry it has in m.items, None for none
  old,       \* entries that have outlived m.timeout
  result,    \* the entries whose channel is closed -> the value they hold
  panicked   \* a closed channel was closed again

inflightVars == <<entry, old, result, panicked>>

InflightInit ==
  /\ entry = [n \in Names |-> None] /\ old = {} /\ result = << >>
  /\ panicked = FALSE

\* Acquire: the entry of the key if it is not too old, or a new one.
Follows(k) == entry[k] # None /\ entry[k] \notin old

\* Mutant of AcquireLead: the age of the entry is not looked at.
AcquireLeadAlways(k, l) ==
  /\ entry' = [entry EXCEPT ![k] = l]
  /\ UNCHANGED <<old, result, panicked>>

\* An entry too old is replaced, or has been deleted, which is the same to this key.
AcquireLead(k, l) ==
  /\ ~ Follows(k)
  /\ entry' = [entry EXCEPT ![k] = l]
  /\ UNCHANGED <<old, result, panicked>>

\* The lookup of l has outlived the limit, or another one has taken its entry.
Late(l) == l \in old \/ l \in DOMAIN result

\* own, late (history): whether the leader of the entry itself gave the value, and
\* whether the lookup that gave it was late.
Outcome(e, l, v) == [val |-> v, own |-> e = l, late |-> Late(l)]

\* close(entry.done), with the value that those who wait for e will find.
Closed(e, o) ==
  [x \in DOMAIN result \cup {e} |-> IF x = e THEN o ELSE result[x]]

\* Mutant of Resolve: the entry of a lookup that failed stays.
ResolveKeepFailed(k, l, v) ==
  LET e == entry[k] IN
  /\ entry' = IF v = "fail" THEN entry ELSE [entry EXCEPT ![k] = None]
  /\ result' = IF e = None THEN result ELSE Closed(e, Outcome(e, l, v))
  /\ panicked' = (panicked \/ e \in DOMAIN result)
  /\ UNCHANGED old

\* Resolve, by the lookup of l: of whatever entry the key has now.
Resolve(k, l, v) ==
  LET e == entry[k] IN
  /\ entry' = [entry EXCEPT ![k] = None]
  /\ result' = IF e = None THEN result ELSE Closed(e, Outcome(e, l, v))
  /\ panicked' = (panicked \/ e \in DOMAIN result)
  /\ UNCHANGED old

\* m.timeout goes by.
EntryAges(k) ==
  /\ Follows(k)
  /\ old' = old \cup {entry[k]}
  /\ UNCHANGED <<entry, result, panicked>>

\* What nobody refers to any more is forgotten.
Release(used) ==
  /\ old' = old \cap used
  /\ result' = Restrict(result, DOMAIN result \cap used)
  /\ UNCHANGED <<entry, panicked>>
=============================================================================
