--------------------------- MODULE MultiLevelQueue ---------------------------
(***************************************************************************)
(* The queue with six priorities (internal/mlq): a sequence of entries     *)
(* ordered by priority, and by arrival within one.  An entry is a record   *)
(* with a pri (a lower number goes first) and a key, which the census      *)
(* keeps unique.  Every operation holds the lock of the queue.             *)
(***************************************************************************)
EXTENDS Naturals, FiniteSets, Sequences, SequencesExt

\* Get: whether the census knows the key.
Queued(q, key) == \E i \in DOMAIN q : q[i].key = key

\* Push, of an entry whose key is not queued: at the end of its priority.
Enqueue(q, e) ==
  InsertAt(q, Cardinality({i \in DOMAIN q : q[i].pri <= e.pri}) + 1, e)

\* RemoveByKey
RemoveByKey(q, key) ==
  IF Queued(q, key) THEN RemoveAt(q, CHOOSE i \in DOMAIN q : q[i].key = key) ELSE q

\* PopAnyIf, whose predicate looks at the kind of a packet: where the entries are
\* that it may take; the first of them is the one it takes.
Candidates(q, maxPriority, kinds) ==
  {i \in DOMAIN q : q[i].pri <= maxPriority /\ q[i].key.kind \in kinds}
=============================================================================
