---------------------------- MODULE FragmentStore ----------------------------
(***************************************************************************)
(* Reassembly of messages sent in fragments (internal/fragmentstore).  The *)
(* server uses it for DNS queries, the client for their responses.  A      *)
(* chunk is a value that says which message it is a piece of.  No sender   *)
(* makes an empty fragment, so that a chunk counts once.                   *)
(*                                                                         *)
(* Time: Purge is the periodic and the piggybacked purge of one key whose  *)
(* retention is over; the callers say when that may be.                    *)
(***************************************************************************)
EXTENDS Naturals, FiniteSets, Functions

VARIABLES
  items,      \* key -> its fragment count and the chunks that have arrived
  completed   \* keys assembled not long ago

fragmentVars == <<items, completed>>

\* The map with v stored under k.
Stored(map, k, v) == [x \in DOMAIN map \cup {k} |-> IF x = k THEN v ELSE map[x]]

\* The chunks of key once this one is in; those of a message of another number
\* of fragments are thrown away.
Chunks(key, chunk, frag, total) ==
  Stored(IF key \in DOMAIN items /\ items[key].total = total
         THEN items[key].chunks ELSE << >>, frag, chunk)

Complete(key, chunk, frag, total) ==
  Cardinality(DOMAIN Chunks(key, chunk, frag, total)) = total

Without(key) == Restrict(items, DOMAIN items \ {key})

\* Collect, and what it returns: completed, not ready, or ready.
CollectCompleted(key) ==
  /\ key \in completed
  /\ UNCHANGED fragmentVars

CollectNotReady(key, chunk, frag, total) ==
  /\ key \notin completed /\ ~ Complete(key, chunk, frag, total)
  /\ items' = Stored(items, key, [total |-> total,
                                  chunks |-> Chunks(key, chunk, frag, total)])
  /\ UNCHANGED completed

\* Mutant of CollectReady: the key is not remembered.
CollectReadyForget(key, chunk, frag, total) ==
  /\ key \notin completed /\ Complete(key, chunk, frag, total)
  /\ items' = Without(key)
  /\ UNCHANGED completed

CollectReady(key, chunk, frag, total) ==
  /\ key \notin completed /\ Complete(key, chunk, frag, total)
  /\ items' = Without(key)
  /\ completed' = completed \cup {key}

Purge(key) ==
  /\ key \in DOMAIN items \cup completed
  /\ items' = Without(key)
  /\ completed' = completed \ {key}

\* RemoveIf for all keys of a session, or a new store in place of this one.
RemoveAll == items' = << >> /\ completed' = {}
=============================================================================
