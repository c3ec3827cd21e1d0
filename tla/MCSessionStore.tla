--------------------------- MODULE MCSessionStore ---------------------------
(* Instances of SessionStore for TLC. *)
EXTENDS SessionStore, TLC

\* Nothing tells one init payload from another but being the same or not; all
\* properties are checked on states and steps, where symmetry is sound.
Symmetry == Permutations(Signatures)
=============================================================================
