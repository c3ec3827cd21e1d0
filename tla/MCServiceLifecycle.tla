-------------------------- MODULE MCServiceLifecycle --------------------------
(* Instances of ServiceLifecycle for TLC. *)
EXTENDS ServiceLifecycle

\* Profiles are named in the order they are asked for: the first one is 1.
Canonical ==
  \A r \in DOMAIN req : req[r].profile > 1 => \E q \in 1 .. r - 1 : req[q].profile = 1
===============================================================================
