----------------------------- MODULE MCDnsTunnel -----------------------------
(* Instances of DnsTunnel for TLC. *)
EXTENDS DnsTunnel
=============================================================================
