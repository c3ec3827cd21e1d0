------------------------------ MODULE DnsNames ------------------------------
(* What the two halves of the DNS path, DnsServer and DnsTunnel, talk about. *)

CONSTANTS
  Names,    \* questions: name, type and class
  Answers,  \* what the upstream resolvers may answer
  None      \* no name, no answer
=============================================================================
