------------------------------ MODULE MCArqClose ------------------------------
(* Instances of ArqClose for TLC. *)
EXTENDS ArqClose

\* Who sends data: both sides, or the server, one chunk.
OneEach == [e \in Side |-> 1]
OneDown == [e \in Side |-> IF e = "client" THEN 0 ELSE 1]
=============================================================================
