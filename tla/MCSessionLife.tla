---------------------------- MODULE MCSessionLife ----------------------------
(* TLC model of SessionLife: one number, so that every new session takes the *)
(* place of an old one.                                                       *)
EXTENDS SessionLife
=============================================================================
