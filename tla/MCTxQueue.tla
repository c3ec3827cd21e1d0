------------------------------ MODULE MCTxQueue ------------------------------
(* TLC model of TxQueue: the control stream, one stream that stays and one that *)
(* comes and goes.                                                              *)
EXTENDS TxQueue

Ctl(n) == [kind |-> "ack", sn |-> n]
Nack(n) == [kind |-> "nack", sn |-> n]
Chunk(n) == [kind |-> "data", sn |-> n]
Resend(n) == [kind |-> "resend", sn |-> n]
Ping(n) == [kind |-> "ping", sn |-> n]

MCPackets == [s \in {0, 1, 2} |->
  CASE s = 0 -> {Ping(1)} [] s = 1 -> {Nack(1)} [] s = 2 -> {Chunk(1), Resend(1)}]
MCOrphans == {[kind |-> "ack", stream |-> 9]}
=============================================================================
