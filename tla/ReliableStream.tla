---------------------------- MODULE ReliableStream ----------------------------
(***************************************************************************)
(* What one direction of a stream promises its two local connections: a    *)
(* FIFO pipe.  Chunk number d is the d-th chunk read at one end; the other *)
(* end is given chunks in the order they were read, each of them once.     *)
(***************************************************************************)
EXTENDS Integers, Sequences

CONSTANT First   \* chunks that have gone through the pipe when the model begins

VARIABLES
  read,       \* chunks read from the sending connection so far
  delivered   \* chunks written to the receiving connection so far

Init == read = First /\ delivered = [i \in 1 .. First |-> i - 1]

Read == read' = read + 1 /\ UNCHANGED delivered

\* A write hands over one or more chunks, the next ones in order.
Deliver ==
  \E n \in 1 .. read - Len(delivered) :
    /\ delivered' = delivered \o [i \in 1 .. n |-> Len(delivered) + i - 1]
    /\ UNCHANGED read

Next == Read \/ Deliver

Spec == Init /\ [][Next]_<<read, delivered>>
=============================================================================
