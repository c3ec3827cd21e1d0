------------------------------ MODULE MCArqData ------------------------------
(* Instances of ArqData for TLC. *)
EXTENDS ArqData

\* Fairness for the first chunk to be read only: nothing is assumed of the others.
FairSpec == Spec /\ Fairness({First % SeqSpace})
=============================================================================
