-------------------------- MODULE MCHandleCounter ---------------------------
(* Instances of HandleCounter for TLC.                                     *)
EXTENDS HandleCounter, TLC

ThreadSymmetry == Permutations(Threads)

=============================================================================
