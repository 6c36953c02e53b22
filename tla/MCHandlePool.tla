---------------------------- MODULE MCHandlePool ----------------------------
(* Instances of HandlePool for TLC.                                        *)
EXTENDS HandlePool

=============================================================================
