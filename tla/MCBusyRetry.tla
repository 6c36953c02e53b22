---------------------------- MODULE MCBusyRetry ----------------------------
(* Instances of BusyRetry for TLC.                                         *)
EXTENDS BusyRetry
=============================================================================
