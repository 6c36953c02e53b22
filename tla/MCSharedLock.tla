---------------------------- MODULE MCSharedLock ----------------------------
(* SharedLock for TLC: three threads are the fewest with a queue of two.   *)
EXTENDS SharedLock, TLC

=============================================================================
