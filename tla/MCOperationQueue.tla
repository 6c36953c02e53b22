-------------------------- MODULE MCOperationQueue --------------------------
(* The background queue: a checkpoint waits longer than a migration step,  *)
(* which waits longer than what is queued without delay.                   *)
EXTENDS OperationQueue, TLC

IntervalValues == [type \in RetryTypes \cup PlainTypes |->
                       IF type \in RetryTypes THEN 1 ELSE 2]
=============================================================================
