------------------------- MODULE NestedTransaction -------------------------
(***************************************************************************)
(* What runTransaction() promises: transactions nest.  A nested one that   *)
(* ends with FALSE takes back what was written since it began, and nothing *)
(* else; the outermost one makes everything durable and answers TRUE, or   *)
(* takes everything back and answers FALSE.  Once errors are not allowed   *)
(* (createTable() says so within the transaction of its caller) nested     *)
(* transactions have no life of their own: what they wrote stays, whatever *)
(* they answer, until the outermost one ends, and after an error no answer *)
(* is TRUE.                                                                *)
(***************************************************************************)
EXTENDS Sequences, Naturals

CONSTANT Writes

VARIABLES committed,  \* what is durable
          current,    \* what the thread sees
          calls,      \* what it saw when the open transactions began
          errors,     \* "Allowed", "NotAllowed" or "Fatal": one has happened
          returned    \* the answer of the last call

vars == <<committed, current, calls, errors, returned>>

Init == /\ committed = {} /\ current = {} /\ calls = <<>>
        /\ errors = "Allowed" /\ returned = TRUE

Outermost == Len(calls) = 1

Begin == /\ calls' = Append(calls, current)
         /\ returned' = TRUE
         /\ UNCHANGED <<committed, current, errors>>

\* Errors are not allowed from now on.
Mark == /\ errors = "Allowed" /\ errors' = "NotAllowed"
        /\ UNCHANGED <<committed, current, calls, returned>>

\* A call that fails changes nothing, but dooms a marked transaction.
Fail == /\ returned' = FALSE
        /\ errors' = IF errors = "Allowed" THEN errors ELSE "Fatal"
        /\ UNCHANGED <<committed, current, calls>>

Write == \E k \in Writes :
            /\ current' = current \cup {k}
            /\ committed' = IF calls = <<>> THEN current' ELSE committed
            /\ returned' = TRUE
            /\ UNCHANGED <<calls, errors>>

Pop == calls # <<>> /\ calls' = SubSeq(calls, 1, Len(calls) - 1)

Ended == errors' = IF Outermost THEN "Allowed" ELSE errors

Commit == /\ Pop /\ Ended
          /\ errors # "Fatal"
          /\ committed' = IF Outermost THEN current ELSE committed
          /\ returned' = TRUE
          /\ UNCHANGED current

Rollback == /\ Pop /\ Ended
            /\ current' = IF Outermost \/ errors = "Allowed" THEN calls[Len(calls)]
                          ELSE current
            /\ returned' = FALSE
            /\ UNCHANGED committed

Next == Begin \/ Mark \/ Fail \/ Write \/ Commit \/ Rollback

Spec == Init /\ [][Next]_vars
=============================================================================
