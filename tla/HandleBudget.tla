---------------------------- MODULE HandleBudget ----------------------------
(***************************************************************************)
(* What HandleCounter promises to the handle pool: at most MaxHandles      *)
(* handles are out at the same time, at most MaxWriters of them for        *)
(* writing, and a request is granted only while both limits allow it.      *)
(*                                                                         *)
(* HandleCounter.tla, with its condition variables and queues, is shown to *)
(* implement this module; HandlePool.tla uses an instance of it.           *)
(***************************************************************************)
EXTENDS Integers

CONSTANTS MaxHandles,  (* HandlePoolMaxAllowedNumberOfHandles               *)
          MaxWriters   (* HandlePoolMaxAllowedNumberOfWriters               *)

VARIABLES total,       (* the handles that are out                          *)
          writers      (* those that are out with a write hint              *)

budgetVars == <<total, writers>>

Full == total >= MaxHandles
WritersFull == writers >= MaxWriters
Exceeded(writeHint) == Full \/ (writeHint /\ WritersFull)

Grant(writeHint) ==
    /\ ~Exceeded(writeHint)
    /\ total' = total + 1
    /\ writers' = IF writeHint THEN writers + 1 ELSE writers

GiveBack(writeHint) ==
    /\ total > 0
    /\ writeHint => writers > 0
    /\ total' = total - 1
    /\ writers' = IF writeHint THEN writers - 1 ELSE writers

InitBudget == total = 0 /\ writers = 0

NextBudget == \E writeHint \in BOOLEAN : Grant(writeHint) \/ GiveBack(writeHint)

SpecBudget == InitBudget /\ [][NextBudget]_budgetVars

=============================================================================
