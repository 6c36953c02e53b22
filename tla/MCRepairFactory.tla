-------------------------- MODULE MCRepairFactory --------------------------
(***************************************************************************)
(* An instance of RepairFactory for TLC.  Workshops are strings, as the    *)
(* other directories are.  Two rows are one in a deposited database and    *)
(* one in its successor; the second fault falls into the recovery from the *)
(* first.                                                                  *)
(***************************************************************************)
EXTENDS RepairFactory

=============================================================================
