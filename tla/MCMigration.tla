---------------------------- MODULE MCMigration ----------------------------
(***************************************************************************)
(* Migration for TLC: two handles of users beside the migration.  The      *)
(* handles are interchangeable where no liveness is checked.               *)
(***************************************************************************)
EXTENDS Migration, TLC

CONSTANTS h1, h2

MCHandles == {h1, h2}
MCReaders == {h2}
=============================================================================
