--------------------------- MODULE MCDatabasePool ---------------------------
(* DatabasePool for TLC: two databases, so that one is created while the   *)
(* other is closed.                                                        *)
EXTENDS DatabasePool, TLC

=============================================================================
