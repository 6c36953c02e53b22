---------------------------- MODULE LogicalTable ----------------------------
(***************************************************************************)
(* What the documentation of addMigration() promises (cpp/core/Database.hpp): *)
(* a migrating table behaves like one table, whatever the progress of the  *)
(* migration.  The table has a committed content and, while some handle is *)
(* in a transaction, the content that this handle sees.  Nothing of the    *)
(* migration is visible here: a step of the migration is a stuttering step.*)
(***************************************************************************)
CONSTANTS Handles,  \* the handles of the users of the database
          Nobody,   \* no handle is in a transaction
          Rows      \* the primary keys

VARIABLES content,  \* [exists, rows]: the committed table
          private,  \* the table as the handle in a transaction sees it
          writer,   \* the handle in a transaction, or Nobody
          saved     \* the table at the savepoint of writer, if it has one

vars == <<content, private, writer, saved>>

Table == [exists : BOOLEAN, rows : SUBSET Rows]

Init == /\ content \in Table
        /\ private = content
        /\ writer = Nobody
        /\ saved = {}

\* What one statement may do to the table.  A table that is created shows
\* the rows of its source, so rows may be there before the table is.
Effect(t) == {[t EXCEPT !.exists = TRUE], [exists |-> FALSE, rows |-> {}]}
             \cup {[t EXCEPT !.rows = @ \cup {k}] : k \in Rows}
             \cup {[t EXCEPT !.rows = @ \ {k}] : k \in Rows}

Begin(h) == /\ writer = Nobody
            /\ writer' = h
            /\ private' = content
            /\ UNCHANGED <<content, saved>>

Execute(h) == \/ /\ writer = h
                 /\ private' \in Effect(private)
                 /\ UNCHANGED <<content, writer, saved>>
              \/ /\ writer = Nobody
                 /\ content' \in Effect(content)
                 /\ private' = content'
                 /\ UNCHANGED <<writer, saved>>

Commit(h) == /\ writer = h /\ saved = {}
             /\ writer' = Nobody
             /\ content' = private
             /\ UNCHANGED <<private, saved>>

\* rollbackTransaction(), SQLite's own rollback and the end of the process.
Rollback(h) == /\ writer = h
               /\ writer' = Nobody
               /\ private' = content /\ saved' = {}
               /\ UNCHANGED content

\* A transaction inside the transaction begins, is committed, is rolled back.
Nest(h) == /\ writer = h /\ saved = {}
           /\ saved' = {private}
           /\ UNCHANGED <<content, private, writer>>

Unnest(h) == /\ writer = h
             /\ saved' = {}
             /\ private' \in saved \cup {private}
             /\ UNCHANGED <<content, writer>>

Next == \E h \in Handles : \/ Begin(h) \/ Execute(h) \/ Commit(h) \/ Rollback(h)
                           \/ Nest(h) \/ Unnest(h)

Spec == Init /\ [][Next]_vars
=============================================================================
