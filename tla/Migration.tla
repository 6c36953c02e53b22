----------------------------- MODULE Migration -----------------------------
(***************************************************************************)
(* Data migration: Migration.cpp and the decorators that rewrite the       *)
(* statements of the users.  The rows of a source table move to a target   *)
(* table in the background while the users work on the target table; a     *)
(* statement on a table that migrates is compiled for both tables (reads   *)
(* go through a temporary view that unites them).  One pair of tables is   *)
(* modelled; rows are their primary keys.                                  *)
(*                                                                         *)
(* The handles of the users and the handle of the migration interleave;    *)
(* BEGIN IMMEDIATE makes their write transactions exclusive and a handle   *)
(* in a transaction sees its own writes, everyone else the last commit.    *)
(* The process may end at any point: only the two tables survive.          *)
(***************************************************************************)
EXTENDS Integers, FiniteSets

CONSTANTS Handles,        \* handles of the users
          Worker,         \* the handle of stepMigration()
          Nobody,         \* no handle is in a write transaction
          Readers,        \* handles of users that only prepare SELECTs
          MaxRow,         \* bound: primary keys are 1 .. MaxRow
          MaxEvents,      \* bound: failing queries and writes, rollbacks by
                          \* SQLite, torn commits and savepoints together
          CrossDatabase,  \* the source table is in another database file
          CreatesFirst    \* a table is created outside transactions and
                          \* before another handle uses it

ASSUME ProcessAssumption == /\ Worker \notin Handles /\ Nobody \notin Handles
                            /\ Worker # Nobody /\ IsFiniteSet(Handles)
                            /\ Readers \subseteq Handles
ASSUME BoundAssumption == MaxRow \in Nat /\ MaxEvents \in Nat
ASSUME FlagAssumption == {CrossDatabase, CreatesFirst} \subseteq BOOLEAN

Rows  == 1 .. MaxRow
Procs == Handles \cup {Worker}

VARIABLES m,       \* the shared state of Migration, under m_lock
          db,      \* the two tables as committed
          work,    \* the two tables as the transaction of writer sees them
          writer,  \* the handle in a write transaction, or Nobody
          st,      \* per handle: how far its prepare() is, or its statement
          b,       \* per handle of a user: its Binder and its temporary view
          w,       \* what stepMigration() does next, and what it read
          events,  \* how many of those that MaxEvents bounds there were
          torn,    \* a commit of two files was cut in half
          strayed, \* a write that should have gone to both tables did not
          save     \* the savepoint of the writer: none, or the tables and
                   \* whether its view exists there

vars == <<m, db, work, writer, st, b, w, events, torn, strayed, save>>

-----------------------------------------------------------------------------
(* The shared state.  There is one MigrationInfo: m_migratings and         *)
(* m_dumpster hold it or not, m_referenceds counts its users.              *)

Absent == -1   \* the info is not a key of m_referenceds

MigrationState == [filted : {"unknown", "null", "info"}, migratings : BOOLEAN,
                   referenceds : {Absent} \cup Nat, dumpster : BOOLEAN,
                   hints : BOOLEAN, tableAcquired : BOOLEAN]

purged == [filted |-> "unknown", migratings |-> FALSE, referenceds |-> Absent,
           dumpster |-> FALSE, hints |-> FALSE, tableAcquired |-> FALSE]

markAsNoNeedToMigrate(x) ==
    [x EXCEPT !.filted = IF @ = "unknown" THEN "null" ELSE @, !.hints = FALSE]

\* The end of initInfo(), under the lock; targetTableExists was read before.
registerInfo(x, targetTableExists) ==
    IF x.filted # "unknown" THEN x
    ELSE IF targetTableExists
         THEN [x EXCEPT !.filted = "info", !.migratings = TRUE,
                        !.referenceds = 0, !.hints = FALSE]
         ELSE [x EXCEPT !.hints = TRUE, !.tableAcquired = FALSE]

markAsUnreferenced(x) == [x EXCEPT !.referenceds = Absent, !.dumpster = TRUE]

markAsDropped(x) == [x EXCEPT !.dumpster = FALSE]

\* A table that is still referenced is dropped later, by its last user.
markAsMigrated(x) ==
    LET y == [x EXCEPT !.migratings = FALSE]
    IN  IF y.referenceds = 0 THEN markAsUnreferenced(y) ELSE y

retainInfo(x) == [x EXCEPT !.referenceds = @ + 1]

releaseInfo(x) ==
    LET y == [x EXCEPT !.referenceds = @ - 1]
    IN  IF y.referenceds = 0 /\ ~y.migratings THEN markAsUnreferenced(y) ELSE y

\* A mutant of rebound: the reference of the earlier prepare() is kept.
RetainTwice(x, referenced) == IF x.migratings THEN retainInfo(x) ELSE x

\* getInfo() and the assignment in bindTable(): the new reference is taken
\* before the one of an earlier prepare() is dropped.
rebound(x, referenced) ==
    LET y == IF x.migratings THEN retainInfo(x) ELSE x
    IN  IF referenced THEN releaseInfo(y) ELSE y

-----------------------------------------------------------------------------
(* The tables.  Rows are never in a table that does not exist.             *)

Tables == [hasTarget : BOOLEAN, target : SUBSET Rows,
           hasSource : BOOLEAN, source : SUBSET Rows]

Sees(p) == IF writer = p THEN work ELSE db

\* What the commit of a batch leaves behind when the process ends between the
\* two files: with write-ahead logs the main file is committed first.
HalfCommitted == [db EXCEPT !.hasTarget = work.hasTarget, !.target = work.target]

\* The statements that MigrationInfo generates, by what they do to the tables.
\* Keys that SQLite or stepInsert() choose are among those the caller may give;
\* a key that is taken fails (stepFails) or, with OR REPLACE, is replaced.
stepInsert(t, union) ==
    {[t EXCEPT !.target = @ \cup {k}, !.source = IF union THEN @ \ {k} ELSE @] :
        k \in Rows}

stepUpdateOrDelete(t, union) ==
    {[t EXCEPT !.target = @ \ {k}, !.source = IF union THEN @ \ {k} ELSE @] : k \in Rows}

\* The source table is emptied and left for the stepper to drop.
dropTable(t, union) ==
    [t EXCEPT !.hasTarget = FALSE, !.target = {}, !.source = IF union THEN {} ELSE @]

createTable(t) == [t EXCEPT !.hasTarget = TRUE]

Outcomes(t, s) ==
    CASE s.kind = "write"  -> stepInsert(t, s.union) \cup stepUpdateOrDelete(t, s.union)
                              \cup {dropTable(t, s.union)}
      [] s.kind = "create" -> {createTable(t)}
      [] OTHER             -> {t}

-----------------------------------------------------------------------------
(* prepare() on a handle of a user.  It goes through the program counters  *)
(*   init, register : initInfo(), when the table is not known              *)
(*   again          : getInfo() once more                                  *)
(*   compile        : stopBinding() and the SQL compiler                   *)
(*   ready          : prepared; idle: finalized                            *)

Kinds == {"select", "write", "create"}

\* INSERT, UPDATE, DELETE and DROP TABLE are bound in the same way and differ
\* by what they do to the tables; a SELECT on a handle that writes is bound
\* like its writes.
KindsOf(h) == IF h \in Readers THEN {"select"} ELSE Kinds \ {"select"}

Statement == [pc : {"idle", "init", "register", "again", "compile", "ready",
                    "acquired"},
              kind : Kinds, exists : BOOLEAN, union : BOOLEAN,
              missed : BOOLEAN]  \* bound to nothing because a query failed

idle == [pc |-> "idle", kind |-> "select", exists |-> FALSE, union |-> FALSE,
         missed |-> FALSE]

Binder == [referenced : BOOLEAN,  \* m_referenceds holds the info
           binding    : BOOLEAN,  \* m_bindings
           bound      : BOOLEAN,  \* m_bounds
           rebind     : BOOLEAN,  \* m_rebind
           view       : BOOLEAN,  \* the temporary view exists
           oldView    : BOOLEAN,  \* it existed when the transaction began
           newView    : BOOLEAN,  \* m_createdNewViewInTransaction
           lost       : BOOLEAN]  \* the flag was reset too early: the view may
                                  \* go without m_bounds being cleared

unbound == [referenced |-> FALSE, binding |-> FALSE, bound |-> FALSE,
            rebind |-> FALSE, view |-> FALSE, oldView |-> FALSE,
            newView |-> FALSE, lost |-> FALSE]

Goto(p, pc) == st' = [st EXCEPT ![p].pc = pc]
WGoto(pc)   == w' = [w EXCEPT !.pc = pc]

\* getInfo() inside bindTable(), once m_filted knows the table.
bindTable(h, s) ==
    /\ m' = rebound(m, b[h].referenced)
    /\ b' = [b EXCEPT ![h].referenced = m.migratings]
    /\ st' = [st EXCEPT ![h] = [s EXCEPT !.pc = "compile", !.union = m.migratings]]

\* A CREATE TABLE only hints that there will be a table.
prepare(h, k) ==
    LET s == [idle EXCEPT !.kind = k]
    IN  /\ st[h].pc = "idle"
        /\ \/ /\ k # "create" /\ m.filted # "unknown"
              /\ bindTable(h, s)
           \/ /\ k = "create" \/ m.filted = "unknown"
              /\ st' = [st EXCEPT ![h] = [s EXCEPT !.pc = "init"]]
              /\ UNCHANGED <<m, b>>
        /\ UNCHANGED <<db, work, writer, w, events, torn, strayed, save>>

\* Where initInfo() returns to.
AfterInit(p) == IF p = Worker THEN "acquired"
                ELSE IF st[p].kind = "create" THEN "compile" ELSE "again"

\* The queries of initInfo().  They can be one step: a source table goes
\* away only after m_filted has the table, and then registerInfo() does nothing.
checkTables(p) ==
    /\ st[p].pc = "init"
    /\ \/ /\ Sees(p).hasSource
          /\ st' = [st EXCEPT ![p].pc = "register", ![p].exists = Sees(p).hasTarget]
          /\ UNCHANGED m
       \/ /\ ~Sees(p).hasSource
          /\ Goto(p, AfterInit(p))
          /\ m' = markAsNoNeedToMigrate(m)
    /\ UNCHANGED <<db, work, writer, b, w, events, torn, strayed, save>>

initInfo(p) ==
    /\ st[p].pc = "register"
    /\ m' = registerInfo(m, st[p].exists)
    /\ st' = [st EXCEPT ![p].pc = AfterInit(p), ![p].exists = FALSE]
    /\ UNCHANGED <<db, work, writer, b, w, events, torn, strayed, save>>

\* A query of initInfo() fails.  The statement that creates a table is not
\* prepared and tryAcquireTables() gives up, but bindTable() answers a
\* succeeding null: any other statement is compiled for the target alone.
initInfoFails(p) ==
    /\ st[p].pc = "init"
    /\ events < MaxEvents /\ events' = events + 1
    /\ \/ /\ p = Worker
          /\ st' = [st EXCEPT ![p] = idle] /\ WGoto("idle")
       \/ /\ p # Worker /\ UNCHANGED w
          /\ st' = [st EXCEPT ![p] =
                       IF @.kind = "create" THEN idle
                       ELSE [@ EXCEPT !.pc = "compile", !.missed = TRUE]]
    /\ UNCHANGED <<m, db, work, writer, b, torn, strayed, save>>

\* The second getInfo() of getOrInitInfo(); a table that is still not known
\* (it was not created) is bound to nothing.
getOrInitInfo(h) ==
    /\ st[h].pc = "again"
    /\ \/ /\ m.filted = "unknown"
          /\ Goto(h, "compile")
          /\ UNCHANGED <<m, b>>
       \/ /\ m.filted # "unknown"
          /\ bindTable(h, st[h])
    /\ UNCHANGED <<db, work, writer, w, events, torn, strayed, save>>

\* tryUpdateSequence() fails: the reference that getInfo() has just taken is
\* given back, the one of an earlier prepare() stays, and bindTable() answers
\* a succeeding null here as well.
updateSequenceFails(h, k) ==
    /\ \/ st[h].pc = "idle" /\ k # "create"
       \/ st[h].pc = "again" /\ k = st[h].kind
    /\ m.migratings
    /\ events < MaxEvents /\ events' = events + 1
    /\ st' = [st EXCEPT ![h] = [idle EXCEPT !.pc = "compile", !.kind = k, !.missed = TRUE]]
    /\ UNCHANGED <<m, db, work, writer, b, w, torn, strayed, save>>

\* stopBinding(): tryReduceBounds(), then what this handle references; the
\* view follows the bindings.
stopBinding(x, inTransaction) ==
    LET needed == (x.binding /\ m.migratings) \/ x.referenced
        y == [x EXCEPT !.binding = needed]
    IN  IF x.rebind \/ x.bound # needed
        THEN [y EXCEPT !.bound = needed, !.rebind = FALSE, !.view = needed,
                       !.newView = @ \/ (inTransaction /\ needed /\ ~x.view),
                       !.lost = @ /\ inTransaction]
        ELSE y

\* Whether SQLite finds the tables of a statement.
Compiles(t, s, view) ==
    \/ s.kind = "create"
    \/ t.hasTarget /\ (s.union => t.hasSource /\ view)

compile(h) ==
    LET x == stopBinding(b[h], writer = h)
    IN  /\ st[h].pc = "compile"
        /\ \/ /\ Compiles(Sees(h), st[h], x.view)
              /\ Goto(h, "ready")
           \/ /\ ~Compiles(Sees(h), st[h], x.view)
              /\ st' = [st EXCEPT ![h] = idle]
        /\ b' = [b EXCEPT ![h] = x]
        /\ UNCHANGED <<m, db, work, writer, w, events, torn, strayed, save>>

\* bindInfos() fails before or after the views are bound, and prepare() with
\* it; m_rebind makes the next prepare() bind them again.
bindInfosFails(h) ==
    LET x == stopBinding(b[h], writer = h)
    IN  /\ st[h].pc = "compile"
        /\ b[h].rebind \/ x.bound # b[h].bound
        /\ events < MaxEvents /\ events' = events + 1
        /\ st' = [st EXCEPT ![h] = idle]
        /\ \E y \in {b[h], x} :
              b' = [b EXCEPT ![h] = [y EXCEPT !.binding = x.binding, !.rebind = TRUE,
                                              !.bound = b[h].bound]]
        /\ UNCHANGED <<m, db, work, writer, w, torn, strayed, save>>

\* A prepared statement that SQLite can run now.
Works(h) == Compiles(Sees(h), st[h], b[h].view)

\* Others prepare or use the table, or this handle is in a transaction.
Uses(h) == writer = h \/ \E g \in Handles \ {h} : st[g].pc # "idle"

\* What commitTransaction() and rollbackTransaction() of the decorator do to
\* the Binder after those of the handle, at any level of nesting: a rollback
\* clears m_bounds only if the flag is set, and resets the flag.
committed(x) == [x EXCEPT !.newView = FALSE, !.lost = @ /\ ~x.view]

rolledBack(x) ==
    IF x.newView THEN [x EXCEPT !.bound = FALSE, !.rebind = TRUE, !.newView = FALSE]
    ELSE x

\* step(): the statements of one write are one transaction or savepoint.
step(h) ==
    /\ st[h].pc = "ready" /\ st[h].kind # "select" /\ Works(h)
    /\ writer \in {h, Nobody}
    /\ st[h].kind = "create" /\ CreatesFirst => ~Uses(h)
    /\ work' \in Outcomes(Sees(h), st[h])
    /\ db' = IF writer = h THEN db ELSE work'
    /\ b' = [b EXCEPT ![h] = IF writer = Nobody /\ st[h].union
                             THEN committed(b[h]) ELSE b[h]]
    /\ strayed' = (strayed \/ (st[h].missed /\ Sees(h).source # {}))
    /\ UNCHANGED <<m, writer, st, w, events, torn, save>>

\* A write on both tables fails, a key being taken for instance, and
\* runTransaction() rolls it back: to its own savepoint inside a transaction.
stepFails(h) ==
    /\ st[h].pc = "ready" /\ st[h].kind # "select" /\ st[h].union
    /\ writer \in {h, Nobody}
    /\ events < MaxEvents /\ events' = events + 1
    /\ b' = [b EXCEPT ![h] = [rolledBack(b[h]) EXCEPT !.lost = b[h].lost \/ b[h].newView]]
    /\ UNCHANGED <<m, db, work, writer, st, w, torn, strayed, save>>

finalize(h) ==
    /\ st[h].pc = "ready"
    /\ st' = [st EXCEPT ![h] = idle]
    /\ UNCHANGED <<m, db, work, writer, b, w, events, torn, strayed, save>>

\* HandlePool::flowBack() calls finalizeStatements(): the references end, the
\* bindings and the view stay with the handle.
finalizeStatements(h) ==
    /\ st[h].pc = "idle" /\ writer # h /\ b[h].referenced
    /\ m' = releaseInfo(m)
    /\ b' = [b EXCEPT ![h].referenced = FALSE]
    /\ UNCHANGED <<db, work, writer, st, w, events, torn, strayed, save>>

-----------------------------------------------------------------------------
(* Transactions of the users.                                              *)

beginTransaction(h) ==
    /\ st[h].pc = "idle" /\ writer = Nobody /\ h \notin Readers
    /\ writer' = h
    /\ b' = [b EXCEPT ![h].oldView = b[h].view]
    /\ UNCHANGED <<m, db, work, st, w, events, torn, strayed, save>>

\* A transaction ends after its statements are finalized.
MayEnd(h) == writer = h /\ st[h].pc = "idle"

commitTransaction(h) ==
    /\ MayEnd(h) /\ save = {}
    /\ writer' = Nobody /\ db' = work
    /\ b' = [b EXCEPT ![h] = [committed(b[h]) EXCEPT !.oldView = FALSE]]
    /\ UNCHANGED <<m, work, st, w, events, torn, strayed, save>>

\* A mutant of rollbackTransaction: the handle keeps its bindings.
RollbackKeepsBounds(h) ==
    /\ MayEnd(h) /\ save = {}
    /\ writer' = Nobody /\ work' = db
    /\ b' = [b EXCEPT ![h].view = b[h].oldView, ![h].oldView = FALSE, ![h].newView = FALSE]
    /\ UNCHANGED <<m, db, st, w, events, torn, strayed, save>>

\* The temporary view is rolled back too.
rollbackTransaction(h) ==
    /\ MayEnd(h) /\ save = {}
    /\ writer' = Nobody /\ work' = db
    /\ b' = [b EXCEPT ![h] = [rolledBack(b[h]) EXCEPT
                                !.view = b[h].oldView, !.oldView = FALSE,
                                !.lost = b[h].lost /\ ~b[h].newView]]
    /\ UNCHANGED <<m, db, st, w, events, torn, strayed, save>>

\* A transaction inside a transaction is a savepoint; one level is modelled.
beginSavepoint(h) ==
    /\ MayEnd(h) /\ save = {}
    /\ events < MaxEvents /\ events' = events + 1
    /\ save' = {[tables |-> work, view |-> b[h].view]}
    /\ UNCHANGED <<m, db, work, writer, st, b, w, torn, strayed>>

releaseSavepoint(h) ==
    /\ MayEnd(h) /\ save # {}
    /\ save' = {}
    /\ UNCHANGED <<m, db, work, writer, st, b, w, events, torn, strayed>>

\* m_createdNewViewInTransaction is reset although a view that was created
\* before the savepoint is still to be rolled back with the transaction.
rollbackToSavepoint(h) ==
    /\ MayEnd(h)
    /\ \E r \in save :
          /\ work' = r.tables
          /\ b' = [b EXCEPT ![h] = [rolledBack(b[h]) EXCEPT
                                      !.view = r.view,
                                      !.lost = b[h].lost \/ (b[h].newView /\ r.view)]]
    /\ save' = {}
    /\ UNCHANGED <<m, db, writer, st, w, events, torn, strayed>>

\* SQLite rolls the transaction back by itself when a statement meets a full
\* disk, an I/O error or an interrupt.  A write on both tables calls
\* rollbackTransaction() at once, with no savepoint left to roll back to.
sqliteRollsBack(h) ==
    LET x == [b[h] EXCEPT !.view = b[h].oldView, !.oldView = FALSE,
                          !.lost = @ \/ b[h].newView]
    IN  /\ writer = h /\ st[h].pc = "ready"
        /\ events < MaxEvents /\ events' = events + 1
        /\ writer' = Nobody /\ work' = db /\ save' = {}
        /\ b' = [b EXCEPT ![h] = IF st[h].union /\ st[h].kind # "select"
                                 THEN rolledBack(x) ELSE x]
        /\ UNCHANGED <<m, db, st, w, torn, strayed>>

\* The user ends a transaction that SQLite has ended already.
endRolledBack(h) ==
    /\ writer # h /\ st[h].pc = "idle" /\ b[h].newView
    /\ b' \in {[b EXCEPT ![h] = committed(b[h])],
                [b EXCEPT ![h] = [rolledBack(b[h]) EXCEPT !.lost = FALSE]]}
    /\ UNCHANGED <<m, db, work, writer, st, w, events, torn, strayed, save>>

-----------------------------------------------------------------------------
(* stepMigration(): drop a source table that nobody references any more,   *)
(* else move some rows, else look for tables.  (The flag that isMigrated() *)
(* answers when there is nothing left to do is read by no other code.)     *)

Work == [pc : {"idle", "drop", "dropSource", "markDropped", "migrate", "commit",
               "mark", "acquire"},
         migrated : BOOLEAN]

resting == [pc |-> "idle", migrated |-> FALSE]

\* What tryDropUnreferencedTable(), tryMigrateRows() and tryAcquireTables()
\* find, one after the other, under the shared lock.
stepMigration ==
    /\ w.pc = "idle"
    /\ \/ m.dumpster /\ WGoto("drop") /\ UNCHANGED st
       \/ m.migratings /\ WGoto(IF db.hasTarget THEN "migrate" ELSE "mark") /\ UNCHANGED st
       \/ /\ ~m.dumpster /\ ~m.migratings /\ ~m.tableAcquired
          /\ WGoto("acquire")
          /\ Goto(Worker, IF db.hasTarget \/ m.hints THEN "init" ELSE "acquired")
    /\ UNCHANGED <<m, db, work, writer, b, events, torn, strayed, save>>

\* A source table that has rows is kept (its filter leaves some behind).
selectAnyRow ==
    /\ w.pc = "drop"
    /\ WGoto(CASE ~db.hasSource -> "idle"
               [] db.source = {} -> "dropSource"
               [] OTHER -> "markDropped")
    /\ UNCHANGED <<m, db, work, writer, st, b, events, torn, strayed, save>>

dropSourceTable ==
    /\ w.pc = "dropSource" /\ writer = Nobody
    /\ db' = [db EXCEPT !.hasSource = FALSE, !.source = {}]
    /\ work' = db'
    /\ WGoto("markDropped")
    /\ UNCHANGED <<m, writer, st, b, events, torn, strayed, save>>

sourceTableDropped ==
    /\ w.pc = "markDropped"
    /\ m' = markAsDropped(m)
    /\ WGoto("idle")
    /\ UNCHANGED <<db, work, writer, st, b, events, torn, strayed, save>>

\* INSERT OR IGNORE of the last row and DELETE of the last row, until the
\* insert changes nothing (then the table counts as migrated) or the batch is
\* cut short: some rows from the end, none of which the target has.
LastRows(t) == {r \in SUBSET (t.source \ t.target) :
                    \A i \in r, j \in t.source \ r : j < i}

\* A mutant of rowsMoved: the rows deleted are not the rows inserted.
DeletesOtherRows(t, r) ==
    [t EXCEPT !.target = @ \cup r,
              !.source = {i \in @ : Cardinality({j \in @ : j < i}) >= Cardinality(r)}]

rowsMoved(t, r) == [t EXCEPT !.target = @ \cup r, !.source = @ \ r]

\* A mutant of nothingMoves: one row too early.
MigratedEarly(t) == Cardinality(t.source) <= 1

nothingMoves(t) == LastRows(t) = {{}}

\* The statements are prepared, which fails if the target was dropped, and
\* the batch runs in a transaction.
migrateRows ==
    /\ w.pc = "migrate" /\ writer = Nobody
    /\ \/ /\ ~db.hasTarget
          /\ WGoto("idle")
          /\ UNCHANGED <<work, writer>>
       \/ /\ db.hasTarget
          /\ writer' = Worker
          /\ \E r \in LastRows(db), migrated \in BOOLEAN :
                /\ migrated => nothingMoves(rowsMoved(db, r))
                /\ r = {} => migrated
                /\ work' = rowsMoved(db, r)
                /\ w' = [pc |-> "commit", migrated |-> migrated]
    /\ UNCHANGED <<m, db, st, b, events, torn, strayed, save>>

rowsMigrated ==
    /\ w.pc = "commit"
    /\ writer' = Nobody /\ db' = work
    /\ w' = [pc |-> IF w.migrated THEN "mark" ELSE "idle", migrated |-> FALSE]
    /\ UNCHANGED <<m, work, st, b, events, torn, strayed, save>>

\* An error inside the batch, or in its COMMIT.
migrateRowsFails ==
    /\ w.pc = "commit"
    /\ writer' = Nobody /\ work' = db /\ w' = resting
    /\ UNCHANGED <<m, db, st, b, events, torn, strayed, save>>

tableMigrated ==
    /\ w.pc = "mark"
    /\ m' = markAsMigrated(m)
    /\ WGoto("idle")
    /\ UNCHANGED <<db, work, writer, st, b, events, torn, strayed, save>>

tablesAcquired ==
    /\ st[Worker].pc = "acquired"
    /\ m' = [m EXCEPT !.tableAcquired = TRUE]
    /\ st' = [st EXCEPT ![Worker] = idle]
    /\ WGoto("idle")
    /\ UNCHANGED <<db, work, writer, b, events, torn, strayed, save>>

-----------------------------------------------------------------------------
\* The process ends, maybe inside the COMMIT of a batch, and starts again.
crash ==
    /\ \/ db' = db /\ torn' = torn /\ events' = events
       \/ /\ CrossDatabase /\ w.pc = "commit"
          /\ events < MaxEvents /\ events' = events + 1
          /\ db' = HalfCommitted /\ torn' = TRUE
    /\ work' = db' /\ writer' = Nobody
    /\ m' = purged /\ w' = resting
    /\ st' = [p \in Procs |-> idle]
    /\ b' = [h \in Handles |-> unbound]
    /\ save' = {} /\ UNCHANGED strayed

Init ==
    /\ db \in {t \in Tables : /\ ~t.hasTarget => t.target = {}
                              /\ ~t.hasSource => t.source = {}
                              /\ t.target \cap t.source = {}}
    /\ work = db /\ writer = Nobody
    /\ m = purged /\ w = resting
    /\ st = [p \in Procs |-> idle]
    /\ b = [h \in Handles |-> unbound]
    /\ events = 0 /\ torn = FALSE /\ strayed = FALSE /\ save = {}

User(h) ==
    \/ \E k \in KindsOf(h) : prepare(h, k) \/ updateSequenceFails(h, k)
    \/ getOrInitInfo(h) \/ compile(h) \/ bindInfosFails(h)
    \/ step(h) \/ stepFails(h) \/ finalize(h) \/ finalizeStatements(h)
    \/ beginTransaction(h) \/ commitTransaction(h) \/ rollbackTransaction(h)
    \/ beginSavepoint(h) \/ releaseSavepoint(h) \/ rollbackToSavepoint(h)
    \/ sqliteRollsBack(h) \/ endRolledBack(h)

initTable(p) == checkTables(p) \/ initInfo(p) \/ initInfoFails(p)

Stepper == stepMigration \/ selectAnyRow \/ sourceTableDropped
           \/ dropSourceTable \/ migrateRows \/ rowsMigrated \/ migrateRowsFails
           \/ tableMigrated \/ tablesAcquired

Next == \/ \E h \in Handles : User(h)
        \/ \E p \in Procs : initTable(p)
        \/ Stepper \/ crash

Spec == Init /\ [][Next]_vars

-----------------------------------------------------------------------------
(* Properties.                                                             *)

TypeOK ==
    /\ m \in MigrationState
    /\ db \in Tables /\ work \in Tables
    /\ writer \in Procs \cup {Nobody}
    /\ st \in [Procs -> Statement] /\ b \in [Handles -> Binder]
    /\ w \in Work /\ events \in 0 .. MaxEvents
    /\ torn \in BOOLEAN /\ strayed \in BOOLEAN
    /\ save \subseteq [tables : Tables, view : BOOLEAN]

\* The count in m_referenceds is the number of handles that hold the info;
\* an info waits in the dumpster only when it neither migrates nor is held,
\* and one that is no longer held is not forgotten: what the WCTAsserts of
\* markAsUnreferenced(), markAsDropped(), markAsMigrated(), retainInfo() and
\* releaseInfo() say, however prepare(), flowBack() and the steps interleave.
ReferencesExact ==
    /\ TypeOK
    /\ m.referenceds = Absent => \A h \in Handles : ~b[h].referenced
    /\ m.referenceds # Absent =>
          m.referenceds = Cardinality({h \in Handles : b[h].referenced})
    /\ m.referenceds = 0 => m.migratings
    /\ m.migratings => m.referenceds # Absent
    /\ m.dumpster => ~m.migratings /\ m.referenceds = Absent
    /\ m.filted # "info" => m.referenceds = Absent /\ ~m.dumpster
    /\ w.pc \in {"migrate", "commit", "mark"} => m.migratings
    /\ w.pc \in {"drop", "dropSource", "markDropped"} => m.dumpster

\* As long as no commit was torn, a prepared statement works on every row of
\* the logical table exactly once: it was compiled for both tables unless the
\* source has no rows left, and no row is in both.  A statement lives across
\* steps of the migration, so it may have been compiled long before.  The only
\* statements that are not compiled so are those whose prepare() met a failing
\* query (missed), which bindTable() hides; until one of them writes (strayed),
\* they harm nobody else.
ReadsSeeEverything ==
    \A h \in Handles : LET t == Sees(h) IN
        ~torn /\ ~strayed
        /\ st[h].pc = "ready" /\ st[h].kind # "create" /\ t.hasTarget =>
            /\ st[h].union \/ st[h].missed \/ t.source = {}
            /\ t.target \cap t.source = {}

\* prepare() on an existing target table succeeds, and what it compiled keeps
\* working: neither the source table nor the view of the handle goes away
\* under a statement, not by the migration and not by a rollback of the
\* transaction or of the savepoint in which the view was created.  It is not
\* so on a handle whose flag was reset before its view went (lost): by a
\* rollback of an inner transaction or of a failing write after the view was
\* created, or because SQLite rolled the transaction back itself; then it
\* is so again after a commit, or a rollback that finds the flag set.
StatementsWork ==
    \A h \in Handles :
        st[h].pc \in {"compile", "ready"} /\ Sees(h).hasTarget /\ ~b[h].lost =>
            Compiles(Sees(h), st[h],
                     IF st[h].pc = "ready" THEN b[h].view
                     ELSE stopBinding(b[h], writer = h).view)

\* The documentation of addMigration(): the target table behaves as if it had
\* the rows of the source.  Users write one table with nested transactions, and
\* no step of the migration, failure of a batch or of a query, rollback or end
\* of the process changes it, not even one that tears the commit of a batch.
\* What may go wrong are the steps after a torn commit, and those from a write
\* on that was compiled for the target alone because a query failed (strayed).
Logical(t) == [exists |-> t.hasTarget, rows |-> t.target \cup t.source]
LT == INSTANCE LogicalTable WITH
        content <- Logical(db),
        private <- Logical(IF writer \in Handles THEN work ELSE db),
        writer  <- IF writer \in Handles THEN writer ELSE Nobody,
        saved   <- {Logical(r.tables) : r \in save}
ImplementsLogicalTable == LT!Init /\ [][torn \/ strayed' \/ LT!Next]_(LT!vars)

=============================================================================
