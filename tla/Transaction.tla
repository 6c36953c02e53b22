---------------------------- MODULE Transaction ----------------------------
(***************************************************************************)
(* Transactions of a handle: AbstractHandle counts the open transactions   *)
(* and names a savepoint after each nested level; SQLite keeps the stack   *)
(* of savepoints and may end the whole transaction by itself when a        *)
(* statement fails.  A thread calls begin and end of transactions properly *)
(* nested, as runTransaction() does; a transaction may also be begun by an *)
(* SQL statement, without the knowledge of the handle.                     *)
(***************************************************************************)
EXTENDS Naturals, Sequences

CONSTANTS Writes,         \* what may be written
          MaxLevel,       \* bound: depth of open transactions
          MaxFrames       \* bound: savepoints, the ones that ROLLBACK TO leaves too

ASSUME LevelAssumption == MaxLevel \in Nat \ {0} /\ MaxFrames \in Nat

VARIABLES db,             \* what is committed
          data,           \* what the handle sees
          frames,         \* SQLite: BEGIN and the savepoints; empty: autocommit
          m_transactionLevel,
          m_transactionError,
          transactioned,  \* m_transactionedHandles of this thread is set
          calls,          \* what the open transactions of the thread saw first
          returned,       \* the answer of the last call
          interrupted,    \* history: SQLite ended a transaction by itself and
                          \* the outermost call has not come back yet
          unguarded       \* history: a step() began or ended a transaction, and
                          \* no TransactionGuard has seen one begin or end since

vars == <<db, data, frames, m_transactionLevel, m_transactionError,
          transactioned, calls, returned, interrupted, unguarded>>

Errors == {"Allowed", "NotAllowed", "Fatal"}

isInTransaction == frames # <<>>

\* A savepoint has the name of its level; BEGIN is level 1.
Frame == [name : 1 .. MaxLevel, saved : SUBSET Writes]

\* The last frame of that name.
Find(fs, name) == CHOOSE i \in DOMAIN fs :
                    fs[i].name = name /\ \A j \in DOMAIN fs : j > i => fs[j].name # name

Has(name) == \E i \in DOMAIN frames : frames[i].name = name

\* An error that is reported while errors are not allowed is fatal.
notifyError(error) == IF error = "Allowed" THEN error ELSE "Fatal"

\* TransactionGuard: a call that begins a transaction leaves the handle with
\* the thread, one that ends it takes the handle from the thread.
TransactionGuard ==
    IF isInTransaction = (frames' # <<>>) THEN UNCHANGED <<transactioned, unguarded>>
    ELSE transactioned' = (frames' # <<>>) /\ unguarded' = FALSE

\* step() of a prepared statement has no guard.
Unguarded == UNCHANGED transactioned /\ unguarded' = TRUE

Opened == calls' = Append(calls, data) /\ returned' = TRUE

Closed(answer) == /\ calls' = SubSeq(calls, 1, Len(calls) - 1) /\ returned' = answer
                  /\ interrupted' = (interrupted /\ Len(calls) > 1)

-----------------------------------------------------------------------------
markErrorNotAllowedWithinTransaction ==
    /\ m_transactionError = "Allowed"
    /\ m_transactionError' = "NotAllowed"
    /\ UNCHANGED <<db, data, frames, m_transactionLevel, transactioned, calls,
                   returned, interrupted, unguarded>>

\* The level with which beginTransaction() goes on.
SyncedLevel == IF ~isInTransaction THEN 0
               ELSE IF m_transactionLevel = 0 THEN 1 ELSE m_transactionLevel

\* Without savepoint a nested transaction is only a number.
beginTransaction ==
    /\ Len(calls) < MaxLevel /\ Len(frames) < MaxFrames
    /\ Opened
    /\ m_transactionLevel' = SyncedLevel + 1
    /\ frames' = IF SyncedLevel = 0 \/ m_transactionError = "Allowed"
                 THEN Append(frames, [name |-> SyncedLevel + 1, saved |-> data])
                 ELSE frames
    /\ TransactionGuard
    /\ UNCHANGED <<db, data, m_transactionError, interrupted>>

\* BEGIN IMMEDIATE or SAVEPOINT fails.
beginFails ==
    /\ Len(calls) < MaxLevel
    /\ SyncedLevel = 0 \/ m_transactionError = "Allowed"
    /\ m_transactionLevel' = SyncedLevel
    /\ m_transactionError' = notifyError(m_transactionError)
    /\ returned' = FALSE
    /\ UNCHANGED <<db, data, frames, transactioned, calls, interrupted, unguarded>>

\* A BEGIN as a statement, of which the level knows nothing.
BEGIN ==
    /\ ~isInTransaction /\ calls = <<>>
    /\ Opened
    /\ frames' = <<[name |-> 1, saved |-> data]>>
    /\ UNCHANGED <<db, data, m_transactionLevel, m_transactionError, interrupted>>

executeBegin == BEGIN /\ TransactionGuard

stepBegin == BEGIN /\ Unguarded

\* A write by execute(), or by prepare() and step().
execute(k) ==
    /\ data' = data \cup {k}
    /\ db' = IF isInTransaction THEN db ELSE data'
    /\ returned' = TRUE
    /\ UNCHANGED <<frames, m_transactionLevel, m_transactionError, transactioned,
                   calls, interrupted, unguarded>>

executeFails ==
    /\ m_transactionError' = notifyError(m_transactionError)
    /\ returned' = FALSE
    /\ UNCHANGED <<db, data, frames, m_transactionLevel, transactioned, calls,
                   interrupted, unguarded>>

\* An interrupt, a full disk or an I/O error: SQLite rolls back by itself.
RollbackAll ==
    /\ isInTransaction
    /\ frames' = <<>> /\ data' = db
    /\ m_transactionError' = notifyError(m_transactionError)
    /\ returned' = FALSE /\ interrupted' = TRUE
    /\ UNCHANGED <<db, m_transactionLevel, calls>>

executeInterrupted == RollbackAll /\ TransactionGuard

stepInterrupted == RollbackAll /\ Unguarded

-----------------------------------------------------------------------------
\* A mutant of Nested: the outermost level is taken for a nested one.
NestedFromFirst == m_transactionLevel > 0

Nested == m_transactionLevel > 1

Decremented == m_transactionLevel' = m_transactionLevel - 1 /\ UNCHANGED m_transactionError

Reset == m_transactionLevel' = 0 /\ m_transactionError' = "Allowed"

\* RELEASE removes the savepoint and those inside it.
RELEASE == frames' = SubSeq(frames, 1, Find(frames, m_transactionLevel) - 1)

\* A mutant of ROLLBACK_TO: the savepoint of the level below, if it has one.
RollsBackTooFar ==
    LET below == IF Has(m_transactionLevel - 1) THEN m_transactionLevel - 1
                 ELSE m_transactionLevel
        i == Find(frames, below)
    IN  frames' = SubSeq(frames, 1, i) /\ data' = frames[i].saved

\* ROLLBACK TO goes back to the savepoint, which stays.
ROLLBACK_TO == LET i == Find(frames, m_transactionLevel)
               IN  frames' = SubSeq(frames, 1, i) /\ data' = frames[i].saved

\* SQLite has something to do at the end of this level, and may fail to.
EndsInSQLite == isInTransaction /\ (Nested => m_transactionError = "Allowed")

commitNested ==
    /\ Nested /\ Decremented
    /\ \/ EndsInSQLite /\ Has(m_transactionLevel) /\ RELEASE
       \/ ~EndsInSQLite /\ UNCHANGED frames
    /\ UNCHANGED <<db, data>>

commitOutermost ==
    /\ ~Nested /\ Reset
    /\ frames' = <<>> /\ db' = data /\ UNCHANGED data

rollbackNested ==
    /\ Nested /\ Decremented
    /\ IF EndsInSQLite /\ Has(m_transactionLevel) THEN ROLLBACK_TO
       ELSE UNCHANGED <<frames, data>>
    /\ UNCHANGED db

rollbackOutermost ==
    /\ ~Nested /\ Reset
    /\ frames' = <<>> /\ data' = db /\ UNCHANGED db

rollback == rollbackNested \/ rollbackOutermost

\* The end of a transaction whose body says TRUE: a fatal error, or a COMMIT
\* or RELEASE that fails, turns it into a rollback.
commitOrRollbackTransaction ==
    /\ calls # <<>>
    /\ \/ m_transactionError # "Fatal" /\ (commitNested \/ commitOutermost) /\ Closed(TRUE)
       \/ (m_transactionError = "Fatal" \/ EndsInSQLite) /\ rollback /\ Closed(FALSE)
    /\ TransactionGuard

\* The end of a transaction whose body says FALSE.
rollbackTransaction ==
    /\ calls # <<>>
    /\ rollback /\ Closed(FALSE)
    /\ TransactionGuard

Init == /\ db = {} /\ data = {} /\ frames = <<>>
        /\ m_transactionLevel = 0 /\ m_transactionError = "Allowed"
        /\ transactioned = FALSE /\ calls = <<>>
        /\ returned = TRUE /\ interrupted = FALSE /\ unguarded = FALSE

Next == \/ markErrorNotAllowedWithinTransaction
        \/ beginTransaction \/ beginFails \/ executeBegin \/ stepBegin
        \/ \E k \in Writes : execute(k)
        \/ executeFails \/ executeInterrupted \/ stepInterrupted
        \/ commitOrRollbackTransaction \/ rollbackTransaction

Spec == Init /\ [][Next]_vars
-----------------------------------------------------------------------------
TypeOK ==
    /\ db \subseteq Writes /\ data \subseteq Writes
    /\ frames \in Seq(Frame)
    /\ m_transactionLevel \in 0 .. MaxLevel /\ m_transactionError \in Errors
    /\ calls \in Seq(SUBSET Writes) /\ Len(calls) <= MaxLevel
    /\ {transactioned, returned, interrupted, unguarded} \subseteq BOOLEAN

\* Transactions nest: whatever commits, rollbacks, errors and marks the thread
\* mixes at whatever depth, and however levels with and without savepoint
\* follow each other, a level that answers FALSE takes back exactly its own
\* writes, unless errors are not allowed: then nested levels keep what they
\* wrote, also one that the thread itself rolls back, and only the answer of
\* the outermost counts.  Where SQLite ends a transaction by itself nothing is
\* said until the outermost call has come back; then all of it holds again.
NT == INSTANCE NestedTransaction WITH
        committed <- db, current <- data, errors <- m_transactionError
ImplementsNestedTransaction ==
    NT!Init /\ [][interrupted \/ interrupted' \/ NT!Next]_(NT!vars)

\* When the outermost call comes back the handle is in no transaction and
\* counts no level, even if SQLite ended transactions by itself at some depth
\* and the thread began new ones inside; the handle never counts more levels
\* than the thread has begun.  It is kept for the thread exactly while it is
\* in a transaction, except after a step() that began or ended one: there the
\* next transaction that begins or ends under a guard repairs it.
NoTransactionLeft ==
    /\ TypeOK
    /\ m_transactionLevel <= Len(calls)
    /\ unguarded \/ transactioned = isInTransaction
    /\ calls = <<>> => ~isInTransaction /\ m_transactionLevel = 0 /\ data = db
=============================================================================
