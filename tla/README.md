# WCDB: a verification project for the concurrent core

WCDB wraps SQLite (SQLCipher) for applications that use one database from many
threads.  Its own logic is in `src/src/common/`; around it are language bindings
(`src/src/{bridge,cpp,objc,swift,java}`) and vendored libraries (`openssl`,
`sqlcipher`, `zstd`, `tools`) and the superseded `deprecated/` tree.  This
project models the part that every thread of an application goes through: the
lock, the limit on handles, the pool of handles, the pool of databases, the
background worker, nested transactions, the waiting for SQLite's file locks,
the migration of tables under running statements, and the files of backup and
repair.  TLC checks it on small
instances; TLAPS proves the safety invariants of every component, and the
refinements, for any number of threads, handles, rows and faults.

Contents: [inventory](#inventory), [plan](#plan), [modules](#modules-and-code),
[runs](#runs), [fairness](#fairness), [findings](#findings),
[observations](#observations), [proofs](#proofs), [limits](#what-is-not-shown).

## Inventory

Paths are relative to `src/src/common/`.

| Component | State | Operations | Correct when |
|---|---|---|---|
| **SharedLock** `base/Lock.cpp` | `m_readers`, `m_writers`, the queues `m_pendingReaders`/`m_pendingWriters`, `m_locking`, the per-thread count of shares | `lockShared`, `unlockShared`, `lock`, `unlock`, `level` | it excludes, is reentrant, loses no wakeup, serves every writer, and serves readers once writers stop |
| **HandleCounter** `core/HandleCounter.cpp` | `m_totalCount`, `m_writerCount`, two queues with a condition variable each | `tryIncreaseHandleCount`, `decreaseHandleCount` | never more handles out than the limits; whoever waits is woken |
| **HandlePool** `core/HandlePool.cpp` | handles and free handles per slot, references per thread and type, the lock `m_concurrency` | `flowOut`, `flowBack`, `drain`, `purge`, `blockade`, `unblockade` | a handle has one user, is never closed in use, and every path gives back its count and its share |
| **InnerDatabase** `core/InnerDatabase.cpp` | `m_initialized`, `m_closing`, the pool | `initialize`, `getHandle`, `close`, and the tasks: backup, migrate, compress, vacuum, checkpoint, integrity check, deposit, retrieve | `close` suspends what runs, waits for every handle, and its callback finds the database closed |
| **DatabasePool** `core/DatabasePool.cpp` | databases by path, reference counts, `m_lock` | `getOrCreate`, `flowBack`, `getTag`, `purge` | counts are exact; an unreferenced database is empty; calls come back |
| **TimedQueue** `utility/TimedQueue.hpp`, `UniqueList.hpp`, `AsyncQueue`, `Exiting.cpp` | a list of elements by expiry, `m_stop`, the exit flag | `queue`, `remove`, `stop`, `loop` | the worker never sleeps past an element; a request is not postponed by later ones; it stops |
| **OperationQueue** `core/operate/` | registered operations, corrupted files, callbacks, time of the last purge | `registerAs...`, `async...`, `stop...`, `doMigrate`, `doCompress`, `doCheckpoint`, `doBackup`, `doMergeFTSIndex`, `doPurge`, `doCheckIntegrity`, `doNotifyCorruption` | only registered operations run; failures are retried up to a limit; each corrupted file is told once |
| **CommonCore** `core/CommonCore.cpp` | the singletons, default configurations | routes errors and the worker's events | (through the two components above) |
| **AbstractHandle, InnerHandle** `core/sqlite/`, `core/InnerHandle.cpp` | SQLite's connection, the level of the open transactions, the transaction error, prepared statements | transactions, savepoints, `suspend`, `configure` | nested transactions commit or roll back as a whole; nothing is left of them after SQLite rolls back by itself |
| **BusyRetryConfig** `core/config/` | per path: which thread holds which file lock, who waits for what | `updatePagerLock`, `updateShmLock`, `wait`, `tryNotify`, `checkMainThreadBusyRetry` | a waiter is woken when its lock is free; the main thread comes first |
| **Migration** `core/migration/` | tables to migrate with their references, shared between handles; per handle its bindings and views | `initInfo`, `bindTable`, `stopBinding`, `stepMigration`, the rewriting of statements | a row is in exactly one of the two tables, statements see both, and the source goes away under no statement |
| **Compression** `core/compression/` | columns to compress | as migration | as migration |
| **Auto configs** `core/config/`, `core/{migration,compression,fts}/Auto*` | per path: how many handles there are, what is requested | feed the OperationQueue | what has to be done is requested |
| **Repair, backup, vacuum** `repair/`, `core/vacuum/` | factory directory, two material files | `backup`, `deposit`, `retrieve`, `renew`, `vacuum` | a crash between two file operations leaves something to go on from |
| **FTS** `core/fts/` | tables to merge; tokenizers | merge | one worker merges at a time |
| Page parsers, cipher, WINQ, statement handles, errors, files | data and wrappers | | |

How they interact: the application holds references to an InnerDatabase through
the DatabasePool; a thread takes a handle with `getHandle()` (shares
`m_concurrency`, then counts itself, then takes a free handle or opens one) and
gives back the handle, the share and the count, in this order.  `close()` raises `m_closing`, suspends the
tasks, and takes `m_concurrency` exclusively.  Configurations on the handles call
the OperationQueue after commits and errors; its worker runs the tasks of
InnerDatabase; errors of any thread reach the queue through CommonCore.  A
statement on a table that migrates is compiled by the handle's decorator for both
tables, and the shared Migration counts who may still use the source.  Hooks in
the SQLite fork (`src/sqlcipher/src/os_unix.c`) tell BusyRetryConfig of every lock
of a database file.

What is hard: two condition-variable protocols written by hand, with different
notification on Apple platforms (`notify(front)`) and elsewhere
(`notify_all()`); locks that are held while waiting for something else (the pool
waits for the counter under `m_concurrency`, the database pool for `close()` under
`m_lock`); state that is tested before a lock is released and used after it was
taken again (`initialize()`, `m_closing`); failures in the middle of `flowOut()`;
a notification after the unlock in the timed queue; registration racing
repetition in the worker; a count of transactions kept beside SQLite's own stack
of savepoints; a release of a file lock between SQLITE_BUSY and the sleep of the
busy handler; a migration whose steps race statements compiled long before, and a
process that ends between the commits of two files, or between two of the moves
that replace a database by a repaired one.  `PROJECT.json` lists each of these hazards with its
line and the properties that would catch it.

## Plan

| Order | Module(s) | State |
|---|---|---|
| 1 | SharedLock, with the abstract RWLock | modelled, checked, proved |
| 2 | HandleCounter, with the abstract HandleBudget | modelled, checked, safety proved |
| 3 | HandlePool, which composes RWLock and HandleBudget with InnerDatabase | modelled, checked, safety proved |
| 4 | DatabasePool, which uses RWLock | modelled, checked, safety proved |
| 5 | TimedQueue, OperationQueue | modelled, checked, safety proved |
| 6 | BusyRetry: holders of file locks, waiters, main thread first, timeout, the pausable transaction | modelled, checked, safety proved |
| 7 | Transaction, with the abstract NestedTransaction | modelled, checked, proved |
| 8 | Migration, with the abstract LogicalTable | modelled, checked, proved |
| 9 | RepairFactory: deposit, retrieve, vacuum and the materials, with a crash between any two file operations | modelled, checked, proved |
| 10 | The auto-configs that feed OperationQueue; Compression, which has the shape of Migration | planned |
| 11 | FTS merge logic | planned |

Abstract specifications: RWLock, HandleBudget, LogicalTable and NestedTransaction
exist; what the repair factory promises is an invariant of its files.

Proofs left: none of the invariants that a run checks.  What is left to TLC is
liveness, see [limits](#what-is-not-shown).

## Modules and code

Names of variables and actions are those of the code.  In each module `pc[t]`
says where thread t is inside a call; a stretch of code under one mutex is one
action, a wait or an unlock ends it.  `PROJECT.json` maps every definition to its
lines.

* **RWLock** is what SharedLock promises: per-thread shares, an owner with a
  depth, a queue of writers in order of arrival; nobody new shares past a
  queued writer.  No condition variables and no counters of its own.
* **SharedLock** is `Lock.cpp`: the four operations, each cut at its waits; a
  notification moves a thread from `wait...` to `woken...`, from where it tests
  again.  SignalFront chooses the build; spurious wakeups are always possible.
  Threads nest sections up to MaxNest deep (`nest`).
* **HandleBudget** is the promise of the counter: two counts and two limits.
* **HandleCounter** is `HandleCounter.cpp`, cut in the same way.  `held` is the
  set of handles that are really out, apart from the counters.
* **HandlePool** is `HandlePool.cpp` and the operations of `InnerDatabase.cpp`
  that use it.  `m_concurrency` is an instance of RWLock, the counter one of
  HandleBudget.  `m_memory` guards sections that wait for nothing: one action
  each.  Opening, re-opening and configuring a handle may fail.  A task marks its
  handle, tests `m_closing`, works, and gives the handle back; Backup and Migrate
  stand for the two orders of mark and test in the code.  `close()` with the
  callback "Vacuum" uses a handle inside.
* **DatabasePool** is `DatabasePool.cpp`; a database's handle pool is reduced to
  its users, its blockader and those who wait.
* **TimedQueue** is the queue and one round of the worker's loop.  Time is
  discrete: elements and the worker's timer count down.  `notices` are callers
  between their unlock and their `notify_one()`.
* **OperationQueue** adds the operations.  What an event does to a database is
  an outcome (done, not done, failed); a file gets a new identifier when it is
  replaced.  `owed` and `notified` are auxiliary: who is due a callback, and which
  files were told.
* **NestedTransaction** is the promise of `runTransaction()`: a stack of what was
  seen when each open transaction began, and an answer to every call.  It knows
  whether errors are allowed: if not, nested levels keep what they wrote.
* **Transaction** is the transactions of `AbstractHandle.cpp` and
  `InnerHandle.cpp` with SQLite's stack of savepoints (`frames`; from
  `OP_Savepoint` in `src/sqlcipher/src/vdbe.c`).  A thread calls begin and end
  properly nested; every statement, BEGIN, COMMIT and RELEASE may fail, and SQLite
  may end the transaction by itself.  There are two ways to run a statement:
  `execute()`, like begin, commit and rollback, has a TransactionGuard, and `step()`
  of a prepared statement has none, so that a BEGIN or a rollback by SQLite in it
  (`stepBegin`, `stepInterrupted`) leaves the mark of the thread as it was.  After
  `markErrorNotAllowedWithinTransaction()` nested levels have no savepoint; it may be
  called at any point, since `createTable()` calls it inside its caller's transaction.
  `calls`, `returned`, `interrupted` and `unguarded` are auxiliary.
* **BusyRetry** is `BusyRetryConfig.cpp`, with the requests SQLite makes of its VFS.
  A thread reads, writes, checkpoints (truncating) or runs a pausable
  transaction; `conn` is what its connection really holds, `m_pagerType`,
  `m_localPagerType` and `m_shmMasks` what the hooks have recorded.  The stretch
  from the refusal over the busy handler to the sleep is cut where another thread
  can come between.  The notification is `notify(thread)` on Apple and
  `notify_all()` elsewhere (`apple`).
* **LogicalTable** is what the documentation of `addMigration()` promises: one
  table, with nested transactions; the migration is not visible.
* **Migration** is `core/migration/`: `m` is the shared Migration (under its lock),
  `b[h]` the Binder and the temporary view of a handle, `st[h]` the statement it
  prepares or has prepared, `w` what `stepMigration()` does next.  `prepare()` is
  cut where the code releases the lock: the queries of `initInfo()`, its end, the
  second `getInfo()`, and the compiler.  `db` and `work` are the two tables as
  committed and as the open transaction sees them, `save` the savepoint of a nested
  one.  The rewritten statements (INSERT, INSERT OR REPLACE, UPDATE, DELETE, DROP) are
  what they do to the two tables; a batch moves some rows from the end.  A query of
  `initInfo()`, of `tryUpdateSequence()` or of the binding of views may fail, and so
  may a write, which inside a transaction is a nested rollback
  (`MigratingStatementDecorator.cpp:373`), and a batch; SQLite may roll a transaction
  back by itself.  The process may end at any point, also between the commits of the
  two files.  Auxiliary: `torn` (a commit was cut in half), `missed` (this statement
  was compiled after a failing query), `strayed` (such a statement has written) and
  `lost` (the handle's flag was reset before its view went).
* **RepairFactory** is `repair/factory/` with the calls of `FileManager.cpp` it is
  made of.  `inode` maps directories and file names to inodes, `content` inodes to
  contents: `moveItems()` makes hard links, so that a file has two names for a
  while, and a write through one of them is seen through the other.  `job` is the
  operation that runs and `step` the list of calls (a `removeItems()`, a
  `moveItems()`, the removal of a directory) that it is in; each action makes one
  call, on the first file that is left, in the order of
  `associatedPathsForDatabase()` or in reverse.  Every call may fail (`Fails`), a
  `stat()` too (`itemExistsFails`), the removal of a directory may stop half way, a
  material may be written in part, the clock may be set back (`setClock`, which puts
  materials `ahead` of it), and the process may end before any call (`crash`);
  `initialize()` then takes over what it finds.  The one flag is ByRename, which is
  TRUE for Android and OHOS.  Rows are in the database or its log; a damaged database
  yields what a usable material of its own names.  `owed` (rows that must still be
  readable) and `backed` (rows of the last completed backup of the database in use)
  are auxiliary.  Where the code itself discards what may be the only copy, `owed`
  says so (`Discards`), in two places, see the observations.
* **SharedLockProofs**, **HandleCounterProofs**, **HandlePoolProofs**,
  **DatabasePoolProofs**, **OperationQueueProofs**, **DurabilityProofs** (Transaction and RepairFactory),
  **MigrationProofs** and **BusyRetryProofs** hold the theorems; the **MC** modules only add symmetry sets
  and values of constants.

## Runs

| Run | Instance | Shows |
|---|---|---|
| `shared_lock` | 3 threads, nesting 2, notify(front), spurious wakeups | safety, refinement of RWLock, progress of writers and of readers |
| `handle_counter` | 3 threads, 2 handles of which 1 writes, notify_all(), spurious wakeups | limits, a waker for every sleeper, refinement of HandleBudget, everybody is served |
| `handle_pool` | 2 threads, 2 handles, both allowed and 1 of them for writing, Backup, close() with and without a callback, references to 2 | handles, counts and shares are exact on every path, also the failing ones; a backup is suspended; close() gets the pool; everything comes to rest |
| `handle_pool_tasks` | the same with Backup and Migrate, references to 1 | violation, see findings |
| `database_pool` | 2 threads, 2 paths, nobody calls the pool with a handle in hand | counts, emptiness, calls come back |
| `database_pool_deadlock` | the same, handles in hand allowed | violation, see findings |
| `operation_queue` | 1 path, one type of each kind, 2 files, 2 tolerable failures | sleeping, registration, notification, work gets done, stop |
| `transaction` | 2 writes, 4 levels, 6 savepoints | nothing is left after the outermost call, with and without guard; refinement of NestedTransaction |
| `busy_retry` | main thread and 2 others, both journals, both ways of notification | no lost wakeup, no sleep for an own lock or in a circle, a transaction gives way to the main thread |
| `migration` | a reader, a writer and the worker, 2 rows, source in another file, 1 event (see below), any number of ends of the process and failing batches, tables created before they are used | references, statements, refinement of LogicalTable |
| `migration_create` | the same, one file, no events, tables created at any time | violation, see findings |
| `repair` | 2 rows, 2 workshops, 3 operations, 2 faults, hard links | nothing is lost but what two error paths discard, no foreign log, backups survive |

Why the bounds suffice for the cases meant: three threads are the fewest with a
holder and a queue of two, in which order of arrival, overtaking and a
notification to the wrong thread show.  Two handles with one writer make both
limits bind at different times.  In the pool two
threads give every pair of operations, and two handles one that is used while the
other is free, failing or closed; the theorems hold for any number of both.  Two paths are needed because a
database is created while another one closes.  In the worker, what is queued
by others is bounded (MaxQueued) but may recur for ever; two files let a path be
corrupted, replaced and corrupted again.  Four levels have a nested transaction
that is neither the outermost nor the innermost, on both sides of a level without
savepoint; six frames leave room for savepoints that ROLLBACK TO leaves behind.
Three threads let the main thread wait for one that waits for the third, with
either journal.  Two rows make a batch that is cut short and one that is not; a
handle that reads and one that writes give every pair of a prepared statement and
another handle's statement, transaction or creation, with the worker as a third
party.  (A SELECT on a handle that writes is bound as its writes are.)  One event
puts a failing query or write, a savepoint, a rollback by SQLite or a torn commit at
every point; ends of the process and failing batches are not counted.  (The run has
4.2 million states; a second event is left to the theorems.)  In
the repair factory two rows are one in a deposited database and one in its
successor; three operations are a backup, a deposit and a retrieval; the second
fault falls into the recovery from the first.  (With one row and three faults it
passes as well.)

Some properties have escapes, which their text names and a variable of the model
marks: ImplementsNestedTransaction says nothing from a rollback by SQLite itself to
the end of the outermost call (`interrupted`), NoTransactionLeft nothing of the
thread's mark after a `step()` that began or ended a transaction (`unguarded`);
ImplementsLogicalTable and ReadsSeeEverything end with a torn commit (`torn`) and
with the first write that a failing query sent to the target alone (`strayed`), the
latter excepts statements that met such a query (`missed`), and StatementsWork
handles that have lost track of their view (`lost`).  Each escape is a path that the
code really has; the observations say what happens there, and the properties
that nothing else does.

Deadlock is checked except in the runs of OperationQueue, where the worker
returns or crashes at the end, and in `database_pool_deadlock`, whose one
property speaks of the same thing.

## Fairness

* Threads inside a call are scheduled (weak fairness of every step that a mutex
  or a wakeup enables): what the scheduler of the operating system gives.
* Handles come back: RecyclableHandle does it at the end of its scope.  In
  HandlePool this is strong fairness, for a thread may do other things in
  between that disable the step for a while; the same for `unblockade`.
* Woken waiters run; nothing obliges a spurious wakeup, a new request or a new
  call.
* In the worker, time passes and the exit handler finishes what it began.
* BusyRetry: a thread that can go on does, and an ordinary transaction comes to
  its end.  Nothing ends a pausable one except its own test for the main thread,
  which has strong fairness: its loop goes round in less time than the ten seconds
  the main thread sleeps (`core/CoreConst.h:78`), so a main thread that sleeps
  again and again is seen.

Migration and Transaction are checked for safety only: nothing obliges anybody to
call `stepMigration()` again, and a transaction has one thread.

Progress of readers, of the pool and of the database pool is stated for the case
that no new writers, or no new calls, keep coming.  SharedLock prefers writers,
and the counter lets a new request overtake a woken waiter: the code promises
no more.

## Findings

1. `handle_pool_tasks`: `close()` suspends the running tasks, of which its comment
   (`InnerDatabase.cpp:145`) lists checkpoint, backup, integrity check, migration,
   compression and the merge of indexes.  `stepMigration()` (`InnerDatabase.cpp:1028`)
   and the tasks at 933, 1105 and 1192 test `m_closing` before they mark their handle
   as one that can be suspended: a `close()` between the two suspends nothing and
   waits for the whole step.  `backup()` has the other order, and `handle_pool` shows
   that it suffices.
2. `database_pool_deadlock`: `flowBack()` shares `m_lock` while it closes
   (`DatabasePool.cpp:95`, whose comment says that a shared lock is enough).  A
   thread that took the database again after the count reached zero, and that
   creates a database while it has a handle, waits for the share, and the share
   for its handle.
3. `migration_create`: `initInfo()` asks whether the target exists before it takes
   the lock (`core/migration/Migration.cpp:133`).  When another handle creates the
   table in between, the first statement is compiled for the new, empty target
   alone, although the source has rows and the documentation
   (`src/src/cpp/core/Database.hpp:797`) says that the target can be used as if it
   had them.  With CreatesFirst TRUE, that is, when tables are created before
   anybody else uses them, `migration` shows the promise to hold.

## Observations

What the models show of the code beside the findings.  Most of it is not against
anything that the repository says.  These entries are: the mark that survives SQLite's
rollback (against the WCTAsserts at `InnerDatabase.cpp:487` and `504`), a commit that
answers YES with nothing committed and a marked nested rollback that keeps its
writes (`src/src/objc/transaction/WCTTransaction.h:59` and `70`), rows that a deposit
loses (`InnerDatabase.cpp:823`), a material that a later backup truncates
(`src/src/cpp/core/Database.hpp:654`), and statements on the target alone after a
failing query (`Database.hpp:797`).  Each is a path of the model; the properties name
it as what they do not promise.

Lock, counter and pools:

* `decreaseHandleCount()` notifies a thread that waits for the total limit only if
  no writer was notified (`hasNotified`, `HandleCounter.cpp:84`).  When several
  writers leave before the notified one runs, such a thread sleeps on below the
  limit until the next handle comes back.  It is a delay: SleeperHasWaker holds.
* On Apple, `notify(front)` together with a spurious wakeup makes HandleCounter's
  `pop()` remove the entry of another thread (`HandleCounter.cpp:48`), whose
  notification then goes to a thread that does not wait: with SignalFront and
  Spurious both TRUE, SleeperHasWaker and WaitersServed are violated; with either of
  them FALSE they hold.
* `drain()` rejects a thread only at level Read (`HandlePool.cpp:81`): a thread that
  blockades the database and still uses a handle would close it under itself.
  The model's `close()` requires that such a thread has recycled its handles;
  without that guard InUseIsAlive is violated.

Worker:

* The callback is unset after its call was queued: `doNotifyCorruption()` calls an
  empty function (`OperationQueue.cpp:678`).  The model's worker is "crashed" then,
  and OwedIsDelivered and WorkGetsDone are stated for the case that it is not.
* `m_corrupteds` keeps identifiers, a hash of device and inode, for ever
  (`OperationQueue.hpp:235`): a new file that gets the inode is not told.
* A request to purge that comes during a purge makes a second one
  (`OperationQueue.cpp:552`: `m_lastPurge` is set at its end).

Transactions:

* After `markErrorNotAllowedWithinTransaction()` a nested transaction has no
  savepoint; when it ends with FALSE and no error, its writes stay, and the
  outermost commit makes them durable.  `createTable()` marks the transaction of its
  caller (`winq/extension/BaseBinding.cpp:237`), who need not know of it, while
  `WCTTransaction.h:70` says that "Transaction supports nesting".  NestedTransaction
  states what is left of it.
* After SQLite has rolled back by itself the outermost `commitTransaction()` finds no
  transaction and answers TRUE, although nothing was committed
  (`core/sqlite/AbstractHandle.cpp:575`); `WCTTransaction.h:59` says "YES only if
  current transaction is committed successfully".
* When SQLite rolls back in `step()` (`core/InnerHandle.cpp:224`), the handle stays the
  thread's transactioned one, though it is in no transaction: `isInTransaction()` of
  the database answers TRUE, which its assertion (`InnerDatabase.cpp:504`) excludes,
  and the handle is not given back, until a transaction ends under a guard; one
  that begins under a guard before that meets the assertion at 487.
* A BEGIN that fails after the mark leaves the handle Fatal, with no transaction to
  reset it; the next transaction of this handle rolls back.
* ROLLBACK TO leaves its savepoint on the stack until the level below ends.

Busy retry:

* `tryNotify()` stops at the main thread when it must still wait
  (`core/config/BusyRetryConfig.cpp:368`), so that "the main thread can hold the mutex
  first".  A truncating checkpoint (`src/src/cpp/core/Database.cpp:144`) that holds
  the lock the main thread waits for, and itself waits for a reader, is passed over
  when that reader leaves: both sleep on until the timeout of ten seconds.  It is a
  delay, and the only one: NoLostWakeup, which allows for it, holds.
* A committer that waits for readers of a rollback journal does not sleep: the lock
  that stands in its way is one it may count as its own, so it tries again at once.
* A checkpoint can be starved by readers that follow each other; HolderGivesWay
  leaves it out.

Repair:

* A crash inside the `moveItems()` of a deposition leaves materials with a name in
  the old and one in the new place.  After a deposit() the next start removes the
  old names; after a retrieve(), which has nothing in the renew directory, it
  creates an empty database beside them.  A later backup opens such a material with
  O_TRUNC (`base/FileHandle.cpp:94`) and so empties the one of the deposited
  database, which may be damaged and have no other: "If there is a valid backup of
  this database, most of the uncorrupted data can be recovered"
  (`src/src/cpp/core/Database.hpp:654`) does not hold for it any more.  Rows of
  damaged databases are therefore not owed.  The proof of NothingIsLost
  shows the other side: rows of databases that are not damaged need no material, and
  are never touched by this.
* On Android and OHOS files are renamed instead (`base/FileManager.cpp:488`).  A crash
  between two renames parts a database from its log, which the next start takes for
  that of an empty database; and when a rename fails, the files that were already
  moved are removed, as if they had another name.  With ByRename TRUE, NothingElseLost
  is violated, although `core/InnerDatabase.cpp:823` says "So data will never lost".
* FactoryVacuum::exit() removes the vacuum directory after every error
  (`FactoryVacuum.cpp:143`), also when prepare() has already removed the original
  database, or when work() cannot put the copy into its place: the rows are gone.
  In the model they leave `owed` there (`Fails`), and NothingElseLost shows that a
  failing call of a vacuum loses no others.
* `moveItems()` leaves its loop when a file cannot be examined, with result still true
  (`base/FileManager.cpp:467`), and then removes the files it has not moved.  If one of
  them is the database or its log, its rows are gone, in a deposit() too, of which
  `InnerDatabase.cpp:823` says that data will never be lost.  In the model they leave
  `owed` there (`itemExistsFails`).
* A material that is written in part, for want of space, counts as the latest: the
  next backup overwrites the older, good one, and if it is interrupted there is none
  left.  The same happens when the clock is set back: a material from the future is
  the first to be overwritten (`Factory.cpp:268` to `281`), though it is the latest.
  BackupSurvives ends with either.
* retrieve() moves the restored database before its material, so a crash between the
  two leaves it without one until the next backup.  Nothing is lost by that alone.
* exit() of a vacuum does not look at whether the vacuum directory really went.  The
  removals may leave its database there, which has two names by then, its own and
  that of the database in use.  A later deposit() moves the latter into a workshop
  with its materials; if the process ends before the new database is in its place,
  the next start takes the leftover for the result of a vacuum: the deposited
  database is in use again, with all rows, but without its materials.  A backup is
  therefore one of the database in use *while it is in use*: `backed` ends when
  another name takes the place of the database, even if it is a name of the same
  file.  The inductive invariant did not hold for a `backed` that follows the file;
  TLC found the three faults it takes.
* removeDeposited() gives up what only the deposited databases have.

Other tasks, from reading the code:

* `incrementalVacuum()` uses the handle of `flowOut()` before it tests it
  (`InnerDatabase.cpp:1000`).
* The handle of an in-memory database is created by the first `getHandle()` without a
  lock (`InnerDatabase.cpp:272`).

Migration:

* A table that is created and used in a transaction which is not committed can be
  marked as migrated by the worker, which does not see it yet; its rows in the
  source are then hidden from new statements.  CreatesFirst excludes this too.
* A commit torn between two files duplicates a row.  Users do not see that at
  once, but INSERT OR IGNORE then changes nothing, and the table counts as migrated
  with rows left in the source (`core/migration/MigrateHandleOperator.cpp:207`).
* `bindTable()` goes on when `initInfo()` or `tryUpdateSequence()` fails
  (`core/migration/Migration.cpp:489`): the statement is compiled for the target alone
  and its prepare() succeeds.  A read does not see the rows of the source; an
  UPDATE or DELETE leaves them as they are, and after a DROP they are back when
  the table is created again.  `Database.hpp:797` knows no such case.  The model
  shows that nothing else is affected before such a statement writes.
* m_createdNewViewInTransaction is reset by every rollback, at any depth
  (`core/migration/MigratingHandleDecorator.cpp:343` to `351`), and a write that fails
  in a transaction is one.  A view that was created in the outer transaction is then
  taken for an old one; when the outer transaction rolls back the view goes and
  nothing is bound again, so that prepare() fails on this handle for every table that
  migrates, until a commit, or a rollback that finds the flag set.  SQLite's own
  rollback has the same effect.  This is `lost`, and the only case in which
  statements stop to work.

## Proofs

`SharedLockProofs` proves for any set of threads, any nesting and either build:

* LockTypeOK, LockExclusion, LockNoLostWakeup, LockHolderNeverWaits;
* LockImplementsRWLock: every step of SharedLock is one of RWLock or a stutter.

The inductive invariant LockInv joins the checked invariants with CountersFinite
(the counters are cardinalities of sets which have to be finite) and NestCovers
(a thread's shares, with the one it waits for, fit in its nesting).  The parts
need each other: that the woken writer may take the lock needs Exclusion's agreement
of the global counters with the per-thread ones; NoLostWakeup needs that the
queue holds exactly the sleeping writers (PendingMatchesWaiting), and that a
holder never sleeps, so that its unlock is still to come.  The assumption is
SharedLockAssumption, on the constants.

`HandleCounterProofs` proves for any set of threads and any two positive limits:

* CounterTypeOK, CounterWithinLimits, CounterQueuesCountWaiters (the queues have
  as many entries as threads wait, a fact that the others rest on);
* CounterImplementsBudget: every step is one of HandleBudget or a stutter;
* CounterSleeperHasWaker, for `notify_all()`.

CounterInv adds to the checked invariants that a waiting thread has nothing out
(otherwise a grant might count a handle twice) and the finiteness of the sets.
That `pop()` finds an entry follows from the sizes of the queues.  The last
theorem needs WakersRemain: while a writer sleeps some writer's handle is out,
and while a thread sleeps on the total limit a handle is out or a writer has been
woken, which is where `hasNotified` sends the notification.  It is stated for
`notify_all()` because with `notify(front)` and spurious wakeups it is false.

`HandlePoolProofs` proves for any sets of threads and handles, any limits and any
bounds on nested references:

* HandlePoolInvariant, UsedHandlesStay (InUseIsAlive), HandlesHaveOneUser
  (HandlesAreExclusive), CounterCountsHandles (CounterIsExact), SharesAreExact
  (SharesAreOwed), CallbackIsAlone (ClosedInCallback);
* BackupIsSuspended (BackupsAreSuspended): while `close()` waits for the handles,
  every Backup that works is suspended, whatever other tasks there are; for the tasks
  with the other order `handle_pool_tasks` shows that it is not so.

The inductive invariant PoolInv says what a thread has at each place of its call
(CallFits, ReferencesFit), that it shares `m_concurrency` once per reference and
once per `flowOut()` it is inside of, that each slot splits into free handles and
handles that exactly one thread has, that no two threads or types have the same
one, and that the two counts are cardinalities of these sets.  They need each
other: that `drain()` closes nothing in use follows from the shares, that the
shares are right from the references, and that a handle that flows back was
out, from the split of the slots.

`DatabasePoolProofs` proves PoolInvariant, PoolReferencesExact and
PoolUnreferencedIsEmpty for any finite set of threads (a count is the sum over
them) and any number of objects.  PlacesFit says what a thread has at each place: without
it a decrement in `flowBack()` might be one of an object the thread no longer has.

`OperationQueueProofs` proves QueueInvariant, WorkerNeverOversleeps
(NeverOversleeps), OnlyRegisteredIsQueued (QueuedIsRegistered) and
CallbackIsCalledOnce (NotifiedOnce), for any paths, intervals and bounds.  The
operators of UniqueList are lemmas: insert and erase keep the list ordered by
expiry with each key once, from which follows that the worker, who sleeps until
the first element, oversleeps none.  StoppedIsEmpty and CallbacksFit are the other
strengthenings: nothing enters a stopped queue, and an identifier on its way to the
callback is known and on its way once.

`DurabilityProofs` proves of Transaction: TransactionInvariant, TransactionNoneLeft
(NoTransactionLeft), and TransactionImplementsNested: every step is one of
NestedTransaction or a stutter, except from a rollback by SQLite itself to the end
of the outermost call.  Nothing is assumed of who marks, rolls back or fails.
StackFits orders SQLite's savepoints by level and
gives each level one, so that RELEASE never reaches the BEGIN; Remembers says that a
savepoint saved what its level saw first.

Of RepairFactory it proves, for any number of rows, workshops, operations and
faults:

* LayoutSafe and FilesBelong (FilesBelongTogether), for links and renames;
* BackupsSurvive (BackupSurvives), for both, until another database takes the place, a
  material is written in part or the clock is set back behind one;
* NothingIsLost (NothingElseLost), for hard links (ByRename is FALSE; with renames it is
  false), whatever calls fail.

None of the three is inductive.  LayoutInv says which job a step belongs to, that
the directories of the factory never hold a log or a second material, that a base
directory into which a database is put has been cleared, and that an open database
has a file; a log then belongs to the database beside it, because it came with it or
was written by it.  MovedInv says that the list `recovers` of moveItems() is empty
when no moveItems() runs, so that its roll-back removes no file of somebody else.
BackInv adds to them which of the two materials holds the last backup: one that is
good and of this database, that is the latest or else has an empty or missing
sibling, and that keeps its place while serialize() writes the other one and while
the files are linked into a workshop; the order of `associatedPathsForDatabase()`,
database first, ends `backed` before a material goes.  KeptInv says at each step
where the rows that are owed are: always in the database that a start would take
now, or in workshops; in the vacuum directory or its temp while a vacuum goes on; in
the workshops from the end of the links of a deposition; in temp as well until
retrieve() has put it in place, and then in the base directory alone, before the
workshops are discarded.  Linked ties it together: at each point of a moveItems() the
new place has exactly the files moved so far, as names of the same inodes, so the last
link, and not the first removal, is where the new place becomes complete.  The lemmas
about calls (RemoveKeeps, MoveKeeps, DirectoriesKeep) and about writes (an Effect lemma
for each action that writes contents) are stated once and used by all three.  That a
new file finds an inode without a name (FreeInode) is the pigeonhole principle on the
directories.

`MigrationProofs` proves for any handles, rows and number of events:

* MigrationInvariant, MigrationReferences (ReferencesExact), MigrationStatements
  (StatementsWork), whatever the users do and whatever fails;
* MigrationReads (ReadsSeeEverything) and MigrationImplementsLogicalTable
  (ImplementsLogicalTable) for CreatesFirst: without it they are false, which the
  run `migration_create` shows.

MigrationInv ties the count to the handles that hold the info (CountFits), a
statement for both tables to the reference of its handle (StatementFits), the
reference to the existence of the source (SourceFits), the view to what the Binder
remembers of it inside and outside of a transaction and at its savepoint (BinderFits,
SaveKnown), unless the handle has lost track, and the tables of a savepoint to the
committed ones (SaveFits); the
tables as a batch sees them have the same rows as the committed ones.  RowsInv adds
that nobody but those who missed a query works on the target alone while rows may move
and nothing has strayed (FoundFits, MissingFits, AloneFits): `initInfo()` registers the
info before a statement can be compiled, unless there is no target, in which case
nobody has written yet (UnknownFits); and `migratings` ends only when the source is
empty (MigratedFits), also in the savepoint.  That a batch which moves nothing has left
nothing behind (NothingLeft) needs the largest row, a small induction, done with the
well-foundedness of the naturals (WFMin) in set form.

`BusyRetryProofs` proves BusyInvariant, BusyNoLostWakeup (NoLostWakeup),
BusyNeverWaitsForItself (NeverWaitsForItself) and BusyNoCircularWait
(NoCircularWait) for any set of threads with a main thread in it, either journal
and either way to notify.  BusyInv says what a connection holds and what its thread
asks for at each place (FileFits, ShmFits, TryingFits), that `m_shmMasks` is what the
connections hold, and that `m_pagerType` is the highest level, recorded in
`m_pagerChangeTid` and `m_localPagerType` as its holder's when it is above SHARED
(PagerFits).  From this follows that `shouldWait()` sends to sleep only those whom
another connection blocks, though it compares types and not connections.  NoLostWakeup
alone is not inductive: a thread that `tryNotify()` passes over for the main thread
must be found by a later release, so SleepFits says that the main thread still has
a lock to release (MainReleases), which is more than that it is at work.  With a
rollback journal a release that lowers the type is seen by `shouldWait()` as the
releasing thread's own, so all sleepers are notified and look for themselves.
NoCircularWait holds because a sleeping writer has given up its read mark
(`unlockBtreeIfUnused`): only a checkpoint that waits for readers blocks
other sleepers, and no sleeper is a reader.

The type invariants of SharedLock and HandleCounter are proved and not run; in the
others the type invariant is a conjunct of one of the invariants of the run.

HandlePool and DatabasePool use the lock and the counter only through RWLock and
HandleBudget, so the two refinement theorems carry their results over to the
real ones.

## What is not shown

* Only model-checked: all liveness (the prover has no fairness and no ENABLED):
  WriterProgress, ReaderProgress, WaitersServed, DrainCompletes, ComesToRest,
  PoolResponds, WorkGetsDone, OwedIsDelivered, QueueStops, HolderGivesWay.
* RWLock lets the waiting of readers be implicit: a model that uses it takes the
  lock when it may, so the progress of readers is shown in SharedLock itself.
* TimedQueue: the ten seconds that the destructor of AsyncQueue would wait are
  left out, since the core is never destroyed.  Once the process is exiting the
  worker runs nothing more, and calls that only prepare such a run are left out.
* A data race on a container (`m_records[path]` under the shared lock,
  `OperationQueue.cpp:295`) has no outcome to enumerate at this level.
* Transaction: lite mode, a ROLLBACK that fails (`core/sqlite/AbstractHandle.cpp:598`)
  and `cacheCurrentTransactionError()` are left out.
* HandleCounter: SleeperHasWaker and WaitersServed are not claimed for `notify(front)`
  with spurious wakeups, where they are false (observations).
* BusyRetry: the busy monitor, passive checkpoints (they never wait), locks of
  other processes (nobody tells of their release) and a second connection of the
  same thread are left out.  The VFS is modelled as far as its hooks see it.
* Migration: one pair of tables, one statement of a handle at a time; the
  configuration is complete before the database is used.  Left out: filters that
  keep rows back, the sequence of AUTOINCREMENT tables, the values of rows, a second
  level of nesting, marked transactions, the flag that isMigrated() answers, and a
  commit of a user that is torn between two files.
* RepairFactory: one actor, since the operations run in the callback of close();
  users do not write during a backup.  Left out: the rollback journal, the shared
  memory and the incremental material, removeMaterials(), which pages of a damaged
  file can be read, scores, the key of an encrypted database.  NothingElseLost is for
  hard links only.
* In-memory databases bypass the pool and are not modelled yet.
* Not modelled: the vendored libraries and SQLite itself, the language bindings
  (forwarding layers), WINQ (construction of SQL text), page parsers and codecs
  (functions on bytes), tokenizers, file and string wrappers.  The components of
  the plan's second half are listed with their reasons in `PROJECT.json`.
