--------------------------- MODULE OperationQueue ---------------------------
(***************************************************************************)
(* The background operations of all databases: src/src/common/core/        *)
(* operate/OperationQueue.cpp on top of the TimedQueue, with the events of *)
(* CommonCore.cpp that the worker calls.                                   *)
(*                                                                         *)
(* Migration and compression (RetryTypes) are repeated until they are done *)
(* and retried after a failure; checkpoint, backup and the merge of FTS    *)
(* indexes (PlainTypes) run once per request.  All of them need their      *)
(* registration.  A reported corruption is confirmed by an integrity check *)
(* on the worker, which then calls the callback of that database.  What an *)
(* event does to the database is left to other modules: here it is done,   *)
(* not done or failed.  A file's identifier changes when it is replaced.   *)
(* Once the process exits the worker runs nothing more, and the calls that *)
(* only prepare such a run are left out.                                   *)
(***************************************************************************)
EXTENDS TimedQueue

CONSTANTS Paths,
          RetryTypes, PlainTypes,
          Interval,       (* ticks that a request of each of these types waits  *)
          RetryInterval,  (* OperationQueueTimeIntervalForRetringAfterFailure   *)
          TolerableFailures,
          PurgeInterval,  (* OperationQueueTimeIntervalForPurgingAgain          *)
          MaxFiles,       (* bound: files that a path has one after another     *)
          MaxQueued       (* bound: operations that are queued by other threads *)

ASSUME OperationQueueAssumption ==
    /\ RetryTypes \subseteq {"Migrate", "Compress"}
    /\ PlainTypes \subseteq {"Checkpoint", "Backup", "MergeIndex"}
    /\ Interval \in [RetryTypes \cup PlainTypes -> Nat]
    /\ RetryInterval \in Nat /\ PurgeInterval \in Nat
    /\ TolerableFailures \in Nat \ {0}
    /\ MaxFiles \in Nat \ {0} /\ MaxQueued \in Nat \ {0}

VARIABLES m_records,     (* the <<type, path>> that are registered              *)
          m_corrupteds,  (* identifiers of the files confirmed as corrupted     *)
          callbacks,     (* keys of m_corruptionNotifications                   *)
          sinceLastPurge, (* ticks since m_lastPurge, up to PurgeInterval + 1   *)
          file,          (* how often the file at a path has been replaced      *)
          owed,          (* auxiliary: paths whose callback is due              *)
          notified       (* auxiliary: identifiers whose callback was called    *)

records == <<m_records, sinceLastPurge>>
corruption == <<m_corrupteds, callbacks, file, owed, notified>>
vars == <<queueVars, records, corruption>>

Types == RetryTypes \cup PlainTypes
PurgeKey == <<"Purge", "">>

Init ==
    /\ InitQueue
    /\ m_records = {}
    /\ sinceLastPurge = PurgeInterval + 1
    /\ m_corrupteds = {}
    /\ callbacks = {}
    /\ file = [p \in Paths |-> 1]
    /\ owed = {}
    /\ notified = {}

\* FileManager::getFileIdentifier()
Identifier(p) == <<p, file[p]>>

\* The bound on what other threads queue.
Room(key) == Len(m_list) < MaxQueued \/ \E e \in Elements : e.key = key

\* What a call on another thread leaves alone of the worker.
workerAside == UNCHANGED <<exitHandler, worker, timer, current>>
-----------------------------------------------------------------------------
(* Registration and requests                                               *)

registerAsRequired(type, p) ==
    /\ ~isExiting
    /\ <<type, p>> \notin m_records
    /\ m_records' = m_records \cup {<<type, p>>}
    /\ UNCHANGED <<queueVars, sinceLastPurge, corruption>>

registerAsNoRequired(type, p) ==
    /\ <<type, p>> \in m_records
    /\ m_records' = m_records \ {<<type, p>>}
    /\ remove(Erased(m_list, <<type, p>>))
    /\ workerAside
    /\ UNCHANGED <<sinceLastPurge, corruption>>

\* A mutant of async: the registration is not tested again.
AsyncUnregistered(type, p, delay, failures, byWorker) ==
    queue(<<type, p>>, failures, delay, byWorker)

\* asyncMigrate(), asyncCompress(), asyncMergeFTSIndex(), asyncBackup() and
\* asyncCheckpoint(): the test and the queueing are under m_lock.
async(type, p, delay, failures, byWorker) ==
    \/ <<type, p>> \in m_records /\ queue(<<type, p>>, failures, delay, byWorker)
    \/ <<type, p>> \notin m_records /\ UNCHANGED <<m_list, m_stop, notices>>

\* A request of another thread.  The failures before it are forgotten.  An
\* incremental backup does not wait.
request(type, p) ==
    /\ <<type, p>> \in m_records /\ Room(<<type, p>>)
    /\ \E delay \in {Interval[type]} \cup (IF type = "Backup" THEN {0} ELSE {}) :
           async(type, p, delay, 0, FALSE)
    /\ workerAside
    /\ UNCHANGED <<records, corruption>>

\* stopMigrate() and stopCompress()
stopRetrying(type, p) ==
    /\ type \in RetryTypes
    /\ remove(Erased(m_list, <<type, p>>))
    /\ workerAside
    /\ UNCHANGED <<records, corruption>>

\* When a database is closed.
stopAllDatabaseEvent(p) ==
    /\ LET Without(list, type) == Erased(list, <<type, p>>)
           some == Without(Without(Without(m_list, "Integrity"), "Checkpoint"), "Backup")
       IN  remove(Without(Without(Without(some, "Migrate"), "Compress"), "MergeIndex"))
    /\ workerAside
    /\ UNCHANGED <<records, corruption>>

asyncPurge ==
    /\ sinceLastPurge > PurgeInterval /\ Room(PurgeKey)
    /\ queue(PurgeKey, 0, 0, FALSE)
    /\ workerAside
    /\ UNCHANGED <<records, corruption>>
-----------------------------------------------------------------------------
(* Corruption                                                              *)

\* setNotificationWhenCorrupted() with a callback.
setNotification(p) ==
    /\ ~isExiting
    /\ p \notin callbacks
    /\ callbacks' = callbacks \cup {p}
    /\ UNCHANGED <<queueVars, records, m_corrupteds, file, owed, notified>>

\* setNotificationWhenCorrupted() with nullptr.
unsetNotification(p) ==
    /\ ~isExiting
    /\ p \in callbacks
    /\ callbacks' = callbacks \ {p}
    /\ owed' = owed \ {p}
    /\ UNCHANGED <<queueVars, records, m_corrupteds, file, notified>>

\* handleError() for a corruption that some thread has met: asyncCheckIntegrity()
\* unless it is known.  The error may be about another schema of the same
\* handle, or be false.
handleError(p) ==
    /\ ~isExiting /\ Room(<<"Integrity", p>>)
    /\ Identifier(p) \notin m_corrupteds
    /\ queue(<<"Integrity", p>>, 0, 0, FALSE)
    /\ workerAside
    /\ UNCHANGED <<records, corruption>>

\* The file is removed and created anew, or replaced by the retrieved one.
replaceFile(p) ==
    /\ ~isExiting
    /\ file[p] < MaxFiles
    /\ file' = [file EXCEPT ![p] = @ + 1]
    /\ owed' = owed \ {p}
    /\ UNCHANGED <<queueVars, records, m_corrupteds, callbacks, notified>>
-----------------------------------------------------------------------------
(* onTimed(): the worker runs the operation it took                        *)

Runs(type) ==
    /\ worker = "running"
    /\ ~isExiting
    /\ current.key[1] = type
    /\ finished

\* A mutant of MayRetry: one failure too many.
MayRetryOnceMore(failures) == failures < TolerableFailures

MayRetry(failures) == failures + 1 < TolerableFailures

\* doMigrate() and doCompress(): the step was the last one, or there is more to
\* do, or it failed.
doRetrying(type) ==
    LET p == current.key[2]
        failures == current.info IN
    /\ Runs(type)
    /\ \/ UNCHANGED <<m_list, m_stop, notices>>
       \/ async(type, p, Interval[type], failures, TRUE)
       \/ /\ MayRetry(failures)
          /\ async(type, p, RetryInterval, failures + 1, TRUE)
    /\ UNCHANGED <<records, corruption>>

\* doCheckpoint(), doBackup() and doMergeFTSIndex()
doPlain(type) ==
    /\ Runs(type)
    /\ UNCHANGED <<m_list, m_stop, notices, records, corruption>>

doPurge ==
    /\ Runs("Purge")
    /\ sinceLastPurge' = 0
    /\ UNCHANGED <<m_list, m_stop, notices, m_records, corruption>>

\* A mutant of Confirmed: what is known is notified again.
ConfirmedAgain(p) == p \in callbacks

\* handleError() for what the integrity check reports.
Confirmed(p) == Identifier(p) \notin m_corrupteds /\ p \in callbacks

\* doCheckIntegrity(): of the database and of the one its migration reads from,
\* one of which may turn out to be corrupted.  The check may also be suspended
\* or not be made, for the database is closing or closed.
doCheckIntegrity ==
    /\ Runs("Integrity")
    /\ \/ UNCHANGED <<m_list, m_stop, notices, m_corrupteds, owed>>
       \/ \E p \in Paths :
              /\ m_corrupteds' = m_corrupteds \cup {Identifier(p)}
              /\ IF Confirmed(p)
                 THEN /\ queue(<<"NotifyCorruption", p>>, Identifier(p), 0, TRUE)
                      /\ owed' = owed \cup {p}
                 ELSE UNCHANGED <<m_list, m_stop, notices, owed>>
    /\ UNCHANGED <<records, callbacks, file, notified>>

\* doNotifyCorruption(): the callback is dropped when the file has changed, and
\* given up when the file's existence or identity cannot be read.
doNotifyCorruption ==
    LET p == current.key[2] IN
    /\ Runs("NotifyCorruption")
    /\ p \in callbacks
    /\ \/ /\ current.info = Identifier(p)
          /\ owed' = owed \ {p}
          /\ notified' \in {notified, notified \cup {current.info}}
       \/ current.info # Identifier(p) /\ UNCHANGED <<owed, notified>>
    /\ UNCHANGED <<m_list, m_stop, notices, records, m_corrupteds, callbacks, file>>

\* doNotifyCorruption() without a callback: an empty std::function is called,
\* which ends the process.
callEmptyNotification ==
    /\ worker = "running" /\ ~isExiting
    /\ current.key[1] = "NotifyCorruption"
    /\ current.key[2] \notin callbacks
    /\ worker' = "crashed"
    /\ UNCHANGED <<m_list, m_stop, exitHandler, timer, current, notices,
                   records, corruption>>
-----------------------------------------------------------------------------
\* Time passes as long as something depends on it.
tick ==
    /\ ClockMatters \/ sinceLastPurge <= PurgeInterval
    /\ elapse
    /\ sinceLastPurge' = IF sinceLastPurge <= PurgeInterval
                         THEN sinceLastPurge + 1 ELSE sinceLastPurge
    /\ UNCHANGED <<m_records, corruption>>

Worker ==
    \/ /\ loop \/ timedOut \/ skipped
       /\ UNCHANGED <<records, corruption>>
    \/ \E type \in RetryTypes : doRetrying(type)
    \/ \E type \in PlainTypes : doPlain(type)
    \/ doPurge \/ doCheckIntegrity \/ doNotifyCorruption
    \/ callEmptyNotification

\* What a thread that is inside a call finishes by itself.
Callers ==
    /\ notifyArrives \/ stopQueue
    /\ UNCHANGED <<records, corruption>>

Requests ==
    \/ \E p \in Paths, type \in Types :
           \/ registerAsRequired(type, p) \/ registerAsNoRequired(type, p)
           \/ request(type, p) \/ stopRetrying(type, p)
    \/ \E p \in Paths :
           \/ stopAllDatabaseEvent(p) \/ setNotification(p) \/ unsetNotification(p)
           \/ handleError(p) \/ replaceFile(p)
    \/ asyncPurge
    \/ (spuriousWakeup \/ exitProcess) /\ UNCHANGED <<records, corruption>>

Next == worker # "crashed" /\ (Worker \/ Callers \/ Requests \/ tick)

Spec == Init /\ [][Next]_vars

\* The worker and the threads inside a call are scheduled, and time passes.
FairSpec ==
    /\ Spec
    /\ WF_vars(worker # "crashed" /\ Worker)
    /\ WF_vars(worker # "crashed" /\ notifyArrives /\ UNCHANGED <<records, corruption>>)
    /\ WF_vars(worker # "crashed" /\ stopQueue /\ UNCHANGED <<records, corruption>>)
    /\ WF_vars(worker # "crashed" /\ tick)
-----------------------------------------------------------------------------
(* Properties                                                              *)

Keys == (Types \cup {"Integrity", "NotifyCorruption"}) \X Paths \cup {PurgeKey}
Identifiers == Paths \X (1 .. MaxFiles)

\* What an operation carries: its failures, below the tolerable number as
\* doMigrate() and doCompress() assert, or the identifier of the file.
InfoOK(e) ==
    \/ e.key[1] \in RetryTypes /\ e.info \in 0 .. TolerableFailures - 1
    \/ e.key[1] = "NotifyCorruption" /\ e.info \in Identifiers
    \/ e.key[1] \notin RetryTypes \cup {"NotifyCorruption"} /\ e.info = 0

\* The types of the variables; in particular no operation is queued twice, and
\* none is queued after as many failures as are tolerable.
TypeOK ==
    /\ \A e \in Elements : e.key \in Keys /\ e.due \in Nat /\ InfoOK(e)
    /\ \A i, j \in DOMAIN m_list : m_list[i].key = m_list[j].key => i = j
    /\ m_stop \in BOOLEAN
    /\ exitHandler \in {"idle", "raised", "done"}
    /\ worker \in WorkerStates
    /\ timer \in Nat \cup {Forever}
    /\ current.key = <<>> \/ (current.key \in Keys /\ InfoOK(current))
    /\ notices \in 0 .. MaxNotices
    /\ m_records \subseteq Types \X Paths
    /\ sinceLastPurge \in 0 .. PurgeInterval + 1
    /\ m_corrupteds \subseteq Identifiers /\ notified \subseteq Identifiers
    /\ callbacks \subseteq Paths /\ owed \subseteq Paths
    /\ file \in [Paths -> 1 .. MaxFiles]

\* The worker never sleeps longer than until the first operation that is due,
\* unless a notify_one() is on its way, although queue() notifies after the
\* unlock and only when the new element is in front.
NeverOversleeps ==
    worker = "asleep" /\ notices = 0 =>
        \A e \in Elements : timer # Forever /\ timer <= e.due

\* An operation is queued only while it is registered: neither a request nor
\* the worker's own repetition slips in behind registerAsNo...Required().  It
\* is queued once, and never after as many failures as are tolerable.
QueuedIsRegistered ==
    /\ TypeOK
    /\ \A e \in Elements : e.key[1] \in Types => e.key \in m_records

\* The callback is called at most once for a corrupted file: none is on its way
\* for a file whose callback has been called (the set m_corrupteds).
NotifiedOnce ==
    \A e \in Elements \cup {current} :
        e.key # <<>> /\ e.key[1] = "NotifyCorruption" => e.info \notin notified

\* An operation that is queued is taken, or removed: requests that keep coming
\* do not postpone it (Mode::ForwardOnly), nor do other operations.
WorkGetsDone ==
    \A key \in Keys :
        (\E e \in Elements : e.key = key)
            ~> (worker = "crashed" \/ ~\E e \in Elements : e.key = key)

\* A corruption that was confirmed while a callback was set is told to it, as
\* long as the file is still there and can be looked at, the callback stays and
\* the process goes on, also when the file has been replaced and corrupted
\* before.
OwedIsDelivered ==
    \A p \in Paths : p \in owed ~> (p \notin owed \/ isExiting \/ worker = "crashed")

\* When the process exits, loop() returns wherever the worker was.
QueueStops == isExiting ~> worker \in {"returned", "crashed"}
=============================================================================
