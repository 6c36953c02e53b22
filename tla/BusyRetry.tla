----------------------------- MODULE BusyRetry -----------------------------
(***************************************************************************)
(* What BusyRetryConfig does with SQLITE_BUSY.  Hooks in SQLite's unix VFS *)
(* tell it which lock a thread is about to request and which locks every   *)
(* connection of the process holds; the busy handler makes a thread sleep  *)
(* while another connection holds what it needs, and every release looks   *)
(* for sleepers that may go on, the main thread first.  A long transaction *)
(* gives way when the main thread waits for it.  Threads read, write and   *)
(* checkpoint one database, each with a connection of its own.             *)
(***************************************************************************)
EXTENDS Naturals, FiniteSets

CONSTANTS Threads, Main, Nobody

ASSUME MainAssumption == Main \in Threads /\ Nobody \notin Threads

VARIABLES journal,           \* of the database, "wal" or "delete"
          apple,             \* sleepers can be woken one by one
          job, pc,           \* what a thread does, and how far it is
          status,            \* it runs, has met SQLITE_BUSY or sleeps in wait()
          conn,              \* SQLite: the locks of the connection of a thread
          m_tryings,         \* the request that was busy, until wait() is over
          m_pagerType, m_localPagerType, m_pagerChangeTid,
          m_shmMasks,
          m_waitings,
          notified           \* sleepers that a notification has reached

thread == <<job, pc, status>>
pager == <<m_pagerType, m_localPagerType, m_pagerChangeTid>>
sleepers == <<m_waitings, notified>>
fixed == <<journal, apple>>
vars == <<fixed, thread, conn, m_tryings, pager, m_shmMasks, sleepers>>

\* Levels of the lock on the database file.
None == 0
Shared == 1
Reserved == 2
Pending == 3
Exclusive == 4

\* Locks of the shared memory of the WAL; the read marks are one.
Locks == {"READ", "WRITE", "CKPT"}
Mask == [shared : SUBSET Locks, exclusive : SUBSET Locks]
NoMask == [shared |-> {}, exclusive |-> {}]

\* A request is for a level of the file, or for locks of the shared memory.
Expecting == [pager : None .. Exclusive, shared : SUBSET Locks, exclusive : SUBSET Locks]
Pager(level) == [pager |-> level, shared |-> {}, exclusive |-> {}]
ShmShared(locks) == [pager |-> None, shared |-> locks, exclusive |-> {}]
ShmExclusive(locks) == [pager |-> None, shared |-> {}, exclusive |-> locks]

Jobs == {"read", "write", "pausable", "checkpoint"}
Writes(t) == job[t] \in {"write", "pausable"}

-----------------------------------------------------------------------------
(* Expecting and State *)

satisfiedByPager(e, type) ==
    CASE e.pager = None -> TRUE
      [] e.pager = Shared -> type < Pending
      [] e.pager = Reserved -> type < Reserved
      [] e.pager \in {Pending, Exclusive} -> type = None

satisfiedByShm(e, mask) ==
    /\ e.shared \cap mask.exclusive = {}
    /\ e.exclusive \cap (mask.shared \cup mask.exclusive) = {}

\* A mutant of shouldWait: a lock that the thread holds itself is waited for.
waitsForOwn(e, type, local, masks) ==
    \/ ~satisfiedByPager(e, type)
    \/ \E i \in Threads : ~satisfiedByShm(e, masks[i])

\* type and local: m_pagerType and what the calling thread has made of it.
shouldWait(e, type, local, masks) ==
    \/ ~satisfiedByPager(e, type) /\ type # local
    \/ \E i \in Threads : ~satisfiedByShm(e, masks[i])

\* A mutant of localShouldWait: the locks of the shared memory are forgotten.
localPagerOnly(t, e) == m_pagerChangeTid = t /\ ~satisfiedByPager(e, m_pagerType)

localShouldWait(t, e) ==
    \/ m_pagerChangeTid = t /\ ~satisfiedByPager(e, m_pagerType)
    \/ ~satisfiedByShm(e, m_shmMasks[t])

mustWait(t) == shouldWait(m_tryings[t], m_pagerType, m_localPagerType[t], m_shmMasks)

\* m_mainThreadBusyTrying is set exactly while the main thread sleeps.
checkMainThreadBusyRetry(t) ==
    status[Main] = "sleep" /\ localShouldWait(t, m_tryings[Main])

\* The release by a thread that has just seen (type, local, masks).  The main
\* thread is the first of the list; while it must wait nobody is notified.
tryNotify(type, local, masks) ==
    LET ready == {t \in m_waitings : ~shouldWait(m_tryings[t], type, local, masks)}
    IN  IF (Main \in m_waitings \ ready) \/ ready = {} THEN UNCHANGED sleepers
        ELSE IF apple THEN /\ notified' = notified \cup ready
                           /\ m_waitings' = m_waitings \ ready
        ELSE /\ notified' = {t \in Threads : status[t] = "sleep"}
             /\ UNCHANGED m_waitings

updatePagerLock(t, type) ==
    IF type = m_pagerType THEN UNCHANGED <<pager, sleepers>>
    ELSE /\ m_pagerType' = type
         /\ m_localPagerType' = [m_localPagerType EXCEPT ![t] = type]
         /\ m_pagerChangeTid' = t
         /\ IF type < m_pagerType THEN tryNotify(type, type, m_shmMasks)
            ELSE UNCHANGED sleepers

\* Masks are numbers in the code; a request only adds bits or only removes some.
Shrinks(mask, old) == \/ old.shared \ mask.shared # {}
                      \/ old.exclusive \ mask.exclusive # {}

\* A mutant of updateShmLock: only the last lock of a connection tells of its release.
notifiesWhenEmpty(t, mask) ==
    LET masks == [m_shmMasks EXCEPT ![t] = mask]
    IN  /\ m_shmMasks' = masks
        /\ IF mask = NoMask THEN tryNotify(m_pagerType, m_localPagerType[t], masks)
           ELSE UNCHANGED sleepers

updateShmLock(t, mask) ==
    LET masks == [m_shmMasks EXCEPT ![t] = mask]
    IN  /\ m_shmMasks' = masks
        /\ IF mask = NoMask \/ Shrinks(mask, m_shmMasks[t])
           THEN tryNotify(m_pagerType, m_localPagerType[t], masks)
           ELSE UNCHANGED sleepers

-----------------------------------------------------------------------------
(* SQLite: requests and releases, with the hooks *)

\* The lock that a thread requests where it is.
Request(t) ==
    CASE pc[t] = "shared" -> IF journal = "wal" THEN ShmShared({"READ"}) ELSE Pager(Shared)
      [] pc[t] = "reserve" -> IF journal = "wal" THEN ShmExclusive({"WRITE"})
                              ELSE Pager(Reserved)
      [] pc[t] = "commit" -> Pager(Exclusive)
      [] pc[t] = "ckpt" -> ShmExclusive({"CKPT"})
      [] pc[t] = "ckptWrite" -> ShmExclusive({"WRITE"})
      [] pc[t] = "ckptRead" -> ShmExclusive({"READ"})

Requests == {"shared", "reserve", "commit", "ckpt", "ckptWrite", "ckptRead"}

\* Another connection holds what e conflicts with.
Conflicts(u, e) ==
    CASE e.pager = Shared -> conn[u].file >= Pending
      [] e.pager = Reserved -> conn[u].file >= Reserved
      [] e.pager = Exclusive -> conn[u].file >= Shared
      [] e.pager = None -> ~satisfiedByShm(e, conn[u])

Granted(t) == \A u \in Threads \ {t} : ~Conflicts(u, Request(t))

Following(t) == CASE pc[t] = "shared" -> IF Writes(t) THEN "reserve" ELSE "work"
                  [] pc[t] = "reserve" -> "work"
                  [] pc[t] = "commit" -> "release"
                  [] pc[t] = "ckpt" -> "ckptWrite"
                  [] pc[t] = "ckptWrite" -> "ckptRead"
                  [] pc[t] = "ckptRead" -> "release"

HoldsShm(t, c) == /\ conn' = [conn EXCEPT ![t] = c]
                  /\ updateShmLock(t, [shared |-> c.shared, exclusive |-> c.exclusive])
                  /\ UNCHANGED pager

\* The level of the inode: SHARED beside a higher lock leaves it as it is.
Highest(levels) == CHOOSE l \in levels : \A k \in levels : k <= l

\* posixUnlock() to SHARED tells at once, to NO_LOCK only of the last one.
HoldsFile(t, level) ==
    /\ conn' = [conn EXCEPT ![t].file = level]
    /\ updatePagerLock(t, Highest({conn[u].file : u \in Threads \ {t}} \cup {level}))
    /\ UNCHANGED m_shmMasks

lock(t) ==
    /\ status[t] = "run" /\ pc[t] \in Requests
    /\ Granted(t)
    /\ pc' = [pc EXCEPT ![t] = Following(t)]
    /\ LET e == Request(t)
       IN  IF e.pager # None THEN HoldsFile(t, e.pager)
           ELSE HoldsShm(t, [conn[t] EXCEPT !.shared = @ \cup e.shared,
                                            !.exclusive = @ \cup e.exclusive])
    /\ UNCHANGED <<fixed, job, status, m_tryings>>

Asks(t) == m_tryings' = [m_tryings EXCEPT ![t] = Request(t)]

\* An EXCLUSIVE lock that has to wait for readers is PENDING.  A checkpoint that
\* finds another one fails, a reader of the WAL tries again by itself, the
\* others ask the busy handler.
lockIsBusy(t) ==
    /\ status[t] = "run" /\ pc[t] \in Requests
    /\ pc[t] = "shared" => journal # "wal"
    /\ ~Granted(t)
    /\ IF pc[t] = "commit" THEN HoldsFile(t, Pending)
       ELSE UNCHANGED <<conn, pager, m_shmMasks, sleepers>>
    /\ CASE pc[t] = "reserve" -> Asks(t) /\ pc' = [pc EXCEPT ![t] = "giveup"]
                                 /\ UNCHANGED <<job, status>>
         [] pc[t] = "ckpt" -> /\ pc' = [pc EXCEPT ![t] = "idle"]
                              /\ job' = [job EXCEPT ![t] = "none"]
                              /\ UNCHANGED <<status, m_tryings>>
         [] OTHER -> Asks(t) /\ status' = [status EXCEPT ![t] = "busy"]
                     /\ UNCHANGED <<job, pc>>
    /\ UNCHANGED fixed

\* One lock after the other is released; FALSE when there is none.
Release(t) ==
    LET c == conn[t]
    IN  \/ /\ c.file > Shared /\ HoldsFile(t, Shared)
        \/ /\ c.file = Shared /\ HoldsFile(t, None)
        \/ /\ "READ" \in c.exclusive
           /\ HoldsShm(t, [c EXCEPT !.exclusive = @ \ {"READ"}])
        \/ /\ "WRITE" \in c.exclusive /\ "READ" \notin c.exclusive
           /\ HoldsShm(t, [c EXCEPT !.exclusive = @ \ {"WRITE"}])
        \/ /\ "WRITE" \notin c.exclusive /\ c.shared # {}
           /\ HoldsShm(t, [c EXCEPT !.shared = {}])
        \/ /\ c.exclusive = {"CKPT"}
           /\ HoldsShm(t, [c EXCEPT !.exclusive = {}])

HoldsNothing(t) == conn[t] = [file |-> None, shared |-> {}, exclusive |-> {}]

\* A mutant of unlockBtreeIfUnused: the busy handler is asked while the read lock is held.
keepsShared(t) ==
    /\ pc[t] = "giveup"
    /\ pc' = [pc EXCEPT ![t] = "reserve"]
    /\ status' = [status EXCEPT ![t] = "busy"]
    /\ UNCHANGED <<fixed, job, conn, m_tryings, pager, m_shmMasks, sleepers>>

\* BEGIN that could not become a writer: it lets go of what it has, then the
\* busy handler is asked.
unlockBtreeIfUnused(t) ==
    /\ pc[t] = "giveup"
    /\ Release(t)
    /\ pc' = [pc EXCEPT ![t] = "shared"]
    /\ status' = [status EXCEPT ![t] = "busy"]
    /\ UNCHANGED <<fixed, job, m_tryings>>

unlock(t) ==
    /\ pc[t] = "release"
    /\ Release(t)
    /\ UNCHANGED <<fixed, thread, m_tryings>>

-----------------------------------------------------------------------------
(* The busy handler *)

\* wait() is over, SQLite tries again.
Retries(t) == /\ status' = [status EXCEPT ![t] = "run"]
              /\ m_tryings' = [m_tryings EXCEPT ![t] = Pager(None)]
              /\ m_waitings' = m_waitings \ {t}

\* onBusy(): the request that was busy may be satisfied by now.
wait(t) ==
    /\ status[t] = "busy"
    /\ IF mustWait(t) THEN /\ m_waitings' = m_waitings \cup {t}
                           /\ status' = [status EXCEPT ![t] = "sleep"]
                           /\ UNCHANGED m_tryings
       ELSE Retries(t)
    /\ UNCHANGED <<fixed, job, pc, conn, pager, m_shmMasks, notified>>

\* Back from wait_for() with a notification: it looks again.
wake(t) ==
    /\ status[t] = "sleep" /\ t \in notified
    /\ notified' = notified \ {t}
    /\ IF mustWait(t) THEN m_waitings' = m_waitings \cup {t} /\ UNCHANGED <<status, m_tryings>>
       ELSE Retries(t)
    /\ UNCHANGED <<fixed, job, pc, conn, pager, m_shmMasks>>

\* Ten seconds without a notification: it tries anyway.
timeOut(t) ==
    /\ status[t] = "sleep" /\ t \notin notified
    /\ Retries(t)
    /\ UNCHANGED <<fixed, job, pc, conn, pager, m_shmMasks, notified>>

-----------------------------------------------------------------------------
(* The threads *)

start(t, j) ==
    /\ pc[t] = "idle"
    /\ j = "checkpoint" => journal = "wal"
    /\ job' = [job EXCEPT ![t] = j]
    /\ pc' = [pc EXCEPT ![t] = IF j = "checkpoint" THEN "ckpt" ELSE "shared"]
    /\ UNCHANGED <<fixed, status, conn, m_tryings, pager, m_shmMasks, sleepers>>

\* The transaction ends: COMMIT of a rollback journal needs the whole file.
Ends(t) == /\ pc' = [pc EXCEPT ![t] = IF journal = "delete" /\ Writes(t) THEN "commit"
                                      ELSE "release"]
           /\ UNCHANGED <<fixed, status, conn, m_tryings, pager, m_shmMasks, sleepers>>

endWork(t) == pc[t] = "work" /\ job[t] # "pausable" /\ Ends(t) /\ UNCHANGED job

\* The loop of runPausableTransactionWithOneLoop(): it stops by itself, or it
\* is paused for the main thread.
stopLoop(t) ==
    pc[t] = "work" /\ job[t] = "pausable" /\ job' = [job EXCEPT ![t] = "write"] /\ Ends(t)

pauseLoop(t) ==
    /\ pc[t] = "work" /\ job[t] = "pausable"
    /\ checkMainThreadBusyRetry(t)
    /\ Ends(t) /\ UNCHANGED job

\* All is released: a paused transaction begins again.
finish(t) ==
    /\ pc[t] = "release" /\ HoldsNothing(t)
    /\ pc' = [pc EXCEPT ![t] = IF job[t] = "pausable" THEN "shared" ELSE "idle"]
    /\ job' = [job EXCEPT ![t] = IF @ = "pausable" THEN @ ELSE "none"]
    /\ UNCHANGED <<fixed, status, conn, m_tryings, pager, m_shmMasks, sleepers>>

Init ==
    /\ journal \in {"wal", "delete"} /\ apple \in BOOLEAN
    /\ job = [t \in Threads |-> "none"]
    /\ pc = [t \in Threads |-> "idle"]
    /\ status = [t \in Threads |-> "run"]
    /\ conn = [t \in Threads |-> [file |-> None, shared |-> {}, exclusive |-> {}]]
    /\ m_tryings = [t \in Threads |-> Pager(None)]
    /\ m_pagerType = None
    /\ m_localPagerType = [t \in Threads |-> None]
    /\ m_pagerChangeTid = Nobody
    /\ m_shmMasks = [t \in Threads |-> NoMask]
    /\ m_waitings = {} /\ notified = {}

\* What a thread does without a decision of its caller.
Runs(t) == lock(t) \/ lockIsBusy(t) \/ unlockBtreeIfUnused(t) \/ unlock(t)
           \/ wait(t) \/ wake(t) \/ timeOut(t) \/ endWork(t) \/ finish(t)

Next == \E t \in Threads : \/ Runs(t) \/ stopLoop(t) \/ pauseLoop(t)
                           \/ \E j \in Jobs : start(t, j)

\* A thread that can go on does, and a transaction comes to its end, except a
\* pausable one, which may go round for ever.  It goes round in less time than
\* the main thread sleeps, so it sees the main thread sleep if it does again
\* and again.
Fairness == \A t \in Threads : WF_vars(Runs(t)) /\ SF_vars(pauseLoop(t))

Spec == Init /\ [][Next]_vars /\ Fairness
-----------------------------------------------------------------------------
Sleeping == {t \in Threads : status[t] = "sleep"}

Blocks(u, t) == u # t /\ Conflicts(u, m_tryings[t])

TypeOK ==
    /\ job \in [Threads -> Jobs \cup {"none"}]
    /\ status \in [Threads -> {"run", "busy", "sleep"}]
    /\ m_tryings \in [Threads -> Expecting]
    /\ m_pagerType \in None .. Exclusive
    /\ m_localPagerType \in [Threads -> None .. Exclusive]
    /\ m_pagerChangeTid \in Threads \cup {Nobody}
    /\ m_shmMasks \in [Threads -> Mask]
    /\ m_waitings \cup notified \subseteq Sleeping

\* A release is never missed, wherever it falls between SQLITE_BUSY and
\* wait_for(): a thread that sleeps and that no notification has reached waits
\* for a lock that another connection holds, or is held back for the main
\* thread, which has not come to its end yet; it is in the list of those whom
\* a release looks at.
NoLostWakeup ==
    /\ TypeOK
    /\ \A t \in Sleeping \ notified :
          /\ t \in m_waitings
          /\ (\E u \in Threads : Blocks(u, t)) \/ (t # Main /\ job[Main] # "none")

\* Whom wait() names to the busy monitor when it times out: another thread,
\* never the sleeper itself, whose sleep nobody could end then.
NeverWaitsForItself ==
    \A t \in Sleeping :
        /\ ~satisfiedByPager(m_tryings[t], m_pagerType) => m_pagerChangeTid \notin {t, Nobody}
        /\ satisfiedByShm(m_tryings[t], m_shmMasks[t])

\* The threads never sleep in a circle, each for a lock of the next, although
\* the handler tells SQLite to retry for ever and checkpoints wait while they
\* hold locks.
NoCircularWait ==
    \A S \in (SUBSET Sleeping) \ {{}} : \E t \in S : \A u \in S : ~Blocks(u, t)

\* A transaction that holds what the main thread waits for comes to its end or
\* is paused, a pausable one too, which would go on for ever otherwise.  (A
\* checkpoint may have to wait for one reader after the other.)
HolderGivesWay ==
    \A t \in Threads \ {Main} :
        Main \in Sleeping /\ Blocks(t, Main) /\ job[t] # "checkpoint" ~> HoldsNothing(t)
=============================================================================
