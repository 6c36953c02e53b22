----------------------------- MODULE SharedLock -----------------------------
(***************************************************************************)
(* WCDB's own reader/writer lock: src/src/common/base/Lock.cpp.            *)
(*                                                                         *)
(* Every operation runs under the mutex m_lock, from its acquisition to    *)
(* the return or to a wait on one of the two condition variables; that     *)
(* stretch is one action here.  pc[t] says where thread t is:              *)
(*                                                                         *)
(*   "run"            outside the lock's operations                        *)
(*   "waitReaders"    asleep on m_conditionalReaders                       *)
(*   "wokenReaders"   notified (or woken spuriously), not yet rescheduled  *)
(*   "waitWriters", "wokenWriters"   the same for m_conditionalWriters     *)
(*                                                                         *)
(* Calls that the code refuses (lock() while sharing, unlock() without     *)
(* lock(), unlockShared() without lockShared()) return with no effect:     *)
(* they are stuttering steps of this specification.                        *)
(***************************************************************************)
EXTENDS Integers, Sequences, FiniteSets

CONSTANTS Threads,      (* the threads that use the lock                       *)
          NoThread,     (* a null Thread                                       *)
          SignalFront,  (* TRUE: Apple, notify(front); FALSE: notify_all()     *)
          MaxNest       (* bound: acquisitions in one outermost section        *)

ASSUME SharedLockAssumption ==
    /\ NoThread \notin Threads
    /\ SignalFront \in BOOLEAN
    /\ MaxNest \in Nat \ {0}

VARIABLES m_readers, m_writers, m_pendingReaders, m_pendingWriters, m_locking,
          m_threadedReaders,
          pc,      (* where each thread is                                      *)
          nest     (* acquisitions of t since it last held nothing (bounded)    *)

lockState == <<m_readers, m_writers, m_pendingReaders, m_pendingWriters,
               m_locking, m_threadedReaders>>
vars == <<m_readers, m_writers, m_pendingReaders, m_pendingWriters,
          m_locking, m_threadedReaders, pc, nest>>

Places == {"run", "waitReaders", "wokenReaders", "waitWriters", "wokenWriters"}

Init ==
    /\ m_readers = 0
    /\ m_writers = 0
    /\ m_pendingReaders = 0
    /\ m_pendingWriters = <<>>
    /\ m_locking = NoThread
    /\ m_threadedReaders = [t \in Threads |-> 0]
    /\ pc = [t \in Threads |-> "run"]
    /\ nest = [t \in Threads |-> 0]

\* t starts one more nested section; a section has at most MaxNest of them.
Enter(t) ==
    /\ pc[t] = "run"
    /\ nest[t] < MaxNest
    /\ nest' = [nest EXCEPT ![t] = @ + 1]

\* t has given up one hold; nothing is left of its section when it holds nothing.
Leave(t, holds) ==
    nest' = IF holds = 0 THEN [nest EXCEPT ![t] = 0] ELSE nest

Goto(t, place) == pc' = [pc EXCEPT ![t] = place]

\* Mutants of ReaderMustWait: a reentrant reader waits like a new one; a new
\* reader overtakes the queued writers.
ReentrantReaderWaits(t) ==
    IF m_writers > 0 THEN m_locking # t ELSE m_pendingWriters # <<>>

ReaderOvertakes(t) == m_writers > 0 /\ m_locking # t

\* The condition under which lockShared() starts to wait.
ReaderMustWait(t) ==
    IF m_writers > 0
    THEN m_locking # t
    ELSE m_pendingWriters # <<>> /\ m_threadedReaders[t] = 0

GrantShared(t) ==
    /\ m_readers' = m_readers + 1
    /\ m_threadedReaders' = [m_threadedReaders EXCEPT ![t] = @ + 1]

lockShared(t) ==
    /\ Enter(t)
    /\ \/ /\ ReaderMustWait(t)
          /\ m_pendingReaders' = m_pendingReaders + 1
          /\ Goto(t, "waitReaders")
          /\ UNCHANGED <<m_readers, m_threadedReaders>>
       \/ /\ ~ReaderMustWait(t)
          /\ GrantShared(t)
          /\ UNCHANGED <<m_pendingReaders, pc>>
    /\ UNCHANGED <<m_writers, m_pendingWriters, m_locking>>

\* The loop around m_conditionalReaders.wait() in lockShared().
readerWakes(t) ==
    /\ pc[t] = "wokenReaders"
    /\ \/ /\ m_writers > 0 \/ m_pendingWriters # <<>>
          /\ Goto(t, "waitReaders")
          /\ UNCHANGED <<m_readers, m_threadedReaders, m_pendingReaders>>
       \/ /\ m_writers = 0 /\ m_pendingWriters = <<>>
          /\ m_pendingReaders' = m_pendingReaders - 1
          /\ GrantShared(t)
          /\ Goto(t, "run")
    /\ UNCHANGED <<m_writers, m_pendingWriters, m_locking, nest>>

\* m_conditionalWriters.notify(m_pendingWriters.front()) or notify_all().
NotifyWriters ==
    pc' = [t \in Threads |->
             IF /\ pc[t] = "waitWriters"
                /\ SignalFront => t = Head(m_pendingWriters)
             THEN "wokenWriters" ELSE pc[t]]

\* m_conditionalReaders.notify_all()
NotifyReaders ==
    pc' = [t \in Threads |->
             IF pc[t] = "waitReaders" THEN "wokenReaders" ELSE pc[t]]

\* A mutant of NotifyIfLastReader: the count is tested before it is decremented.
NotifyIfNoReader ==
    \/ m_readers = 0 /\ m_writers = 0 /\ m_pendingWriters # <<>> /\ NotifyWriters
    \/ ~(m_readers = 0 /\ m_writers = 0 /\ m_pendingWriters # <<>>) /\ UNCHANGED pc

\* The last reader to leave a lock that nobody owns notifies the next writer.
NotifyIfLastReader ==
    \/ m_readers = 1 /\ m_writers = 0 /\ m_pendingWriters # <<>> /\ NotifyWriters
    \/ ~(m_readers = 1 /\ m_writers = 0 /\ m_pendingWriters # <<>>) /\ UNCHANGED pc

\* unlockShared() refuses a call without a lockShared().
MayUnshare(t) == pc[t] = "run" /\ m_threadedReaders[t] > 0

unlockShared(t) ==
    /\ MayUnshare(t)
    /\ m_threadedReaders' = [m_threadedReaders EXCEPT ![t] = @ - 1]
    /\ m_readers' = m_readers - 1
    /\ NotifyIfLastReader
    /\ Leave(t, m_threadedReaders[t] - 1 + IF m_locking = t THEN m_writers ELSE 0)
    /\ UNCHANGED <<m_writers, m_pendingReaders, m_pendingWriters, m_locking>>

\* A mutant of WriterMustWait: the readers are forgotten.
WriterIgnoresReaders(t, pending) == m_writers > 0 \/ Head(pending) # t

\* The loop condition around m_conditionalWriters.wait() in lock().
WriterMustWait(t, pending) ==
    m_readers > 0 \/ m_writers > 0 \/ Head(pending) # t

\* lock(): reentrant, or at once, or queued behind the others.  Going at once
\* is emplace() followed by pop(), so it needs an empty queue.
lock(t) ==
    /\ Enter(t)
    /\ m_threadedReaders[t] = 0
    /\ \/ /\ m_locking = t
          /\ m_writers' = m_writers + 1
          /\ UNCHANGED <<m_locking, m_pendingWriters, pc>>
       \/ /\ m_locking # t
          /\ ~WriterMustWait(t, Append(m_pendingWriters, t))
          /\ m_writers' = m_writers + 1
          /\ m_locking' = t
          /\ UNCHANGED <<m_pendingWriters, pc>>
       \/ /\ m_locking # t
          /\ WriterMustWait(t, Append(m_pendingWriters, t))
          /\ m_pendingWriters' = Append(m_pendingWriters, t)
          /\ Goto(t, "waitWriters")
          /\ UNCHANGED <<m_writers, m_locking>>
    /\ UNCHANGED <<m_readers, m_pendingReaders, m_threadedReaders>>

writerWakes(t) ==
    /\ pc[t] = "wokenWriters"
    /\ \/ /\ WriterMustWait(t, m_pendingWriters)
          /\ Goto(t, "waitWriters")
          /\ UNCHANGED <<m_writers, m_locking, m_pendingWriters>>
       \/ /\ ~WriterMustWait(t, m_pendingWriters)
          /\ m_pendingWriters' = Tail(m_pendingWriters)
          /\ m_writers' = m_writers + 1
          /\ m_locking' = t
          /\ Goto(t, "run")
    /\ UNCHANGED <<m_readers, m_pendingReaders, m_threadedReaders, nest>>

\* Mutants of NotifyNext: readers before writers; readers never.
NotifyReadersFirst ==
    \/ m_pendingReaders > 0 /\ NotifyReaders
    \/ m_pendingReaders = 0 /\ m_pendingWriters # <<>> /\ NotifyWriters
    \/ m_pendingReaders = 0 /\ m_pendingWriters = <<>> /\ UNCHANGED pc

NotifyOnlyWriters ==
    \/ m_pendingWriters # <<>> /\ NotifyWriters
    \/ m_pendingWriters = <<>> /\ UNCHANGED pc

\* "write lock first": whom the last unlock() notifies.
NotifyNext ==
    \/ m_pendingWriters # <<>> /\ NotifyWriters
    \/ m_pendingWriters = <<>> /\ m_pendingReaders > 0 /\ NotifyReaders
    \/ m_pendingWriters = <<>> /\ m_pendingReaders = 0 /\ UNCHANGED pc

unlock(t) ==
    /\ pc[t] = "run"
    /\ m_threadedReaders[t] = 0
    /\ m_locking = t
    /\ m_writers' = m_writers - 1
    /\ \/ /\ m_writers > 1
          /\ UNCHANGED <<m_locking, pc>>
       \/ /\ m_writers = 1
          /\ m_locking' = NoThread
          /\ NotifyNext
    /\ Leave(t, m_writers - 1)
    /\ UNCHANGED <<m_readers, m_pendingReaders, m_pendingWriters, m_threadedReaders>>

\* std::condition_variable::wait() may return without a notification.
spuriousWakeup(t) ==
    /\ \/ pc[t] = "waitReaders" /\ Goto(t, "wokenReaders")
       \/ pc[t] = "waitWriters" /\ Goto(t, "wokenWriters")
    /\ UNCHANGED <<lockState, nest>>

Next ==
    \E t \in Threads :
        \/ lockShared(t) \/ readerWakes(t) \/ unlockShared(t)
        \/ lock(t) \/ writerWakes(t) \/ unlock(t)
        \/ spuriousWakeup(t)

Spec == Init /\ [][Next]_vars

\* A woken thread is scheduled; a section ends (LockGuard and SharedLockGuard
\* release in their destructors).  Nobody is obliged to ask for the lock, and
\* no spurious wakeup is obliged to happen.
Fairness ==
    \A t \in Threads :
        /\ WF_vars(readerWakes(t))
        /\ WF_vars(writerWakes(t))
        /\ WF_vars(unlockShared(t))
        /\ WF_vars(unlock(t))

FairSpec == Spec /\ Fairness
-----------------------------------------------------------------------------
\* The types of the variables; in particular no counter of Lock.cpp goes below
\* zero, however unlock and unlockShared of the two modes are nested.
TypeOK ==
    /\ m_readers \in Nat
    /\ m_writers \in Nat
    /\ m_pendingReaders \in Nat
    /\ m_pendingWriters \in Seq(Threads)
    /\ m_locking \in Threads \cup {NoThread}
    /\ m_threadedReaders \in [Threads -> Nat]
    /\ pc \in [Threads -> Places]
    /\ nest \in [Threads -> 0 .. MaxNest]

\* The holds of the lock in shared mode, one pair per hold.
SharedHolds == {h \in Threads \X (1 .. MaxNest) : h[2] <= m_threadedReaders[h[1]]}

\* level(): what the calling thread holds; readSafety() and writeSafety()
\* compare it with Read and Write.
level(t) ==
    IF m_locking = t THEN "Write"
    ELSE IF m_threadedReaders[t] > 0 THEN "Read" ELSE "None"

\* Mutual exclusion, stated over the global counters that the code tests: the
\* counters agree with the per-thread holds, m_locking is set exactly while
\* the lock is owned, and while a thread owns the lock nobody else shares it.
Exclusion ==
    /\ m_readers = Cardinality(SharedHolds)
    /\ m_writers > 0 <=> m_locking # NoThread
    /\ \A t \in Threads : level(t) = "Write" =>
          \A u \in Threads \ {t} : level(u) = "None"

\* No wakeup is lost: when the lock is free the writer at the front has been
\* notified, and when no writer holds it or waits for it, every waiting reader
\* has been.  unlock() and unlockShared() are the only places that notify.
NoLostWakeup ==
    /\ m_readers = 0 /\ m_writers = 0 /\ m_pendingWriters # <<>>
          => pc[Head(m_pendingWriters)] = "wokenWriters"
    /\ m_writers = 0 /\ m_pendingWriters = <<>>
          => \A t \in Threads : pc[t] # "waitReaders"

\* A thread that holds the lock never sleeps in it, so reentrant use cannot
\* deadlock a thread with itself or with a writer that waits for it.
HolderNeverWaits ==
    \A t \in Threads : level(t) # "None" => pc[t] = "run"

\* Exactly the sleeping writers are queued, once each; m_pendingReaders counts
\* the sleeping readers.
PendingMatchesWaiting ==
    /\ \A t \in Threads : pc[t] \in {"waitWriters", "wokenWriters"}
          <=> \E i \in DOMAIN m_pendingWriters : m_pendingWriters[i] = t
    /\ \A i, j \in DOMAIN m_pendingWriters :
          m_pendingWriters[i] = m_pendingWriters[j] => i = j
    /\ m_pendingReaders =
          Cardinality({t \in Threads : pc[t] \in {"waitReaders", "wokenReaders"}})

RW == INSTANCE RWLock WITH readers <- m_threadedReaders, writer <- m_locking,
                           depth <- m_writers, queue <- m_pendingWriters

\* The lock behaves as the abstract reader/writer lock: exclusion, reentrancy,
\* writers in order of arrival, no new reader past a queued writer.
ImplementsRWLock == RW!SpecLock

\* A writer that waits gets the lock, whatever the readers do: the reason for
\* which lockShared() makes new readers wait behind queued writers.
WriterProgress ==
    \A t \in Threads : pc[t] = "waitWriters" ~> level(t) = "Write"

\* A reader that waits gets the lock once writers stop coming: nothing else can
\* starve it.
ReaderProgress ==
    <>[](m_locking = NoThread /\ m_pendingWriters = <<>>) =>
        \A t \in Threads : pc[t] = "waitReaders" ~> level(t) = "Read"

=============================================================================
