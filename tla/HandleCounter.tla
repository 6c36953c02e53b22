--------------------------- MODULE HandleCounter ----------------------------
(***************************************************************************)
(* The limit on the handles of one database: src/src/common/core/          *)
(* HandleCounter.cpp.                                                      *)
(*                                                                         *)
(* tryIncreaseHandleCount() and decreaseHandleCount() run under a mutex;   *)
(* one action is the stretch from its acquisition (or from the return of a *)
(* wait) to the return or to the next wait.  pc[t] says where thread t is: *)
(* "run", asleep on one of the two condition variables ("waitNormals",     *)
(* "waitWriters"), or woken and about to run ("wokenNormals",              *)
(* "wokenWriters").                                                        *)
(*                                                                         *)
(* The callers are threads that obtain and recycle handles.  A thread has  *)
(* at most one handle of a category (the pool counts further references    *)
(* itself), here "normal", which waits when the limit is exceeded, and     *)
(* "task" for every other type, which is refused instead.                  *)
(***************************************************************************)
EXTENDS Integers, Sequences, FiniteSets

CONSTANTS Threads,
          MaxHandles, MaxWriters,   (* the two limits, 32 and 4 in CoreConst.h *)
          SignalFront,   (* TRUE: Apple, notify(front); FALSE: notify_all()     *)
          Spurious       (* whether waits may return without a notification     *)

ASSUME HandleCounterAssumption ==
    /\ MaxHandles \in Nat \ {0}
    /\ MaxWriters \in Nat \ {0}
    /\ SignalFront \in BOOLEAN
    /\ Spurious \in BOOLEAN

VARIABLES m_totalCount, m_writerCount, m_pendingNormals, m_pendingWriters,
          pc,      (* where each thread is                                      *)
          hint,    (* the writeHint of the call that t is in                    *)
          held     (* the handles that are out: <<thread, category, writeHint>> *)

vars == <<m_totalCount, m_writerCount, m_pendingNormals, m_pendingWriters,
          pc, hint, held>>

Places == {"run", "waitNormals", "wokenNormals", "waitWriters", "wokenWriters"}
Categories == {"normal", "task"}

Init ==
    /\ m_totalCount = 0
    /\ m_writerCount = 0
    /\ m_pendingNormals = <<>>
    /\ m_pendingWriters = <<>>
    /\ pc = [t \in Threads |-> "run"]
    /\ hint = [t \in Threads |-> FALSE]
    /\ held = {}

\* handleShouldWaitWhenFull()
ShouldWaitWhenFull(category) == category = "normal"

\* A mutant of Full: one handle too many.
FullPlusOne == m_totalCount > MaxHandles

Full == m_totalCount >= MaxHandles

\* A mutant of WritersFull: the writers are not limited.
NeverWritersFull(writeHint) == FALSE

WritersFull(writeHint) == writeHint /\ m_writerCount >= MaxWriters

\* The end of tryIncreaseHandleCount(): t has its handle.
Granted(t, category, writeHint) ==
    /\ m_totalCount' = m_totalCount + 1
    /\ m_writerCount' = IF writeHint THEN m_writerCount + 1 ELSE m_writerCount
    /\ held' = held \cup {<<t, category, writeHint>>}
    /\ pc' = [pc EXCEPT ![t] = "run"]

\* emplace() and wait(), given the queues after a pop().
SleepAsNormal(t, normals, writers) ==
    /\ m_pendingNormals' = Append(normals, t)
    /\ m_pendingWriters' = writers
    /\ pc' = [pc EXCEPT ![t] = "waitNormals"]
    /\ UNCHANGED <<m_totalCount, m_writerCount, held>>

SleepAsWriter(t, normals, writers) ==
    /\ m_pendingNormals' = normals
    /\ m_pendingWriters' = Append(writers, t)
    /\ pc' = [pc EXCEPT ![t] = "waitWriters"]
    /\ UNCHANGED <<m_totalCount, m_writerCount, held>>

\* t has no handle of this category and, because no caller keeps a task's
\* handle while it asks for a normal one, no handle at all when it may wait.
MayAsk(t, category) ==
    /\ pc[t] = "run"
    /\ \A h \in held : h[1] = t => h[2] # category /\ ~ShouldWaitWhenFull(category)

\* tryIncreaseHandleCount(), up to its return or its first wait.  A task that
\* meets a limit is refused, which changes nothing.
tryIncreaseHandleCount(t, category, writeHint) ==
    /\ MayAsk(t, category)
    /\ hint' = [hint EXCEPT ![t] = writeHint]
    /\ \/ /\ Full /\ ShouldWaitWhenFull(category)
          /\ SleepAsNormal(t, m_pendingNormals, m_pendingWriters)
       \/ /\ ~Full /\ WritersFull(writeHint) /\ ShouldWaitWhenFull(category)
          /\ SleepAsWriter(t, m_pendingNormals, m_pendingWriters)
       \/ /\ ~Full /\ ~WritersFull(writeHint)
          /\ Granted(t, category, writeHint)
          /\ UNCHANGED <<m_pendingNormals, m_pendingWriters>>

\* m_conditionalNormals.wait() returns: pop(), which removes the front entry
\* whoever it belongs to, then the total limit, then the writers' limit.
normalWakes(t) ==
    LET normals == Tail(m_pendingNormals) IN
    /\ pc[t] = "wokenNormals"
    /\ \/ Full /\ SleepAsNormal(t, normals, m_pendingWriters)
       \/ ~Full /\ WritersFull(hint[t]) /\ SleepAsWriter(t, normals, m_pendingWriters)
       \/ /\ ~Full /\ ~WritersFull(hint[t])
          /\ Granted(t, "normal", hint[t])
          /\ m_pendingNormals' = normals
          /\ UNCHANGED m_pendingWriters
    /\ UNCHANGED hint

\* m_conditionalWriters.wait() returns: the writers' limit is tested first.
writerWakes(t) ==
    LET writers == Tail(m_pendingWriters) IN
    /\ pc[t] = "wokenWriters"
    /\ \/ WritersFull(hint[t]) /\ SleepAsWriter(t, m_pendingNormals, writers)
       \/ ~WritersFull(hint[t]) /\ Full /\ SleepAsNormal(t, m_pendingNormals, writers)
       \/ /\ ~WritersFull(hint[t]) /\ ~Full
          /\ Granted(t, "normal", hint[t])
          /\ m_pendingWriters' = writers
          /\ UNCHANGED m_pendingNormals
    /\ UNCHANGED hint

\* notify(front) or notify_all() on the condition variable of "asleep".
Notify(asleep, woken, pending) ==
    pc' = [t \in Threads |->
             IF pc[t] = asleep /\ (SignalFront => t = Head(pending)) THEN woken ELSE pc[t]]

\* A mutant of NotifyOnDecrease: a writer that leaves notifies no writer.
NotifyNormalsOnly(writeHint) ==
    \/ m_pendingNormals # <<>> /\ Notify("waitNormals", "wokenNormals", m_pendingNormals)
    \/ m_pendingNormals = <<>> /\ UNCHANGED pc

\* Whom decreaseHandleCount() notifies: a writer that leaves notifies waiting
\* writers first, and then (hasNotified) nobody else.
NotifyOnDecrease(writeHint) ==
    \/ /\ writeHint /\ m_pendingWriters # <<>>
       /\ Notify("waitWriters", "wokenWriters", m_pendingWriters)
    \/ /\ ~(writeHint /\ m_pendingWriters # <<>>)
       /\ m_pendingNormals # <<>>
       /\ Notify("waitNormals", "wokenNormals", m_pendingNormals)
    \/ /\ ~(writeHint /\ m_pendingWriters # <<>>)
       /\ m_pendingNormals = <<>>
       /\ UNCHANGED pc

\* t recycles a handle.
decreaseHandleCount(t, category, writeHint) ==
    /\ pc[t] = "run"
    /\ <<t, category, writeHint>> \in held
    /\ held' = held \ {<<t, category, writeHint>>}
    /\ m_totalCount' = m_totalCount - 1
    /\ m_writerCount' = IF writeHint THEN m_writerCount - 1 ELSE m_writerCount
    /\ NotifyOnDecrease(writeHint)
    /\ UNCHANGED <<m_pendingNormals, m_pendingWriters, hint>>

\* std::condition_variable::wait() may return without a notification.
spuriousWakeup(t) ==
    /\ Spurious
    /\ \/ pc[t] = "waitNormals" /\ pc' = [pc EXCEPT ![t] = "wokenNormals"]
       \/ pc[t] = "waitWriters" /\ pc' = [pc EXCEPT ![t] = "wokenWriters"]
    /\ UNCHANGED <<m_totalCount, m_writerCount, m_pendingNormals, m_pendingWriters, hint, held>>

NewRequest ==
    \E t \in Threads, category \in Categories, writeHint \in BOOLEAN :
        tryIncreaseHandleCount(t, category, writeHint)

Next ==
    \/ NewRequest
    \/ \E t \in Threads :
          \/ normalWakes(t)
          \/ writerWakes(t)
          \/ \E category \in Categories, writeHint \in BOOLEAN :
                decreaseHandleCount(t, category, writeHint)
          \/ spuriousWakeup(t)

Spec == Init /\ [][Next]_vars

\* Woken threads are scheduled and handles are recycled (RecyclableHandle does
\* so in its destructor); nobody has to ask, and no wakeup has to be spurious.
Fairness ==
    \A t \in Threads :
        /\ WF_vars(normalWakes(t))
        /\ WF_vars(writerWakes(t))
        /\ \A category \in Categories, writeHint \in BOOLEAN :
              WF_vars(decreaseHandleCount(t, category, writeHint))

FairSpec == Spec /\ Fairness
-----------------------------------------------------------------------------
\* The types of the variables; in particular neither counter of HandleCounter
\* goes below zero and pop() never meets an empty queue.
TypeOK ==
    /\ m_totalCount \in Nat
    /\ m_writerCount \in Nat
    /\ m_pendingNormals \in Seq(Threads)
    /\ m_pendingWriters \in Seq(Threads)
    /\ pc \in [Threads -> Places]
    /\ hint \in [Threads -> BOOLEAN]
    /\ held \subseteq Threads \X Categories \X BOOLEAN

WriteHeld == {h \in held : h[3]}

\* The limits of the header comment, on the handles that are really out (not
\* on the counters): at most MaxHandles handles, at most MaxWriters of them
\* for writing; the counters that guard them are exact.
WithinLimits ==
    /\ m_totalCount = Cardinality(held)
    /\ m_writerCount = Cardinality(WriteHeld)
    /\ Cardinality(held) <= MaxHandles
    /\ Cardinality(WriteHeld) <= MaxWriters

Asleep(t) == pc[t] \in {"waitNormals", "waitWriters"}
Woken(t) == pc[t] \in {"wokenNormals", "wokenWriters"}

\* Each queue has one entry per thread in the corresponding wait, woken or
\* not: size() > 0, which decides about a notification, is never stale, even
\* though pop() may remove the entry of another thread.
QueuesCountWaiters ==
    /\ Len(m_pendingNormals) =
          Cardinality({t \in Threads : pc[t] \in {"waitNormals", "wokenNormals"}})
    /\ Len(m_pendingWriters) =
          Cardinality({t \in Threads : pc[t] \in {"waitWriters", "wokenWriters"}})

\* Nobody sleeps for good: while a thread sleeps some handle is still out, so
\* a notification is still to come, or some waiter has just been woken.
SleeperHasWaker ==
    (\E t \in Threads : Asleep(t)) => held # {} \/ \E t \in Threads : Woken(t)

Budget == INSTANCE HandleBudget WITH total <- m_totalCount, writers <- m_writerCount

\* The counter implements the abstract budget.
ImplementsHandleBudget == Budget!SpecBudget

\* Every waiter is served once new requests stop: the chain of notifications
\* reaches everyone (a stream of new requests may overtake a woken waiter).
WaitersServed ==
    <>[][~NewRequest]_vars =>
        \A t \in Threads : Asleep(t) ~> pc[t] = "run"
=============================================================================
