----------------------------- MODULE HandlePool -----------------------------
(***************************************************************************)
(* The handle pool of one database and the operations of InnerDatabase     *)
(* that use it: src/src/common/core/HandlePool.cpp, InnerDatabase.cpp.     *)
(*                                                                         *)
(* m_concurrency is an instance of RWLock (which SharedLock implements)    *)
(* and the counter an instance of HandleBudget (which HandleCounter        *)
(* implements).  m_memory guards sections that never wait for anything     *)
(* else: each such section is one action.  The pool's owner holds it too.  *)
(*                                                                         *)
(* pc[t] is where thread t is; "idle" is outside the pool.                 *)
(*                                                                         *)
(*   init, initLock, initQueued, initOwned   InnerDatabase::initialize()   *)
(*   count, take, generate, reuse     HandlePool::flowOut()                *)
(*   mark, check, work, recycle       a task that runs with its handle     *)
(*   decrease                         the end of HandlePool::flowBack()    *)
(*   suspend, drain, drainQueued, clear, undrain     InnerDatabase::close()*)
(*   blockadeQueued                   HandlePool::blockade()               *)
(*                                                                         *)
(* Normal handles are kept by the application between its calls.  "Backup" *)
(* and "Migrate" are interruptible tasks: Backup marks its handle as one   *)
(* that can be suspended and then tests m_closing, the others (migration,  *)
(* compression, checkpoint, integrity check) do it in the other order.     *)
(* "Vacuum" is what the callback of close() uses in vacuum(), deposit()    *)
(* and retrieve().                                                         *)
(***************************************************************************)
EXTENDS Integers, Sequences, FiniteSets

CONSTANTS Threads, NoThread,
          Handles, NoHandle,        (* InnerHandle objects, and nullptr         *)
          MaxHandles, MaxWriters,   (* the counter's limits                     *)
          TaskTypes,                (* the interruptible tasks that are run     *)
          Callbacks,                (* what close() is called with              *)
          MaxReference   (* bound: references of a thread to one handle         *)

ASSUME HandlePoolAssumption ==
    /\ NoThread \notin Threads
    /\ NoHandle \notin Handles
    /\ TaskTypes \subseteq {"Backup", "Migrate"}
    /\ Callbacks \subseteq {"none", "Vacuum"}
    /\ MaxHandles \in Nat \ {0} /\ MaxWriters \in Nat \ {0}
    /\ MaxReference \in Nat \ {0}

VARIABLES
    readers, writer, depth, queue,   (* m_concurrency, see RWLock               *)
    total, writers,                  (* m_counter, see HandleBudget             *)
    m_initialized,
    m_closing,       (* how many close() are under way                          *)
    m_handles,       (* m_handles[slot]: the handles that exist                 *)
    m_frees,         (* m_frees[slot]: those that are not in use, oldest first  *)
    referenced,      (* m_threadedHandles: what each thread uses, per type      *)
    writeHints,      (* the handles that were handed out with a write hint      *)
    opened,          (* the handles that have been set up and not closed since  *)
    canBeSuspended,  (* m_canBeSuspended of each handle                         *)
    suspended,       (* the handles that sqlite3_suspend() interrupts           *)
    pc,
    op               (* what t's call is about, see Ops                         *)

concurrency == <<readers, writer, depth, queue>>
counter == <<total, writers>>
pool == <<m_initialized, m_closing, m_handles, m_frees, referenced>>
handleState == <<writeHints, opened, canBeSuspended, suspended>>
vars == <<concurrency, counter, pool, handleState, pc, op>>

Concurrency == INSTANCE RWLock
Counter == INSTANCE HandleBudget

\* Every type modelled has a category of its own.
Types == {"Normal", "Vacuum"} \cup TaskTypes
Slots == {"Normal", "AutoTask", "Vacuum"}
slotOfHandleType(type) == IF type \in TaskTypes THEN "AutoTask" ELSE type

Places == {"idle", "init", "initLock", "initQueued", "initOwned", "count", "take", "generate", "reuse",
           "mark", "check", "work", "recycle", "decrease", "suspend", "drain",
           "drainQueued", "clear", "undrain", "blockadeQueued"}

\* type and hint are the arguments of flowOut(), handle its candidate,
\* callback the argument of the close() that t is in, or "outside".
Ops == [type : Types, hint : BOOLEAN, handle : Handles \cup {NoHandle},
        callback : {"outside", "none", "Vacuum"}]

NoOp == [type |-> "Normal", hint |-> FALSE, handle |-> NoHandle, callback |-> "outside"]
NoReference == [handle |-> NoHandle, reference |-> 0]

Init ==
    /\ Concurrency!InitLock
    /\ Counter!InitBudget
    /\ m_initialized = FALSE
    /\ m_closing = 0
    /\ m_handles = [s \in Slots |-> {}]
    /\ m_frees = [s \in Slots |-> <<>>]
    /\ referenced = [t \in Threads |-> [type \in Types |-> NoReference]]
    /\ writeHints = {} /\ opened = {} /\ canBeSuspended = {} /\ suspended = {}
    /\ pc = [t \in Threads |-> "idle"]
    /\ op = [t \in Threads |-> NoOp]

-----------------------------------------------------------------------------
(* Helpers                                                                 *)

Goto(t, place) == pc' = [pc EXCEPT ![t] = place]

\* Where a call ends: with the application, or in the callback of close().
Finish(t) ==
    /\ Goto(t, IF op[t].callback = "outside" THEN "idle" ELSE "undrain")
    /\ op' = [op EXCEPT ![t] = [NoOp EXCEPT !.callback = op[t].callback]]

\* level() of m_concurrency
Level(t) == IF writer = t THEN "Write" ELSE IF readers[t] > 0 THEN "Read" ELSE "None"

AliveHandles == UNION {m_handles[s] : s \in Slots}
FreesOf(s) == {m_frees[s][i] : i \in DOMAIN m_frees[s]}
FreeHandles == UNION {FreesOf(s) : s \in Slots}
InUse == {referenced[t][type].handle : t \in Threads, type \in Types} \ {NoHandle}
Candidates == {op[t].handle : t \in Threads} \ {NoHandle}

\* A new InnerHandle has an address that nothing else uses, no matter which.
Unused == Handles \ (AliveHandles \cup InUse \cup Candidates)
Fresh == {h \in Unused : h = CHOOSE g \in Unused : TRUE}

\* Back in the counter, and m_concurrency's guard of initialize() gone.
LeaveGuard(t) ==
    /\ readers' = [readers EXCEPT ![t] = @ - 1]
    /\ UNCHANGED <<writer, depth, queue>>

-----------------------------------------------------------------------------
(* InnerDatabase::initialize()                                             *)

\* The first section of the loop: a guard if the database is initialized.
\* Otherwise it is released again and the thread goes for the write lock.
initialize(t) ==
    /\ pc[t] = "init"
    /\ \/ /\ m_initialized
          /\ Concurrency!Share(t)
          /\ Goto(t, "count")
       \/ /\ ~m_initialized
          /\ Concurrency!CanShare(t)
          /\ UNCHANGED concurrency
          /\ Goto(t, "initLock")
    /\ UNCHANGED <<counter, pool, handleState, op>>

initializeLock(t) ==
    /\ \/ pc[t] = "initLock" /\ Concurrency!Own(t) /\ Goto(t, "initOwned")
       \/ pc[t] = "initLock" /\ Concurrency!Enqueue(t) /\ Goto(t, "initQueued")
       \/ pc[t] = "initQueued" /\ Concurrency!OwnFromQueue(t) /\ Goto(t, "initOwned")
    /\ UNCHANGED <<counter, pool, handleState, op>>

\* With the write lock: somebody else was faster, or the files are prepared,
\* or that fails and the operation ends without a handle.
initializeOwned(t) ==
    /\ pc[t] = "initOwned"
    /\ Concurrency!Disown(t)
    /\ \/ m_initialized' = TRUE /\ Goto(t, "init") /\ UNCHANGED op
       \/ ~m_initialized /\ UNCHANGED m_initialized /\ Finish(t)
    /\ UNCHANGED <<counter, m_closing, m_handles, m_frees, referenced, handleState>>

-----------------------------------------------------------------------------
(* HandlePool::flowOut()                                                   *)

\* The thread uses a handle of this type already: one more reference to it.
\* The guard of initialize() comes and goes.
flowOutAgain(t) ==
    /\ pc[t] = "idle"
    /\ referenced[t]["Normal"].reference \in 1 .. MaxReference - 1
    /\ referenced' = [referenced EXCEPT ![t]["Normal"].reference = @ + 1]
    /\ UNCHANGED <<concurrency, counter, m_initialized, m_closing, m_handles, m_frees,
                   handleState, pc, op>>

\* InnerDatabase::getHandle(), for a thread that has none.
getHandle(t, hint) ==
    /\ pc[t] = "idle"
    /\ referenced[t]["Normal"] = NoReference
    /\ op' = [op EXCEPT ![t] = [NoOp EXCEPT !.hint = hint]]
    /\ Goto(t, "init")
    /\ UNCHANGED <<concurrency, counter, pool, handleState>>

\* An interruptible task of the operation queue.
runTask(t, type) ==
    /\ pc[t] = "idle"
    /\ op' = [op EXCEPT ![t] = [NoOp EXCEPT !.type = type]]
    /\ Goto(t, "init")
    /\ UNCHANGED <<concurrency, counter, pool, handleState>>

\* tryIncreaseHandleCount(): a Normal handle waits for the counter, other
\* types are refused, and flowOut() returns nullptr.
increaseHandleCount(t) ==
    /\ pc[t] = "count"
    /\ \/ /\ Counter!Grant(op[t].hint)
          /\ Goto(t, "take")
          /\ UNCHANGED <<concurrency, op>>
       \/ /\ Counter!Exceeded(op[t].hint)
          /\ op[t].type # "Normal"
          /\ LeaveGuard(t)
          /\ Finish(t)
          /\ UNCHANGED counter
    /\ UNCHANGED <<pool, handleState>>

\* The last of the free handles of the slot, if there is one.
takeFreeHandle(t) ==
    LET slot == slotOfHandleType(op[t].type)
        frees == m_frees[slot]
    IN  /\ pc[t] = "take"
        /\ \/ /\ frees # <<>>
              /\ op' = [op EXCEPT ![t].handle = frees[Len(frees)]]
              /\ m_frees' = [m_frees EXCEPT ![slot] = SubSeq(frees, 1, Len(frees) - 1)]
              /\ Goto(t, "reuse")
           \/ /\ frees = <<>>
              /\ Goto(t, "generate")
              /\ UNCHANGED <<m_frees, op>>
        /\ UNCHANGED <<concurrency, counter, m_initialized, m_closing, m_handles, referenced,
                       handleState>>

\* The end of flowOut(), with handle h: it is set up, referenced, and keeps
\* m_concurrency shared.  getHandle() then drops the guard of initialize(), a
\* task keeps it.
HandOut(t, h) ==
    /\ referenced' = [referenced EXCEPT ![t][op[t].type] = [handle |-> h, reference |-> 1]]
    /\ writeHints' = IF op[t].hint THEN writeHints \cup {h} ELSE writeHints \ {h}
    /\ canBeSuspended' = canBeSuspended \ {h}
    /\ suspended' = suspended \ {h}
    /\ IF op[t].type = "Normal"
       THEN /\ UNCHANGED concurrency
            /\ Finish(t)
       ELSE /\ Concurrency!Share(t)
            /\ Goto(t, CASE op[t].type = "Backup" -> "mark"
                         [] op[t].type = "Migrate" -> "check"
                         [] OTHER -> "work")
            /\ op' = [op EXCEPT ![t].handle = NoHandle]

\* A mutant of FlowOutFails: the counter is not given back.
FlowOutForgetsCounter(t) ==
    /\ LeaveGuard(t)
    /\ Finish(t)
    /\ UNCHANGED <<referenced, counter>>

\* flowOut() fails: the counter is given back and nullptr returned.
FlowOutFails(t) ==
    /\ Counter!GiveBack(op[t].hint)
    /\ LeaveGuard(t)
    /\ Finish(t)
    /\ UNCHANGED referenced

\* A mutant of CloseFrees: the handles in use are purged with the free ones.
CloseAll(handles, new) ==
    /\ m_handles' = [s \in Slots |-> handles[s] \cap new]
    /\ m_frees' = [s \in Slots |-> <<>>]
    /\ opened' = new

\* purge(): the free handles of every slot are closed and forgotten.  "handles"
\* are the handles that exist, "new" is the one that flowOut() is adding.
CloseFrees(handles, new) ==
    /\ m_handles' = [s \in Slots |-> handles[s] \ FreesOf(s)]
    /\ m_frees' = [s \in Slots |-> <<>>]
    /\ opened' = (opened \ FreeHandles) \cup new

\* ~isNumberOfHandlesAllowed()
MustPurge(handles) == Cardinality(UNION {handles[s] : s \in Slots}) > MaxHandles

\* generateSlotedHandle(), emplace() and, when there are too many handles now,
\* purge(), in which the new handle is not free.
generateHandle(t) ==
    LET slot == slotOfHandleType(op[t].type) IN
    /\ pc[t] = "generate"
    /\ \/ \E h \in Fresh :
             LET handles == [m_handles EXCEPT ![slot] = @ \cup {h}] IN
             /\ HandOut(t, h)
             /\ IF MustPurge(handles)
                THEN CloseFrees(handles, {h})
                ELSE /\ m_handles' = handles
                     /\ opened' = opened \cup {h}
                     /\ UNCHANGED m_frees
             /\ UNCHANGED counter
       \/ /\ FlowOutFails(t)
          /\ UNCHANGED <<m_handles, m_frees, handleState>>
    /\ UNCHANGED <<m_initialized, m_closing>>

\* willReuseSlotedHandle(): the free handle is set up again, or closed.
reuseHandle(t) ==
    LET slot == slotOfHandleType(op[t].type)
        h == op[t].handle
    IN  /\ pc[t] = "reuse"
        /\ \/ /\ HandOut(t, h)
              /\ opened' = opened \cup {h}
              /\ UNCHANGED <<counter, m_handles>>
           \/ /\ FlowOutFails(t)
              /\ opened' = opened \ {h}
              /\ m_handles' = [m_handles EXCEPT ![slot] = @ \ {h}]
              /\ UNCHANGED <<writeHints, canBeSuspended, suspended>>
        /\ UNCHANGED <<m_initialized, m_closing, m_frees>>

-----------------------------------------------------------------------------
(* Tasks                                                                   *)

\* markAsCanBeSuspended(true): Backup does it before it tests m_closing, the
\* other tasks after.
markAsCanBeSuspended(t) ==
    /\ pc[t] = "mark"
    /\ canBeSuspended' = canBeSuspended \cup {referenced[t][op[t].type].handle}
    /\ Goto(t, IF op[t].type = "Backup" THEN "check" ELSE "work")
    /\ UNCHANGED <<concurrency, counter, pool, writeHints, opened, suspended, op>>

\* A mutant of checkShouldInterruptWhenClosing: it never interrupts.
CheckNothing(t) ==
    /\ pc[t] = "check"
    /\ Goto(t, IF op[t].type = "Backup" THEN "work" ELSE "mark")
    /\ UNCHANGED <<concurrency, counter, pool, handleState, op>>

\* checkShouldInterruptWhenClosing()
checkShouldInterruptWhenClosing(t) ==
    /\ pc[t] = "check"
    /\ \/ m_closing # 0 /\ Goto(t, "recycle")
       \/ m_closing = 0 /\ Goto(t, IF op[t].type = "Backup" THEN "work" ELSE "mark")
    /\ UNCHANGED <<concurrency, counter, pool, handleState, op>>

\* A mutant of finishWork: a task that is interrupted tries again.
WorkOnWhenSuspended(t) ==
    /\ pc[t] = "work"
    /\ Goto(t, IF referenced[t][op[t].type].handle \in suspended THEN "work" ELSE "recycle")
    /\ UNCHANGED <<concurrency, counter, pool, handleState, op>>

\* The task itself is over, finished or interrupted.
finishWork(t) ==
    /\ pc[t] = "work"
    /\ Goto(t, "recycle")
    /\ UNCHANGED <<concurrency, counter, pool, handleState, op>>

-----------------------------------------------------------------------------
(* HandlePool::flowBack()                                                  *)

\* A reference less; the last one returns the handle to its free list and
\* unlocks.  The counter follows, outside of m_concurrency.
FlowBack(t, type) ==
    LET h == referenced[t][type].handle
        slot == slotOfHandleType(type)
    IN  /\ referenced' = [referenced EXCEPT ![t][type] = NoReference]
        /\ m_frees' = [m_frees EXCEPT ![slot] = Append(@, h)]
        /\ writeHints' = writeHints \ {h}
        /\ op' = [op EXCEPT ![t].type = type, ![t].hint = h \in writeHints]
        /\ Concurrency!Unshare(t)
        /\ Goto(t, "decrease")
        /\ UNCHANGED <<counter, m_initialized, m_closing, m_handles, opened, canBeSuspended,
                       suspended>>

\* The application releases a reference to its handle.
recycleHandle(t) ==
    \/ /\ pc[t] = "idle"
       /\ referenced[t]["Normal"].reference = 1
       /\ FlowBack(t, "Normal")
    \/ /\ pc[t] = "idle"
       /\ referenced[t]["Normal"].reference > 1
       /\ referenced' = [referenced EXCEPT ![t]["Normal"].reference = @ - 1]
       /\ UNCHANGED <<concurrency, counter, m_initialized, m_closing, m_handles, m_frees,
                      handleState, pc, op>>

\* A task releases its handle.
recycleTask(t) == pc[t] = "recycle" /\ FlowBack(t, op[t].type)

\* A mutant of decreaseHandleCount: the task leaks its guard of initialize().
DecreaseKeepsGuard(t) ==
    /\ pc[t] = "decrease"
    /\ Counter!GiveBack(op[t].hint)
    /\ UNCHANGED concurrency
    /\ Finish(t)
    /\ UNCHANGED <<pool, handleState>>

\* decreaseHandleCount(), and the end of the task's guard of initialize().
decreaseHandleCount(t) ==
    /\ pc[t] = "decrease"
    /\ Counter!GiveBack(op[t].hint)
    /\ IF op[t].type = "Normal" THEN UNCHANGED concurrency ELSE LeaveGuard(t)
    /\ Finish(t)
    /\ UNCHANGED <<pool, handleState>>

purge(t) ==
    /\ pc[t] = "idle"
    /\ Concurrency!CanShare(t)
    /\ FreeHandles # {}
    /\ CloseFrees(m_handles, {})
    /\ UNCHANGED <<concurrency, counter, m_initialized, m_closing, referenced,
                   writeHints, canBeSuspended, suspended, pc, op>>

-----------------------------------------------------------------------------
(* InnerDatabase::close(), HandlePool::drain(), blockade() and unblockade()*)

\* InnerDatabase::close(): m_closing is incremented first.  The second conjunct
\* is the caller's duty, which no code enforces ("make sure all WCDB objects in
\* current thread is dealloced", cpp/core/Database.hpp): a thread that
\* blockades the database and uses a handle of it does not close it, as drain()
\* would not notice, and close that handle.
close(t, callback) ==
    /\ pc[t] = "idle"
    /\ ~(writer = t /\ readers[t] > 0)
    /\ m_closing' = m_closing + 1
    /\ op' = [op EXCEPT ![t].callback = callback]
    /\ Goto(t, "suspend")
    /\ UNCHANGED <<concurrency, counter, m_initialized, m_handles, m_frees, referenced, handleState>>

\* suspend(true) on every handle of the automatic tasks, free or in use: it
\* interrupts those that can be suspended and lets the others go on.
suspendTasks(t) ==
    LET tasks == m_handles["AutoTask"] IN
    /\ pc[t] = "suspend"
    /\ Concurrency!CanShare(t)
    /\ suspended' = (suspended \ tasks) \cup (tasks \cap canBeSuspended \cap opened)
    /\ Goto(t, "drain")
    /\ UNCHANGED <<concurrency, counter, pool, writeHints, opened, canBeSuspended, op>>

EndClose(t) ==
    /\ m_closing' = m_closing - 1
    /\ Goto(t, "idle")
    /\ op' = [op EXCEPT ![t] = NoOp]

\* "There are some threaded handles not invalidated.": drain() returns at once.
DrainRefused(t) == Level(t) = "Read"

\* drain() takes the write lock.  A thread that owns it and shares it too is
\* refused by lock() ("Upgrade lock is not supported.") but goes on.
drain(t) ==
    /\ \/ /\ pc[t] = "drain"
          /\ DrainRefused(t)
          /\ EndClose(t)
          /\ UNCHANGED concurrency
       \/ /\ pc[t] = "drain"
          /\ ~DrainRefused(t)
          /\ IF readers[t] > 0 THEN UNCHANGED concurrency ELSE Concurrency!Own(t)
          /\ Goto(t, "clear")
          /\ UNCHANGED <<op, m_closing>>
       \/ /\ pc[t] = "drain"
          /\ ~DrainRefused(t)
          /\ Concurrency!Enqueue(t)
          /\ Goto(t, "drainQueued")
          /\ UNCHANGED <<op, m_closing>>
       \/ /\ pc[t] = "drainQueued"
          /\ Concurrency!OwnFromQueue(t)
          /\ Goto(t, "clear")
          /\ UNCHANGED <<op, m_closing>>
    /\ UNCHANGED <<counter, m_initialized, m_handles, m_frees, referenced, handleState>>

\* A mutant of ClearAllHandles: the free lists survive.
ClearKeepsFrees ==
    /\ m_handles' = [s \in Slots |-> {}]
    /\ opened' = opened \ AliveHandles
    /\ m_initialized' = FALSE
    /\ UNCHANGED m_frees

\* A mutant of ClearAllHandles: the handles are forgotten, not closed.
ClearWithoutClosing ==
    /\ m_handles' = [s \in Slots |-> {}]
    /\ m_frees' = [s \in Slots |-> <<>>]
    /\ m_initialized' = FALSE
    /\ UNCHANGED opened

\* clearAllHandles() and didDrain()
ClearAllHandles ==
    /\ m_handles' = [s \in Slots |-> {}]
    /\ m_frees' = [s \in Slots |-> <<>>]
    /\ opened' = opened \ AliveHandles
    /\ m_initialized' = FALSE

\* The pool is drained; the callback runs with the write lock.
clearHandles(t) ==
    /\ pc[t] = "clear"
    /\ ClearAllHandles
    /\ \/ op[t].callback = "none" /\ Goto(t, "undrain") /\ UNCHANGED op
       \/ /\ op[t].callback = "Vacuum"
          /\ Goto(t, "init")
          /\ op' = [op EXCEPT ![t].type = "Vacuum"]
    /\ UNCHANGED <<concurrency, counter, m_closing, referenced, writeHints, canBeSuspended, suspended>>

\* The second clearAllHandles() after a callback, the end of drain() and close().
undrain(t) ==
    /\ pc[t] = "undrain"
    /\ IF op[t].callback = "none" THEN UNCHANGED <<m_handles, m_frees, opened, m_initialized>>
                                  ELSE ClearAllHandles
    /\ IF readers[t] > 0 THEN UNCHANGED concurrency ELSE Concurrency!Disown(t)
    /\ EndClose(t)
    /\ UNCHANGED <<counter, referenced, writeHints, canBeSuspended, suspended>>

\* lock() by a thread that shares is refused, here a stuttering step.
blockade(t) ==
    /\ pc[t] = "idle" /\ writer # t
    /\ \/ Concurrency!Own(t) /\ UNCHANGED pc
       \/ Concurrency!Enqueue(t) /\ Goto(t, "blockadeQueued")
    /\ UNCHANGED <<counter, pool, handleState, op>>

blockadeGoesOn(t) ==
    /\ pc[t] = "blockadeQueued"
    /\ Concurrency!OwnFromQueue(t)
    /\ Goto(t, "idle")
    /\ UNCHANGED <<counter, pool, handleState, op>>

\* A mutant of unblockade: level() is compared with Read, as in drain().
UnblockadeAtRead(t) ==
    /\ pc[t] = "idle"
    /\ Level(t) = "Read"
    /\ Concurrency!Disown(t)
    /\ UNCHANGED <<counter, pool, handleState, pc, op>>

\* Refused without blockade() (the owner only), and, by unlock(), to a thread
\* that also shares.
unblockade(t) ==
    /\ pc[t] = "idle"
    /\ Concurrency!Disown(t)
    /\ UNCHANGED <<counter, pool, handleState, pc, op>>

-----------------------------------------------------------------------------
\* What the application or the operation queue starts.
Start(t) ==
    \/ flowOutAgain(t)
    \/ \E hint \in BOOLEAN : getHandle(t, hint)
    \/ \E type \in TaskTypes : runTask(t, type)
    \/ purge(t)
    \/ \E callback \in Callbacks : close(t, callback)
    \/ blockade(t)

\* What a thread that is in a call, or holds something, goes on with.
GoOn(t) ==
    \/ initialize(t) \/ initializeLock(t) \/ initializeOwned(t)
    \/ increaseHandleCount(t) \/ takeFreeHandle(t) \/ generateHandle(t) \/ reuseHandle(t)
    \/ markAsCanBeSuspended(t) \/ checkShouldInterruptWhenClosing(t) \/ finishWork(t)
    \/ recycleHandle(t) \/ recycleTask(t) \/ decreaseHandleCount(t)
    \/ suspendTasks(t) \/ drain(t) \/ clearHandles(t) \/ undrain(t)
    \/ blockadeGoesOn(t) \/ unblockade(t)

Next == \E t \in Threads : Start(t) \/ GoOn(t)

Spec == Init /\ [][Next]_vars

\* Calls go on; a thread that keeps coming back from its calls at some time
\* recycles its handle (RecyclableHandle does so at the end of its scope) and
\* lifts its blockade.  Nobody has to start anything.
Fairness ==
    \A t \in Threads :
        /\ WF_vars(GoOn(t))
        /\ SF_vars(recycleHandle(t))
        /\ SF_vars(recycleHandle(t) /\ referenced'[t]["Normal"] = NoReference)
        /\ SF_vars(unblockade(t))

FairSpec == Spec /\ Fairness
-----------------------------------------------------------------------------
\* The types of the variables; in particular no thread references a handle more
\* than MaxReference times, and no count goes below zero on a failing path of
\* flowOut() or flowBack().
TypeOK ==
    /\ readers \in [Threads -> Nat] /\ writer \in Threads \cup {NoThread}
    /\ depth \in Nat /\ queue \in Seq(Threads)
    /\ total \in Nat /\ writers \in Nat
    /\ m_initialized \in BOOLEAN /\ m_closing \in Nat
    /\ m_handles \in [Slots -> SUBSET Handles]
    /\ m_frees \in [Slots -> Seq(Handles)]
    /\ referenced \in [Threads -> [Types -> [handle : Handles \cup {NoHandle},
                                           reference : 0 .. MaxReference]]]
    /\ writeHints \subseteq Handles /\ opened \subseteq Handles
    /\ canBeSuspended \subseteq Handles /\ suspended \subseteq Handles
    /\ pc \in [Threads -> Places]
    /\ op \in [Threads -> Ops]

\* No handle is closed or dropped from the pool while a thread uses it, by
\* purge(), by drain() or by a failing reuse: every handle in use is open and
\* in m_handles, and the database stays initialized.  drain() relies on it:
\* "There are some threaded handles not invalidated."
InUseIsAlive ==
    \A t \in Threads, type \in Types :
        referenced[t][type].handle # NoHandle =>
            /\ referenced[t][type].handle \in opened
            /\ referenced[t][type].handle \in m_handles[slotOfHandleType(type)]
            /\ m_initialized

\* A handle is used by one thread for one purpose, or is a candidate of one
\* flowOut(), or is free exactly once, in the slot to which it belongs.
HandlesAreExclusive ==
    /\ \A t, u \in Threads : \A x, y \in Types :
          /\ referenced[t][x].handle = referenced[u][y].handle
          /\ referenced[t][x].handle # NoHandle
          => t = u /\ x = y
    /\ \A t, u \in Threads : op[t].handle = op[u].handle /\ op[t].handle # NoHandle => t = u
    /\ InUse \cap Candidates = {}
    /\ FreeHandles \cap (InUse \cup Candidates) = {}
    /\ \A s \in Slots :
          /\ FreesOf(s) \subseteq m_handles[s]
          /\ Len(m_frees[s]) = Cardinality(FreesOf(s))

\* What counts in the counter: a handle in use, a flowOut() between its
\* increment and its end, a flowBack() before its decrement.
Counted ==
    {use \in Threads \X Types : referenced[use[1]][use[2]] # NoReference}
    \cup {<<t, "call">> : t \in {u \in Threads : pc[u] \in {"take", "generate", "reuse", "decrease"}}}

\* Every path through flowOut() and flowBack(), the failing ones included,
\* counts its handle once; nothing stays counted when everybody is done, and no
\* count of the pool goes below zero.
CounterIsExact == TypeOK /\ total = Cardinality(Counted)

\* What a thread shares m_concurrency for: its handles, and the guard of
\* initialize().  lock() by a thread that shares does nothing (it returns with
\* an error), so initialize() and drain() must come without.
SharesAreOwed ==
    \A t \in Threads :
        /\ readers[t] = Cardinality({type \in Types : referenced[t][type] # NoReference})
                        + (IF \/ pc[t] \in {"count", "take", "generate", "reuse", "mark",
                                            "check", "work", "recycle"}
                              \/ pc[t] = "decrease" /\ op[t].type # "Normal"
                           THEN 1 ELSE 0)
        /\ pc[t] \in {"initLock", "initOwned", "clear", "undrain"} => readers[t] = 0

\* "this function can make sure database is closed in the onClosed closure.
\* All other operations will be blocked": while close() runs its callback no
\* other thread has a handle or is on its way through flowOut(), and when the
\* callback begins nothing is open.
ClosedInCallback ==
    \A t \in Threads :
        /\ op[t].callback # "outside" /\ pc[t] \notin {"suspend", "drain", "drainQueued"} =>
              \A u \in Threads \ {t} :
                  /\ \A type \in Types : referenced[u][type] = NoReference
                  /\ op[u].handle = NoHandle
                  /\ pc[u] \notin {"count", "take", "generate", "reuse", "initOwned"}
        /\ op[t].callback # "outside" /\ pc[t] \in {"init", "initLock"} /\ ~m_initialized
              => opened = {}

\* The task t is at work and nothing will interrupt it.
WorksOn(t) == pc[t] = "work" /\ referenced[t][op[t].type].handle \notin suspended

\* Once a close() waits for the pool, no backup works on with a handle that is
\* not suspended: backup() marks its handle before it tests m_closing, so that
\* one of the two sides always sees the other.
BackupsAreSuspended ==
    \A t, u \in Threads :
        pc[t] \in {"drain", "drainQueued"} /\ op[u].type = "Backup" => ~WorksOn(u)

\* "suspend auto checkpoint/backup/integrity check/migrate/compress/merge fts5
\* index", the comment at the suspension in close(): once a close() waits for
\* the pool no interruptible task works on.  The tasks that test m_closing and
\* then mark their handle refute it: a close() between the two does not find
\* the mark and is not found by the test.
TasksAreSuspended ==
    \A t, u \in Threads :
        pc[t] \in {"drain", "drainQueued"} /\ op[u].type \in TaskTypes => ~WorksOn(u)

\* close() gets the pool: it waits for handles only, never for ever.
DrainCompletes ==
    \A t \in Threads : pc[t] = "drainQueued" ~> pc[t] = "clear"

\* Nobody waits for ever on the counter, the lock or each other: when nothing
\* new is started, every thread comes back from its calls, and the lock and the
\* counter are free.
ComesToRest ==
    <>[][\A t \in Threads : ~Start(t)]_vars =>
        <>[](/\ \A t \in Threads : pc[t] = "idle" /\ readers[t] = 0
             /\ writer = NoThread
             /\ total = 0
             /\ m_closing = 0)

=============================================================================
