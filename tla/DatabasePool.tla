---------------------------- MODULE DatabasePool ----------------------------
(***************************************************************************)
(* The pool of databases, one per path: src/src/common/core/DatabasePool.  *)
(*                                                                         *)
(* A Database object of the application refers to an InnerDatabase of the  *)
(* pool.  The last object that goes closes it, in flowBack(), which shares *)
(* m_lock for as long as that takes.  m_lock is an instance of RWLock.     *)
(*                                                                         *)
(* The handle pool of a database (HandlePool.tla) is reduced to who uses a *)
(* handle of it, who blockades it and who waits for it: close() waits for  *)
(* the users, and meanwhile nobody else becomes one.  The order among the  *)
(* threads that wait for one database is left open.                        *)
(*                                                                         *)
(* pc[t] is where thread t is, at[t] the database it is about:             *)
(*                                                                         *)
(*   find, create, createQueued       getOrCreate()                        *)
(*   back                             flowBack()                           *)
(*   suspend, drain                   the close() in flowBack()            *)
(*   tag, tagged                      getTag()                             *)
(*   purge, purging, purgeOne         purge()                              *)
(*   ask, blockade                    getHandle() and blockade()           *)
(***************************************************************************)
EXTENDS Integers, Sequences, FiniteSets

CONSTANTS Threads, NoThread,
          Paths, NoPath,
          HandleInHand,   (* the pool is also called with a handle in use, or
                             during a blockade                                *)
          MaxObjects      (* bound: Database objects per thread and path      *)

ASSUME DatabasePoolAssumption ==
    /\ IsFiniteSet(Threads) /\ NoThread \notin Threads
    /\ NoPath \notin Paths
    /\ HandleInHand \in BOOLEAN
    /\ MaxObjects \in Nat \ {0}

VARIABLES
    readers, writer, depth, queue,   (* m_lock, see RWLock                    *)
    m_databases,     (* the paths whose database exists                       *)
    reference,       (* the databases' reference counts                       *)
    objects,         (* objects[t][p]: the RecyclableDatabases that t has     *)
    users,           (* users[p]: the threads that use a handle of p          *)
    blockader,       (* blockader[p]: the thread that blockades p, if any     *)
    opened,          (* the databases that have a handle, free or in use      *)
    pc, at,
    todo             (* the databases that t's purge() has still to visit     *)

lock == <<readers, writer, depth, queue>>
handlePools == <<users, blockader, opened>>
vars == <<lock, m_databases, reference, objects, handlePools, pc, at, todo>>

Lock == INSTANCE RWLock

Places == {"idle", "find", "create", "createQueued", "back", "suspend", "drain", "tag", "tagged",
           "purge", "purging", "purgeOne", "ask", "blockade"}

Init ==
    /\ Lock!InitLock
    /\ m_databases = {}
    /\ reference = [p \in Paths |-> 0]
    /\ objects = [t \in Threads |-> [p \in Paths |-> 0]]
    /\ users = [p \in Paths |-> {}]
    /\ blockader = [p \in Paths |-> NoThread]
    /\ opened = {}
    /\ pc = [t \in Threads |-> "idle"]
    /\ at = [t \in Threads |-> NoPath]
    /\ todo = [t \in Threads |-> {}]

-----------------------------------------------------------------------------
(* The handle pools                                                        *)

EmptyHanded(t) == \A p \in Paths : t \notin users[p] /\ blockader[p] # t

\* Threads that are queued for p's m_concurrency.
Waiting(p) == {t \in Threads : pc[t] \in {"drain", "blockade"} /\ at[t] = p}

\* t may share p's m_concurrency.
CanUse(t, p) ==
    \/ blockader[p] = t \/ t \in users[p]
    \/ blockader[p] = NoThread /\ Waiting(p) = {}

\* t may own it.
CanDrain(t, p) == users[p] \subseteq {t} /\ blockader[p] \in {t, NoThread}

Goto(t, place, p) ==
    /\ pc' = [pc EXCEPT ![t] = place]
    /\ at' = [at EXCEPT ![t] = p]

Return(t) == Goto(t, "idle", NoPath)

\* InnerDatabase::getHandle(), by a thread that uses no other handle.
askForHandle(t, p) ==
    /\ pc[t] = "idle"
    /\ objects[t][p] > 0
    /\ \A q \in Paths : t \notin users[q] /\ (q # p => blockader[q] # t)
    /\ Goto(t, "ask", p)
    /\ UNCHANGED <<lock, m_databases, reference, objects, handlePools, todo>>

getHandle(t) ==
    LET p == at[t] IN
    /\ pc[t] = "ask"
    /\ CanUse(t, p)
    /\ users' = [users EXCEPT ![p] = @ \cup {t}]
    /\ opened' = opened \cup {p}
    /\ Return(t)
    /\ UNCHANGED <<lock, m_databases, reference, objects, blockader, todo>>

recycleHandle(t) ==
    /\ pc[t] = "idle"
    /\ \E p \in Paths : t \in users[p] /\ users' = [users EXCEPT ![p] = @ \ {t}]
    /\ UNCHANGED <<lock, m_databases, reference, objects, blockader, opened, pc, at, todo>>

askForBlockade(t, p) ==
    /\ pc[t] = "idle"
    /\ objects[t][p] > 0
    /\ EmptyHanded(t)
    /\ Goto(t, "blockade", p)
    /\ UNCHANGED <<lock, m_databases, reference, objects, handlePools, todo>>

blockade(t) ==
    LET p == at[t] IN
    /\ pc[t] = "blockade"
    /\ CanDrain(t, p)
    /\ blockader' = [blockader EXCEPT ![p] = t]
    /\ Return(t)
    /\ UNCHANGED <<lock, m_databases, reference, objects, users, opened, todo>>

unblockade(t) ==
    /\ pc[t] = "idle"
    /\ \E p \in Paths :
          /\ blockader[p] = t /\ t \notin users[p]
          /\ blockader' = [blockader EXCEPT ![p] = NoThread]
    /\ UNCHANGED <<lock, m_databases, reference, objects, users, opened, pc, at, todo>>

-----------------------------------------------------------------------------
(* getOrCreate()                                                           *)

\* A thread calls the pool.
Call(t, place, p) ==
    /\ pc[t] = "idle"
    /\ HandleInHand \/ EmptyHanded(t)
    /\ Goto(t, place, p)
    /\ UNCHANGED <<lock, m_databases, reference, objects, handlePools>>

callGetOrCreate(t, p) ==
    /\ objects[t][p] < MaxObjects
    /\ Call(t, "find", p)
    /\ UNCHANGED todo

\* A mutant of get: the reference is not counted.
GetUncounted(t, p) ==
    /\ objects' = [objects EXCEPT ![t][p] = @ + 1]
    /\ UNCHANGED reference

\* get(): one more reference, in the hands of t.
get(t, p) ==
    /\ reference' = [reference EXCEPT ![p] = @ + 1]
    /\ objects' = [objects EXCEPT ![t][p] = @ + 1]

\* With the shared lock: the database is there, or the write lock is needed.
find(t) ==
    /\ pc[t] = "find"
    /\ Lock!CanShare(t)
    /\ \/ at[t] \in m_databases /\ get(t, at[t]) /\ Return(t)
       \/ at[t] \notin m_databases /\ Goto(t, "create", at[t]) /\ UNCHANGED <<reference, objects>>
    /\ UNCHANGED <<lock, m_databases, handlePools, todo>>

\* With the write lock, for the time of the action: somebody else has created
\* the database, or it is created now.
create(t) ==
    /\ \/ /\ pc[t] = "create" /\ Lock!Enqueue(t)
          /\ Goto(t, "createQueued", at[t])
          /\ UNCHANGED <<m_databases, reference, objects>>
       \/ /\ \/ pc[t] = "create" /\ Lock!CanOwn(t) /\ UNCHANGED queue
             \/ /\ pc[t] = "createQueued" /\ Lock!Free
                /\ queue # <<>> /\ Head(queue) = t
                /\ queue' = Tail(queue)
          /\ m_databases' = m_databases \cup {at[t]}
          /\ get(t, at[t])
          /\ Return(t)
          /\ UNCHANGED <<readers, writer, depth>>
    /\ UNCHANGED <<handlePools, todo>>

-----------------------------------------------------------------------------
(* flowBack(), and the close() in it                                       *)

\* A Handle keeps its database: the last object does not go before it.
callFlowBack(t, p) ==
    /\ objects[t][p] > 0
    /\ objects[t][p] = 1 => t \notin users[p] /\ blockader[p] # t
    /\ Call(t, "back", p)
    /\ UNCHANGED todo

\* A mutant of DropReference: the count is tested before the decrement.
DropThenForget(t, p) ==
    /\ reference' = [reference EXCEPT ![p] = @ - 1]
    /\ \/ reference[p] = 0 /\ Goto(t, "suspend", p) /\ UNCHANGED lock
       \/ reference[p] # 0 /\ Return(t) /\ Lock!Unshare(t)

\* The end of flowBack(), m_lock being shared: a reference less, and close()
\* when it was the last one.
DropReference(t, p) ==
    /\ reference' = [reference EXCEPT ![p] = @ - 1]
    /\ \/ reference[p] = 1 /\ Goto(t, "suspend", p) /\ UNCHANGED lock
       \/ reference[p] # 1 /\ Return(t) /\ Lock!Unshare(t)

\* The beginning: m_lock is shared.
flowBack(t) ==
    /\ pc[t] = "back"
    /\ \/ /\ readers[t] = 0
          /\ Lock!Share(t)
          /\ UNCHANGED <<reference, objects, pc, at>>
       \/ /\ readers[t] > 0
          /\ objects' = [objects EXCEPT ![t][at[t]] = @ - 1]
          /\ DropReference(t, at[t])
    /\ UNCHANGED <<m_databases, handlePools, todo>>

\* close() first shares m_concurrency to suspend the tasks.
suspendTasks(t) ==
    /\ pc[t] = "suspend"
    /\ CanUse(t, at[t])
    /\ Goto(t, "drain", at[t])
    /\ UNCHANGED <<lock, m_databases, reference, objects, handlePools, todo>>

\* drain(): all handles are closed; m_lock is released at last.
drain(t) ==
    /\ pc[t] = "drain"
    /\ CanDrain(t, at[t])
    /\ opened' = opened \ {at[t]}
    /\ Lock!Unshare(t)
    /\ Return(t)
    /\ UNCHANGED <<m_databases, reference, objects, users, blockader, todo>>

-----------------------------------------------------------------------------
(* getTag() and purge()                                                    *)

callGetTag(t, p) == Call(t, "tag", p) /\ UNCHANGED todo

\* get() and, at the end of the expression, the flowBack() of its result,
\* inside of the section that shares m_lock.
getTag(t) ==
    /\ \/ /\ pc[t] = "tag" /\ at[t] \in m_databases
          /\ Lock!Share(t)
          /\ reference' = [reference EXCEPT ![at[t]] = @ + 1]
          /\ Goto(t, "tagged", at[t])
       \/ /\ pc[t] = "tag" /\ at[t] \notin m_databases
          /\ Lock!CanShare(t)
          /\ Return(t)
          /\ UNCHANGED <<lock, reference>>
       \/ /\ pc[t] = "tagged"
          /\ DropReference(t, at[t])
    /\ UNCHANGED <<m_databases, objects, handlePools, todo>>

\* CommonCore::purgeDatabasePool()
callPurge(t) == Call(t, "purge", NoPath) /\ UNCHANGED todo

\* A mutant of purgeNext: the loop does not move on to the next database.
PurgeForever(t) ==
    /\ pc[t] = "purging"
    /\ \/ \E p \in todo[t] :
             Goto(t, IF blockader[p] = NoThread THEN "purgeOne" ELSE "purging", p) /\ UNCHANGED lock
       \/ todo[t] = {} /\ Lock!Unshare(t) /\ Return(t)
    /\ UNCHANGED <<m_databases, reference, objects, handlePools, todo>>

\* The loop's head.  isBlockaded() reads the lock's counter without a mutex;
\* the database may be blockaded when purge() comes to it.
purgeNext(t) ==
    /\ pc[t] = "purging"
    /\ \/ \E p \in todo[t] :
             /\ todo' = [todo EXCEPT ![t] = @ \ {p}]
             /\ Goto(t, IF blockader[p] = NoThread THEN "purgeOne" ELSE "purging", p)
             /\ UNCHANGED lock
       \/ /\ todo[t] = {}
          /\ Lock!Unshare(t)
          /\ Return(t)
          /\ UNCHANGED todo
    /\ UNCHANGED <<m_databases, reference, objects, handlePools>>

\* purge(), with m_lock shared; HandlePool::purge() closes the free handles.
purge(t) ==
    /\ \/ /\ pc[t] = "purge"
          /\ Lock!Share(t)
          /\ todo' = [todo EXCEPT ![t] = m_databases]
          /\ Goto(t, "purging", NoPath)
          /\ UNCHANGED opened
       \/ /\ pc[t] = "purgeOne"
          /\ CanUse(t, at[t])
          /\ opened' = IF users[at[t]] = {} THEN opened \ {at[t]} ELSE opened
          /\ Goto(t, "purging", NoPath)
          /\ UNCHANGED <<lock, todo>>
    /\ UNCHANGED <<m_databases, reference, objects, users, blockader>>

-----------------------------------------------------------------------------
Start(t) ==
    \/ \E p \in Paths :
          \/ askForHandle(t, p) \/ askForBlockade(t, p)
          \/ callGetOrCreate(t, p) \/ callFlowBack(t, p) \/ callGetTag(t, p)
    \/ callPurge(t)

GoOn(t) ==
    \/ getHandle(t) \/ blockade(t)
    \/ find(t) \/ create(t)
    \/ flowBack(t) \/ suspendTasks(t) \/ drain(t)
    \/ getTag(t)
    \/ purgeNext(t) \/ purge(t)

Next == \E t \in Threads : Start(t) \/ GoOn(t) \/ recycleHandle(t) \/ unblockade(t)

Spec == Init /\ [][Next]_vars

\* Calls go on when they can, handles are recycled and blockades lifted.
\* Nobody has to start anything.
Fairness ==
    \A t \in Threads :
        /\ WF_vars(GoOn(t))
        /\ WF_vars(recycleHandle(t))
        /\ WF_vars(unblockade(t))

FairSpec == Spec /\ Fairness
-----------------------------------------------------------------------------
\* The types of the variables; in particular the reference count that flowBack()
\* decrements under the shared lock never goes below zero.
TypeOK ==
    /\ readers \in [Threads -> Nat] /\ writer \in Threads \cup {NoThread}
    /\ depth \in Nat /\ queue \in Seq(Threads)
    /\ m_databases \subseteq Paths
    /\ reference \in [Paths -> Nat]
    /\ objects \in [Threads -> [Paths -> 0 .. MaxObjects]]
    /\ users \in [Paths -> SUBSET Threads]
    /\ blockader \in [Paths -> Threads \cup {NoThread}]
    /\ opened \subseteq Paths
    /\ pc \in [Threads -> Places]
    /\ at \in [Threads -> Paths \cup {NoPath}]
    /\ todo \in [Threads -> SUBSET Paths]

\* The references that exist: a thread's objects, numbered from 1, and as
\* number 0 the one inside getTag().
References(p) ==
    {r \in Threads \X (0 .. MaxObjects) :
        IF r[2] = 0 THEN pc[r[1]] = "tagged" /\ at[r[1]] = p
                    ELSE r[2] <= objects[r[1]][p]}

\* "A created database will never be erased. Instead, it will be empty so that
\* the memory used will be very low.": a database without references has no
\* handle left, unless the flowBack() that closes it is under way.  Several
\* threads may come and go between the decrement and the close().
UnreferencedIsEmpty ==
    \A p \in Paths :
        References(p) = {} /\ p \in opened =>
            \E t \in Threads : pc[t] \in {"suspend", "drain"} /\ at[t] = p

\* The counts that decide about close() are exact although they change under
\* the shared lock only, and a referenced database is one of the pool.
ReferencesExact ==
    /\ TypeOK
    /\ \A p \in Paths :
          /\ reference[p] = Cardinality(References(p))
          /\ reference[p] > 0 => p \in m_databases

\* Whoever calls the pool gets an answer: when nothing new is started, no
\* thread is left waiting in getOrCreate(), flowBack(), getTag(), purge() or for
\* a handle.  (Under a stream of new writers a reader of a SharedLock has no
\* promise.)
PoolResponds ==
    <>[][\A t \in Threads : ~Start(t)]_vars =>
        <>[](\A t \in Threads : pc[t] = "idle" /\ EmptyHanded(t) /\ readers[t] = 0)

\* "shared lock is enough.": the close() inside flowBack() comes to an end
\* when nothing new is started.
FlowBackReturns ==
    <>[][\A t \in Threads : ~Start(t)]_vars =>
        <>[](\A t \in Threads : pc[t] \notin {"suspend", "drain"})

=============================================================================
