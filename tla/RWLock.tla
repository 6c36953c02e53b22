------------------------------- MODULE RWLock -------------------------------
(***************************************************************************)
(* What WCDB's reader/writer lock (SharedLock, src/src/common/base/Lock)   *)
(* promises to its callers, without the mutex, the condition variables and *)
(* the counters it is built from:                                          *)
(*                                                                         *)
(*   - any number of threads share the lock, or one thread owns it;        *)
(*   - both modes are reentrant, and the owner may also share;             *)
(*   - writers are served in the order in which they asked;                *)
(*   - a thread that shares nothing yet never overtakes a queued writer.   *)
(*                                                                         *)
(* SharedLock.tla is shown to implement this module; HandlePool.tla uses   *)
(* an instance of it for the pool's concurrency lock.                      *)
(***************************************************************************)
EXTENDS Integers, Sequences

CONSTANTS Threads,   (* the threads that use the lock                      *)
          NoThread   (* the value of "writer" while nobody owns the lock   *)

VARIABLES readers,   (* readers[t]: how often t shares the lock            *)
          writer,    (* the thread that owns the lock, or NoThread         *)
          depth,     (* how often the owner has locked it                  *)
          queue      (* the writers that wait, in order of arrival         *)

lockVars == <<readers, writer, depth, queue>>

Free == writer = NoThread /\ \A t \in Threads : readers[t] = 0

\* A call of lockShared() by t may return.
CanShare(t) ==
    \/ writer = t
    \/ writer = NoThread /\ (readers[t] > 0 \/ queue = <<>>)

\* A call of lock() by t may return without waiting.
CanOwn(t) == writer = t \/ (Free /\ queue = <<>>)

InitLock ==
    /\ readers = [t \in Threads |-> 0]
    /\ writer = NoThread
    /\ depth = 0
    /\ queue = <<>>

Share(t) ==
    /\ CanShare(t)
    /\ readers' = [readers EXCEPT ![t] = @ + 1]
    /\ UNCHANGED <<writer, depth, queue>>

Unshare(t) ==
    /\ readers[t] > 0
    /\ readers' = [readers EXCEPT ![t] = @ - 1]
    /\ UNCHANGED <<writer, depth, queue>>

Own(t) ==
    /\ readers[t] = 0
    /\ CanOwn(t)
    /\ writer' = t
    /\ depth' = depth + 1
    /\ UNCHANGED <<readers, queue>>

Enqueue(t) ==
    /\ readers[t] = 0
    /\ ~CanOwn(t)
    /\ \A i \in 1 .. Len(queue) : queue[i] # t
    /\ queue' = Append(queue, t)
    /\ UNCHANGED <<readers, writer, depth>>

OwnFromQueue(t) ==
    /\ Free
    /\ queue # <<>>
    /\ Head(queue) = t
    /\ queue' = Tail(queue)
    /\ writer' = t
    /\ depth' = 1
    /\ UNCHANGED readers

Disown(t) ==
    /\ writer = t
    /\ readers[t] = 0
    /\ depth' = depth - 1
    /\ writer' = IF depth = 1 THEN NoThread ELSE writer
    /\ UNCHANGED <<readers, queue>>

NextLock ==
    \E t \in Threads :
        \/ Share(t)
        \/ Unshare(t)
        \/ Own(t)
        \/ Enqueue(t)
        \/ OwnFromQueue(t)
        \/ Disown(t)

SpecLock == InitLock /\ [][NextLock]_lockVars

=============================================================================
