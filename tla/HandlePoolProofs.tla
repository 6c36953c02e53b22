-------------------------- MODULE HandlePoolProofs --------------------------
(***************************************************************************)
(* Proofs about HandlePool, for any number of threads, handles and         *)
(* references and any limits.                                              *)
(*                                                                         *)
(* None of its invariants is inductive by itself.  A handle in use stays   *)
(* alive because drain() has the lock only when nobody shares it, which    *)
(* needs that a thread shares it once for every reference and step of a    *)
(* flowOut() it is in (ThreadFits, LockFits); it has one user because      *)
(* every handle is in one slot, free or out, and out only for one thread   *)
(* (HandlesFit); the counts agree because what is counted is exactly what  *)
(* is out or on its way (CountsFit).                                       *)
(***************************************************************************)
EXTENDS HandlePool, FunctionTheorems, FiniteSetTheorems, TLAPS

Initializing == {"init", "initLock", "initQueued", "initOwned"}
Flowing == {"count", "take", "generate", "reuse"}
Using == {"mark", "check", "work", "recycle"}
Closing == {"suspend", "drain", "drainQueued", "clear", "undrain"}
Waiting == {"suspend", "drain", "drainQueued"}

\* close() has the write lock.
DrainedAt(place, o) == o.callback # "outside" /\ place \notin Waiting
Drained(t) == DrainedAt(pc[t], op[t])

\* What a call is about fits where it is, and what the thread refers to.
CallFits(t) ==
    /\ op[t].handle # NoHandle <=> pc[t] = "reuse"
    /\ pc[t] \in {"idle", "blockadeQueued"} => op[t] = NoOp
    /\ pc[t] \in Closing => op[t].callback # "outside" /\ op[t].type = "Normal"
    /\ op[t].callback # "outside" /\ pc[t] \notin Closing =>
          op[t].callback = "Vacuum" /\ op[t].type = "Vacuum"
    /\ op[t].type = "Vacuum" => op[t].callback = "Vacuum"
    /\ pc[t] \in Using => op[t].type # "Normal"
    /\ op[t].type = "Normal" /\ pc[t] \in Initializing \cup Flowing =>
          referenced[t]["Normal"] = NoReference
    /\ Drained(t) \/ pc[t] \in {"initLock", "initQueued", "initOwned", "drainQueued"} =>
          referenced[t]["Normal"] = NoReference

ReferencesFit(t) ==
    \A x \in Types :
        /\ referenced[t][x] = NoReference
           \/ (referenced[t][x].handle # NoHandle /\ referenced[t][x].reference > 0)
        /\ x # "Normal" =>
              (referenced[t][x] # NoReference <=> pc[t] \in Using /\ op[t].type = x)

\* What a thread shares m_concurrency for, without counting types.
NormalShare(t) == IF referenced[t]["Normal"] # NoReference THEN 1 ELSE 0

PlaceShare(place, o) ==
    IF place \in Using THEN 2
    ELSE IF place \in Flowing \/ (place = "decrease" /\ o.type # "Normal") THEN 1
    ELSE 0

Shares(t) == NormalShare(t) + PlaceShare(pc[t], op[t])

ThreadFits(t) == CallFits(t) /\ ReferencesFit(t) /\ readers[t] = Shares(t)

LockFits ==
    /\ writer # NoThread =>
          depth >= 1 /\ \A u \in Threads : u # writer => readers[u] = 0
    /\ \A t \in Threads :
          /\ Drained(t) \/ pc[t] = "initOwned" => writer = t
          /\ Drained(t) /\ pc[t] = "initOwned" => depth >= 2
          /\ pc[t] \in {"suspend", "drain"} /\ writer = t => readers[t] = 0

InitializedFits ==
    /\ \A t \in Threads : readers[t] > 0 => m_initialized
    /\ ~m_initialized => opened = {}

\* The handles of a slot that a thread has.
Busy(s) == m_handles[s] \ FreesOf(s)

SlotsFit ==
    /\ \A r, s \in Slots : r # s => m_handles[r] \cap m_handles[s] = {}
    /\ \A h \in opened : \E s \in Slots : h \in m_handles[s]
    /\ \A s \in Slots :
          /\ \A i, j \in DOMAIN m_frees[s] : m_frees[s][i] = m_frees[s][j] => i = j
          /\ FreesOf(s) \subseteq m_handles[s]

CandidateFits(t) ==
    op[t].handle # NoHandle => op[t].handle \in Busy(slotOfHandleType(op[t].type))

UseFits(t, x) ==
    referenced[t][x].handle # NoHandle =>
        referenced[t][x].handle \in opened \cap Busy(slotOfHandleType(x))

Exclusive ==
    /\ \A t, u \in Threads : op[t].handle = op[u].handle /\ op[t].handle # NoHandle => t = u
    /\ \A t, u \in Threads, x \in Types :
          referenced[t][x].handle = op[u].handle => op[u].handle = NoHandle
    /\ \A t, u \in Threads, x, y \in Types :
          referenced[t][x].handle = referenced[u][y].handle /\ referenced[t][x].handle # NoHandle
             => t = u /\ x = y

HandlesFit ==
    /\ SlotsFit
    /\ \A t \in Threads : CandidateFits(t)
    /\ \A t \in Threads, x \in Types : UseFits(t, x)
    /\ Exclusive

Closers == {t \in Threads : op[t].callback # "outside"}

CountsFit ==
    /\ IsFiniteSet(Counted) /\ total = Cardinality(Counted)
    /\ IsFiniteSet(Closers) /\ m_closing = Cardinality(Closers)

PoolInv ==
    /\ TypeOK
    /\ \A t \in Threads : ThreadFits(t)
    /\ LockFits
    /\ InitializedFits
    /\ HandlesFit
    /\ CountsFit

-----------------------------------------------------------------------------
(* What a step of a thread changes                                         *)

\* Nothing of the other threads.
Only(t) ==
    \A u \in Threads : u # t =>
        /\ readers'[u] = readers[u] /\ pc'[u] = pc[u]
        /\ op'[u] = op[u] /\ referenced'[u] = referenced[u]

LEMMA ThreadsFit ==
    ASSUME NEW t \in Threads, Only(t), \A u \in Threads : ThreadFits(u), ThreadFits(t)'
    PROVE  (\A u \in Threads : ThreadFits(u))'
<1> SUFFICES ASSUME NEW u \in Threads, u # t PROVE ThreadFits(u)'
  OBVIOUS
<1>1. /\ readers'[u] = readers[u] /\ pc'[u] = pc[u]
      /\ op'[u] = op[u] /\ referenced'[u] = referenced[u]
  BY DEF Only
<1>2. ThreadFits(u)
  OBVIOUS
<1>3. CallFits(u)'
  BY <1>1, <1>2 DEF ThreadFits, CallFits, Drained, DrainedAt
<1>4. ReferencesFit(u)'
  BY <1>1, <1>2 DEF ThreadFits, ReferencesFit
<1>5. readers'[u] = Shares(u)'
  BY <1>1, <1>2 DEF ThreadFits, Shares, NormalShare
<1> QED
  BY <1>3, <1>4, <1>5 DEF ThreadFits

\* Where t goes, and with what.
Moves(t, place, o) ==
    /\ pc' \in [Threads -> Places] /\ pc'[t] = place
    /\ op' \in [Threads -> Ops] /\ op'[t] = o
    /\ \A u \in Threads : u # t => pc'[u] = pc[u] /\ op'[u] = op[u]

LEMMA OpFields ==
    ASSUME TypeOK, NEW t \in Threads
    PROVE  /\ op[t] \in Ops /\ op[t].type \in Types /\ op[t].hint \in BOOLEAN
           /\ op[t].handle \in Handles \cup {NoHandle}
           /\ op[t].callback \in {"outside", "none", "Vacuum"}
           /\ pc[t] \in Places
<1>1. op[t] \in Ops /\ pc[t] \in Places
  BY DEF TypeOK
<1> QED
  BY <1>1 DEF Ops

LEMMA GotoMoves ==
    ASSUME TypeOK, NEW t \in Threads, NEW place \in Places, Goto(t, place), UNCHANGED op
    PROVE  Moves(t, place, op[t])
BY DEF TypeOK, Goto, Moves

LEMMA OpMoves ==
    ASSUME TypeOK, NEW t \in Threads, NEW place \in Places, Goto(t, place), NEW o \in Ops,
           op' = [op EXCEPT ![t] = o]
    PROVE  Moves(t, place, o)
BY DEF TypeOK, Goto, Moves

\* The call of a thread that is outside or in its callback.
Bare(callback) ==
    [type |-> "Normal", hint |-> FALSE, handle |-> NoHandle, callback |-> callback]

LEMMA BareOp ==
    ASSUME NEW callback \in {"outside", "none", "Vacuum"}
    PROVE  /\ Bare(callback) \in Ops /\ Bare(callback).type = "Normal"
           /\ Bare(callback).hint = FALSE
           /\ Bare(callback).handle = NoHandle /\ Bare(callback).callback = callback
           /\ NoOp = Bare("outside")
           /\ [NoOp EXCEPT !.callback = callback] = Bare(callback)
<1>1. "Normal" \in Types /\ FALSE \in BOOLEAN
  BY DEF Types
<1>2. /\ Bare(callback).type = "Normal" /\ Bare(callback).hint = FALSE
      /\ Bare(callback).handle = NoHandle /\ Bare(callback).callback = callback
  BY DEF Bare
<1>3. Bare(callback) \in Ops
  BY <1>1 DEF Bare, Ops
<1>4. NoOp = Bare("outside")
  BY DEF NoOp, Bare
<1>5. [NoOp EXCEPT !.callback = callback] = Bare(callback)
  <2>1. ASSUME NEW f, NEW h, f = [type |-> "Normal", hint |-> f.hint, handle |-> h, callback |-> f.callback]
        PROVE  [f EXCEPT !.callback = callback]
                  = [type |-> "Normal", hint |-> f.hint, handle |-> h, callback |-> callback]
    BY <2>1
  <2>2. NoOp = [type |-> "Normal", hint |-> NoOp.hint, handle |-> NoHandle, callback |-> NoOp.callback]
    BY DEF NoOp
  <2>3. NoOp.hint = FALSE
    BY DEF NoOp
  <2>4. [NoOp EXCEPT !.callback = callback]
           = [type |-> "Normal", hint |-> NoOp.hint, handle |-> NoHandle, callback |-> callback]
    BY <2>1, <2>2
  <2> QED  BY <2>3, <2>4 DEF Bare
<1> QED
  BY <1>2, <1>3, <1>4, <1>5

LEMMA FinishMoves ==
    ASSUME TypeOK, NEW t \in Threads, Finish(t)
    PROVE  Moves(t, IF op[t].callback = "outside" THEN "idle" ELSE "undrain",
                 Bare(op[t].callback))
<1>1. op[t].callback \in {"outside", "none", "Vacuum"}
  BY OpFields
<1>2. /\ Goto(t, IF op[t].callback = "outside" THEN "idle" ELSE "undrain")
      /\ op' = [op EXCEPT ![t] = Bare(op[t].callback)]
  BY <1>1, BareOp DEF Finish
<1>3. (IF op[t].callback = "outside" THEN "idle" ELSE "undrain") \in Places
  BY DEF Places
<1> QED
  BY <1>1, <1>2, <1>3, BareOp, OpMoves

LEMMA EndCloseMoves ==
    ASSUME TypeOK, NEW t \in Threads, EndClose(t)
    PROVE  Moves(t, "idle", Bare("outside"))
<1>1. Goto(t, "idle") /\ op' = [op EXCEPT ![t] = Bare("outside")] /\ "idle" \in Places
  BY BareOp DEF EndClose, Places
<1> QED
  BY <1>1, BareOp, OpMoves

\* What the lock operations do to readers.
Reads(t, n) ==
    /\ readers' \in [Threads -> Nat] /\ readers'[t] = n
    /\ \A u \in Threads : u # t => readers'[u] = readers[u]

LEMMA SharesLock ==
    ASSUME TypeOK, NEW t \in Threads, Concurrency!Share(t)
    PROVE  /\ Reads(t, readers[t] + 1) /\ UNCHANGED <<writer, depth, queue>>
           /\ writer \in {t, NoThread}
BY DEF TypeOK, Concurrency!Share, Concurrency!CanShare, Reads

LEMMA LeavesLock ==
    ASSUME TypeOK, NEW t \in Threads, readers[t] > 0,
           LeaveGuard(t) \/ Concurrency!Unshare(t)
    PROVE  Reads(t, readers[t] - 1) /\ UNCHANGED <<writer, depth, queue>>
BY DEF TypeOK, LeaveGuard, Concurrency!Unshare, Reads

LEMMA KeepsLock ==
    ASSUME TypeOK, NEW t \in Threads, UNCHANGED concurrency
    PROVE  /\ Reads(t, readers[t]) /\ UNCHANGED <<writer, depth, queue>>
BY DEF TypeOK, concurrency, Reads

\* The write lock comes to t, which shares nothing.
Owns(t) ==
    /\ readers' = readers /\ readers[t] = 0 /\ writer' = t
    /\ queue' \in Seq(Threads) /\ depth' \in Nat
    /\ \/ writer = t /\ depth' = depth + 1
       \/ writer = NoThread /\ depth' >= 1 /\ \A u \in Threads : readers[u] = 0

LEMMA OwnsLock ==
    ASSUME TypeOK, NEW t \in Threads, Concurrency!Own(t) \/ Concurrency!OwnFromQueue(t)
    PROVE  Owns(t)
<1>1. readers \in [Threads -> Nat] /\ depth \in Nat /\ queue \in Seq(Threads)
  BY DEF TypeOK
<1>2. CASE Concurrency!Own(t)
  BY <1>1, <1>2 DEF Concurrency!Own, Concurrency!CanOwn, Concurrency!Free, Owns
<1>3. CASE Concurrency!OwnFromQueue(t)
  <2>1. Tail(queue) \in Seq(Threads)
    BY <1>1, <1>3 DEF Concurrency!OwnFromQueue
  <2> QED  BY <1>3, <2>1 DEF Concurrency!OwnFromQueue, Concurrency!Free, Owns
<1> QED
  BY <1>2, <1>3

LEMMA QueuesForLock ==
    ASSUME TypeOK, NEW t \in Threads, Concurrency!Enqueue(t)
    PROVE  /\ Reads(t, readers[t]) /\ UNCHANGED <<writer, depth>>
           /\ queue' \in Seq(Threads) /\ readers[t] = 0
BY DEF TypeOK, Concurrency!Enqueue, Reads

LEMMA DisownsLock ==
    ASSUME TypeOK, LockFits, NEW t \in Threads, Concurrency!Disown(t)
    PROVE  /\ Reads(t, readers[t]) /\ UNCHANGED queue /\ readers[t] = 0 /\ writer = t
           /\ depth >= 1 /\ depth' = depth - 1 /\ depth' \in Nat
           /\ writer' = IF depth = 1 THEN NoThread ELSE t
BY HandlePoolAssumption DEF TypeOK, LockFits, Concurrency!Disown, Reads

-----------------------------------------------------------------------------
(* The lock                                                                *)

LEMMA LockKept ==
    ASSUME PoolInv, NEW t \in Threads, Only(t), UNCHANGED <<writer, depth>>,
           writer # NoThread /\ writer # t => readers'[t] = 0,
           Drained(t)' => writer = t, pc'[t] # "initOwned",
           pc'[t] \in {"suspend", "drain"} /\ writer = t => readers'[t] = 0
    PROVE  LockFits'
<1>1. LockFits
  BY DEF PoolInv
<1>2. writer' # NoThread => depth' >= 1 /\ \A u \in Threads : u # writer' => readers'[u] = 0
  BY <1>1 DEF LockFits, Only
<1>3. ASSUME NEW u \in Threads, u # t
      PROVE  /\ Drained(u)' \/ pc'[u] = "initOwned" => writer' = u
             /\ Drained(u)' /\ pc'[u] = "initOwned" => depth' >= 2
             /\ pc'[u] \in {"suspend", "drain"} /\ writer' = u => readers'[u] = 0
  BY <1>1, <1>3 DEF LockFits, Only, Drained, DrainedAt
<1> QED
  BY <1>2, <1>3 DEF LockFits

LEMMA LockOwned ==
    ASSUME PoolInv, NEW t \in Threads, Only(t), Owns(t),
           Drained(t)' /\ pc'[t] = "initOwned" => Drained(t)
    PROVE  LockFits'
<1>1. LockFits /\ TypeOK
  BY DEF PoolInv
<1>2. depth' >= 1 /\ \A u \in Threads : u # t => readers'[u] = 0
  BY <1>1, HandlePoolAssumption DEF LockFits, Owns, TypeOK
<1>3. \A u \in Threads : u # t => writer # u
  BY HandlePoolAssumption DEF Owns
<1>4. ASSUME NEW u \in Threads, u # t
      PROVE  /\ ~Drained(u)' /\ pc'[u] # "initOwned" /\ writer' # u
  BY <1>1, <1>3, <1>4 DEF LockFits, Only, Drained, DrainedAt, Owns
<1>5. Drained(t)' /\ pc'[t] = "initOwned" => depth' >= 2
  <2>1. Drained(t) => writer = t /\ depth >= 1
    BY <1>1, HandlePoolAssumption DEF LockFits
  <2> QED  BY <1>1, <2>1, HandlePoolAssumption DEF Owns, TypeOK
<1>6. writer' = t /\ readers'[t] = 0
  BY DEF Owns
<1> QED
  BY <1>2, <1>4, <1>5, <1>6 DEF LockFits

LEMMA LockDisowned ==
    ASSUME PoolInv, NEW t \in Threads, Only(t), Concurrency!Disown(t),
           pc'[t] \notin {"initOwned", "suspend", "drain"},
           Drained(t)' => Drained(t) /\ pc[t] = "initOwned"
    PROVE  LockFits'
<1>1. LockFits /\ TypeOK
  BY DEF PoolInv
<1>2. /\ readers[t] = 0 /\ writer = t /\ depth >= 1 /\ depth' = depth - 1 /\ depth \in Nat
      /\ writer' = (IF depth = 1 THEN NoThread ELSE t) /\ readers' = readers
  BY <1>1, DisownsLock DEF TypeOK, Concurrency!Disown
<1>3. t # NoThread
  BY HandlePoolAssumption
<1>4. ASSUME NEW u \in Threads, u # t
      PROVE  ~Drained(u)' /\ pc'[u] # "initOwned" /\ writer' # u
  BY <1>1, <1>2, <1>4, HandlePoolAssumption DEF LockFits, Only, Drained, DrainedAt
<1>5. Drained(t)' => writer' = t
  BY <1>1, <1>2 DEF LockFits
<1>6. writer' # NoThread => depth' >= 1 /\ \A u \in Threads : u # writer' => readers'[u] = 0
  BY <1>1, <1>2, <1>3 DEF LockFits
<1> QED
  BY <1>4, <1>5, <1>6 DEF LockFits

-----------------------------------------------------------------------------
(* The counts                                                              *)

\* What t has to do with m_closing.
Closes(o) == IF o.callback # "outside" THEN 1 ELSE 0

LEMMA ClosersFit ==
    ASSUME PoolInv, NEW t \in Threads, NEW place, NEW o, Moves(t, place, o),
           m_closing' = m_closing + Closes(o) - Closes(op[t])
    PROVE  /\ IsFiniteSet(Closers') /\ m_closing' = Cardinality(Closers')
           /\ m_closing' \in Nat
<1>1. IsFiniteSet(Closers) /\ m_closing = Cardinality(Closers) /\ m_closing \in Nat
  BY DEF PoolInv, CountsFit, TypeOK
<1>2. \A u \in Threads : u \in Closers <=> op[u].callback # "outside"
  BY DEF Closers
<1>3. \A u \in Threads : u \in Closers' <=> op'[u].callback # "outside"
  BY DEF Closers
<1>4. op'[t] = o /\ \A u \in Threads : u # t => op'[u] = op[u]
  BY DEF Moves
<1>5. Closers \subseteq Threads /\ Closers' \subseteq Threads
  BY DEF Closers
<1>6. CASE o.callback # "outside" <=> op[t].callback # "outside"
  <2>1. Closers' = Closers
    BY <1>2, <1>3, <1>4, <1>5, <1>6
  <2> QED  BY <1>1, <1>6, <2>1 DEF Closes
<1>7. CASE o.callback # "outside" /\ op[t].callback = "outside"
  <2>1. Closers' = Closers \cup {t} /\ t \notin Closers
    BY <1>2, <1>3, <1>4, <1>5, <1>7
  <2>2. IsFiniteSet(Closers') /\ Cardinality(Closers') = Cardinality(Closers) + 1
    BY <1>1, <2>1, FS_AddElement
  <2> QED  BY <1>1, <1>7, <2>2 DEF Closes
<1>8. CASE o.callback = "outside" /\ op[t].callback # "outside"
  <2>1. Closers' = Closers \ {t} /\ t \in Closers
    BY <1>2, <1>3, <1>4, <1>5, <1>8
  <2>2. IsFiniteSet(Closers') /\ Cardinality(Closers') = Cardinality(Closers) - 1
    BY <1>1, <2>1, FS_RemoveElement
  <2>3. Cardinality(Closers') \in Nat
    BY <2>2, FS_CardinalityType
  <2> QED  BY <1>1, <1>8, <2>2, <2>3 DEF Closes
<1> QED
  BY <1>6, <1>7, <1>8

\* A flowOut() or flowBack() that counts.
Calls == {"take", "generate", "reuse", "decrease"}

LEMMA TypeNames ==
    /\ "Normal" \in Types /\ "call" \notin Types /\ TaskTypes \subseteq Types
    /\ "Normal" \notin TaskTypes /\ "Vacuum" \notin TaskTypes
    /\ \A x \in Types : slotOfHandleType(x) \in Slots
BY HandlePoolAssumption DEF Types, slotOfHandleType, Slots

LEMMA CountedMembers ==
    ASSUME NEW c
    PROVE  /\ c \in Counted <=>
                 \/ \E t \in Threads, x \in Types : c = <<t, x>> /\ referenced[t][x] # NoReference
                 \/ \E t \in Threads : c = <<t, "call">> /\ pc[t] \in Calls
           /\ c \in Counted' <=>
                 \/ \E t \in Threads, x \in Types : c = <<t, x>> /\ referenced'[t][x] # NoReference
                 \/ \E t \in Threads : c = <<t, "call">> /\ pc'[t] \in Calls
<1>1. c \in {use \in Threads \X Types : referenced[use[1]][use[2]] # NoReference} <=>
         \E t \in Threads, x \in Types : c = <<t, x>> /\ referenced[t][x] # NoReference
  OBVIOUS
<1>2. c \in {use \in Threads \X Types : referenced'[use[1]][use[2]] # NoReference} <=>
         \E t \in Threads, x \in Types : c = <<t, x>> /\ referenced'[t][x] # NoReference
  OBVIOUS
<1>3. c \in Counted <=>
         \/ c \in {use \in Threads \X Types : referenced[use[1]][use[2]] # NoReference}
         \/ \E t \in Threads : c = <<t, "call">> /\ pc[t] \in Calls
  BY DEF Counted, Calls
<1>4. c \in Counted' <=>
         \/ c \in {use \in Threads \X Types : referenced'[use[1]][use[2]] # NoReference}
         \/ \E t \in Threads : c = <<t, "call">> /\ pc'[t] \in Calls
  BY DEF Counted, Calls
<1> QED
  BY <1>1, <1>2, <1>3, <1>4

\* Nothing else changes what counts.
LEMMA CountedSame ==
    ASSUME PoolInv, NEW t \in Threads, Only(t), total' = total,
           pc[t] \in Calls <=> pc'[t] \in Calls,
           \A x \in Types : referenced[t][x] = NoReference <=> referenced'[t][x] = NoReference
    PROVE  IsFiniteSet(Counted') /\ total' = Cardinality(Counted')
<1>1. \A u \in Threads : /\ pc[u] \in Calls <=> pc'[u] \in Calls
                         /\ \A x \in Types : referenced[u][x] = NoReference <=> referenced'[u][x] = NoReference
  BY DEF Only
<1>2. \A c : c \in Counted <=> c \in Counted'
  BY <1>1, CountedMembers
<1>3. Counted' = Counted
  BY <1>2
<1> QED
  BY <1>3 DEF PoolInv, CountsFit

\* One more, or one less, in a call.
LEMMA CountedCall ==
    ASSUME PoolInv, NEW t \in Threads, Only(t), referenced' = referenced,
           \/ pc[t] \notin Calls /\ pc'[t] \in Calls /\ total' = total + 1
           \/ pc[t] \in Calls /\ pc'[t] \notin Calls /\ total' = total - 1
    PROVE  IsFiniteSet(Counted') /\ total' = Cardinality(Counted')
<1> DEFINE c == <<t, "call">>
<1>1. IsFiniteSet(Counted) /\ total = Cardinality(Counted)
  BY DEF PoolInv, CountsFit
<1>2. \A u \in Threads : u # t => pc'[u] = pc[u]
  BY DEF Only
<1>3. /\ \A u \in Threads, x \in Types : <<u, x>> # c
      /\ \A u \in Threads : <<u, "call">> = c => u = t
  BY TypeNames
<1>4. \A d : d # c => (d \in Counted <=> d \in Counted')
  <2> SUFFICES ASSUME NEW d, d # c PROVE d \in Counted <=> d \in Counted'
    OBVIOUS
  <2> QED  BY <1>2, CountedMembers
<1>5. (c \in Counted <=> pc[t] \in Calls) /\ (c \in Counted' <=> pc'[t] \in Calls)
  BY <1>3, CountedMembers
<1> HIDE DEF c
<1>6. CASE pc[t] \notin Calls /\ pc'[t] \in Calls /\ total' = total + 1
  <2>1. Counted' = Counted \cup {c} /\ c \notin Counted
    BY <1>4, <1>5, <1>6
  <2> QED  BY <1>1, <1>6, <2>1, FS_AddElement
<1>7. CASE pc[t] \in Calls /\ pc'[t] \notin Calls /\ total' = total - 1
  <2>1. Counted' = Counted \ {c} /\ c \in Counted
    BY <1>4, <1>5, <1>7
  <2> QED  BY <1>1, <1>7, <2>1, FS_RemoveElement
<1> QED
  BY <1>6, <1>7

\* A call that ends with a reference, or starts with one.
LEMMA CountedSwap ==
    ASSUME PoolInv, NEW t \in Threads, Only(t), NEW x \in Types, total' = total,
           \A y \in Types : y # x => referenced'[t][y] = referenced[t][y],
           \/ /\ pc[t] \in Calls /\ pc'[t] \notin Calls
              /\ referenced[t][x] = NoReference /\ referenced'[t][x] # NoReference
           \/ /\ pc[t] \notin Calls /\ pc'[t] \in Calls
              /\ referenced[t][x] # NoReference /\ referenced'[t][x] = NoReference
    PROVE  IsFiniteSet(Counted') /\ total' = Cardinality(Counted')
<1> DEFINE c == <<t, "call">>
           r == <<t, x>>
<1>1. IsFiniteSet(Counted) /\ total = Cardinality(Counted)
  BY DEF PoolInv, CountsFit
<1>2. \A u \in Threads : u # t => pc'[u] = pc[u] /\ referenced'[u] = referenced[u]
  BY DEF Only
<1>3. /\ \A u \in Threads, y \in Types : <<u, y>> # c
      /\ \A u \in Threads : <<u, "call">> = c => u = t
      /\ \A u \in Threads, y \in Types : <<u, y>> = r => u = t /\ y = x
      /\ \A u \in Threads : <<u, "call">> # r
      /\ c # r
  BY TypeNames
<1>4. (c \in Counted <=> pc[t] \in Calls) /\ (c \in Counted' <=> pc'[t] \in Calls)
  BY <1>3, CountedMembers
<1>5. /\ r \in Counted <=> referenced[t][x] # NoReference
      /\ r \in Counted' <=> referenced'[t][x] # NoReference
  BY <1>3, CountedMembers
<1>6. \A d : d # c /\ d # r => (d \in Counted <=> d \in Counted')
  <2> SUFFICES ASSUME NEW d, d # c, d # r PROVE d \in Counted <=> d \in Counted'
    OBVIOUS
  <2>1. \A u \in Threads, y \in Types : d = <<u, y>> => referenced'[u][y] = referenced[u][y]
    BY <1>2
  <2>2. \A u \in Threads : d = <<u, "call">> => pc'[u] = pc[u]
    BY <1>2
  <2> QED  BY <2>1, <2>2, CountedMembers
<1> HIDE DEF c, r
<1>7. CASE c \in Counted /\ c \notin Counted' /\ r \notin Counted /\ r \in Counted'
  <2>1. Counted' = (Counted \ {c}) \cup {r} /\ r \notin Counted \ {c}
    BY <1>6, <1>7
  <2>2. IsFiniteSet(Counted \ {c}) /\ Cardinality(Counted \ {c}) = Cardinality(Counted) - 1
    BY <1>1, <1>7, FS_RemoveElement
  <2>3. IsFiniteSet(Counted') /\ Cardinality(Counted') = Cardinality(Counted \ {c}) + 1
    BY <2>1, <2>2, FS_AddElement
  <2> QED  BY <1>1, <2>2, <2>3, FS_CardinalityType
<1>8. CASE c \notin Counted /\ c \in Counted' /\ r \in Counted /\ r \notin Counted'
  <2>1. Counted' = (Counted \ {r}) \cup {c} /\ c \notin Counted \ {r}
    BY <1>6, <1>8
  <2>2. IsFiniteSet(Counted \ {r}) /\ Cardinality(Counted \ {r}) = Cardinality(Counted) - 1
    BY <1>1, <1>8, FS_RemoveElement
  <2>3. IsFiniteSet(Counted') /\ Cardinality(Counted') = Cardinality(Counted \ {r}) + 1
    BY <2>1, <2>2, FS_AddElement
  <2> QED  BY <1>1, <2>2, <2>3, FS_CardinalityType
<1> QED
  BY <1>4, <1>5, <1>7, <1>8

-----------------------------------------------------------------------------
(* Steps that leave the handles alone                                      *)

\* The handles, their lists and who refers to them stay; canBeSuspended and
\* suspended are of no concern here.
Quiet ==
    /\ UNCHANGED <<m_handles, m_frees, referenced, writeHints, opened>>
    /\ canBeSuspended' \subseteq Handles /\ suspended' \subseteq Handles

\* The counter follows what counts.
Counts(t, place) ==
    /\ total' \in Nat /\ writers' \in Nat
    /\ \/ (pc[t] \in Calls <=> place \in Calls) /\ total' = total
       \/ pc[t] \notin Calls /\ place \in Calls /\ total' = total + 1
       \/ pc[t] \in Calls /\ place \notin Calls /\ total' = total - 1

LEMMA CountsSame ==
    ASSUME TypeOK, NEW t \in Threads, NEW place, UNCHANGED counter,
           pc[t] \in Calls <=> place \in Calls
    PROVE  Counts(t, place)
BY DEF TypeOK, counter, Counts

LockTyped ==
    writer \in Threads \cup {NoThread} /\ depth \in Nat /\ queue \in Seq(Threads)

LEMMA OnlyMoves ==
    ASSUME NEW t \in Threads, NEW place, NEW o, NEW n, Moves(t, place, o), Reads(t, n),
           \A u \in Threads : u # t => referenced'[u] = referenced[u]
    PROVE  Only(t) /\ pc'[t] = place /\ op'[t] = o /\ readers'[t] = n
BY DEF Moves, Reads, Only

\* Nobody gets or loses a handle, and none that is in use goes.
LEMMA QuietHandles ==
    ASSUME PoolInv, NEW t \in Threads, Only(t), op'[t].handle = NoHandle \/ op'[t] = op[t],
           \A x \in Types : referenced'[t][x].handle = referenced[t][x].handle,
           SlotsFit', \A s \in Slots : Busy(s) \subseteq Busy(s)' /\ Busy(s) \cap opened \subseteq opened'
    PROVE  HandlesFit'
<1>1. \A u \in Threads : op'[u] = op[u] \/ (u = t /\ op'[u].handle = NoHandle)
  BY DEF Only
<1>2. \A u \in Threads, x \in Types : referenced'[u][x].handle = referenced[u][x].handle
  BY DEF Only
<1>3. ASSUME NEW u \in Threads PROVE CandidateFits(u)'
  <2>1. CASE op'[u] = op[u]
    BY <2>1, OpFields, TypeNames DEF CandidateFits, PoolInv, HandlesFit
  <2>2. CASE op'[u].handle = NoHandle
    BY <2>2 DEF CandidateFits
  <2> QED  BY <1>1, <2>1, <2>2
<1>4. ASSUME NEW u \in Threads, NEW x \in Types PROVE UseFits(u, x)'
  BY <1>2, TypeNames DEF UseFits, PoolInv, HandlesFit
<1>5. Exclusive'
  BY <1>1, <1>2 DEF Exclusive, PoolInv, HandlesFit
<1> QED
  BY <1>3, <1>4, <1>5 DEF HandlesFit

LEMMA QuietStep ==
    ASSUME PoolInv, NEW t \in Threads, NEW place, NEW o, NEW n, Moves(t, place, o), Reads(t, n),
           Quiet, LockTyped', m_initialized' \in BOOLEAN,
           m_initialized => m_initialized', n > 0 => m_initialized',
           Counts(t, place), m_closing' = m_closing + Closes(o) - Closes(op[t]),
           o.handle = NoHandle \/ o = op[t],
           ThreadFits(t)', LockFits'
    PROVE  PoolInv'
<1>1. Only(t) /\ pc'[t] = place /\ op'[t] = o /\ readers'[t] = n
  BY OnlyMoves DEF Quiet
<1>2. m_closing' \in Nat /\ IsFiniteSet(Closers') /\ m_closing' = Cardinality(Closers')
  BY ClosersFit
<1>3. TypeOK'
  BY <1>2 DEF PoolInv, TypeOK, Quiet, LockTyped, Moves, Reads, Counts
<1>4. HandlesFit'
  <2>1. UNCHANGED <<m_handles, m_frees, referenced, opened>>
    BY DEF Quiet
  <2>2. \A s : FreesOf(s)' = FreesOf(s) /\ Busy(s)' = Busy(s)
    BY <2>1 DEF FreesOf, Busy
  <2>3. SlotsFit'
    BY <2>1, <2>2 DEF SlotsFit, PoolInv, HandlesFit
  <2> QED  BY <1>1, <2>1, <2>2, <2>3, QuietHandles
<1>5. IsFiniteSet(Counted') /\ total' = Cardinality(Counted')
  <2>1. referenced' = referenced
    BY DEF Quiet
  <2>2. CASE (pc[t] \in Calls <=> place \in Calls) /\ total' = total
    BY <1>1, <2>1, <2>2, CountedSame
  <2>3. CASE \/ pc[t] \notin Calls /\ place \in Calls /\ total' = total + 1
             \/ pc[t] \in Calls /\ place \notin Calls /\ total' = total - 1
    BY <1>1, <2>1, <2>3, CountedCall
  <2> QED  BY <2>2, <2>3 DEF Counts
<1>6. InitializedFits'
  BY <1>1 DEF PoolInv, InitializedFits, Only, Quiet
<1>7. (\A u \in Threads : ThreadFits(u))'
  BY <1>1, ThreadsFit DEF PoolInv
<1> QED
  BY <1>2, <1>3, <1>4, <1>5, <1>6, <1>7 DEF PoolInv, CountsFit

LEMMA Parts ==
    ASSUME PoolInv, NEW t \in Threads
    PROVE  /\ TypeOK /\ LockFits /\ InitializedFits /\ LockTyped
           /\ CallFits(t) /\ ReferencesFit(t) /\ readers[t] = Shares(t) /\ readers[t] \in Nat
           /\ op[t] \in Ops /\ op[t].type \in Types /\ pc[t] \in Places
           /\ op[t].callback \in {"outside", "none", "Vacuum"}
           /\ m_initialized \in BOOLEAN /\ m_closing \in Nat
           /\ canBeSuspended \subseteq Handles /\ suspended \subseteq Handles
<1>1. TypeOK /\ ThreadFits(t) /\ LockFits /\ InitializedFits
  BY DEF PoolInv
<1>2. LockTyped /\ readers[t] \in Nat
  BY <1>1 DEF TypeOK, LockTyped
<1>3. /\ m_initialized \in BOOLEAN /\ m_closing \in Nat
      /\ canBeSuspended \subseteq Handles /\ suspended \subseteq Handles
  BY <1>1 DEF TypeOK
<1> QED
  BY <1>1, <1>2, <1>3, OpFields DEF ThreadFits

\* What t refers to stays: where it goes decides.
MayMove(t, place, o) ==
    /\ place \in Places /\ o \in Ops
    /\ o.handle = NoHandle /\ place # "reuse"
    /\ place \in {"idle", "blockadeQueued"} => o = NoOp
    /\ place \in Closing => o.callback # "outside" /\ o.type = "Normal"
    /\ o.callback # "outside" /\ place \notin Closing =>
          o.callback = "Vacuum" /\ o.type = "Vacuum"
    /\ o.type = "Vacuum" => o.callback = "Vacuum"
    /\ pc[t] \in Using \/ place \in Using =>
          pc[t] \in Using /\ place \in Using /\ o.type = op[t].type
    /\ \/ referenced[t]["Normal"] = NoReference
       \/ /\ o.type = "Normal" => place \notin Initializing \cup Flowing
          /\ o.callback # "outside" => place \in Waiting
          /\ place \notin {"initLock", "initQueued", "initOwned", "drainQueued"}

LEMMA ThreadMoves ==
    ASSUME PoolInv, NEW t \in Threads, NEW place, NEW o, MayMove(t, place, o),
           NEW n, n = NormalShare(t) + PlaceShare(place, o),
           Moves(t, place, o), Reads(t, n), referenced' = referenced
    PROVE  ThreadFits(t)'
<1>1. CallFits(t) /\ ReferencesFit(t)
  BY Parts
<1>2. pc'[t] = place /\ op'[t] = o /\ readers'[t] = n
  BY DEF Moves, Reads
<1>3. ReferencesFit(t)'
  BY <1>1, <1>2 DEF ReferencesFit, MayMove
<1>4. readers'[t] = Shares(t)'
  BY <1>2 DEF Shares, NormalShare
<1>5. CallFits(t)'
  BY <1>1, <1>2 DEF CallFits, Drained, DrainedAt, MayMove
<1> QED
  BY <1>3, <1>4, <1>5 DEF ThreadFits

\* A step that may share or unshare the lock, and nothing else of it.
LEMMA KeptStep ==
    ASSUME PoolInv, NEW t \in Threads, NEW place, NEW o, NEW n,
           MayMove(t, place, o), Moves(t, place, o),
           n = NormalShare(t) + PlaceShare(place, o), Reads(t, n),
           Quiet, Counts(t, place), UNCHANGED <<m_initialized, writer, depth>>, queue' \in Seq(Threads),
           m_closing' = m_closing + Closes(o) - Closes(op[t]),
           n > readers[t] => m_initialized /\ writer \in {t, NoThread},
           DrainedAt(place, o) => writer = t, place # "initOwned",
           place \in {"suspend", "drain"} /\ writer = t => n = 0
    PROVE  PoolInv'
<1>1. Only(t) /\ pc'[t] = place /\ op'[t] = o /\ readers'[t] = n
  BY OnlyMoves DEF Quiet
<1>2. ThreadFits(t)'
  BY ThreadMoves DEF Quiet
<1>3. LockTyped' /\ n \in Nat /\ readers[t] \in Nat
  <2>1. writer' \in Threads \cup {NoThread} /\ depth' \in Nat
    BY Parts DEF LockTyped
  <2>2. n \in Nat
    BY <1>1 DEF Reads
  <2> QED  BY <2>1, <2>2, Parts DEF LockTyped
<1>4. writer # NoThread /\ writer # t => n = 0
  BY <1>3, Parts DEF LockFits
<1>5. n > 0 => m_initialized
  BY <1>3, Parts DEF InitializedFits
<1>6. Drained(t)' => writer = t
  BY <1>1 DEF Drained
<1>7. LockFits'
  BY <1>1, <1>4, <1>6, LockKept
<1>8. o.handle = NoHandle /\ m_initialized \in BOOLEAN
  BY Parts DEF MayMove
<1> QED
  BY <1>2, <1>3, <1>5, <1>7, <1>8, QuietStep

\* A step that takes the write lock.
LEMMA OwnedStep ==
    ASSUME PoolInv, NEW t \in Threads, NEW place, NEW o,
           MayMove(t, place, o), Moves(t, place, o),
           Concurrency!Own(t) \/ Concurrency!OwnFromQueue(t),
           Quiet, UNCHANGED <<counter, m_initialized, m_closing>>,
           Closes(o) = Closes(op[t]), pc[t] \notin Calls, place \notin Calls,
           PlaceShare(place, o) = 0, NormalShare(t) = 0,
           DrainedAt(place, o) /\ place = "initOwned" => Drained(t)
    PROVE  PoolInv'
<1>1. Owns(t)
  BY OwnsLock, Parts
<1>2. Reads(t, 0)
  BY <1>1, Parts DEF Reads, Owns, TypeOK
<1>3. Only(t) /\ pc'[t] = place /\ op'[t] = o /\ readers'[t] = 0
  BY <1>2, OnlyMoves DEF Quiet
<1>4. ThreadFits(t)'
  BY <1>2, ThreadMoves DEF Quiet
<1>5. LockTyped'
  BY <1>1, Parts DEF LockTyped, Owns
<1>6. LockFits'
  BY <1>1, <1>3, LockOwned DEF Drained
<1>7. m_closing' = m_closing + Closes(o) - Closes(op[t])
  BY Parts DEF Closes
<1>8. o.handle = NoHandle /\ m_initialized \in BOOLEAN
  BY Parts DEF MayMove
<1> QED
  BY <1>2, <1>4, <1>5, <1>6, <1>7, <1>8, CountsSame, Parts, QuietStep

\* A step that returns it, and may leave the database initialized.
LEMMA DisownedStep ==
    ASSUME PoolInv, NEW t \in Threads, NEW place, NEW o,
           MayMove(t, place, o), Moves(t, place, o), Concurrency!Disown(t),
           Quiet, UNCHANGED counter, m_initialized' = TRUE \/ m_initialized' = m_initialized,
           m_closing' = m_closing + Closes(o) - Closes(op[t]), pc[t] \notin Calls, place \notin Calls,
           PlaceShare(place, o) = 0, NormalShare(t) = 0,
           place \notin {"initOwned", "suspend", "drain"},
           DrainedAt(place, o) => Drained(t) /\ pc[t] = "initOwned"
    PROVE  PoolInv'
<1>1. /\ Reads(t, 0) /\ UNCHANGED queue /\ writer = t /\ depth' \in Nat
      /\ writer' \in {t, NoThread}
  BY DisownsLock, Parts
<1>2. Only(t) /\ pc'[t] = place /\ op'[t] = o /\ readers'[t] = 0
  BY <1>1, OnlyMoves DEF Quiet
<1>3. ThreadFits(t)'
  BY <1>1, ThreadMoves DEF Quiet
<1>4. LockTyped'
  BY <1>1, Parts DEF LockTyped
<1>5. LockFits'
  BY <1>2, LockDisowned DEF Drained
<1>6. o.handle = NoHandle
  BY DEF MayMove
<1>7. m_initialized' \in BOOLEAN /\ (m_initialized => m_initialized')
  <2>1. CASE m_initialized' = TRUE
    BY <2>1
  <2>2. CASE m_initialized' = m_initialized
    BY <2>2, Parts
  <2> QED  BY <2>1, <2>2
<1> QED
  BY <1>1, <1>3, <1>4, <1>5, <1>6, <1>7, CountsSame, Parts, QuietStep

LEMMA Same ==
    ASSUME PoolInv, NEW t \in Threads, UNCHANGED <<counter, pool, handleState>>
    PROVE  /\ Quiet /\ UNCHANGED <<m_initialized, m_closing, referenced>>
           /\ \A place : (pc[t] \in Calls <=> place \in Calls) => Counts(t, place)
           /\ m_closing' = m_closing + Closes(op[t]) - Closes(op[t])
BY Parts, CountsSame DEF Quiet, pool, handleState, Closes

\* A step within a call: only the place changes, and perhaps what can be
\* suspended.
LEMMA WalkStep ==
    ASSUME PoolInv, NEW t \in Threads, NEW place \in Places, Goto(t, place),
           UNCHANGED <<concurrency, counter, pool, writeHints, opened, op>>,
           canBeSuspended' \subseteq Handles, suspended' \subseteq Handles,
           MayMove(t, place, op[t]), PlaceShare(place, op[t]) = PlaceShare(pc[t], op[t]),
           pc[t] \in Calls <=> place \in Calls, place # "initOwned",
           DrainedAt(place, op[t]) => writer = t,
           place \in {"suspend", "drain"} /\ writer = t => readers[t] = 0
    PROVE  PoolInv'
<1>1. Moves(t, place, op[t])
  BY GotoMoves, Parts
<1>2. Reads(t, readers[t]) /\ UNCHANGED <<writer, depth, queue>>
  BY KeepsLock, Parts
<1>3. readers[t] = NormalShare(t) + PlaceShare(place, op[t])
  BY Parts DEF Shares
<1>4. Quiet /\ UNCHANGED m_initialized
  BY DEF Quiet, pool
<1>5. m_closing' = m_closing + Closes(op[t]) - Closes(op[t])
  BY Parts DEF pool, Closes
<1>6. queue' \in Seq(Threads) /\ ~(readers[t] > readers[t])
  BY <1>2, Parts DEF LockTyped
<1>7. Counts(t, place)
  BY CountsSame, Parts
<1> QED
  BY <1>1, <1>2, <1>3, <1>4, <1>5, <1>6, <1>7, KeptStep

LEMMA initializeStep ==
    ASSUME PoolInv, NEW t \in Threads, initialize(t)
    PROVE  PoolInv'
<1> USE DEF Places, Initializing, Flowing, Using, Closing, Waiting, Calls
<1>1. pc[t] = "init" /\ UNCHANGED <<counter, pool, handleState, op>>
  BY DEF initialize
<1>2. op[t].handle = NoHandle /\ readers[t] = NormalShare(t) + 0
  BY <1>1, Parts DEF CallFits, Shares, PlaceShare
<1>3. \A place : DrainedAt(place, op[t]) => writer = t
  BY <1>1, Parts DEF LockFits, Drained, DrainedAt
<1>4. CASE m_initialized /\ Concurrency!Share(t) /\ Goto(t, "count")
  <2>1. Moves(t, "count", op[t])
    BY <1>1, <1>4, GotoMoves, Parts
  <2>2. Reads(t, readers[t] + 1) /\ UNCHANGED <<writer, depth, queue>> /\ writer \in {t, NoThread}
    BY <1>4, SharesLock, Parts
  <2>3. MayMove(t, "count", op[t])
    BY <1>1, <1>2, Parts DEF CallFits, MayMove, Drained, DrainedAt
  <2>4. readers[t] + 1 = NormalShare(t) + PlaceShare("count", op[t])
    BY <1>2 DEF PlaceShare, NormalShare
  <2>5. queue' \in Seq(Threads)
    BY <2>2, Parts DEF LockTyped
  <2>6. /\ Quiet /\ Counts(t, "count") /\ UNCHANGED m_initialized
        /\ m_closing' = m_closing + Closes(op[t]) - Closes(op[t])
    BY <1>1, Same
  <2> QED  BY <1>3, <1>4, <2>1, <2>2, <2>3, <2>4, <2>5, <2>6, KeptStep
<1>5. CASE ~m_initialized /\ UNCHANGED concurrency /\ Goto(t, "initLock")
  <2>1. referenced[t]["Normal"] = NoReference
    BY <1>2, <1>5, Parts DEF InitializedFits, NormalShare
  <2>2. MayMove(t, "initLock", op[t])
    BY <1>1, <1>2, <2>1, Parts DEF CallFits, MayMove
  <2>3. PlaceShare("initLock", op[t]) = PlaceShare(pc[t], op[t])
    BY <1>1 DEF PlaceShare
  <2>4. canBeSuspended' \subseteq Handles /\ suspended' \subseteq Handles /\ UNCHANGED <<writeHints, opened>>
    BY <1>1, Parts DEF handleState
  <2> QED  BY <1>1, <1>3, <1>5, <2>2, <2>3, <2>4, WalkStep
<1> QED
  BY <1>4, <1>5 DEF initialize

LEMMA initializeLockStep ==
    ASSUME PoolInv, NEW t \in Threads, initializeLock(t)
    PROVE  PoolInv'
<1> USE DEF Places, Initializing, Flowing, Using, Closing, Waiting, Calls
<1>1. pc[t] \in {"initLock", "initQueued"} /\ UNCHANGED <<counter, pool, handleState, op>>
  BY DEF initializeLock
<1>2. /\ Quiet /\ UNCHANGED <<m_initialized, m_closing>>
      /\ m_closing' = m_closing + Closes(op[t]) - Closes(op[t])
  BY <1>1, Same
<1>3. op[t].handle = NoHandle /\ referenced[t]["Normal"] = NoReference
  BY <1>1, Parts DEF CallFits
<1>4. NormalShare(t) = 0 /\ readers[t] = 0
  BY <1>1, <1>3, Parts DEF Shares, PlaceShare, NormalShare
<1>5. \A place : DrainedAt(place, op[t]) => Drained(t) /\ writer = t
  BY <1>1, Parts DEF LockFits, Drained, DrainedAt
<1>6. CASE (Concurrency!Own(t) \/ Concurrency!OwnFromQueue(t)) /\ Goto(t, "initOwned")
  <2>1. Moves(t, "initOwned", op[t])
    BY <1>1, <1>6, GotoMoves, Parts
  <2>2. MayMove(t, "initOwned", op[t])
    BY <1>1, <1>3, Parts DEF CallFits, MayMove
  <2>3. PlaceShare("initOwned", op[t]) = 0
    BY DEF PlaceShare
  <2> QED  BY <1>1, <1>2, <1>4, <1>5, <1>6, <2>1, <2>2, <2>3, OwnedStep
<1>7. CASE Concurrency!Enqueue(t) /\ Goto(t, "initQueued")
  <2>1. Moves(t, "initQueued", op[t])
    BY <1>1, <1>7, GotoMoves, Parts
  <2>2. MayMove(t, "initQueued", op[t])
    BY <1>1, <1>3, Parts DEF CallFits, MayMove
  <2>3. readers[t] = NormalShare(t) + PlaceShare("initQueued", op[t])
    BY <1>4 DEF PlaceShare
  <2>4. Reads(t, readers[t]) /\ UNCHANGED <<writer, depth>> /\ queue' \in Seq(Threads)
    BY <1>7, QueuesForLock, Parts
  <2>5. Counts(t, "initQueued") /\ ~(readers[t] > readers[t])
    BY <1>1, <1>4, Same
  <2> QED  BY <1>2, <1>5, <2>1, <2>2, <2>3, <2>4, <2>5, KeptStep
<1> QED
  BY <1>6, <1>7 DEF initializeLock

-----------------------------------------------------------------------------
(* Calls that end                                                          *)

Back(o) == IF o.callback = "outside" THEN "idle" ELSE "undrain"

LEMMA Finishes ==
    ASSUME PoolInv, NEW t \in Threads, Finish(t), pc[t] \notin Using \cup Waiting
    PROVE  LET o == Bare(op[t].callback) IN
           /\ Moves(t, Back(op[t]), o) /\ MayMove(t, Back(op[t]), o)
           /\ PlaceShare(Back(op[t]), o) = 0 /\ Back(op[t]) \notin Calls
           /\ Back(op[t]) \in {"idle", "undrain"}
           /\ Closes(o) = Closes(op[t])
           /\ DrainedAt(Back(op[t]), o) => Drained(t) /\ writer = t
<1> USE DEF Places, Initializing, Flowing, Using, Closing, Waiting, Calls
<1> DEFINE o == Bare(op[t].callback)
<1>1. op[t].callback \in {"outside", "none", "Vacuum"}
  BY Parts
<1>2. /\ o \in Ops /\ o.type = "Normal" /\ o.handle = NoHandle /\ o.callback = op[t].callback
      /\ NoOp = Bare("outside")
  BY <1>1, BareOp
<1>3. op[t].callback # "outside" => Drained(t) /\ writer = t /\ referenced[t]["Normal"] = NoReference
  BY Parts DEF Drained, DrainedAt, LockFits, CallFits
<1>4. op[t].callback = "outside" => o = NoOp
  BY <1>2
<1>5. Moves(t, Back(op[t]), o)
  BY FinishMoves, Parts DEF Back
<1> HIDE DEF o
<1>6. MayMove(t, Back(op[t]), o)
  BY <1>1, <1>2, <1>3, <1>4 DEF MayMove, Back
<1>7. PlaceShare(Back(op[t]), o) = 0 /\ Back(op[t]) \in {"idle", "undrain"} /\ Back(op[t]) \notin Calls
  BY DEF PlaceShare, Back
<1>8. Closes(o) = Closes(op[t]) /\ (DrainedAt(Back(op[t]), o) => Drained(t) /\ writer = t)
  BY <1>2, <1>3 DEF Closes, DrainedAt
<1> QED
  BY <1>5, <1>6, <1>7, <1>8 DEF o

LEMMA initializeOwnedStep ==
    ASSUME PoolInv, NEW t \in Threads, initializeOwned(t)
    PROVE  PoolInv'
<1> USE DEF Places, Initializing, Flowing, Using, Closing, Waiting, Calls
<1>1. /\ pc[t] = "initOwned" /\ Concurrency!Disown(t)
      /\ UNCHANGED <<counter, m_closing, m_handles, m_frees, referenced, handleState>>
  BY DEF initializeOwned
<1>2. Quiet
  BY <1>1, Parts DEF Quiet, handleState
<1>3. op[t].handle = NoHandle /\ referenced[t]["Normal"] = NoReference
  BY <1>1, Parts DEF CallFits
<1>4. NormalShare(t) = 0
  BY <1>3 DEF NormalShare
<1>5. CASE m_initialized' = TRUE /\ Goto(t, "init") /\ UNCHANGED op
  <2>1. Moves(t, "init", op[t])
    BY <1>5, GotoMoves, Parts
  <2>2. MayMove(t, "init", op[t])
    BY <1>1, <1>3, Parts DEF CallFits, MayMove
  <2>3. PlaceShare("init", op[t]) = 0 /\ (DrainedAt("init", op[t]) => Drained(t))
    BY <1>1 DEF PlaceShare, Drained, DrainedAt
  <2>4. m_closing' = m_closing + Closes(op[t]) - Closes(op[t])
    BY <1>1, Parts DEF Closes
  <2> QED  BY <1>1, <1>2, <1>4, <1>5, <2>1, <2>2, <2>3, <2>4, DisownedStep
<1>6. CASE UNCHANGED m_initialized /\ Finish(t)
  <2> DEFINE o == Bare(op[t].callback)
  <2>1. /\ Moves(t, Back(op[t]), o) /\ MayMove(t, Back(op[t]), o)
        /\ PlaceShare(Back(op[t]), o) = 0 /\ Back(op[t]) \notin Calls
        /\ Back(op[t]) \in {"idle", "undrain"}
        /\ Closes(o) = Closes(op[t])
        /\ DrainedAt(Back(op[t]), o) => Drained(t) /\ writer = t
    BY <1>1, <1>6, Finishes
  <2> HIDE DEF o
  <2>2. m_closing' = m_closing + Closes(o) - Closes(op[t])
    BY <1>1, <2>1, Parts DEF Closes
  <2> QED  BY <1>1, <1>2, <1>4, <1>6, <2>1, <2>2, DisownedStep
<1> QED
  BY <1>5, <1>6 DEF initializeOwned

LEMMA decreaseStep ==
    ASSUME PoolInv, NEW t \in Threads, decreaseHandleCount(t)
    PROVE  PoolInv'
<1> USE DEF Places, Initializing, Flowing, Using, Closing, Waiting, Calls
<1> DEFINE o == Bare(op[t].callback)
           n == NormalShare(t) + PlaceShare(Back(op[t]), o)
<1>1. /\ pc[t] = "decrease" /\ Counter!GiveBack(op[t].hint) /\ Finish(t)
      /\ UNCHANGED <<pool, handleState>>
  BY DEF decreaseHandleCount
<1>2. /\ Moves(t, Back(op[t]), o) /\ MayMove(t, Back(op[t]), o)
      /\ PlaceShare(Back(op[t]), o) = 0 /\ Back(op[t]) \notin Calls
      /\ Back(op[t]) \in {"idle", "undrain"}
      /\ Closes(o) = Closes(op[t])
      /\ DrainedAt(Back(op[t]), o) => Drained(t) /\ writer = t
  BY <1>1, Finishes
<1>3. Counts(t, Back(op[t]))
  <2>1. writers \in Nat /\ total \in Nat /\ op[t].hint \in BOOLEAN
    BY Parts, OpFields DEF TypeOK
  <2>2. total > 0 /\ total' = total - 1 /\ total' \in Nat
    BY <1>1, <2>1 DEF Counter!GiveBack
  <2>3. writers' \in Nat
    BY <1>1, <2>1 DEF Counter!GiveBack
  <2> QED  BY <1>1, <1>2, <2>2, <2>3 DEF Counts
<1>4. n = NormalShare(t) /\ n \in Nat
  BY <1>2 DEF NormalShare
<1> HIDE DEF o, n
<1>5. Reads(t, n) /\ UNCHANGED <<writer, depth, queue>> /\ ~(n > readers[t])
  <2>1. CASE op[t].type = "Normal"
    <3>1. readers[t] = n /\ UNCHANGED concurrency
      BY <1>1, <1>4, <2>1, Parts DEF Shares, PlaceShare, decreaseHandleCount
    <3> QED  BY <1>4, <3>1, KeepsLock, Parts
  <2>2. CASE op[t].type # "Normal"
    <3>1. readers[t] = n + 1 /\ LeaveGuard(t)
      BY <1>1, <1>4, <2>2, Parts DEF Shares, PlaceShare, decreaseHandleCount
    <3>2. Reads(t, readers[t] - 1) /\ UNCHANGED <<writer, depth, queue>>
      BY <1>4, <3>1, LeavesLock, Parts
    <3>3. readers[t] - 1 = n
      BY <1>4, <3>1
    <3> QED  BY <1>4, <3>1, <3>2, <3>3
  <2> QED  BY <2>1, <2>2
<1>6. Quiet /\ UNCHANGED <<m_initialized, m_closing>> /\ queue' \in Seq(Threads)
  BY <1>1, <1>5, Parts DEF Quiet, pool, handleState, LockTyped
<1>7. m_closing' = m_closing + Closes(o) - Closes(op[t])
  BY <1>2, <1>6, Parts DEF Closes
<1>8. n = NormalShare(t) + PlaceShare(Back(op[t]), o)
  BY DEF n
<1> QED
  BY <1>2, <1>3, <1>5, <1>6, <1>7, <1>8, KeptStep

LEMMA increaseStep ==
    ASSUME PoolInv, NEW t \in Threads, increaseHandleCount(t)
    PROVE  PoolInv'
<1> USE DEF Places, Initializing, Flowing, Using, Closing, Waiting, Calls
<1>1. pc[t] = "count" /\ UNCHANGED <<pool, handleState>>
  BY DEF increaseHandleCount
<1>2. Quiet /\ UNCHANGED <<m_initialized, m_closing>>
  BY <1>1, Parts DEF Quiet, pool, handleState
<1>3. op[t].handle = NoHandle /\ readers[t] = NormalShare(t) + 1
  BY <1>1, Parts DEF CallFits, Shares, PlaceShare
<1>4. CASE Counter!Grant(op[t].hint) /\ Goto(t, "take") /\ UNCHANGED <<concurrency, op>>
  <2>1. Moves(t, "take", op[t])
    BY <1>4, GotoMoves, Parts
  <2>2. Reads(t, readers[t]) /\ UNCHANGED <<writer, depth, queue>>
    BY <1>4, KeepsLock, Parts
  <2>3. MayMove(t, "take", op[t])
    BY <1>1, <1>3, Parts DEF CallFits, MayMove, Drained, DrainedAt
  <2>4. readers[t] = NormalShare(t) + PlaceShare("take", op[t])
    BY <1>3 DEF PlaceShare
  <2>5. queue' \in Seq(Threads) /\ ~(readers[t] > readers[t])
    BY <2>2, Parts DEF LockTyped
  <2>6. Counts(t, "take")
    <3>1. writers \in Nat /\ total \in Nat /\ op[t].hint \in BOOLEAN
      BY Parts, OpFields DEF TypeOK
    <3>2. writers' \in Nat /\ total' = total + 1
      BY <1>4, <3>1 DEF Counter!Grant
    <3> QED  BY <1>1, <3>1, <3>2 DEF Counts
  <2>7. m_closing' = m_closing + Closes(op[t]) - Closes(op[t])
    BY <1>2, Parts DEF Closes
  <2>8. DrainedAt("take", op[t]) => writer = t
    BY <1>1, Parts DEF LockFits, Drained, DrainedAt
  <2> QED  BY <1>2, <2>1, <2>2, <2>3, <2>4, <2>5, <2>6, <2>7, <2>8, KeptStep
<1>5. CASE LeaveGuard(t) /\ Finish(t) /\ UNCHANGED counter
  <2> DEFINE o == Bare(op[t].callback)
  <2>1. /\ Moves(t, Back(op[t]), o) /\ MayMove(t, Back(op[t]), o)
        /\ PlaceShare(Back(op[t]), o) = 0 /\ Back(op[t]) \notin Calls
        /\ Back(op[t]) \in {"idle", "undrain"}
        /\ Closes(o) = Closes(op[t])
        /\ DrainedAt(Back(op[t]), o) => Drained(t) /\ writer = t
    BY <1>1, <1>5, Finishes
  <2> HIDE DEF o
  <2>2. NormalShare(t) \in Nat
    BY DEF NormalShare
  <2>3. Reads(t, readers[t] - 1) /\ UNCHANGED <<writer, depth, queue>>
    BY <1>3, <1>5, <2>2, LeavesLock, Parts
  <2>4. /\ readers[t] - 1 = NormalShare(t) + PlaceShare(Back(op[t]), o)
        /\ ~(readers[t] - 1 > readers[t])
    BY <1>3, <2>1, <2>2
  <2>5. Counts(t, Back(op[t]))
    BY <1>1, <1>5, <2>1, CountsSame, Parts
  <2>6. queue' \in Seq(Threads) /\ m_closing' = m_closing + Closes(o) - Closes(op[t])
    BY <1>2, <2>1, <2>3, Parts DEF LockTyped, Closes
  <2> QED  BY <1>2, <2>1, <2>3, <2>4, <2>5, <2>6, KeptStep
<1> QED
  BY <1>4, <1>5 DEF increaseHandleCount

-----------------------------------------------------------------------------
(* Calls that begin                                                        *)

Call(type, hint) ==
    [type |-> type, hint |-> hint, handle |-> NoHandle, callback |-> "outside"]

LEMMA CallOp ==
    ASSUME NEW type \in Types, NEW hint \in BOOLEAN
    PROVE  /\ Call(type, hint) \in Ops /\ Call(type, hint).type = type
           /\ Call(type, hint).handle = NoHandle /\ Call(type, hint).callback = "outside"
           /\ [NoOp EXCEPT !.hint = hint] = Call("Normal", hint)
           /\ [NoOp EXCEPT !.type = type] = Call(type, FALSE)
<1>1. /\ Call(type, hint) \in Ops /\ Call(type, hint).type = type
      /\ Call(type, hint).handle = NoHandle /\ Call(type, hint).callback = "outside"
  BY DEF Call, Ops
<1>2. NoOp = [type |-> NoOp.type, hint |-> NoOp.hint, handle |-> NoHandle, callback |-> "outside"]
  BY DEF NoOp
<1>3. NoOp.hint = FALSE /\ NoOp.type = "Normal"
  BY DEF NoOp
<1>4. ASSUME NEW f, NEW h,
             f = [type |-> f.type, hint |-> f.hint, handle |-> h, callback |-> "outside"]
      PROVE  /\ [f EXCEPT !.hint = hint]
                   = [type |-> f.type, hint |-> hint, handle |-> h, callback |-> "outside"]
             /\ [f EXCEPT !.type = type]
                   = [type |-> type, hint |-> f.hint, handle |-> h, callback |-> "outside"]
  BY <1>4
<1>5. /\ [NoOp EXCEPT !.hint = hint]
            = [type |-> NoOp.type, hint |-> hint, handle |-> NoHandle, callback |-> "outside"]
      /\ [NoOp EXCEPT !.type = type]
            = [type |-> type, hint |-> NoOp.hint, handle |-> NoHandle, callback |-> "outside"]
  BY <1>2, <1>4
<1> QED
  BY <1>1, <1>3, <1>5 DEF Call

\* A thread outside starts a call that needs no lock yet.
LEMMA BeginStep ==
    ASSUME PoolInv, NEW t \in Threads, pc[t] = "idle", NEW o, NEW place \in {"init", "suspend"},
           op' = [op EXCEPT ![t] = o], Goto(t, place),
           o \in Ops, o.handle = NoHandle, o.type # "Vacuum",
           place = "init" => o.callback = "outside",
           place = "suspend" => o.callback # "outside" /\ o.type = "Normal"
                                /\ ~(writer = t /\ readers[t] > 0),
           o.type = "Normal" /\ place = "init" => referenced[t]["Normal"] = NoReference,
           m_closing' = m_closing + Closes(o),
           UNCHANGED <<concurrency, counter, m_initialized, m_handles, m_frees, referenced, handleState>>
    PROVE  PoolInv'
<1> USE DEF Places, Initializing, Flowing, Using, Closing, Waiting, Calls
<1>1. Moves(t, place, o)
  BY OpMoves, Parts
<1>2. Reads(t, readers[t]) /\ UNCHANGED <<writer, depth, queue>>
  BY KeepsLock, Parts
<1>3. MayMove(t, place, o)
  BY DEF MayMove
<1>4. readers[t] = NormalShare(t) + PlaceShare(place, o) /\ readers[t] \in Nat
  BY Parts DEF Shares, PlaceShare
<1>5. Counts(t, place) /\ Quiet
  BY CountsSame, Parts DEF Quiet, handleState
<1>6. queue' \in Seq(Threads) /\ ~(readers[t] > readers[t])
  BY <1>2, <1>4, Parts DEF LockTyped
<1>7. Closes(op[t]) = 0 /\ Closes(o) \in Nat
  BY Parts, BareOp DEF CallFits, Closes
<1>8. m_closing' = m_closing + Closes(o) - Closes(op[t])
  BY <1>7, Parts
<1>9. ~DrainedAt(place, o) /\ (place \in {"suspend", "drain"} /\ writer = t => readers[t] = 0)
  BY <1>4 DEF DrainedAt
<1> QED
  BY <1>1, <1>2, <1>3, <1>4, <1>5, <1>6, <1>8, <1>9, KeptStep

LEMMA getHandleStep ==
    ASSUME PoolInv, NEW t \in Threads, NEW hint \in BOOLEAN, getHandle(t, hint)
    PROVE  PoolInv'
<1> DEFINE o == Call("Normal", hint)
<1>1. /\ pc[t] = "idle" /\ referenced[t]["Normal"] = NoReference /\ Goto(t, "init")
      /\ UNCHANGED <<concurrency, counter, pool, handleState>>
  BY DEF getHandle
<1>2. /\ o \in Ops /\ o.type = "Normal" /\ o.handle = NoHandle /\ o.callback = "outside"
      /\ op' = [op EXCEPT ![t] = o]
  BY CallOp, TypeNames DEF getHandle
<1> HIDE DEF o
<1>3. m_closing' = m_closing + Closes(o)
  BY <1>1, <1>2, Parts DEF pool, Closes
<1> QED
  BY <1>1, <1>2, <1>3, BeginStep DEF pool

LEMMA runTaskStep ==
    ASSUME PoolInv, NEW t \in Threads, NEW type \in TaskTypes, runTask(t, type)
    PROVE  PoolInv'
<1> DEFINE o == Call(type, FALSE)
<1>1. /\ pc[t] = "idle" /\ Goto(t, "init")
      /\ UNCHANGED <<concurrency, counter, pool, handleState>>
  BY DEF runTask
<1>2. type \in Types /\ type # "Normal" /\ type # "Vacuum" /\ FALSE \in BOOLEAN
  BY TypeNames
<1>3. /\ o \in Ops /\ o.type = type /\ o.handle = NoHandle /\ o.callback = "outside"
      /\ op' = [op EXCEPT ![t] = o]
  BY <1>2, CallOp DEF runTask
<1> HIDE DEF o
<1>4. m_closing' = m_closing + Closes(o)
  BY <1>1, <1>3, Parts DEF pool, Closes
<1> QED
  BY <1>1, <1>2, <1>3, <1>4, BeginStep DEF pool

LEMMA closeStep ==
    ASSUME PoolInv, NEW t \in Threads, NEW callback \in Callbacks, close(t, callback)
    PROVE  PoolInv'
<1> DEFINE o == Bare(callback)
<1>1. /\ pc[t] = "idle" /\ Goto(t, "suspend") /\ ~(writer = t /\ readers[t] > 0)
      /\ m_closing' = m_closing + 1
      /\ UNCHANGED <<concurrency, counter, m_initialized, m_handles, m_frees, referenced, handleState>>
  BY DEF close
<1>2. callback \in {"none", "Vacuum"}
  BY HandlePoolAssumption
<1>3. op[t] = NoOp /\ op \in [Threads -> Ops]
  BY <1>1, Parts DEF CallFits, TypeOK
<1>4. op' = [op EXCEPT ![t] = [NoOp EXCEPT !.callback = callback]]
  BY <1>3 DEF close
<1>5. /\ o \in Ops /\ o.type = "Normal" /\ o.handle = NoHandle /\ o.callback = callback
      /\ op' = [op EXCEPT ![t] = o]
  BY <1>2, <1>4, BareOp
<1> HIDE DEF o
<1>6. m_closing' = m_closing + Closes(o)
  BY <1>1, <1>2, <1>5 DEF Closes
<1> QED
  BY <1>1, <1>2, <1>5, <1>6, BeginStep

-----------------------------------------------------------------------------
(* Tasks                                                                   *)

LEMMA References ==
    ASSUME PoolInv, NEW t \in Threads, NEW x \in Types
    PROVE  /\ referenced[t][x].handle \in Handles \cup {NoHandle}
           /\ referenced[t][x].reference \in 0 .. MaxReference
           /\ referenced[t][x] = NoReference <=> referenced[t][x].handle = NoHandle
           /\ referenced[t][x] = NoReference <=> referenced[t][x].reference = 0
<1>1. referenced[t][x] \in [handle : Handles \cup {NoHandle}, reference : 0 .. MaxReference]
  BY DEF PoolInv, TypeOK
<1>2. \/ referenced[t][x] = NoReference
      \/ referenced[t][x].handle # NoHandle /\ referenced[t][x].reference > 0
  BY Parts DEF ReferencesFit
<1>3. NoReference.handle = NoHandle /\ NoReference.reference = 0
  BY DEF NoReference
<1> QED
  BY <1>1, <1>2, <1>3, HandlePoolAssumption

\* A task uses the handle of its type.
LEMMA UsesHandle ==
    ASSUME PoolInv, NEW t \in Threads, pc[t] \in Using
    PROVE  /\ op[t].type \in Types /\ op[t].type # "Normal"
           /\ referenced[t][op[t].type] # NoReference
           /\ referenced[t][op[t].type].handle \in Handles
<1>1. op[t].type \in Types /\ op[t].type # "Normal" /\ referenced[t][op[t].type] # NoReference
  BY Parts DEF CallFits, ReferencesFit
<1> QED
  BY <1>1, References

\* A task goes on to place.
LEMMA TaskStep ==
    ASSUME PoolInv, NEW t \in Threads, pc[t] \in Using, NEW place \in Using, Goto(t, place),
           UNCHANGED <<concurrency, counter, pool, writeHints, opened, suspended, op>>,
           canBeSuspended' \subseteq Handles
    PROVE  PoolInv'
<1> USE DEF Places, Initializing, Flowing, Using, Closing, Waiting, Calls
<1>1. op[t].handle = NoHandle
  BY Parts DEF CallFits
<1>2. MayMove(t, place, op[t])
  BY <1>1, Parts DEF CallFits, MayMove, Drained, DrainedAt
<1>3. PlaceShare(place, op[t]) = PlaceShare(pc[t], op[t])
  BY DEF PlaceShare
<1>4. DrainedAt(place, op[t]) => writer = t
  BY Parts DEF LockFits, Drained, DrainedAt
<1>5. place \in Places /\ suspended' \subseteq Handles
  BY Parts
<1> QED
  BY <1>2, <1>3, <1>4, <1>5, WalkStep

LEMMA markStep ==
    ASSUME PoolInv, NEW t \in Threads, markAsCanBeSuspended(t)
    PROVE  PoolInv'
<1>1. pc[t] \in Using
  BY DEF markAsCanBeSuspended, Using
<1>2. (IF op[t].type = "Backup" THEN "check" ELSE "work") \in Using
  BY DEF Using
<1>3. canBeSuspended' \subseteq Handles
  BY <1>1, UsesHandle, Parts DEF markAsCanBeSuspended
<1> QED
  BY <1>1, <1>2, <1>3, TaskStep DEF markAsCanBeSuspended

LEMMA checkStep ==
    ASSUME PoolInv, NEW t \in Threads, checkShouldInterruptWhenClosing(t)
    PROVE  PoolInv'
<1>1. pc[t] \in Using /\ "recycle" \in Using
  BY DEF checkShouldInterruptWhenClosing, Using
<1>2. (IF op[t].type = "Backup" THEN "work" ELSE "mark") \in Using
  BY DEF Using
<1>3. UNCHANGED <<concurrency, counter, pool, writeHints, opened, suspended, op>> /\ canBeSuspended' \subseteq Handles
  BY Parts DEF checkShouldInterruptWhenClosing, handleState
<1> QED
  BY <1>1, <1>2, <1>3, TaskStep DEF checkShouldInterruptWhenClosing

LEMMA finishWorkStep ==
    ASSUME PoolInv, NEW t \in Threads, finishWork(t)
    PROVE  PoolInv'
<1>1. pc[t] \in Using /\ "recycle" \in Using
  BY DEF finishWork, Using
<1>2. UNCHANGED <<concurrency, counter, pool, writeHints, opened, suspended, op>> /\ canBeSuspended' \subseteq Handles
  BY Parts DEF finishWork, handleState
<1> QED
  BY <1>1, <1>2, TaskStep DEF finishWork

-----------------------------------------------------------------------------
(* close(), blockade() and unblockade()                                    *)

LEMMA suspendStep ==
    ASSUME PoolInv, NEW t \in Threads, suspendTasks(t)
    PROVE  PoolInv'
<1> USE DEF Places, Initializing, Flowing, Using, Closing, Waiting, Calls
<1>1. /\ pc[t] = "suspend" /\ Goto(t, "drain")
      /\ suspended' = (suspended \ m_handles["AutoTask"])
                         \cup (m_handles["AutoTask"] \cap canBeSuspended \cap opened)
      /\ UNCHANGED <<concurrency, counter, pool, writeHints, opened, canBeSuspended, op>>
  BY DEF suspendTasks
<1>2. suspended' \subseteq Handles /\ canBeSuspended' \subseteq Handles
  BY <1>1, Parts
<1>3. op[t].handle = NoHandle
  BY <1>1, Parts DEF CallFits
<1>4. MayMove(t, "drain", op[t])
  BY <1>1, <1>3, Parts DEF CallFits, MayMove
<1>5. PlaceShare("drain", op[t]) = PlaceShare(pc[t], op[t])
  BY <1>1 DEF PlaceShare
<1>6. ~DrainedAt("drain", op[t]) /\ (writer = t => readers[t] = 0)
  BY <1>1, Parts DEF DrainedAt, LockFits
<1> QED
  BY <1>1, <1>2, <1>4, <1>5, <1>6, WalkStep

LEMMA drainStep ==
    ASSUME PoolInv, NEW t \in Threads, drain(t)
    PROVE  PoolInv'
<1> USE DEF Places, Initializing, Flowing, Using, Closing, Waiting, Calls
<1>1. /\ pc[t] \in {"drain", "drainQueued"}
      /\ UNCHANGED <<counter, m_initialized, m_handles, m_frees, referenced, handleState>>
  BY DEF drain
<1>2. Quiet
  BY <1>1, Parts DEF Quiet, handleState
<1>3. /\ op[t].handle = NoHandle /\ readers[t] = NormalShare(t) + 0
      /\ op[t].callback # "outside" /\ op[t].type = "Normal"
  BY <1>1, Parts DEF CallFits, Shares, PlaceShare
<1>4. readers[t] = 0 => NormalShare(t) = 0 /\ referenced[t]["Normal"] = NoReference
  BY <1>3 DEF NormalShare
<1>5. CASE pc[t] = "drain" /\ EndClose(t) /\ UNCHANGED concurrency
  <2>1. Moves(t, "idle", Bare("outside"))
    BY <1>5, EndCloseMoves, Parts
  <2>2. Reads(t, readers[t]) /\ UNCHANGED <<writer, depth, queue>>
    BY <1>5, KeepsLock, Parts
  <2>3. Bare("outside") = NoOp /\ Bare("outside") \in Ops
    BY BareOp
  <2>4. Bare("outside").handle = NoHandle /\ Bare("outside").callback = "outside" /\ Bare("outside").type = "Normal"
    BY BareOp
  <2>5. MayMove(t, "idle", Bare("outside"))
    BY <1>5, <2>3, <2>4 DEF MayMove
  <2>6. readers[t] = NormalShare(t) + PlaceShare("idle", Bare("outside"))
    BY <1>3 DEF PlaceShare
  <2>7. Counts(t, "idle")
    BY <1>1, CountsSame, Parts
  <2>8. queue' \in Seq(Threads) /\ ~(readers[t] > readers[t]) /\ ~DrainedAt("idle", Bare("outside"))
    BY <2>2, <2>4, Parts DEF LockTyped, DrainedAt
  <2>9. m_closing' = m_closing + Closes(Bare("outside")) - Closes(op[t])
    BY <1>3, <1>5, <2>4, Parts DEF Closes, EndClose
  <2> QED  BY <1>1, <1>2, <2>1, <2>2, <2>5, <2>6, <2>7, <2>8, <2>9, KeptStep
<1>6. CASE /\ Concurrency!Own(t) \/ Concurrency!OwnFromQueue(t)
           /\ Goto(t, "clear") /\ UNCHANGED <<op, m_closing>>
  <2>1. Moves(t, "clear", op[t])
    BY <1>6, GotoMoves, Parts
  <2>2. readers[t] = 0
    BY <1>6, OwnsLock, Parts DEF Owns
  <2>3. MayMove(t, "clear", op[t])
    BY <1>1, <1>3, <1>4, <2>2, Parts DEF CallFits, MayMove
  <2>4. PlaceShare("clear", op[t]) = 0
    BY DEF PlaceShare
  <2> QED  BY <1>1, <1>2, <1>4, <1>6, <2>1, <2>2, <2>3, <2>4, OwnedStep
<1>7. CASE Concurrency!Enqueue(t) /\ Goto(t, "drainQueued") /\ UNCHANGED <<op, m_closing>>
  <2>1. Moves(t, "drainQueued", op[t])
    BY <1>7, GotoMoves, Parts
  <2>2. /\ Reads(t, readers[t]) /\ UNCHANGED <<writer, depth>> /\ queue' \in Seq(Threads)
        /\ readers[t] = 0
    BY <1>7, QueuesForLock, Parts
  <2>3. MayMove(t, "drainQueued", op[t])
    BY <1>1, <1>3, <1>4, <2>2, Parts DEF CallFits, MayMove
  <2>4. readers[t] = NormalShare(t) + PlaceShare("drainQueued", op[t])
    BY <1>3 DEF PlaceShare
  <2>5. Counts(t, "drainQueued") /\ ~(readers[t] > readers[t]) /\ ~DrainedAt("drainQueued", op[t])
    BY <1>1, <2>2, CountsSame, Parts DEF DrainedAt
  <2>6. m_closing' = m_closing + Closes(op[t]) - Closes(op[t])
    BY <1>7, Parts DEF Closes
  <2> QED  BY <1>1, <1>2, <2>1, <2>2, <2>3, <2>4, <2>5, <2>6, KeptStep
<1>8. ~(pc[t] = "drain" /\ ~DrainRefused(t) /\ readers[t] > 0)
  BY Parts DEF LockFits, DrainRefused, Level
<1> QED
  BY <1>5, <1>6, <1>7, <1>8 DEF drain

\* Outside, with or without a blockade.
LEMMA Outside ==
    ASSUME PoolInv, NEW t \in Threads, pc[t] \in {"idle", "blockadeQueued"}
    PROVE  /\ op[t] = NoOp /\ readers[t] = NormalShare(t) + 0
           /\ NoOp.callback = "outside" /\ NoOp.handle = NoHandle /\ NoOp.type = "Normal"
           /\ \A place \in {"idle", "blockadeQueued"} :
                 MayMove(t, place, op[t]) /\ PlaceShare(place, op[t]) = 0 /\ ~DrainedAt(place, op[t])
<1> USE DEF Places, Initializing, Flowing, Using, Closing, Waiting
<1>1. op[t] = NoOp /\ op[t] \in Ops
  BY Parts DEF CallFits
<1>2. NoOp.callback = "outside" /\ NoOp.handle = NoHandle /\ NoOp.type = "Normal"
  BY DEF NoOp
<1>3. \A place \in {"idle", "blockadeQueued"} :
         MayMove(t, place, op[t]) /\ PlaceShare(place, op[t]) = 0 /\ ~DrainedAt(place, op[t])
  BY <1>1, <1>2 DEF MayMove, PlaceShare, DrainedAt
<1>4. readers[t] = NormalShare(t) + 0
  BY Parts DEF Shares, PlaceShare
<1> QED
  BY <1>1, <1>2, <1>3, <1>4

\* The write lock comes to a thread that is outside.
LEMMA BlockadeStep ==
    ASSUME PoolInv, NEW t \in Threads, pc[t] \in {"idle", "blockadeQueued"},
           pc' = [pc EXCEPT ![t] = "idle"],
           Concurrency!Own(t) \/ Concurrency!OwnFromQueue(t),
           UNCHANGED <<counter, pool, handleState, op>>
    PROVE  PoolInv'
<1>1. Moves(t, "idle", op[t])
  BY GotoMoves, Parts DEF Goto, Places
<1>2. readers[t] = 0
  BY OwnsLock, Parts DEF Owns
<1>3. NormalShare(t) = 0
  BY <1>2, Outside DEF NormalShare
<1>4. MayMove(t, "idle", op[t]) /\ PlaceShare("idle", op[t]) = 0 /\ ~DrainedAt("idle", op[t])
  BY Outside
<1>5. Quiet /\ UNCHANGED <<m_initialized, m_closing>> /\ pc[t] \notin Calls /\ "idle" \notin Calls
  BY Same DEF Calls
<1> QED
  BY <1>1, <1>3, <1>4, <1>5, OwnedStep

LEMMA blockadeSteps ==
    ASSUME PoolInv, NEW t \in Threads, blockade(t) \/ blockadeGoesOn(t)
    PROVE  PoolInv'
<1>1. CASE blockade(t) /\ Concurrency!Own(t) /\ UNCHANGED pc
  <2>1. pc' = [pc EXCEPT ![t] = "idle"]
    BY <1>1, Parts DEF blockade, TypeOK
  <2> QED  BY <1>1, <2>1, BlockadeStep DEF blockade
<1>2. CASE blockade(t) /\ Concurrency!Enqueue(t) /\ Goto(t, "blockadeQueued")
  <2> DEFINE place == "blockadeQueued"
  <2>1. Moves(t, place, op[t])
    BY <1>2, GotoMoves, Parts DEF blockade, Places
  <2>2. pc[t] = "idle" /\ UNCHANGED <<counter, pool, handleState, op>>
    BY <1>2 DEF blockade
  <2>3. MayMove(t, place, op[t]) /\ PlaceShare(place, op[t]) = 0 /\ ~DrainedAt(place, op[t])
    BY <2>2, Outside
  <2>4. readers[t] = NormalShare(t) + PlaceShare(place, op[t])
    BY <2>2, <2>3, Outside
  <2>5. /\ Reads(t, readers[t]) /\ UNCHANGED <<writer, depth>> /\ queue' \in Seq(Threads)
        /\ readers[t] = 0
    BY <1>2, QueuesForLock, Parts
  <2>6. /\ Quiet /\ Counts(t, place) /\ UNCHANGED m_initialized
        /\ m_closing' = m_closing + Closes(op[t]) - Closes(op[t])
    BY <2>2, Same DEF Calls
  <2>7. ~(readers[t] > readers[t]) /\ place # "initOwned" /\ place \notin {"suspend", "drain"}
    BY <2>5
  <2> HIDE DEF place
  <2> QED  BY <2>1, <2>3, <2>4, <2>5, <2>6, <2>7, KeptStep
<1>3. CASE blockadeGoesOn(t)
  BY <1>3, BlockadeStep DEF blockadeGoesOn, Goto
<1> QED
  BY <1>1, <1>2, <1>3 DEF blockade

LEMMA unblockadeStep ==
    ASSUME PoolInv, NEW t \in Threads, unblockade(t)
    PROVE  PoolInv'
<1>1. /\ pc[t] = "idle" /\ Concurrency!Disown(t)
      /\ UNCHANGED <<counter, pool, handleState, pc, op>>
  BY DEF unblockade
<1>2. Moves(t, "idle", op[t])
  BY <1>1, Parts DEF TypeOK, Moves
<1>3. readers[t] = 0
  BY <1>1, DisownsLock, Parts
<1>4. NormalShare(t) = 0
  BY <1>1, <1>3, Outside DEF NormalShare
<1>5. MayMove(t, "idle", op[t]) /\ PlaceShare("idle", op[t]) = 0 /\ ~DrainedAt("idle", op[t])
  BY <1>1, Outside
<1>6. /\ Quiet /\ UNCHANGED m_initialized /\ pc[t] \notin Calls /\ "idle" \notin Calls
      /\ m_closing' = m_closing + Closes(op[t]) - Closes(op[t])
  BY <1>1, Same DEF Calls
<1> QED
  BY <1>1, <1>2, <1>4, <1>5, <1>6, DisownedStep

-----------------------------------------------------------------------------
(* Steps that change the handles                                           *)

PoolTyped ==
    /\ m_handles \in [Slots -> SUBSET Handles]
    /\ m_frees \in [Slots -> Seq(Handles)]
    /\ referenced \in [Threads -> [Types -> [handle : Handles \cup {NoHandle},
                                           reference : 0 .. MaxReference]]]
    /\ writeHints \subseteq Handles /\ opened \subseteq Handles
    /\ canBeSuspended \subseteq Handles /\ suspended \subseteq Handles

LEMMA AnyStep ==
    ASSUME PoolInv, NEW t \in Threads, NEW place, NEW o, NEW n, Moves(t, place, o), Reads(t, n),
           \A u \in Threads : u # t => referenced'[u] = referenced[u],
           PoolTyped', LockTyped', m_initialized' \in BOOLEAN, total' \in Nat, writers' \in Nat,
           ThreadFits(t)', LockFits', InitializedFits', HandlesFit',
           IsFiniteSet(Counted') /\ total' = Cardinality(Counted'),
           m_closing' = m_closing + Closes(o) - Closes(op[t])
    PROVE  PoolInv'
<1>1. Only(t)
  BY OnlyMoves
<1>2. m_closing' \in Nat /\ IsFiniteSet(Closers') /\ m_closing' = Cardinality(Closers')
  BY ClosersFit
<1>3. TypeOK'
  BY <1>2 DEF TypeOK, PoolTyped, LockTyped, Moves, Reads
<1>4. (\A u \in Threads : ThreadFits(u))'
  BY <1>1, ThreadsFit DEF PoolInv
<1> QED
  BY <1>2, <1>3, <1>4 DEF PoolInv, CountsFit

\* h comes to t, leaves it, or changes its role there; nobody else has it.
LEMMA UsersFit ==
    ASSUME PoolInv, NEW t \in Threads, NEW x \in Types, NEW h \in Handles, Only(t),
           \A y \in Types : y # x => referenced'[t][y] = referenced[t][y],
           op'[t].handle \in {NoHandle, h}, referenced'[t][x].handle \in {NoHandle, h},
           ~(op'[t].handle = h /\ referenced'[t][x].handle = h),
           \A s \in Slots : \A g \in Busy(s) : g # h => g \in Busy(s)' /\ (g \in opened => g \in opened'),
           op'[t].handle = h => h \in Busy(slotOfHandleType(op[t].type))',
           referenced'[t][x].handle = h => h \in opened' /\ h \in Busy(slotOfHandleType(x))',
           \A u \in Threads : u # t => op[u].handle # h,
           \A u \in Threads, y \in Types : referenced[u][y].handle = h => u = t /\ y = x,
           SlotsFit'
    PROVE  HandlesFit'
<1>1. \A u \in Threads : u # t => op'[u] = op[u] /\ referenced'[u] = referenced[u]
  BY DEF Only
<1>2. h # NoHandle
  BY HandlePoolAssumption
<1>3. \A u \in Threads : op'[u].handle = h => u = t
  BY <1>1
<1>4. \A u \in Threads, y \in Types : referenced'[u][y].handle = h => u = t /\ y = x
  BY <1>1
<1>5. \A u \in Threads : op'[u].handle # h /\ op'[u].handle # NoHandle => u # t /\ op'[u] = op[u]
  BY <1>1
<1>6. \A u \in Threads, y \in Types :
         referenced'[u][y].handle # h /\ referenced'[u][y].handle # NoHandle =>
            /\ u # t \/ y # x
            /\ referenced'[u][y] = referenced[u][y]
  BY <1>1
<1>7. ASSUME NEW u \in Threads PROVE CandidateFits(u)'
  <2>1. CASE op'[u].handle = h
    BY <1>3, <2>1 DEF CandidateFits
  <2>2. CASE op'[u].handle # h /\ op'[u].handle # NoHandle
    BY <1>5, <2>2, OpFields, TypeNames DEF CandidateFits, PoolInv, HandlesFit
  <2> QED  BY <2>1, <2>2 DEF CandidateFits
<1>8. ASSUME NEW u \in Threads, NEW y \in Types PROVE UseFits(u, y)'
  <2>1. CASE referenced'[u][y].handle = h
    BY <1>4, <2>1 DEF UseFits
  <2>2. CASE referenced'[u][y].handle # h /\ referenced'[u][y].handle # NoHandle
    BY <1>6, <2>2, TypeNames DEF UseFits, PoolInv, HandlesFit
  <2> QED  BY <2>1, <2>2 DEF UseFits
<1>9. Exclusive'
  <2>1. Exclusive
    BY DEF PoolInv, HandlesFit
  <2>2. ASSUME NEW u \in Threads, NEW v \in Threads, op'[u].handle = op'[v].handle,
               op'[u].handle # NoHandle
        PROVE  u = v
    BY <1>3, <1>5, <2>1, <2>2 DEF Exclusive
  <2>3. ASSUME NEW u \in Threads, NEW v \in Threads, NEW y \in Types,
               referenced'[u][y].handle = op'[v].handle
        PROVE  op'[v].handle = NoHandle
    BY <1>3, <1>4, <1>5, <1>6, <2>1, <2>3 DEF Exclusive
  <2>4. ASSUME NEW u \in Threads, NEW v \in Threads, NEW y \in Types, NEW z \in Types,
               referenced'[u][y].handle = referenced'[v][z].handle,
               referenced'[u][y].handle # NoHandle
        PROVE  u = v /\ y = z
    BY <1>4, <1>6, <2>1, <2>4 DEF Exclusive
  <2> QED  BY <2>2, <2>3, <2>4 DEF Exclusive
<1> QED
  BY <1>7, <1>8, <1>9 DEF HandlesFit

\* A handle that is free or does not exist has no user.
LEMMA NotBusy ==
    ASSUME PoolInv, NEW h \in Handles, \A s \in Slots : h \notin Busy(s)
    PROVE  /\ \A u \in Threads : op[u].handle # h
           /\ \A u \in Threads, y \in Types : referenced[u][y].handle # h
<1>1. h # NoHandle
  BY HandlePoolAssumption
<1>2. ASSUME NEW u \in Threads PROVE op[u].handle # h
  BY <1>1, OpFields, TypeNames DEF PoolInv, HandlesFit, CandidateFits
<1>3. ASSUME NEW u \in Threads, NEW y \in Types PROVE referenced[u][y].handle # h
  BY <1>1, TypeNames DEF PoolInv, HandlesFit, UseFits
<1> QED
  BY <1>2, <1>3

\* Free lists.
Members(list) == {list[i] : i \in DOMAIN list}
Distinct(list) == \A i, j \in DOMAIN list : list[i] = list[j] => i = j

LEMMA ListAppend ==
    ASSUME NEW list \in Seq(Handles), NEW h \in Handles, Distinct(list), h \notin Members(list)
    PROVE  /\ Append(list, h) \in Seq(Handles) /\ Distinct(Append(list, h))
           /\ Members(Append(list, h)) = Members(list) \cup {h}
<1>1. Append(list, h) \in Seq(Handles) /\ Len(list) \in Nat
  OBVIOUS
<1>2. DOMAIN Append(list, h) = 1 .. Len(list) + 1 /\ DOMAIN list = 1 .. Len(list)
  OBVIOUS
<1>3. \A i \in 1 .. Len(list) : Append(list, h)[i] = list[i]
  OBVIOUS
<1>4. Append(list, h)[Len(list) + 1] = h
  OBVIOUS
<1>5. Distinct(Append(list, h))
  BY <1>1, <1>2, <1>3, <1>4 DEF Distinct, Members
<1>6. Members(Append(list, h)) = Members(list) \cup {h}
  BY <1>1, <1>2, <1>3, <1>4 DEF Members
<1> QED
  BY <1>1, <1>5, <1>6

Front1(list) == SubSeq(list, 1, Len(list) - 1)
Last1(list) == list[Len(list)]

LEMMA ListTake ==
    ASSUME NEW list \in Seq(Handles), list # <<>>, Distinct(list)
    PROVE  /\ Front1(list) \in Seq(Handles) /\ Distinct(Front1(list))
           /\ Last1(list) \in Handles
           /\ Members(Front1(list)) = Members(list) \ {Last1(list)}
           /\ Last1(list) \in Members(list)
<1>1. Len(list) \in Nat \ {0} /\ DOMAIN list = 1 .. Len(list)
  OBVIOUS
<1>2. Front1(list) \in Seq(Handles) /\ Len(Front1(list)) = Len(list) - 1
  BY <1>1 DEF Front1
<1>3. DOMAIN Front1(list) = 1 .. Len(list) - 1
  BY <1>1, <1>2
<1>4. \A i \in 1 .. Len(list) - 1 : Front1(list)[i] = list[i]
  BY <1>1 DEF Front1
<1>5. Last1(list) \in Handles /\ Last1(list) \in Members(list)
  BY <1>1 DEF Last1, Members
<1>6. Distinct(Front1(list))
  BY <1>1, <1>3, <1>4 DEF Distinct
<1>7. Members(Front1(list)) = Members(list) \ {Last1(list)}
  BY <1>1, <1>3, <1>4 DEF Members, Last1, Distinct
<1> QED
  BY <1>2, <1>5, <1>6, <1>7

LEMMA SlotFacts ==
    ASSUME PoolInv, NEW s \in Slots
    PROVE  /\ m_frees[s] \in Seq(Handles) /\ Distinct(m_frees[s])
           /\ FreesOf(s) = Members(m_frees[s]) /\ FreesOf(s) \subseteq m_handles[s]
           /\ m_handles[s] \subseteq Handles
           /\ \A r \in Slots : r # s => m_handles[r] \cap m_handles[s] = {}
           /\ FreesOf(s)' = Members(m_frees'[s])
<1>1. m_frees[s] \in Seq(Handles) /\ m_handles[s] \subseteq Handles
  BY DEF PoolInv, TypeOK
<1>2. /\ Distinct(m_frees[s]) /\ FreesOf(s) \subseteq m_handles[s]
      /\ \A r \in Slots : r # s => m_handles[r] \cap m_handles[s] = {}
  BY DEF PoolInv, HandlesFit, SlotsFit, Distinct
<1>3. FreesOf(s) = Members(m_frees[s]) /\ FreesOf(s)' = Members(m_frees'[s])
  BY DEF FreesOf, Members
<1> QED
  BY <1>1, <1>2, <1>3

LEMMA SetHandle ==
    ASSUME NEW r \in Ops, NEW h \in Handles \cup {NoHandle}
    PROVE  /\ [r EXCEPT !.handle = h] \in Ops /\ [r EXCEPT !.handle = h].handle = h
           /\ [r EXCEPT !.handle = h].type = r.type
           /\ [r EXCEPT !.handle = h].callback = r.callback
BY DEF Ops

\* flowOut() has no handle of its type yet.
LEMMA FlowingHasNone ==
    ASSUME PoolInv, NEW t \in Threads, pc[t] \in Flowing
    PROVE  /\ referenced[t][op[t].type] = NoReference /\ readers[t] = NormalShare(t) + 1
           /\ op[t].type = "Normal" => op[t].callback = "outside"
           /\ op[t].callback # "outside" => Drained(t) /\ writer = t /\ referenced[t]["Normal"] = NoReference
           /\ m_initialized
<1> USE DEF Initializing, Flowing, Using, Closing, Waiting
<1>1. referenced[t][op[t].type] = NoReference
  BY Parts DEF CallFits, ReferencesFit
<1>2. readers[t] = NormalShare(t) + 1 /\ readers[t] > 0
  BY Parts DEF Shares, PlaceShare, NormalShare
<1>3. op[t].type = "Normal" => op[t].callback = "outside"
  BY Parts DEF CallFits
<1>4. op[t].callback # "outside" => Drained(t) /\ writer = t /\ referenced[t]["Normal"] = NoReference
  BY Parts DEF CallFits, Drained, DrainedAt, LockFits
<1> QED
  BY <1>1, <1>2, <1>3, <1>4, Parts DEF InitializedFits

LEMMA takeStep ==
    ASSUME PoolInv, NEW t \in Threads, takeFreeHandle(t)
    PROVE  PoolInv'
<1> USE DEF Places, Initializing, Flowing, Using, Closing, Waiting, Calls
<1>0. PICK x \in Types, slot \in Slots : x = op[t].type /\ slot = slotOfHandleType(x)
  BY Parts, TypeNames
<1>6. PICK h : h = Last1(m_frees[slot])
  OBVIOUS
<1> DEFINE o == [op[t] EXCEPT !.handle = h]
<1>1. /\ pc[t] = "take"
      /\ UNCHANGED <<concurrency, counter, m_initialized, m_closing, m_handles, referenced, handleState>>
  BY DEF takeFreeHandle
<1>2. op[t].handle = NoHandle 
  BY <1>1, Parts DEF CallFits
<1>3. \A place : DrainedAt(place, op[t]) => writer = t
  BY <1>1, Parts DEF LockFits, Drained, DrainedAt
<1>4. CASE Goto(t, "generate") /\ UNCHANGED <<m_frees, op>>
  <2>1. MayMove(t, "generate", op[t])
    BY <1>1, <1>2, Parts DEF CallFits, MayMove, Drained, DrainedAt
  <2>2. PlaceShare("generate", op[t]) = PlaceShare(pc[t], op[t])
    BY <1>1 DEF PlaceShare
  <2>3. canBeSuspended' \subseteq Handles /\ suspended' \subseteq Handles /\ UNCHANGED <<writeHints, opened>>
    BY <1>1, Parts DEF handleState
  <2> QED  BY <1>1, <1>3, <1>4, <2>1, <2>2, <2>3, WalkStep DEF pool
<1>5. CASE /\ m_frees[slot] # <<>>
           /\ op' = [op EXCEPT ![t].handle = h]
           /\ m_frees' = [m_frees EXCEPT ![slot] = Front1(m_frees[slot])]
           /\ Goto(t, "reuse")
  <2>1. /\ m_frees[slot] \in Seq(Handles) /\ Distinct(m_frees[slot])
        /\ FreesOf(slot) = Members(m_frees[slot]) /\ FreesOf(slot) \subseteq m_handles[slot]
    BY <1>2, SlotFacts
  <2>2. /\ Front1(m_frees[slot]) \in Seq(Handles) /\ Distinct(Front1(m_frees[slot]))
        /\ Members(Front1(m_frees[slot])) = Members(m_frees[slot]) \ {h}
        /\ h \in Handles /\ h \in Members(m_frees[slot])
    BY <1>5, <1>6, <2>1, ListTake
  <2>3. o \in Ops /\ o.handle = h /\ o.type = op[t].type /\ o.callback = op[t].callback
    BY <2>2, SetHandle, Parts
  <2>4. op \in [Threads -> Ops] /\ m_frees \in [Slots -> Seq(Handles)] /\ h # NoHandle
    BY <2>2, Parts, HandlePoolAssumption DEF TypeOK
  <2>5. op' = [op EXCEPT ![t] = o]
    BY <1>5, <2>4
  <2> HIDE DEF o
  <2>6. Moves(t, "reuse", o)
    BY <1>5, <2>3, <2>5, OpMoves, Parts
  <2>7. Reads(t, readers[t]) /\ UNCHANGED <<writer, depth, queue>>
    BY <1>1, KeepsLock, Parts
  <2>8. Only(t) /\ pc'[t] = "reuse" /\ op'[t] = o /\ readers'[t] = readers[t]
    BY <1>1, <2>6, <2>7, OnlyMoves
  <2>9. m_frees'[slot] = Front1(m_frees[slot]) /\ \A s \in Slots : s # slot => m_frees'[s] = m_frees[s]
    BY <1>2, <1>5, <2>4
  <2>10. \A s \in Slots : FreesOf(s) = Members(m_frees[s]) /\ FreesOf(s)' = Members(m_frees'[s])
    BY SlotFacts
  <2>11. /\ FreesOf(slot)' = FreesOf(slot) \ {h} /\ h \in FreesOf(slot)
         /\ \A s \in Slots : s # slot => FreesOf(s)' = FreesOf(s)
    BY <1>2, <2>1, <2>2, <2>9, <2>10
  <2>12. Busy(slot)' = Busy(slot) \cup {h} /\ \A s \in Slots : s # slot => Busy(s)' = Busy(s)
    BY <1>1, <2>1, <2>11 DEF Busy
  <2>13. \A s \in Slots : h \notin Busy(s)
    BY <1>2, <2>1, <2>11, SlotFacts DEF Busy
  <2>14. SlotsFit'
    <3>1. \A s \in Slots : FreesOf(s)' \subseteq m_handles'[s]
      BY <1>1, <2>11, SlotFacts
    <3>2. \A s \in Slots : Distinct(m_frees'[s])
      BY <2>2, <2>9, SlotFacts
    <3>3. UNCHANGED <<m_handles, opened>>
      BY <1>1 DEF handleState
    <3> QED  BY <3>1, <3>2, <3>3 DEF SlotsFit, Distinct, PoolInv, HandlesFit
  <2>15. referenced[t][x] = NoReference /\ referenced'[t][x].handle = NoHandle
    BY <1>0, <1>1, FlowingHasNone DEF NoReference
  <2>16. HandlesFit'
    <3>1. h \in Busy(slotOfHandleType(op[t].type))'
      <4>1. slotOfHandleType(op'[t].type) = slot
        BY <1>0, <2>3, <2>8
      <4> QED  BY <2>12, <4>1
    <3>2. \A s \in Slots : \A g \in Busy(s) : g \in Busy(s)' /\ (g \in opened => g \in opened')
      BY <1>1, <2>12 DEF handleState
    <3>3. /\ \A u \in Threads : op[u].handle # h
          /\ \A u \in Threads, y \in Types : referenced[u][y].handle # h
      BY <2>2, <2>13, NotBusy
    <3>4. op'[t].handle = h /\ \A y \in Types : referenced'[t][y] = referenced[t][y]
      BY <1>1, <2>3, <2>8
    <3>5. /\ op'[t].handle \in {NoHandle, h} /\ referenced'[t][x].handle \in {NoHandle, h}
          /\ ~(op'[t].handle = h /\ referenced'[t][x].handle = h)
      BY <2>4, <2>15, <3>4
    <3>6. referenced'[t][x].handle = h => h \in opened' /\ h \in Busy(slotOfHandleType(x))'
      BY <2>4, <2>15
    <3>7. h \in Handles
      BY <2>2
    <3> HIDE <1>0, <1>6
    <3> QED  BY <2>8, <2>14, <3>1, <3>2, <3>3, <3>4, <3>5, <3>6, <3>7, UsersFit
  <2>17. ThreadFits(t)'
    <3>1. CallFits(t)'
      BY <1>1, <2>3, <2>4, <2>8, Parts DEF CallFits, Drained, DrainedAt
    <3>2. ReferencesFit(t)'
      BY <1>1, <2>3, <2>8, Parts DEF ReferencesFit
    <3>3. readers'[t] = Shares(t)'
      BY <1>1, <2>3, <2>8, Parts DEF Shares, NormalShare, PlaceShare
    <3> QED  BY <3>1, <3>2, <3>3 DEF ThreadFits
  <2>18. LockFits'
    <3>1. Drained(t)' => writer = t
      BY <1>3, <2>3, <2>8 DEF Drained, DrainedAt
    <3>2. writer # NoThread /\ writer # t => readers'[t] = 0
      BY <2>8, Parts DEF LockFits
    <3> QED  BY <2>7, <2>8, <3>1, <3>2, LockKept
  <2>19. InitializedFits'
    BY <1>1, <2>8, Parts DEF InitializedFits, Only, handleState
  <2>20. IsFiniteSet(Counted') /\ total' = Cardinality(Counted')
    <3>1. total' = total /\ referenced' = referenced
      BY <1>1 DEF counter
    <3> QED  BY <1>1, <2>8, <3>1, CountedSame
  <2>21. PoolTyped' /\ LockTyped' /\ total' \in Nat /\ writers' \in Nat /\ m_initialized' \in BOOLEAN
    BY <1>1, <1>5, <2>2, <2>7, Parts DEF TypeOK, PoolTyped, LockTyped, counter, handleState
  <2>22. m_closing' = m_closing + Closes(o) - Closes(op[t])
    BY <1>1, <2>3, Parts DEF Closes
  <2> QED  BY <1>1, <2>6, <2>7, <2>16, <2>17, <2>18, <2>19, <2>20, <2>21, <2>22, AnyStep
<1> QED
  BY <1>0, <1>4, <1>5, <1>6 DEF takeFreeHandle, Front1, Last1

\* How flowOut() ends with handle h.
HandedOut(t, x, h, place, o, n) ==
    /\ Moves(t, place, o) /\ Reads(t, n) /\ UNCHANGED <<writer, depth, queue>>
    /\ o.handle = NoHandle /\ o.callback = op[t].callback
    /\ referenced'[t][x] = [handle |-> h, reference |-> 1]
    /\ \A y \in Types : y # x => referenced'[t][y] = referenced[t][y]
    /\ \/ x = "Normal" /\ place = "idle" /\ o = NoOp /\ n = readers[t]
       \/ /\ x # "Normal" /\ place \in Using /\ o.type = x
          /\ n = readers[t] + 1 /\ writer \in {t, NoThread}

LEMMA HandOutMoves ==
    ASSUME PoolInv, NEW t \in Threads, NEW x \in Types, x = op[t].type, NEW h \in Handles,
           pc[t] \in {"generate", "reuse"}, HandOut(t, h)
    PROVE  \E place, o, n : HandedOut(t, x, h, place, o, n)
<1> USE DEF Places, Flowing, Using
<1>1. op[t].type = "Normal" => op[t].callback = "outside"
  BY FlowingHasNone
<1>2. referenced'[t][x] = [handle |-> h, reference |-> 1] /\ \A y \in Types : y # x => referenced'[t][y] = referenced[t][y]
  BY Parts DEF HandOut, TypeOK
<1>3. CASE x = "Normal"
  <2>1. Finish(t) /\ UNCHANGED concurrency
    BY <1>3 DEF HandOut
  <2>2. Moves(t, "idle", Bare("outside"))
    BY <1>1, <1>3, <2>1, FinishMoves, Parts
  <2>3. Reads(t, readers[t]) /\ UNCHANGED <<writer, depth, queue>>
    BY <2>1, KeepsLock, Parts
  <2>4. Bare("outside").handle = NoHandle /\ Bare("outside").callback = op[t].callback /\ Bare("outside") = NoOp
    BY <1>1, <1>3, BareOp
  <2>5. HandedOut(t, x, h, "idle", Bare("outside"), readers[t])
    BY <1>2, <1>3, <2>2, <2>3, <2>4 DEF HandedOut
  <2> QED  BY <2>5
<1>4. CASE x # "Normal"
  <2> DEFINE place == CASE op[t].type = "Backup" -> "mark"
                         [] op[t].type = "Migrate" -> "check"
                         [] OTHER -> "work"
             o == [op[t] EXCEPT !.handle = NoHandle]
  <2>1. Concurrency!Share(t) /\ Goto(t, place) /\ op' = [op EXCEPT ![t].handle = NoHandle]
    BY <1>4 DEF HandOut
  <2>2. o \in Ops /\ o.handle = NoHandle /\ o.type = x /\ o.callback = op[t].callback
    BY SetHandle, Parts
  <2>3. op \in [Threads -> Ops]
    BY Parts DEF TypeOK
  <2>4. op' = [op EXCEPT ![t] = o]
    BY <2>1, <2>3
  <2>5. place \in Using /\ place \in Places
    <3>1. CASE op[t].type = "Backup"
      BY <3>1
    <3>2. CASE op[t].type = "Migrate"
      BY <3>2
    <3>3. CASE op[t].type # "Backup" /\ op[t].type # "Migrate"
      BY <3>3
    <3> QED  BY <3>1, <3>2, <3>3
  <2> HIDE DEF place, o
  <2>6. Moves(t, place, o)
    BY <2>1, <2>2, <2>4, <2>5, OpMoves, Parts
  <2>7. Reads(t, readers[t] + 1) /\ UNCHANGED <<writer, depth, queue>> /\ writer \in {t, NoThread}
    BY <2>1, SharesLock, Parts
  <2>8. HandedOut(t, x, h, place, o, readers[t] + 1)
    BY <1>2, <1>4, <2>2, <2>5, <2>6, <2>7 DEF HandedOut
  <2> QED  BY <2>8
<1> QED
  BY <1>3, <1>4

LEMMA HandOutStep ==
    ASSUME PoolInv, NEW t \in Threads, NEW x \in Types, x = op[t].type, NEW h \in Handles,
           pc[t] \in {"generate", "reuse"}, HandOut(t, h),
           UNCHANGED <<counter, m_initialized, m_closing>>,
           NEW place, NEW o, NEW n, HandedOut(t, x, h, place, o, n), HandlesFit',
           m_handles' \in [Slots -> SUBSET Handles], m_frees' \in [Slots -> Seq(Handles)],
           opened' \subseteq Handles
    PROVE  PoolInv'
<1> USE DEF Places, Initializing, Flowing, Using, Closing, Waiting, Calls
<1>1. /\ referenced[t][x] = NoReference /\ readers[t] = NormalShare(t) + 1 /\ m_initialized
      /\ op[t].callback # "outside" => Drained(t) /\ writer = t /\ referenced[t]["Normal"] = NoReference
      /\ x = "Normal" => op[t].callback = "outside"
  BY FlowingHasNone
<1>2. /\ Moves(t, place, o) /\ Reads(t, n) /\ UNCHANGED <<writer, depth, queue>>
      /\ o.handle = NoHandle /\ o.callback = op[t].callback
      /\ referenced'[t][x] = [handle |-> h, reference |-> 1]
      /\ \A y \in Types : y # x => referenced'[t][y] = referenced[t][y]
  BY DEF HandedOut
<1>3. \/ x = "Normal" /\ place = "idle" /\ o = NoOp /\ n = readers[t]
      \/ x # "Normal" /\ place \in Using /\ o.type = x /\ n = readers[t] + 1 /\ writer \in {t, NoThread}
  BY DEF HandedOut
<1>4. \A u \in Threads : u # t => referenced'[u] = referenced[u]
  BY Parts DEF HandOut, TypeOK
<1>5. Only(t) /\ pc'[t] = place /\ op'[t] = o /\ readers'[t] = n
  BY <1>2, <1>4, OnlyMoves
<1>6. referenced'[t][x] # NoReference /\ referenced'[t][x].handle = h /\ referenced'[t][x].reference = 1 /\ h # NoHandle
  BY <1>2, HandlePoolAssumption DEF NoReference
<1>7. NoOp.type = "Normal" /\ NoOp.callback = "outside" /\ NoOp.handle = NoHandle
  BY DEF NoOp
<1>8. o.type = x
  BY <1>3, <1>7
<1>9. ThreadFits(t)'
  <2>1. CallFits(t)'
    <3>1. place = "idle" => o = NoOp
      BY <1>3
    <3>2. place \in Using => x # "Normal"
      BY <1>3
    <3>3. place \in Using \/ place = "idle"
      BY <1>3
    <3>4. place \in Using /\ o.callback # "outside" => referenced'[t]["Normal"] = NoReference
      BY <1>1, <1>2, <3>2, TypeNames
    <3>5. o.callback # "outside" => x = "Vacuum" /\ o.callback = "Vacuum"
      BY <1>2, Parts DEF CallFits
    <3>6. x = "Vacuum" => o.callback = "Vacuum"
      BY <1>2, Parts DEF CallFits
    <3> QED  BY <1>2, <1>5, <1>7, <1>8, <3>1, <3>2, <3>3, <3>4, <3>5, <3>6
             DEF CallFits, Drained, DrainedAt
  <2>2. ReferencesFit(t)'
    <3>1. ASSUME NEW y \in Types
          PROVE  /\ referenced'[t][y] = NoReference
                    \/ (referenced'[t][y].handle # NoHandle /\ referenced'[t][y].reference > 0)
                 /\ y # "Normal" =>
                       (referenced'[t][y] # NoReference <=> place \in Using /\ o.type = y)
      <4>1. CASE y = x
        BY <1>3, <1>6, <1>8, <4>1
      <4>2. CASE y # x
        <5>1. referenced'[t][y] = referenced[t][y]
          BY <1>2, <4>2
        <5> QED  BY <1>8, <4>2, <5>1, Parts DEF ReferencesFit
      <4> QED  BY <4>1, <4>2
    <3> QED  BY <1>5, <3>1 DEF ReferencesFit
  <2>3. readers'[t] = Shares(t)'
    <3>1. CASE x = "Normal"
      <4>1. NormalShare(t) = 0
        BY <1>1, <3>1 DEF NormalShare
      <4>2. NormalShare(t)' = 1
        BY <1>6, <3>1 DEF NormalShare
      <4> QED  BY <1>1, <1>3, <1>5, <3>1, <4>1, <4>2 DEF Shares, PlaceShare
    <3>2. CASE x # "Normal"
      <4>1. NormalShare(t)' = NormalShare(t)
        BY <1>2, <3>2, TypeNames DEF NormalShare
      <4> QED  BY <1>1, <1>3, <1>5, <3>2, <4>1 DEF Shares, PlaceShare, NormalShare
    <3> QED  BY <3>1, <3>2
  <2> QED  BY <2>1, <2>2, <2>3 DEF ThreadFits
<1>10. LockFits'
  <2>1. Drained(t)' => writer = t
    BY <1>1, <1>2, <1>5 DEF Drained, DrainedAt
  <2>2. writer # NoThread /\ writer # t => readers'[t] = 0
    BY <1>3, <1>5, Parts DEF LockFits
  <2>3. pc'[t] # "initOwned" /\ pc'[t] \notin {"suspend", "drain"}
    BY <1>3, <1>5
  <2> QED  BY <1>2, <1>5, <2>1, <2>2, <2>3, LockKept
<1>11. InitializedFits'
  BY <1>1 DEF InitializedFits
<1>12. IsFiniteSet(Counted') /\ total' = Cardinality(Counted')
  <2>1. total' = total /\ pc[t] \in Calls /\ pc'[t] \notin Calls
    BY <1>3, <1>5 DEF counter
  <2> QED  BY <1>1, <1>2, <1>5, <1>6, <2>1, CountedSwap
<1>13. PoolTyped'
  <2>1. [handle |-> h, reference |-> 1] \in [handle : Handles \cup {NoHandle}, reference : 0 .. MaxReference]
    BY HandlePoolAssumption
  <2>2. referenced' \in [Threads -> [Types -> [handle : Handles \cup {NoHandle}, reference : 0 .. MaxReference]]]
    BY <2>1, Parts DEF HandOut, TypeOK
  <2>3. writeHints' \subseteq Handles /\ canBeSuspended' \subseteq Handles /\ suspended' \subseteq Handles
    BY Parts DEF HandOut, TypeOK
  <2> QED  BY <2>2, <2>3 DEF PoolTyped
<1>14. LockTyped' /\ total' \in Nat /\ writers' \in Nat /\ m_initialized' \in BOOLEAN
  BY <1>2, Parts DEF TypeOK, LockTyped, counter
<1>15. m_closing' = m_closing + Closes(o) - Closes(op[t])
  BY <1>2, Parts DEF Closes
<1> QED
  BY <1>2, <1>4, <1>9, <1>10, <1>11, <1>12, <1>13, <1>14, <1>15, AnyStep

\* How flowOut() ends without one.
LEMMA FailsMoves ==
    ASSUME PoolInv, NEW t \in Threads, pc[t] \in {"generate", "reuse"}, FlowOutFails(t)
    PROVE  /\ Only(t) /\ op'[t].handle = NoHandle /\ referenced' = referenced
<1>1. Finish(t) /\ LeaveGuard(t) /\ referenced' = referenced
  BY DEF FlowOutFails
<1>2. readers[t] > 0
  BY FlowingHasNone DEF Flowing, NormalShare
<1>3. Moves(t, Back(op[t]), Bare(op[t].callback)) /\ Reads(t, readers[t] - 1)
  BY <1>1, <1>2, FinishMoves, LeavesLock, Parts DEF Back
<1>4. Bare(op[t].callback).handle = NoHandle
  BY Parts, BareOp
<1> QED
  BY <1>1, <1>3, <1>4, OnlyMoves

LEMMA FailsStep ==
    ASSUME PoolInv, NEW t \in Threads, pc[t] \in {"generate", "reuse"}, FlowOutFails(t),
           UNCHANGED <<m_initialized, m_closing, m_frees, writeHints, canBeSuspended, suspended>>,
           HandlesFit', m_handles' \in [Slots -> SUBSET Handles], opened' \subseteq opened
    PROVE  PoolInv'
<1> USE DEF Places, Initializing, Flowing, Using, Closing, Waiting, Calls
<1> DEFINE o == Bare(op[t].callback)
           n == readers[t] - 1
<1>1. Finish(t) /\ LeaveGuard(t) /\ referenced' = referenced /\ Counter!GiveBack(op[t].hint)
  BY DEF FlowOutFails
<1>2. readers[t] = NormalShare(t) + 1 /\ m_initialized /\ NormalShare(t) \in Nat
  BY FlowingHasNone DEF NormalShare
<1>3. /\ Moves(t, Back(op[t]), o) /\ MayMove(t, Back(op[t]), o)
      /\ PlaceShare(Back(op[t]), o) = 0 /\ Back(op[t]) \notin Calls
      /\ Back(op[t]) \in {"idle", "undrain"}
      /\ Closes(o) = Closes(op[t])
      /\ DrainedAt(Back(op[t]), o) => Drained(t) /\ writer = t
  BY <1>1, Finishes
<1>4. Reads(t, n) /\ UNCHANGED <<writer, depth, queue>>
  BY <1>1, <1>2, LeavesLock, Parts
<1>5. n = NormalShare(t) + PlaceShare(Back(op[t]), o)
  BY <1>2, <1>3
<1> HIDE DEF o
<1>6. Only(t) /\ pc'[t] = Back(op[t]) /\ op'[t] = o /\ readers'[t] = n
  BY <1>1, <1>3, <1>4, OnlyMoves
<1>7. ThreadFits(t)'
  <2>1. \A m : m = NormalShare(t) + PlaceShare(Back(op[t]), o) /\ Reads(t, m) => ThreadFits(t)'
    BY <1>1, <1>3, ThreadMoves
  <2> QED  BY <1>4, <1>5, <2>1
<1>8. LockFits'
  <2>1. Drained(t)' => writer = t
    BY <1>3, <1>6 DEF Drained
  <2>2. writer # NoThread /\ writer # t => readers'[t] = 0
    BY <1>2, Parts DEF LockFits
  <2>3. pc'[t] # "initOwned" /\ pc'[t] \notin {"suspend", "drain"}
    BY <1>3, <1>6
  <2> QED  BY <1>4, <1>6, <2>1, <2>2, <2>3, LockKept
<1>9. InitializedFits'
  BY <1>2 DEF InitializedFits
<1>10. writers \in Nat /\ total \in Nat /\ op[t].hint \in BOOLEAN
  BY Parts, OpFields DEF TypeOK
<1>11. total' \in Nat /\ total' = total - 1
  BY <1>1, <1>10 DEF Counter!GiveBack
<1>12. writers' \in Nat
  BY <1>1, <1>10 DEF Counter!GiveBack
<1>13. IsFiniteSet(Counted') /\ total' = Cardinality(Counted')
  BY <1>1, <1>3, <1>6, <1>11, CountedCall
<1>14. PoolTyped' /\ LockTyped' /\ m_initialized' \in BOOLEAN
  BY <1>1, <1>4, Parts DEF TypeOK, PoolTyped, LockTyped
<1>15. m_closing' = m_closing + Closes(o) - Closes(op[t])
  BY <1>3, Parts DEF Closes
<1> HIDE DEF n
<1> QED
  BY <1>1, <1>3, <1>4, <1>7, <1>8, <1>9, <1>11, <1>12, <1>13, <1>14, <1>15, AnyStep

\* A handle that is in use stays when the free ones are closed.
LEMMA BusyStays ==
    ASSUME PoolInv, NEW s \in Slots, NEW g \in Busy(s)
    PROVE  g \notin FreeHandles
<1>1. g \in m_handles[s] /\ g \notin FreesOf(s)
  BY DEF Busy
<1>2. ASSUME NEW r \in Slots PROVE g \notin FreesOf(r)
  BY <1>1, SlotFacts
<1> QED
  BY <1>2 DEF FreeHandles

LEMMA purgeStep ==
    ASSUME PoolInv, NEW t \in Threads, purge(t)
    PROVE  PoolInv'
<1> DEFINE place == "idle"
<1>1. /\ pc[t] = "idle" /\ CloseFrees(m_handles, {})
      /\ UNCHANGED <<concurrency, counter, m_initialized, m_closing, referenced,
                     writeHints, canBeSuspended, suspended, pc, op>>
  BY DEF purge
<1>2. /\ m_handles' = [s \in Slots |-> m_handles[s] \ FreesOf(s)]
      /\ m_frees' = [s \in Slots |-> <<>>] /\ opened' = opened \ FreeHandles
  BY <1>1 DEF CloseFrees
<1>3. Moves(t, place, op[t])
  BY <1>1, Parts DEF TypeOK, Moves
<1>4. Reads(t, readers[t]) /\ UNCHANGED <<writer, depth, queue>>
  BY <1>1, KeepsLock, Parts
<1>5. Only(t)
  BY <1>1, <1>3, <1>4, OnlyMoves
<1>6. \A s \in Slots : FreesOf(s)' = {} /\ m_handles'[s] = Busy(s) /\ Busy(s)' = Busy(s)
  <2> SUFFICES ASSUME NEW s \in Slots
               PROVE  FreesOf(s)' = {} /\ m_handles'[s] = Busy(s) /\ Busy(s)' = Busy(s)
    OBVIOUS
  <2>1. m_frees'[s] = <<>> /\ m_handles'[s] = m_handles[s] \ FreesOf(s)
    BY <1>2
  <2>2. FreesOf(s)' = {}
    BY <2>1 DEF FreesOf
  <2> QED  BY <2>1, <2>2 DEF Busy
<1>7. SlotsFit'
  <2>1. \A r, s \in Slots : r # s => m_handles'[r] \cap m_handles'[s] = {}
    BY <1>6, SlotFacts DEF Busy
  <2>2. ASSUME NEW h \in opened' PROVE \E s \in Slots : h \in m_handles'[s]
    <3>1. PICK s \in Slots : h \in m_handles[s]
      BY <1>2 DEF PoolInv, HandlesFit, SlotsFit
    <3>2. h \notin FreesOf(s)
      BY <1>2 DEF FreeHandles
    <3> QED  BY <1>6, <3>1, <3>2 DEF Busy
  <2>3. \A s \in Slots : DOMAIN m_frees'[s] = {}
    BY <1>2
  <2> QED  BY <1>6, <2>1, <2>2, <2>3 DEF SlotsFit
<1>8. HandlesFit'
  <2>1. \A s \in Slots : Busy(s) \subseteq Busy(s)' /\ Busy(s) \cap opened \subseteq opened'
    BY <1>2, <1>6, BusyStays
  <2> QED  BY <1>1, <1>5, <1>7, <2>1, QuietHandles
<1>9. ThreadFits(t)' /\ LockFits' /\ InitializedFits'
  <2>1. ThreadFits(t)'
    BY <1>1, <1>4 DEF PoolInv, ThreadFits, CallFits, Drained, DrainedAt, ReferencesFit, Shares, NormalShare, concurrency
  <2>2. LockFits'
    BY <1>1 DEF PoolInv, LockFits, Drained, DrainedAt, concurrency
  <2>3. InitializedFits'
    BY <1>1, <1>2 DEF PoolInv, InitializedFits, concurrency
  <2> QED  BY <2>1, <2>2, <2>3
<1>10. IsFiniteSet(Counted') /\ total' = Cardinality(Counted')
  BY <1>1, <1>5, CountedSame DEF counter
<1>11. PoolTyped' /\ LockTyped' /\ total' \in Nat /\ writers' \in Nat /\ m_initialized' \in BOOLEAN
  <2>1. m_handles' \in [Slots -> SUBSET Handles]
    BY <1>2, SlotFacts
  <2>2. m_frees' \in [Slots -> Seq(Handles)] /\ opened' \subseteq Handles
    BY <1>2, Parts DEF TypeOK
  <2> QED  BY <1>1, <1>4, <2>1, <2>2, Parts DEF TypeOK, PoolTyped, LockTyped, counter
<1>12. m_closing' = m_closing + Closes(op[t]) - Closes(op[t])
  BY <1>1, Parts DEF Closes
<1> HIDE DEF place
<1> QED
  BY <1>1, <1>3, <1>4, <1>8, <1>9, <1>10, <1>11, <1>12, AnyStep

\* The new handle is added, and the free ones may be closed.
LEMMA Generated ==
    ASSUME PoolInv, NEW slot \in Slots, NEW h \in Handles, h \notin AliveHandles,
           NEW handles, handles = [m_handles EXCEPT ![slot] = @ \cup {h}],
           \/ CloseFrees(handles, {h})
           \/ m_handles' = handles /\ opened' = opened \cup {h} /\ UNCHANGED m_frees
    PROVE  /\ Busy(slot)' = Busy(slot) \cup {h}
           /\ \A s \in Slots : s # slot => Busy(s)' = Busy(s)
           /\ \A s \in Slots : h \notin Busy(s)
           /\ \A s \in Slots : \A g \in Busy(s) : g \in opened => g \in opened'
           /\ h \in opened' /\ opened' \subseteq Handles
           /\ m_handles' \in [Slots -> SUBSET Handles] /\ m_frees' \in [Slots -> Seq(Handles)]
           /\ SlotsFit'
<1>1. \A s \in Slots : h \notin m_handles[s] /\ h \notin FreesOf(s) /\ h \notin Busy(s)
  BY SlotFacts DEF AliveHandles, Busy
<1>2. /\ m_handles \in [Slots -> SUBSET Handles] /\ m_frees \in [Slots -> Seq(Handles)]
      /\ opened \subseteq Handles
  BY DEF PoolInv, TypeOK
<1>3. /\ handles[slot] = m_handles[slot] \cup {h}
      /\ \A s \in Slots : s # slot => handles[s] = m_handles[s]
      /\ handles \in [Slots -> SUBSET Handles]
  BY <1>2
<1>4. CASE CloseFrees(handles, {h})
  <2>1. \A s \in Slots : m_handles'[s] = handles[s] \ FreesOf(s) /\ m_frees'[s] = <<>>
    BY <1>4 DEF CloseFrees
  <2>2. opened' = (opened \ FreeHandles) \cup {h}
    BY <1>4 DEF CloseFrees
  <2>3. \A s \in Slots : FreesOf(s)' = {}
    BY <2>1 DEF FreesOf
  <2>4. \A s \in Slots : Busy(s)' = handles[s] \ FreesOf(s)
    BY <2>1, <2>3 DEF Busy
  <2>5. Busy(slot)' = Busy(slot) \cup {h} /\ \A s \in Slots : s # slot => Busy(s)' = Busy(s)
    BY <1>1, <1>3, <2>4 DEF Busy
  <2>6. \A s \in Slots : \A g \in Busy(s) : g \in opened => g \in opened'
    BY <2>2, BusyStays
  <2>7. m_handles' \in [Slots -> SUBSET Handles] /\ m_frees' \in [Slots -> Seq(Handles)]
    BY <1>3, <1>4 DEF CloseFrees
  <2>8. SlotsFit'
    <3>1. \A r, s \in Slots : r # s => handles[r] \cap handles[s] = {}
      BY <1>1, <1>3, SlotFacts
    <3>2. ASSUME NEW g \in opened' PROVE \E s \in Slots : g \in m_handles'[s]
      <4>1. CASE g = h
        BY <1>1, <1>3, <2>1, <4>1
      <4>2. CASE g # h
        <5>1. PICK s \in Slots : g \in m_handles[s]
          BY <2>2, <4>2 DEF PoolInv, HandlesFit, SlotsFit
        <5>2. g \notin FreesOf(s)
          BY <2>2, <4>2 DEF FreeHandles
        <5> QED  BY <1>3, <2>1, <5>1, <5>2
      <4> QED  BY <4>1, <4>2
    <3>3. \A s \in Slots : DOMAIN m_frees'[s] = {}
      BY <2>1
    <3> QED  BY <2>1, <2>3, <3>1, <3>2, <3>3 DEF SlotsFit
  <2> QED  BY <1>1, <1>2, <2>2, <2>5, <2>6, <2>7, <2>8
<1>5. CASE m_handles' = handles /\ opened' = opened \cup {h} /\ UNCHANGED m_frees
  <2>1. \A s \in Slots : FreesOf(s)' = FreesOf(s)
    BY <1>5 DEF FreesOf
  <2>2. Busy(slot)' = Busy(slot) \cup {h} /\ \A s \in Slots : s # slot => Busy(s)' = Busy(s)
    BY <1>1, <1>3, <1>5, <2>1 DEF Busy
  <2>3. SlotsFit'
    <3>1. \A r, s \in Slots : r # s => handles[r] \cap handles[s] = {}
      BY <1>1, <1>3, SlotFacts
    <3>2. ASSUME NEW g \in opened' PROVE \E s \in Slots : g \in handles[s]
      <4>1. CASE g = h
        BY <1>3, <4>1
      <4>2. CASE g # h
        <5>1. PICK s \in Slots : g \in m_handles[s]
          BY <1>5, <4>2 DEF PoolInv, HandlesFit, SlotsFit
        <5> QED  BY <1>3, <5>1
      <4> QED  BY <4>1, <4>2
    <3>3. \A s \in Slots : FreesOf(s)' \subseteq handles[s]
      BY <1>3, <2>1, SlotFacts
    <3>4. \A s \in Slots : \A i, j \in DOMAIN m_frees'[s] : m_frees'[s][i] = m_frees'[s][j] => i = j
      BY <1>5 DEF PoolInv, HandlesFit, SlotsFit
    <3> QED  BY <1>5, <3>1, <3>2, <3>3, <3>4 DEF SlotsFit
  <2> QED  BY <1>1, <1>2, <1>3, <1>5, <2>2, <2>3
<1> QED
  BY <1>4, <1>5

LEMMA generateStep ==
    ASSUME PoolInv, NEW t \in Threads, generateHandle(t)
    PROVE  PoolInv'
<1> USE DEF Flowing
<1>1. pc[t] = "generate" /\ UNCHANGED <<m_initialized, m_closing>>
  BY DEF generateHandle
<1>2. PICK x \in Types, slot \in Slots : x = op[t].type /\ slot = slotOfHandleType(x)
  BY Parts, TypeNames
<1>3. ASSUME NEW h \in Fresh, HandOut(t, h), UNCHANGED counter,
             NEW handles, handles = [m_handles EXCEPT ![slot] = @ \cup {h}],
             \/ CloseFrees(handles, {h})
             \/ m_handles' = handles /\ opened' = opened \cup {h} /\ UNCHANGED m_frees
      PROVE  PoolInv'
  <2>1. h \in Handles /\ h \notin AliveHandles
    BY DEF Fresh, Unused
  <2>2. PICK place, o, n : HandedOut(t, x, h, place, o, n)
    BY <1>1, <1>2, <1>3, <2>1, HandOutMoves
  <2>3. /\ Busy(slot)' = Busy(slot) \cup {h}
        /\ \A s \in Slots : s # slot => Busy(s)' = Busy(s)
        /\ \A s \in Slots : h \notin Busy(s)
        /\ \A s \in Slots : \A g \in Busy(s) : g \in opened => g \in opened'
        /\ h \in opened' /\ opened' \subseteq Handles
        /\ m_handles' \in [Slots -> SUBSET Handles] /\ m_frees' \in [Slots -> Seq(Handles)]
        /\ SlotsFit'
    BY <1>3, <2>1, Generated
  <2>4. HandlesFit'
    <3>1. \A u \in Threads : u # t => referenced'[u] = referenced[u]
      BY <1>3, Parts DEF HandOut, TypeOK
    <3>2. Only(t) /\ op'[t].handle = NoHandle /\ h # NoHandle
      BY <2>1, <2>2, <3>1, OnlyMoves, HandlePoolAssumption DEF HandedOut
    <3>3. referenced'[t][x].handle = h /\ \A y \in Types : y # x => referenced'[t][y] = referenced[t][y]
      BY <2>2 DEF HandedOut
    <3>4. \A s \in Slots : \A g \in Busy(s) : g \in Busy(s)' /\ (g \in opened => g \in opened')
      BY <2>3
    <3>5. h \in opened' /\ h \in Busy(slotOfHandleType(x))'
      BY <1>2, <2>3
    <3>6. /\ \A u \in Threads : op[u].handle # h
          /\ \A u \in Threads, y \in Types : referenced[u][y].handle # h
      BY <2>1, <2>3, NotBusy
    <3>7. SlotsFit'
      BY <2>3
    <3> QED  BY <2>1, <3>2, <3>3, <3>4, <3>5, <3>6, <3>7, UsersFit
  <2> QED  BY <1>1, <1>2, <1>3, <2>1, <2>2, <2>3, <2>4, HandOutStep
<1>4. ASSUME FlowOutFails(t), UNCHANGED <<m_handles, m_frees, handleState>>
      PROVE  PoolInv'
  <2>1. Only(t) /\ op'[t].handle = NoHandle /\ referenced' = referenced
    BY <1>1, <1>4, FailsMoves
  <2>2. UNCHANGED <<m_handles, m_frees, opened, writeHints, canBeSuspended, suspended>>
    BY <1>4 DEF handleState
  <2>3. \A s : FreesOf(s)' = FreesOf(s) /\ Busy(s)' = Busy(s)
    BY <2>2 DEF FreesOf, Busy
  <2>4. SlotsFit'
    BY <2>2, <2>3 DEF SlotsFit, PoolInv, HandlesFit
  <2>5. HandlesFit'
    BY <2>1, <2>2, <2>3, <2>4, QuietHandles
  <2>6. m_handles' \in [Slots -> SUBSET Handles] /\ opened' \subseteq opened
    BY <2>2, Parts DEF TypeOK
  <2> QED  BY <1>1, <1>4, <2>2, <2>5, <2>6, FailsStep
<1> QED
  BY <1>2, <1>3, <1>4 DEF generateHandle

LEMMA reuseStep ==
    ASSUME PoolInv, NEW t \in Threads, reuseHandle(t)
    PROVE  PoolInv'
<1> USE DEF Flowing
<1>1. pc[t] = "reuse" /\ UNCHANGED <<m_initialized, m_closing, m_frees>>
  BY DEF reuseHandle
<1>2. PICK x \in Types, slot \in Slots : x = op[t].type /\ slot = slotOfHandleType(x)
  BY Parts, TypeNames
<1>3. PICK h \in Handles : h = op[t].handle
  BY <1>1, Parts, OpFields DEF CallFits
<1>4. h # NoHandle /\ h \in Busy(slot) /\ referenced[t][x] = NoReference
  <2>1. h # NoHandle /\ referenced[t][x] = NoReference
    BY <1>1, <1>2, HandlePoolAssumption, FlowingHasNone
  <2>2. CandidateFits(t)
    BY DEF PoolInv, HandlesFit
  <2> QED  BY <1>2, <1>3, <2>1, <2>2 DEF CandidateFits
<1>5. /\ \A u \in Threads : u # t => op[u].handle # h
      /\ \A u \in Threads, y \in Types : referenced[u][y].handle # h
  BY <1>3, <1>4 DEF PoolInv, HandlesFit, Exclusive
<1>6. ASSUME HandOut(t, h), opened' = opened \cup {h}, UNCHANGED <<counter, m_handles>>
      PROVE  PoolInv'
  <2>1. PICK place, o, n : HandedOut(t, x, h, place, o, n)
    BY <1>1, <1>2, <1>6, HandOutMoves
  <2>2. \A s : FreesOf(s)' = FreesOf(s) /\ Busy(s)' = Busy(s)
    BY <1>1, <1>6 DEF FreesOf, Busy
  <2>3. h \in m_handles[slot]
    BY <1>4 DEF Busy
  <2>4. SlotsFit'
    BY <1>1, <1>6, <2>2, <2>3 DEF SlotsFit, PoolInv, HandlesFit
  <2>5. HandlesFit'
    <3>1. \A u \in Threads : u # t => referenced'[u] = referenced[u]
      BY <1>6, Parts DEF HandOut, TypeOK
    <3>2. Only(t) /\ op'[t].handle = NoHandle
      BY <2>1, <3>1, OnlyMoves DEF HandedOut
    <3>3. referenced'[t][x].handle = h /\ \A y \in Types : y # x => referenced'[t][y] = referenced[t][y]
      BY <2>1 DEF HandedOut
    <3>4. \A s \in Slots : \A g \in Busy(s) : g \in Busy(s)' /\ (g \in opened => g \in opened')
      BY <1>6, <2>2
    <3>5. h \in opened' /\ h \in Busy(slotOfHandleType(x))'
      BY <1>2, <1>4, <1>6, <2>2
    <3> QED  BY <1>4, <1>5, <2>4, <3>2, <3>3, <3>4, <3>5, UsersFit
  <2>6. /\ m_handles' \in [Slots -> SUBSET Handles] /\ m_frees' \in [Slots -> Seq(Handles)]
        /\ opened' \subseteq Handles
    BY <1>1, <1>6, Parts DEF TypeOK
  <2> QED  BY <1>1, <1>2, <1>6, <2>1, <2>5, <2>6, HandOutStep
<1>7. ASSUME FlowOutFails(t), opened' = opened \ {h}, m_handles' = [m_handles EXCEPT ![slot] = @ \ {h}],
             UNCHANGED <<writeHints, canBeSuspended, suspended>>
      PROVE  PoolInv'
  <2>1. Only(t) /\ op'[t].handle = NoHandle /\ referenced' = referenced
    BY <1>1, <1>7, FailsMoves
  <2>2. m_handles \in [Slots -> SUBSET Handles]
    BY Parts DEF TypeOK
  <2>3. /\ m_handles'[slot] = m_handles[slot] \ {h}
        /\ \A s \in Slots : s # slot => m_handles'[s] = m_handles[s]
        /\ m_handles' \in [Slots -> SUBSET Handles]
    BY <1>7, <2>2
  <2>4. \A s \in Slots : FreesOf(s)' = FreesOf(s)
    BY <1>1 DEF FreesOf
  <2>5. \A s \in Slots : \A g \in Busy(s) : g # h => g \in Busy(s)' /\ (g \in opened => g \in opened')
    BY <1>7, <2>3, <2>4 DEF Busy
  <2>6. SlotsFit'
    <3>1. \A r, s \in Slots : r # s => m_handles'[r] \cap m_handles'[s] = {}
      BY <2>3, SlotFacts
    <3>2. ASSUME NEW g \in opened' PROVE \E s \in Slots : g \in m_handles'[s]
      <4>1. PICK s \in Slots : g \in m_handles[s]
        BY <1>7 DEF PoolInv, HandlesFit, SlotsFit
      <4> QED  BY <1>7, <2>3, <4>1
    <3>3. \A s \in Slots : FreesOf(s)' \subseteq m_handles'[s]
      BY <1>4, <2>3, <2>4, SlotFacts DEF Busy
    <3>4. \A s \in Slots : \A i, j \in DOMAIN m_frees'[s] : m_frees'[s][i] = m_frees'[s][j] => i = j
      BY <1>1 DEF PoolInv, HandlesFit, SlotsFit
    <3> QED  BY <3>1, <3>2, <3>3, <3>4 DEF SlotsFit
  <2>7. HandlesFit'
    <3>1. referenced'[t][x].handle = NoHandle /\ \A y \in Types : referenced'[t][y] = referenced[t][y]
      BY <1>4, <2>1 DEF NoReference
    <3> QED  BY <1>4, <1>5, <2>1, <2>5, <2>6, <3>1, UsersFit
  <2>8. opened' \subseteq opened
    BY <1>7
  <2> QED  BY <1>1, <1>7, <2>3, <2>7, <2>8, FailsStep
<1> QED
  BY <1>2, <1>3, <1>6, <1>7 DEF reuseHandle

WithCall(r, x, b) == [[r EXCEPT !.type = x] EXCEPT !.hint = b]

LEMMA SetCall ==
    ASSUME NEW r \in Ops, NEW x \in Types, NEW b \in BOOLEAN
    PROVE  /\ WithCall(r, x, b) \in Ops /\ WithCall(r, x, b).handle = r.handle
           /\ WithCall(r, x, b).type = x /\ WithCall(r, x, b).callback = r.callback
BY DEF Ops, WithCall

\* A handle in use goes to the end of its free list.
LEMMA Returned ==
    ASSUME PoolInv, NEW slot \in Slots, NEW h \in Busy(slot),
           m_frees' = [m_frees EXCEPT ![slot] = Append(m_frees[slot], h)],
           UNCHANGED <<m_handles, opened>>
    PROVE  /\ Busy(slot)' = Busy(slot) \ {h} /\ \A s \in Slots : s # slot => Busy(s)' = Busy(s)
           /\ SlotsFit' /\ m_frees' \in [Slots -> Seq(Handles)]
<1>1. h \in Handles
  BY SlotFacts DEF Busy
<1>2. h \in m_handles[slot] /\ h \notin FreesOf(slot)
  BY DEF Busy
<1>3. m_frees \in [Slots -> Seq(Handles)]
  BY DEF PoolInv, TypeOK
<1>4. /\ m_frees[slot] \in Seq(Handles) /\ Distinct(m_frees[slot])
      /\ FreesOf(slot) = Members(m_frees[slot])
  BY SlotFacts
<1>5. /\ Append(m_frees[slot], h) \in Seq(Handles) /\ Distinct(Append(m_frees[slot], h))
      /\ Members(Append(m_frees[slot], h)) = Members(m_frees[slot]) \cup {h}
  BY <1>1, <1>2, <1>4, ListAppend
<1>6. /\ m_frees'[slot] = Append(m_frees[slot], h)
      /\ \A s \in Slots : s # slot => m_frees'[s] = m_frees[s]
      /\ m_frees' \in [Slots -> Seq(Handles)]
  BY <1>3, <1>5
<1>7. \A s \in Slots : FreesOf(s) = Members(m_frees[s]) /\ FreesOf(s)' = Members(m_frees'[s])
  BY SlotFacts
<1>8. /\ FreesOf(slot)' = FreesOf(slot) \cup {h}
      /\ \A s \in Slots : s # slot => FreesOf(s)' = FreesOf(s)
  BY <1>5, <1>6, <1>7
<1>9. Busy(slot)' = Busy(slot) \ {h} /\ \A s \in Slots : s # slot => Busy(s)' = Busy(s)
  BY <1>8 DEF Busy
<1>10. SlotsFit'
  <2>1. \A s \in Slots : FreesOf(s)' \subseteq m_handles'[s]
    BY <1>2, <1>8, SlotFacts
  <2>2. \A s \in Slots : Distinct(m_frees'[s])
    BY <1>5, <1>6, SlotFacts
  <2> QED  BY <2>1, <2>2 DEF SlotsFit, Distinct, PoolInv, HandlesFit
<1> QED
  BY <1>6, <1>9, <1>10

LEMMA FlowBackStep ==
    ASSUME PoolInv, NEW t \in Threads, NEW x \in Types, referenced[t][x] # NoReference,
           \/ pc[t] = "idle" /\ x = "Normal"
           \/ pc[t] = "recycle" /\ x = op[t].type,
           FlowBack(t, x)
    PROVE  PoolInv'
<1> USE DEF Places, Initializing, Flowing, Using, Closing, Waiting, Calls
<1>1. PICK slot \in Slots : slot = slotOfHandleType(x)
  BY TypeNames
<1>2. PICK h \in Handles : h = referenced[t][x].handle
  BY References
<1>3. PICK b \in BOOLEAN : b = (h \in writeHints)
  <2>1. (h \in writeHints) \in BOOLEAN
    OBVIOUS
  <2> QED  BY <2>1, Zenon
<1> DEFINE o == WithCall(op[t], x, b)
<1>4. /\ referenced' = [referenced EXCEPT ![t][x] = NoReference]
      /\ m_frees' = [m_frees EXCEPT ![slot] = Append(@, h)]
      /\ writeHints' = writeHints \ {h}
      /\ op' = [op EXCEPT ![t].type = x, ![t].hint = b]
      /\ Concurrency!Unshare(t)
      /\ Goto(t, "decrease")
      /\ UNCHANGED <<counter, m_initialized, m_closing, m_handles, opened, canBeSuspended, suspended>>
  BY <1>1, <1>2, <1>3 DEF FlowBack
<1>5. o \in Ops /\ o.handle = op[t].handle /\ o.type = x /\ o.callback = op[t].callback
  BY SetCall, Parts
<1>6. op' = [op EXCEPT ![t] = o]
  BY <1>4, Parts DEF TypeOK, WithCall
<1> HIDE DEF o
<1>7. Moves(t, "decrease", o)
  BY <1>4, <1>5, <1>6, OpMoves, Parts
<1>8. referenced \in [Threads -> [Types -> [handle : Handles \cup {NoHandle}, reference : 0 .. MaxReference]]]
  BY Parts DEF TypeOK
<1>9. /\ referenced'[t][x] = NoReference
      /\ \A y \in Types : y # x => referenced'[t][y] = referenced[t][y]
      /\ \A u \in Threads : u # t => referenced'[u] = referenced[u]
  BY <1>4, <1>8
<1>10. readers[t] > 0
  BY <1>4 DEF Concurrency!Unshare
<1>11. Reads(t, readers[t] - 1) /\ UNCHANGED <<writer, depth, queue>>
  BY <1>4, <1>10, LeavesLock, Parts
<1>12. Only(t) /\ pc'[t] = "decrease" /\ op'[t] = o /\ readers'[t] = readers[t] - 1
  BY <1>7, <1>9, <1>11, OnlyMoves
<1>13. op[t].handle = NoHandle /\ (pc[t] = "idle" => op[t].callback = "outside")
  BY Parts DEF CallFits, NoOp
<1>14. ThreadFits(t)'
  <2>1. op[t].callback # "outside" => x = "Vacuum" /\ op[t].callback = "Vacuum" /\ referenced[t]["Normal"] = NoReference
    BY <1>13, Parts DEF CallFits, Drained, DrainedAt
  <2>2. x = "Vacuum" => op[t].callback = "Vacuum"
    BY Parts DEF CallFits
  <2>3. CallFits(t)'
    BY <1>5, <1>9, <1>12, <1>13, <2>1, <2>2, TypeNames DEF CallFits, Drained, DrainedAt
  <2>4. ReferencesFit(t)'
    <3>1. ASSUME NEW y \in Types
          PROVE  /\ referenced'[t][y] = NoReference
                    \/ (referenced'[t][y].handle # NoHandle /\ referenced'[t][y].reference > 0)
                 /\ y # "Normal" => referenced'[t][y] = NoReference
      <4>1. CASE y # x
        BY <1>9, <4>1, Parts DEF ReferencesFit
      <4> QED  BY <1>9, <4>1
    <3> QED  BY <1>12, <3>1 DEF ReferencesFit
  <2>5. readers'[t] = Shares(t)'
    <3>1. CASE pc[t] = "idle" /\ x = "Normal"
      <4>1. NormalShare(t) = 1
        BY <3>1 DEF NormalShare
      <4>2. NormalShare(t)' = 0
        BY <1>9, <3>1 DEF NormalShare
      <4> QED  BY <1>5, <1>12, <3>1, <4>1, <4>2, Parts DEF Shares, PlaceShare
    <3>2. CASE pc[t] = "recycle" /\ x = op[t].type
      <4>1. x # "Normal"
        BY <3>2, Parts DEF CallFits
      <4>2. NormalShare(t)' = NormalShare(t) /\ NormalShare(t) \in Nat
        BY <1>9, <4>1, TypeNames DEF NormalShare
      <4> QED  BY <1>5, <1>12, <3>2, <4>1, <4>2, Parts DEF Shares, PlaceShare
    <3> QED  BY <3>1, <3>2
  <2> QED  BY <2>3, <2>4, <2>5 DEF ThreadFits
<1>15. LockFits'
  <2>1. Drained(t)' => writer = t
    BY <1>5, <1>12, <1>13, Parts DEF LockFits, Drained, DrainedAt
  <2>2. writer # NoThread /\ writer # t => readers'[t] = 0
    BY <1>10, Parts DEF LockFits
  <2>3. pc'[t] # "initOwned" /\ pc'[t] \notin {"suspend", "drain"}
    BY <1>12
  <2> QED  BY <1>11, <1>12, <2>1, <2>2, <2>3, LockKept
<1>16. InitializedFits'
  <2>1. m_initialized
    BY <1>10, Parts DEF InitializedFits
  <2> QED  BY <1>4, <2>1 DEF InitializedFits
<1>17. IsFiniteSet(Counted') /\ total' = Cardinality(Counted')
  <2>1. total' = total /\ pc[t] \notin Calls /\ pc'[t] \in Calls
    BY <1>4, <1>12 DEF counter
  <2> QED  BY <1>9, <1>12, <2>1, CountedSwap
<1>22. h \in Busy(slot)
  BY <1>1, <1>2, HandlePoolAssumption DEF PoolInv, HandlesFit, UseFits
<1>18. HandlesFit'
  <2>1. /\ \A s \in Slots : \A g \in Busy(s) : g # h => g \in Busy(s)'
        /\ SlotsFit' /\ m_frees' \in [Slots -> Seq(Handles)]
    <3>1. UNCHANGED <<m_handles, opened>>
      BY <1>4
    <3>2. m_frees' = [m_frees EXCEPT ![slot] = Append(m_frees[slot], h)]
      BY <1>4
    <3>3. h \in Busy(slot)
      BY <1>22
    <3>4. /\ Busy(slot)' = Busy(slot) \ {h} /\ \A s \in Slots : s # slot => Busy(s)' = Busy(s)
          /\ SlotsFit' /\ m_frees' \in [Slots -> Seq(Handles)]
      BY <3>1, <3>2, <3>3, Returned
    <3> QED  BY <3>4
  <2>2. op'[t].handle = NoHandle /\ referenced'[t][x].handle = NoHandle /\ h # NoHandle
    BY <1>5, <1>9, <1>12, <1>13, HandlePoolAssumption DEF NoReference
  <2>3. \A u \in Threads : op[u].handle # h
    BY <1>2, <2>2 DEF PoolInv, HandlesFit, Exclusive
  <2>4. \A u \in Threads, y \in Types : referenced[u][y].handle = h => u = t /\ y = x
    BY <1>2, <2>2 DEF PoolInv, HandlesFit, Exclusive
  <2>5. \A s \in Slots : \A g \in Busy(s) : g # h => g \in Busy(s)' /\ (g \in opened => g \in opened')
    BY <1>4, <2>1
  <2> QED  BY <1>9, <1>12, <2>1, <2>2, <2>3, <2>4, <2>5, UsersFit
<1>19. PoolTyped'
  <2>1. m_frees' \in [Slots -> Seq(Handles)]
    BY <1>4, <1>22, Returned
  <2>2. NoReference \in [handle : Handles \cup {NoHandle}, reference : 0 .. MaxReference]
    BY HandlePoolAssumption DEF NoReference
  <2>3. referenced' \in [Threads -> [Types -> [handle : Handles \cup {NoHandle}, reference : 0 .. MaxReference]]]
    BY <1>4, <1>8, <2>2
  <2> QED  BY <1>4, <2>1, <2>3, Parts DEF PoolTyped, TypeOK
<1>20. LockTyped' /\ total' \in Nat /\ writers' \in Nat /\ m_initialized' \in BOOLEAN
  BY <1>4, <1>11, Parts DEF TypeOK, LockTyped, counter
<1>21. m_closing' = m_closing + Closes(o) - Closes(op[t])
  BY <1>4, <1>5, Parts DEF Closes
<1> QED
  BY <1>7, <1>9, <1>11, <1>14, <1>15, <1>16, <1>17, <1>18, <1>19, <1>20, <1>21, AnyStep

\* A reference more or less to a handle that is in use.
LEMMA CountReferences ==
    ASSUME PoolInv, NEW t \in Threads, referenced[t]["Normal"].reference > 0,
           NEW k \in 1 .. MaxReference, referenced' = [referenced EXCEPT ![t]["Normal"].reference = k],
           UNCHANGED <<concurrency, counter, m_initialized, m_closing, m_handles, m_frees,
                       handleState, pc, op>>
    PROVE  PoolInv'
<1> DEFINE Refs == [handle : Handles \cup {NoHandle}, reference : 0 .. MaxReference]
<1>1. referenced \in [Threads -> [Types -> Refs]] /\ "Normal" \in Types
  BY TypeNames, Parts DEF TypeOK
<1>0. PICK r : r = [referenced[t]["Normal"] EXCEPT !.reference = k]
  OBVIOUS
<1>15. /\ r \in Refs /\ r.handle = referenced[t]["Normal"].handle /\ r.reference = k
  BY <1>0, <1>1, HandlePoolAssumption
<1>16. referenced' = [referenced EXCEPT ![t] = [referenced[t] EXCEPT !["Normal"] = r]]
  BY <1>0, <1>1
<1> HIDE DEF Refs
<1>2. /\ referenced'[t]["Normal"].handle = referenced[t]["Normal"].handle
      /\ referenced'[t]["Normal"].reference = k
      /\ \A y \in Types : y # "Normal" => referenced'[t][y] = referenced[t][y]
      /\ \A u \in Threads : u # t => referenced'[u] = referenced[u]
      /\ referenced' \in [Threads -> [Types -> Refs]]
  BY <1>1, <1>15, <1>16
<1>3. referenced[t]["Normal"] # NoReference /\ referenced[t]["Normal"].handle # NoHandle
  BY <1>1, References
<1>4. referenced'[t]["Normal"] # NoReference
  BY <1>2, <1>3 DEF NoReference
<1>5. \A y \in Types : /\ referenced'[t][y].handle = referenced[t][y].handle
                       /\ referenced[t][y] = NoReference <=> referenced'[t][y] = NoReference
  BY <1>2, <1>3, <1>4
<1>6. Moves(t, pc[t], op[t]) /\ UNCHANGED <<readers, writer, depth, queue, pc, op, opened>>
  BY Parts DEF TypeOK, Moves, concurrency, handleState
<1>7. Reads(t, readers[t])
  BY KeepsLock, Parts
<1>8. Only(t)
  BY <1>2, <1>6, <1>7, OnlyMoves
<1>9. ThreadFits(t)'
  <2>1. CallFits(t)'
    BY <1>1, <1>5, <1>6, Parts DEF CallFits, Drained, DrainedAt
  <2>2. ReferencesFit(t)'
    <3>1. \A y \in Types :
             /\ referenced'[t][y] = NoReference
                \/ (referenced'[t][y].handle # NoHandle /\ referenced'[t][y].reference > 0)
             /\ y # "Normal" => referenced'[t][y] = referenced[t][y]
      BY <1>2, <1>3, Parts DEF ReferencesFit
    <3> QED  BY <1>6, <3>1, Parts DEF ReferencesFit
  <2>3. readers'[t] = Shares(t)'
    BY <1>1, <1>5, <1>6, Parts DEF Shares, NormalShare
  <2> QED  BY <2>1, <2>2, <2>3 DEF ThreadFits
<1>10. LockFits' /\ InitializedFits'
  <2>1. LockFits'
    BY <1>6 DEF PoolInv, LockFits, Drained, DrainedAt
  <2>2. InitializedFits'
    BY <1>6 DEF PoolInv, InitializedFits
  <2> QED  BY <2>1, <2>2
<1>11. HandlesFit'
  <2>1. \A s : FreesOf(s)' = FreesOf(s) /\ Busy(s)' = Busy(s)
    BY DEF FreesOf, Busy
  <2>2. SlotsFit'
    BY <1>6, <2>1 DEF SlotsFit, PoolInv, HandlesFit
  <2> QED  BY <1>5, <1>6, <1>8, <2>1, <2>2, QuietHandles
<1>12. IsFiniteSet(Counted') /\ total' = Cardinality(Counted')
  BY <1>5, <1>6, <1>8, CountedSame DEF counter
<1>13. PoolTyped' /\ LockTyped' /\ total' \in Nat /\ writers' \in Nat /\ m_initialized' \in BOOLEAN
  BY <1>2, <1>6, Parts DEF TypeOK, PoolTyped, LockTyped, counter, handleState, Refs
<1>14. m_closing' = m_closing + Closes(op[t]) - Closes(op[t])
  BY Parts DEF Closes
<1> QED
  BY <1>2, <1>6, <1>7, <1>9, <1>10, <1>11, <1>12, <1>13, <1>14, AnyStep

LEMMA flowOutAgainStep ==
    ASSUME PoolInv, NEW t \in Threads, flowOutAgain(t)
    PROVE  PoolInv'
<1>1. "Normal" \in Types
  BY TypeNames
<1>2. PICK k : k = referenced[t]["Normal"].reference + 1
  OBVIOUS
<1>3. referenced[t]["Normal"].reference > 0 /\ k \in 1 .. MaxReference
  BY <1>2, HandlePoolAssumption DEF flowOutAgain
<1>4. referenced' = [referenced EXCEPT ![t]["Normal"].reference = k]
  BY <1>1, <1>2, Parts DEF flowOutAgain, TypeOK
<1> QED
  BY <1>3, <1>4, CountReferences DEF flowOutAgain

LEMMA recycleSteps ==
    ASSUME PoolInv, NEW t \in Threads, recycleHandle(t) \/ recycleTask(t)
    PROVE  PoolInv'
<1>1. "Normal" \in Types
  BY TypeNames
<1>2. CASE pc[t] = "idle" /\ referenced[t]["Normal"].reference = 1 /\ FlowBack(t, "Normal")
  <2>1. referenced[t]["Normal"] # NoReference
    BY <1>2 DEF NoReference
  <2> QED  BY <1>1, <1>2, <2>1, FlowBackStep
<1>3. CASE /\ pc[t] = "idle" /\ referenced[t]["Normal"].reference > 1
           /\ referenced' = [referenced EXCEPT ![t]["Normal"].reference = @ - 1]
           /\ UNCHANGED <<concurrency, counter, m_initialized, m_closing, m_handles, m_frees,
                          handleState, pc, op>>
  <2>1. PICK k : k = referenced[t]["Normal"].reference - 1
    OBVIOUS
  <2>2. referenced[t]["Normal"].reference > 0 /\ k \in 1 .. MaxReference
    BY <1>1, <1>3, <2>1, References, HandlePoolAssumption
  <2>3. referenced' = [referenced EXCEPT ![t]["Normal"].reference = k]
    BY <1>1, <1>3, <2>1, Parts DEF TypeOK
  <2> QED  BY <1>3, <2>2, <2>3, CountReferences
<1>4. CASE recycleTask(t)
  <2>1. PICK x \in Types : x = op[t].type
    BY Parts
  <2>2. referenced[t][x] # NoReference
    BY <1>4, <2>1, UsesHandle DEF recycleTask, Using
  <2>3. pc[t] = "recycle" /\ FlowBack(t, x)
    BY <1>4, <2>1 DEF recycleTask
  <2> QED  BY <2>1, <2>2, <2>3, FlowBackStep
<1> QED
  BY <1>2, <1>3, <1>4 DEF recycleHandle

-----------------------------------------------------------------------------
(* The pool is drained                                                     *)

\* While a thread owns m_concurrency and shares nothing, nobody has a handle or
\* is on the way to one.
LEMMA NobodyUses ==
    ASSUME PoolInv, NEW t \in Threads, writer = t, readers[t] = 0, NEW u \in Threads
    PROVE  /\ readers[u] = 0 /\ op[u].handle = NoHandle /\ pc[u] \notin Flowing \cup Using
           /\ \A x \in Types : referenced[u][x] = NoReference
<1> USE DEF Flowing, Using
<1>1. readers[u] = 0
  BY Parts, HandlePoolAssumption DEF LockFits
<1>2. NormalShare(u) = 0 /\ pc[u] \notin Flowing \cup Using
  BY <1>1, Parts DEF Shares, PlaceShare, NormalShare
<1>3. referenced[u]["Normal"] = NoReference
  BY <1>2 DEF NormalShare
<1>4. op[u].handle = NoHandle
  BY <1>2, Parts DEF CallFits
<1>5. ASSUME NEW x \in Types PROVE referenced[u][x] = NoReference
  BY <1>2, <1>3, Parts DEF ReferencesFit
<1> QED
  BY <1>1, <1>2, <1>4, <1>5

\* The thread that closes, before and after its callback.
LEMMA Closer ==
    ASSUME PoolInv, NEW t \in Threads, pc[t] \in {"clear", "undrain"}
    PROVE  /\ readers[t] = 0 /\ writer = t /\ NormalShare(t) = 0 /\ Drained(t)
           /\ op[t].callback \in {"none", "Vacuum"} /\ op[t].type = "Normal" /\ op[t].handle = NoHandle
<1> USE DEF Flowing, Using, Closing, Waiting
<1>1. /\ op[t].callback \in {"none", "Vacuum"} /\ op[t].type = "Normal" /\ op[t].handle = NoHandle
      /\ Drained(t)
  BY Parts DEF CallFits, Drained, DrainedAt
<1>2. NormalShare(t) = 0
  BY <1>1, Parts DEF CallFits, NormalShare
<1>3. readers[t] = 0 /\ writer = t
  BY <1>1, <1>2, Parts DEF Shares, PlaceShare, LockFits
<1> QED
  BY <1>1, <1>2, <1>3

LEMMA Cleared ==
    ASSUME PoolInv, ClearAllHandles
    PROVE  /\ SlotsFit' /\ opened' = {} /\ m_initialized' = FALSE
           /\ m_handles' \in [Slots -> SUBSET Handles] /\ m_frees' \in [Slots -> Seq(Handles)]
<1>1. opened' = {}
  BY DEF ClearAllHandles, AliveHandles, PoolInv, HandlesFit, SlotsFit
<1>2. \A s \in Slots : m_handles'[s] = {} /\ m_frees'[s] = <<>> /\ DOMAIN m_frees'[s] = {}
  BY DEF ClearAllHandles
<1>3. \A s \in Slots : FreesOf(s)' = {}
  BY <1>2 DEF FreesOf
<1>4. SlotsFit'
  BY <1>1, <1>2, <1>3 DEF SlotsFit
<1>5. m_handles' \in [Slots -> SUBSET Handles] /\ m_frees' \in [Slots -> Seq(Handles)]
  BY DEF ClearAllHandles
<1> QED
  BY <1>1, <1>4, <1>5 DEF ClearAllHandles

LEMMA ClearStep ==
    ASSUME PoolInv, NEW t \in Threads, pc[t] \in {"clear", "undrain"}, ClearAllHandles,
           NEW place, NEW o, MayMove(t, place, o), Moves(t, place, o), Reads(t, 0),
           PlaceShare(place, o) = 0, place \notin Calls, LockFits', LockTyped',
           UNCHANGED <<counter, referenced, writeHints, canBeSuspended, suspended>>,
           m_closing' = m_closing + Closes(o) - Closes(op[t])
    PROVE  PoolInv'
<1>1. readers[t] = 0 /\ writer = t /\ NormalShare(t) = 0
  BY Closer
<1>2. Only(t) /\ pc'[t] = place /\ op'[t] = o /\ readers'[t] = 0
  BY OnlyMoves
<1>3. ThreadFits(t)'
  BY <1>1, ThreadMoves
<1>4. \A u \in Threads : readers[u] = 0 /\ op[u].handle = NoHandle
  BY <1>1, NobodyUses
<1>5. \A u \in Threads, x \in Types : referenced'[u][x].handle = NoHandle
  BY <1>1, NobodyUses DEF NoReference
<1>6. \A u \in Threads : readers'[u] = 0 /\ op'[u].handle = NoHandle
  <2>1. o.handle = NoHandle
    BY DEF MayMove
  <2> QED  BY <1>2, <1>4, <2>1 DEF Only
<1>7. /\ SlotsFit' /\ opened' = {} /\ m_initialized' = FALSE
      /\ m_handles' \in [Slots -> SUBSET Handles] /\ m_frees' \in [Slots -> Seq(Handles)]
  BY Cleared
<1>8. HandlesFit'
  BY <1>5, <1>6, <1>7 DEF HandlesFit, CandidateFits, UseFits, Exclusive
<1>9. InitializedFits'
  BY <1>6, <1>7 DEF InitializedFits
<1>10. IsFiniteSet(Counted') /\ total' = Cardinality(Counted')
  BY <1>2, CountedSame DEF counter, Calls
<1>11. PoolTyped' /\ total' \in Nat /\ writers' \in Nat
  BY <1>7, Parts DEF TypeOK, PoolTyped, counter
<1>12. m_initialized' \in BOOLEAN
  BY <1>7
<1> QED
  BY <1>3, <1>8, <1>9, <1>10, <1>11, <1>12, AnyStep

LEMMA clearStep ==
    ASSUME PoolInv, NEW t \in Threads, clearHandles(t)
    PROVE  PoolInv'
<1> USE DEF Places, Initializing, Flowing, Using, Closing, Waiting, Calls
<1>1. /\ pc[t] = "clear" /\ ClearAllHandles
      /\ UNCHANGED <<concurrency, counter, m_closing, referenced, writeHints, canBeSuspended, suspended>>
  BY DEF clearHandles
<1>2. /\ readers[t] = 0 /\ writer = t /\ NormalShare(t) = 0 /\ Drained(t)
      /\ op[t].callback \in {"none", "Vacuum"} /\ op[t].type = "Normal" /\ op[t].handle = NoHandle
  BY <1>1, Closer
<1>3. referenced[t]["Normal"] = NoReference
  BY <1>2 DEF NormalShare
<1>4. Reads(t, 0) /\ UNCHANGED <<writer, depth, queue>>
  BY <1>1, <1>2, KeepsLock, Parts
<1>5. LockTyped'
  BY <1>4, Parts DEF LockTyped
<1>6. ASSUME NEW place \in {"undrain", "init"}, NEW o, Moves(t, place, o), o \in Ops,
             o.handle = NoHandle, o.callback = op[t].callback,
             place = "undrain" => o.type = "Normal",
             place = "init" => o.type = "Vacuum" /\ o.callback = "Vacuum"
      PROVE  PoolInv'
  <2>1. MayMove(t, place, o)
    BY <1>1, <1>2, <1>3, <1>6 DEF MayMove
  <2>2. PlaceShare(place, o) = 0 /\ place \notin Calls
    BY <1>6 DEF PlaceShare
  <2>3. LockFits'
    <3>1. Only(t) /\ pc'[t] = place /\ op'[t] = o /\ readers'[t] = 0
      BY <1>1, <1>4, <1>6, OnlyMoves
    <3> QED  BY <1>2, <1>4, <3>1, LockKept
  <2>4. m_closing' = m_closing + Closes(o) - Closes(op[t])
    BY <1>1, <1>6, Parts DEF Closes
  <2> QED  BY <1>1, <1>4, <1>5, <1>6, <2>1, <2>2, <2>3, <2>4, ClearStep
<1>7. CASE op[t].callback = "none" /\ Goto(t, "undrain") /\ UNCHANGED op
  <2>1. Moves(t, "undrain", op[t])
    BY <1>7, GotoMoves, Parts
  <2> QED  BY <1>2, <1>6, <1>7, <2>1, Parts
<1>8. CASE op[t].callback = "Vacuum" /\ Goto(t, "init") /\ op' = [op EXCEPT ![t].type = "Vacuum"]
  <2> DEFINE o == [op[t] EXCEPT !.type = "Vacuum"]
  <2>1. "Vacuum" \in Types
    BY DEF Types
  <2>2. op[t] \in Ops
    BY Parts
  <2>3. o \in Ops /\ o.type = "Vacuum" /\ o.handle = op[t].handle /\ o.callback = op[t].callback
    BY <2>1, <2>2 DEF Ops
  <2>4. op' = [op EXCEPT ![t] = o]
    BY <1>8, Parts DEF TypeOK
  <2> HIDE DEF o
  <2>5. Moves(t, "init", o)
    BY <1>8, <2>3, <2>4, OpMoves, Parts
  <2> QED  BY <1>2, <1>6, <1>8, <2>3, <2>5
<1> QED
  BY <1>7, <1>8 DEF clearHandles

LEMMA undrainStep ==
    ASSUME PoolInv, NEW t \in Threads, undrain(t)
    PROVE  PoolInv'
<1> USE DEF Places, Initializing, Flowing, Using, Closing, Waiting, Calls
<1> DEFINE o == Bare("outside")
<1>1. /\ pc[t] = "undrain" /\ EndClose(t)
      /\ UNCHANGED <<counter, referenced, writeHints, canBeSuspended, suspended>>
  BY DEF undrain
<1>2. /\ readers[t] = 0 /\ writer = t /\ NormalShare(t) = 0 /\ Drained(t)
      /\ op[t].callback \in {"none", "Vacuum"} /\ op[t].type = "Normal" /\ op[t].handle = NoHandle
  BY <1>1, Closer
<1>3. Concurrency!Disown(t)
  BY <1>2 DEF undrain
<1>4. Moves(t, "idle", o)
  BY <1>1, EndCloseMoves, Parts
<1>5. o = NoOp /\ o \in Ops /\ o.handle = NoHandle /\ o.callback = "outside" /\ o.type = "Normal"
  BY BareOp
<1> HIDE DEF o
<1>6. MayMove(t, "idle", o)
  BY <1>1, <1>5 DEF MayMove
<1>7. PlaceShare("idle", o) = 0 /\ ~DrainedAt("idle", o)
  BY <1>5 DEF PlaceShare, DrainedAt
<1>8. m_closing' = m_closing + Closes(o) - Closes(op[t])
  BY <1>1, <1>2, <1>5, Parts DEF Closes, EndClose
<1>9. CASE UNCHANGED <<m_handles, m_frees, opened, m_initialized>>
  <2>1. Quiet
    BY <1>1, <1>9, Parts DEF Quiet
  <2> QED  BY <1>1, <1>2, <1>3, <1>4, <1>6, <1>7, <1>8, <1>9, <2>1, DisownedStep
<1>10. CASE ClearAllHandles
  <2>1. /\ Reads(t, 0) /\ UNCHANGED queue /\ depth' \in Nat /\ writer' \in {t, NoThread}
    BY <1>2, <1>3, DisownsLock, Parts
  <2>2. Only(t) /\ pc'[t] = "idle" /\ op'[t] = o /\ readers'[t] = 0
    BY <1>1, <1>4, <2>1, OnlyMoves
  <2>3. LockFits'
    BY <1>3, <1>7, <2>2, LockDisowned DEF Drained
  <2>4. LockTyped'
    BY <2>1, Parts DEF LockTyped
  <2> QED  BY <1>1, <1>4, <1>6, <1>7, <1>8, <1>10, <2>1, <2>3, <2>4, ClearStep
<1> QED
  BY <1>9, <1>10 DEF undrain

-----------------------------------------------------------------------------
(* The invariant                                                           *)

LEMMA PoolInit == Init => PoolInv
<1> SUFFICES ASSUME Init PROVE PoolInv
  OBVIOUS
<1> USE DEF Init, Concurrency!InitLock, Counter!InitBudget
<1>1. /\ NoOp \in Ops /\ NoOp.handle = NoHandle /\ NoOp.callback = "outside" /\ NoOp.type = "Normal"
  BY BareOp
<1>2. NoReference \in [handle : Handles \cup {NoHandle}, reference : 0 .. MaxReference] /\ NoReference.handle = NoHandle
  BY HandlePoolAssumption DEF NoReference
<1>3. \A t \in Threads : pc[t] = "idle" /\ op[t] = NoOp /\ readers[t] = 0
  OBVIOUS
<1>4. \A t \in Threads : \A x \in Types : referenced[t][x] = NoReference
  OBVIOUS
<1>5. TypeOK
  <2>1. pc \in [Threads -> Places] /\ op \in [Threads -> Ops]
    BY <1>1 DEF Places
  <2>2. referenced \in [Threads -> [Types -> [handle : Handles \cup {NoHandle}, reference : 0 .. MaxReference]]]
    BY <1>2
  <2>3. readers \in [Threads -> Nat] /\ queue \in Seq(Threads)
    OBVIOUS
  <2>4. m_initialized \in BOOLEAN
    OBVIOUS
  <2>5. m_handles \in [Slots -> SUBSET Handles] /\ m_frees \in [Slots -> Seq(Handles)]
    OBVIOUS
  <2> QED  BY <2>1, <2>2, <2>3, <2>4, <2>5 DEF TypeOK
<1>6. ASSUME NEW t \in Threads PROVE ThreadFits(t)
  <2>1. CallFits(t)
    BY <1>1, <1>3, <1>4, TypeNames DEF CallFits, Drained, DrainedAt, Closing, Using, Initializing, Flowing
  <2>2. ReferencesFit(t)
    BY <1>3, <1>4 DEF ReferencesFit, Using
  <2>3. readers[t] = Shares(t)
    BY <1>3, <1>4, TypeNames DEF Shares, NormalShare, PlaceShare, Using, Flowing
  <2> QED  BY <2>1, <2>2, <2>3 DEF ThreadFits
<1>7. LockFits
  BY <1>1, <1>3 DEF LockFits, Drained, DrainedAt
<1>8. InitializedFits
  BY <1>3 DEF InitializedFits
<1>9. HandlesFit
  <2>1. \A s \in Slots : FreesOf(s) = {} /\ DOMAIN m_frees[s] = {} /\ m_handles[s] = {}
    BY DEF FreesOf
  <2>2. SlotsFit
    BY <2>1 DEF SlotsFit
  <2> QED  BY <1>1, <1>2, <1>3, <1>4, <2>2 DEF HandlesFit, CandidateFits, UseFits, Exclusive
<1>10. CountsFit
  <2>1. Counted = {}
    <3>1. \A c : c \notin Counted
      BY <1>3, <1>4, CountedMembers DEF Calls
    <3> QED  BY <3>1
  <2>2. Closers = {}
    BY <1>1, <1>3 DEF Closers
  <2> QED  BY <2>1, <2>2, FS_EmptySet DEF CountsFit
<1> QED
  BY <1>5, <1>6, <1>7, <1>8, <1>9, <1>10 DEF PoolInv

LEMMA PoolStutter ==
    ASSUME PoolInv, UNCHANGED vars
    PROVE  PoolInv'
<1>1. UNCHANGED <<readers, writer, depth, queue, total, writers, m_initialized, m_closing,
                  m_handles, m_frees, referenced, writeHints, opened, canBeSuspended, suspended,
                  pc, op>>
  BY DEF vars, concurrency, counter, pool, handleState
<1>2. TypeOK' /\ LockFits' /\ InitializedFits'
  BY <1>1 DEF PoolInv, TypeOK, LockFits, InitializedFits, Drained, DrainedAt
<1>3. ASSUME NEW t \in Threads PROVE ThreadFits(t)'
  BY <1>1 DEF PoolInv, ThreadFits, CallFits, Drained, DrainedAt, ReferencesFit, Shares, NormalShare
<1>4. HandlesFit'
  BY <1>1 DEF PoolInv, HandlesFit, SlotsFit, CandidateFits, UseFits, Exclusive, Busy, FreesOf
<1>5. Counted' = Counted /\ Closers' = Closers
  BY <1>1 DEF Counted, Closers
<1> QED
  BY <1>1, <1>2, <1>3, <1>4, <1>5 DEF PoolInv, CountsFit

LEMMA PoolStep ==
    ASSUME PoolInv, NEW t \in Threads, Start(t) \/ GoOn(t)
    PROVE  PoolInv'
<1>1. CASE Start(t)
  BY <1>1, flowOutAgainStep, getHandleStep, runTaskStep, purgeStep, closeStep, blockadeSteps DEF Start
<1>2. CASE GoOn(t)
  BY <1>2, initializeStep, initializeLockStep, initializeOwnedStep, increaseStep, takeStep,
     generateStep, reuseStep, markStep, checkStep, finishWorkStep, recycleSteps, decreaseStep,
     suspendStep, drainStep, clearStep, undrainStep, blockadeSteps, unblockadeStep DEF GoOn
<1> QED
  BY <1>1, <1>2

\* The inductive invariant holds in every reachable state of the handle pool,
\* for any number of threads and handles and any limits of the counter.
THEOREM HandlePoolInvariant == Spec => []PoolInv
<1>1. Init => PoolInv
  BY PoolInit
<1>2. PoolInv /\ [Next]_vars => PoolInv'
  BY PoolStep, PoolStutter DEF Next
<1> QED
  BY <1>1, <1>2, PTL DEF Spec

\* No purge(), drain() or failing flowOut() closes or forgets a handle that a
\* thread uses.
THEOREM UsedHandlesStay == Spec => []InUseIsAlive
<1>1. PoolInv => InUseIsAlive
  <2> SUFFICES ASSUME PoolInv, NEW t \in Threads, NEW x \in Types, referenced[t][x].handle # NoHandle
               PROVE  /\ referenced[t][x].handle \in opened
                      /\ referenced[t][x].handle \in m_handles[slotOfHandleType(x)]
                      /\ m_initialized
    BY DEF InUseIsAlive
  <2>1. referenced[t][x].handle \in opened \cap Busy(slotOfHandleType(x))
    BY DEF PoolInv, HandlesFit, UseFits
  <2> QED  BY <2>1, Parts DEF Busy, InitializedFits
<1> QED
  BY <1>1, HandlePoolInvariant, PTL

LEMMA ListCardinality ==
    ASSUME NEW list \in Seq(Handles), Distinct(list)
    PROVE  Len(list) = Cardinality(Members(list))
<1>1. DOMAIN list = 1 .. Len(list) /\ Len(list) \in Nat
  OBVIOUS
<1>2. list \in [1 .. Len(list) -> Members(list)]
  BY <1>1 DEF Members
<1>3. list \in Bijection(1 .. Len(list), Members(list))
  <2>1. \A i, j \in 1 .. Len(list) : list[i] = list[j] => i = j
    BY <1>1 DEF Distinct
  <2>2. \A e \in Members(list) : \E i \in 1 .. Len(list) : list[i] = e
    BY <1>1 DEF Members
  <2> QED  BY <1>2, <2>1, <2>2, Fun_IsBij
<1>4. ExistsBijection(1 .. Len(list), Members(list))
  BY <1>3 DEF ExistsBijection
<1> QED
  BY <1>1, <1>4, FS_CountingElements

\* A handle is used for one purpose by one thread, or is the candidate of one
\* flowOut(), or is free once, in its own slot: none of these overlap.
THEOREM HandlesHaveOneUser == Spec => []HandlesAreExclusive
<1>1. PoolInv => HandlesAreExclusive
  <2> SUFFICES ASSUME PoolInv PROVE HandlesAreExclusive
    OBVIOUS
  <2>1. Exclusive
    BY DEF PoolInv, HandlesFit
  <2>2. InUse \cap Candidates = {}
    BY <2>1 DEF Exclusive, InUse, Candidates
  <2>3. ASSUME NEW t \in Threads, op[t].handle # NoHandle PROVE op[t].handle \notin FreeHandles
    <3>1. op[t].handle \in Busy(slotOfHandleType(op[t].type)) /\ slotOfHandleType(op[t].type) \in Slots
      BY <2>3, Parts, TypeNames DEF PoolInv, HandlesFit, CandidateFits
    <3> QED  BY <3>1, BusyStays
  <2>4. ASSUME NEW t \in Threads, NEW x \in Types, referenced[t][x].handle # NoHandle
        PROVE  referenced[t][x].handle \notin FreeHandles
    <3>1. referenced[t][x].handle \in Busy(slotOfHandleType(x)) /\ slotOfHandleType(x) \in Slots
      BY <2>4, TypeNames DEF PoolInv, HandlesFit, UseFits
    <3> QED  BY <3>1, BusyStays
  <2>5. FreeHandles \cap (InUse \cup Candidates) = {}
    BY <2>3, <2>4 DEF InUse, Candidates
  <2>6. ASSUME NEW s \in Slots
        PROVE  FreesOf(s) \subseteq m_handles[s] /\ Len(m_frees[s]) = Cardinality(FreesOf(s))
    BY SlotFacts, ListCardinality
  <2> QED  BY <2>1, <2>2, <2>5, <2>6 DEF HandlesAreExclusive, Exclusive
<1> QED
  BY <1>1, HandlePoolInvariant, PTL

\* Every path through flowOut() and flowBack() counts its handle exactly once.
THEOREM CounterCountsHandles == Spec => []CounterIsExact
<1>1. PoolInv => CounterIsExact
  BY DEF PoolInv, CountsFit, CounterIsExact
<1> QED
  BY <1>1, HandlePoolInvariant, PTL

\* A thread shares m_concurrency once for each of its handles and once for the
\* guard of initialize(), and never when it goes for the write lock.
THEOREM SharesAreExact == Spec => []SharesAreOwed
<1>1. PoolInv => SharesAreOwed
  <2> SUFFICES ASSUME PoolInv, NEW t \in Threads
               PROVE  /\ readers[t] = Cardinality({x \in Types : referenced[t][x] # NoReference})
                                      + (IF \/ pc[t] \in {"count", "take", "generate", "reuse", "mark",
                                                          "check", "work", "recycle"}
                                            \/ pc[t] = "decrease" /\ op[t].type # "Normal"
                                         THEN 1 ELSE 0)
                      /\ pc[t] \in {"initLock", "initOwned", "clear", "undrain"} => readers[t] = 0
    BY DEF SharesAreOwed
  <2> USE DEF Flowing, Using
  <2> DEFINE used == {x \in Types : referenced[t][x] # NoReference}
             normal == {x \in {"Normal"} : referenced[t][x] # NoReference}
  <2>1. IsFiniteSet(normal) /\ Cardinality(normal) = NormalShare(t) /\ NormalShare(t) \in Nat
    <3>1. CASE referenced[t]["Normal"] # NoReference
      <4>1. normal = {"Normal"}
        BY <3>1
      <4> QED  BY <3>1, <4>1, FS_Singleton DEF NormalShare
    <3>2. CASE referenced[t]["Normal"] = NoReference
      <4>1. normal = {}
        BY <3>2
      <4> QED  BY <3>2, <4>1, FS_EmptySet DEF NormalShare
    <3> QED  BY <3>1, <3>2
  <2>2. Cardinality(used) = NormalShare(t) + (IF pc[t] \in Using THEN 1 ELSE 0)
    <3>1. CASE pc[t] \in Using
      <4>1. op[t].type \in Types /\ op[t].type # "Normal" /\ "Normal" \in Types
        BY <3>1, Parts, TypeNames DEF CallFits
      <4>2. \A x \in Types : x # "Normal" => (referenced[t][x] # NoReference <=> op[t].type = x)
        BY <3>1, Parts DEF ReferencesFit
      <4>3. used = normal \cup {op[t].type} /\ op[t].type \notin normal
        BY <4>1, <4>2
      <4> HIDE DEF used, normal
      <4> QED  BY <2>1, <3>1, <4>3, FS_AddElement
    <3>2. CASE pc[t] \notin Using
      <4>1. \A x \in Types : x # "Normal" => referenced[t][x] = NoReference
        BY <3>2, Parts DEF ReferencesFit
      <4>2. used = normal
        BY <4>1, TypeNames
      <4> HIDE DEF used, normal
      <4> QED  BY <2>1, <3>2, <4>2
    <3> QED  BY <3>1, <3>2
  <2>3. readers[t] = NormalShare(t) + PlaceShare(pc[t], op[t])
    BY Parts DEF Shares
  <2>4. pc[t] \in {"initLock", "initOwned", "clear", "undrain"} => readers[t] = 0
    <3>1. CASE pc[t] \in {"initLock", "initOwned"}
      <4>1. referenced[t]["Normal"] = NoReference
        BY <3>1, Parts DEF CallFits
      <4> QED  BY <2>3, <3>1, <4>1 DEF NormalShare, PlaceShare
    <3>2. CASE pc[t] \in {"clear", "undrain"}
      BY <3>2, Closer
    <3> QED  BY <3>1, <3>2
  <2> HIDE DEF used, normal
  <2>5. readers[t] = Cardinality(used)
                     + (IF \/ pc[t] \in {"count", "take", "generate", "reuse", "mark",
                                         "check", "work", "recycle"}
                           \/ pc[t] = "decrease" /\ op[t].type # "Normal"
                        THEN 1 ELSE 0)
    BY <2>1, <2>2, <2>3 DEF PlaceShare
  <2> QED  BY <2>4, <2>5 DEF used
<1> QED
  BY <1>1, HandlePoolInvariant, PTL

\* While close() runs its callback nobody else has a handle or is on the way to
\* one, and when the callback begins nothing is open.
THEOREM CallbackIsAlone == Spec => []ClosedInCallback
<1>1. PoolInv => ClosedInCallback
  <2> SUFFICES ASSUME PoolInv, NEW t \in Threads, op[t].callback # "outside", pc[t] \notin Waiting
               PROVE  /\ \A u \in Threads \ {t} :
                            /\ \A type \in Types : referenced[u][type] = NoReference
                            /\ op[u].handle = NoHandle
                            /\ pc[u] \notin {"count", "take", "generate", "reuse", "initOwned"}
                      /\ pc[t] \in {"init", "initLock"} /\ ~m_initialized => opened = {}
    BY DEF ClosedInCallback, Waiting
  <2> USE DEF Flowing, Using
  <2>1. writer = t
    BY Parts DEF LockFits, Drained, DrainedAt
  <2>2. ASSUME NEW u \in Threads, u # t
        PROVE  /\ \A type \in Types : referenced[u][type] = NoReference
               /\ op[u].handle = NoHandle
               /\ pc[u] \notin {"count", "take", "generate", "reuse", "initOwned"}
    <3>1. readers[u] = 0 /\ pc[u] # "initOwned"
      BY <2>1, <2>2, Parts, HandlePoolAssumption DEF LockFits
    <3>2. NormalShare(u) = 0 /\ pc[u] \notin Flowing \cup Using
      BY <3>1, Parts DEF Shares, PlaceShare, NormalShare
    <3>3. referenced[u]["Normal"] = NoReference
      BY <3>2 DEF NormalShare
    <3>4. ASSUME NEW x \in Types PROVE referenced[u][x] = NoReference
      BY <3>2, <3>3, Parts DEF ReferencesFit
    <3>5. op[u].handle = NoHandle
      BY <3>2, Parts DEF CallFits
    <3> QED  BY <3>1, <3>2, <3>4, <3>5
  <2>3. ~m_initialized => opened = {}
    BY Parts DEF InitializedFits
  <2> QED  BY <2>2, <2>3
<1> QED
  BY <1>1, HandlePoolInvariant, PTL

-----------------------------------------------------------------------------
(* Backup marks its handle before it tests m_closing                       *)

TaskHandle(t) == referenced[t][op[t].type].handle

\* A Backup that has gone on to its test can be suspended, and one that works
\* while a close() waits is.
BackupFits ==
    /\ \A u \in Threads :
          pc[u] \in {"check", "work"} /\ op[u].type = "Backup" => TaskHandle(u) \in canBeSuspended
    /\ \A t, u \in Threads :
          pc[t] \in {"drain", "drainQueued"} /\ pc[u] = "work" /\ op[u].type = "Backup" =>
              TaskHandle(u) \in suspended

Rest(t) ==
    \A u \in Threads : u # t => pc'[u] = pc[u] /\ op'[u] = op[u] /\ referenced'[u] = referenced[u]

\* A step that begins no work, takes nothing from a task and does not begin to
\* wait for the tasks.
Harmless(t) ==
    /\ Rest(t) /\ UNCHANGED <<canBeSuspended, suspended>>
    /\ pc'[t] \notin {"check", "work"}
    /\ pc'[t] \in {"drain", "drainQueued"} => pc[t] \in {"drain", "drainQueued"}

LEMMA HarmlessStep ==
    ASSUME BackupFits, NEW t \in Threads, Harmless(t)
    PROVE  BackupFits'
<1>1. ASSUME NEW u \in Threads, pc'[u] \in {"check", "work"}, op'[u].type = "Backup"
      PROVE  TaskHandle(u)' \in canBeSuspended'
  BY <1>1 DEF BackupFits, Harmless, Rest, TaskHandle
<1>2. ASSUME NEW v \in Threads, NEW u \in Threads, pc'[v] \in {"drain", "drainQueued"},
             pc'[u] = "work", op'[u].type = "Backup"
      PROVE  TaskHandle(u)' \in suspended'
  <2>1. u # t
    BY <1>2 DEF Harmless
  <2>2. pc[v] \in {"drain", "drainQueued"}
    BY <1>2 DEF Harmless, Rest
  <2> QED  BY <1>2, <2>1, <2>2 DEF BackupFits, Harmless, Rest, TaskHandle
<1> QED
  BY <1>1, <1>2 DEF BackupFits

\* flowOut() resets a handle that no task uses.
LEMMA HandOutKeeps ==
    ASSUME PoolInv, BackupFits, NEW t \in Threads, NEW x \in Types, x = op[t].type,
           NEW h \in Handles, HandOut(t, h), pc[t] \in {"generate", "reuse"},
           \A u \in Threads, y \in Types : referenced[u][y].handle # h
    PROVE  BackupFits'
<1>1. PICK place, o, n : HandedOut(t, x, h, place, o, n)
  BY HandOutMoves
<1>2. \A u \in Threads : u # t => referenced'[u] = referenced[u]
  BY Parts DEF HandOut, TypeOK
<1>3. Only(t) /\ pc'[t] = place /\ op'[t] = o
  BY <1>1, <1>2, OnlyMoves DEF HandedOut
<1>4. canBeSuspended' = canBeSuspended \ {h} /\ suspended' = suspended \ {h}
  BY DEF HandOut
<1>5. /\ place \notin {"drain", "drainQueued"}
      /\ place \in {"check", "work"} => op'[t].type # "Backup"
  <2>1. CASE x = "Normal"
    BY <1>1, <2>1 DEF HandedOut, Using
  <2>2. CASE x # "Normal"
    <3>1. o.type = x /\ place \in Using
      BY <1>1, <2>2 DEF HandedOut
    <3>2. x = "Backup" => pc' = [pc EXCEPT ![t] = "mark"]
      BY <2>2 DEF HandOut, Goto
    <3>3. x = "Backup" => place = "mark"
      BY <1>3, <3>2, Parts DEF TypeOK
    <3> QED  BY <1>3, <3>1, <3>3 DEF Using
  <2> QED  BY <2>1, <2>2
<1>6. ASSUME NEW u \in Threads, pc'[u] \in {"check", "work"}, op'[u].type = "Backup"
      PROVE  /\ u # t /\ pc[u] = pc'[u] /\ op[u].type = "Backup" /\ TaskHandle(u)' = TaskHandle(u)
             /\ TaskHandle(u) # h
  <2>1. u # t
    BY <1>3, <1>5, <1>6
  <2>2. pc'[u] = pc[u] /\ op'[u] = op[u] /\ referenced'[u] = referenced[u]
    BY <1>3, <2>1 DEF Only
  <2>3. TaskHandle(u) # h
    BY Parts DEF TaskHandle
  <2> QED  BY <1>6, <2>1, <2>2, <2>3 DEF TaskHandle
<1>7. ASSUME NEW v \in Threads, pc'[v] \in {"drain", "drainQueued"} PROVE pc[v] \in {"drain", "drainQueued"}
  BY <1>3, <1>5, <1>7 DEF Only
<1>8. ASSUME NEW u \in Threads, pc'[u] \in {"check", "work"}, op'[u].type = "Backup"
      PROVE  TaskHandle(u)' \in canBeSuspended'
  BY <1>4, <1>6, <1>8 DEF BackupFits
<1>9. ASSUME NEW v \in Threads, NEW u \in Threads, pc'[v] \in {"drain", "drainQueued"},
             pc'[u] = "work", op'[u].type = "Backup"
      PROVE  TaskHandle(u)' \in suspended'
  <2>1. /\ pc[u] = "work" /\ op[u].type = "Backup" /\ TaskHandle(u)' = TaskHandle(u)
        /\ TaskHandle(u) # h
    BY <1>6, <1>9
  <2>2. pc[v] \in {"drain", "drainQueued"}
    BY <1>7, <1>9
  <2> QED  BY <1>4, <2>1, <2>2 DEF BackupFits
<1> QED
  BY <1>8, <1>9 DEF BackupFits

LEMMA generateKeeps ==
    ASSUME PoolInv, BackupFits, NEW t \in Threads, generateHandle(t)
    PROVE  BackupFits'
<1>1. pc[t] = "generate"
  BY DEF generateHandle
<1>2. ASSUME NEW h \in Fresh, HandOut(t, h) PROVE BackupFits'
  <2>1. PICK x \in Types : x = op[t].type
    BY Parts
  <2>2. h \in Handles /\ h # NoHandle
    BY HandlePoolAssumption DEF Fresh, Unused
  <2>3. \A u \in Threads, y \in Types : referenced[u][y].handle # h
    BY <2>2 DEF Fresh, Unused, InUse
  <2> QED  BY <1>1, <1>2, <2>1, <2>2, <2>3, HandOutKeeps
<1>3. ASSUME FlowOutFails(t), UNCHANGED handleState PROVE BackupFits'
  <2>1. Only(t)
    BY <1>1, <1>3, FailsMoves
  <2>2. pc'[t] \in {"idle", "undrain"}
    BY <1>3, Parts DEF FlowOutFails, Finish, Goto, TypeOK
  <2>3. Harmless(t)
    BY <1>3, <2>1, <2>2 DEF Harmless, Rest, Only, handleState
  <2> QED  BY <2>3, HarmlessStep
<1> QED
  BY <1>2, <1>3 DEF generateHandle

LEMMA reuseKeeps ==
    ASSUME PoolInv, BackupFits, NEW t \in Threads, reuseHandle(t)
    PROVE  BackupFits'
<1>1. pc[t] = "reuse"
  BY DEF reuseHandle
<1>2. PICK h \in Handles : h = op[t].handle
  BY <1>1, Parts, OpFields DEF CallFits
<1>3. ASSUME HandOut(t, h) PROVE BackupFits'
  <2>1. PICK x \in Types : x = op[t].type
    BY Parts
  <2>2. \A u \in Threads, y \in Types : referenced[u][y].handle # h
    BY <1>2, HandlePoolAssumption DEF PoolInv, HandlesFit, Exclusive
  <2> QED  BY <1>1, <1>3, <2>1, <2>2, HandOutKeeps
<1>4. ASSUME FlowOutFails(t), UNCHANGED <<canBeSuspended, suspended>> PROVE BackupFits'
  <2>1. Only(t)
    BY <1>1, <1>4, FailsMoves
  <2>2. pc'[t] \in {"idle", "undrain"}
    BY <1>4, Parts DEF FlowOutFails, Finish, Goto, TypeOK
  <2>3. Harmless(t)
    BY <1>4, <2>1, <2>2 DEF Harmless, Rest, Only
  <2> QED  BY <2>3, HarmlessStep
<1> QED
  BY <1>2, <1>3, <1>4 DEF reuseHandle

LEMMA markKeeps ==
    ASSUME PoolInv, BackupFits, NEW t \in Threads, markAsCanBeSuspended(t)
    PROVE  BackupFits'
<1>1. /\ pc[t] = "mark" /\ canBeSuspended' = canBeSuspended \cup {TaskHandle(t)}
      /\ UNCHANGED <<suspended, op, referenced>>
      /\ pc' = [pc EXCEPT ![t] = IF op[t].type = "Backup" THEN "check" ELSE "work"]
  BY DEF markAsCanBeSuspended, TaskHandle, Goto, pool
<1>2. pc'[t] = (IF op[t].type = "Backup" THEN "check" ELSE "work") /\ \A u \in Threads : u # t => pc'[u] = pc[u]
  BY <1>1, Parts DEF TypeOK
<1>3. \A u : TaskHandle(u)' = TaskHandle(u)
  BY <1>1 DEF TaskHandle
<1> QED
  BY <1>1, <1>2, <1>3 DEF BackupFits

\* Nobody is in close() while m_closing is zero.
LEMMA checkKeeps ==
    ASSUME PoolInv, BackupFits, NEW t \in Threads, checkShouldInterruptWhenClosing(t)
    PROVE  BackupFits'
<1>1. /\ pc[t] = "check" /\ UNCHANGED <<canBeSuspended, suspended, op, referenced>>
      /\ \/ pc' = [pc EXCEPT ![t] = "recycle"]
         \/ m_closing = 0 /\ pc' = [pc EXCEPT ![t] = IF op[t].type = "Backup" THEN "work" ELSE "mark"]
  BY DEF checkShouldInterruptWhenClosing, Goto, pool, handleState
<1>2. \A u : TaskHandle(u)' = TaskHandle(u)
  BY <1>1 DEF TaskHandle
<1>3. CASE pc' = [pc EXCEPT ![t] = "recycle"]
  <2>1. Harmless(t)
    BY <1>1, <1>3, Parts DEF Harmless, Rest, TypeOK
  <2> QED  BY <2>1, HarmlessStep
<1>4. CASE m_closing = 0 /\ pc' = [pc EXCEPT ![t] = IF op[t].type = "Backup" THEN "work" ELSE "mark"]
  <2>1. pc'[t] = (IF op[t].type = "Backup" THEN "work" ELSE "mark") /\ \A u \in Threads : u # t => pc'[u] = pc[u]
    BY <1>4, Parts DEF TypeOK
  <2>2. Closers = {}
    BY <1>4, FS_EmptySet DEF PoolInv, CountsFit
  <2>3. \A u \in Threads : pc[u] \notin {"drain", "drainQueued"}
    BY <2>2, Parts DEF Closers, CallFits, Closing
  <2>4. \A u \in Threads : pc'[u] \notin {"drain", "drainQueued"}
    BY <2>1, <2>3
  <2> QED  BY <1>1, <1>2, <2>1, <2>4 DEF BackupFits
<1> QED
  BY <1>1, <1>3, <1>4

\* close() finds every Backup that works among the handles of the tasks.
LEMMA suspendKeeps ==
    ASSUME PoolInv, BackupFits, NEW t \in Threads, suspendTasks(t)
    PROVE  BackupFits'
<1>1. /\ suspended' = (suspended \ m_handles["AutoTask"])
                         \cup (m_handles["AutoTask"] \cap canBeSuspended \cap opened)
      /\ UNCHANGED <<canBeSuspended, op, referenced>> /\ pc' = [pc EXCEPT ![t] = "drain"]
  BY DEF suspendTasks, Goto, pool
<1>2. pc'[t] = "drain" /\ \A u \in Threads : u # t => pc'[u] = pc[u]
  BY <1>1, Parts DEF TypeOK
<1>3. \A u : TaskHandle(u)' = TaskHandle(u)
  BY <1>1 DEF TaskHandle
<1>4. ASSUME NEW u \in Threads, pc'[u] = "work", op'[u].type = "Backup" PROVE TaskHandle(u)' \in suspended'
  <2>1. pc[u] = "work" /\ op[u].type = "Backup"
    BY <1>1, <1>2, <1>4
  <2>2. TaskHandle(u) \in canBeSuspended
    BY <2>1 DEF BackupFits
  <2>3. PICK x \in Types : x = op[u].type
    BY Parts
  <2>4. TaskHandle(u) # NoHandle /\ slotOfHandleType(x) = "AutoTask"
    <3>1. TaskHandle(u) # NoHandle
      BY <2>1, UsesHandle, HandlePoolAssumption DEF TaskHandle, Using
    <3> QED  BY <2>1, <2>3, <3>1 DEF slotOfHandleType, Types
  <2>5. UseFits(u, x)
    BY DEF PoolInv, HandlesFit
  <2>6. TaskHandle(u) \in opened /\ TaskHandle(u) \in Busy("AutoTask")
    BY <2>3, <2>4, <2>5 DEF UseFits, TaskHandle
  <2> QED  BY <1>1, <1>3, <2>2, <2>6 DEF Busy
<1>5. ASSUME NEW u \in Threads, pc'[u] \in {"check", "work"}, op'[u].type = "Backup"
      PROVE  TaskHandle(u)' \in canBeSuspended'
  BY <1>1, <1>2, <1>3, <1>5 DEF BackupFits
<1> QED
  BY <1>4, <1>5 DEF BackupFits

\* No other step concerns the tasks that work.
LEMMA OthersAreHarmless ==
    ASSUME PoolInv, NEW t \in Threads,
           \/ Start(t)
           \/ initialize(t) \/ initializeLock(t) \/ initializeOwned(t) \/ increaseHandleCount(t)
           \/ takeFreeHandle(t) \/ finishWork(t) \/ recycleHandle(t) \/ recycleTask(t)
           \/ decreaseHandleCount(t) \/ drain(t) \/ clearHandles(t) \/ undrain(t)
           \/ blockadeGoesOn(t) \/ unblockade(t)
    PROVE  Harmless(t)
<1>1. /\ pc \in [Threads -> Places] /\ op \in [Threads -> Ops]
      /\ referenced \in [Threads -> [Types -> [handle : Handles \cup {NoHandle}, reference : 0 .. MaxReference]]]
  BY Parts DEF TypeOK
<1> USE DEF Harmless, Rest, pool, handleState, Goto
<1>2. CASE flowOutAgain(t)
  BY <1>1, <1>2 DEF flowOutAgain
<1>3. CASE \E hint \in BOOLEAN : getHandle(t, hint)
  BY <1>1, <1>3 DEF getHandle
<1>4. CASE \E type \in TaskTypes : runTask(t, type)
  BY <1>1, <1>4 DEF runTask
<1>5. CASE purge(t)
  BY <1>1, <1>5 DEF purge
<1>6. CASE \E callback \in Callbacks : close(t, callback)
  BY <1>1, <1>6 DEF close
<1>7. CASE blockade(t)
  BY <1>1, <1>7 DEF blockade
<1>8. CASE initialize(t)
  BY <1>1, <1>8 DEF initialize
<1>9. CASE initializeLock(t)
  BY <1>1, <1>9 DEF initializeLock
<1>10. CASE initializeOwned(t)
  BY <1>1, <1>10 DEF initializeOwned, Finish
<1>11. CASE increaseHandleCount(t)
  BY <1>1, <1>11 DEF increaseHandleCount, Finish
<1>12. CASE takeFreeHandle(t)
  BY <1>1, <1>12 DEF takeFreeHandle
<1>13. CASE finishWork(t)
  BY <1>1, <1>13 DEF finishWork
<1>14. CASE recycleHandle(t)
  BY <1>1, <1>14 DEF recycleHandle, FlowBack
<1>15. CASE recycleTask(t)
  BY <1>1, <1>15 DEF recycleTask, FlowBack
<1>16. CASE decreaseHandleCount(t)
  BY <1>1, <1>16 DEF decreaseHandleCount, Finish
<1>17. CASE drain(t)
  BY <1>1, <1>17 DEF drain, EndClose
<1>18. CASE clearHandles(t)
  BY <1>1, <1>18 DEF clearHandles
<1>19. CASE undrain(t)
  BY <1>1, <1>19 DEF undrain, EndClose
<1>20. CASE blockadeGoesOn(t)
  BY <1>1, <1>20 DEF blockadeGoesOn
<1>21. CASE unblockade(t)
  BY <1>1, <1>21 DEF unblockade
<1> QED
  BY <1>2, <1>3, <1>4, <1>5, <1>6, <1>7, <1>8, <1>9, <1>10, <1>11, <1>12, <1>13, <1>14, <1>15,
     <1>16, <1>17, <1>18, <1>19, <1>20, <1>21 DEF Start

\* Whatever other tasks run, a Backup that works while close() waits for the
\* pool has been suspended: it marks its handle before it tests m_closing.
THEOREM BackupIsSuspended == Spec => []BackupsAreSuspended
<1>1. Init => BackupFits
  BY DEF Init, BackupFits
<1>2. ASSUME PoolInv, BackupFits, [Next]_vars PROVE BackupFits'
  <2>1. CASE UNCHANGED vars
    BY <1>2, <2>1 DEF BackupFits, TaskHandle, vars, pool, handleState
  <2>2. ASSUME NEW t \in Threads, Start(t) \/ GoOn(t) PROVE BackupFits'
    BY <1>2, <2>2, OthersAreHarmless, HarmlessStep, generateKeeps, reuseKeeps, markKeeps, checkKeeps,
       suspendKeeps DEF GoOn
  <2> QED  BY <1>2, <2>1, <2>2 DEF Next
<1>3. BackupFits => BackupsAreSuspended
  BY DEF BackupFits, BackupsAreSuspended, WorksOn, TaskHandle
<1> QED
  BY <1>1, <1>2, <1>3, HandlePoolInvariant, PTL DEF Spec

=============================================================================
