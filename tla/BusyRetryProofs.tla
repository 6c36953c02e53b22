-------------------------- MODULE BusyRetryProofs --------------------------
(***************************************************************************)
(* Proofs about BusyRetry, for any set of threads, either journal and      *)
(* either way to wake sleepers.  BusyInv says what a thread holds at each  *)
(* place, that the hooks have recorded exactly that, and that whoever      *)
(* sleeps without a notification is blocked, or waits behind the main      *)
(* thread, which still has a release to come.  The two journals have       *)
(* little in common: with a rollback journal every release that shows in   *)
(* the pager type reaches all sleepers; with a WAL it reaches those whom   *)
(* nothing blocks any more, unless the main thread has to sleep on.        *)
(***************************************************************************)
EXTENDS BusyRetry, TLAPS

-----------------------------------------------------------------------------
(* The inductive invariant.                                                *)

Places == {"idle", "work", "giveup", "release"} \cup Requests
Connection == [file : None .. Exclusive, shared : SUBSET Locks, exclusive : SUBSET Locks]

TypesFit ==
    /\ TypeOK
    /\ journal \in {"wal", "delete"} /\ apple \in BOOLEAN
    /\ pc \in [Threads -> Places]
    /\ conn \in [Threads -> Connection]

\* What a thread does at each place.
JobFits(t) ==
    /\ job[t] = "none" <=> pc[t] = "idle"
    /\ pc[t] \in {"ckpt", "ckptWrite", "ckptRead"} => journal = "wal" /\ job[t] = "checkpoint"
    /\ pc[t] \in {"reserve", "giveup", "commit"} => Writes(t)
    /\ pc[t] \in {"shared", "work"} => job[t] # "checkpoint"
    /\ pc[t] = "commit" => journal = "delete"

\* What the connection of a thread holds of the file, where that is the lock.
FileFits(t) ==
    IF journal = "wal" THEN conn[t].file = None
    ELSE /\ pc[t] \in {"idle", "shared"} => conn[t].file = None
         /\ pc[t] \in {"reserve", "giveup"} => conn[t].file = Shared
         /\ pc[t] = "work" => conn[t].file = IF Writes(t) THEN Reserved ELSE Shared
         /\ pc[t] = "commit" => conn[t].file \in {Reserved, Pending}

\* What it holds of the shared memory of the WAL.
ShmFits(t) ==
    LET c == conn[t] IN
    /\ journal = "delete" \/ pc[t] \in {"idle", "shared", "ckpt"} =>
          c.shared = {} /\ c.exclusive = {}
    /\ journal = "wal" =>
          /\ pc[t] \in {"reserve", "giveup"} => c.shared = {"READ"} /\ c.exclusive = {}
          /\ pc[t] = "work" => c.shared = {"READ"}
          /\ pc[t] = "ckptWrite" => c.shared = {} /\ c.exclusive = {"CKPT"}
          /\ pc[t] = "ckptRead" => c.shared = {} /\ c.exclusive = {"CKPT", "WRITE"}

\* Who has met SQLITE_BUSY, and at what.
TryingFits(t) ==
    /\ status[t] # "run" => pc[t] \in {"shared", "commit", "ckptWrite", "ckptRead"}
    /\ status[t] = "sleep" => pc[t] # "commit"
    /\ status[t] # "run" \/ pc[t] = "giveup" =>
          m_tryings[t] \in
             CASE pc[t] \in {"shared", "giveup"} ->
                     IF journal = "wal" THEN {ShmExclusive({"WRITE"})}
                     ELSE {Pager(Shared), Pager(Reserved)}
               [] pc[t] = "commit" -> {Pager(Exclusive)}
               [] pc[t] = "ckptWrite" -> {ShmExclusive({"WRITE"})}
               [] OTHER -> {ShmExclusive({"READ"})}

\* The hooks have recorded what the connections hold.
MasksFit ==
    \A t \in Threads : m_shmMasks[t] = [shared |-> conn[t].shared, exclusive |-> conn[t].exclusive]

\* The pager type is the highest level, and a level that only one connection
\* can have is recorded as its thread's.
PagerFits ==
    /\ \A t \in Threads : conn[t].file <= m_pagerType
    /\ \E t \in Threads : conn[t].file = m_pagerType
    /\ \A t \in Threads : conn[t].file >= Reserved =>
          /\ conn[t].file = m_pagerType
          /\ m_pagerChangeTid = t /\ m_localPagerType[t] = m_pagerType

Blocked(t) == \E u \in Threads : Blocks(u, t)

\* The main thread still has a lock to release, or will have one: at that
\* release it looks at all sleepers.
MainReleases ==
    /\ journal = "wal"
    /\ pc[Main] \notin {"idle", "ckpt"}
    /\ pc[Main] = "release" => ~HoldsNothing(Main)

SleepFits ==
    \A t \in Sleeping \ notified :
        t \in m_waitings /\ (Blocked(t) \/ (t # Main /\ MainReleases))

\* What is known of one thread.
Fits(t) == JobFits(t) /\ FileFits(t) /\ ShmFits(t) /\ TryingFits(t)

BusyInv ==
    /\ TypesFit
    /\ \A t \in Threads : Fits(t)
    /\ MasksFit
    /\ PagerFits
    /\ SleepFits

-----------------------------------------------------------------------------
(* The operators.                                                          *)

\* A set of levels that has a member has a highest one.
LEMMA HighestIs ==
    ASSUME NEW S \in SUBSET (None .. Exclusive), S # {}
    PROVE  Highest(S) \in S /\ \A k \in S : k <= Highest(S)
<1>1. \E l \in S : \A k \in S : k <= l
  <2>1. \A k \in S : k \in 0 .. 4
    BY DEF None, Exclusive
  <2>2. CASE 4 \in S  BY <2>1, <2>2
  <2>3. CASE 4 \notin S /\ 3 \in S  BY <2>1, <2>3
  <2>4. CASE 4 \notin S /\ 3 \notin S /\ 2 \in S  BY <2>1, <2>4
  <2>5. CASE 4 \notin S /\ 3 \notin S /\ 2 \notin S /\ 1 \in S  BY <2>1, <2>5
  <2>6. CASE S \subseteq {0}
    <3>1. 0 \in S  BY <2>6
    <3> QED  BY <2>6, <3>1
  <2>7. 4 \notin S /\ 3 \notin S /\ 2 \notin S /\ 1 \notin S => S \subseteq {0}  BY <2>1
  <2> QED  BY <2>2, <2>3, <2>4, <2>5, <2>6, <2>7
<1> QED  BY <1>1 DEF Highest

\* n is the level of the file once thread t has this one.
IsHighest(t, level, n) ==
    /\ n \in None .. Exclusive /\ level <= n
    /\ \A u \in Threads \ {t} : conn[u].file <= n
    /\ n = level \/ \E u \in Threads \ {t} : conn[u].file = n

LEMMA FileLevel ==
    ASSUME TypesFit, NEW t \in Threads, NEW level \in None .. Exclusive, HoldsFile(t, level)
    PROVE  \E n : /\ IsHighest(t, level, n) /\ updatePagerLock(t, n)
                  /\ conn' = [conn EXCEPT ![t].file = level]
                  /\ m_shmMasks' = m_shmMasks
<1> DEFINE S == {conn[u].file : u \in Threads \ {t}} \cup {level}
<1>1. S \in SUBSET (None .. Exclusive) /\ S # {}
  BY DEF TypesFit, Connection
<1>2. Highest(S) \in S /\ \A k \in S : k <= Highest(S)
  BY <1>1, HighestIs
<1> HIDE DEF S
<1>3. IsHighest(t, level, Highest(S))
  <2>1. level \in S /\ \A u \in Threads \ {t} : conn[u].file \in S
    BY DEF S
  <2>2. \A k \in S : k = level \/ \E u \in Threads \ {t} : conn[u].file = k
    BY DEF S
  <2> QED  BY <1>1, <1>2, <2>1, <2>2 DEF IsHighest
<1>4. /\ updatePagerLock(t, Highest(S)) /\ conn' = [conn EXCEPT ![t].file = level]
      /\ m_shmMasks' = m_shmMasks
  BY DEF HoldsFile, S
<1> QED  BY <1>3, <1>4

\* Those who may go on, as a thread that releases sees them.
Ready(type, local, masks) ==
    {t \in m_waitings : ~shouldWait(m_tryings[t], type, local, masks)}

\* What a notification does.
Notifies(ready) ==
    \/ (Main \in m_waitings \ ready \/ ready = {}) /\ UNCHANGED sleepers
    \/ notified' = notified \cup ready /\ m_waitings' = m_waitings \ ready
    \/ notified' = Sleeping /\ m_waitings' = m_waitings

LEMMA NotifyCases ==
    ASSUME NEW type, NEW local, NEW masks, tryNotify(type, local, masks)
    PROVE  Notifies(Ready(type, local, masks))
<1> DEFINE R == Ready(type, local, masks)
<1>1. \/ (Main \in m_waitings \ R \/ R = {}) /\ UNCHANGED sleepers
      \/ notified' = notified \cup R /\ m_waitings' = m_waitings \ R
      \/ notified' = Sleeping /\ m_waitings' = m_waitings
  BY Zenon DEF tryNotify, Ready, Sleeping
<1> QED  BY <1>1 DEF Notifies

\* A step in which thread t moves and the other threads stay where they are.
OnlyOf(t) ==
    /\ journal' = journal /\ apple' = apple
    /\ job' \in [Threads -> Jobs \cup {"none"}] /\ pc' \in [Threads -> Places]
    /\ status' \in [Threads -> {"run", "busy", "sleep"}]
    /\ m_tryings' \in [Threads -> Expecting]
    /\ \A u \in Threads \ {t} :
          /\ job'[u] = job[u] /\ pc'[u] = pc[u]
          /\ status'[u] = status[u] /\ m_tryings'[u] = m_tryings[u]

\* The others keep their part of the invariant.
LEMMA OthersFit ==
    ASSUME NEW t \in Threads, NEW u \in Threads \ {t}, Fits(u), OnlyOf(t), conn'[u] = conn[u]
    PROVE  Fits(u)'
<1> USE DEF OnlyOf
<1>1. JobFits(u)'  BY DEF Fits, JobFits, Writes
<1>2. FileFits(u)'  BY DEF Fits, FileFits, Writes
<1>3. ShmFits(u)'  BY DEF Fits, ShmFits
<1>4. TryingFits(u)'  BY DEF Fits, TryingFits
<1> QED  BY <1>1, <1>2, <1>3, <1>4 DEF Fits

\* What a sleeper waits for, and that it does not hold that itself.
LEMMA WalSleeper ==
    ASSUME journal = "wal", NEW u \in Threads, Fits(u), status[u] # "run"
    PROVE  m_tryings[u].pager = None /\ satisfiedByShm(m_tryings[u], conn[u])
<1>1. CASE pc[u] = "shared"
  BY <1>1 DEF Fits, TryingFits, ShmFits, ShmExclusive, satisfiedByShm
<1>2. CASE pc[u] = "ckptWrite"
  BY <1>2 DEF Fits, TryingFits, ShmFits, ShmExclusive, satisfiedByShm
<1>3. CASE pc[u] = "ckptRead"
  BY <1>3 DEF Fits, TryingFits, ShmFits, ShmExclusive, satisfiedByShm
<1>4. CASE pc[u] = "commit"
  BY <1>4 DEF Fits, JobFits
<1> QED  BY <1>1, <1>2, <1>3, <1>4 DEF Fits, TryingFits

LEMMA DeleteSleeper ==
    ASSUME journal = "delete", NEW u \in Threads, Fits(u), status[u] = "sleep"
    PROVE  m_tryings[u] \in {Pager(Shared), Pager(Reserved)} /\ conn[u].file = None
<1>1. pc[u] = "shared"
  BY DEF Fits, TryingFits, JobFits
<1> QED  BY <1>1 DEF Fits, TryingFits, FileFits
-----------------------------------------------------------------------------
(* What the recorded state becomes when a lock changes.                    *)

\* The part of the type invariant that is not of the threads.
RecordFits ==
    /\ conn \in [Threads -> Connection]
    /\ m_pagerType \in None .. Exclusive
    /\ m_localPagerType \in [Threads -> None .. Exclusive]
    /\ m_pagerChangeTid \in Threads \cup {Nobody}
    /\ m_shmMasks \in [Threads -> Mask]
    /\ m_waitings \cup notified \subseteq Sleeping
    /\ MasksFit /\ PagerFits /\ SleepFits

\* Who blocks a thread that waits for a level of the file, or for locks of the
\* shared memory.
LEMMA FileBlocks ==
    ASSUME NEW u, NEW t
    PROVE  /\ m_tryings[t].pager = Shared => (Blocks(u, t) <=> u # t /\ conn[u].file >= Pending)
           /\ m_tryings[t].pager = Reserved => (Blocks(u, t) <=> u # t /\ conn[u].file >= Reserved)
           /\ m_tryings'[t].pager = Shared =>
                 (Blocks(u, t)' <=> u # t /\ conn'[u].file >= Pending)
           /\ m_tryings'[t].pager = Reserved =>
                 (Blocks(u, t)' <=> u # t /\ conn'[u].file >= Reserved)
<1>1. /\ Shared # Reserved /\ Shared # Exclusive /\ Shared # None
      /\ Reserved # Exclusive /\ Reserved # None
  BY DEF None, Shared, Reserved, Exclusive
<1> QED  BY <1>1, Zenon DEF Blocks, Conflicts

LEMMA ShmBlocks ==
    ASSUME NEW u, NEW t
    PROVE  /\ m_tryings[t].pager = None =>
                 (Blocks(u, t) <=> u # t /\ ~satisfiedByShm(m_tryings[t], conn[u]))
           /\ m_tryings'[t].pager = None =>
                 (Blocks(u, t)' <=> u # t /\ ~satisfiedByShm(m_tryings'[t], conn'[u]))
<1>1. None # Shared /\ None # Reserved /\ None # Exclusive
  BY DEF None, Shared, Reserved, Exclusive
<1> QED  BY <1>1, Zenon DEF Blocks, Conflicts

\* Only one connection has more than a SHARED lock.
LEMMA OneWriter ==
    ASSUME BusyInv, NEW t \in Threads, conn[t].file >= Reserved
    PROVE  /\ m_pagerType = conn[t].file /\ m_pagerChangeTid = t
           /\ m_localPagerType[t] = m_pagerType
           /\ \A u \in Threads \ {t} : conn[u].file <= Shared
<1>1. ASSUME NEW u \in Threads \ {t}, conn[u].file >= Reserved PROVE FALSE
  BY <1>1 DEF BusyInv, PagerFits
<1>2. \A u \in Threads : conn[u].file \in None .. Exclusive
  BY DEF BusyInv, TypesFit, Connection
<1> QED  BY <1>1, <1>2 DEF BusyInv, PagerFits, None, Shared, Reserved, Exclusive

\* With the pager type the level of the file, a level above SHARED is still
\* recorded as the one of its thread.
LEMMA FilePager ==
    ASSUME BusyInv, NEW t \in Threads, NEW level \in None .. Exclusive, NEW n,
           IsHighest(t, level, n), updatePagerLock(t, n),
           conn' = [conn EXCEPT ![t].file = level],
           level >= Reserved => \A u \in Threads \ {t} : conn[u].file <= Shared
    PROVE  PagerFits'
<1> USE DEF None, Shared, Reserved, Pending, Exclusive
<1>1. /\ conn'[t].file = level /\ \A u \in Threads \ {t} : conn'[u].file = conn[u].file
      /\ \A u \in Threads : conn[u].file \in None .. Exclusive
  BY DEF BusyInv, TypesFit, Connection
<1>2. m_pagerType' = n
  BY DEF updatePagerLock, pager
<1>3. \A u \in Threads : conn'[u].file <= n
  BY <1>1 DEF IsHighest
<1>4. \E u \in Threads : conn'[u].file = n
  BY <1>1 DEF IsHighest
<1>5. ASSUME NEW u \in Threads \ {t}, conn[u].file >= Reserved
      PROVE  conn[u].file = n /\ m_pagerChangeTid' = u /\ m_localPagerType'[u] = n
  <2>1. level <= Shared /\ m_pagerType = conn[u].file
    BY <1>1, <1>5, OneWriter
  <2>2. \A v \in Threads \ {u} : conn[v].file <= Shared
    BY <1>5, OneWriter
  <2>3. n = m_pagerType
    BY <1>1, <1>5, <2>1, <2>2 DEF IsHighest
  <2>4. m_pagerChangeTid' = m_pagerChangeTid /\ m_localPagerType' = m_localPagerType
    BY <2>3 DEF updatePagerLock, pager
  <2> QED  BY <1>5, <2>1, <2>3, <2>4, OneWriter
<1>6. ASSUME level >= Reserved
      PROVE  level = n /\ m_pagerChangeTid' = t /\ m_localPagerType'[t] = n
  <2>1. n = level
    BY <1>1, <1>6 DEF IsHighest
  <2>2. CASE n = m_pagerType
    <3>1. PICK u \in Threads : conn[u].file = m_pagerType
      BY DEF BusyInv, PagerFits
    <3>2. u = t
      BY <1>1, <1>6, <2>1, <2>2, <3>1
    <3>3. m_pagerChangeTid = t /\ m_localPagerType[t] = m_pagerType
      BY <1>6, <2>1, <2>2, <3>1, <3>2, OneWriter
    <3>4. m_pagerChangeTid' = m_pagerChangeTid /\ m_localPagerType' = m_localPagerType
      BY <2>2 DEF updatePagerLock, pager
    <3> QED  BY <2>1, <2>2, <3>3, <3>4
  <2>3. CASE n # m_pagerType
    BY <2>1, <2>3 DEF updatePagerLock, BusyInv, TypesFit, TypeOK
  <2> QED  BY <2>2, <2>3
<1> QED  BY <1>1, <1>2, <1>3, <1>4, <1>5, <1>6 DEF PagerFits

\* A step that leaves the shared memory alone, in a database with a rollback
\* journal: nobody sleeps on a lock that is gone.  A release that shows in the
\* pager type reaches every sleeper.
LEMMA FileSleep ==
    ASSUME BusyInv, journal = "delete", NEW t \in Threads, NEW level \in None .. Exclusive,
           NEW n, IsHighest(t, level, n), updatePagerLock(t, n), OnlyOf(t),
           conn' = [conn EXCEPT ![t].file = level],
           status[t] # "sleep", status'[t] # "sleep"
    PROVE  SleepFits' /\ (m_waitings \cup notified \subseteq Sleeping)'
<1> USE DEF None, Shared, Reserved, Pending, Exclusive
<1>1. /\ conn'[t].file = level /\ \A u \in Threads \ {t} : conn'[u] = conn[u]
      /\ \A u \in Threads : conn[u].file \in None .. Exclusive
  BY DEF BusyInv, TypesFit, Connection
<1>2. Sleeping' = Sleeping /\ \A u \in Sleeping : u # t /\ m_tryings'[u] = m_tryings[u]
  BY DEF OnlyOf, Sleeping
<1>3. \A u \in Sleeping : /\ u \in Threads
                          /\ m_tryings[u].pager \in {Shared, Reserved}
                          /\ m_tryings[u].shared = {} /\ m_tryings[u].exclusive = {}
  BY DeleteSleeper DEF BusyInv, Sleeping, Pager
<1>4. m_waitings \cup notified \subseteq Sleeping
  BY DEF BusyInv, TypesFit, TypeOK
<1>5. CASE n < m_pagerType
  <2>1. Notifies(Ready(n, n, m_shmMasks))
    BY <1>5, NotifyCases DEF updatePagerLock, IsHighest
  <2>2. Ready(n, n, m_shmMasks) = m_waitings
    BY <1>3, <1>4 DEF Ready, shouldWait, satisfiedByShm
  <2>3. /\ m_waitings' \cup notified' \subseteq Sleeping
        /\ Sleeping \subseteq notified'
    <3>1. Sleeping \subseteq m_waitings \cup notified
      BY DEF BusyInv, SleepFits
    <3> QED  BY <1>4, <2>1, <2>2, <3>1 DEF Notifies, sleepers
  <2> QED  BY <1>2, <2>3 DEF SleepFits
<1>6. CASE ~(n < m_pagerType)
  <2>1. m_waitings' = m_waitings /\ notified' = notified
    BY <1>6 DEF updatePagerLock, sleepers
  <2>2. ASSUME NEW u \in Sleeping \ notified PROVE u \in m_waitings /\ Blocked(u)'
    <3>1. u \in m_waitings /\ Blocked(u)
      BY DEF BusyInv, SleepFits, MainReleases
    <3>2. PICK v \in Threads : Blocks(v, u)
      BY <3>1 DEF Blocked
    <3>3. CASE v # t
      <4>1. Blocks(v, u)'
        BY <1>1, <1>2, <3>2, <3>3 DEF Blocks, Conflicts
      <4> QED  BY <3>1, <4>1 DEF Blocked
    <3>4. CASE v = t
      <4> DEFINE e == m_tryings[u]
      <4>0. /\ e.pager = Shared => conn[t].file >= Pending
            /\ e.pager = Reserved => conn[t].file >= Reserved
        BY <3>2, <3>4, FileBlocks
      <4>1. conn[t].file >= Reserved
        BY <1>1, <1>3, <4>0
      <4>2. m_pagerType = conn[t].file /\ \A w \in Threads \ {t} : conn[w].file <= Shared
        BY <4>1, OneWriter
      <4>3. level >= conn[t].file
        BY <1>1, <1>6, <4>1, <4>2 DEF IsHighest
      <4>4. Blocks(t, u)'
        <5>1. /\ e.pager = Shared => conn'[t].file >= Pending
              /\ e.pager = Reserved => conn'[t].file >= Reserved
          BY <1>1, <4>0, <4>3
        <5>2. m_tryings'[u] = e /\ t # u /\ e.pager \in {Shared, Reserved}
          BY <1>2, <1>3
        <5> QED  BY <5>1, <5>2, FileBlocks
      <4> QED  BY <3>1, <4>4 DEF Blocked
    <3> QED  BY <3>3, <3>4
  <2> QED  BY <1>2, <1>4, <2>1, <2>2 DEF SleepFits
<1> QED  BY <1>5, <1>6 DEF IsHighest
\* All that a step on a lock of the file leaves behind.
LEMMA FileStep ==
    ASSUME BusyInv, journal = "delete", NEW t \in Threads, NEW level \in None .. Exclusive,
           HoldsFile(t, level), OnlyOf(t), status[t] # "sleep", status'[t] # "sleep",
           level >= Reserved => \A u \in Threads \ {t} : conn[u].file <= Shared
    PROVE  RecordFits'
<1>1. PICK n : /\ IsHighest(t, level, n) /\ updatePagerLock(t, n)
               /\ conn' = [conn EXCEPT ![t].file = level]
               /\ m_shmMasks' = m_shmMasks
  BY FileLevel DEF BusyInv
<1>2. PagerFits'
  BY <1>1, FilePager
<1>3. SleepFits' /\ (m_waitings \cup notified \subseteq Sleeping)'
  BY <1>1, FileSleep
<1>4. conn' \in [Threads -> Connection]
  BY <1>1 DEF BusyInv, TypesFit, Connection
<1>5. /\ m_pagerType' \in None .. Exclusive
      /\ m_localPagerType' \in [Threads -> None .. Exclusive]
      /\ m_pagerChangeTid' \in Threads \cup {Nobody}
  BY <1>1 DEF updatePagerLock, IsHighest, pager, BusyInv, TypesFit, TypeOK
<1>6. MasksFit'
  <2>1. \A u \in Threads : conn'[u].shared = conn[u].shared /\ conn'[u].exclusive = conn[u].exclusive
    BY <1>1 DEF BusyInv, TypesFit, Connection
  <2> QED  BY <1>1, <2>1 DEF BusyInv, MasksFit
<1> QED  BY <1>1, <1>2, <1>3, <1>4, <1>5, <1>6 DEF RecordFits, BusyInv, TypesFit, TypeOK

\* With a WAL the lock on the file is of no use to anyone.
LEMMA WalPager ==
    ASSUME BusyInv, journal = "wal"
    PROVE  m_pagerType = None /\ \A u \in Threads : conn[u].file = None
BY DEF BusyInv, PagerFits, Fits, FileFits

LEMMA WalReady ==
    ASSUME BusyInv, journal = "wal", NEW local, NEW masks, NEW u \in m_waitings
    PROVE  u \in Ready(m_pagerType, local, masks)
              <=> \A i \in Threads : satisfiedByShm(m_tryings[u], masks[i])
<1>1. u \in Threads /\ status[u] = "sleep"
  BY DEF BusyInv, TypesFit, TypeOK, Sleeping
<1>2. m_tryings[u].pager = None
  BY <1>1, WalSleeper DEF BusyInv
<1>3. satisfiedByPager(m_tryings[u], m_pagerType)
  BY <1>2 DEF satisfiedByPager, None, Shared, Reserved, Pending, Exclusive
<1> QED  BY <1>3 DEF Ready, shouldWait

\* What the record has of the shared memory after HoldsShm().
LEMMA ShmRecord ==
    ASSUME BusyInv, journal = "wal", NEW t \in Threads, NEW c \in Connection,
           c.file = None, HoldsShm(t, c)
    PROVE  /\ conn' = [conn EXCEPT ![t] = c] /\ conn' \in [Threads -> Connection]
           /\ m_shmMasks' = [m_shmMasks EXCEPT ![t] = [shared |-> c.shared, exclusive |-> c.exclusive]]
           /\ m_shmMasks' \in [Threads -> Mask]
           /\ MasksFit' /\ PagerFits'
           /\ UNCHANGED <<m_pagerType, m_localPagerType, m_pagerChangeTid>>
<1>1. /\ conn' = [conn EXCEPT ![t] = c]
      /\ m_shmMasks' = [m_shmMasks EXCEPT ![t] = [shared |-> c.shared, exclusive |-> c.exclusive]]
      /\ UNCHANGED <<m_pagerType, m_localPagerType, m_pagerChangeTid>>
  BY DEF HoldsShm, updateShmLock, pager
<1>2. conn \in [Threads -> Connection] /\ m_shmMasks \in [Threads -> Mask]
  BY DEF BusyInv, TypesFit, TypeOK
<1>3. conn' \in [Threads -> Connection]
  BY <1>1, <1>2
<1>4. [shared |-> c.shared, exclusive |-> c.exclusive] \in Mask
  BY DEF Connection, Mask
<1>5. m_shmMasks' \in [Threads -> Mask]
  BY <1>1, <1>2, <1>4
<1>6. MasksFit'
  BY <1>1, <1>2 DEF BusyInv, MasksFit
<1>7. \A u \in Threads : conn'[u].file = conn[u].file
  BY <1>1, <1>2, WalPager
<1>8. PagerFits'
  BY <1>1, <1>7 DEF BusyInv, PagerFits
<1> QED  BY <1>1, <1>3, <1>5, <1>6, <1>8

\* A new lock of the shared memory blocks more, and wakes nobody.
LEMMA ShmGrows ==
    ASSUME BusyInv, journal = "wal", NEW t \in Threads, NEW c \in Connection,
           c.file = None, HoldsShm(t, c), OnlyOf(t),
           status[t] # "sleep", status'[t] # "sleep",
           conn[t].shared \subseteq c.shared, conn[t].exclusive \subseteq c.exclusive,
           c.shared # {} \/ c.exclusive # {},
           MainReleases => MainReleases'
    PROVE  RecordFits'
<1>1. /\ conn' = [conn EXCEPT ![t] = c] /\ conn' \in [Threads -> Connection]
      /\ m_shmMasks' \in [Threads -> Mask]
      /\ MasksFit' /\ PagerFits'
      /\ UNCHANGED <<m_pagerType, m_localPagerType, m_pagerChangeTid>>
  BY ShmRecord
<1>2. UNCHANGED <<m_waitings, notified>>
  <2>1. m_shmMasks[t].shared = conn[t].shared /\ m_shmMasks[t].exclusive = conn[t].exclusive
    <3>1. m_shmMasks[t] = [shared |-> conn[t].shared, exclusive |-> conn[t].exclusive]
      BY DEF BusyInv, MasksFit
    <3> QED  BY <3>1
  <2>2. [shared |-> c.shared, exclusive |-> c.exclusive] # NoMask
    BY DEF NoMask
  <2> QED  BY <2>1, <2>2 DEF HoldsShm, updateShmLock, Shrinks, sleepers
<1>3. Sleeping' = Sleeping /\ \A u \in Sleeping : u \in Threads /\ u # t /\ m_tryings'[u] = m_tryings[u]
  BY DEF OnlyOf, Sleeping
<1>4. ASSUME NEW u \in Sleeping, Blocked(u) PROVE Blocked(u)'
  <2>1. PICK v \in Threads : Blocks(v, u)
    BY <1>4 DEF Blocked
  <2>2. m_tryings[u].pager = None
    BY <1>3, WalSleeper DEF BusyInv, Sleeping
  <2>3. v # u /\ ~satisfiedByShm(m_tryings[u], conn[v])
    BY <2>1, <2>2, ShmBlocks
  <2>4. conn[v].shared \subseteq conn'[v].shared /\ conn[v].exclusive \subseteq conn'[v].exclusive
    BY <1>1 DEF BusyInv, TypesFit
  <2>5. ~satisfiedByShm(m_tryings[u], conn'[v])
    BY <2>3, <2>4 DEF satisfiedByShm
  <2>6. Blocks(v, u)'
    BY <1>3, <2>2, <2>3, <2>5, ShmBlocks
  <2> QED  BY <2>6 DEF Blocked
<1>5. SleepFits'
  BY <1>2, <1>3, <1>4 DEF BusyInv, SleepFits
<1>6. (m_waitings \cup notified \subseteq Sleeping)'
  BY <1>2, <1>3 DEF BusyInv, TypesFit, TypeOK
<1> QED  BY <1>1, <1>5, <1>6 DEF RecordFits, BusyInv, TypesFit, TypeOK

\* A release of the shared memory reaches every sleeper that nothing blocks any
\* more, unless the main thread sleeps on.
LEMMA ShmShrinks ==
    ASSUME BusyInv, journal = "wal", NEW t \in Threads, NEW c \in Connection,
           c.file = None, HoldsShm(t, c), OnlyOf(t),
           status[t] # "sleep", status'[t] # "sleep",
           conn[t].shared \ c.shared # {} \/ conn[t].exclusive \ c.exclusive # {}
    PROVE  RecordFits'
<1>1. /\ conn' = [conn EXCEPT ![t] = c] /\ conn' \in [Threads -> Connection]
      /\ m_shmMasks' \in [Threads -> Mask]
      /\ MasksFit' /\ PagerFits'
      /\ UNCHANGED <<m_pagerType, m_localPagerType, m_pagerChangeTid>>
  BY ShmRecord
<1>2. tryNotify(m_pagerType, m_localPagerType[t], m_shmMasks')
  <2>1. m_shmMasks[t].shared = conn[t].shared /\ m_shmMasks[t].exclusive = conn[t].exclusive
    <3>1. m_shmMasks[t] = [shared |-> conn[t].shared, exclusive |-> conn[t].exclusive]
      BY DEF BusyInv, MasksFit
    <3> QED  BY <3>1
  <2>2. Shrinks([shared |-> c.shared, exclusive |-> c.exclusive], m_shmMasks[t])
    BY <2>1 DEF Shrinks
  <2>3. m_shmMasks' = [m_shmMasks EXCEPT ![t] = [shared |-> c.shared, exclusive |-> c.exclusive]]
    BY ShmRecord
  <2> QED  BY <2>2, <2>3 DEF HoldsShm, updateShmLock
<1>3. PICK masks : masks = m_shmMasks'
  OBVIOUS
<1>4. PICK local : local = m_localPagerType[t]
  OBVIOUS
<1>5. PICK R : R = Ready(m_pagerType, local, masks)
  OBVIOUS
<1>6. Notifies(R)
  BY <1>2, <1>3, <1>4, <1>5, NotifyCases
<1>7. Sleeping' = Sleeping /\ \A u \in Sleeping : u \in Threads /\ u # t /\ m_tryings'[u] = m_tryings[u]
  BY DEF OnlyOf, Sleeping
<1>8. m_waitings \cup notified \subseteq Sleeping /\ R \subseteq m_waitings
  BY <1>5 DEF BusyInv, TypesFit, TypeOK, Ready
<1>9. ASSUME NEW u \in m_waitings \ R PROVE Blocked(u)'
  <2>1. u \in Sleeping
    BY <1>8
  <2>2. PICK i \in Threads : ~satisfiedByShm(m_tryings[u], masks[i])
    BY <1>5, <1>9, WalReady
  <2>3. ~satisfiedByShm(m_tryings[u], conn'[i])
    BY <1>1, <1>3, <2>2 DEF MasksFit, satisfiedByShm
  <2>4. m_tryings[u].pager = None /\ satisfiedByShm(m_tryings[u], conn[u])
    BY <2>1, WalSleeper DEF BusyInv, Sleeping
  <2>5. conn'[u] = conn[u]
    BY <1>1, <1>7, <2>1 DEF BusyInv, TypesFit
  <2>6. Blocks(i, u)'
    BY <1>7, <2>1, <2>3, <2>4, <2>5, ShmBlocks
  <2> QED  BY <2>6 DEF Blocked
<1>10. Sleeping \ notified \subseteq m_waitings
  BY DEF BusyInv, SleepFits
<1>11. ASSUME Main \in m_waitings PROVE MainReleases'
  <2>1. Main \in Threads /\ status[Main] = "sleep" /\ Main # t
    BY <1>7, <1>8, <1>11 DEF Sleeping
  <2>2. pc[Main] \in {"shared", "ckptWrite", "ckptRead"}
    BY <2>1 DEF BusyInv, Fits, TryingFits
  <2> QED  BY <2>1, <2>2 DEF OnlyOf, MainReleases
<1>12. SleepFits'
  <2>1. SUFFICES ASSUME NEW u \in Sleeping \ notified'
                 PROVE  u \in m_waitings' /\ (Blocked(u)' \/ (u # Main /\ MainReleases'))
    BY <1>7 DEF SleepFits
  <2>2. CASE (Main \in m_waitings \ R \/ R = {}) /\ UNCHANGED sleepers
    BY <1>9, <1>10, <1>11, <2>2 DEF sleepers
  <2>3. CASE notified' = notified \cup R /\ m_waitings' = m_waitings \ R
    BY <1>9, <1>10, <2>3
  <2>4. CASE notified' = Sleeping /\ m_waitings' = m_waitings
    BY <2>4
  <2> QED  BY <1>6, <2>2, <2>3, <2>4 DEF Notifies
<1>13. (m_waitings \cup notified \subseteq Sleeping)'
  BY <1>6, <1>7, <1>8 DEF Notifies, sleepers
<1> QED  BY <1>1, <1>12, <1>13 DEF RecordFits, BusyInv, TypesFit, TypeOK
-----------------------------------------------------------------------------
(* One lemma per action.                                                   *)

\* The invariant from its parts: what thread t knows of itself, what the
\* record is, and that the connections of the others are as before.
LEMMA StepFits ==
    ASSUME BusyInv, NEW t \in Threads, OnlyOf(t), RecordFits', Fits(t)',
           \A u \in Threads \ {t} : conn'[u] = conn[u]
    PROVE  BusyInv'
<1>1. \A u \in Threads : Fits(u)'
  BY OthersFit DEF BusyInv
<1>2. TypesFit'
  BY DEF OnlyOf, RecordFits, BusyInv, TypesFit, TypeOK
<1> QED  BY <1>1, <1>2 DEF BusyInv, RecordFits

\* A step that touches no lock: the record stays.
LEMMA SameLocks ==
    ASSUME BusyInv, NEW t \in Threads, OnlyOf(t), Fits(t)',
           UNCHANGED <<conn, pager, m_shmMasks, sleepers>>,
           status[t] # "sleep", status'[t] # "sleep",
           MainReleases => MainReleases'
    PROVE  BusyInv'
<1> USE DEF pager, sleepers
<1>1. Sleeping' = Sleeping /\ \A u \in Sleeping : m_tryings'[u] = m_tryings[u]
  BY DEF OnlyOf, Sleeping
<1>2. \A u \in Sleeping : Blocked(u) => Blocked(u)'
  BY <1>1 DEF Blocked, Blocks, Conflicts
<1>3. SleepFits'
  BY <1>1, <1>2 DEF BusyInv, SleepFits
<1>4. MasksFit' /\ PagerFits'
  BY DEF BusyInv, MasksFit, PagerFits
<1>5. RecordFits'
  BY <1>1, <1>3, <1>4 DEF RecordFits, BusyInv, TypesFit, TypeOK
<1> QED  BY <1>5, StepFits

LEMMA StartFits ==
    ASSUME BusyInv, NEW t \in Threads, NEW j \in Jobs, start(t, j)
    PROVE  BusyInv'
<1>1. /\ pc[t] = "idle" /\ status[t] = "run"
      /\ job \in [Threads -> Jobs \cup {"none"}] /\ pc \in [Threads -> Places]
      /\ status \in [Threads -> {"run", "busy", "sleep"}] /\ m_tryings \in [Threads -> Expecting]
  BY DEF start, BusyInv, TypesFit, TypeOK, Fits, TryingFits
<1>2. OnlyOf(t)
  BY <1>1 DEF start, OnlyOf, fixed, Places, Requests
<1>3. /\ job'[t] = j /\ pc'[t] = IF j = "checkpoint" THEN "ckpt" ELSE "shared"
      /\ conn' = conn /\ status' = status /\ journal' = journal
      /\ j = "checkpoint" => journal = "wal"
  BY <1>1 DEF start, fixed
<1>4. JobFits(t)'
  BY <1>3 DEF JobFits, Jobs, Writes
<1>5. FileFits(t)'
  BY <1>1, <1>3 DEF BusyInv, Fits, FileFits
<1>6. ShmFits(t)'
  BY <1>1, <1>3 DEF BusyInv, Fits, ShmFits
<1>7. TryingFits(t)'
  BY <1>1, <1>3 DEF TryingFits
<1>8. MainReleases => MainReleases'
  BY <1>1, <1>2, <1>3, MainAssumption DEF MainReleases, OnlyOf, HoldsNothing
<1> QED  BY <1>1, <1>2, <1>3, <1>4, <1>5, <1>6, <1>7, <1>8, SameLocks DEF start, Fits

LEMMA FinishFits ==
    ASSUME BusyInv, NEW t \in Threads, finish(t)
    PROVE  BusyInv'
<1>1. /\ pc[t] = "release" /\ status[t] = "run" /\ HoldsNothing(t)
      /\ job \in [Threads -> Jobs \cup {"none"}] /\ pc \in [Threads -> Places]
      /\ status \in [Threads -> {"run", "busy", "sleep"}] /\ m_tryings \in [Threads -> Expecting]
  BY DEF finish, BusyInv, TypesFit, TypeOK, Fits, TryingFits
<1>2. OnlyOf(t)
  BY <1>1 DEF finish, OnlyOf, fixed, Places, Requests
<1>3. /\ job'[t] = IF job[t] = "pausable" THEN "pausable" ELSE "none"
      /\ pc'[t] = IF job[t] = "pausable" THEN "shared" ELSE "idle"
      /\ conn' = conn /\ status' = status /\ journal' = journal
  BY <1>1 DEF finish, fixed
<1>4. JobFits(t)'
  BY <1>3 DEF JobFits, Writes
<1>5. FileFits(t)'
  BY <1>1, <1>3 DEF FileFits, HoldsNothing
<1>6. ShmFits(t)'
  BY <1>1, <1>3 DEF HoldsNothing, ShmFits
<1>7. TryingFits(t)'
  BY <1>1, <1>3 DEF TryingFits
<1>8. MainReleases => MainReleases'
  BY <1>1, <1>2, <1>3, MainAssumption DEF MainReleases, OnlyOf, HoldsNothing
<1> QED  BY <1>1, <1>2, <1>3, <1>4, <1>5, <1>6, <1>7, <1>8, SameLocks DEF finish, Fits

\* The transaction ends, its job with it or not.
LEMMA EndsFits ==
    ASSUME BusyInv, NEW t \in Threads, pc[t] = "work", Ends(t),
           \/ job' = job
           \/ job[t] = "pausable" /\ job' = [job EXCEPT ![t] = "write"]
    PROVE  BusyInv'
<1>1. /\ status[t] = "run" /\ job[t] \notin {"none", "checkpoint"}
      /\ job \in [Threads -> Jobs \cup {"none"}] /\ pc \in [Threads -> Places]
      /\ status \in [Threads -> {"run", "busy", "sleep"}] /\ m_tryings \in [Threads -> Expecting]
  BY DEF BusyInv, TypesFit, TypeOK, Fits, TryingFits, JobFits
<1>2. OnlyOf(t)
  BY <1>1 DEF Ends, OnlyOf, fixed, Places, Requests, Jobs
<1>3. /\ job'[t] \in Jobs \ {"checkpoint"} /\ (Writes(t)' <=> Writes(t))
      /\ pc'[t] = IF journal = "delete" /\ Writes(t) THEN "commit" ELSE "release"
      /\ conn' = conn /\ status' = status /\ journal' = journal
  BY <1>1 DEF Ends, fixed, Writes, Jobs
<1>4. JobFits(t)'
  BY <1>3 DEF JobFits, Jobs
<1>5. FileFits(t)'
  BY <1>3 DEF BusyInv, Fits, FileFits
<1>6. ShmFits(t)'
  BY <1>3 DEF BusyInv, Fits, ShmFits
<1>7. TryingFits(t)'
  BY <1>1, <1>3 DEF TryingFits
<1>8. MainReleases => MainReleases'
  <2>1. journal = "wal" => ~HoldsNothing(t)
    BY DEF HoldsNothing, BusyInv, Fits, ShmFits
  <2> QED  BY <1>2, <1>3, <2>1, MainAssumption DEF MainReleases, OnlyOf, HoldsNothing
<1> QED  BY <1>1, <1>2, <1>3, <1>4, <1>5, <1>6, <1>7, <1>8, SameLocks DEF Ends, Fits
\* wait() lets a thread sleep only on a lock of another connection.
LEMMA MustWaitBlocked ==
    ASSUME BusyInv, NEW t \in Threads, status[t] # "run", mustWait(t)
    PROVE  Blocked(t) /\ pc[t] # "commit"
<1>1. Fits(t)
  BY DEF BusyInv
<1>2. CASE journal = "wal"
  <2>1. m_tryings[t].pager = None /\ satisfiedByShm(m_tryings[t], conn[t])
    BY <1>1, <1>2, WalSleeper
  <2>2. satisfiedByPager(m_tryings[t], m_pagerType)
    BY <2>1 DEF satisfiedByPager, None, Shared, Reserved, Pending, Exclusive
  <2>3. PICK i \in Threads : ~satisfiedByShm(m_tryings[t], m_shmMasks[i])
    BY <2>2 DEF mustWait, shouldWait
  <2>4. ~satisfiedByShm(m_tryings[t], conn[i])
    <3>1. m_shmMasks[i] = [shared |-> conn[i].shared, exclusive |-> conn[i].exclusive]
      BY DEF BusyInv, MasksFit
    <3> QED  BY <2>3, <3>1 DEF satisfiedByShm
  <2>5. Blocks(i, t)
    BY <2>1, <2>4, ShmBlocks
  <2> QED  BY <1>1, <1>2, <2>5 DEF Blocked, Fits, JobFits
<1>3. CASE journal = "delete"
  <2>1. pc[t] \in {"shared", "commit"}
    BY <1>1, <1>3 DEF Fits, JobFits, TryingFits
  <2>2. m_tryings[t] \in {Pager(Shared), Pager(Reserved), Pager(Exclusive)}
    BY <1>1, <1>3, <2>1 DEF Fits, TryingFits
  <2>3. \A i \in Threads : satisfiedByShm(m_tryings[t], m_shmMasks[i])
    BY <2>2 DEF satisfiedByShm, Pager
  <2>4. ~satisfiedByPager(m_tryings[t], m_pagerType) /\ m_pagerType # m_localPagerType[t]
    BY <2>3 DEF mustWait, shouldWait
  <2>5. pc[t] # "commit"
    <3>1. SUFFICES ASSUME pc[t] = "commit" PROVE FALSE
      OBVIOUS
    <3>2. conn[t].file >= Reserved
      BY <1>1, <1>3, <3>1 DEF Fits, FileFits, None, Reserved, Pending
    <3> QED  BY <2>4, <3>2, OneWriter
  <2>6. conn[t].file = None /\ m_tryings[t] \in {Pager(Shared), Pager(Reserved)}
    BY <1>1, <1>3, <2>1, <2>5 DEF Fits, FileFits, TryingFits
  <2>7. PICK v \in Threads : conn[v].file = m_pagerType
    BY DEF BusyInv, PagerFits
  <2>8. m_pagerType \in None .. Exclusive
    BY DEF BusyInv, TypesFit, TypeOK
  <2>9. CASE m_tryings[t] = Pager(Shared)
    <3>1. m_tryings[t].pager = Shared
      BY <2>9 DEF Pager
    <3>2. m_pagerType >= Pending
      BY <2>4, <2>8, <3>1 DEF satisfiedByPager, None, Shared, Reserved, Pending, Exclusive
    <3>3. Blocks(v, t)
      BY <2>6, <2>7, <3>1, <3>2, FileBlocks DEF None, Pending
    <3> QED  BY <2>5, <3>3 DEF Blocked
  <2>10. CASE m_tryings[t] = Pager(Reserved)
    <3>1. m_tryings[t].pager = Reserved
      BY <2>10 DEF Pager
    <3>2. m_pagerType >= Reserved
      BY <2>4, <2>8, <3>1 DEF satisfiedByPager, None, Shared, Reserved, Pending, Exclusive
    <3>3. Blocks(v, t)
      BY <2>6, <2>7, <3>1, <3>2, FileBlocks DEF None, Reserved
    <3> QED  BY <2>5, <3>3 DEF Blocked
  <2> QED  BY <2>6, <2>9, <2>10
<1> QED  BY <1>2, <1>3 DEF BusyInv, TypesFit

\* The steps of wait(): thread t goes to sleep or sleeps on, or tries again.
Sleeps(t) == /\ mustWait(t)
             /\ status' = [status EXCEPT ![t] = "sleep"]
             /\ m_waitings' = m_waitings \cup {t}
             /\ m_tryings' = m_tryings

LEMMA HandlerFits ==
    ASSUME BusyInv, NEW t \in Threads, status[t] # "run",
           Sleeps(t) \/ Retries(t), notified' = notified \ {t},
           UNCHANGED <<fixed, job, pc, conn, pager, m_shmMasks>>
    PROVE  BusyInv'
<1> USE DEF fixed, pager
<1>1. /\ job \in [Threads -> Jobs \cup {"none"}] /\ pc \in [Threads -> Places]
      /\ status \in [Threads -> {"run", "busy", "sleep"}] /\ m_tryings \in [Threads -> Expecting]
  BY DEF BusyInv, TypesFit, TypeOK
<1>2. Pager(None) \in Expecting
  BY DEF Pager, Expecting, None, Exclusive
<1>3. OnlyOf(t)
  BY <1>1, <1>2 DEF OnlyOf, Sleeps, Retries
<1>4. Fits(t)'
  <2>1. JobFits(t)'  BY DEF BusyInv, Fits, JobFits, Writes
  <2>2. FileFits(t)'  BY DEF BusyInv, Fits, FileFits, Writes
  <2>3. ShmFits(t)'  BY DEF BusyInv, Fits, ShmFits
  <2>4. CASE Sleeps(t)
    <3>1. pc[t] # "commit"
      BY <2>4, MustWaitBlocked DEF Sleeps
    <3>2. status'[t] = "sleep" /\ m_tryings'[t] = m_tryings[t]
      BY <1>1, <2>4 DEF Sleeps
    <3>3. TryingFits(t)'
      BY <3>1, <3>2 DEF BusyInv, Fits, TryingFits
    <3> QED  BY <2>1, <2>2, <2>3, <3>3 DEF Fits
  <2>5. CASE Retries(t)
    <3>1. status'[t] = "run" /\ pc'[t] # "giveup"
      BY <1>1, <2>5 DEF Retries, BusyInv, Fits, TryingFits
    <3>2. TryingFits(t)'
      BY <3>1 DEF TryingFits
    <3> QED  BY <2>1, <2>2, <2>3, <3>2 DEF Fits
  <2> QED  BY <2>4, <2>5
<1>5. MasksFit' /\ PagerFits'
  BY DEF BusyInv, MasksFit, PagerFits
<1>6. \A u \in Threads \ {t} : u \in Sleeping' <=> u \in Sleeping
  BY <1>3 DEF OnlyOf, Sleeping
<1>7. t \in Sleeping' => Sleeps(t)
  BY <1>1 DEF Retries, Sleeping
<1>8. Sleeps(t) => t \in Sleeping'
  BY <1>1 DEF Sleeps, Sleeping
<1>9. (m_waitings \cup notified \subseteq Sleeping)'
  <2>1. m_waitings \cup notified \subseteq Sleeping /\ Sleeping \subseteq Threads
    BY DEF BusyInv, TypesFit, TypeOK, Sleeping
  <2>2. CASE Sleeps(t)
    BY <1>6, <1>8, <2>1, <2>2 DEF Sleeps
  <2>3. CASE Retries(t)
    BY <1>6, <2>1, <2>3 DEF Retries
  <2> QED  BY <2>2, <2>3
<1>10. SleepFits'
  <2>1. SUFFICES ASSUME NEW u \in Sleeping' \ notified'
                 PROVE  u \in m_waitings' /\ (Blocked(u)' \/ (u # Main /\ MainReleases'))
    BY DEF SleepFits
  <2>2. CASE u # t
    <3>1. u \in Threads /\ u \in Sleeping \ notified
      BY <1>6, <2>2 DEF Sleeping
    <3>2. u \in m_waitings /\ (Blocked(u) \/ (u # Main /\ MainReleases))
      BY <3>1 DEF BusyInv, SleepFits
    <3>3. m_tryings'[u] = m_tryings[u]
      BY <1>3, <2>2, <3>1 DEF OnlyOf
    <3>4. Blocked(u) => Blocked(u)'
      BY <3>3 DEF Blocked, Blocks, Conflicts
    <3>5. MainReleases => MainReleases'
      BY DEF MainReleases, HoldsNothing
    <3>6. u \in m_waitings'
      BY <2>2, <3>2 DEF Sleeps, Retries
    <3> QED  BY <3>2, <3>4, <3>5, <3>6
  <2>3. CASE u = t
    <3>1. Sleeps(t)
      BY <1>7, <2>3
    <3>2. Blocked(t)
      BY <3>1, MustWaitBlocked DEF Sleeps
    <3>3. Blocked(t)'
      BY <3>1, <3>2 DEF Sleeps, Blocked, Blocks, Conflicts
    <3> QED  BY <2>3, <3>1, <3>3 DEF Sleeps
  <2> QED  BY <2>2, <2>3
<1>11. RecordFits'
  BY <1>5, <1>9, <1>10 DEF RecordFits, BusyInv, TypesFit, TypeOK
<1> QED  BY <1>3, <1>4, <1>11, StepFits

LEMMA WaitFits ==
    ASSUME BusyInv, NEW t \in Threads, wait(t) \/ wake(t) \/ timeOut(t)
    PROVE  BusyInv'
<1>1. status \in [Threads -> {"run", "busy", "sleep"}]
  BY DEF BusyInv, TypesFit, TypeOK
<1>2. CASE wait(t)
  <2>1. t \notin notified
    BY <1>2 DEF wait, BusyInv, TypesFit, TypeOK, Sleeping
  <2>2. notified' = notified \ {t}
    BY <1>2, <2>1 DEF wait
  <2>3. Sleeps(t) \/ Retries(t)
    BY <1>2 DEF wait, Sleeps
  <2>4. status[t] # "run" /\ UNCHANGED <<fixed, job, pc, conn, pager, m_shmMasks>>
    BY <1>2 DEF wait, fixed, pager
  <2> QED  BY <2>2, <2>3, <2>4, HandlerFits
<1>3. CASE wake(t)
  <2>1. status[t] = "sleep" /\ [status EXCEPT ![t] = "sleep"] = status
    BY <1>1, <1>3 DEF wake
  <2>2. Sleeps(t) \/ Retries(t)
    BY <1>3, <2>1 DEF wake, Sleeps
  <2>3. notified' = notified \ {t} /\ UNCHANGED <<fixed, job, pc, conn, pager, m_shmMasks>>
    BY <1>3 DEF wake, fixed, pager
  <2> QED  BY <2>1, <2>2, <2>3, HandlerFits
<1>4. CASE timeOut(t)
  <2>1. status[t] # "run" /\ Retries(t) /\ notified' = notified \ {t}
    BY <1>4 DEF timeOut
  <2>2. UNCHANGED <<fixed, job, pc, conn, pager, m_shmMasks>>
    BY <1>4 DEF timeOut, fixed, pager
  <2> QED  BY <2>1, <2>2, HandlerFits
<1> QED  BY <1>2, <1>3, <1>4
\* What is released next: a level of the file with a rollback journal, locks
\* of the shared memory with a WAL.
LEMMA ReleaseCases ==
    ASSUME BusyInv, NEW t \in Threads, Release(t)
    PROVE  \/ /\ journal = "delete"
              /\ \E level \in {None, Shared} :
                    HoldsFile(t, level) /\ (conn[t].file = Shared => level = None)
           \/ /\ journal = "wal"
              /\ \E c \in Connection :
                    /\ c.file = None /\ HoldsShm(t, c)
                    /\ conn[t].shared \ c.shared # {} \/ conn[t].exclusive \ c.exclusive # {}
                    /\ conn[t].exclusive = {} => c.shared = {} /\ c.exclusive = {}
<1>1. conn[t] \in Connection /\ journal \in {"wal", "delete"}
  BY DEF BusyInv, TypesFit
<1>2. journal = "wal" => conn[t].file = None
  BY WalPager
<1>3. journal = "delete" => conn[t].shared = {} /\ conn[t].exclusive = {}
  BY DEF BusyInv, Fits, ShmFits
<1>4. CASE conn[t].file > Shared /\ HoldsFile(t, Shared)
  <2>1. journal = "delete" /\ conn[t].file # Shared
    BY <1>1, <1>2, <1>4 DEF None, Shared, Connection
  <2> QED  BY <1>4, <2>1
<1>5. CASE conn[t].file = Shared /\ HoldsFile(t, None)
  BY <1>1, <1>2, <1>5 DEF None, Shared
<1>6. ASSUME NEW c \in Connection, c.file = conn[t].file, HoldsShm(t, c),
             conn[t].shared \ c.shared # {} \/ conn[t].exclusive \ c.exclusive # {},
             conn[t].exclusive = {} => c.shared = {} /\ c.exclusive = {}
      PROVE  /\ journal = "wal" /\ c.file = None /\ HoldsShm(t, c)
             /\ conn[t].shared \ c.shared # {} \/ conn[t].exclusive \ c.exclusive # {}
             /\ conn[t].exclusive = {} => c.shared = {} /\ c.exclusive = {}
  BY <1>1, <1>2, <1>3, <1>6
<1>7. CASE "READ" \in conn[t].exclusive
           /\ HoldsShm(t, [conn[t] EXCEPT !.exclusive = @ \ {"READ"}])
  <2> DEFINE c == [conn[t] EXCEPT !.exclusive = @ \ {"READ"}]
  <2>1. c \in Connection /\ c.file = conn[t].file /\ conn[t].exclusive \ c.exclusive # {}
    BY <1>1, <1>7 DEF Connection
  <2> QED  BY <1>6, <1>7, <2>1
<1>8. CASE "WRITE" \in conn[t].exclusive
           /\ HoldsShm(t, [conn[t] EXCEPT !.exclusive = @ \ {"WRITE"}])
  <2> DEFINE c == [conn[t] EXCEPT !.exclusive = @ \ {"WRITE"}]
  <2>1. c \in Connection /\ c.file = conn[t].file /\ conn[t].exclusive \ c.exclusive # {}
    BY <1>1, <1>8 DEF Connection
  <2> QED  BY <1>6, <1>8, <2>1
<1>9. CASE conn[t].shared # {} /\ HoldsShm(t, [conn[t] EXCEPT !.shared = {}])
  <2> DEFINE c == [conn[t] EXCEPT !.shared = {}]
  <2>1. /\ c \in Connection /\ c.file = conn[t].file /\ conn[t].shared \ c.shared # {}
        /\ c.shared = {} /\ c.exclusive = conn[t].exclusive
    BY <1>1, <1>9 DEF Connection
  <2> QED  BY <1>6, <1>9, <2>1
<1>10. CASE conn[t].exclusive = {"CKPT"} /\ HoldsShm(t, [conn[t] EXCEPT !.exclusive = {}])
  <2> DEFINE c == [conn[t] EXCEPT !.exclusive = {}]
  <2>1. c \in Connection /\ c.file = conn[t].file /\ conn[t].exclusive \ c.exclusive # {}
    BY <1>1, <1>10 DEF Connection
  <2> QED  BY <1>6, <1>10, <2>1
<1> QED  BY <1>4, <1>5, <1>7, <1>8, <1>9, <1>10 DEF Release

\* The connection of t after a release, and the record.
LEMMA ReleaseFits ==
    ASSUME BusyInv, NEW t \in Threads, Release(t), OnlyOf(t),
           status[t] # "sleep", status'[t] # "sleep"
    PROVE  /\ RecordFits' /\ \A u \in Threads \ {t} : conn'[u] = conn[u]
           /\ journal = "wal" => /\ conn'[t].file = None
                                 /\ conn[t].exclusive = {} =>
                                       conn'[t].shared = {} /\ conn'[t].exclusive = {}
           /\ journal = "delete" => /\ conn'[t].shared = {} /\ conn'[t].exclusive = {}
                                    /\ conn[t].file = Shared => conn'[t].file = None
<1>1. conn \in [Threads -> Connection]
  BY DEF BusyInv, TypesFit
<1>2. CASE journal = "delete"
  <2>1. PICK level \in {None, Shared} :
            HoldsFile(t, level) /\ (conn[t].file = Shared => level = None)
    BY <1>2, ReleaseCases
  <2>2. level \in None .. Exclusive /\ ~(level >= Reserved)
    BY DEF None, Shared, Reserved, Exclusive
  <2>3. RecordFits'
    BY <1>2, <2>1, <2>2, FileStep
  <2>4. conn' = [conn EXCEPT ![t].file = level]
    BY <2>1 DEF HoldsFile
  <2>5. conn[t].shared = {} /\ conn[t].exclusive = {}
    BY <1>2 DEF BusyInv, Fits, ShmFits
  <2>6. /\ conn'[t].file = level /\ conn'[t].shared = {} /\ conn'[t].exclusive = {}
        /\ \A u \in Threads \ {t} : conn'[u] = conn[u]
    BY <1>1, <2>4, <2>5 DEF Connection
  <2> QED  BY <1>2, <2>1, <2>3, <2>6
<1>3. CASE journal = "wal"
  <2>1. PICK c \in Connection :
            /\ c.file = None /\ HoldsShm(t, c)
            /\ conn[t].shared \ c.shared # {} \/ conn[t].exclusive \ c.exclusive # {}
            /\ conn[t].exclusive = {} => c.shared = {} /\ c.exclusive = {}
    BY <1>3, ReleaseCases
  <2>2. RecordFits'
    BY <1>3, <2>1, ShmShrinks
  <2>3. conn' = [conn EXCEPT ![t] = c]
    BY <2>1 DEF HoldsShm
  <2> QED  BY <1>1, <1>3, <2>1, <2>2, <2>3
<1> QED  BY <1>2, <1>3 DEF BusyInv, TypesFit

LEMMA UnlockFits ==
    ASSUME BusyInv, NEW t \in Threads, unlock(t)
    PROVE  BusyInv'
<1>1. /\ pc[t] = "release" /\ status[t] = "run" /\ Fits(t)
      /\ UNCHANGED <<journal, apple, job, pc, status, m_tryings>>
  BY DEF unlock, BusyInv, Fits, TryingFits, fixed, thread
<1>2. OnlyOf(t)
  BY <1>1 DEF OnlyOf, BusyInv, TypesFit, TypeOK
<1>3. /\ RecordFits' /\ \A u \in Threads \ {t} : conn'[u] = conn[u]
      /\ journal = "wal" => conn'[t].file = None
      /\ journal = "delete" => conn'[t].shared = {} /\ conn'[t].exclusive = {}
  BY <1>1, <1>2, ReleaseFits DEF unlock
<1>4. JobFits(t)'
  BY <1>1 DEF Fits, JobFits, Writes
<1>5. FileFits(t)'
  BY <1>1, <1>3 DEF FileFits
<1>6. ShmFits(t)'
  BY <1>1, <1>3 DEF ShmFits
<1>7. TryingFits(t)'
  BY <1>1 DEF TryingFits
<1> QED  BY <1>2, <1>3, <1>4, <1>5, <1>6, <1>7, StepFits DEF Fits

LEMMA UnlockBtreeFits ==
    ASSUME BusyInv, NEW t \in Threads, unlockBtreeIfUnused(t)
    PROVE  BusyInv'
<1>1. /\ pc[t] = "giveup" /\ status[t] = "run" /\ Fits(t)
      /\ UNCHANGED <<journal, apple, job, m_tryings>>
      /\ pc' = [pc EXCEPT ![t] = "shared"] /\ status' = [status EXCEPT ![t] = "busy"]
      /\ pc \in [Threads -> Places] /\ status \in [Threads -> {"run", "busy", "sleep"}]
      /\ journal \in {"wal", "delete"}
  BY DEF unlockBtreeIfUnused, BusyInv, Fits, TryingFits, fixed, TypesFit, TypeOK
<1>2. pc'[t] = "shared" /\ status'[t] = "busy"
  BY <1>1
<1>3. OnlyOf(t)
  BY <1>1 DEF OnlyOf, BusyInv, TypesFit, TypeOK, Places, Requests
<1>4. /\ journal = "wal" => conn[t].exclusive = {}
      /\ journal = "delete" => conn[t].file = Shared
  BY <1>1 DEF Fits, ShmFits, FileFits
<1>5. /\ RecordFits' /\ \A u \in Threads \ {t} : conn'[u] = conn[u]
      /\ conn'[t].file = None /\ conn'[t].shared = {} /\ conn'[t].exclusive = {}
  BY <1>1, <1>2, <1>3, <1>4, ReleaseFits DEF unlockBtreeIfUnused
<1>6. JobFits(t)'
  BY <1>1, <1>2 DEF Fits, JobFits, Writes
<1>7. FileFits(t)'
  BY <1>2, <1>5 DEF FileFits
<1>8. ShmFits(t)'
  BY <1>2, <1>5 DEF ShmFits
<1>9. TryingFits(t)'
  BY <1>1, <1>2 DEF Fits, TryingFits
<1> QED  BY <1>3, <1>5, <1>6, <1>7, <1>8, <1>9, StepFits DEF Fits
\* A request that is granted: where the thread is then, and what it holds.
LEMMA LockWal ==
    ASSUME BusyInv, NEW t \in Threads, lock(t), journal = "wal"
    PROVE  BusyInv'
<1> DEFINE e == Request(t)
           c == [conn[t] EXCEPT !.shared = @ \cup e.shared, !.exclusive = @ \cup e.exclusive]
<1>1. /\ status[t] = "run" /\ Fits(t) /\ conn[t] \in Connection
      /\ conn \in [Threads -> Connection] /\ pc \in [Threads -> Places]
      /\ UNCHANGED <<journal, apple, job, status, m_tryings>>
      /\ pc' = [pc EXCEPT ![t] = Following(t)]
      /\ pc[t] \in Requests
  BY DEF lock, BusyInv, TypesFit, fixed
<1>2. pc[t] \in {"shared", "reserve", "ckpt", "ckptWrite", "ckptRead"}
  BY <1>1 DEF Requests, Fits, JobFits
<1>3. /\ e.pager = None /\ e.shared \subseteq Locks /\ e.exclusive \subseteq Locks
      /\ e.shared # {} \/ e.exclusive # {}
  BY <1>2 DEF Request, ShmShared, ShmExclusive, Locks
<1>4. HoldsShm(t, c)
  BY <1>3 DEF lock
<1>5. /\ c \in Connection /\ c.file = None
      /\ c.shared = conn[t].shared \cup e.shared
      /\ c.exclusive = conn[t].exclusive \cup e.exclusive
  BY <1>1, <1>3, WalPager DEF Connection
<1>6. Following(t) \in Places
  BY <1>2 DEF Following, Places, Requests
<1>7. pc'[t] = Following(t) /\ status'[t] = "run" /\ OnlyOf(t)
  BY <1>1, <1>6 DEF OnlyOf, BusyInv, TypesFit, TypeOK
<1>8. conn' = [conn EXCEPT ![t] = c]
  BY <1>4 DEF HoldsShm
<1>9. conn'[t] = c /\ \A u \in Threads \ {t} : conn'[u] = conn[u]
  BY <1>1, <1>8
<1>10. MainReleases => MainReleases'
  <2>1. CASE t # Main
    BY <1>1, <1>7, <1>9, <2>1, MainAssumption DEF MainReleases, OnlyOf, HoldsNothing
  <2>2. CASE t = Main
    <3>1. Following(t) \notin {"idle", "ckpt"}
      BY <1>2 DEF Following
    <3>2. ~HoldsNothing(t)'
      <4>1. conn'[t].shared # {} \/ conn'[t].exclusive # {}
        BY <1>3, <1>5, <1>9
      <4> QED  BY <4>1 DEF HoldsNothing
    <3> QED  BY <1>1, <1>7, <2>2, <3>1, <3>2 DEF MainReleases
  <2> QED  BY <2>1, <2>2
<1>11. RecordFits'
  BY <1>1, <1>3, <1>4, <1>5, <1>7, <1>10, ShmGrows
<1> HIDE DEF c, e
<1>12. FileFits(t)'
  BY <1>1, <1>5, <1>9 DEF FileFits
<1>13. TryingFits(t)'
  <2>1. Following(t) # "giveup"
    BY <1>2 DEF Following
  <2> QED  BY <1>7, <2>1 DEF TryingFits
<1>14. JobFits(t)'
  BY <1>1, <1>2, <1>7 DEF Fits, JobFits, Following, Writes
<1>15. ShmFits(t)'
  <2>1. CASE pc[t] = "shared"
    <3>1. e = ShmShared({"READ"}) /\ pc'[t] \in {"reserve", "work"}
      BY <1>7, <2>1 DEF e, Request, Following
    <3> QED  BY <1>1, <1>5, <1>9, <2>1, <3>1 DEF Fits, ShmFits, ShmShared
  <2>2. CASE pc[t] = "reserve"
    <3>1. e = ShmExclusive({"WRITE"}) /\ pc'[t] = "work"
      BY <1>7, <2>2 DEF e, Request, Following
    <3> QED  BY <1>1, <1>5, <1>9, <2>2, <3>1 DEF Fits, ShmFits, ShmExclusive
  <2>3. CASE pc[t] = "ckpt"
    <3>1. e = ShmExclusive({"CKPT"}) /\ pc'[t] = "ckptWrite"
      BY <1>7, <2>3 DEF e, Request, Following
    <3> QED  BY <1>1, <1>5, <1>9, <2>3, <3>1 DEF Fits, ShmFits, ShmExclusive
  <2>4. CASE pc[t] = "ckptWrite"
    <3>1. e = ShmExclusive({"WRITE"}) /\ pc'[t] = "ckptRead"
      BY <1>7, <2>4 DEF e, Request, Following
    <3> QED  BY <1>1, <1>5, <1>9, <2>4, <3>1 DEF Fits, ShmFits, ShmExclusive
  <2>5. CASE pc[t] = "ckptRead"
    <3>1. pc'[t] = "release"
      BY <1>7, <2>5 DEF Following
    <3> QED  BY <1>1, <3>1 DEF ShmFits
  <2> QED  BY <1>2, <2>1, <2>2, <2>3, <2>4, <2>5
<1> QED  BY <1>7, <1>9, <1>11, <1>12, <1>13, <1>14, <1>15, StepFits DEF Fits

LEMMA LockDelete ==
    ASSUME BusyInv, NEW t \in Threads, lock(t), journal = "delete"
    PROVE  BusyInv'
<1>1. /\ status[t] = "run" /\ Fits(t) /\ conn[t] \in Connection
      /\ conn \in [Threads -> Connection] /\ pc \in [Threads -> Places]
      /\ UNCHANGED <<journal, apple, job, status, m_tryings>>
      /\ pc' = [pc EXCEPT ![t] = Following(t)]
      /\ pc[t] \in Requests /\ Granted(t)
  BY DEF lock, BusyInv, TypesFit, fixed
<1>2. pc[t] \in {"shared", "reserve", "commit"}
  BY <1>1 DEF Requests, Fits, JobFits
<1>3. PICK level : level = Request(t).pager
  OBVIOUS
<1>4. /\ pc[t] = "shared" => level = Shared /\ Request(t) = Pager(Shared)
      /\ pc[t] = "reserve" => level = Reserved /\ Request(t) = Pager(Reserved)
      /\ pc[t] = "commit" => level = Exclusive /\ Request(t) = Pager(Exclusive)
  BY <1>3 DEF Request, Pager
<1>5. level \in None .. Exclusive /\ level # None
  BY <1>2, <1>4 DEF None, Shared, Reserved, Exclusive
<1>6. HoldsFile(t, level)
  BY <1>3, <1>5 DEF lock
<1>7. Following(t) \in Places \ {"giveup"}
  BY <1>2 DEF Following, Places, Requests
<1>8. pc'[t] = Following(t) /\ status'[t] = "run" /\ OnlyOf(t)
  BY <1>1, <1>7 DEF OnlyOf, BusyInv, TypesFit, TypeOK
<1>9. level >= Reserved => \A u \in Threads \ {t} : conn[u].file <= Shared
  <2>1. ASSUME NEW u \in Threads \ {t}, level >= Reserved PROVE conn[u].file <= Shared
    <3>1. conn[u].file \in None .. Exclusive
      BY <1>1 DEF Connection
    <3>2. PICK e : e = Request(t) /\ ~Conflicts(u, e)
      BY <1>1 DEF Granted
    <3>3. CASE pc[t] = "reserve"
      <4>1. e.pager = Reserved
        BY <1>4, <3>2, <3>3 DEF Pager
      <4>2. ~(conn[u].file >= Reserved)
        BY <3>2, <4>1 DEF Conflicts, None, Shared, Reserved, Pending, Exclusive
      <4> QED  BY <3>1, <4>2 DEF None, Shared, Reserved, Exclusive
    <3>4. CASE pc[t] = "commit"
      <4>1. e.pager = Exclusive
        BY <1>4, <3>2, <3>4 DEF Pager
      <4>2. ~(conn[u].file >= Shared)
        BY <3>2, <4>1 DEF Conflicts, None, Shared, Reserved, Pending, Exclusive
      <4> QED  BY <3>1, <4>2 DEF None, Shared, Exclusive
    <3> QED  BY <1>2, <1>4, <2>1, <3>3, <3>4 DEF Shared, Reserved
  <2> QED  BY <2>1
<1>10. RecordFits'
  BY <1>1, <1>5, <1>6, <1>8, <1>9, FileStep
<1>11. conn' = [conn EXCEPT ![t].file = level]
  BY <1>6 DEF HoldsFile
<1>12. /\ \A u \in Threads \ {t} : conn'[u] = conn[u]
       /\ conn'[t].file = level
       /\ conn'[t].shared = conn[t].shared /\ conn'[t].exclusive = conn[t].exclusive
  BY <1>1, <1>11 DEF Connection
<1>13. JobFits(t)'
  BY <1>1, <1>2, <1>8 DEF Fits, JobFits, Following, Writes
<1>14. FileFits(t)'
  <2>1. CASE pc[t] = "shared"
    BY <1>1, <1>4, <1>8, <1>12, <2>1 DEF FileFits, Following, Writes
  <2>2. CASE pc[t] = "reserve"
    BY <1>1, <1>4, <1>8, <1>12, <2>2 DEF Fits, JobFits, FileFits, Following, Writes
  <2>3. CASE pc[t] = "commit"
    BY <1>1, <1>4, <1>8, <1>12, <2>3 DEF FileFits, Following
  <2> QED  BY <1>2, <2>1, <2>2, <2>3
<1>15. ShmFits(t)'
  BY <1>1, <1>12 DEF Fits, ShmFits
<1>16. TryingFits(t)'
  BY <1>7, <1>8 DEF TryingFits
<1> QED  BY <1>8, <1>10, <1>12, <1>13, <1>14, <1>15, <1>16, StepFits DEF Fits

\* A request that is not granted: what is asked for is remembered.
LEMMA BusyFits ==
    ASSUME BusyInv, NEW t \in Threads, lockIsBusy(t)
    PROVE  BusyInv'
<1>1. /\ status[t] = "run" /\ Fits(t) /\ conn[t] \in Connection
      /\ conn \in [Threads -> Connection] /\ pc \in [Threads -> Places]
      /\ status \in [Threads -> {"run", "busy", "sleep"}] /\ m_tryings \in [Threads -> Expecting]
      /\ job \in [Threads -> Jobs \cup {"none"}]
      /\ journal' = journal /\ apple' = apple
      /\ pc[t] \in Requests /\ (pc[t] = "shared" => journal # "wal")
      /\ journal \in {"wal", "delete"}
  BY DEF lockIsBusy, BusyInv, TypesFit, TypeOK, fixed
<1>2. Request(t) \in Expecting
  BY <1>1 DEF Request, Requests, Expecting, ShmShared, ShmExclusive, Pager, Locks,
               None, Shared, Reserved, Pending, Exclusive
<1>3. CASE pc[t] = "reserve"
  <2>1. /\ UNCHANGED <<conn, pager, m_shmMasks, sleepers, job, status>>
        /\ pc' = [pc EXCEPT ![t] = "giveup"] /\ m_tryings' = [m_tryings EXCEPT ![t] = Request(t)]
    BY <1>3 DEF lockIsBusy, Asks, pager, sleepers
  <2>2. /\ pc'[t] = "giveup" /\ status'[t] = "run" /\ m_tryings'[t] = Request(t)
        /\ conn' = conn /\ job' = job
    BY <1>1, <2>1
  <2>3. OnlyOf(t)
    BY <1>1, <1>2, <2>1 DEF OnlyOf, Places, Requests
  <2>4. JobFits(t)'
    BY <1>1, <1>3, <2>2 DEF Fits, JobFits, Writes
  <2>5. FileFits(t)'
    BY <1>1, <1>3, <2>2 DEF Fits, FileFits
  <2>6. ShmFits(t)'
    BY <1>1, <1>3, <2>2 DEF Fits, ShmFits
  <2>7. TryingFits(t)'
    BY <1>1, <1>3, <2>2 DEF TryingFits, Request
  <2>8. MainReleases => MainReleases'
    BY <1>1, <2>2, <2>3, MainAssumption DEF MainReleases, OnlyOf, HoldsNothing
  <2> QED  BY <1>1, <2>1, <2>2, <2>3, <2>4, <2>5, <2>6, <2>7, <2>8, SameLocks DEF Fits
<1>4. CASE pc[t] = "ckpt"
  <2>1. /\ UNCHANGED <<conn, pager, m_shmMasks, sleepers, status, m_tryings>>
        /\ pc' = [pc EXCEPT ![t] = "idle"] /\ job' = [job EXCEPT ![t] = "none"]
    BY <1>4 DEF lockIsBusy, pager, sleepers
  <2>2. pc'[t] = "idle" /\ job'[t] = "none" /\ status'[t] = "run" /\ conn' = conn
    BY <1>1, <2>1
  <2>3. OnlyOf(t)
    BY <1>1, <2>1 DEF OnlyOf, Places, Requests
  <2>4. JobFits(t)'
    BY <2>2 DEF JobFits
  <2>5. FileFits(t)'
    BY <1>1, <1>4, <2>2 DEF Fits, JobFits, FileFits
  <2>6. ShmFits(t)'
    BY <1>1, <1>4, <2>2 DEF Fits, ShmFits
  <2>7. TryingFits(t)'
    BY <2>2 DEF TryingFits
  <2>8. MainReleases => MainReleases'
    BY <1>1, <1>4, <2>2, <2>3, MainAssumption DEF MainReleases, OnlyOf, HoldsNothing
  <2> QED  BY <1>1, <2>1, <2>2, <2>3, <2>4, <2>5, <2>6, <2>7, <2>8, SameLocks DEF Fits
<1>5. ASSUME pc[t] \in {"shared", "commit", "ckptWrite", "ckptRead"}
      PROVE  /\ job' = job /\ pc' = pc /\ status' = [status EXCEPT ![t] = "busy"]
             /\ m_tryings' = [m_tryings EXCEPT ![t] = Request(t)]
             /\ status'[t] = "busy" /\ m_tryings'[t] = Request(t)
             /\ OnlyOf(t) /\ JobFits(t)' /\ TryingFits(t)'
  <2>1. /\ job' = job /\ pc' = pc /\ status' = [status EXCEPT ![t] = "busy"]
        /\ m_tryings' = [m_tryings EXCEPT ![t] = Request(t)]
    BY <1>5 DEF lockIsBusy, Asks
  <2>2. status'[t] = "busy" /\ m_tryings'[t] = Request(t)
    BY <1>1, <2>1
  <2>3. OnlyOf(t)
    BY <1>1, <1>2, <2>1 DEF OnlyOf
  <2>4. JobFits(t)'
    BY <1>1, <2>1 DEF Fits, JobFits, Writes
  <2>5. TryingFits(t)'
    BY <1>1, <1>5, <2>1, <2>2 DEF TryingFits, Request
  <2> QED  BY <2>1, <2>2, <2>3, <2>4, <2>5
<1>6. CASE pc[t] = "commit"
  <2>1. HoldsFile(t, Pending) /\ journal = "delete"
    BY <1>1, <1>6 DEF lockIsBusy, Fits, JobFits
  <2>2. conn[t].file >= Reserved
    BY <1>1, <1>6, <2>1 DEF Fits, FileFits, None, Reserved, Pending
  <2>3. \A u \in Threads \ {t} : conn[u].file <= Shared
    BY <2>2, OneWriter
  <2>4. Pending \in None .. Exclusive
    BY DEF None, Pending, Exclusive
  <2>5. status[t] # "sleep" /\ status'[t] # "sleep" /\ OnlyOf(t)
    BY <1>1, <1>5, <1>6
  <2>6. RecordFits'
    BY <2>1, <2>3, <2>4, <2>5, FileStep
  <2>7. conn' = [conn EXCEPT ![t].file = Pending]
    BY <2>1 DEF HoldsFile
  <2>8. /\ \A u \in Threads \ {t} : conn'[u] = conn[u]
        /\ conn'[t].file = Pending
        /\ conn'[t].shared = conn[t].shared /\ conn'[t].exclusive = conn[t].exclusive
    BY <1>1, <2>7 DEF Connection
  <2>9. FileFits(t)'
    BY <1>1, <1>5, <1>6, <2>1, <2>8 DEF FileFits
  <2>10. ShmFits(t)'
    BY <1>1, <2>1, <2>8 DEF Fits, ShmFits
  <2> QED  BY <1>5, <1>6, <2>6, <2>8, <2>9, <2>10, StepFits DEF Fits
<1>7. CASE pc[t] \in {"shared", "ckptWrite", "ckptRead"}
  <2>1. UNCHANGED <<conn, pager, m_shmMasks, sleepers>>
    BY <1>7 DEF lockIsBusy, pager, sleepers
  <2>2. conn' = conn /\ job' = job /\ pc' = pc /\ status'[t] = "busy" /\ OnlyOf(t)
        /\ JobFits(t)' /\ TryingFits(t)'
    BY <1>5, <1>7, <2>1
  <2>3. FileFits(t)'
    BY <1>1, <2>2 DEF Fits, FileFits, Writes
  <2>4. ShmFits(t)'
    BY <1>1, <2>2 DEF Fits, ShmFits
  <2>5. MainReleases => MainReleases'
    BY <1>1, <2>2 DEF MainReleases, HoldsNothing
  <2> QED  BY <1>1, <2>1, <2>2, <2>3, <2>4, <2>5, SameLocks DEF Fits
<1> QED  BY <1>1, <1>3, <1>4, <1>6, <1>7 DEF Requests

-----------------------------------------------------------------------------
(* The theorems.                                                           *)

LEMMA BusyInit == Init => BusyInv
<1> SUFFICES ASSUME Init PROVE BusyInv
  OBVIOUS
<1>2. TypesFit
  BY DEF Init, TypesFit, TypeOK, Pager, NoMask, Mask, Expecting, Connection, Places,
         None, Exclusive, Jobs, Sleeping
<1>3. ASSUME NEW t \in Threads PROVE Fits(t)
  <2>1. /\ job[t] = "none" /\ pc[t] = "idle" /\ status[t] = "run"
        /\ conn[t].file = None /\ conn[t].shared = {} /\ conn[t].exclusive = {}
    BY DEF Init
  <2> QED  BY <2>1 DEF Fits, JobFits, FileFits, ShmFits, TryingFits
<1>4. MasksFit
  BY DEF Init, MasksFit, NoMask
<1>5. PagerFits
  BY MainAssumption DEF Init, PagerFits, None, Reserved
<1>6. SleepFits
  BY DEF Init, SleepFits, Sleeping
<1> QED  BY <1>2, <1>3, <1>4, <1>5, <1>6 DEF BusyInv
LEMMA BusyNext == BusyInv /\ [Next]_vars => BusyInv'
<1> SUFFICES ASSUME BusyInv, [Next]_vars PROVE BusyInv'
  OBVIOUS
<1>1. ASSUME NEW t \in Threads, Runs(t) PROVE BusyInv'
  <2>1. CASE lock(t)
    BY <2>1, LockWal, LockDelete DEF BusyInv, TypesFit
  <2>2. CASE lockIsBusy(t)  BY <2>2, BusyFits
  <2>3. CASE unlockBtreeIfUnused(t)  BY <2>3, UnlockBtreeFits
  <2>4. CASE unlock(t)  BY <2>4, UnlockFits
  <2>5. CASE wait(t) \/ wake(t) \/ timeOut(t)  BY <2>5, WaitFits
  <2>6. CASE endWork(t)  BY <2>6, EndsFits DEF endWork
  <2>7. CASE finish(t)  BY <2>7, FinishFits
  <2> QED  BY <1>1, <2>1, <2>2, <2>3, <2>4, <2>5, <2>6, <2>7 DEF Runs
<1>2. ASSUME NEW t \in Threads, stopLoop(t) PROVE BusyInv'
  BY <1>2, EndsFits DEF stopLoop
<1>3. ASSUME NEW t \in Threads, pauseLoop(t) PROVE BusyInv'
  BY <1>3, EndsFits DEF pauseLoop
<1>4. ASSUME NEW t \in Threads, NEW j \in Jobs, start(t, j) PROVE BusyInv'
  BY <1>4, StartFits
<1>5. CASE UNCHANGED vars
  <2> USE <1>5 DEF vars, fixed, thread, pager, sleepers
  <2>1. TypesFit'
    BY DEF BusyInv, TypesFit, TypeOK, Sleeping
  <2>2. \A t \in Threads : Fits(t)'
    BY DEF BusyInv, Fits, JobFits, FileFits, ShmFits, TryingFits, Writes
  <2>3. MasksFit' /\ PagerFits'
    BY DEF BusyInv, MasksFit, PagerFits
  <2>4. \A t : Blocked(t) => Blocked(t)'
    BY DEF Blocked, Blocks, Conflicts
  <2>5. MainReleases => MainReleases'
    BY DEF MainReleases, HoldsNothing
  <2>6. SleepFits'
    BY <2>4, <2>5 DEF BusyInv, SleepFits, Sleeping
  <2> QED  BY <2>1, <2>2, <2>3, <2>6 DEF BusyInv
<1> QED  BY <1>1, <1>2, <1>3, <1>4, <1>5 DEF Next

\* The locks that the hooks of the VFS have recorded are those of the
\* connections, a thread that is in the busy handler holds only what its place
\* says, and no release has been missed.
THEOREM BusyInvariant == Spec => []BusyInv
<1> QED  BY BusyInit, BusyNext, PTL DEF Spec

\* wait() and tryNotify() miss no release: who sleeps without a notification
\* is in the list, and is blocked by another connection or held back for the
\* main thread.
THEOREM BusyNoLostWakeup == Spec => []NoLostWakeup
<1>1. BusyInv => NoLostWakeup
  <2> SUFFICES ASSUME BusyInv PROVE NoLostWakeup
    OBVIOUS
  <2>1. MainReleases => job[Main] # "none"
    BY MainAssumption DEF MainReleases, BusyInv, Fits, JobFits
  <2>2. TypeOK
    BY DEF BusyInv, TypesFit
  <2> QED  BY <2>1, <2>2 DEF NoLostWakeup, BusyInv, SleepFits, Blocked
<1> QED  BY <1>1, BusyInvariant, PTL

\* The culprit that wait() reports when it times out is another thread.
THEOREM BusyNeverWaitsForItself == Spec => []NeverWaitsForItself
<1>1. BusyInv => NeverWaitsForItself
  <2> SUFFICES ASSUME BusyInv, NEW t \in Sleeping
               PROVE  /\ ~satisfiedByPager(m_tryings[t], m_pagerType)
                            => m_pagerChangeTid \notin {t, Nobody}
                      /\ satisfiedByShm(m_tryings[t], m_shmMasks[t])
    BY DEF NeverWaitsForItself
  <2>1. t \in Threads /\ status[t] = "sleep" /\ Fits(t)
    BY DEF Sleeping, BusyInv
  <2>2. m_pagerType \in None .. Exclusive /\ journal \in {"wal", "delete"}
    BY DEF BusyInv, TypesFit, TypeOK
  <2>3. CASE journal = "wal"
    <3>1. m_tryings[t].pager = None /\ satisfiedByShm(m_tryings[t], conn[t])
      BY <2>1, <2>3, WalSleeper
    <3>2. satisfiedByPager(m_tryings[t], m_pagerType)
      BY <3>1 DEF satisfiedByPager, None, Shared, Reserved, Pending, Exclusive
    <3>3. m_shmMasks[t] = [shared |-> conn[t].shared, exclusive |-> conn[t].exclusive]
      BY <2>1 DEF BusyInv, MasksFit
    <3>4. satisfiedByShm(m_tryings[t], m_shmMasks[t])
      BY <3>1, <3>3 DEF satisfiedByShm
    <3> QED  BY <3>2, <3>4
  <2>4. CASE journal = "delete"
    <3>1. m_tryings[t] \in {Pager(Shared), Pager(Reserved)} /\ conn[t].file = None
      BY <2>1, <2>4, DeleteSleeper
    <3>2. /\ m_tryings[t].pager \in {Shared, Reserved}
          /\ satisfiedByShm(m_tryings[t], m_shmMasks[t])
      BY <3>1 DEF Pager, satisfiedByShm
    <3>3. ASSUME ~satisfiedByPager(m_tryings[t], m_pagerType)
          PROVE  m_pagerChangeTid \notin {t, Nobody}
      <4>1. m_pagerType >= Reserved
        <5> USE DEF satisfiedByPager, None, Shared, Reserved, Pending, Exclusive
        <5>1. CASE m_tryings[t].pager = Shared  BY <2>2, <3>3, <5>1
        <5>2. CASE m_tryings[t].pager = Reserved  BY <2>2, <3>3, <5>2
        <5> QED  BY <3>2, <5>1, <5>2
      <4>2. PICK v \in Threads : conn[v].file = m_pagerType
        BY DEF BusyInv, PagerFits
      <4>3. m_pagerChangeTid = v
        BY <4>1, <4>2, OneWriter
      <4>4. v # t
        BY <3>1, <4>1, <4>2 DEF None, Reserved
      <4> QED  BY <4>3, <4>4, MainAssumption
    <3> QED  BY <3>2, <3>3
  <2> QED  BY <2>2, <2>3, <2>4
<1> QED  BY <1>1, BusyInvariant, PTL

\* Sleepers never wait in a circle: a checkpoint that waits for the readers
\* blocks writers and other checkpoints, and nobody who sleeps is a reader.
THEOREM BusyNoCircularWait == Spec => []NoCircularWait
<1>1. BusyInv => NoCircularWait
  <2> SUFFICES ASSUME BusyInv, NEW S \in SUBSET Sleeping, S # {}
               PROVE  \E t \in S : \A u \in S : ~Blocks(u, t)
    BY DEF NoCircularWait
  <2>1. \A t \in S : t \in Threads /\ status[t] = "sleep" /\ Fits(t)
    BY DEF Sleeping, BusyInv
  <2>2. CASE journal = "delete"
    <3>1. ASSUME NEW t \in S, NEW u \in S PROVE ~Blocks(u, t)
      <4>1. m_tryings[t].pager \in {Shared, Reserved} /\ conn[u].file = None
        BY <2>1, <2>2, DeleteSleeper DEF Pager
      <4> QED  BY <4>1, FileBlocks DEF None, Shared, Reserved, Pending
    <3> QED  BY <3>1
  <2>3. CASE journal = "wal"
    <3>1. ASSUME NEW t \in S
          PROVE  /\ m_tryings[t].pager = None
                 /\ pc[t] \in {"shared", "ckptWrite", "ckptRead"}
                 /\ conn[t].shared = {} /\ "READ" \notin conn[t].exclusive
                 /\ pc[t] # "ckptRead" => /\ "WRITE" \notin conn[t].exclusive
                                          /\ m_tryings[t] = ShmExclusive({"WRITE"})
                 /\ pc[t] = "ckptRead" => m_tryings[t] = ShmExclusive({"READ"})
      <4>1. m_tryings[t].pager = None
        BY <2>1, <2>3, WalSleeper
      <4>2. pc[t] \in {"shared", "ckptWrite", "ckptRead"}
        BY <2>1 DEF Fits, TryingFits
      <4>3. conn[t].shared = {} /\ "READ" \notin conn[t].exclusive
        BY <2>1, <2>3, <4>2 DEF Fits, ShmFits
      <4>4. pc[t] # "ckptRead" => "WRITE" \notin conn[t].exclusive
        BY <2>1, <2>3, <4>2 DEF Fits, ShmFits
      <4>5. /\ pc[t] # "ckptRead" => m_tryings[t] = ShmExclusive({"WRITE"})
            /\ pc[t] = "ckptRead" => m_tryings[t] = ShmExclusive({"READ"})
        BY <2>1, <2>3, <4>2 DEF Fits, TryingFits
      <4> QED  BY <4>1, <4>2, <4>3, <4>4, <4>5
    <3>2. ASSUME NEW t \in S, NEW u \in S, Blocks(u, t)
          PROVE  pc[t] # "ckptRead" /\ pc[u] = "ckptRead"
      <4>1. ~satisfiedByShm(m_tryings[t], conn[u])
        BY <3>1, <3>2, ShmBlocks
      <4>2. CASE pc[t] = "ckptRead"
        BY <3>1, <4>1, <4>2 DEF satisfiedByShm, ShmExclusive
      <4>3. CASE pc[t] # "ckptRead" /\ pc[u] # "ckptRead"
        BY <3>1, <4>1, <4>3 DEF satisfiedByShm, ShmExclusive
      <4> QED  BY <4>2, <4>3
    <3> QED  BY <3>2
  <2> QED  BY <2>2, <2>3 DEF BusyInv, TypesFit
<1> QED  BY <1>1, BusyInvariant, PTL
=============================================================================
