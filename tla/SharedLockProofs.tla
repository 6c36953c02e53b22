-------------------------- MODULE SharedLockProofs --------------------------
(***************************************************************************)
(* Proofs about SharedLock, for any set of threads, either kind of         *)
(* notification and any nesting.                                           *)
(*                                                                         *)
(* The inductive invariant LockInv joins the properties that the runs      *)
(* check with the two facts they miss: the sets whose cardinalities the    *)
(* counters hold are finite, and a thread's shared holds (with the one it  *)
(* waits for) fit in its section.                                          *)
(***************************************************************************)
EXTENDS SharedLock, FiniteSetTheorems, TLAPS

\* SharedHolds as a function of the per-thread counters.
Holds(f) == {h \in Threads \X (1 .. MaxNest) : h[2] <= f[h[1]]}

\* The readers that sleep in lockShared(), as a function of pc.
SleepingReaders(p) == {t \in Threads : p[t] \in {"waitReaders", "wokenReaders"}}

CountersFinite == IsFiniteSet(Holds(m_threadedReaders)) /\ IsFiniteSet(SleepingReaders(pc))

NestCovers ==
    \A t \in Threads :
        /\ m_threadedReaders[t] <= nest[t]
        /\ pc[t] \in {"waitReaders", "wokenReaders"} => m_threadedReaders[t] < nest[t]

LockInv ==
    /\ TypeOK
    /\ CountersFinite
    /\ NestCovers
    /\ Exclusion
    /\ HolderNeverWaits
    /\ PendingMatchesWaiting
    /\ NoLostWakeup

-----------------------------------------------------------------------------
(* Counting                                                                *)

\* One more shared hold of t is one more element of Holds.
LEMMA HoldsGrow ==
    ASSUME NEW f \in [Threads -> Nat], NEW t \in Threads,
           f[t] + 1 <= MaxNest, IsFiniteSet(Holds(f))
    PROVE  /\ IsFiniteSet(Holds([f EXCEPT ![t] = @ + 1]))
           /\ Cardinality(Holds([f EXCEPT ![t] = @ + 1])) = Cardinality(Holds(f)) + 1
<1> DEFINE g == [f EXCEPT ![t] = @ + 1]
           new == <<t, f[t] + 1>>
<1>1. Holds(g) = Holds(f) \cup {new}
  BY SharedLockAssumption DEF Holds
<1>2. new \notin Holds(f)
  BY DEF Holds
<1>3. /\ IsFiniteSet(Holds(f) \cup {new})
      /\ Cardinality(Holds(f) \cup {new}) = Cardinality(Holds(f)) + 1
  <2> HIDE DEF new
  <2> QED  BY <1>2, FS_AddElement
<1> QED
  BY <1>1, <1>3

\* One hold less is one element less.
LEMMA HoldsShrink ==
    ASSUME NEW f \in [Threads -> Nat], NEW t \in Threads,
           f[t] > 0, f[t] <= MaxNest, IsFiniteSet(Holds(f))
    PROVE  /\ IsFiniteSet(Holds([f EXCEPT ![t] = @ - 1]))
           /\ Cardinality(Holds([f EXCEPT ![t] = @ - 1])) = Cardinality(Holds(f)) - 1
<1> DEFINE g == [f EXCEPT ![t] = @ - 1]
           old == <<t, f[t]>>
<1>1. Holds(g) = Holds(f) \ {old}
  BY SharedLockAssumption DEF Holds
<1>2. old \in Holds(f)
  BY SharedLockAssumption DEF Holds
<1>3. /\ IsFiniteSet(Holds(f) \ {old})
      /\ Cardinality(Holds(f) \ {old}) = Cardinality(Holds(f)) - 1
  <2> HIDE DEF old
  <2> QED  BY <1>2, FS_RemoveElement
<1> QED
  BY <1>1, <1>3

\* No counted hold: nobody shares.
LEMMA NoHolds ==
    ASSUME NEW f \in [Threads -> Nat], IsFiniteSet(Holds(f))
    PROVE  Cardinality(Holds(f)) = 0 <=> \A t \in Threads : f[t] = 0
<1>1. Holds(f) = {} <=> \A t \in Threads : f[t] = 0
  <2>1. ASSUME Holds(f) = {}, NEW t \in Threads
        PROVE  f[t] = 0
    <3>1. <<t, 1>> \in Threads \X (1 .. MaxNest)
      BY SharedLockAssumption
    <3>2. <<t, 1>> \notin Holds(f)
      BY <2>1
    <3> QED
      BY <3>1, <3>2 DEF Holds
  <2>2. ASSUME \A t \in Threads : f[t] = 0
        PROVE  Holds(f) = {}
    BY <2>2 DEF Holds
  <2> QED
    BY <2>1, <2>2
<1> QED
  BY <1>1, FS_EmptySet

\* A reader that goes to sleep is one more sleeping reader.
LEMMA SleepersAdd ==
    ASSUME NEW p \in [Threads -> Places], NEW t \in Threads, p[t] = "run",
           IsFiniteSet(SleepingReaders(p))
    PROVE  LET q == [p EXCEPT ![t] = "waitReaders"] IN
           /\ IsFiniteSet(SleepingReaders(q))
           /\ Cardinality(SleepingReaders(q)) = Cardinality(SleepingReaders(p)) + 1
<1> DEFINE q == [p EXCEPT ![t] = "waitReaders"]
<1>1. SleepingReaders(q) = SleepingReaders(p) \cup {t}
  BY DEF SleepingReaders
<1>2. t \notin SleepingReaders(p)
  BY DEF SleepingReaders
<1>3. /\ IsFiniteSet(SleepingReaders(p) \cup {t})
      /\ Cardinality(SleepingReaders(p) \cup {t}) = Cardinality(SleepingReaders(p)) + 1
  BY <1>2, FS_AddElement
<1> QED
  BY <1>1, <1>3

\* A reader that goes on is no longer counted.
LEMMA SleepersRemove ==
    ASSUME NEW p \in [Threads -> Places], NEW t \in Threads, p[t] = "wokenReaders",
           IsFiniteSet(SleepingReaders(p))
    PROVE  LET q == [p EXCEPT ![t] = "run"] IN
           /\ IsFiniteSet(SleepingReaders(q))
           /\ Cardinality(SleepingReaders(q)) = Cardinality(SleepingReaders(p)) - 1
<1> DEFINE q == [p EXCEPT ![t] = "run"]
<1>1. SleepingReaders(q) = SleepingReaders(p) \ {t}
  BY DEF SleepingReaders
<1>2. t \in SleepingReaders(p)
  BY DEF SleepingReaders
<1>3. /\ IsFiniteSet(SleepingReaders(p) \ {t})
      /\ Cardinality(SleepingReaders(p) \ {t}) = Cardinality(SleepingReaders(p)) - 1
  BY <1>2, FS_RemoveElement
<1> QED
  BY <1>1, <1>3

-----------------------------------------------------------------------------
(* The inductive invariant                                                 *)

\* A lock just constructed has no holder, no waiter and nothing to notify.
LEMMA InitLockInv == Init => LockInv
<1> SUFFICES ASSUME Init PROVE LockInv
  OBVIOUS
<1>1. TypeOK
  BY SharedLockAssumption DEF Init, TypeOK, Places
<1>2. Holds(m_threadedReaders) = {} /\ SleepingReaders(pc) = {}
  BY DEF Init, Holds, SleepingReaders
<1>3. SharedHolds = {}
  BY <1>2 DEF SharedHolds, Holds
<1>4. CountersFinite
  BY <1>2, FS_EmptySet DEF CountersFinite
<1>5. NestCovers
  BY <1>2 DEF Init, NestCovers
<1>6. Exclusion
  BY <1>3, FS_EmptySet, SharedLockAssumption DEF Init, Exclusion, level
<1>7. HolderNeverWaits
  BY DEF Init, HolderNeverWaits
<1>8. PendingMatchesWaiting
  BY <1>2, FS_EmptySet DEF Init, PendingMatchesWaiting, SleepingReaders
<1>9. NoLostWakeup
  BY DEF Init, NoLostWakeup
<1> QED
  BY <1>1, <1>4, <1>5, <1>6, <1>7, <1>8, <1>9 DEF LockInv

\* What NoHolds says of a state that satisfies the invariant.
LEMMA ReadersCounted ==
    ASSUME LockInv
    PROVE  /\ m_readers = 0 <=> \A t \in Threads : m_threadedReaders[t] = 0
           /\ m_pendingReaders = 0 <=> SleepingReaders(pc) = {}
<1>1. m_readers = Cardinality(Holds(m_threadedReaders))
  BY DEF LockInv, Exclusion, SharedHolds, Holds
<1>2. m_pendingReaders = Cardinality(SleepingReaders(pc))
  BY DEF LockInv, PendingMatchesWaiting, SleepingReaders
<1>3. m_threadedReaders \in [Threads -> Nat]
  BY DEF LockInv, TypeOK
<1> QED
  BY <1>1, <1>2, <1>3, NoHolds, FS_EmptySet DEF LockInv, CountersFinite

\* Granting a shared hold to a thread keeps the counters right: the part that
\* lockShared() and readerWakes share.
LEMMA GrantCounts ==
    ASSUME LockInv, NEW t \in Threads, GrantShared(t),
           m_threadedReaders[t] + 1 <= MaxNest
    PROVE  /\ m_readers' \in Nat /\ m_threadedReaders' \in [Threads -> Nat]
           /\ IsFiniteSet(Holds(m_threadedReaders'))
           /\ m_readers' = Cardinality(Holds(m_threadedReaders'))
<1>1. m_readers = Cardinality(Holds(m_threadedReaders))
  BY DEF LockInv, Exclusion, SharedHolds, Holds
<1>2. m_threadedReaders \in [Threads -> Nat] /\ m_readers \in Nat
  BY DEF LockInv, TypeOK
<1>3. IsFiniteSet(Holds(m_threadedReaders))
  BY DEF LockInv, CountersFinite
<1> DEFINE g == [m_threadedReaders EXCEPT ![t] = @ + 1]
<1>4. IsFiniteSet(Holds(g)) /\ Cardinality(Holds(g)) = Cardinality(Holds(m_threadedReaders)) + 1
  BY <1>2, <1>3, HoldsGrow
<1>5. m_threadedReaders' = g /\ m_readers' = m_readers + 1
  BY DEF GrantShared
<1>6. g \in [Threads -> Nat]
  BY <1>2
<1> HIDE DEF g
<1> QED
  BY <1>1, <1>2, <1>4, <1>5, <1>6

\* lockShared() preserves the invariant, whether it returns or goes to sleep.
LEMMA LockSharedInv ==
    ASSUME LockInv, NEW t \in Threads, lockShared(t)
    PROVE  LockInv'
<1>1. CASE ReaderMustWait(t)
  <2>1. /\ m_pendingReaders' = m_pendingReaders + 1
        /\ pc' = [pc EXCEPT ![t] = "waitReaders"]
        /\ pc[t] = "run"
        /\ nest[t] < MaxNest
        /\ nest' = [nest EXCEPT ![t] = @ + 1]
        /\ UNCHANGED <<m_readers, m_threadedReaders, m_writers, m_pendingWriters, m_locking>>
    BY <1>1 DEF lockShared, Enter, Goto
  <2>2. TypeOK'
    BY <2>1, SharedLockAssumption DEF LockInv, TypeOK, Places
  <2>3. /\ IsFiniteSet(SleepingReaders(pc'))
        /\ Cardinality(SleepingReaders(pc')) = Cardinality(SleepingReaders(pc)) + 1
    BY <2>1, SleepersAdd DEF LockInv, TypeOK, CountersFinite
  <2>4. CountersFinite'
    BY <2>1, <2>3 DEF LockInv, CountersFinite
  <2>5. NestCovers'
    BY <2>1 DEF LockInv, TypeOK, NestCovers
  <2>6. Exclusion'
    BY <2>1 DEF LockInv, Exclusion, SharedHolds, level
  <2>7. level(t) = "None"
    BY <1>1, SharedLockAssumption DEF LockInv, Exclusion, ReaderMustWait, level, TypeOK
  <2>8. HolderNeverWaits'
    BY <2>1, <2>7 DEF LockInv, HolderNeverWaits, level, TypeOK
  <2>9. PendingMatchesWaiting'
    BY <2>1, <2>3 DEF LockInv, PendingMatchesWaiting, SleepingReaders, TypeOK
  <2>10. NoLostWakeup'
    BY <1>1, <2>1 DEF LockInv, NoLostWakeup, TypeOK, ReaderMustWait, PendingMatchesWaiting
  <2> QED
    BY <2>2, <2>4, <2>5, <2>6, <2>8, <2>9, <2>10 DEF LockInv
<1>2. CASE ~ReaderMustWait(t)
  <2>1. /\ GrantShared(t)
        /\ pc[t] = "run"
        /\ nest[t] < MaxNest
        /\ nest' = [nest EXCEPT ![t] = @ + 1]
        /\ UNCHANGED <<m_pendingReaders, pc, m_writers, m_pendingWriters, m_locking>>
    BY <1>2 DEF lockShared, Enter
  <2>2. m_threadedReaders[t] + 1 <= MaxNest
    BY <2>1, SharedLockAssumption DEF LockInv, TypeOK, NestCovers
  <2>3. /\ m_readers' \in Nat /\ m_threadedReaders' \in [Threads -> Nat]
        /\ IsFiniteSet(Holds(m_threadedReaders'))
        /\ m_readers' = Cardinality(Holds(m_threadedReaders'))
    BY <2>1, <2>2, GrantCounts
  <2>4. TypeOK'
    BY <2>1, SharedLockAssumption DEF LockInv, TypeOK, GrantShared
  <2>5. CountersFinite'
    BY <2>1, <2>3 DEF LockInv, CountersFinite
  <2>6. NestCovers'
    BY <2>1 DEF LockInv, TypeOK, NestCovers, GrantShared
  <2>7. m_locking = t \/ m_locking = NoThread
    BY <1>2 DEF LockInv, Exclusion, ReaderMustWait, TypeOK
  <2>8. Exclusion'
    <3>1. m_readers' = Cardinality(SharedHolds')
      BY <2>3 DEF SharedHolds, Holds
    <3>2. m_writers' > 0 <=> m_locking' # NoThread
      BY <2>1 DEF LockInv, Exclusion
    <3>3. ASSUME NEW u \in Threads, level(u)' = "Write", NEW v \in Threads \ {u}
          PROVE  level(v)' = "None"
      BY <2>1, <2>7, <3>3, SharedLockAssumption
      DEF LockInv, Exclusion, level, GrantShared, TypeOK
    <3> QED
      BY <3>1, <3>2, <3>3 DEF Exclusion
  <2>9. HolderNeverWaits'
    BY <2>1 DEF LockInv, HolderNeverWaits, level, TypeOK, GrantShared
  <2>10. PendingMatchesWaiting'
    BY <2>1 DEF LockInv, PendingMatchesWaiting
  <2>11. NoLostWakeup'
    BY <2>1 DEF LockInv, NoLostWakeup, GrantShared, TypeOK
  <2> QED
    BY <2>4, <2>5, <2>6, <2>8, <2>9, <2>10, <2>11 DEF LockInv
<1> QED
  BY <1>1, <1>2

\* A woken reader preserves the invariant, whether it sleeps again or goes on.
LEMMA ReaderWakesInv ==
    ASSUME LockInv, NEW t \in Threads, readerWakes(t)
    PROVE  LockInv'
<1>1. CASE m_writers > 0 \/ m_pendingWriters # <<>>
  <2>1. /\ pc[t] = "wokenReaders"
        /\ pc' = [pc EXCEPT ![t] = "waitReaders"]
        /\ UNCHANGED <<lockState, nest>>
    BY <1>1 DEF readerWakes, Goto, lockState, LockInv, TypeOK
  <2>2. SleepingReaders(pc') = SleepingReaders(pc)
    BY <2>1 DEF LockInv, TypeOK, SleepingReaders
  <2>3. TypeOK' /\ CountersFinite' /\ NestCovers'
    BY <2>1, <2>2 DEF LockInv, TypeOK, Places, CountersFinite, NestCovers, lockState
  <2>4. Exclusion' /\ HolderNeverWaits'
    BY <2>1 DEF LockInv, TypeOK, Exclusion, SharedHolds, HolderNeverWaits, level, lockState
  <2>5. PendingMatchesWaiting'
    BY <2>1, <2>2 DEF LockInv, TypeOK, PendingMatchesWaiting, SleepingReaders, lockState
  <2>6. NoLostWakeup'
    BY <1>1, <2>1 DEF LockInv, TypeOK, NoLostWakeup, lockState
  <2> QED
    BY <2>3, <2>4, <2>5, <2>6 DEF LockInv
<1>2. CASE m_writers = 0 /\ m_pendingWriters = <<>>
  <2>1. /\ pc[t] = "wokenReaders"
        /\ m_pendingReaders' = m_pendingReaders - 1
        /\ GrantShared(t)
        /\ pc' = [pc EXCEPT ![t] = "run"]
        /\ UNCHANGED <<m_writers, m_pendingWriters, m_locking, nest>>
    BY <1>2 DEF readerWakes, Goto
  <2>2. m_threadedReaders[t] + 1 <= nest[t] /\ nest[t] \in 0 .. MaxNest
    BY <2>1 DEF LockInv, TypeOK, NestCovers
  <2>3. m_threadedReaders[t] + 1 <= MaxNest
    BY <2>2, SharedLockAssumption DEF LockInv, TypeOK
  <2>4. /\ m_readers' \in Nat /\ m_threadedReaders' \in [Threads -> Nat]
        /\ IsFiniteSet(Holds(m_threadedReaders'))
        /\ m_readers' = Cardinality(Holds(m_threadedReaders'))
    BY <2>1, <2>3, GrantCounts
  <2>5. /\ IsFiniteSet(SleepingReaders(pc'))
        /\ Cardinality(SleepingReaders(pc')) = Cardinality(SleepingReaders(pc)) - 1
    BY <2>1, SleepersRemove DEF LockInv, TypeOK, CountersFinite
  <2>6. t \in SleepingReaders(pc)
    BY <2>1 DEF SleepingReaders
  <2>7. m_pendingReaders' \in Nat
    BY <2>1, <2>6, ReadersCounted DEF LockInv, TypeOK
  <2>8. TypeOK'
    BY <2>1, <2>7 DEF LockInv, TypeOK, GrantShared, Places
  <2>9. CountersFinite'
    BY <2>4, <2>5 DEF CountersFinite
  <2>10. NestCovers'
    BY <2>1, <2>2 DEF LockInv, TypeOK, NestCovers, GrantShared
  <2>11. m_locking = NoThread
    BY <1>2 DEF LockInv, Exclusion
  <2>12. Exclusion'
    <3>1. m_readers' = Cardinality(SharedHolds')
      BY <2>4 DEF SharedHolds, Holds
    <3>2. m_writers' = 0 /\ m_locking' = NoThread
      BY <1>2, <2>1, <2>11
    <3>3. \A u \in Threads : level(u)' # "Write"
      BY <3>2, SharedLockAssumption DEF level
    <3> QED
      BY <3>1, <3>2, <3>3 DEF Exclusion
  <2>13. HolderNeverWaits'
    BY <2>1 DEF LockInv, HolderNeverWaits, level, TypeOK, GrantShared
  <2>14. PendingMatchesWaiting'
    BY <2>1, <2>5 DEF LockInv, PendingMatchesWaiting, SleepingReaders, TypeOK
  <2>15. NoLostWakeup'
    BY <1>2, <2>1 DEF LockInv, NoLostWakeup, TypeOK
  <2> QED
    BY <2>8, <2>9, <2>10, <2>12, <2>13, <2>14, <2>15 DEF LockInv
<1> QED
  BY <1>1, <1>2 DEF readerWakes

\* What notifying the writers does to pc: only sleeping writers move, and the
\* front one is awake afterwards.
LEMMA NotifyWritersEffect ==
    ASSUME LockInv, NotifyWriters, m_pendingWriters # <<>>
    PROVE  /\ pc' \in [Threads -> Places]
           /\ \A u \in Threads : \/ pc'[u] = pc[u]
                                 \/ pc[u] = "waitWriters" /\ pc'[u] = "wokenWriters"
           /\ Head(m_pendingWriters) \in Threads
           /\ pc'[Head(m_pendingWriters)] = "wokenWriters"
<1>1. Head(m_pendingWriters) \in Threads /\ Head(m_pendingWriters) = m_pendingWriters[1]
  BY DEF LockInv, TypeOK
<1>2. 1 \in DOMAIN m_pendingWriters
  BY DEF LockInv, TypeOK
<1>3. pc[Head(m_pendingWriters)] \in {"waitWriters", "wokenWriters"}
  BY <1>1, <1>2 DEF LockInv, PendingMatchesWaiting
<1> QED
  BY <1>1, <1>3 DEF NotifyWriters, LockInv, TypeOK, Places

\* A notification of writers leaves every conjunct on the waiting threads alone.
LEMMA WritersMove ==
    ASSUME LockInv, pc' \in [Threads -> Places],
           \A u \in Threads : \/ pc'[u] = pc[u]
                              \/ pc[u] = "waitWriters" /\ pc'[u] = "wokenWriters",
           UNCHANGED <<m_pendingWriters, m_pendingReaders>>
    PROVE  /\ SleepingReaders(pc') = SleepingReaders(pc)
           /\ PendingMatchesWaiting'
           /\ \A u \in Threads : pc[u] = "run" <=> pc'[u] = "run"
           /\ \A u \in Threads : pc[u] = "waitReaders" <=> pc'[u] = "waitReaders"
<1>1. SleepingReaders(pc') = SleepingReaders(pc)
  BY DEF SleepingReaders
<1>2. \A u \in Threads : pc[u] \in {"waitWriters", "wokenWriters"}
                          <=> pc'[u] \in {"waitWriters", "wokenWriters"}
  OBVIOUS
<1>3. PendingMatchesWaiting'
  BY <1>1, <1>2 DEF LockInv, PendingMatchesWaiting, SleepingReaders
<1> QED
  BY <1>1, <1>3

\* unlockShared() preserves the invariant; its notification is what makes
\* NoLostWakeup hold when the last reader leaves.
LEMMA UnlockSharedInv ==
    ASSUME LockInv, NEW t \in Threads, unlockShared(t)
    PROVE  LockInv'
<1>1. /\ pc[t] = "run"
      /\ m_threadedReaders[t] > 0
      /\ m_threadedReaders' = [m_threadedReaders EXCEPT ![t] = @ - 1]
      /\ m_readers' = m_readers - 1
      /\ NotifyIfLastReader
      /\ UNCHANGED <<m_writers, m_pendingReaders, m_pendingWriters, m_locking>>
  BY DEF unlockShared, MayUnshare
<1>2. /\ nest' \in [Threads -> 0 .. MaxNest]
      /\ \A u \in Threads \ {t} : nest'[u] = nest[u]
      /\ nest'[t] = nest[t] \/ (m_threadedReaders'[t] = 0 /\ nest'[t] = 0)
  BY <1>1, SharedLockAssumption DEF unlockShared, Leave, LockInv, TypeOK
<1>3. m_threadedReaders[t] <= MaxNest
  BY SharedLockAssumption DEF LockInv, TypeOK, NestCovers
<1>4. /\ IsFiniteSet(Holds(m_threadedReaders'))
      /\ m_readers' = Cardinality(Holds(m_threadedReaders'))
  <2> DEFINE g == [m_threadedReaders EXCEPT ![t] = @ - 1]
  <2>1. IsFiniteSet(Holds(g)) /\ Cardinality(Holds(g)) = Cardinality(Holds(m_threadedReaders)) - 1
    BY <1>1, <1>3, HoldsShrink DEF LockInv, TypeOK, CountersFinite
  <2>2. m_readers = Cardinality(Holds(m_threadedReaders))
    BY DEF LockInv, Exclusion, SharedHolds, Holds
  <2>3. m_threadedReaders' = g
    BY <1>1
  <2> HIDE DEF g
  <2> QED
    BY <1>1, <2>1, <2>2, <2>3
<1>5. m_readers' \in Nat /\ m_readers # 0
  <2>1. m_readers # 0
    BY <1>1, ReadersCounted
  <2> QED
    BY <1>1, <2>1 DEF LockInv, TypeOK
<1>6. /\ pc' \in [Threads -> Places]
      /\ \A u \in Threads : \/ pc'[u] = pc[u]
                            \/ pc[u] = "waitWriters" /\ pc'[u] = "wokenWriters"
  BY <1>1, NotifyWritersEffect DEF NotifyIfLastReader, LockInv, TypeOK
<1>7. /\ SleepingReaders(pc') = SleepingReaders(pc)
      /\ PendingMatchesWaiting'
      /\ \A u \in Threads : pc[u] = "run" <=> pc'[u] = "run"
      /\ \A u \in Threads : pc[u] = "waitReaders" <=> pc'[u] = "waitReaders"
  BY <1>1, <1>6, WritersMove
<1>8. TypeOK'
  <2>1. m_threadedReaders' \in [Threads -> Nat]
    BY <1>1 DEF LockInv, TypeOK
  <2> QED
    BY <1>1, <1>2, <1>5, <1>6, <2>1 DEF LockInv, TypeOK
<1>9. CountersFinite'
  BY <1>4, <1>7 DEF LockInv, CountersFinite
<1>10. NestCovers'
  BY <1>1, <1>2, <1>6 DEF LockInv, TypeOK, NestCovers
<1>11. Exclusion'
  <2>1. m_readers' = Cardinality(SharedHolds')
    BY <1>4 DEF SharedHolds, Holds
  <2>2. m_writers' > 0 <=> m_locking' # NoThread
    BY <1>1 DEF LockInv, Exclusion
  <2>3. ASSUME NEW u \in Threads, level(u)' = "Write", NEW v \in Threads \ {u}
        PROVE  level(v)' = "None"
    BY <1>1, <2>3 DEF LockInv, TypeOK, Exclusion, level
  <2> QED
    BY <2>1, <2>2, <2>3 DEF Exclusion
<1>12. HolderNeverWaits'
  BY <1>1, <1>7 DEF LockInv, TypeOK, HolderNeverWaits, level
<1>13. NoLostWakeup'
  <2>1. ASSUME m_readers' = 0, m_writers' = 0, m_pendingWriters' # <<>>
        PROVE  pc'[Head(m_pendingWriters')] = "wokenWriters"
    <3>1. m_readers = 1 /\ m_writers = 0 /\ m_pendingWriters # <<>>
      BY <1>1, <2>1 DEF LockInv, TypeOK
    <3>2. NotifyWriters
      BY <1>1, <3>1 DEF NotifyIfLastReader
    <3> QED
      BY <1>1, <3>1, <3>2, NotifyWritersEffect
  <2>2. ASSUME m_writers' = 0, m_pendingWriters' = <<>>, NEW u \in Threads
        PROVE  pc'[u] # "waitReaders"
    BY <1>1, <1>7, <2>2 DEF LockInv, NoLostWakeup
  <2> QED
    BY <2>1, <2>2 DEF NoLostWakeup
<1> QED
  BY <1>7, <1>8, <1>9, <1>10, <1>11, <1>12, <1>13 DEF LockInv

\* lock() preserves the invariant: reentrant, at once, or queued.
LEMMA LockExclusiveInv ==
    ASSUME LockInv, NEW t \in Threads, lock(t)
    PROVE  LockInv'
<1>1. /\ pc[t] = "run"
      /\ m_threadedReaders[t] = 0
      /\ nest[t] < MaxNest
      /\ nest' = [nest EXCEPT ![t] = @ + 1]
      /\ UNCHANGED <<m_readers, m_pendingReaders, m_threadedReaders>>
  BY DEF lock, Enter
<1>2. nest' \in [Threads -> 0 .. MaxNest]
  BY <1>1, SharedLockAssumption DEF LockInv, TypeOK
<1>3. SharedHolds' = SharedHolds
  BY <1>1 DEF SharedHolds
<1>4. CASE m_locking = t
  <2>1. m_writers' = m_writers + 1 /\ UNCHANGED <<m_locking, m_pendingWriters, pc>>
    BY <1>4 DEF lock
  <2>2. m_writers > 0
    BY <1>4, SharedLockAssumption DEF LockInv, Exclusion
  <2>3. TypeOK' /\ CountersFinite' /\ NestCovers'
    BY <1>1, <1>2, <2>1 DEF LockInv, TypeOK, CountersFinite, NestCovers
  <2>4. Exclusion' /\ HolderNeverWaits'
    BY <1>1, <1>3, <2>1, <2>2 DEF LockInv, TypeOK, Exclusion, HolderNeverWaits, level
  <2>5. PendingMatchesWaiting'
    BY <1>1, <2>1 DEF LockInv, PendingMatchesWaiting
  <2>6. NoLostWakeup'
    BY <2>1, <2>2 DEF LockInv, TypeOK, NoLostWakeup
  <2> QED
    BY <2>3, <2>4, <2>5, <2>6 DEF LockInv
<1>5. CASE m_locking # t /\ ~WriterMustWait(t, Append(m_pendingWriters, t))
  <2>1. /\ m_writers' = m_writers + 1 /\ m_locking' = t
        /\ UNCHANGED <<m_pendingWriters, pc>>
    BY <1>5 DEF lock
  <2>2. m_writers = 0 /\ m_readers = 0
    BY <1>5 DEF WriterMustWait, LockInv, TypeOK
  <2>3. \A u \in Threads : m_threadedReaders[u] = 0
    BY <2>2, ReadersCounted
  <2>4. TypeOK' /\ CountersFinite' /\ NestCovers'
    BY <1>1, <1>2, <2>1 DEF LockInv, TypeOK, CountersFinite, NestCovers
  <2>5. Exclusion'
    BY <1>1, <1>3, <2>1, <2>2, <2>3, SharedLockAssumption DEF LockInv, TypeOK, Exclusion, level
  <2>6. HolderNeverWaits'
    BY <1>1, <2>1, <2>3 DEF LockInv, HolderNeverWaits, level
  <2>7. PendingMatchesWaiting'
    BY <1>1, <2>1 DEF LockInv, PendingMatchesWaiting
  <2>8. NoLostWakeup'
    BY <2>1, <2>2 DEF NoLostWakeup
  <2> QED
    BY <2>4, <2>5, <2>6, <2>7, <2>8 DEF LockInv
<1>6. CASE m_locking # t /\ WriterMustWait(t, Append(m_pendingWriters, t))
  <2>1. /\ m_pendingWriters' = Append(m_pendingWriters, t)
        /\ pc' = [pc EXCEPT ![t] = "waitWriters"]
        /\ UNCHANGED <<m_writers, m_locking>>
    BY <1>6 DEF lock, Goto
  <2>2. SleepingReaders(pc') = SleepingReaders(pc)
    BY <1>1, <2>1 DEF LockInv, TypeOK, SleepingReaders
  <2>3. TypeOK' /\ CountersFinite' /\ NestCovers'
    BY <1>1, <1>2, <2>1, <2>2 DEF LockInv, TypeOK, Places, CountersFinite, NestCovers
  <2>4. Exclusion'
    BY <1>1, <1>3, <2>1 DEF LockInv, Exclusion, level
  <2>5. HolderNeverWaits'
    BY <1>1, <1>6, <2>1 DEF LockInv, TypeOK, HolderNeverWaits, level
  <2>6. PendingMatchesWaiting'
    <3>1. \A i \in DOMAIN m_pendingWriters : m_pendingWriters[i] # t
      BY <1>1 DEF LockInv, PendingMatchesWaiting
    <3>2. /\ DOMAIN m_pendingWriters = 1 .. Len(m_pendingWriters)
          /\ Len(m_pendingWriters) \in Nat
          /\ DOMAIN m_pendingWriters' = 1 .. Len(m_pendingWriters) + 1
          /\ m_pendingWriters'[Len(m_pendingWriters) + 1] = t
          /\ \A i \in 1 .. Len(m_pendingWriters) : m_pendingWriters'[i] = m_pendingWriters[i]
      BY <2>1 DEF LockInv, TypeOK
    <3>3. ASSUME NEW u \in Threads
          PROVE  pc'[u] \in {"waitWriters", "wokenWriters"}
                    <=> \E i \in DOMAIN m_pendingWriters' : m_pendingWriters'[i] = u
      <4>1. CASE u = t
        <5>1. Len(m_pendingWriters) + 1 \in DOMAIN m_pendingWriters'
          BY <3>2
        <5> QED
          BY <2>1, <3>2, <4>1, <5>1 DEF LockInv, TypeOK
      <4>2. CASE u # t
        <5>1. (\E i \in DOMAIN m_pendingWriters' : m_pendingWriters'[i] = u)
                <=> \E i \in DOMAIN m_pendingWriters : m_pendingWriters[i] = u
          BY <3>2, <4>2
        <5>2. pc'[u] = pc[u]
          BY <2>1, <4>2 DEF LockInv, TypeOK
        <5> QED
          BY <5>1, <5>2 DEF LockInv, PendingMatchesWaiting
      <4> QED
        BY <4>1, <4>2
    <3>4. ASSUME NEW i \in DOMAIN m_pendingWriters', NEW j \in DOMAIN m_pendingWriters',
                 m_pendingWriters'[i] = m_pendingWriters'[j]
          PROVE  i = j
      BY <3>1, <3>2, <3>4 DEF LockInv, PendingMatchesWaiting
    <3>5. m_pendingReaders' = Cardinality(SleepingReaders(pc'))
      BY <1>1, <2>2 DEF LockInv, PendingMatchesWaiting, SleepingReaders
    <3> QED
      BY <3>3, <3>4, <3>5 DEF PendingMatchesWaiting, SleepingReaders
  <2>7. NoLostWakeup'
    <3>1. ASSUME m_readers = 0, m_writers = 0
          PROVE  /\ m_pendingWriters # <<>>
                 /\ Head(m_pendingWriters') = Head(m_pendingWriters)
                 /\ Head(m_pendingWriters) # t
                 /\ Head(m_pendingWriters) \in Threads
      BY <1>6, <2>1, <3>1 DEF WriterMustWait, LockInv, TypeOK
    <3>2. m_pendingWriters' # <<>>
      BY <2>1 DEF LockInv, TypeOK
    <3> QED
      BY <1>1, <2>1, <3>1, <3>2 DEF LockInv, TypeOK, NoLostWakeup
  <2> QED
    BY <2>3, <2>4, <2>5, <2>6, <2>7 DEF LockInv
<1> QED
  BY <1>4, <1>5, <1>6

\* A woken writer preserves the invariant, whether it sleeps again or owns.
LEMMA WriterWakesInv ==
    ASSUME LockInv, NEW t \in Threads, writerWakes(t)
    PROVE  LockInv'
<1>1. /\ pc[t] = "wokenWriters"
      /\ UNCHANGED <<m_readers, m_pendingReaders, m_threadedReaders, nest>>
  BY DEF writerWakes
<1>2. m_pendingWriters # <<>>
  BY <1>1 DEF LockInv, TypeOK, PendingMatchesWaiting
<1>3. SharedHolds' = SharedHolds
  BY <1>1 DEF SharedHolds
<1>4. CASE WriterMustWait(t, m_pendingWriters)
  <2>1. /\ pc' = [pc EXCEPT ![t] = "waitWriters"]
        /\ UNCHANGED <<m_writers, m_locking, m_pendingWriters>>
    BY <1>4 DEF writerWakes, Goto
  <2>2. SleepingReaders(pc') = SleepingReaders(pc)
    BY <1>1, <2>1 DEF LockInv, TypeOK, SleepingReaders
  <2>3. TypeOK' /\ CountersFinite' /\ NestCovers'
    BY <1>1, <2>1, <2>2 DEF LockInv, TypeOK, Places, CountersFinite, NestCovers
  <2>4. Exclusion' /\ HolderNeverWaits'
    BY <1>1, <1>3, <2>1 DEF LockInv, TypeOK, Exclusion, HolderNeverWaits, level
  <2>5. PendingMatchesWaiting'
    BY <1>1, <2>1, <2>2 DEF LockInv, TypeOK, PendingMatchesWaiting, SleepingReaders
  <2>6. NoLostWakeup'
    BY <1>1, <1>2, <1>4, <2>1 DEF LockInv, TypeOK, NoLostWakeup, WriterMustWait
  <2> QED
    BY <2>3, <2>4, <2>5, <2>6 DEF LockInv
<1>5. CASE ~WriterMustWait(t, m_pendingWriters)
  <2>1. /\ m_pendingWriters' = Tail(m_pendingWriters)
        /\ m_writers' = m_writers + 1
        /\ m_locking' = t
        /\ pc' = [pc EXCEPT ![t] = "run"]
    BY <1>5 DEF writerWakes, Goto
  <2>2. m_writers = 0 /\ m_readers = 0 /\ Head(m_pendingWriters) = t
    BY <1>5 DEF WriterMustWait, LockInv, TypeOK
  <2>3. \A u \in Threads : m_threadedReaders[u] = 0
    BY <2>2, ReadersCounted
  <2>4. SleepingReaders(pc') = SleepingReaders(pc)
    BY <1>1, <2>1 DEF LockInv, TypeOK, SleepingReaders
  <2>5. TypeOK'
    BY <1>1, <1>2, <2>1 DEF LockInv, TypeOK, Places
  <2>6. CountersFinite' /\ NestCovers'
    BY <1>1, <2>1, <2>4 DEF LockInv, TypeOK, CountersFinite, NestCovers
  <2>7. Exclusion'
    BY <1>1, <1>3, <2>1, <2>2, <2>3, SharedLockAssumption DEF LockInv, TypeOK, Exclusion, level
  <2>8. HolderNeverWaits'
    BY <1>1, <2>1, <2>3 DEF LockInv, TypeOK, HolderNeverWaits, level
  <2>9. PendingMatchesWaiting'
    <3> DEFINE q == m_pendingWriters
               n == Len(m_pendingWriters)
    <3>1. /\ n \in Nat /\ n > 0 /\ DOMAIN q = 1 .. n /\ q[1] = t
          /\ DOMAIN m_pendingWriters' = 1 .. n - 1
          /\ \A i \in 1 .. n - 1 : m_pendingWriters'[i] = q[i + 1]
      BY <1>2, <2>1, <2>2 DEF LockInv, TypeOK
    <3>2. \A i, j \in 1 .. n : q[i] = q[j] => i = j
      BY <3>1 DEF LockInv, PendingMatchesWaiting
    <3>3. ASSUME NEW u \in Threads
          PROVE  pc'[u] \in {"waitWriters", "wokenWriters"}
                    <=> \E i \in DOMAIN m_pendingWriters' : m_pendingWriters'[i] = u
      <4> HIDE DEF n
      <4>1. CASE u = t
        BY <1>1, <2>1, <3>1, <3>2, <4>1 DEF LockInv, TypeOK
      <4>2. CASE u # t
        <5>1. ASSUME NEW i \in 1 .. n, q[i] = u
              PROVE  i - 1 \in 1 .. n - 1 /\ m_pendingWriters'[i - 1] = u
          BY <3>1, <4>2, <5>1
        <5>2. ASSUME NEW i \in 1 .. n - 1, m_pendingWriters'[i] = u
              PROVE  i + 1 \in 1 .. n /\ q[i + 1] = u
          BY <3>1, <5>2
        <5>3. (\E i \in DOMAIN m_pendingWriters' : m_pendingWriters'[i] = u)
                <=> \E i \in DOMAIN q : q[i] = u
          BY <3>1, <5>1, <5>2
        <5>4. pc'[u] = pc[u]
          BY <2>1, <4>2 DEF LockInv, TypeOK
        <5> QED
          BY <5>3, <5>4 DEF LockInv, PendingMatchesWaiting
      <4> QED
        BY <4>1, <4>2
    <3>4. ASSUME NEW i \in DOMAIN m_pendingWriters', NEW j \in DOMAIN m_pendingWriters',
                 m_pendingWriters'[i] = m_pendingWriters'[j]
          PROVE  i = j
      BY <3>1, <3>2, <3>4
    <3>5. m_pendingReaders' = Cardinality(SleepingReaders(pc'))
      BY <1>1, <2>4 DEF LockInv, PendingMatchesWaiting, SleepingReaders
    <3> QED
      BY <3>3, <3>4, <3>5 DEF PendingMatchesWaiting, SleepingReaders
  <2>10. NoLostWakeup'
    BY <2>1, <2>2 DEF NoLostWakeup
  <2> QED
    BY <2>5, <2>6, <2>7, <2>8, <2>9, <2>10 DEF LockInv
<1> QED
  BY <1>4, <1>5

\* unlock() preserves the invariant; "write lock first" is where NoLostWakeup
\* is decided.
LEMMA UnlockInv ==
    ASSUME LockInv, NEW t \in Threads, unlock(t)
    PROVE  LockInv'
<1>1. /\ pc[t] = "run"
      /\ m_threadedReaders[t] = 0
      /\ m_locking = t
      /\ m_writers' = m_writers - 1
      /\ UNCHANGED <<m_readers, m_pendingReaders, m_pendingWriters, m_threadedReaders>>
  BY DEF unlock
<1>2. m_writers > 0
  BY <1>1, SharedLockAssumption DEF LockInv, Exclusion
<1>3. SharedHolds' = SharedHolds
  BY <1>1 DEF SharedHolds
<1>4. /\ nest' \in [Threads -> 0 .. MaxNest]
      /\ \A u \in Threads \ {t} : nest'[u] = nest[u]
      /\ nest'[t] \in Nat
  BY SharedLockAssumption DEF unlock, Leave, LockInv, TypeOK
<1> DEFINE Asleep(p, u) == p[u] \in {"waitReaders", "wokenReaders"}
<1>5. ASSUME \A u \in Threads : Asleep(pc', u) => Asleep(pc, u)
      PROVE  NestCovers'
  <2>1. ASSUME NEW u \in Threads
        PROVE  /\ m_threadedReaders'[u] <= nest'[u]
               /\ Asleep(pc', u) => m_threadedReaders'[u] < nest'[u]
    <3>1. CASE u = t
      BY <1>1, <1>4, <1>5, <3>1
    <3>2. CASE u # t
      BY <1>1, <1>4, <1>5, <3>2 DEF LockInv, NestCovers
    <3> QED
      BY <3>1, <3>2
  <2> QED
    BY <2>1 DEF NestCovers
<1>6. CASE m_writers > 1
  <2>1. UNCHANGED <<m_locking, pc>>
    BY <1>6 DEF unlock, LockInv, TypeOK
  <2>2. TypeOK' /\ CountersFinite'
    BY <1>1, <1>2, <1>4, <2>1 DEF LockInv, TypeOK, CountersFinite
  <2>3. NestCovers'
    BY <1>5, <2>1
  <2>4. Exclusion' /\ HolderNeverWaits'
    BY <1>1, <1>3, <1>6, <2>1 DEF LockInv, TypeOK, Exclusion, HolderNeverWaits, level
  <2>5. PendingMatchesWaiting' /\ NoLostWakeup'
    BY <1>1, <1>6, <2>1 DEF LockInv, TypeOK, PendingMatchesWaiting, NoLostWakeup
  <2> QED
    BY <2>2, <2>3, <2>4, <2>5 DEF LockInv
<1>7. CASE m_writers = 1
  <2>1. m_locking' = NoThread /\ NotifyNext
    BY <1>7 DEF unlock
  <2>2. \A u \in Threads : m_threadedReaders[u] = 0
    BY <1>1 DEF LockInv, TypeOK, Exclusion, level
  <2>3. \A u \in Threads : level(u)' = "None"
    BY <1>1, <2>1, <2>2, SharedLockAssumption DEF level
  <2>4. m_writers' = 0
    BY <1>1, <1>7
  <2>5. Exclusion'
    BY <1>1, <1>3, <2>1, <2>3, <2>4 DEF LockInv, Exclusion
  <2>6. HolderNeverWaits'
    BY <2>3 DEF HolderNeverWaits
  <2>7. CASE m_pendingWriters # <<>>
    <3>1. NotifyWriters
      BY <2>1, <2>7 DEF NotifyNext
    <3>2. /\ pc' \in [Threads -> Places]
          /\ \A u \in Threads : \/ pc'[u] = pc[u]
                                \/ pc[u] = "waitWriters" /\ pc'[u] = "wokenWriters"
          /\ pc'[Head(m_pendingWriters)] = "wokenWriters"
      BY <2>7, <3>1, NotifyWritersEffect
    <3>3. /\ SleepingReaders(pc') = SleepingReaders(pc)
          /\ PendingMatchesWaiting'
      BY <1>1, <3>2, WritersMove
    <3>4. TypeOK'
      BY <1>1, <1>4, <2>1, <2>4, <3>2 DEF LockInv, TypeOK
    <3>5. CountersFinite' /\ NestCovers'
      BY <1>1, <1>5, <3>2, <3>3 DEF LockInv, CountersFinite
    <3>6. NoLostWakeup'
      BY <1>1, <2>7, <3>2 DEF NoLostWakeup
    <3> QED
      BY <2>5, <2>6, <3>3, <3>4, <3>5, <3>6 DEF LockInv
  <2>8. CASE m_pendingWriters = <<>>
    <3>1. /\ pc' \in [Threads -> Places]
          /\ \A u \in Threads : \/ pc'[u] = pc[u] /\ pc[u] # "waitReaders"
                                \/ pc[u] = "waitReaders" /\ pc'[u] = "wokenReaders"
      <4>1. CASE m_pendingReaders > 0
        BY <2>1, <2>8, <4>1 DEF NotifyNext, NotifyReaders, LockInv, TypeOK, Places
      <4>2. CASE m_pendingReaders = 0
        <5>1. SleepingReaders(pc) = {}
          BY <4>2, ReadersCounted
        <5>2. \A u \in Threads : pc[u] # "waitReaders"
          BY <5>1 DEF SleepingReaders
        <5> QED
          BY <2>1, <2>8, <4>2, <5>2 DEF NotifyNext, LockInv, TypeOK
      <4> QED
        BY <4>1, <4>2 DEF LockInv, TypeOK
    <3>2. SleepingReaders(pc') = SleepingReaders(pc)
      BY <3>1 DEF SleepingReaders
    <3>3. TypeOK'
      BY <1>1, <1>4, <2>1, <2>4, <3>1 DEF LockInv, TypeOK
    <3>4. CountersFinite'
      BY <1>1, <3>2 DEF LockInv, CountersFinite
    <3>5. NestCovers'
      BY <1>5, <3>1
    <3>6. PendingMatchesWaiting'
      <4>1. \A u \in Threads : pc[u] \in {"waitWriters", "wokenWriters"}
                                <=> pc'[u] \in {"waitWriters", "wokenWriters"}
        BY <3>1
      <4> QED
        BY <1>1, <3>2, <4>1 DEF LockInv, PendingMatchesWaiting, SleepingReaders
    <3>7. NoLostWakeup'
      BY <1>1, <2>8, <3>1 DEF NoLostWakeup
    <3> QED
      BY <2>5, <2>6, <3>3, <3>4, <3>5, <3>6, <3>7 DEF LockInv
  <2> QED
    BY <2>7, <2>8
<1> QED
  BY <1>2, <1>6, <1>7 DEF LockInv, TypeOK

\* A spurious wakeup preserves the invariant.
LEMMA SpuriousWakeupInv ==
    ASSUME LockInv, NEW t \in Threads, spuriousWakeup(t)
    PROVE  LockInv'
<1>1. UNCHANGED <<lockState, nest>>
  BY DEF spuriousWakeup
<1>2. \/ pc[t] = "waitReaders" /\ pc' = [pc EXCEPT ![t] = "wokenReaders"]
      \/ pc[t] = "waitWriters" /\ pc' = [pc EXCEPT ![t] = "wokenWriters"]
  BY DEF spuriousWakeup, Goto
<1>3. SleepingReaders(pc') = SleepingReaders(pc)
  BY <1>2 DEF LockInv, TypeOK, SleepingReaders
<1>4. TypeOK' /\ CountersFinite'
  BY <1>1, <1>2, <1>3 DEF LockInv, TypeOK, Places, CountersFinite, lockState
<1>5. NestCovers'
  BY <1>1, <1>2 DEF LockInv, TypeOK, NestCovers, lockState
<1>6. Exclusion'
  BY <1>1 DEF LockInv, Exclusion, SharedHolds, level, lockState
<1>7. HolderNeverWaits'
  BY <1>1, <1>2 DEF LockInv, TypeOK, HolderNeverWaits, level, lockState
<1>8. PendingMatchesWaiting'
  <2>1. \A u \in Threads : pc[u] \in {"waitWriters", "wokenWriters"}
                            <=> pc'[u] \in {"waitWriters", "wokenWriters"}
    BY <1>2 DEF LockInv, TypeOK
  <2> QED
    BY <1>1, <1>3, <2>1 DEF LockInv, PendingMatchesWaiting, SleepingReaders, lockState
<1>9. NoLostWakeup'
  BY <1>1, <1>2 DEF LockInv, TypeOK, NoLostWakeup, lockState
<1> QED
  BY <1>4, <1>5, <1>6, <1>7, <1>8, <1>9 DEF LockInv

\* A step that changes nothing preserves the invariant.
LEMMA StutterInv ==
    ASSUME LockInv, UNCHANGED vars
    PROVE  LockInv'
BY DEF LockInv, vars, TypeOK, CountersFinite, NestCovers, Exclusion, SharedHolds,
       HolderNeverWaits, PendingMatchesWaiting, NoLostWakeup, level

\* LockInv holds in every state of every behaviour of the lock.
THEOREM LockInvariant == Spec => []LockInv
<1>1. ASSUME LockInv, [Next]_vars
      PROVE  LockInv'
  <2>1. ASSUME NEW t \in Threads,
               \/ lockShared(t) \/ readerWakes(t) \/ unlockShared(t)
               \/ lock(t) \/ writerWakes(t) \/ unlock(t)
               \/ spuriousWakeup(t)
        PROVE  LockInv'
    BY <1>1, <2>1, LockSharedInv, ReaderWakesInv, UnlockSharedInv,
       LockExclusiveInv, WriterWakesInv, UnlockInv, SpuriousWakeupInv
  <2>2. CASE UNCHANGED vars
    BY <1>1, <2>2, StutterInv
  <2> QED
    BY <1>1, <2>1, <2>2 DEF Next
<1> QED
  BY <1>1, InitLockInv, PTL DEF Spec

\* The lock's variables keep their types; in particular no counter that the
\* code decrements ever becomes negative.
THEOREM LockTypeOK == Spec => []TypeOK
<1>1. LockInv => TypeOK
  BY DEF LockInv
<1> QED
  BY <1>1, LockInvariant, PTL

\* Mutual exclusion, for any number of threads: while one owns the lock nobody
\* else holds it, and the counters tested by the code say so.
THEOREM LockExclusion == Spec => []Exclusion
<1>1. LockInv => Exclusion
  BY DEF LockInv
<1> QED
  BY <1>1, LockInvariant, PTL

\* No wakeup is lost: nobody who could have the lock sleeps without having
\* been notified.
THEOREM LockNoLostWakeup == Spec => []NoLostWakeup
<1>1. LockInv => NoLostWakeup
  BY DEF LockInv
<1> QED
  BY <1>1, LockInvariant, PTL

\* Reentrant use never puts a holder to sleep.
THEOREM LockHolderNeverWaits == Spec => []HolderNeverWaits
<1>1. LockInv => HolderNeverWaits
  BY DEF LockInv
<1> QED
  BY <1>1, LockInvariant, PTL

-----------------------------------------------------------------------------
(* Refinement                                                              *)

\* What the concrete guards say about the abstract ones.
LEMMA GuardsAgree ==
    ASSUME LockInv, NEW t \in Threads
    PROVE  /\ RW!Free <=> m_readers = 0 /\ m_writers = 0
           /\ pc[t] = "run" /\ ~ReaderMustWait(t) => RW!CanShare(t)
           /\ pc[t] = "run" /\ m_locking # t =>
                 (WriterMustWait(t, Append(m_pendingWriters, t)) <=> ~RW!CanOwn(t))
<1>1. RW!Free <=> m_readers = 0 /\ m_writers = 0
  <2>1. m_writers = 0 <=> m_locking = NoThread
    BY DEF LockInv, TypeOK, Exclusion
  <2> QED
    BY <2>1, ReadersCounted DEF RW!Free
<1>2. ~ReaderMustWait(t) => RW!CanShare(t)
  BY DEF LockInv, TypeOK, Exclusion, ReaderMustWait, RW!CanShare
<1>3. ASSUME pc[t] = "run", m_locking # t
      PROVE  WriterMustWait(t, Append(m_pendingWriters, t)) <=> ~RW!CanOwn(t)
  <2>1. CASE m_pendingWriters = <<>>
    <3>1. Head(Append(m_pendingWriters, t)) = t
      BY <2>1
    <3> QED
      BY <1>1, <1>3, <2>1, <3>1 DEF WriterMustWait, RW!CanOwn, LockInv, TypeOK
  <2>2. CASE m_pendingWriters # <<>>
    <3>1. /\ Head(Append(m_pendingWriters, t)) = m_pendingWriters[1]
          /\ 1 \in DOMAIN m_pendingWriters
      BY <2>2 DEF LockInv, TypeOK
    <3>2. m_pendingWriters[1] # t
      BY <1>3, <3>1 DEF LockInv, PendingMatchesWaiting
    <3> QED
      BY <1>3, <2>2, <3>1, <3>2 DEF WriterMustWait, RW!CanOwn
  <2> QED
    BY <2>1, <2>2
<1> QED
  BY <1>1, <1>2, <1>3

\* Every step of the lock is a step of the abstract lock or leaves it alone.
LEMMA StepRefines ==
    ASSUME LockInv, [Next]_vars
    PROVE  [RW!NextLock]_(RW!lockVars)
<1>1. ASSUME NEW t \in Threads, lockShared(t)
      PROVE  RW!Share(t) \/ UNCHANGED RW!lockVars
  <2>1. CASE ReaderMustWait(t)
    BY <1>1, <2>1 DEF lockShared, RW!lockVars
  <2>2. CASE ~ReaderMustWait(t)
    BY <1>1, <2>2, GuardsAgree DEF lockShared, Enter, GrantShared, RW!Share
  <2> QED
    BY <2>1, <2>2
<1>2. ASSUME NEW t \in Threads, readerWakes(t)
      PROVE  RW!Share(t) \/ UNCHANGED RW!lockVars
  <2>1. CASE m_writers > 0 \/ m_pendingWriters # <<>>
    BY <1>2, <2>1 DEF readerWakes, RW!lockVars, LockInv, TypeOK
  <2>2. CASE m_writers = 0 /\ m_pendingWriters = <<>>
    <3>1. m_locking = NoThread
      BY <2>2 DEF LockInv, Exclusion
    <3> QED
      BY <1>2, <2>2, <3>1 DEF readerWakes, GrantShared, RW!Share, RW!CanShare
  <2> QED
    BY <1>2, <2>1, <2>2 DEF readerWakes
<1>3. ASSUME NEW t \in Threads, unlockShared(t)
      PROVE  RW!Unshare(t)
  BY <1>3 DEF unlockShared, MayUnshare, RW!Unshare
<1>4. ASSUME NEW t \in Threads, lock(t)
      PROVE  RW!Own(t) \/ RW!Enqueue(t)
  <2>1. pc[t] = "run" /\ m_threadedReaders[t] = 0 /\ UNCHANGED m_threadedReaders
    BY <1>4 DEF lock, Enter
  <2>2. CASE m_locking = t
    BY <1>4, <2>1, <2>2 DEF lock, RW!Own, RW!CanOwn
  <2>3. CASE m_locking # t /\ ~WriterMustWait(t, Append(m_pendingWriters, t))
    BY <1>4, <2>1, <2>3, GuardsAgree DEF lock, RW!Own
  <2>4. CASE m_locking # t /\ WriterMustWait(t, Append(m_pendingWriters, t))
    <3>1. \A i \in 1 .. Len(m_pendingWriters) : m_pendingWriters[i] # t
      BY <2>1 DEF LockInv, TypeOK, PendingMatchesWaiting
    <3> QED
      BY <1>4, <2>1, <2>4, <3>1, GuardsAgree DEF lock, RW!Enqueue
  <2> QED
    BY <2>2, <2>3, <2>4
<1>5. ASSUME NEW t \in Threads, writerWakes(t)
      PROVE  RW!OwnFromQueue(t) \/ UNCHANGED RW!lockVars
  <2>1. CASE WriterMustWait(t, m_pendingWriters)
    BY <1>5, <2>1 DEF writerWakes, RW!lockVars
  <2>2. CASE ~WriterMustWait(t, m_pendingWriters)
    <3>1. m_readers = 0 /\ m_writers = 0 /\ Head(m_pendingWriters) = t
      BY <2>2 DEF WriterMustWait, LockInv, TypeOK
    <3>2. m_pendingWriters # <<>>
      BY <1>5 DEF writerWakes, LockInv, TypeOK, PendingMatchesWaiting
    <3> QED
      BY <1>5, <2>2, <3>1, <3>2, GuardsAgree DEF writerWakes, RW!OwnFromQueue
  <2> QED
    BY <2>1, <2>2
<1>6. ASSUME NEW t \in Threads, unlock(t)
      PROVE  RW!Disown(t)
  BY <1>6 DEF unlock, RW!Disown, LockInv, TypeOK
<1>7. ASSUME NEW t \in Threads, spuriousWakeup(t)
      PROVE  UNCHANGED RW!lockVars
  BY <1>7 DEF spuriousWakeup, lockState, RW!lockVars
<1>8. ASSUME UNCHANGED vars
      PROVE  UNCHANGED RW!lockVars
  BY <1>8 DEF vars, RW!lockVars
<1> QED
  BY <1>1, <1>2, <1>3, <1>4, <1>5, <1>6, <1>7, <1>8 DEF Next, RW!NextLock

\* The lock implements the abstract reader/writer lock: exclusion, reentrancy,
\* writers in order of arrival and no new reader past a queued writer are all
\* consequences of RWLock, whose module states them without counters.
THEOREM LockImplementsRWLock == Spec => ImplementsRWLock
<1>1. Init => RW!InitLock
  BY DEF Init, RW!InitLock
<1>2. LockInv /\ [Next]_vars => [RW!NextLock]_(RW!lockVars)
  BY StepRefines
<1> QED
  BY <1>1, <1>2, LockInvariant, PTL DEF Spec, ImplementsRWLock, RW!SpecLock

=============================================================================
