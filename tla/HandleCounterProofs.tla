------------------------ MODULE HandleCounterProofs -------------------------
(***************************************************************************)
(* Proofs about HandleCounter, for any set of threads, any two limits and  *)
(* either kind of notification.                                            *)
(*                                                                         *)
(* The limits alone are not inductive: that a granted handle is counted    *)
(* once needs that a thread which waits holds nothing yet, and that pop()  *)
(* finds an entry needs the sizes of the queues.                           *)
(***************************************************************************)
EXTENDS HandleCounter, FiniteSetTheorems, TLAPS

\* The threads inside one of the two waits, as functions of pc.
NormalWaiters(p) == {t \in Threads : p[t] \in {"waitNormals", "wokenNormals"}}
WriterWaiters(p) == {t \in Threads : p[t] \in {"waitWriters", "wokenWriters"}}

CountersFinite ==
    /\ IsFiniteSet(held)
    /\ IsFiniteSet(NormalWaiters(pc))
    /\ IsFiniteSet(WriterWaiters(pc))

WaitersHoldNothing ==
    \A t \in Threads : pc[t] # "run" => \A h \in held : h[1] # t

CounterInv ==
    /\ TypeOK
    /\ CountersFinite
    /\ WaitersHoldNothing
    /\ WithinLimits
    /\ QueuesCountWaiters

-----------------------------------------------------------------------------
(* Counting                                                                *)

\* One more handle is out: both counts follow.
LEMMA HeldGrows ==
    ASSUME NEW S, IsFiniteSet(S), NEW t, NEW category, NEW w \in BOOLEAN,
           <<t, category, w>> \notin S
    PROVE  LET T == S \cup {<<t, category, w>>} IN
           /\ IsFiniteSet(T)
           /\ Cardinality(T) = Cardinality(S) + 1
           /\ Cardinality({h \in T : h[3]}) =
                 IF w THEN Cardinality({h \in S : h[3]}) + 1
                      ELSE Cardinality({h \in S : h[3]})
<1> DEFINE new == <<t, category, w>>
           T == S \cup {new}
           A == {h \in S : h[3]}
           B == {h \in T : h[3]}
<1>1. new[3] = w
  OBVIOUS
<1>2. IsFiniteSet(A) /\ new \notin A
  <2>1. A \subseteq S
    OBVIOUS
  <2> QED  BY <2>1, FS_Subset
<1>3. B = IF w THEN A \cup {new} ELSE A
  <2> HIDE DEF new
  <2> QED  BY <1>1
<1>4. IsFiniteSet(T) /\ Cardinality(T) = Cardinality(S) + 1
  <2> HIDE DEF new
  <2> QED  BY FS_AddElement DEF new
<1>5. Cardinality(A \cup {new}) = Cardinality(A) + 1
  <2> HIDE DEF new, A
  <2> QED  BY <1>2, FS_AddElement
<1> HIDE DEF A, B, T, new
<1>6. Cardinality(B) = IF w THEN Cardinality(A) + 1 ELSE Cardinality(A)
  BY <1>3, <1>5
<1> QED
  BY <1>4, <1>6 DEF A, B, T, new

\* One handle comes back: both counts follow.
LEMMA HeldShrinks ==
    ASSUME NEW S, IsFiniteSet(S), NEW t, NEW category, NEW w \in BOOLEAN,
           <<t, category, w>> \in S
    PROVE  LET T == S \ {<<t, category, w>>} IN
           /\ IsFiniteSet(T)
           /\ Cardinality(T) = Cardinality(S) - 1
           /\ Cardinality(S) > 0
           /\ Cardinality({h \in T : h[3]}) =
                 IF w THEN Cardinality({h \in S : h[3]}) - 1
                      ELSE Cardinality({h \in S : h[3]})
           /\ w => Cardinality({h \in S : h[3]}) > 0
<1> DEFINE old == <<t, category, w>>
           T == S \ {old}
           A == {h \in S : h[3]}
           B == {h \in T : h[3]}
<1>1. old[3] = w
  OBVIOUS
<1>2. IsFiniteSet(A)
  <2>1. A \subseteq S
    OBVIOUS
  <2> QED  BY <2>1, FS_Subset
<1>3. /\ w => old \in A /\ B = A \ {old}
      /\ ~w => B = A
  <2> HIDE DEF old
  <2> QED  BY <1>1 DEF old
<1>4. IsFiniteSet(T) /\ Cardinality(T) = Cardinality(S) - 1
  <2> HIDE DEF old
  <2> QED  BY FS_RemoveElement DEF old
<1>5. w => Cardinality(A \ {old}) = Cardinality(A) - 1
  <2> HIDE DEF old, A
  <2> QED  BY <1>2, <1>3, FS_RemoveElement
<1>6. Cardinality(S) > 0
  <2>1. S # {}
    OBVIOUS
  <2> QED  BY <2>1, FS_EmptySet, FS_CardinalityType
<1>7. w => Cardinality(A) > 0
  <2>1. w => A # {}
    BY <1>3
  <2> HIDE DEF A
  <2> QED  BY <1>2, <2>1, FS_EmptySet, FS_CardinalityType
<1> HIDE DEF A, B, T, old
<1>8. Cardinality(B) = IF w THEN Cardinality(A) - 1 ELSE Cardinality(A)
  BY <1>3, <1>5
<1> QED
  BY <1>4, <1>6, <1>7, <1>8 DEF A, B, T, old

\* A set after one element was put in or taken out.
LEMMA OneInOrOut ==
    ASSUME NEW S, IsFiniteSet(S), NEW t
    PROVE  /\ IsFiniteSet(S \cup {t}) /\ IsFiniteSet(S \ {t})
           /\ Cardinality(S) \in Nat
           /\ Cardinality(S \cup {t}) = Cardinality(S) + (IF t \in S THEN 0 ELSE 1)
           /\ Cardinality(S \ {t}) = Cardinality(S) - (IF t \in S THEN 1 ELSE 0)
<1>1. Cardinality(S) \in Nat
  BY FS_CardinalityType
<1>2. /\ IsFiniteSet(S \cup {t})
      /\ Cardinality(S \cup {t}) = Cardinality(S) + (IF t \in S THEN 0 ELSE 1)
  BY <1>1, FS_AddElement
<1>3. /\ IsFiniteSet(S \ {t})
      /\ Cardinality(S \ {t}) = Cardinality(S) - (IF t \in S THEN 1 ELSE 0)
  BY <1>1, FS_RemoveElement
<1> QED
  BY <1>1, <1>2, <1>3

\* A thread that starts or stops waiting for the total limit.
LEMMA NormalsChange ==
    ASSUME NEW p \in [Threads -> Places], NEW t \in Threads, NEW place \in Places,
           IsFiniteSet(NormalWaiters(p))
    PROVE  LET q == [p EXCEPT ![t] = place] IN
           /\ IsFiniteSet(NormalWaiters(q))
           /\ Cardinality(NormalWaiters(p)) \in Nat
           /\ Cardinality(NormalWaiters(q)) =
                 Cardinality(NormalWaiters(p))
                 + (IF place \in {"waitNormals", "wokenNormals"} THEN 1 ELSE 0)
                 - (IF p[t] \in {"waitNormals", "wokenNormals"} THEN 1 ELSE 0)
<1> DEFINE q == [p EXCEPT ![t] = place]
           X == NormalWaiters(p)
           Y == NormalWaiters(q)
           in == place \in {"waitNormals", "wokenNormals"}
           was == p[t] \in {"waitNormals", "wokenNormals"}
<1>1. Y = IF in THEN X \cup {t} ELSE X \ {t}
  BY DEF NormalWaiters
<1>2. t \in X <=> was
  BY DEF NormalWaiters
<1>3. /\ IsFiniteSet(X \cup {t}) /\ IsFiniteSet(X \ {t})
      /\ Cardinality(X) \in Nat
      /\ Cardinality(X \cup {t}) = Cardinality(X) + (IF was THEN 0 ELSE 1)
      /\ Cardinality(X \ {t}) = Cardinality(X) - (IF was THEN 1 ELSE 0)
  <2>1. IsFiniteSet(X)
    OBVIOUS
  <2> HIDE DEF X, was
  <2> QED  BY <1>2, <2>1, OneInOrOut
<1>4. /\ IsFiniteSet(Y)
      /\ Cardinality(Y) = Cardinality(X) + (IF in THEN 1 ELSE 0) - (IF was THEN 1 ELSE 0)
  <2> HIDE DEF X, Y, in, was
  <2>1. CASE in
    BY <1>1, <1>3, <2>1
  <2>2. CASE ~in
    BY <1>1, <1>3, <2>2
  <2> QED
    BY <2>1, <2>2
<1> QED
  BY <1>3, <1>4

\* A thread that starts or stops waiting for the writers' limit.
LEMMA WritersChange ==
    ASSUME NEW p \in [Threads -> Places], NEW t \in Threads, NEW place \in Places,
           IsFiniteSet(WriterWaiters(p))
    PROVE  LET q == [p EXCEPT ![t] = place] IN
           /\ IsFiniteSet(WriterWaiters(q))
           /\ Cardinality(WriterWaiters(p)) \in Nat
           /\ Cardinality(WriterWaiters(q)) =
                 Cardinality(WriterWaiters(p))
                 + (IF place \in {"waitWriters", "wokenWriters"} THEN 1 ELSE 0)
                 - (IF p[t] \in {"waitWriters", "wokenWriters"} THEN 1 ELSE 0)
<1> DEFINE q == [p EXCEPT ![t] = place]
           X == WriterWaiters(p)
           Y == WriterWaiters(q)
           in == place \in {"waitWriters", "wokenWriters"}
           was == p[t] \in {"waitWriters", "wokenWriters"}
<1>1. Y = IF in THEN X \cup {t} ELSE X \ {t}
  BY DEF WriterWaiters
<1>2. t \in X <=> was
  BY DEF WriterWaiters
<1>3. /\ IsFiniteSet(X \cup {t}) /\ IsFiniteSet(X \ {t})
      /\ Cardinality(X) \in Nat
      /\ Cardinality(X \cup {t}) = Cardinality(X) + (IF was THEN 0 ELSE 1)
      /\ Cardinality(X \ {t}) = Cardinality(X) - (IF was THEN 1 ELSE 0)
  <2>1. IsFiniteSet(X)
    OBVIOUS
  <2> HIDE DEF X, was
  <2> QED  BY <1>2, <2>1, OneInOrOut
<1>4. /\ IsFiniteSet(Y)
      /\ Cardinality(Y) = Cardinality(X) + (IF in THEN 1 ELSE 0) - (IF was THEN 1 ELSE 0)
  <2> HIDE DEF X, Y, in, was
  <2>1. CASE in
    BY <1>1, <1>3, <2>1
  <2>2. CASE ~in
    BY <1>1, <1>3, <2>2
  <2> QED
    BY <2>1, <2>2
<1> QED
  BY <1>3, <1>4

-----------------------------------------------------------------------------
(* The parts of the invariant that the actions have in common             *)

\* A granted handle is a new one, and both limits still hold on what is out.
LEMMA GrantKeepsLimits ==
    ASSUME CounterInv, NEW t \in Threads, NEW category \in Categories,
           NEW w \in BOOLEAN, Granted(t, category, w), ~Full, ~WritersFull(w),
           <<t, category, w>> \notin held
    PROVE  /\ m_totalCount' \in Nat /\ m_writerCount' \in Nat
           /\ held' \subseteq Threads \X Categories \X BOOLEAN
           /\ IsFiniteSet(held')
           /\ WithinLimits'
<1>1. /\ held' = held \cup {<<t, category, w>>}
      /\ m_totalCount' = m_totalCount + 1
      /\ m_writerCount' = IF w THEN m_writerCount + 1 ELSE m_writerCount
  BY DEF Granted
<1>2. /\ IsFiniteSet(held')
      /\ Cardinality(held') = Cardinality(held) + 1
      /\ Cardinality(WriteHeld') = IF w THEN Cardinality(WriteHeld) + 1
                                        ELSE Cardinality(WriteHeld)
  BY <1>1, HeldGrows DEF CounterInv, CountersFinite, WriteHeld
<1>3. m_totalCount \in Nat /\ m_writerCount \in Nat /\ m_totalCount < MaxHandles
      /\ (w => m_writerCount < MaxWriters)
  BY HandleCounterAssumption DEF CounterInv, TypeOK, Full, WritersFull
<1>4. /\ m_totalCount = Cardinality(held) /\ m_writerCount = Cardinality(WriteHeld)
      /\ m_writerCount <= MaxWriters
  BY DEF CounterInv, WithinLimits
<1>5. WithinLimits'
  BY <1>1, <1>2, <1>3, <1>4, HandleCounterAssumption DEF WithinLimits
<1>6. held' \subseteq Threads \X Categories \X BOOLEAN
  BY <1>1 DEF CounterInv, TypeOK
<1> QED
  BY <1>1, <1>2, <1>3, <1>5, <1>6

\* The thread that the step moves to "place" is the only one that moves; the
\* queues follow the waiters when their lengths do.
LEMMA MoveKeepsQueues ==
    ASSUME CounterInv, NEW t \in Threads, NEW place \in Places,
           pc' = [pc EXCEPT ![t] = place],
           m_pendingNormals' \in Seq(Threads), m_pendingWriters' \in Seq(Threads),
           Len(m_pendingNormals') = Len(m_pendingNormals)
                 + (IF place \in {"waitNormals", "wokenNormals"} THEN 1 ELSE 0)
                 - (IF pc[t] \in {"waitNormals", "wokenNormals"} THEN 1 ELSE 0),
           Len(m_pendingWriters') = Len(m_pendingWriters)
                 + (IF place \in {"waitWriters", "wokenWriters"} THEN 1 ELSE 0)
                 - (IF pc[t] \in {"waitWriters", "wokenWriters"} THEN 1 ELSE 0)
    PROVE  /\ pc' \in [Threads -> Places]
           /\ IsFiniteSet(NormalWaiters(pc'))
           /\ IsFiniteSet(WriterWaiters(pc'))
           /\ QueuesCountWaiters'
<1>1. pc \in [Threads -> Places]
  BY DEF CounterInv, TypeOK
<1>2. IsFiniteSet(NormalWaiters(pc)) /\ IsFiniteSet(WriterWaiters(pc))
  BY DEF CounterInv, CountersFinite
<1>3. /\ Len(m_pendingNormals) = Cardinality(NormalWaiters(pc))
      /\ Len(m_pendingWriters) = Cardinality(WriterWaiters(pc))
  BY DEF CounterInv, QueuesCountWaiters, NormalWaiters, WriterWaiters
<1>4. /\ IsFiniteSet(NormalWaiters(pc'))
      /\ Len(m_pendingNormals') = Cardinality(NormalWaiters(pc'))
  BY <1>1, <1>2, <1>3, NormalsChange
<1>5. /\ IsFiniteSet(WriterWaiters(pc'))
      /\ Len(m_pendingWriters') = Cardinality(WriterWaiters(pc'))
  BY <1>1, <1>2, <1>3, WritersChange
<1>6. pc' \in [Threads -> Places]
  BY <1>1
<1> QED
  BY <1>4, <1>5, <1>6 DEF QueuesCountWaiters, NormalWaiters, WriterWaiters

\* A thread inside a wait has an entry to pop().
LEMMA WaiterHasEntry ==
    ASSUME CounterInv, NEW t \in Threads
    PROVE  /\ t \in NormalWaiters(pc) => m_pendingNormals # <<>>
           /\ t \in WriterWaiters(pc) => m_pendingWriters # <<>>
<1>1. IsFiniteSet(NormalWaiters(pc)) /\ IsFiniteSet(WriterWaiters(pc))
  BY DEF CounterInv, CountersFinite
<1>2. /\ Len(m_pendingNormals) = Cardinality(NormalWaiters(pc))
      /\ Len(m_pendingWriters) = Cardinality(WriterWaiters(pc))
  BY DEF CounterInv, QueuesCountWaiters, NormalWaiters, WriterWaiters
<1>3. /\ Cardinality(NormalWaiters(pc)) = 0 => NormalWaiters(pc) = {}
      /\ Cardinality(WriterWaiters(pc)) = 0 => WriterWaiters(pc) = {}
  BY <1>1, FS_EmptySet
<1>4. Len(<<>>) = 0
  OBVIOUS
<1> QED
  BY <1>2, <1>3, <1>4

\* pop() shortens a queue that is not empty, emplace() lengthens one.
LEMMA PopAndEmplace ==
    ASSUME NEW s \in Seq(Threads), NEW t \in Threads
    PROVE  /\ Append(s, t) \in Seq(Threads)
           /\ Len(Append(s, t)) = Len(s) + 1
           /\ s # <<>> => /\ Tail(s) \in Seq(Threads)
                          /\ Len(Tail(s)) = Len(s) - 1
           /\ Len(s) \in Nat
OBVIOUS

\* A step that puts t to sleep and grants nothing: t has nothing out, and the
\* queues, after the pop() of a thread that was waiting, follow the waiters.
LEMMA SleepKeepsInvariant ==
    ASSUME CounterInv, NEW t \in Threads, hint' \in [Threads -> BOOLEAN],
           \A h \in held : h[1] # t,
           NEW normals \in Seq(Threads), NEW writers \in Seq(Threads),
           Len(normals) = Len(m_pendingNormals)
                 - (IF pc[t] \in {"waitNormals", "wokenNormals"} THEN 1 ELSE 0),
           Len(writers) = Len(m_pendingWriters)
                 - (IF pc[t] \in {"waitWriters", "wokenWriters"} THEN 1 ELSE 0),
           SleepAsNormal(t, normals, writers) \/ SleepAsWriter(t, normals, writers)
    PROVE  CounterInv'
<1>1. UNCHANGED <<m_totalCount, m_writerCount, held>>
  BY DEF SleepAsNormal, SleepAsWriter
<1>2. \E place \in {"waitNormals", "waitWriters"} : pc' = [pc EXCEPT ![t] = place]
  BY DEF SleepAsNormal, SleepAsWriter
<1>3. pc \in [Threads -> Places]
  BY DEF CounterInv, TypeOK
<1>4. /\ m_pendingNormals' \in Seq(Threads) /\ m_pendingWriters' \in Seq(Threads)
      /\ pc' \in [Threads -> Places]
      /\ IsFiniteSet(NormalWaiters(pc'))
      /\ IsFiniteSet(WriterWaiters(pc'))
      /\ QueuesCountWaiters'
  <2>1. CASE SleepAsNormal(t, normals, writers)
    <3>1. /\ m_pendingNormals' = Append(normals, t) /\ m_pendingWriters' = writers
          /\ pc' = [pc EXCEPT ![t] = "waitNormals"]
      BY <2>1 DEF SleepAsNormal
    <3>2. Len(Append(normals, t)) = Len(normals) + 1 /\ Append(normals, t) \in Seq(Threads)
          /\ Len(normals) \in Nat /\ Len(writers) \in Nat
          /\ Len(m_pendingNormals) \in Nat /\ Len(m_pendingWriters) \in Nat
      BY PopAndEmplace DEF CounterInv, TypeOK
    <3> DEFINE place == "waitNormals"
    <3>3. place \in Places /\ place \in {"waitNormals", "wokenNormals"}
          /\ place \notin {"waitWriters", "wokenWriters"}
      BY DEF Places
    <3>4. /\ Len(m_pendingNormals') = Len(m_pendingNormals)
                 + (IF place \in {"waitNormals", "wokenNormals"} THEN 1 ELSE 0)
                 - (IF pc[t] \in {"waitNormals", "wokenNormals"} THEN 1 ELSE 0)
          /\ Len(m_pendingWriters') = Len(m_pendingWriters)
                 + (IF place \in {"waitWriters", "wokenWriters"} THEN 1 ELSE 0)
                 - (IF pc[t] \in {"waitWriters", "wokenWriters"} THEN 1 ELSE 0)
      BY <3>1, <3>2, <3>3
    <3> QED
      BY <3>1, <3>2, <3>3, <3>4, MoveKeepsQueues
  <2>2. CASE SleepAsWriter(t, normals, writers)
    <3>1. /\ m_pendingNormals' = normals /\ m_pendingWriters' = Append(writers, t)
          /\ pc' = [pc EXCEPT ![t] = "waitWriters"]
      BY <2>2 DEF SleepAsWriter
    <3>2. Len(Append(writers, t)) = Len(writers) + 1 /\ Append(writers, t) \in Seq(Threads)
          /\ Len(normals) \in Nat /\ Len(writers) \in Nat
          /\ Len(m_pendingNormals) \in Nat /\ Len(m_pendingWriters) \in Nat
      BY PopAndEmplace DEF CounterInv, TypeOK
    <3> DEFINE place == "waitWriters"
    <3>3. place \in Places /\ place \notin {"waitNormals", "wokenNormals"}
          /\ place \in {"waitWriters", "wokenWriters"}
      BY DEF Places
    <3>4. /\ Len(m_pendingNormals') = Len(m_pendingNormals)
                 + (IF place \in {"waitNormals", "wokenNormals"} THEN 1 ELSE 0)
                 - (IF pc[t] \in {"waitNormals", "wokenNormals"} THEN 1 ELSE 0)
          /\ Len(m_pendingWriters') = Len(m_pendingWriters)
                 + (IF place \in {"waitWriters", "wokenWriters"} THEN 1 ELSE 0)
                 - (IF pc[t] \in {"waitWriters", "wokenWriters"} THEN 1 ELSE 0)
      BY <3>1, <3>2, <3>3
    <3> QED
      BY <3>1, <3>2, <3>3, <3>4, MoveKeepsQueues
  <2> QED
    BY <2>1, <2>2
<1>5. TypeOK' /\ CountersFinite'
  BY <1>1, <1>4 DEF CounterInv, TypeOK, CountersFinite, NormalWaiters, WriterWaiters
<1>6. WithinLimits'
  BY <1>1 DEF CounterInv, WithinLimits, WriteHeld
<1>7. WaitersHoldNothing'
  BY <1>1, <1>2, <1>3 DEF CounterInv, WaitersHoldNothing
<1> QED
  BY <1>4, <1>5, <1>6, <1>7 DEF CounterInv

\* A step that grants t a handle.
LEMMA GrantKeepsInvariant ==
    ASSUME CounterInv, NEW t \in Threads, NEW category \in Categories,
           NEW w \in BOOLEAN, hint' \in [Threads -> BOOLEAN],
           Granted(t, category, w), ~Full, ~WritersFull(w),
           <<t, category, w>> \notin held,
           m_pendingNormals' \in Seq(Threads), m_pendingWriters' \in Seq(Threads),
           Len(m_pendingNormals') = Len(m_pendingNormals)
                 - (IF pc[t] \in {"waitNormals", "wokenNormals"} THEN 1 ELSE 0),
           Len(m_pendingWriters') = Len(m_pendingWriters)
                 - (IF pc[t] \in {"waitWriters", "wokenWriters"} THEN 1 ELSE 0)
    PROVE  CounterInv'
<1>1. pc' = [pc EXCEPT ![t] = "run"] /\ held' = held \cup {<<t, category, w>>}
  BY DEF Granted
<1>2. /\ m_totalCount' \in Nat /\ m_writerCount' \in Nat
      /\ held' \subseteq Threads \X Categories \X BOOLEAN
      /\ IsFiniteSet(held')
      /\ WithinLimits'
  BY GrantKeepsLimits
<1>3. /\ pc' \in [Threads -> Places]
      /\ IsFiniteSet(NormalWaiters(pc'))
      /\ IsFiniteSet(WriterWaiters(pc'))
      /\ QueuesCountWaiters'
  <2> DEFINE place == "run"
  <2>1. place \in Places /\ place \notin {"waitNormals", "wokenNormals"}
        /\ place \notin {"waitWriters", "wokenWriters"}
    BY DEF Places
  <2>2. Len(m_pendingNormals) \in Nat /\ Len(m_pendingWriters) \in Nat
    BY DEF CounterInv, TypeOK
  <2>3. /\ Len(m_pendingNormals') = Len(m_pendingNormals)
               + (IF place \in {"waitNormals", "wokenNormals"} THEN 1 ELSE 0)
               - (IF pc[t] \in {"waitNormals", "wokenNormals"} THEN 1 ELSE 0)
        /\ Len(m_pendingWriters') = Len(m_pendingWriters)
               + (IF place \in {"waitWriters", "wokenWriters"} THEN 1 ELSE 0)
               - (IF pc[t] \in {"waitWriters", "wokenWriters"} THEN 1 ELSE 0)
    BY <2>1, <2>2
  <2> QED
    BY <1>1, <2>1, <2>3, MoveKeepsQueues
<1>4. TypeOK' /\ CountersFinite'
  BY <1>2, <1>3 DEF TypeOK, CountersFinite, NormalWaiters, WriterWaiters
<1>5. WaitersHoldNothing'
  <2>1. pc \in [Threads -> Places]
    BY DEF CounterInv, TypeOK
  <2> QED
    BY <1>1, <2>1 DEF CounterInv, WaitersHoldNothing
<1> QED
  BY <1>2, <1>3, <1>4, <1>5 DEF CounterInv

-----------------------------------------------------------------------------
(* The inductive invariant                                                *)

\* The counter starts with nothing out and nobody waiting.
LEMMA InitCounter == Init => CounterInv
<1> SUFFICES ASSUME Init PROVE CounterInv
  OBVIOUS
<1>1. TypeOK
  BY DEF Init, TypeOK, Places
<1>2. NormalWaiters(pc) = {} /\ WriterWaiters(pc) = {} /\ WriteHeld = {}
  BY DEF Init, NormalWaiters, WriterWaiters, WriteHeld
<1>3. IsFiniteSet({}) /\ Cardinality({}) = 0
  BY FS_EmptySet
<1>4. CountersFinite
  BY <1>2, <1>3 DEF Init, CountersFinite
<1>5. WithinLimits
  BY <1>2, <1>3, HandleCounterAssumption DEF Init, WithinLimits
<1>6. QueuesCountWaiters
  BY <1>2, <1>3 DEF Init, QueuesCountWaiters, NormalWaiters, WriterWaiters
<1> QED
  BY <1>1, <1>4, <1>5, <1>6 DEF CounterInv, WaitersHoldNothing, Init

\* tryIncreaseHandleCount(), up to its return or its first wait.
LEMMA TryKeepsInvariant ==
    ASSUME CounterInv, NEW t \in Threads, NEW category \in Categories,
           NEW w \in BOOLEAN, tryIncreaseHandleCount(t, category, w)
    PROVE  CounterInv'
<1>1. pc[t] = "run" /\ hint' \in [Threads -> BOOLEAN]
  BY DEF tryIncreaseHandleCount, MayAsk, CounterInv, TypeOK
<1>2. m_pendingNormals \in Seq(Threads) /\ m_pendingWriters \in Seq(Threads)
      /\ Len(m_pendingNormals) \in Nat /\ Len(m_pendingWriters) \in Nat
  BY DEF CounterInv, TypeOK
<1>3. ASSUME ShouldWaitWhenFull(category),
             \/ SleepAsNormal(t, m_pendingNormals, m_pendingWriters)
             \/ SleepAsWriter(t, m_pendingNormals, m_pendingWriters)
      PROVE  CounterInv'
  <2>1. \A h \in held : h[1] # t
    BY <1>3 DEF tryIncreaseHandleCount, MayAsk
  <2> QED
    BY <1>1, <1>2, <1>3, <2>1, SleepKeepsInvariant
<1>4. ASSUME ~Full, ~WritersFull(w), Granted(t, category, w),
             UNCHANGED <<m_pendingNormals, m_pendingWriters>>
      PROVE  CounterInv'
  <2>1. <<t, category, w>> \notin held
    BY DEF tryIncreaseHandleCount, MayAsk
  <2> QED
    BY <1>1, <1>2, <1>4, <2>1, GrantKeepsInvariant
<1> QED
  BY <1>3, <1>4 DEF tryIncreaseHandleCount

\* m_conditionalNormals.wait() returns.
LEMMA NormalKeepsInvariant ==
    ASSUME CounterInv, NEW t \in Threads, normalWakes(t)
    PROVE  CounterInv'
<1> DEFINE normals == Tail(m_pendingNormals)
<1>1. pc[t] = "wokenNormals" /\ hint' = hint
  BY DEF normalWakes
<1>2. m_pendingNormals \in Seq(Threads) /\ m_pendingWriters \in Seq(Threads)
      /\ hint \in [Threads -> BOOLEAN]
  BY DEF CounterInv, TypeOK
<1>3. m_pendingNormals # <<>>
  BY <1>1, WaiterHasEntry DEF NormalWaiters
<1>4. normals \in Seq(Threads) /\ Len(normals) = Len(m_pendingNormals) - 1
      /\ Len(m_pendingNormals) \in Nat /\ Len(m_pendingWriters) \in Nat
  BY <1>2, <1>3, PopAndEmplace
<1>5. \A h \in held : h[1] # t
  BY <1>1 DEF CounterInv, WaitersHoldNothing
<1>6. /\ normals \in Seq(Threads) /\ m_pendingWriters \in Seq(Threads)
      /\ hint' \in [Threads -> BOOLEAN]
      /\ Len(normals) = Len(m_pendingNormals)
            - (IF pc[t] \in {"waitNormals", "wokenNormals"} THEN 1 ELSE 0)
      /\ Len(m_pendingWriters) = Len(m_pendingWriters)
            - (IF pc[t] \in {"waitWriters", "wokenWriters"} THEN 1 ELSE 0)
  BY <1>1, <1>2, <1>4
<1> HIDE DEF normals
<1>7. ASSUME \/ SleepAsNormal(t, normals, m_pendingWriters)
             \/ SleepAsWriter(t, normals, m_pendingWriters)
      PROVE  CounterInv'
  BY <1>5, <1>6, <1>7, SleepKeepsInvariant
<1>8. ASSUME ~Full, ~WritersFull(hint[t]), Granted(t, "normal", hint[t]),
             m_pendingNormals' = normals, UNCHANGED m_pendingWriters
      PROVE  CounterInv'
  <2>1. <<t, "normal", hint[t]>> \notin held /\ hint[t] \in BOOLEAN
    BY <1>2, <1>5
  <2>2. "normal" \in Categories
    BY DEF Categories
  <2> QED
    BY <1>6, <1>8, <2>1, <2>2, GrantKeepsInvariant
<1> QED
  BY <1>7, <1>8 DEF normalWakes, normals

\* m_conditionalWriters.wait() returns.
LEMMA WriterKeepsInvariant ==
    ASSUME CounterInv, NEW t \in Threads, writerWakes(t)
    PROVE  CounterInv'
<1> DEFINE writers == Tail(m_pendingWriters)
<1>1. pc[t] = "wokenWriters" /\ hint' = hint
  BY DEF writerWakes
<1>2. m_pendingNormals \in Seq(Threads) /\ m_pendingWriters \in Seq(Threads)
      /\ hint \in [Threads -> BOOLEAN]
  BY DEF CounterInv, TypeOK
<1>3. m_pendingWriters # <<>>
  BY <1>1, WaiterHasEntry DEF WriterWaiters
<1>4. writers \in Seq(Threads) /\ Len(writers) = Len(m_pendingWriters) - 1
      /\ Len(m_pendingNormals) \in Nat /\ Len(m_pendingWriters) \in Nat
  BY <1>2, <1>3, PopAndEmplace
<1>5. \A h \in held : h[1] # t
  BY <1>1 DEF CounterInv, WaitersHoldNothing
<1>6. /\ m_pendingNormals \in Seq(Threads) /\ writers \in Seq(Threads)
      /\ hint' \in [Threads -> BOOLEAN]
      /\ Len(m_pendingNormals) = Len(m_pendingNormals)
            - (IF pc[t] \in {"waitNormals", "wokenNormals"} THEN 1 ELSE 0)
      /\ Len(writers) = Len(m_pendingWriters)
            - (IF pc[t] \in {"waitWriters", "wokenWriters"} THEN 1 ELSE 0)
  BY <1>1, <1>2, <1>4
<1> HIDE DEF writers
<1>7. ASSUME \/ SleepAsNormal(t, m_pendingNormals, writers)
             \/ SleepAsWriter(t, m_pendingNormals, writers)
      PROVE  CounterInv'
  BY <1>5, <1>6, <1>7, SleepKeepsInvariant
<1>8. ASSUME ~Full, ~WritersFull(hint[t]), Granted(t, "normal", hint[t]),
             m_pendingWriters' = writers, UNCHANGED m_pendingNormals
      PROVE  CounterInv'
  <2>1. <<t, "normal", hint[t]>> \notin held /\ hint[t] \in BOOLEAN
    BY <1>2, <1>5
  <2>2. "normal" \in Categories
    BY DEF Categories
  <2> QED
    BY <1>6, <1>8, <2>1, <2>2, GrantKeepsInvariant
<1> QED
  BY <1>7, <1>8 DEF writerWakes, writers

\* A notification or a spurious wakeup moves threads inside their waits only.
LEMMA WakeKeepsWaiters ==
    ASSUME CounterInv, pc' \in [Threads -> Places],
           \A u \in Threads :
               \/ pc'[u] = pc[u]
               \/ pc[u] = "waitNormals" /\ pc'[u] = "wokenNormals"
               \/ pc[u] = "waitWriters" /\ pc'[u] = "wokenWriters"
    PROVE  /\ NormalWaiters(pc') = NormalWaiters(pc)
           /\ WriterWaiters(pc') = WriterWaiters(pc)
           /\ \A u \in Threads : pc'[u] = "run" <=> pc[u] = "run"
BY DEF NormalWaiters, WriterWaiters

\* Whoever decreaseHandleCount() notifies, the woken threads were waiting.
LEMMA NotifyWakesWaiters ==
    ASSUME CounterInv, NEW w \in BOOLEAN, NotifyOnDecrease(w)
    PROVE  /\ pc' \in [Threads -> Places]
           /\ \A u \in Threads :
                 \/ pc'[u] = pc[u]
                 \/ pc[u] = "waitNormals" /\ pc'[u] = "wokenNormals"
                 \/ pc[u] = "waitWriters" /\ pc'[u] = "wokenWriters"
<1>1. pc \in [Threads -> Places]
  BY DEF CounterInv, TypeOK
<1>2. CASE Notify("waitWriters", "wokenWriters", m_pendingWriters)
  BY <1>1, <1>2 DEF Notify, Places
<1>3. CASE Notify("waitNormals", "wokenNormals", m_pendingNormals)
  BY <1>1, <1>3 DEF Notify, Places
<1>4. CASE UNCHANGED pc
  BY <1>1, <1>4
<1> QED
  BY <1>2, <1>3, <1>4 DEF NotifyOnDecrease

\* decreaseHandleCount().
LEMMA DecreaseKeepsInvariant ==
    ASSUME CounterInv, NEW t \in Threads, NEW category \in Categories,
           NEW w \in BOOLEAN, decreaseHandleCount(t, category, w)
    PROVE  CounterInv'
<1>1. /\ <<t, category, w>> \in held
      /\ held' = held \ {<<t, category, w>>}
      /\ m_totalCount' = m_totalCount - 1
      /\ m_writerCount' = IF w THEN m_writerCount - 1 ELSE m_writerCount
      /\ UNCHANGED <<m_pendingNormals, m_pendingWriters, hint>>
      /\ NotifyOnDecrease(w)
  BY DEF decreaseHandleCount
<1>2. /\ IsFiniteSet(held')
      /\ Cardinality(held') = Cardinality(held) - 1
      /\ Cardinality(held) > 0
      /\ Cardinality(WriteHeld') = IF w THEN Cardinality(WriteHeld) - 1
                                        ELSE Cardinality(WriteHeld)
      /\ w => Cardinality(WriteHeld) > 0
  <2>1. IsFiniteSet(held)
    BY DEF CounterInv, CountersFinite
  <2>2. /\ WriteHeld = {h \in held : h[3]}
        /\ WriteHeld' = {h \in held' : h[3]}
    BY DEF WriteHeld
  <2> QED
    BY <1>1, <2>1, <2>2, HeldShrinks
<1>3. /\ m_totalCount \in Nat /\ m_writerCount \in Nat
      /\ m_totalCount = Cardinality(held) /\ m_writerCount = Cardinality(WriteHeld)
      /\ m_totalCount <= MaxHandles /\ m_writerCount <= MaxWriters
  BY DEF CounterInv, TypeOK, WithinLimits
<1>4. WithinLimits' /\ m_totalCount' \in Nat /\ m_writerCount' \in Nat
  BY <1>1, <1>2, <1>3, HandleCounterAssumption DEF WithinLimits
<1>5. /\ pc' \in [Threads -> Places]
      /\ NormalWaiters(pc') = NormalWaiters(pc)
      /\ WriterWaiters(pc') = WriterWaiters(pc)
      /\ \A u \in Threads : pc'[u] = "run" <=> pc[u] = "run"
  BY <1>1, NotifyWakesWaiters, WakeKeepsWaiters
<1>6. TypeOK' /\ CountersFinite'
  BY <1>1, <1>2, <1>4, <1>5 DEF CounterInv, TypeOK, CountersFinite, NormalWaiters, WriterWaiters
<1>7. QueuesCountWaiters'
  BY <1>1, <1>5 DEF CounterInv, QueuesCountWaiters, NormalWaiters, WriterWaiters
<1>8. WaitersHoldNothing'
  BY <1>1, <1>5 DEF CounterInv, WaitersHoldNothing
<1> QED
  BY <1>4, <1>6, <1>7, <1>8 DEF CounterInv

\* A wait returns without a notification.
LEMMA SpuriousKeepsInvariant ==
    ASSUME CounterInv, NEW t \in Threads, spuriousWakeup(t)
    PROVE  CounterInv'
<1>1. UNCHANGED <<m_totalCount, m_writerCount, m_pendingNormals, m_pendingWriters, hint, held>>
  BY DEF spuriousWakeup
<1>2. /\ pc' \in [Threads -> Places]
      /\ NormalWaiters(pc') = NormalWaiters(pc)
      /\ WriterWaiters(pc') = WriterWaiters(pc)
      /\ \A u \in Threads : pc'[u] = "run" <=> pc[u] = "run"
  <2>1. /\ pc' \in [Threads -> Places]
        /\ \A u \in Threads :
              \/ pc'[u] = pc[u]
              \/ pc[u] = "waitNormals" /\ pc'[u] = "wokenNormals"
              \/ pc[u] = "waitWriters" /\ pc'[u] = "wokenWriters"
    BY DEF spuriousWakeup, CounterInv, TypeOK, Places
  <2> QED
    BY <2>1, WakeKeepsWaiters
<1>3. TypeOK' /\ CountersFinite'
  BY <1>1, <1>2 DEF CounterInv, TypeOK, CountersFinite, NormalWaiters, WriterWaiters
<1>4. WithinLimits' /\ QueuesCountWaiters'
  BY <1>1, <1>2 DEF CounterInv, WithinLimits, WriteHeld, QueuesCountWaiters,
                    NormalWaiters, WriterWaiters
<1>5. WaitersHoldNothing'
  BY <1>1, <1>2 DEF CounterInv, WaitersHoldNothing
<1> QED
  BY <1>3, <1>4, <1>5 DEF CounterInv

\* CounterInv is inductive.
LEMMA NextKeepsInvariant == CounterInv /\ [Next]_vars => CounterInv'
<1> SUFFICES ASSUME CounterInv, [Next]_vars PROVE CounterInv'
  OBVIOUS
<1>1. CASE UNCHANGED vars
  BY <1>1 DEF vars, CounterInv, TypeOK, CountersFinite, WaitersHoldNothing,
              WithinLimits, QueuesCountWaiters, WriteHeld, NormalWaiters, WriterWaiters
<1>2. CASE NewRequest
  BY <1>2, TryKeepsInvariant DEF NewRequest
<1>3. ASSUME NEW t \in Threads,
             \/ normalWakes(t)
             \/ writerWakes(t)
             \/ \E category \in Categories, w \in BOOLEAN : decreaseHandleCount(t, category, w)
             \/ spuriousWakeup(t)
      PROVE  CounterInv'
  BY <1>3, NormalKeepsInvariant, WriterKeepsInvariant, DecreaseKeepsInvariant,
     SpuriousKeepsInvariant
<1> QED
  BY <1>1, <1>2, <1>3 DEF Next

\* The invariant holds in every state of the counter.
THEOREM CounterInvariant == Spec => []CounterInv
BY InitCounter, NextKeepsInvariant, PTL DEF Spec

\* The state keeps its type: neither counter of HandleCounter goes below zero.
THEOREM CounterTypeOK == Spec => []TypeOK
<1>1. CounterInv => TypeOK
  BY DEF CounterInv
<1> QED
  BY <1>1, CounterInvariant, PTL

\* tryIncreaseHandleCount() keeps both limits on the handles that are out, for
\* any number of threads and whatever wakes them, and both counters are exact.
THEOREM CounterWithinLimits == Spec => []WithinLimits
<1>1. CounterInv => WithinLimits
  BY DEF CounterInv
<1> QED
  BY <1>1, CounterInvariant, PTL

\* Although pop() may remove the entry of another thread, the size of each
\* queue, on which decreaseHandleCount() decides, is the number of waiters.
THEOREM CounterQueuesCountWaiters == Spec => []QueuesCountWaiters
<1>1. CounterInv => QueuesCountWaiters
  BY DEF CounterInv
<1> QED
  BY <1>1, CounterInvariant, PTL

-----------------------------------------------------------------------------
(* The abstract budget                                                    *)

\* The two loops of tryIncreaseHandleCount() end only when both limits allow
\* the handle, whatever order the thread passed them in.
LEMMA GrantRefines ==
    ASSUME NEW t, NEW category, NEW w \in BOOLEAN, ~Full, ~WritersFull(w),
           Granted(t, category, w)
    PROVE  Budget!Grant(w)
BY DEF Full, WritersFull, Granted, Budget!Grant, Budget!Exceeded, Budget!Full,
       Budget!WritersFull

\* A handle that comes back was counted.
LEMMA DecreaseRefines ==
    ASSUME CounterInv, NEW t \in Threads, NEW category \in Categories,
           NEW w \in BOOLEAN, decreaseHandleCount(t, category, w)
    PROVE  Budget!GiveBack(w)
<1>1. <<t, category, w>> \in held /\ IsFiniteSet(held)
  BY DEF decreaseHandleCount, CounterInv, CountersFinite
<1>2. Cardinality(held) > 0 /\ (w => Cardinality(WriteHeld) > 0)
  BY <1>1, HeldShrinks DEF WriteHeld
<1>3. m_totalCount > 0 /\ (w => m_writerCount > 0)
  BY <1>2 DEF CounterInv, WithinLimits
<1> QED
  BY <1>3 DEF decreaseHandleCount, Budget!GiveBack

\* Every step of the counter is a step of the budget or changes neither count.
LEMMA CounterStepRefines ==
    CounterInv /\ [Next]_vars => [Budget!NextBudget]_(Budget!budgetVars)
<1> SUFFICES ASSUME CounterInv, [Next]_vars
             PROVE  Budget!NextBudget \/ UNCHANGED Budget!budgetVars
  OBVIOUS
<1>1. ASSUME NEW t, NEW normals, NEW writers,
             SleepAsNormal(t, normals, writers) \/ SleepAsWriter(t, normals, writers)
      PROVE  UNCHANGED Budget!budgetVars
  BY <1>1 DEF SleepAsNormal, SleepAsWriter, Budget!budgetVars
<1>2. ASSUME NEW t \in Threads, NEW category \in Categories, NEW w \in BOOLEAN,
             tryIncreaseHandleCount(t, category, w)
      PROVE  Budget!Grant(w) \/ UNCHANGED Budget!budgetVars
  BY <1>1, <1>2, GrantRefines DEF tryIncreaseHandleCount
<1>3. ASSUME NEW t \in Threads, normalWakes(t) \/ writerWakes(t)
      PROVE  Budget!Grant(hint[t]) \/ UNCHANGED Budget!budgetVars
  <2>1. hint[t] \in BOOLEAN
    BY DEF CounterInv, TypeOK
  <2>2. CASE normalWakes(t)
    BY <1>1, <2>1, <2>2, GrantRefines DEF normalWakes
  <2>3. CASE writerWakes(t)
    BY <1>1, <2>1, <2>3, GrantRefines DEF writerWakes
  <2> QED
    BY <1>3, <2>2, <2>3
<1>4. ASSUME NEW t \in Threads, spuriousWakeup(t)
      PROVE  UNCHANGED Budget!budgetVars
  BY <1>4 DEF spuriousWakeup, Budget!budgetVars
<1>5. CASE UNCHANGED vars
  BY <1>5 DEF vars, Budget!budgetVars
<1>6. \A t \in Threads : hint[t] \in BOOLEAN
  BY DEF CounterInv, TypeOK
<1> QED
  BY <1>2, <1>3, <1>4, <1>5, <1>6, DecreaseRefines
     DEF Next, NewRequest, Budget!NextBudget

\* The counter implements the budget that the handle pool relies on: a handle
\* is only granted while both limits allow it, and only what was granted comes
\* back.
THEOREM CounterImplementsBudget == Spec => ImplementsHandleBudget
<1>1. Init => Budget!InitBudget
  BY DEF Init, Budget!InitBudget
<1> QED
  BY <1>1, CounterStepRefines, CounterInvariant, PTL
     DEF Spec, ImplementsHandleBudget, Budget!SpecBudget

-----------------------------------------------------------------------------
(* Nobody sleeps for good, with notify_all()                              *)

\* Sleeping writers always leave some writer's handle out, because a writer
\* that leaves wakes all of them.  A sleeper on the total limit may see its
\* notification go to the writers (hasNotified); one of those is then awake.
WakersRemain ==
    /\ (\E t \in Threads : pc[t] = "waitWriters") => WriteHeld # {}
    /\ (\E t \in Threads : pc[t] = "waitNormals") =>
          held # {} \/ \E t \in Threads : pc[t] = "wokenWriters"

\* Whoever goes to sleep leaves handles out: the limits are not zero.
LEMMA FullMeansHeld ==
    ASSUME CounterInv
    PROVE  /\ Full => held # {}
           /\ \A w : WritersFull(w) => WriteHeld # {}
<1>1. Cardinality({}) = 0
  BY FS_EmptySet
<1>2. Full => m_totalCount # 0
  BY HandleCounterAssumption DEF Full, CounterInv, TypeOK
<1>3. \A w : WritersFull(w) => m_writerCount # 0
  BY HandleCounterAssumption DEF WritersFull, CounterInv, TypeOK
<1> QED
  BY <1>1, <1>2, <1>3 DEF CounterInv, WithinLimits

\* A step that leaves handles out, and wakes nobody else, keeps the wakers.
LEMMA SleepKeepsWakers ==
    ASSUME CounterInv, WakersRemain, NEW t \in Threads, NEW normals, NEW writers,
           \/ Full /\ SleepAsNormal(t, normals, writers)
           \/ \E w : WritersFull(w) /\ SleepAsWriter(t, normals, writers)
    PROVE  WakersRemain'
<1>1. UNCHANGED held /\ UNCHANGED WriteHeld
  BY DEF SleepAsNormal, SleepAsWriter, WriteHeld
<1>2. held # {}
  BY FullMeansHeld DEF WriteHeld
<1>3. pc \in [Threads -> Places]
  BY DEF CounterInv, TypeOK
<1>4. CASE Full /\ SleepAsNormal(t, normals, writers)
  BY <1>1, <1>2, <1>3, <1>4 DEF WakersRemain, SleepAsNormal
<1>5. CASE \E w : WritersFull(w) /\ SleepAsWriter(t, normals, writers)
  BY <1>1, <1>2, <1>3, <1>5, FullMeansHeld DEF WakersRemain, SleepAsWriter
<1> QED
  BY <1>4, <1>5

\* A grant puts one more handle out.
LEMMA GrantKeepsWakers ==
    ASSUME CounterInv, WakersRemain, NEW t \in Threads, NEW category, NEW w,
           Granted(t, category, w)
    PROVE  WakersRemain'
<1>1. held' = held \cup {<<t, category, w>>} /\ pc' = [pc EXCEPT ![t] = "run"]
  BY DEF Granted
<1>2. held' # {} /\ (WriteHeld # {} => WriteHeld' # {})
  BY <1>1 DEF WriteHeld
<1>3. pc \in [Threads -> Places]
  BY DEF CounterInv, TypeOK
<1> QED
  BY <1>1, <1>2, <1>3 DEF WakersRemain

\* decreaseHandleCount() with notify_all(): a writer that leaves wakes every
\* sleeping writer; any other handle leaves the writers' handles out.
LEMMA DecreaseKeepsWakers ==
    ASSUME CounterInv, WakersRemain, ~SignalFront, NEW t \in Threads,
           NEW category \in Categories, NEW w \in BOOLEAN,
           decreaseHandleCount(t, category, w)
    PROVE  WakersRemain'
<1>1. held' = held \ {<<t, category, w>>} /\ NotifyOnDecrease(w)
  BY DEF decreaseHandleCount
<1>2. pc \in [Threads -> Places]
  BY DEF CounterInv, TypeOK
<1>3. /\ m_pendingNormals = <<>> => \A u \in Threads : pc[u] # "waitNormals"
      /\ m_pendingWriters = <<>> => \A u \in Threads : pc[u] # "waitWriters"
  BY WaiterHasEntry DEF NormalWaiters, WriterWaiters
<1>4. m_pendingWriters # <<>> => \E u \in Threads : u \in WriterWaiters(pc)
  <2> SUFFICES ASSUME WriterWaiters(pc) = {} PROVE m_pendingWriters = <<>>
    BY DEF WriterWaiters
  <2>1. Len(m_pendingWriters) = 0
    BY FS_EmptySet DEF CounterInv, QueuesCountWaiters, WriterWaiters
  <2> QED
    BY <2>1 DEF CounterInv, TypeOK
<1>5. ~w => WriteHeld' = WriteHeld
  <2> DEFINE old == <<t, category, w>>
  <2>1. old[3] = w
    OBVIOUS
  <2> HIDE DEF old
  <2> QED
    BY <1>1, <2>1 DEF WriteHeld, old
<1>6. CASE w /\ m_pendingWriters # <<>>
  <2>1. pc' = [u \in Threads |-> IF pc[u] = "waitWriters" THEN "wokenWriters" ELSE pc[u]]
    BY <1>1, <1>6 DEF NotifyOnDecrease, Notify
  <2>2. \E u \in Threads : pc'[u] = "wokenWriters"
    BY <1>4, <1>6, <2>1 DEF WriterWaiters
  <2>3. \A u \in Threads : pc'[u] # "waitWriters"
    BY <2>1
  <2> QED
    BY <2>2, <2>3 DEF WakersRemain
<1>7. CASE ~(w /\ m_pendingWriters # <<>>) /\ m_pendingNormals # <<>>
  <2>1. pc' = [u \in Threads |-> IF pc[u] = "waitNormals" THEN "wokenNormals" ELSE pc[u]]
    BY <1>1, <1>7 DEF NotifyOnDecrease, Notify
  <2>2. /\ \A u \in Threads : pc'[u] # "waitNormals"
        /\ \A u \in Threads : pc'[u] = "waitWriters" => pc[u] = "waitWriters"
    BY <2>1
  <2> QED
    BY <1>3, <1>5, <1>7, <2>2 DEF WakersRemain
<1>8. CASE ~(w /\ m_pendingWriters # <<>>) /\ m_pendingNormals = <<>>
  <2>1. pc' = pc
    BY <1>1, <1>8 DEF NotifyOnDecrease
  <2> QED
    BY <1>3, <1>5, <1>8, <2>1 DEF WakersRemain
<1> QED
  BY <1>6, <1>7, <1>8

\* Every step keeps the wakers.
LEMMA NextKeepsWakers ==
    ASSUME ~SignalFront
    PROVE  CounterInv /\ WakersRemain /\ [Next]_vars => WakersRemain'
<1> SUFFICES ASSUME CounterInv, WakersRemain, [Next]_vars PROVE WakersRemain'
  OBVIOUS
<1>1. CASE UNCHANGED vars
  BY <1>1 DEF vars, WakersRemain, WriteHeld
<1>2. ASSUME NEW t \in Threads, NEW category \in Categories, NEW w \in BOOLEAN,
             tryIncreaseHandleCount(t, category, w)
      PROVE  WakersRemain'
  BY <1>2, SleepKeepsWakers, GrantKeepsWakers DEF tryIncreaseHandleCount
<1>3. ASSUME NEW t \in Threads, normalWakes(t)
      PROVE  WakersRemain'
  BY <1>3, SleepKeepsWakers, GrantKeepsWakers DEF normalWakes
<1>4. ASSUME NEW t \in Threads, writerWakes(t)
      PROVE  WakersRemain'
  BY <1>4, SleepKeepsWakers, GrantKeepsWakers DEF writerWakes
<1>5. ASSUME NEW t \in Threads, spuriousWakeup(t)
      PROVE  WakersRemain'
  <2>1. pc \in [Threads -> Places]
    BY DEF CounterInv, TypeOK
  <2>2. held' = held /\ WriteHeld' = WriteHeld
    BY <1>5 DEF spuriousWakeup, WriteHeld
  <2> QED
    BY <1>5, <2>1, <2>2 DEF spuriousWakeup, WakersRemain
<1> QED
  BY <1>1, <1>2, <1>3, <1>4, <1>5, DecreaseKeepsWakers DEF Next, NewRequest

\* With notify_all(), spurious wakeups or not: while a thread sleeps in the
\* counter a handle is out, whose recycling notifies, or a woken waiter runs.
THEOREM CounterSleeperHasWaker ==
    ASSUME ~SignalFront
    PROVE  Spec => []SleeperHasWaker
<1>1. Init => WakersRemain
  BY DEF Init, WakersRemain
<1>2. CounterInv /\ WakersRemain /\ [Next]_vars => WakersRemain'
  BY NextKeepsWakers
<1>3. CounterInv /\ WakersRemain => SleeperHasWaker
  BY DEF CounterInv, TypeOK, WakersRemain, SleeperHasWaker, Asleep, Woken, WriteHeld
<1> QED
  BY <1>1, <1>2, <1>3, CounterInvariant, PTL DEF Spec

=============================================================================
