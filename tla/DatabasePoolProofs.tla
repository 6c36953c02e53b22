------------------------- MODULE DatabasePoolProofs -------------------------
(***************************************************************************)
(* Proofs about DatabasePool, for any finite set of threads, any set of    *)
(* paths and any number of objects, with and without handles in hand.      *)
(*                                                                         *)
(* That the counts are exact is not inductive by itself: a decrement of    *)
(* the count is an exact one only if the thread inside flowBack() still    *)
(* has the object it gives back, and a database that is opened is one of   *)
(* its user's objects only if nobody's object goes while the thread waits  *)
(* for a handle.  PlacesFit says what a thread has at each place.          *)
(***************************************************************************)
EXTENDS DatabasePool, FiniteSetTheorems, TLAPS

\* What a thread has at each place of its calls.
PlacesFit ==
    \A t \in Threads :
        /\ pc[t] \notin {"idle", "purge", "purging"} => at[t] \in Paths
        /\ pc[t] \in {"find", "create", "createQueued"} => objects[t][at[t]] < MaxObjects
        /\ pc[t] \in {"back", "ask", "blockade"} => objects[t][at[t]] > 0

PoolInv ==
    /\ TypeOK
    /\ PlacesFit
    /\ ReferencesExact
    /\ UnreferencedIsEmpty

-----------------------------------------------------------------------------
(* The references                                                          *)

LEMMA ReferencesFinite == \A p \in Paths : IsFiniteSet(References(p))
<1> SUFFICES ASSUME NEW p \in Paths PROVE IsFiniteSet(References(p))
  OBVIOUS
<1>1. IsFiniteSet(0 .. MaxObjects)
  BY FS_Interval, DatabasePoolAssumption
<1>2. IsFiniteSet(Threads \X (0 .. MaxObjects))
  BY <1>1, FS_Product, DatabasePoolAssumption
<1>3. References(p) \subseteq Threads \X (0 .. MaxObjects)
  BY DEF References
<1> QED  BY <1>2, <1>3, FS_Subset

\* Only the thread moves, and neither comes from nor goes to the inside of
\* getTag(): the references stay.
LEMMA QuietReferences ==
    ASSUME TypeOK, UNCHANGED objects, NEW t \in Threads, pc[t] # "tagged",
           NEW place, place # "tagged", NEW q, Goto(t, place, q)
    PROVE  \A p \in Paths : References(p)' = References(p)
<1> SUFFICES ASSUME NEW p \in Paths PROVE References(p)' = References(p)
  OBVIOUS
<1>1. \A r \in Threads \X (0 .. MaxObjects) :
         (pc[r[1]] = "tagged" /\ at[r[1]] = p) <=> (pc'[r[1]] = "tagged" /\ at'[r[1]] = p)
  BY DEF Goto, TypeOK
<1> QED  BY <1>1 DEF References

\* get() for an object of the thread: one reference more.
LEMMA GotReferences ==
    ASSUME TypeOK, NEW t \in Threads, NEW p \in Paths,
           objects' = [objects EXCEPT ![t][p] = @ + 1], objects[t][p] < MaxObjects,
           pc[t] # "tagged", Return(t)
    PROVE  /\ References(p)' = References(p) \cup {<<t, objects[t][p] + 1>>}
           /\ <<t, objects[t][p] + 1>> \notin References(p)
           /\ \A q \in Paths \ {p} : References(q)' = References(q)
<1> DEFINE n == objects[t][p]
<1>1. n \in Nat /\ n + 1 \in 0 .. MaxObjects /\ n + 1 # 0 /\ ~(n + 1 <= n)
  BY DatabasePoolAssumption DEF TypeOK
<1>2. ASSUME NEW q \in Paths, NEW r \in Threads \X (0 .. MaxObjects)
      PROVE  (pc[r[1]] = "tagged" /\ at[r[1]] = q) <=> (pc'[r[1]] = "tagged" /\ at'[r[1]] = q)
  BY DEF Return, Goto, TypeOK
<1>3. ASSUME NEW u \in Threads, NEW q \in Paths
      PROVE  objects'[u][q] = IF u = t /\ q = p THEN n + 1 ELSE objects[u][q]
  BY DEF TypeOK
<1>4. ASSUME NEW q \in Paths \ {p} PROVE References(q)' = References(q)
  <2>1. \A r \in Threads \X (0 .. MaxObjects) : objects'[r[1]][q] = objects[r[1]][q]
    BY <1>3
  <2> QED  BY <1>2, <2>1 DEF References
<1>5. <<t, n + 1>> \notin References(p)
  BY <1>1 DEF References
<1>6. References(p)' = References(p) \cup {<<t, n + 1>>}
  <2>1. \A r \in Threads \X (0 .. MaxObjects) :
           r \in References(p)' <=> r \in References(p) \/ r = <<t, n + 1>>
    <3> SUFFICES ASSUME NEW u \in Threads, NEW i \in 0 .. MaxObjects
                 PROVE  <<u, i>> \in References(p)' <=>
                          <<u, i>> \in References(p) \/ <<u, i>> = <<t, n + 1>>
      OBVIOUS
    <3>1. objects'[u][p] = IF u = t THEN n + 1 ELSE objects[u][p]
      BY <1>3
    <3>2. (pc[u] = "tagged" /\ at[u] = p) <=> (pc'[u] = "tagged" /\ at'[u] = p)
      BY DEF Return, Goto, TypeOK
    <3>3. objects[u][p] \in Nat
      BY DatabasePoolAssumption DEF TypeOK
    <3> QED  BY <1>1, <3>1, <3>2, <3>3 DEF References
  <2>2. <<t, n + 1>> \in Threads \X (0 .. MaxObjects)
    BY <1>1
  <2>3. \A r : r \in References(p) \/ r \in References(p)' => r \in Threads \X (0 .. MaxObjects)
    BY DEF References
  <2> QED  BY <2>1, <2>2, <2>3
<1> QED
  BY <1>4, <1>5, <1>6

\* flowBack() of an object of the thread: one reference less.
LEMMA GivenReferences ==
    ASSUME TypeOK, NEW t \in Threads, NEW p \in Paths,
           objects' = [objects EXCEPT ![t][p] = @ - 1], objects[t][p] > 0,
           pc[t] # "tagged", NEW place, place # "tagged", NEW at2, Goto(t, place, at2)
    PROVE  /\ References(p)' = References(p) \ {<<t, objects[t][p]>>}
           /\ <<t, objects[t][p]>> \in References(p)
           /\ \A q \in Paths \ {p} : References(q)' = References(q)
<1> DEFINE n == objects[t][p]
<1>1. n \in Nat /\ n \in 0 .. MaxObjects /\ n # 0 /\ n <= n
  BY DatabasePoolAssumption DEF TypeOK
<1>2. ASSUME NEW q \in Paths, NEW r \in Threads \X (0 .. MaxObjects)
      PROVE  (pc[r[1]] = "tagged" /\ at[r[1]] = q) <=> (pc'[r[1]] = "tagged" /\ at'[r[1]] = q)
  BY DEF Goto, TypeOK
<1>3. ASSUME NEW u \in Threads, NEW q \in Paths
      PROVE  objects'[u][q] = IF u = t /\ q = p THEN n - 1 ELSE objects[u][q]
  BY DEF TypeOK
<1>4. ASSUME NEW q \in Paths \ {p} PROVE References(q)' = References(q)
  <2>1. \A r \in Threads \X (0 .. MaxObjects) : objects'[r[1]][q] = objects[r[1]][q]
    BY <1>3
  <2> QED  BY <1>2, <2>1 DEF References
<1>5. <<t, n>> \in References(p)
  BY <1>1 DEF References
<1>6. References(p)' = References(p) \ {<<t, n>>}
  <2>1. \A r \in Threads \X (0 .. MaxObjects) :
           r \in References(p)' <=> r \in References(p) /\ r # <<t, n>>
    <3> SUFFICES ASSUME NEW u \in Threads, NEW i \in 0 .. MaxObjects
                 PROVE  <<u, i>> \in References(p)' <=>
                          <<u, i>> \in References(p) /\ <<u, i>> # <<t, n>>
      OBVIOUS
    <3>1. objects'[u][p] = IF u = t THEN n - 1 ELSE objects[u][p]
      BY <1>3
    <3>2. (pc[u] = "tagged" /\ at[u] = p) <=> (pc'[u] = "tagged" /\ at'[u] = p)
      BY DEF Goto, TypeOK
    <3>3. objects[u][p] \in Nat
      BY DatabasePoolAssumption DEF TypeOK
    <3> QED  BY <1>1, <3>1, <3>2, <3>3 DEF References
  <2>3. \A r : r \in References(p) \/ r \in References(p)' => r \in Threads \X (0 .. MaxObjects)
    BY DEF References
  <2> QED  BY <2>1, <2>3
<1> QED
  BY <1>4, <1>5, <1>6

\* The temporary reference inside getTag() comes and goes.
LEMMA TaggedReferences ==
    ASSUME TypeOK, UNCHANGED objects, NEW t \in Threads, NEW p \in Paths,
           \/ pc[t] # "tagged" /\ Goto(t, "tagged", p)
           \/ /\ pc[t] = "tagged" /\ at[t] = p
              /\ \E place, q : place # "tagged" /\ Goto(t, place, q)
    PROVE  /\ pc[t] # "tagged" =>
                 /\ References(p)' = References(p) \cup {<<t, 0>>}
                 /\ <<t, 0>> \notin References(p)
           /\ pc[t] = "tagged" =>
                 /\ References(p)' = References(p) \ {<<t, 0>>}
                 /\ <<t, 0>> \in References(p)
           /\ \A q \in Paths \ {p} : References(q)' = References(q)
<1>1. \A u \in Threads \ {t} : pc'[u] = pc[u] /\ at'[u] = at[u]
  BY DEF Goto, TypeOK
<1>2. /\ pc[t] # "tagged" => pc'[t] = "tagged" /\ at'[t] = p
      /\ pc[t] = "tagged" => pc'[t] # "tagged" /\ at[t] = p
  BY DEF Goto, TypeOK
<1>3. 0 \in 0 .. MaxObjects
  BY DatabasePoolAssumption
<1>4. ASSUME NEW q \in Paths, NEW u \in Threads, NEW i \in 0 .. MaxObjects
      PROVE  /\ <<u, i>> \in References(q) <=>
                   IF i = 0 THEN pc[u] = "tagged" /\ at[u] = q ELSE i <= objects[u][q]
             /\ <<u, i>> \in References(q)' <=>
                   IF i = 0 THEN pc'[u] = "tagged" /\ at'[u] = q ELSE i <= objects[u][q]
  BY DEF References
<1>5. ASSUME NEW q \in Paths, NEW r, r \in References(q) \/ r \in References(q)'
      PROVE  \E u \in Threads, i \in 0 .. MaxObjects : r = <<u, i>>
  BY <1>5 DEF References
<1>6. ASSUME NEW q \in Paths \ {p}, NEW u \in Threads, NEW i \in 0 .. MaxObjects
      PROVE  <<u, i>> \in References(q) <=> <<u, i>> \in References(q)'
  BY <1>1, <1>2, <1>4
<1>7. ASSUME NEW u \in Threads, NEW i \in 0 .. MaxObjects
      PROVE  IF <<u, i>> = <<t, 0>>
             THEN /\ <<u, i>> \in References(p) <=> pc[t] = "tagged"
                  /\ <<u, i>> \in References(p)' <=> pc[t] # "tagged"
             ELSE <<u, i>> \in References(p) <=> <<u, i>> \in References(p)'
  BY <1>1, <1>2, <1>4
<1>8. ASSUME NEW q \in Paths \ {p} PROVE References(q)' = References(q)
  BY <1>5, <1>6
<1>9. <<t, 0>> \in References(p) <=> pc[t] = "tagged"
  BY <1>3, <1>7
<1>10. References(p)' = IF pc[t] = "tagged" THEN References(p) \ {<<t, 0>>}
                        ELSE References(p) \cup {<<t, 0>>}
  BY <1>3, <1>5, <1>7
<1> QED
  BY <1>8, <1>9, <1>10

-----------------------------------------------------------------------------
(* Kinds of steps                                                          *)

\* A step that neither counts nor moves anybody.
LEMMA StillInv ==
    ASSUME PoolInv, TypeOK',
           UNCHANGED <<m_databases, reference, objects, opened, pc, at>>
    PROVE  PoolInv'
BY DEF PoolInv, PlacesFit, ReferencesExact, UnreferencedIsEmpty, References

\* A step that moves one thread and leaves the references alone: it may open
\* a referenced database, and it leaves the close() of a database only when
\* that is closed.
LEMMA QuietInv ==
    ASSUME PoolInv, TypeOK', NEW t \in Threads, pc[t] # "tagged",
           UNCHANGED <<m_databases, reference, objects>>,
           NEW place, NEW q, Goto(t, place, q), place # "tagged",
           place \notin {"idle", "purge", "purging"} => q \in Paths,
           place \in {"find", "create", "createQueued"} => objects[t][q] < MaxObjects,
           place \in {"back", "ask", "blockade"} => objects[t][q] > 0,
           \A p \in opened' : p \in opened \/ objects[t][p] > 0,
           pc[t] \in {"suspend", "drain"} =>
               \/ place \in {"suspend", "drain"} /\ q = at[t]
               \/ at[t] \notin opened'
    PROVE  PoolInv'
<1>1. TypeOK
  BY DEF PoolInv
<1>2. \A u \in Threads : /\ pc'[u] = IF u = t THEN place ELSE pc[u]
                         /\ at'[u] = IF u = t THEN q ELSE at[u]
  BY <1>1 DEF Goto, TypeOK
<1>3. \A p \in Paths : References(p)' = References(p)
  BY <1>1, QuietReferences
<1>4. PlacesFit'
  BY <1>2 DEF PoolInv, PlacesFit
<1>5. ReferencesExact'
  BY <1>3 DEF PoolInv, ReferencesExact
<1>6. UnreferencedIsEmpty'
  <2> SUFFICES ASSUME NEW p \in Paths, References(p) = {}, p \in opened'
               PROVE  \E u \in Threads : pc'[u] \in {"suspend", "drain"} /\ at'[u] = p
    BY <1>3 DEF UnreferencedIsEmpty
  <2>1. ~(objects[t][p] > 0)
    <3> SUFFICES ASSUME objects[t][p] > 0 PROVE FALSE
      OBVIOUS
    <3>1. <<t, objects[t][p]>> \in References(p)
      <4>1. objects[t][p] \in 0 .. MaxObjects /\ objects[t][p] # 0
            /\ objects[t][p] <= objects[t][p]
        BY <1>1, DatabasePoolAssumption DEF TypeOK
      <4> QED  BY <4>1 DEF References
    <3> QED  BY <3>1
  <2>2. PICK u \in Threads : pc[u] \in {"suspend", "drain"} /\ at[u] = p
    BY <2>1 DEF PoolInv, UnreferencedIsEmpty
  <2>3. CASE u # t
    BY <1>2, <2>2, <2>3
  <2>4. CASE u = t
    BY <1>2, <2>2, <2>4
  <2> QED  BY <2>3, <2>4
<1> QED
  BY <1>4, <1>5, <1>6 DEF PoolInv, ReferencesExact

\* A step that adds one reference to a database of the pool.
LEMMA GrowInv ==
    ASSUME PoolInv, TypeOK', NEW t \in Threads, NEW p \in Paths, NEW r,
           References(p)' = References(p) \cup {r}, r \notin References(p),
           \A q \in Paths \ {p} : References(q)' = References(q),
           reference' = [reference EXCEPT ![p] = @ + 1],
           m_databases \subseteq m_databases', p \in m_databases',
           UNCHANGED opened, pc[t] \notin {"suspend", "drain"},
           \A u \in Threads \ {t} : pc'[u] = pc[u] /\ at'[u] = at[u],
           PlacesFit'
    PROVE  PoolInv'
<1>1. \A q \in Paths : reference'[q] = IF q = p THEN reference[q] + 1 ELSE reference[q]
  BY DEF PoolInv, TypeOK
<1>2. Cardinality(References(p)') = Cardinality(References(p)) + 1
  <2>1. IsFiniteSet(References(p))
    BY ReferencesFinite
  <2> HIDE DEF References
  <2> QED  BY <2>1, FS_AddElement
<1>3. \A q \in Paths : reference[q] = Cardinality(References(q))
  BY DEF PoolInv, ReferencesExact
<1>4. ReferencesExact'
  BY <1>1, <1>2, <1>3 DEF PoolInv, ReferencesExact
<1>5. UnreferencedIsEmpty'
  <2> SUFFICES ASSUME NEW q \in Paths, References(q)' = {}, q \in opened
               PROVE  \E u \in Threads : pc'[u] \in {"suspend", "drain"} /\ at'[u] = q
    BY DEF UnreferencedIsEmpty
  <2>1. References(q) = {}
    OBVIOUS
  <2>2. PICK u \in Threads : pc[u] \in {"suspend", "drain"} /\ at[u] = q
    BY <2>1 DEF PoolInv, UnreferencedIsEmpty
  <2> QED  BY <2>2
<1> QED
  BY <1>4, <1>5 DEF PoolInv, ReferencesExact

\* The count of a database that is referenced is not zero; it is one exactly
\* for the last reference.
LEMMA CountOfReferenced ==
    ASSUME PoolInv, NEW p \in Paths, NEW r, r \in References(p)
    PROVE  /\ reference[p] \in Nat /\ reference[p] > 0
           /\ Cardinality(References(p) \ {r}) = reference[p] - 1
           /\ References(p) \ {r} = {} => reference[p] = 1
<1>1. IsFiniteSet(References(p)) /\ reference[p] = Cardinality(References(p))
  BY ReferencesFinite DEF PoolInv, ReferencesExact
<1> HIDE DEF References
<1>2. /\ IsFiniteSet(References(p) \ {r})
      /\ Cardinality(References(p) \ {r}) = Cardinality(References(p)) - 1
  BY <1>1, FS_RemoveElement
<1>3. Cardinality(References(p)) \in Nat /\ Cardinality(References(p) \ {r}) \in Nat
  BY <1>1, <1>2, FS_CardinalityType
<1>4. References(p) \ {r} = {} => Cardinality(References(p) \ {r}) = 0
  BY FS_EmptySet
<1> QED
  BY <1>1, <1>2, <1>3, <1>4

\* A step that removes one reference: the last one to go closes the database.
LEMMA DropInv ==
    ASSUME PoolInv, TypeOK', NEW t \in Threads, NEW p \in Paths, NEW r,
           References(p)' = References(p) \ {r}, r \in References(p),
           \A q \in Paths \ {p} : References(q)' = References(q),
           DropReference(t, p), UNCHANGED <<m_databases, opened>>,
           pc[t] \notin {"suspend", "drain"},
           PlacesFit'
    PROVE  PoolInv'
<1>1. \A q \in Paths : reference'[q] = IF q = p THEN reference[q] - 1 ELSE reference[q]
  BY DEF PoolInv, TypeOK, DropReference
<1>2. /\ reference[p] \in Nat /\ reference[p] > 0
      /\ Cardinality(References(p)') = reference[p] - 1
      /\ References(p)' = {} => reference[p] = 1
  BY CountOfReferenced
<1>3. \A q \in Paths : reference[q] = Cardinality(References(q))
  BY DEF PoolInv, ReferencesExact
<1>4. ReferencesExact'
  BY <1>1, <1>2, <1>3 DEF PoolInv, ReferencesExact
<1>5. UnreferencedIsEmpty'
  <2> SUFFICES ASSUME NEW q \in Paths, References(q)' = {}, q \in opened
               PROVE  \E u \in Threads : pc'[u] \in {"suspend", "drain"} /\ at'[u] = q
    BY DEF UnreferencedIsEmpty
  <2>1. CASE q = p
    <3>1. Goto(t, "suspend", p)
      BY <1>2, <2>1 DEF DropReference
    <3>2. pc'[t] = "suspend" /\ at'[t] = p
      BY <3>1 DEF Goto, PoolInv, TypeOK
    <3> QED  BY <2>1, <3>2
  <2>2. CASE q # p
    <3>1. References(q) = {}
      BY <2>2
    <3>2. PICK u \in Threads : pc[u] \in {"suspend", "drain"} /\ at[u] = q
      BY <3>1 DEF PoolInv, UnreferencedIsEmpty
    <3>3. pc'[u] = pc[u] /\ at'[u] = at[u]
      BY <3>2 DEF DropReference, Return, Goto, PoolInv, TypeOK
    <3> QED  BY <3>2, <3>3
  <2> QED  BY <2>1, <2>2
<1> QED
  BY <1>4, <1>5 DEF PoolInv, ReferencesExact

-----------------------------------------------------------------------------
(* The steps                                                               *)

LEMMA GotoType ==
    ASSUME TypeOK, NEW t \in Threads, NEW place \in Places, NEW q \in Paths \cup {NoPath},
           Goto(t, place, q)
    PROVE  pc' \in [Threads -> Places] /\ at' \in [Threads -> Paths \cup {NoPath}]
BY DEF TypeOK, Goto

LEMMA LockTypes ==
    ASSUME TypeOK, NEW t \in Threads, UNCHANGED lock \/ Lock!Share(t) \/ Lock!Unshare(t)
    PROVE  /\ readers' \in [Threads -> Nat] /\ writer' \in Threads \cup {NoThread}
           /\ depth' \in Nat /\ queue' \in Seq(Threads)
<1>1. CASE UNCHANGED lock
  BY <1>1 DEF TypeOK, lock
<1>2. CASE Lock!Share(t)
  BY <1>2 DEF TypeOK, Lock!Share
<1>3. CASE Lock!Unshare(t)
  BY <1>3 DEF TypeOK, Lock!Unshare
<1> QED
  BY <1>1, <1>2, <1>3

\* What starts a call.
LEMMA StartInv ==
    ASSUME PoolInv, NEW t \in Threads, Start(t)
    PROVE  PoolInv'
<1>1. TypeOK /\ PlacesFit
  BY DEF PoolInv
<1>2. PICK place \in Places, q \in Paths \cup {NoPath} :
         /\ Goto(t, place, q) /\ pc[t] = "idle"
         /\ UNCHANGED <<lock, m_databases, reference, objects, handlePools, todo>>
         /\ place \notin {"tagged", "create", "createQueued"}
         /\ place \notin {"idle", "purge", "purging"} => q \in Paths
         /\ place = "find" => objects[t][q] < MaxObjects
         /\ place \in {"back", "ask", "blockade"} => objects[t][q] > 0
  <2>1. CASE \E p \in Paths : askForHandle(t, p) \/ askForBlockade(t, p)
    BY <2>1 DEF askForHandle, askForBlockade, Places
  <2>2. CASE \E p \in Paths : callGetOrCreate(t, p)
    BY <2>2 DEF callGetOrCreate, Call, Places
  <2>3. CASE \E p \in Paths : callFlowBack(t, p) \/ callGetTag(t, p)
    BY <2>3 DEF callFlowBack, callGetTag, Call, Places
  <2>4. CASE callPurge(t)
    BY <2>4 DEF callPurge, Call, Places
  <2> QED
    BY <2>1, <2>2, <2>3, <2>4 DEF Start
<1>3. TypeOK'
  BY <1>1, <1>2, GotoType DEF TypeOK, lock, handlePools
<1>4. UNCHANGED opened /\ UNCHANGED <<m_databases, reference, objects>>
  BY <1>2 DEF handlePools
<1> QED
  BY <1>1, <1>2, <1>3, <1>4, QuietInv

LEMMA GetHandleInv ==
    ASSUME PoolInv, NEW t \in Threads, getHandle(t)
    PROVE  PoolInv'
<1>1. TypeOK /\ at[t] \in Paths /\ objects[t][at[t]] > 0 /\ pc[t] = "ask"
  BY DEF PoolInv, PlacesFit, getHandle
<1>2. /\ UNCHANGED <<lock, m_databases, reference, objects, blockader, todo>>
      /\ users' = [users EXCEPT ![at[t]] = @ \cup {t}]
      /\ opened' = opened \cup {at[t]} /\ Goto(t, "idle", NoPath)
  BY DEF getHandle, Return
<1>3. TypeOK'
  <2>1. pc' \in [Threads -> Places] /\ at' \in [Threads -> Paths \cup {NoPath}]
    BY <1>1, <1>2, GotoType DEF Places
  <2>2. users' \in [Paths -> SUBSET Threads] /\ opened' \subseteq Paths
    BY <1>1, <1>2 DEF TypeOK
  <2> QED  BY <1>1, <1>2, <2>1, <2>2 DEF TypeOK, lock
<1> QED
  BY <1>1, <1>2, <1>3, QuietInv

LEMMA RecycleHandleInv ==
    ASSUME PoolInv, NEW t \in Threads, recycleHandle(t)
    PROVE  PoolInv'
<1>1. TypeOK'
  BY DEF PoolInv, TypeOK, recycleHandle, lock
<1> QED
  BY <1>1, StillInv DEF recycleHandle

LEMMA BlockadeInv ==
    ASSUME PoolInv, NEW t \in Threads, blockade(t)
    PROVE  PoolInv'
<1>1. TypeOK /\ at[t] \in Paths /\ pc[t] = "blockade"
  BY DEF PoolInv, PlacesFit, blockade
<1>2. /\ UNCHANGED <<lock, m_databases, reference, objects, users, opened, todo>>
      /\ blockader' = [blockader EXCEPT ![at[t]] = t] /\ Goto(t, "idle", NoPath)
  BY DEF blockade, Return
<1>3. TypeOK'
  <2>1. pc' \in [Threads -> Places] /\ at' \in [Threads -> Paths \cup {NoPath}]
    BY <1>1, <1>2, GotoType DEF Places
  <2> QED  BY <1>1, <1>2, <2>1 DEF TypeOK, lock
<1> QED
  BY <1>1, <1>2, <1>3, QuietInv

LEMMA UnblockadeInv ==
    ASSUME PoolInv, NEW t \in Threads, unblockade(t)
    PROVE  PoolInv'
<1>1. TypeOK'
  BY DEF PoolInv, TypeOK, unblockade, lock
<1> QED
  BY <1>1, StillInv DEF unblockade

\* get() at the end of getOrCreate().
LEMMA GetInv ==
    ASSUME PoolInv, NEW t \in Threads, pc[t] \in {"find", "create", "createQueued"},
           NEW p, p = at[t], get(t, p), Return(t), UNCHANGED <<handlePools, todo>>,
           m_databases' = m_databases \cup {p},
           UNCHANGED <<readers, writer, depth>>, queue' \in Seq(Threads)
    PROVE  PoolInv'
<1>1. TypeOK /\ p \in Paths /\ objects[t][p] < MaxObjects /\ pc[t] # "tagged"
  BY DEF PoolInv, PlacesFit
<1>2. /\ reference' = [reference EXCEPT ![p] = @ + 1]
      /\ objects' = [objects EXCEPT ![t][p] = @ + 1]
      /\ Goto(t, "idle", NoPath)
  BY DEF get, Return
<1>3. TypeOK'
  <2>1. pc' \in [Threads -> Places] /\ at' \in [Threads -> Paths \cup {NoPath}]
    BY <1>1, <1>2, GotoType DEF Places
  <2>2. objects' \in [Threads -> [Paths -> 0 .. MaxObjects]]
    <3>1. objects[t][p] + 1 \in 0 .. MaxObjects
      BY <1>1, DatabasePoolAssumption DEF TypeOK
    <3> QED  BY <1>1, <1>2, <3>1 DEF TypeOK
  <2>3. reference' \in [Paths -> Nat] /\ m_databases' \subseteq Paths
    BY <1>1, <1>2 DEF TypeOK
  <2> QED  BY <1>1, <2>1, <2>2, <2>3 DEF TypeOK, handlePools
<1>4. \A u \in Threads \ {t} : pc'[u] = pc[u] /\ at'[u] = at[u] /\ objects'[u] = objects[u]
  BY <1>1, <1>2 DEF TypeOK, Goto
<1>5. PlacesFit'
  <2>1. pc'[t] = "idle"
    BY <1>1, <1>2 DEF TypeOK, Goto
  <2> QED  BY <1>4, <2>1 DEF PoolInv, PlacesFit
<1>6. /\ References(p)' = References(p) \cup {<<t, objects[t][p] + 1>>}
      /\ <<t, objects[t][p] + 1>> \notin References(p)
      /\ \A q \in Paths \ {p} : References(q)' = References(q)
  BY <1>1, <1>2, GotReferences
<1> QED
  BY <1>1, <1>2, <1>3, <1>4, <1>5, <1>6, GrowInv DEF handlePools

LEMMA FindInv ==
    ASSUME PoolInv, NEW t \in Threads, find(t)
    PROVE  PoolInv'
<1>1. TypeOK /\ at[t] \in Paths /\ objects[t][at[t]] < MaxObjects /\ pc[t] = "find"
  BY DEF PoolInv, PlacesFit, find
<1>2. UNCHANGED <<lock, m_databases, handlePools, todo>>
  BY DEF find
<1>3. CASE at[t] \in m_databases /\ get(t, at[t]) /\ Return(t)
  <2>1. m_databases' = m_databases \cup {at[t]}
    BY <1>2, <1>3
  <2>2. UNCHANGED <<readers, writer, depth>> /\ queue' \in Seq(Threads)
    BY <1>1, <1>2 DEF lock, TypeOK
  <2> QED  BY <1>1, <1>2, <1>3, <2>1, <2>2, GetInv
<1>4. CASE Goto(t, "create", at[t]) /\ UNCHANGED <<reference, objects>>
  <2>1. pc' \in [Threads -> Places] /\ at' \in [Threads -> Paths \cup {NoPath}]
    BY <1>1, <1>4, GotoType DEF Places
  <2>2. TypeOK'
    BY <1>1, <1>2, <1>4, <2>1 DEF TypeOK, lock, handlePools
  <2> QED  BY <1>1, <1>2, <1>4, <2>2, QuietInv DEF handlePools
<1> QED
  BY <1>3, <1>4 DEF find

LEMMA CreateInv ==
    ASSUME PoolInv, NEW t \in Threads, create(t)
    PROVE  PoolInv'
<1>1. /\ TypeOK /\ at[t] \in Paths /\ objects[t][at[t]] < MaxObjects
      /\ pc[t] \in {"create", "createQueued"}
  BY DEF PoolInv, PlacesFit, create
<1>2. UNCHANGED <<handlePools, todo>>
  BY DEF create
<1>3. CASE /\ pc[t] = "create" /\ Lock!Enqueue(t)
           /\ Goto(t, "createQueued", at[t])
           /\ UNCHANGED <<m_databases, reference, objects>>
  <2>1. pc' \in [Threads -> Places] /\ at' \in [Threads -> Paths \cup {NoPath}]
    BY <1>1, <1>3, GotoType DEF Places
  <2>2. queue' \in Seq(Threads) /\ UNCHANGED <<readers, writer, depth>>
    BY <1>1, <1>3 DEF TypeOK, Lock!Enqueue
  <2>3. TypeOK'
    BY <1>1, <1>2, <1>3, <2>1, <2>2 DEF TypeOK, handlePools
  <2> QED  BY <1>1, <1>2, <1>3, <2>3, QuietInv DEF handlePools
<1>4. CASE /\ \/ UNCHANGED queue
              \/ queue # <<>> /\ queue' = Tail(queue)
           /\ m_databases' = m_databases \cup {at[t]}
           /\ get(t, at[t]) /\ Return(t)
           /\ UNCHANGED <<readers, writer, depth>>
  <2>1. queue \in Seq(Threads)
    BY <1>1 DEF TypeOK
  <2>2. queue' \in Seq(Threads)
    BY <1>4, <2>1
  <2> QED  BY <1>1, <1>2, <1>4, <2>2, GetInv
<1> QED
  BY <1>3, <1>4 DEF create

\* The end of flowBack(), for an object of the thread or for the temporary
\* reference of getTag().
LEMMA DropReferenceInv ==
    ASSUME PoolInv, NEW t \in Threads, NEW p \in Paths, at[t] = p,
           DropReference(t, p), UNCHANGED <<m_databases, handlePools, todo>>,
           \/ /\ pc[t] = "back"
              /\ objects' = [objects EXCEPT ![t][p] = @ - 1]
           \/ pc[t] = "tagged" /\ UNCHANGED objects
    PROVE  PoolInv'
<1>1. TypeOK /\ (pc[t] = "back" => objects[t][p] > 0)
  BY DEF PoolInv, PlacesFit
<1>2. PICK place \in {"suspend", "idle"}, q \in Paths \cup {NoPath} :
         Goto(t, place, q) /\ (place = "suspend" => q = p)
  BY DEF DropReference, Return
<1>3. PICK r : /\ References(p)' = References(p) \ {r} /\ r \in References(p)
              /\ \A u \in Paths \ {p} : References(u)' = References(u)
  <2>1. CASE pc[t] = "back"
    BY <1>1, <1>2, <2>1, GivenReferences
  <2>2. CASE pc[t] = "tagged"
    <3>1. \E pl, u : pl # "tagged" /\ Goto(t, pl, u)
      BY <1>2
    <3> QED  BY <1>1, <2>2, <3>1, TaggedReferences
  <2> QED  BY <2>1, <2>2
<1>4. TypeOK'
  <2>1. pc' \in [Threads -> Places] /\ at' \in [Threads -> Paths \cup {NoPath}]
    BY <1>1, <1>2, GotoType DEF Places
  <2>2. objects' \in [Threads -> [Paths -> 0 .. MaxObjects]]
    <3>1. CASE pc[t] = "back"
      <4>1. objects[t][p] - 1 \in 0 .. MaxObjects
        BY <1>1, <3>1, DatabasePoolAssumption DEF TypeOK
      <4>2. objects' = [objects EXCEPT ![t][p] = @ - 1]
        BY <3>1
      <4> QED  BY <1>1, <4>1, <4>2 DEF TypeOK
    <3>2. CASE pc[t] = "tagged"
      BY <1>1, <3>2 DEF TypeOK
    <3> QED  BY <3>1, <3>2
  <2>3. reference' \in [Paths -> Nat]
    <3>1. reference[p] - 1 \in Nat
      BY <1>3, CountOfReferenced
    <3> QED  BY <1>1, <3>1 DEF TypeOK, DropReference
  <2>4. /\ readers' \in [Threads -> Nat] /\ writer' \in Threads \cup {NoThread}
        /\ depth' \in Nat /\ queue' \in Seq(Threads)
    BY <1>1, LockTypes DEF DropReference
  <2> QED  BY <1>1, <2>1, <2>2, <2>3, <2>4 DEF TypeOK, handlePools
<1>5. PlacesFit'
  <2>1. \A u \in Threads \ {t} : pc'[u] = pc[u] /\ at'[u] = at[u] /\ objects'[u] = objects[u]
    BY <1>1, <1>2 DEF TypeOK, Goto
  <2>2. pc'[t] \in {"suspend", "idle"} /\ (pc'[t] = "suspend" => at'[t] \in Paths)
    BY <1>1, <1>2 DEF TypeOK, Goto
  <2> QED  BY <2>1, <2>2 DEF PoolInv, PlacesFit
<1> QED
  BY <1>3, <1>4, <1>5, DropInv DEF handlePools

LEMMA FlowBackInv ==
    ASSUME PoolInv, NEW t \in Threads, flowBack(t)
    PROVE  PoolInv'
<1>1. TypeOK /\ at[t] \in Paths /\ pc[t] = "back"
  BY DEF PoolInv, PlacesFit, flowBack
<1>2. UNCHANGED <<m_databases, handlePools, todo>>
  BY DEF flowBack
<1>3. CASE Lock!Share(t) /\ UNCHANGED <<reference, objects, pc, at>>
  <2>1. TypeOK'
    BY <1>1, <1>2, <1>3, LockTypes DEF TypeOK, handlePools
  <2> QED  BY <1>2, <1>3, <2>1, StillInv DEF handlePools
<1>4. CASE /\ objects' = [objects EXCEPT ![t][at[t]] = @ - 1]
           /\ DropReference(t, at[t])
  BY <1>1, <1>2, <1>4, DropReferenceInv
<1> QED
  BY <1>3, <1>4 DEF flowBack

LEMMA SuspendTasksInv ==
    ASSUME PoolInv, NEW t \in Threads, suspendTasks(t)
    PROVE  PoolInv'
<1>1. TypeOK /\ at[t] \in Paths /\ pc[t] = "suspend"
  BY DEF PoolInv, PlacesFit, suspendTasks
<1>2. /\ UNCHANGED <<lock, m_databases, reference, objects, handlePools, todo>>
      /\ Goto(t, "drain", at[t])
  BY DEF suspendTasks
<1>3. pc' \in [Threads -> Places] /\ at' \in [Threads -> Paths \cup {NoPath}]
  BY <1>1, <1>2, GotoType DEF Places
<1>4. TypeOK'
  BY <1>1, <1>2, <1>3 DEF TypeOK, lock, handlePools
<1> QED
  BY <1>1, <1>2, <1>4, QuietInv DEF handlePools

LEMMA DrainInv ==
    ASSUME PoolInv, NEW t \in Threads, drain(t)
    PROVE  PoolInv'
<1>1. TypeOK /\ at[t] \in Paths /\ pc[t] = "drain"
  BY DEF PoolInv, PlacesFit, drain
<1>2. /\ opened' = opened \ {at[t]} /\ Lock!Unshare(t) /\ Goto(t, "idle", NoPath)
      /\ UNCHANGED <<m_databases, reference, objects, users, blockader, todo>>
  BY DEF drain, Return
<1>3. pc' \in [Threads -> Places] /\ at' \in [Threads -> Paths \cup {NoPath}]
  BY <1>1, <1>2, GotoType DEF Places
<1>4. TypeOK'
  BY <1>1, <1>2, <1>3, LockTypes DEF TypeOK
<1> QED
  BY <1>1, <1>2, <1>4, QuietInv

LEMMA GetTagInv ==
    ASSUME PoolInv, NEW t \in Threads, getTag(t)
    PROVE  PoolInv'
<1>1. TypeOK /\ at[t] \in Paths /\ pc[t] \in {"tag", "tagged"}
  BY DEF PoolInv, PlacesFit, getTag
<1>2. UNCHANGED <<m_databases, objects, handlePools, todo>>
  BY DEF getTag
<1>3. CASE /\ pc[t] = "tag" /\ at[t] \in m_databases
           /\ Lock!Share(t)
           /\ reference' = [reference EXCEPT ![at[t]] = @ + 1]
           /\ Goto(t, "tagged", at[t])
  <2>1. PICK p \in Paths : p = at[t]
    BY <1>1
  <2>2. TypeOK'
    <3>1. pc' \in [Threads -> Places] /\ at' \in [Threads -> Paths \cup {NoPath}]
      BY <1>1, <1>3, GotoType DEF Places
    <3>2. reference' \in [Paths -> Nat]
      BY <1>1, <1>3 DEF TypeOK
    <3>3. /\ readers' \in [Threads -> Nat] /\ writer' \in Threads \cup {NoThread}
          /\ depth' \in Nat /\ queue' \in Seq(Threads)
      BY <1>1, <1>3, LockTypes
    <3> QED  BY <1>1, <1>2, <3>1, <3>2, <3>3 DEF TypeOK, handlePools
  <2>3. /\ References(p)' = References(p) \cup {<<t, 0>>} /\ <<t, 0>> \notin References(p)
        /\ \A q \in Paths \ {p} : References(q)' = References(q)
    BY <1>1, <1>2, <1>3, <2>1, TaggedReferences
  <2>4. \A u \in Threads \ {t} : pc'[u] = pc[u] /\ at'[u] = at[u]
    BY <1>1, <1>3 DEF TypeOK, Goto
  <2>5. PlacesFit'
    <3>1. pc'[t] = "tagged" /\ at'[t] \in Paths
      BY <1>1, <1>3 DEF TypeOK, Goto
    <3> QED  BY <1>2, <2>4, <3>1 DEF PoolInv, PlacesFit
  <2> QED
    BY <1>1, <1>2, <1>3, <2>1, <2>2, <2>3, <2>4, <2>5, GrowInv DEF handlePools
<1>4. CASE pc[t] = "tag" /\ Return(t) /\ UNCHANGED <<lock, reference>>
  <2>1. Goto(t, "idle", NoPath)
    BY <1>4 DEF Return
  <2>2. pc' \in [Threads -> Places] /\ at' \in [Threads -> Paths \cup {NoPath}]
    BY <1>1, <2>1, GotoType DEF Places
  <2>3. TypeOK'
    BY <1>1, <1>2, <1>4, <2>2 DEF TypeOK, lock, handlePools
  <2> QED
    BY <1>1, <1>2, <1>4, <2>1, <2>3, QuietInv DEF handlePools
<1>5. CASE pc[t] = "tagged" /\ DropReference(t, at[t])
  BY <1>1, <1>2, <1>5, DropReferenceInv
<1> QED
  BY <1>3, <1>4, <1>5 DEF getTag

LEMMA PurgeNextInv ==
    ASSUME PoolInv, NEW t \in Threads, purgeNext(t)
    PROVE  PoolInv'
<1>1. TypeOK /\ pc[t] = "purging"
  BY DEF PoolInv, purgeNext
<1>2. UNCHANGED <<m_databases, reference, objects, handlePools>>
  BY DEF purgeNext
<1>3. CASE \E p \in todo[t] :
             /\ todo' = [todo EXCEPT ![t] = @ \ {p}]
             /\ Goto(t, IF blockader[p] = NoThread THEN "purgeOne" ELSE "purging", p)
             /\ UNCHANGED lock
  <2>1. PICK p \in todo[t] :
          /\ todo' = [todo EXCEPT ![t] = @ \ {p}]
          /\ Goto(t, IF blockader[p] = NoThread THEN "purgeOne" ELSE "purging", p)
          /\ UNCHANGED lock
    BY <1>3
  <2>2. PICK place \in {"purgeOne", "purging"} : Goto(t, place, p)
    BY <2>1
  <2>3. p \in Paths
    BY <1>1 DEF TypeOK
  <2>4. TypeOK'
    <3>1. pc' \in [Threads -> Places] /\ at' \in [Threads -> Paths \cup {NoPath}]
      BY <1>1, <2>2, <2>3, GotoType DEF Places
    <3>2. todo' \in [Threads -> SUBSET Paths]
      BY <1>1, <2>1 DEF TypeOK
    <3> QED  BY <1>1, <1>2, <2>1, <3>1, <3>2 DEF TypeOK, lock, handlePools
  <2> QED
    BY <1>1, <1>2, <2>2, <2>3, <2>4, QuietInv DEF handlePools
<1>4. CASE Lock!Unshare(t) /\ Return(t) /\ UNCHANGED todo
  <2>1. Goto(t, "idle", NoPath)
    BY <1>4 DEF Return
  <2>2. pc' \in [Threads -> Places] /\ at' \in [Threads -> Paths \cup {NoPath}]
    BY <1>1, <2>1, GotoType DEF Places
  <2>3. TypeOK'
    BY <1>1, <1>2, <1>4, <2>2, LockTypes DEF TypeOK, handlePools
  <2> QED
    BY <1>1, <1>2, <2>1, <2>3, QuietInv DEF handlePools
<1> QED
  BY <1>3, <1>4 DEF purgeNext

LEMMA PurgeInv ==
    ASSUME PoolInv, NEW t \in Threads, purge(t)
    PROVE  PoolInv'
<1>1. TypeOK /\ pc[t] \in {"purge", "purgeOne"}
  BY DEF PoolInv, purge
<1>2. /\ UNCHANGED <<m_databases, reference, objects, users, blockader>>
      /\ Goto(t, "purging", NoPath)
      /\ opened' \subseteq opened
  BY DEF purge
<1>3. pc' \in [Threads -> Places] /\ at' \in [Threads -> Paths \cup {NoPath}]
  BY <1>1, <1>2, GotoType DEF Places
<1>4. TypeOK'
  <2>1. todo' \in [Threads -> SUBSET Paths]
    BY <1>1 DEF TypeOK, purge
  <2>2. /\ readers' \in [Threads -> Nat] /\ writer' \in Threads \cup {NoThread}
        /\ depth' \in Nat /\ queue' \in Seq(Threads)
    BY <1>1, LockTypes DEF purge
  <2> QED  BY <1>1, <1>2, <1>3, <2>1, <2>2 DEF TypeOK
<1> QED
  BY <1>1, <1>2, <1>4, QuietInv

LEMMA InitPoolInv == Init => PoolInv
<1> SUFFICES ASSUME Init PROVE PoolInv
  OBVIOUS
<1>1. TypeOK
  <2>1. 0 \in 0 .. MaxObjects
    BY DatabasePoolAssumption
  <2>2. queue \in Seq(Threads) /\ readers \in [Threads -> Nat] /\ depth \in Nat
    BY DEF Init, Lock!InitLock
  <2> QED  BY <2>1, <2>2 DEF Init, Lock!InitLock, TypeOK, Places
<1>2. \A p \in Paths : References(p) = {}
  <2> SUFFICES ASSUME NEW p \in Paths, NEW u \in Threads, NEW i \in 0 .. MaxObjects
               PROVE  <<u, i>> \notin References(p)
    BY DEF References
  <2>1. pc[u] = "idle" /\ objects[u][p] = 0
    BY DEF Init
  <2>2. i # 0 => ~(i <= 0)
    OBVIOUS
  <2> QED  BY <2>1, <2>2 DEF References
<1>3. ReferencesExact
  BY <1>1, <1>2, FS_EmptySet DEF Init, ReferencesExact
<1> QED
  BY <1>1, <1>3 DEF PoolInv, PlacesFit, UnreferencedIsEmpty, Init

LEMMA PoolInvStep == PoolInv /\ [Next]_vars => PoolInv'
<1> SUFFICES ASSUME PoolInv, [Next]_vars PROVE PoolInv'
  OBVIOUS
<1>1. ASSUME NEW t \in Threads, Start(t) \/ recycleHandle(t) \/ unblockade(t)
      PROVE  PoolInv'
  BY <1>1, StartInv, RecycleHandleInv, UnblockadeInv
<1>2. ASSUME NEW t \in Threads, GoOn(t) PROVE PoolInv'
  BY <1>2, GetHandleInv, BlockadeInv, FindInv, CreateInv, FlowBackInv, SuspendTasksInv,
     DrainInv, GetTagInv, PurgeNextInv, PurgeInv DEF GoOn
<1>3. CASE UNCHANGED vars
  <2>1. TypeOK'
    BY <1>3 DEF vars, lock, handlePools, PoolInv, TypeOK
  <2> QED  BY <1>3, <2>1, StillInv DEF vars, handlePools
<1> QED
  BY <1>1, <1>2, <1>3 DEF Next

\* The invariant of the pool: the counts, the objects and the places of the
\* threads inside getOrCreate(), flowBack(), getTag() and purge() agree.
THEOREM PoolInvariant == Spec => []PoolInv
  BY InitPoolInv, PoolInvStep, PTL DEF Spec

\* The reference count of every path is the number of references to it, for
\* any number of threads, although it changes under the shared lock only; it
\* never goes below zero, and a referenced database is one of the pool.
THEOREM PoolReferencesExact == Spec => []ReferencesExact
<1>1. PoolInv => ReferencesExact
  BY DEF PoolInv
<1> QED
  BY <1>1, PoolInvariant, PTL

\* A database that nobody refers to has no handle left or is being closed, by
\* the flowBack() that dropped the last reference.
THEOREM PoolUnreferencedIsEmpty == Spec => []UnreferencedIsEmpty
<1>1. PoolInv => UnreferencedIsEmpty
  BY DEF PoolInv
<1> QED
  BY <1>1, PoolInvariant, PTL

=============================================================================
