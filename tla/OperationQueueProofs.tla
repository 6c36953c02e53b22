------------------------ MODULE OperationQueueProofs ------------------------
(***************************************************************************)
(* Proofs about OperationQueue and the TimedQueue below it, for any set of *)
(* paths, any intervals and any bounds.                                    *)
(*                                                                         *)
(* None of the three invariants is inductive by itself.  That the worker   *)
(* does not oversleep needs that UniqueList keeps its elements in the      *)
(* order in which they expire, each key once (ListFits); that nothing is   *)
(* queued without registration needs that a stopped queue is empty         *)
(* (StoppedIsEmpty); that a callback is called once needs that an          *)
(* identifier on its way is a known one, and on its way only once          *)
(* (CallbacksFit).                                                         *)
(***************************************************************************)
EXTENDS OperationQueue, WellFoundedInduction, SequenceTheorems, TLAPS

Infos == 0 .. TolerableFailures - 1 \cup Identifiers
Operations == {e \in [key : Keys, info : Infos, due : Nat] : InfoOK(e)}

Distinct(list) == \A i, j \in DOMAIN list : list[i].key = list[j].key => i = j
Ordered(list) == \A i, j \in DOMAIN list : i < j => list[i].due <= list[j].due

\* What UniqueList guarantees.
GoodList(list) == list \in Seq(Operations) /\ Distinct(list) /\ Ordered(list)

ListFits ==
    /\ GoodList(m_list)
    /\ current \in Operations \cup {NoElement}
    /\ worker = "running" => current \in Operations

\* What TypeOK says of the other variables.
ScalarsFit ==
    /\ m_stop \in BOOLEAN
    /\ exitHandler \in {"idle", "raised", "done"}
    /\ worker \in WorkerStates
    /\ timer \in Nat \cup {Forever}
    /\ notices \in 0 .. MaxNotices
    /\ m_records \subseteq Types \X Paths
    /\ sinceLastPurge \in 0 .. PurgeInterval + 1
    /\ m_corrupteds \subseteq Identifiers /\ notified \subseteq Identifiers
    /\ callbacks \subseteq Paths /\ owed \subseteq Paths
    /\ file \in [Paths -> 1 .. MaxFiles]

Registered ==
    \A i \in DOMAIN m_list : m_list[i].key[1] \in Types => m_list[i].key \in m_records

StoppedIsEmpty == m_stop => m_list = <<>> /\ isExiting

Notification(e) == e.key # <<>> /\ e.key[1] = "NotifyCorruption"

CallbacksFit ==
    /\ notified \subseteq m_corrupteds
    /\ \A i \in DOMAIN m_list : Notification(m_list[i]) =>
          /\ m_list[i].info \in m_corrupteds \ notified
          /\ m_list[i].info[1] = m_list[i].key[2]
          /\ Notification(current) => m_list[i].info # current.info
    /\ Notification(current) => current.info \in m_corrupteds \ notified

QueueInv ==
    /\ ScalarsFit
    /\ ListFits
    /\ Registered
    /\ StoppedIsEmpty
    /\ NeverOversleeps
    /\ CallbacksFit

-----------------------------------------------------------------------------
(* UniqueList                                                              *)

\* A set of natural numbers has a least element.  (The library states it for
\* predicates; as a set it can be used for a place in a list.)
LEMMA LeastNatural ==
    ASSUME NEW T \in SUBSET Nat, T # {}
    PROVE  \E m \in T : \A k \in T : m <= k
<1> DEFINE R == OpToRel(<, Nat)
<1>1. IsWellFoundedOn(R, Nat)
  BY NatLessThanWellFounded
<1>2. \A x, y \in Nat : <<x, y>> \in R <=> x < y
  BY DEF OpToRel
<1> HIDE DEF R
<1>3. PICK m \in T : \A k \in T : ~(<<k, m>> \in R)
  BY <1>1, WFMin
<1>4. m \in Nat /\ \A k \in T : k \in Nat /\ ~(k < m)
  BY <1>2, <1>3
<1> QED
  BY <1>4

LEMMA OperationFields ==
    ASSUME NEW e \in Operations
    PROVE  e.key \in Keys /\ e.info \in Infos /\ e.due \in Nat /\ InfoOK(e)
BY DEF Operations

LEMMA KeyFields ==
    ASSUME NEW key \in Keys
    PROVE  /\ key = <<key[1], key[2]>> /\ key # <<>>
           /\ key[1] # "Purge" => key[2] \in Paths
<1>1. CASE key = PurgeKey
  BY <1>1 DEF PurgeKey
<1>2. CASE key \in (Types \cup {"Integrity", "NotifyCorruption"}) \X Paths
  BY <1>2
<1> QED
  BY <1>1, <1>2 DEF Keys

\* Cutting one element out of a list.
LEMMA CutFacts ==
    ASSUME NEW S, NEW list \in Seq(S), NEW i \in 1 .. Len(list)
    PROVE  LET rest == SubSeq(list, 1, i - 1) \o SubSeq(list, i + 1, Len(list)) IN
           /\ rest \in Seq(S) /\ Len(rest) = Len(list) - 1
           /\ \A j \in 1 .. Len(list) - 1 :
                 rest[j] = IF j < i THEN list[j] ELSE list[j + 1]
<1> DEFINE a == SubSeq(list, 1, i - 1)
           b == SubSeq(list, i + 1, Len(list))
<1>1. Len(list) \in Nat /\ \A j \in 1 .. Len(list) : list[j] \in S
  OBVIOUS
<1>2. /\ a \in Seq(S) /\ Len(a) = i - 1
      /\ \A j \in 1 .. i - 1 : a[j] = list[j]
  BY <1>1
<1>3. /\ b \in Seq(S) /\ Len(b) = Len(list) - i
      /\ \A j \in 1 .. Len(list) - i : b[j] = list[j + i]
  BY <1>1
<1> HIDE DEF a, b
<1>4. /\ a \o b \in Seq(S) /\ Len(a \o b) = Len(list) - 1
      /\ \A j \in 1 .. Len(list) - 1 :
            (a \o b)[j] = IF j <= i - 1 THEN a[j] ELSE b[j - (i - 1)]
  <2>1. Len(a) + Len(b) = Len(list) - 1
    BY <1>1, <1>2, <1>3
  <2>2. /\ a \o b \in Seq(S) /\ Len(a \o b) = Len(a) + Len(b)
        /\ \A j \in 1 .. Len(a) + Len(b) :
              (a \o b)[j] = IF j <= Len(a) THEN a[j] ELSE b[j - Len(a)]
    BY <1>2, <1>3, ConcatProperties
  <2> QED  BY <1>2, <2>1, <2>2
<1>5. ASSUME NEW j \in 1 .. Len(list) - 1
      PROVE  (a \o b)[j] = IF j < i THEN list[j] ELSE list[j + 1]
  <2>1. CASE j < i
    BY <1>1, <1>2, <1>4, <2>1
  <2>2. CASE ~(j < i)
    <3>1. j - (i - 1) \in 1 .. Len(list) - i /\ (j - (i - 1)) + i = j + 1
      BY <1>1, <2>2
    <3>2. (a \o b)[j] = b[j - (i - 1)]
      BY <1>1, <1>4, <2>2
    <3> QED  BY <1>3, <2>2, <3>1, <3>2
  <2> QED  BY <2>1, <2>2
<1> QED
  BY <1>4, <1>5 DEF a, b

\* Putting one element into a list.
Put(list, i, e) == SubSeq(list, 1, i - 1) \o <<e>> \o SubSeq(list, i, Len(list))

LEMMA PutFacts ==
    ASSUME NEW S, NEW l \in Seq(S), NEW x \in S, NEW k \in 1 .. Len(l) + 1
    PROVE  /\ Put(l, k, x) \in Seq(S) /\ Len(Put(l, k, x)) = Len(l) + 1
           /\ \A j \in 1 .. Len(l) + 1 : Put(l, k, x)[j] =
                  IF j < k THEN l[j] ELSE IF j = k THEN x ELSE l[j - 1]
<1> DEFINE a == SubSeq(l, 1, k - 1)
           b == SubSeq(l, k, Len(l))
           c == a \o <<x>>
<1>1. Len(l) \in Nat /\ \A j \in 1 .. Len(l) : l[j] \in S
  OBVIOUS
<1>2. /\ a \in Seq(S) /\ Len(a) = k - 1
      /\ \A j \in 1 .. k - 1 : a[j] = l[j]
  BY <1>1
<1>3. /\ b \in Seq(S) /\ Len(b) = Len(l) - k + 1
      /\ \A j \in 1 .. Len(l) - k + 1 : b[j] = l[j + k - 1]
  BY <1>1
<1> HIDE DEF a, b
<1>4. /\ c \in Seq(S) /\ Len(c) = k /\ c[k] = x
      /\ \A j \in 1 .. k - 1 : c[j] = a[j]
  <2>1. <<x>> \in Seq(S) /\ Len(<<x>>) = 1 /\ <<x>>[1] = x
    OBVIOUS
  <2> QED  BY <1>1, <1>2, <2>1
<1> HIDE DEF c
<1>5. /\ c \o b \in Seq(S) /\ Len(c \o b) = Len(l) + 1
      /\ \A j \in 1 .. Len(l) + 1 :
            (c \o b)[j] = IF j <= k THEN c[j] ELSE b[j - k]
  <2>1. Len(c) + Len(b) = Len(l) + 1
    BY <1>1, <1>3, <1>4
  <2> QED  BY <1>3, <1>4, <2>1, ConcatProperties
<1>6. ASSUME NEW j \in 1 .. Len(l) + 1
      PROVE  (c \o b)[j] = IF j < k THEN l[j] ELSE IF j = k THEN x ELSE l[j - 1]
  <2>1. CASE j <= k
    BY <1>2, <1>4, <1>5, <2>1
  <2>2. CASE ~(j <= k)
    <3>1. j - k \in 1 .. Len(l) - k + 1 /\ (j - k) + k - 1 = j - 1
      BY <1>1, <2>2
    <3>2. (c \o b)[j] = b[j - k]
      BY <1>5, <2>2
    <3> QED  BY <1>3, <2>2, <3>1, <3>2
  <2> QED  BY <2>1, <2>2
<1> QED
  BY <1>5, <1>6 DEF Put, c, a, b

\* erase(): the key is gone, the others stay in their order.
LEMMA ErasedFacts ==
    ASSUME NEW list, GoodList(list), NEW key
    PROVE  LET rest == Erased(list, key) IN
           /\ GoodList(rest)
           /\ \A j \in DOMAIN rest : /\ rest[j].key # key
                                     /\ \E k \in DOMAIN list : rest[j] = list[k]
<1> DEFINE rest == Erased(list, key)
           i == find(list, key)
<1>1. list \in Seq(Operations) /\ Distinct(list) /\ Ordered(list)
  BY DEF GoodList
<1>2. Len(list) \in Nat /\ DOMAIN list = 1 .. Len(list)
  BY <1>1
<1>3. CASE Listed(list, key)
  <2>1. i \in 1 .. Len(list) /\ list[i].key = key
    BY <1>2, <1>3 DEF Listed, find
  <2>2. rest = SubSeq(list, 1, i - 1) \o SubSeq(list, i + 1, Len(list))
    BY <1>3 DEF Erased
  <2> HIDE DEF i, rest
  <2>3. /\ rest \in Seq(Operations) /\ Len(rest) = Len(list) - 1
        /\ \A j \in 1 .. Len(list) - 1 :
              rest[j] = IF j < i THEN list[j] ELSE list[j + 1]
    BY <1>1, <2>1, <2>2, CutFacts
  <2>4. DOMAIN rest = 1 .. Len(list) - 1
    BY <2>3
  <2> DEFINE old(j) == IF j < i THEN j ELSE j + 1
  <2>5. \A j \in DOMAIN rest : /\ old(j) \in DOMAIN list /\ old(j) # i
                               /\ rest[j] = list[old(j)]
    BY <1>2, <2>1, <2>3, <2>4
  <2>6. \A j, k \in DOMAIN rest : /\ old(j) = old(k) => j = k
                                  /\ j < k => old(j) < old(k)
    BY <1>2, <2>1, <2>4
  <2> HIDE DEF old
  <2>7. Distinct(rest)
    BY <1>1, <2>5, <2>6 DEF Distinct
  <2>8. Ordered(rest)
    BY <1>1, <2>5, <2>6 DEF Ordered
  <2>9. \A j \in DOMAIN rest : rest[j].key # key
    BY <1>1, <1>2, <2>1, <2>5 DEF Distinct
  <2> QED
    BY <2>3, <2>5, <2>7, <2>8, <2>9 DEF GoodList, rest
<1>4. CASE ~Listed(list, key)
  <2>1. rest = list
    BY <1>4 DEF Erased
  <2> QED  BY <1>4, <2>1 DEF Listed
<1> QED
  BY <1>3, <1>4

\* There is a first element that expires later, or the end.
LEMMA PlaceFacts ==
    ASSUME NEW list, GoodList(list), NEW due \in Nat
    PROVE  /\ Place(list, due) \in 1 .. Len(list) + 1
           /\ \A j \in 1 .. Place(list, due) - 1 : list[j].due <= due
           /\ Place(list, due) <= Len(list) => list[Place(list, due)].due > due
<1> DEFINE P(i) == /\ \A j \in 1 .. i - 1 : list[j].due <= due
                   /\ i <= Len(list) => list[i].due > due
           later == {i \in 1 .. Len(list) : list[i].due > due}
<1>1. Len(list) \in Nat /\ \A i \in 1 .. Len(list) : list[i].due \in Nat
  <2>1. list \in Seq(Operations)
    BY DEF GoodList
  <2>2. Len(list) \in Nat /\ \A i \in 1 .. Len(list) : list[i] \in Operations
    BY <2>1
  <2> QED  BY <2>2, OperationFields
<1>2. \E i \in 1 .. Len(list) + 1 : P(i)
  <2>1. CASE later = {}
    <3>1. Len(list) + 1 \in 1 .. Len(list) + 1 /\ P(Len(list) + 1)
      BY <1>1, <2>1
    <3> QED  BY <3>1
  <2>2. CASE later # {}
    <3>1. later \in SUBSET Nat
      BY <1>1
    <3>2. PICK i \in later : \A k \in later : i <= k
      BY <2>2, <3>1, LeastNatural
    <3>3. P(i)
      BY <1>1, <3>2
    <3>4. i \in 1 .. Len(list) + 1
      BY <1>1, <3>2
    <3> QED  BY <3>3, <3>4
  <2> QED  BY <2>1, <2>2
<1>3. Place(list, due) = CHOOSE i \in 1 .. Len(list) + 1 : P(i)
  BY DEF Place
<1> HIDE DEF P
<1>4. Place(list, due) \in 1 .. Len(list) + 1 /\ P(Place(list, due))
  BY <1>2, <1>3
<1> QED
  BY <1>4 DEF P

\* A new key before the first element that expires later.
LEMMA PutInPlace ==
    ASSUME NEW others, GoodList(others), NEW e \in Operations,
           \A j \in DOMAIN others : others[j].key # e.key,
           NEW i \in 1 .. Len(others) + 1,
           \A j \in 1 .. i - 1 : others[j].due <= e.due,
           i <= Len(others) => others[i].due > e.due
    PROVE  LET more == Put(others, i, e) IN
           /\ GoodList(more) /\ more # <<>>
           /\ \A j \in DOMAIN more : more[j] = e \/ \E k \in DOMAIN others : more[j] = others[k]
<1> DEFINE more == Put(others, i, e)
           n == Len(others)
<1>1. /\ others \in Seq(Operations) /\ n \in Nat /\ DOMAIN others = 1 .. n
      /\ Distinct(others) /\ Ordered(others)
  BY DEF GoodList
<1>2. /\ more \in Seq(Operations) /\ Len(more) = n + 1
      /\ \A j \in 1 .. n + 1 :
            more[j] = IF j < i THEN others[j] ELSE IF j = i THEN e ELSE others[j - 1]
  BY <1>1, PutFacts
<1>3. /\ i \in 1 .. n + 1
      /\ \A j \in 1 .. i - 1 : others[j].due <= e.due
      /\ i <= n => others[i].due > e.due
  OBVIOUS
<1> HIDE DEF more, n
<1>4. DOMAIN more = 1 .. n + 1 /\ more # <<>>
  BY <1>1, <1>2
<1>5. e.due \in Nat /\ \A j \in 1 .. n : others[j].due \in Nat
  <2>1. \A j \in 1 .. n : others[j] \in Operations
    BY <1>1
  <2> QED  BY <2>1, OperationFields
<1>6. \A j \in 1 .. n : j >= i => e.due < others[j].due
  <2> SUFFICES ASSUME NEW j \in 1 .. n, j >= i PROVE e.due < others[j].due
    OBVIOUS
  <2>1. i \in 1 .. n /\ others[i].due > e.due
    BY <1>1, <1>3
  <2>2. CASE j = i
    BY <1>5, <2>1, <2>2
  <2>3. CASE j # i
    <3>1. others[i].due <= others[j].due
      BY <1>1, <2>1, <2>3 DEF Ordered
    <3> QED  BY <1>5, <2>1, <3>1
  <2> QED  BY <2>2, <2>3
<1> DEFINE old(j) == IF j < i THEN j ELSE j - 1
<1>7. \A j \in 1 .. n + 1 : j # i => old(j) \in 1 .. n /\ more[j] = others[old(j)]
  BY <1>1, <1>2, <1>3
<1>8. \A j, k \in 1 .. n + 1 : j # i /\ k # i =>
          (old(j) = old(k) => j = k) /\ (j < k => old(j) < old(k))
  BY <1>1, <1>3
<1>9. \A j \in 1 .. n + 1 : /\ j < i => old(j) = j /\ j \in 1 .. i - 1
                            /\ j > i => old(j) >= i
  BY <1>1, <1>3
<1> HIDE DEF old
<1>10. more[i] = e
  BY <1>1, <1>2, <1>3
<1>11. Distinct(more)
  <2> SUFFICES ASSUME NEW j \in 1 .. n + 1, NEW k \in 1 .. n + 1, more[j].key = more[k].key
               PROVE  j = k
    BY <1>4 DEF Distinct
  <2>1. CASE j = i \/ k = i
    BY <1>1, <1>7, <1>10, <2>1
  <2>2. CASE j # i /\ k # i
    BY <1>1, <1>7, <1>8, <2>2 DEF Distinct
  <2> QED  BY <2>1, <2>2
<1>12. Ordered(more)
  <2> SUFFICES ASSUME NEW j \in 1 .. n + 1, NEW k \in 1 .. n + 1, j < k
               PROVE  more[j].due <= more[k].due
    BY <1>4 DEF Ordered
  <2>1. CASE j # i /\ k # i
    BY <1>1, <1>7, <1>8, <2>1 DEF Ordered
  <2>2. CASE j = i
    <3>1. k # i /\ k > i
      BY <1>3, <2>2
    <3>2. old(k) \in 1 .. n /\ old(k) >= i /\ more[k] = others[old(k)]
      BY <1>7, <1>9, <3>1
    <3>3. e.due < others[old(k)].due /\ others[old(k)].due \in Nat
      BY <1>5, <1>6, <3>2
    <3> QED  BY <1>5, <1>10, <2>2, <3>2, <3>3
  <2>3. CASE k = i
    <3>1. j # i /\ j < i
      BY <1>3, <2>3
    <3>2. more[j] = others[j] /\ others[j].due <= e.due
      BY <1>3, <1>7, <1>9, <3>1
    <3> QED  BY <1>10, <2>3, <3>2
  <2> QED  BY <2>1, <2>2, <2>3
<1>13. ASSUME NEW j \in DOMAIN more
       PROVE  more[j] = e \/ \E k \in DOMAIN others : more[j] = others[k]
  BY <1>1, <1>4, <1>7, <1>10
<1> QED
  BY <1>2, <1>4, <1>11, <1>12, <1>13 DEF GoodList, more

\* insert(): the list keeps its order and has the key once.
LEMMA InsertedFacts ==
    ASSUME NEW list, GoodList(list), NEW key, NEW info, NEW due,
           [key |-> key, info |-> info, due |-> due] \in Operations
    PROVE  LET more == Inserted(list, key, info, due)
               e == [key |-> key, info |-> info, due |-> due] IN
           /\ GoodList(more) /\ more # <<>>
           /\ \A j \in DOMAIN more :
                 \/ more[j] = e
                 \/ more[j].key # key /\ \E k \in DOMAIN list : more[j] = list[k]
<1> DEFINE e == [key |-> key, info |-> info, due |-> due]
           others == Erased(list, key)
           more == Put(others, Place(others, due), e)
<1>1. /\ GoodList(others)
      /\ \A j \in DOMAIN others : /\ others[j].key # key
                                   /\ \E k \in DOMAIN list : others[j] = list[k]
  BY ErasedFacts
<1>2. due \in Nat /\ e.key = key /\ e.due = due /\ e \in Operations
  <2>1. e.due \in Nat
    BY OperationFields
  <2> QED  BY <2>1
<1>3. more = Inserted(list, key, info, due)
  BY DEF Inserted, Put
<1> HIDE DEF others, e
<1>4. /\ Place(others, due) \in 1 .. Len(others) + 1
      /\ \A j \in 1 .. Place(others, due) - 1 : others[j].due <= e.due
      /\ Place(others, due) <= Len(others) => others[Place(others, due)].due > e.due
  BY <1>1, <1>2, PlaceFacts
<1>5. /\ GoodList(more) /\ more # <<>>
      /\ \A j \in DOMAIN more : more[j] = e \/ \E k \in DOMAIN others : more[j] = others[k]
  <2>1. GoodList(others) /\ e \in Operations /\ \A j \in DOMAIN others : others[j].key # e.key
    BY <1>1, <1>2
  <2> QED  BY <1>4, <2>1, PutInPlace, Zenon
<1> HIDE DEF more
<1> QED
  BY <1>1, <1>3, <1>5 DEF e

\* What changes elements in place, neither their keys nor their order.
LEMMA MappedFacts ==
    ASSUME NEW list, GoodList(list), NEW more, DOMAIN more = DOMAIN list,
           more = [i \in DOMAIN list |-> more[i]],
           \A i \in DOMAIN list : more[i] \in Operations /\ more[i].key = list[i].key,
           \A i, j \in DOMAIN list : list[i].due <= list[j].due => more[i].due <= more[j].due
    PROVE  GoodList(more)
<1>1. list \in Seq(Operations) /\ Distinct(list) /\ Ordered(list)
  BY DEF GoodList
<1>2. Len(list) \in Nat /\ DOMAIN list = 1 .. Len(list)
  BY <1>1
<1>3. more \in [1 .. Len(list) -> Operations]
  BY <1>2
<1>4. more \in Seq(Operations)
  BY <1>2, <1>3, SeqDef
<1>5. Distinct(more) /\ Ordered(more)
  BY <1>1 DEF Distinct, Ordered
<1> QED
  BY <1>4, <1>5 DEF GoodList

\* A new info for an element that keeps its place.
LEMMA UpdatedFacts ==
    ASSUME NEW list, GoodList(list), NEW key, NEW info,
           \A due \in Nat : [key |-> key, info |-> info, due |-> due] \in Operations
    PROVE  LET more == Updated(list, key, info) IN
           /\ GoodList(more) /\ DOMAIN more = DOMAIN list
           /\ \A i \in DOMAIN list :
                 /\ more[i].due = list[i].due /\ more[i].key = list[i].key
                 /\ more[i] = list[i] \/ (more[i].key = key /\ more[i].info = info)
<1> DEFINE more == Updated(list, key, info)
<1>1. list \in Seq(Operations)
  BY DEF GoodList
<1>2. \A i \in DOMAIN list : list[i] \in Operations /\ list[i].due \in Nat
  <2>1. \A i \in DOMAIN list : list[i] \in Operations
    BY <1>1
  <2> QED  BY <2>1, OperationFields
<1>3. /\ DOMAIN more = DOMAIN list /\ more = [i \in DOMAIN list |-> more[i]]
      /\ \A i \in DOMAIN list :
            more[i] = IF list[i].key = key THEN [list[i] EXCEPT !.info = info] ELSE list[i]
  BY DEF Updated
<1> HIDE DEF more
<1>4. ASSUME NEW i \in DOMAIN list
      PROVE  /\ more[i] \in Operations
             /\ more[i].due = list[i].due /\ more[i].key = list[i].key
             /\ more[i] = list[i] \/ (more[i].key = key /\ more[i].info = info)
  <2>1. CASE list[i].key = key
    <3>1. list[i] \in [key : Keys, info : Infos, due : Nat]
      BY <1>2 DEF Operations
    <3>2. more[i] = [key |-> key, info |-> info, due |-> list[i].due]
      BY <1>3, <2>1, <3>1
    <3>3. [key |-> key, info |-> info, due |-> list[i].due] \in Operations
      BY <1>2
    <3> QED  BY <2>1, <3>2, <3>3
  <2>2. CASE list[i].key # key
    BY <1>2, <1>3, <2>2
  <2> QED  BY <2>1, <2>2
<1>5. GoodList(more)
  BY <1>3, <1>4, MappedFacts
<1> QED
  BY <1>3, <1>4, <1>5 DEF more

\* A tick brings every element nearer, none before another.
LEMMA ElapsedFacts ==
    ASSUME NEW list, GoodList(list)
    PROVE  LET more == [i \in DOMAIN list |-> [list[i] EXCEPT !.due = Sooner(@)]] IN
           /\ GoodList(more) /\ DOMAIN more = DOMAIN list
           /\ \A i \in DOMAIN list :
                 /\ more[i].due = Sooner(list[i].due)
                 /\ more[i].key = list[i].key /\ more[i].info = list[i].info
<1> DEFINE more == [i \in DOMAIN list |-> [list[i] EXCEPT !.due = Sooner(@)]]
<1>1. list \in Seq(Operations)
  BY DEF GoodList
<1>2. \A i \in DOMAIN list : list[i] \in Operations
  BY <1>1
<1>3. DOMAIN more = DOMAIN list /\ more = [i \in DOMAIN list |-> more[i]]
  OBVIOUS
<1>4. ASSUME NEW i \in DOMAIN list
      PROVE  /\ more[i] \in Operations /\ more[i].due = Sooner(list[i].due)
             /\ more[i].key = list[i].key /\ more[i].info = list[i].info
  <2>1. list[i] \in [key : Keys, info : Infos, due : Nat] /\ InfoOK(list[i])
    BY <1>2 DEF Operations
  <2>2. Sooner(list[i].due) \in Nat
    BY <2>1 DEF Sooner
  <2>3. /\ more[i] \in [key : Keys, info : Infos, due : Nat]
        /\ more[i].due = Sooner(list[i].due)
        /\ more[i].key = list[i].key /\ more[i].info = list[i].info
    BY <2>1, <2>2
  <2>4. InfoOK(more[i])
    BY <2>1, <2>3 DEF InfoOK
  <2> QED  BY <2>3, <2>4 DEF Operations
<1> HIDE DEF more
<1>5. ASSUME NEW i \in DOMAIN list, NEW j \in DOMAIN list, list[i].due <= list[j].due
      PROVE  more[i].due <= more[j].due
  <2>1. list[i].due \in Nat /\ list[j].due \in Nat
    BY <1>2, OperationFields
  <2> QED  BY <1>4, <1>5, <2>1 DEF Sooner
<1>6. GoodList(more)
  BY <1>3, <1>4, <1>5, MappedFacts
<1> QED
  BY <1>3, <1>4, <1>6 DEF more

\* The front element is taken.
LEMMA TakenFacts ==
    ASSUME NEW list, GoodList(list), list # <<>>
    PROVE  /\ GoodList(Tail(list)) /\ 1 \in DOMAIN list /\ Head(list) = list[1]
           /\ \A i \in DOMAIN Tail(list) : /\ i + 1 \in DOMAIN list /\ i + 1 # 1
                                           /\ Tail(list)[i] = list[i + 1]
<1>1. list \in Seq(Operations) /\ Distinct(list) /\ Ordered(list)
  BY DEF GoodList
<1>2. Len(list) \in Nat /\ DOMAIN list = 1 .. Len(list) /\ Len(list) # 0
  BY <1>1
<1>3. /\ Tail(list) \in Seq(Operations) /\ Len(Tail(list)) = Len(list) - 1
      /\ \A i \in 1 .. Len(list) - 1 : Tail(list)[i] = list[i + 1]
  BY <1>1, <1>2
<1>4. DOMAIN Tail(list) = 1 .. Len(list) - 1
  BY <1>3
<1>5. \A i \in 1 .. Len(list) - 1 : i + 1 \in 1 .. Len(list) /\ i + 1 # 1
  BY <1>2
<1>6. Distinct(Tail(list))
  BY <1>1, <1>2, <1>3, <1>4, <1>5 DEF Distinct
<1>7. Ordered(Tail(list))
  BY <1>1, <1>2, <1>3, <1>4, <1>5 DEF Ordered
<1>8. 1 \in DOMAIN list /\ Head(list) = list[1]
  BY <1>1, <1>2
<1> QED
  BY <1>2, <1>3, <1>4, <1>5, <1>6, <1>7, <1>8 DEF GoodList

-----------------------------------------------------------------------------
(* queue() and remove()                                                    *)

\* What they leave: nothing but the new elements and some of the old, and no
\* sleep that is too long.
FitsAfter(new, byWorker) ==
    /\ GoodList(m_list')
    /\ \A j \in DOMAIN m_list' :
          \/ m_list'[j] \in new
          \/ \E k \in DOMAIN m_list : m_list'[j] = m_list[k]
    /\ m_stop' \in BOOLEAN
    /\ m_stop' => m_list' = <<>> /\ isExiting
    /\ notices' \in 0 .. MaxNotices
    /\ \/ byWorker
       \/ worker = "asleep" /\ notices' = 0 =>
             \A j \in DOMAIN m_list' : timer # Forever /\ timer <= m_list'[j].due

LEMMA EmptyList == GoodList(<<>>) /\ DOMAIN <<>> = {}
<1>1. <<>> \in Seq(Operations) /\ DOMAIN <<>> = {}
  OBVIOUS
<1> QED
  BY <1>1 DEF GoodList, Distinct, Ordered

LEMMA NotifyOneFits ==
    ASSUME ScalarsFit, NEW byWorker \in BOOLEAN, notifyOne(byWorker)
    PROVE  notices' \in 0 .. MaxNotices /\ (byWorker \/ notices' # 0)
BY TimedQueueAssumption DEF ScalarsFit, notifyOne

LEMMA StopFits ==
    ASSUME QueueInv, isExiting, NEW byWorker \in BOOLEAN, stop(byWorker)
    PROVE  FitsAfter({}, byWorker)
<1>1. m_list' = <<>> /\ m_stop' = TRUE /\ notifyOne(byWorker)
  BY DEF stop
<1>2. notices' \in 0 .. MaxNotices
  BY <1>1, NotifyOneFits DEF QueueInv
<1> QED
  BY <1>1, <1>2, EmptyList DEF FitsAfter

\* In terms of places in the list.
LEMMA SleepsUntilDue ==
    ASSUME QueueInv, worker = "asleep", notices = 0, NEW i \in DOMAIN m_list
    PROVE  timer # Forever /\ timer <= m_list[i].due
BY DEF QueueInv, NeverOversleeps, Elements

LEMMA QueueFits ==
    ASSUME QueueInv, NEW key, NEW info, NEW delay \in Nat, NEW byWorker \in BOOLEAN,
           queue(key, info, delay, byWorker),
           \A due \in Nat : [key |-> key, info |-> info, due |-> due] \in Operations
    PROVE  FitsAfter({e \in Operations : e.key = key /\ e.info = info}, byWorker)
<1> DEFINE new == {e \in Operations : e.key = key /\ e.info = info}
           list == Inserted(m_list, key, info, delay)
<1>1. GoodList(m_list) /\ ScalarsFit /\ StoppedIsEmpty
  BY DEF QueueInv, ListFits
<1>2. CASE isExiting /\ stop(byWorker)
  BY <1>2, StopFits DEF FitsAfter
<1>3. CASE /\ ~isExiting /\ ~m_stop /\ KeepsPlace(key, delay)
           /\ m_list' = Updated(m_list, key, info)
           /\ UNCHANGED <<m_stop, notices>>
  <2>1. /\ GoodList(m_list') /\ DOMAIN m_list' = DOMAIN m_list
        /\ \A i \in DOMAIN m_list :
              /\ m_list'[i].due = m_list[i].due
              /\ m_list'[i] = m_list[i] \/ (m_list'[i].key = key /\ m_list'[i].info = info)
    BY <1>1, <1>3, UpdatedFacts
  <2>2. \A i \in DOMAIN m_list' : m_list'[i] \in Operations
    BY <2>1 DEF GoodList
  <2>3. \A j \in DOMAIN m_list' : m_list'[j] \in new \/ \E k \in DOMAIN m_list : m_list'[j] = m_list[k]
    BY <2>1, <2>2
  <2>4. worker = "asleep" /\ notices' = 0 =>
           \A j \in DOMAIN m_list' : timer # Forever /\ timer <= m_list'[j].due
    BY <1>3, <2>1, SleepsUntilDue
  <2> QED  BY <1>1, <1>3, <2>1, <2>3, <2>4 DEF FitsAfter, ScalarsFit
<1>4. CASE /\ ~isExiting /\ ~m_stop /\ ~KeepsPlace(key, delay)
           /\ m_list' = list
           /\ UNCHANGED m_stop
           /\ IF MustNotify(list, key) THEN notifyOne(byWorker) ELSE UNCHANGED notices
  <2> DEFINE e == [key |-> key, info |-> info, due |-> delay]
  <2>1. e \in Operations /\ e.key = key /\ e.info = info
    OBVIOUS
  <2>2. /\ GoodList(list) /\ list # <<>>
        /\ \A j \in DOMAIN list :
              \/ list[j] = e
              \/ list[j].key # key /\ \E k \in DOMAIN m_list : list[j] = m_list[k]
    BY <1>1, <2>1, InsertedFacts
  <2> HIDE DEF list, e
  <2>3. \A j \in DOMAIN m_list' : m_list'[j] \in new \/ \E k \in DOMAIN m_list : m_list'[j] = m_list[k]
    BY <1>4, <2>1, <2>2
  <2>4. notices' \in 0 .. MaxNotices
    BY <1>1, <1>4, NotifyOneFits DEF ScalarsFit
  <2>5. byWorker \/ (worker = "asleep" /\ notices' = 0 =>
           \A j \in DOMAIN m_list' : timer # Forever /\ timer <= m_list'[j].due)
    <3>1. CASE MustNotify(list, key)
      BY <1>1, <1>4, <3>1, NotifyOneFits
    <3>2. CASE ~MustNotify(list, key)
      <4> SUFFICES ASSUME worker = "asleep", notices' = 0, NEW j \in DOMAIN list
                   PROVE  timer # Forever /\ timer <= list[j].due
        BY <1>4
      <4>1. 1 \in DOMAIN list /\ Head(list) = list[1]
        BY <2>2, TakenFacts
      <4>2. PICK k \in DOMAIN m_list : list[1] = m_list[k]
        BY <2>1, <2>2, <3>2, <4>1 DEF MustNotify
      <4>3. timer # Forever /\ timer <= list[1].due
        BY <1>4, <3>2, <4>2, SleepsUntilDue
      <4>4. list \in Seq(Operations) /\ Ordered(list)
        BY <2>2 DEF GoodList
      <4>5. list[1] \in Operations /\ list[j] \in Operations /\ j \in 1 .. Len(list)
        BY <4>1, <4>4
      <4>6. list[1].due \in Nat /\ list[j].due \in Nat /\ timer \in Int
        BY <1>1, <4>5, OperationFields DEF ScalarsFit, Forever
      <4>7. list[1].due <= list[j].due
        BY <4>1, <4>4, <4>5, <4>6 DEF Ordered
      <4> QED  BY <4>3, <4>6, <4>7
    <3> QED  BY <3>1, <3>2
  <2> QED  BY <1>1, <1>4, <2>2, <2>3, <2>4, <2>5 DEF FitsAfter, ScalarsFit
<1> QED
  BY <1>2, <1>3, <1>4 DEF queue

LEMMA RemoveFits ==
    ASSUME QueueInv, NEW others, GoodList(others), remove(others),
           \A j \in DOMAIN others : \E k \in DOMAIN m_list : others[j] = m_list[k]
    PROVE  FitsAfter({}, FALSE)
<1>1. GoodList(m_list) /\ ScalarsFit /\ StoppedIsEmpty
  BY DEF QueueInv, ListFits
<1>2. CASE isExiting /\ ~m_stop /\ stop(FALSE)
  BY <1>2, StopFits
<1>3. CASE m_stop /\ UNCHANGED <<m_list, m_stop, notices>>
  BY <1>1, <1>3, SleepsUntilDue DEF FitsAfter, ScalarsFit, StoppedIsEmpty
<1>4. CASE /\ ~isExiting /\ ~m_stop
           /\ m_list' = others
           /\ UNCHANGED <<m_stop, notices>>
  BY <1>1, <1>4, SleepsUntilDue DEF FitsAfter, ScalarsFit, StoppedIsEmpty
<1> QED
  BY <1>2, <1>3, <1>4 DEF remove

-----------------------------------------------------------------------------
(* Steps of other threads                                                  *)

\* What other threads queue.
Admitted(new, registered) ==
    \A e \in new : ~Notification(e) /\ (e.key[1] \in Types => e.key \in registered)

\* A list that fits after a call of another thread.
LEMMA OthersFit ==
    ASSUME QueueInv, NEW new \in SUBSET Operations, FitsAfter(new, FALSE),
           workerAside, UNCHANGED <<sinceLastPurge, corruption>>,
           m_records' \subseteq Types \X Paths,
           Admitted(new, m_records'),
           \A i \in DOMAIN m_list :
              m_list'# <<>> /\ m_list[i].key[1] \in Types /\ m_list[i].key \notin m_records' =>
                 \A j \in DOMAIN m_list' : m_list'[j].key # m_list[i].key
    PROVE  QueueInv'
<1>1. /\ ScalarsFit /\ ListFits /\ Registered /\ StoppedIsEmpty /\ NeverOversleeps
      /\ CallbacksFit
  BY DEF QueueInv
<1>2. /\ UNCHANGED <<exitHandler, worker, timer, current>>
      /\ UNCHANGED <<m_corrupteds, callbacks, file, owed, notified>>
  BY DEF workerAside, corruption
<1>3. ScalarsFit'
  BY <1>1, <1>2 DEF ScalarsFit, FitsAfter
<1>4. ListFits'
  BY <1>1, <1>2 DEF ListFits, FitsAfter
<1>5. Registered'
  BY <1>4, EmptyList DEF FitsAfter, Registered, Admitted
<1>6. StoppedIsEmpty'
  BY <1>2 DEF StoppedIsEmpty, FitsAfter, isExiting
<1>7. NeverOversleeps'
  BY <1>2 DEF NeverOversleeps, FitsAfter, Elements
<1>8. CallbacksFit'
  BY <1>1, <1>2 DEF CallbacksFit, FitsAfter, Notification, Admitted
<1> QED
  BY <1>3, <1>4, <1>5, <1>6, <1>7, <1>8 DEF QueueInv

\* The registrations stay: nothing is asked of the old elements.
LEMMA OthersKeep ==
    ASSUME QueueInv, NEW new \in SUBSET Operations, FitsAfter(new, FALSE),
           workerAside, UNCHANGED <<records, corruption>>,
           Admitted(new, m_records)
    PROVE  QueueInv'
<1>1. Registered /\ m_records \subseteq Types \X Paths
  BY DEF QueueInv, ScalarsFit
<1>2. m_records' = m_records /\ sinceLastPurge' = sinceLastPurge
  BY DEF records
<1> QED
  BY <1>1, <1>2, OthersFit DEF Registered

LEMMA ZeroInfo ==
    ASSUME NEW key \in Keys, key[1] # "NotifyCorruption", NEW due \in Nat
    PROVE  [key |-> key, info |-> 0, due |-> due] \in Operations
<1>1. 0 \in 0 .. TolerableFailures - 1
  BY OperationQueueAssumption
<1> QED
  BY <1>1 DEF Operations, InfoOK, Infos

LEMMA TypeNames ==
    ASSUME NEW type \in Types
    PROVE  /\ type \notin {"Integrity", "NotifyCorruption", "Purge"}
           /\ type \in RetryTypes => type \notin PlainTypes
BY OperationQueueAssumption DEF Types

LEMMA registerAsRequiredStep ==
    ASSUME QueueInv, NEW type \in Types, NEW p \in Paths, registerAsRequired(type, p)
    PROVE  QueueInv'
<1> USE DEF registerAsRequired, queueVars, corruption
<1>1. ScalarsFit'
  BY DEF QueueInv, ScalarsFit
<1>2. ListFits' /\ StoppedIsEmpty' /\ NeverOversleeps' /\ CallbacksFit'
  BY DEF QueueInv, ListFits, StoppedIsEmpty, NeverOversleeps, CallbacksFit, Notification,
         Elements, isExiting
<1>3. Registered'
  BY DEF QueueInv, Registered
<1> QED
  BY <1>1, <1>2, <1>3 DEF QueueInv

LEMMA registerAsNoRequiredStep ==
    ASSUME QueueInv, NEW type \in Types, NEW p \in Paths, registerAsNoRequired(type, p)
    PROVE  QueueInv'
<1> DEFINE key == <<type, p>>
           others == Erased(m_list, key)
<1>1. /\ remove(others) /\ workerAside /\ UNCHANGED <<sinceLastPurge, corruption>>
      /\ m_records' = m_records \ {key}
  BY DEF registerAsNoRequired
<1>2. GoodList(m_list) /\ ScalarsFit /\ Registered /\ StoppedIsEmpty
  BY DEF QueueInv, ListFits
<1>3. /\ GoodList(others)
      /\ \A j \in DOMAIN others : /\ others[j].key # key
                                  /\ \E k \in DOMAIN m_list : others[j] = m_list[k]
  BY <1>2, ErasedFacts
<1> HIDE DEF others, key
<1>4. FitsAfter({}, FALSE)
  BY <1>1, <1>3, RemoveFits
<1>5. m_list' = <<>> \/ \A j \in DOMAIN m_list' : m_list'[j].key # key
  BY <1>1, <1>2, <1>3 DEF remove, stop, StoppedIsEmpty
<1>6. m_records' \subseteq Types \X Paths
  BY <1>1, <1>2 DEF ScalarsFit
<1>7. ASSUME NEW i \in DOMAIN m_list, m_list' # <<>>,
             m_list[i].key[1] \in Types, m_list[i].key \notin m_records'
      PROVE  \A j \in DOMAIN m_list' : m_list'[j].key # m_list[i].key
  BY <1>1, <1>2, <1>5, <1>7 DEF Registered
<1> QED
  <2>1. {} \in SUBSET Operations /\ Admitted({}, m_records')
    BY DEF Admitted
  <2>2. \A i \in DOMAIN m_list :
           m_list'# <<>> /\ m_list[i].key[1] \in Types /\ m_list[i].key \notin m_records' =>
              \A j \in DOMAIN m_list' : m_list'[j].key # m_list[i].key
    BY <1>7
  <2> QED  BY <1>1, <1>4, <1>6, <2>1, <2>2, OthersFit, Zenon

LEMMA requestStep ==
    ASSUME QueueInv, NEW type \in Types, NEW p \in Paths, request(type, p)
    PROVE  QueueInv'
<1> DEFINE key == <<type, p>>
           new == {e \in Operations : e.key = key /\ e.info = 0}
<1>1. /\ key \in m_records /\ workerAside /\ UNCHANGED <<records, corruption>>
      /\ \E delay \in {Interval[type]} \cup (IF type = "Backup" THEN {0} ELSE {}) :
            async(type, p, delay, 0, FALSE)
  BY DEF request
<1>2. PICK delay \in Nat : queue(key, 0, delay, FALSE)
  <2>1. Interval[type] \in Nat
    BY OperationQueueAssumption DEF Types
  <2> QED  BY <1>1, <2>1 DEF async
<1>3. key \in Keys /\ key[1] # "NotifyCorruption" /\ key # <<>> /\ key[1] = type
  BY TypeNames DEF Keys
<1> HIDE DEF key
<1>4. FitsAfter(new, FALSE)
  BY <1>2, <1>3, ZeroInfo, QueueFits
<1> QED
  <2>1. new \in SUBSET Operations /\ Admitted(new, m_records)
    BY <1>1, <1>3 DEF Admitted, Notification
  <2> QED  BY <1>1, <1>4, <2>1, OthersKeep, Zenon

LEMMA asyncPurgeStep ==
    ASSUME QueueInv, asyncPurge
    PROVE  QueueInv'
<1> DEFINE new == {e \in Operations : e.key = PurgeKey /\ e.info = 0}
<1>1. queue(PurgeKey, 0, 0, FALSE) /\ workerAside /\ UNCHANGED <<records, corruption>>
  BY DEF asyncPurge
<1>2. /\ PurgeKey \in Keys /\ PurgeKey[1] # "NotifyCorruption"
      /\ PurgeKey[1] \notin Types
  BY TypeNames DEF Keys, PurgeKey
<1>3. FitsAfter(new, FALSE)
  <2>1. \A due \in Nat : [key |-> PurgeKey, info |-> 0, due |-> due] \in Operations
    BY <1>2, ZeroInfo
  <2>2. 0 \in Nat /\ FALSE \in BOOLEAN
    OBVIOUS
  <2> QED  BY <1>1, <2>1, <2>2, QueueFits, Zenon
<1> QED
  <2>1. new \in SUBSET Operations /\ Admitted(new, m_records)
    BY <1>2 DEF Admitted, Notification
  <2> QED  BY <1>1, <1>3, <2>1, OthersKeep, Zenon

LEMMA handleErrorStep ==
    ASSUME QueueInv, NEW p \in Paths, handleError(p)
    PROVE  QueueInv'
<1> DEFINE key == <<"Integrity", p>>
           new == {e \in Operations : e.key = key /\ e.info = 0}
<1>1. queue(key, 0, 0, FALSE) /\ workerAside /\ UNCHANGED <<records, corruption>>
  BY DEF handleError
<1>2. key \in Keys /\ key[1] # "NotifyCorruption" /\ key[1] \notin Types
  BY TypeNames DEF Keys
<1> HIDE DEF key
<1>3. FitsAfter(new, FALSE)
  <2>1. \A due \in Nat : [key |-> key, info |-> 0, due |-> due] \in Operations
    BY <1>2, ZeroInfo
  <2>2. 0 \in Nat /\ FALSE \in BOOLEAN
    OBVIOUS
  <2> QED  BY <1>1, <2>1, <2>2, QueueFits, Zenon
<1> QED
  <2>1. new \in SUBSET Operations /\ Admitted(new, m_records)
    BY <1>2 DEF Admitted, Notification
  <2> QED  BY <1>1, <1>3, <2>1, OthersKeep, Zenon

LEMMA stopRetryingStep ==
    ASSUME QueueInv, NEW type \in Types, NEW p \in Paths, stopRetrying(type, p)
    PROVE  QueueInv'
<1> DEFINE others == Erased(m_list, <<type, p>>)
<1>1. remove(others) /\ workerAside /\ UNCHANGED <<records, corruption>>
  BY DEF stopRetrying
<1>2. /\ GoodList(others)
      /\ \A j \in DOMAIN others : \E k \in DOMAIN m_list : others[j] = m_list[k]
  BY ErasedFacts DEF QueueInv, ListFits
<1> HIDE DEF others
<1>3. FitsAfter({}, FALSE)
  BY <1>1, <1>2, RemoveFits
<1> QED
  <2>1. {} \in SUBSET Operations /\ Admitted({}, m_records)
    BY DEF Admitted
  <2> QED  BY <1>1, <1>3, <2>1, OthersKeep, Zenon

LEMMA stopAllDatabaseEventStep ==
    ASSUME QueueInv, NEW p \in Paths, stopAllDatabaseEvent(p)
    PROVE  QueueInv'
<1> DEFINE Kept(list) == /\ GoodList(list)
                         /\ \A j \in DOMAIN list : \E k \in DOMAIN m_list : list[j] = m_list[k]
           l1 == Erased(m_list, <<"Integrity", p>>)
           l2 == Erased(l1, <<"Checkpoint", p>>)
           l3 == Erased(l2, <<"Backup", p>>)
           l4 == Erased(l3, <<"Migrate", p>>)
           l5 == Erased(l4, <<"Compress", p>>)
           l6 == Erased(l5, <<"MergeIndex", p>>)
<1>1. remove(l6) /\ workerAside /\ UNCHANGED <<records, corruption>>
  BY DEF stopAllDatabaseEvent
<1>2. ASSUME NEW list, Kept(list), NEW key
      PROVE  Kept(Erased(list, key))
  <2>1. /\ GoodList(Erased(list, key))
        /\ \A j \in DOMAIN Erased(list, key) : \E k \in DOMAIN list : Erased(list, key)[j] = list[k]
    BY <1>2, ErasedFacts
  <2> QED  BY <1>2, <2>1
<1>3. Kept(m_list)
  BY DEF QueueInv, ListFits
<1> HIDE DEF Kept
<1>4. Kept(l1) /\ Kept(l2) /\ Kept(l3)
  BY <1>2, <1>3
<1>5. Kept(l6)
  <2> HIDE DEF l3
  <2> QED  BY <1>2, <1>4
<1> HIDE DEF l6
<1>6. FitsAfter({}, FALSE)
  BY <1>1, <1>5, RemoveFits DEF Kept
<1> QED
  <2>1. {} \in SUBSET Operations /\ Admitted({}, m_records)
    BY DEF Admitted
  <2> QED  BY <1>1, <1>6, <2>1, OthersKeep, Zenon

\* Steps that only concern the callbacks, the file or the exit handler.
LEMMA CallbackSteps ==
    ASSUME QueueInv, NEW p \in Paths,
           setNotification(p) \/ unsetNotification(p) \/ replaceFile(p)
    PROVE  QueueInv'
<1>1. /\ UNCHANGED <<m_list, m_stop, exitHandler, worker, timer, current, notices>>
      /\ UNCHANGED <<m_records, sinceLastPurge, m_corrupteds, notified>>
  BY DEF setNotification, unsetNotification, replaceFile, queueVars, records
<1>2. ListFits' /\ StoppedIsEmpty' /\ NeverOversleeps'
  BY <1>1 DEF QueueInv, ListFits, StoppedIsEmpty, NeverOversleeps, Elements, isExiting
<1>3. Registered' /\ CallbacksFit'
  BY <1>1 DEF QueueInv, Registered, CallbacksFit, Notification
<1>4. callbacks' \subseteq Paths /\ owed' \subseteq Paths
  BY DEF QueueInv, ScalarsFit, setNotification, unsetNotification, replaceFile
<1>5. file' \in [Paths -> 1 .. MaxFiles]
  <2>1. file \in [Paths -> 1 .. MaxFiles] /\ MaxFiles \in Nat
    BY OperationQueueAssumption DEF QueueInv, ScalarsFit
  <2> QED  BY <2>1 DEF setNotification, unsetNotification, replaceFile
<1>6. ScalarsFit'
  BY <1>1, <1>4, <1>5 DEF QueueInv, ScalarsFit
<1> QED
  BY <1>2, <1>3, <1>6 DEF QueueInv

\* Steps that change nothing but where the worker and the exit handler are, and
\* the notices: the worker may not fall asleep in them.
LEMMA AwakeSteps ==
    ASSUME QueueInv, UNCHANGED <<m_list, m_stop, records, corruption>>,
           current' = current \/ (current' = NoElement /\ worker' = "loop"),
           worker' = "running" => worker = "running",
           worker' = "asleep" => worker = "asleep" /\ timer' = timer /\ notices' = notices,
           exitHandler' \in {"idle", "raised", "done"}, isExiting => exitHandler' # "idle",
           worker' \in WorkerStates, timer' \in Nat \cup {Forever},
           notices' \in 0 .. MaxNotices
    PROVE  QueueInv'
<1>1. UNCHANGED <<m_list, m_stop, m_records, sinceLastPurge, m_corrupteds, callbacks,
                  file, owed, notified>>
  BY DEF records, corruption
<1>2. ScalarsFit'
  BY <1>1 DEF QueueInv, ScalarsFit
<1>3. ListFits'
  BY <1>1 DEF QueueInv, ListFits
<1>4. Registered'
  BY <1>1 DEF QueueInv, Registered
<1>5. StoppedIsEmpty'
  BY <1>1 DEF QueueInv, StoppedIsEmpty, isExiting
<1>6. NeverOversleeps'
  BY <1>1 DEF QueueInv, NeverOversleeps, Elements
<1>7. CallbacksFit'
  <2>1. ~Notification(NoElement)
    BY DEF Notification, NoElement
  <2>2. Notification(current') => current' = current
    BY <2>1
  <2> QED  BY <1>1, <2>2 DEF QueueInv, CallbacksFit, Notification
<1> QED
  BY <1>2, <1>3, <1>4, <1>5, <1>6, <1>7 DEF QueueInv

LEMMA WakeSteps ==
    ASSUME QueueInv, UNCHANGED <<records, corruption>>,
           timedOut \/ spuriousWakeup \/ notifyArrives \/ skipped \/ exitProcess
    PROVE  QueueInv'
<1>1. ScalarsFit
  BY DEF QueueInv
<1>2. UNCHANGED <<m_list, m_stop>> /\ (worker' = "running" => worker = "running")
  BY DEF timedOut, spuriousWakeup, notifyArrives, skipped, exitProcess, Wake
<1>3. current' = current \/ (current' = NoElement /\ worker' = "loop")
  BY DEF timedOut, spuriousWakeup, notifyArrives, skipped, exitProcess
<1>4. worker' = "asleep" => worker = "asleep" /\ timer' = timer /\ notices' = notices
  BY DEF timedOut, spuriousWakeup, notifyArrives, skipped, exitProcess, Wake
<1>5. exitHandler' \in {"idle", "raised", "done"} /\ (isExiting => exitHandler' # "idle")
  BY <1>1 DEF timedOut, spuriousWakeup, notifyArrives, skipped, exitProcess, ScalarsFit,
              isExiting
<1>6. worker' \in WorkerStates /\ timer' \in Nat \cup {Forever}
  BY <1>1 DEF timedOut, spuriousWakeup, notifyArrives, skipped, exitProcess, Wake,
              ScalarsFit, WorkerStates
<1>7. notices' \in 0 .. MaxNotices
  BY <1>1, TimedQueueAssumption
     DEF timedOut, spuriousWakeup, notifyArrives, skipped, exitProcess, ScalarsFit
<1> QED
  BY <1>2, <1>3, <1>4, <1>5, <1>6, <1>7, AwakeSteps

LEMMA stopQueueStep ==
    ASSUME QueueInv, stopQueue, UNCHANGED <<records, corruption>>
    PROVE  QueueInv'
<1>1. /\ UNCHANGED <<worker, timer, current>> /\ exitHandler' = "done"
      /\ m_list' = <<>> /\ DOMAIN m_list' = {} /\ GoodList(m_list')
      /\ m_stop' = TRUE /\ notices' \in 0 .. MaxNotices
      /\ UNCHANGED <<m_records, sinceLastPurge, m_corrupteds, callbacks, file, owed, notified>>
  BY NotifyOneFits, EmptyList DEF stopQueue, stop, QueueInv, records, corruption
<1>2. ScalarsFit'
  BY <1>1 DEF QueueInv, ScalarsFit
<1>3. ListFits' /\ Registered' /\ StoppedIsEmpty' /\ NeverOversleeps'
  BY <1>1 DEF QueueInv, ListFits, Registered, StoppedIsEmpty, NeverOversleeps, Elements,
              isExiting
<1>4. CallbacksFit'
  BY <1>1 DEF QueueInv, CallbacksFit, Notification
<1> QED
  BY <1>2, <1>3, <1>4 DEF QueueInv

-----------------------------------------------------------------------------
(* Steps of the worker and of the clock                                    *)

LEMMA SleepStep ==
    ASSUME QueueInv, NEW left, Sleep(left),
           UNCHANGED <<m_stop, exitHandler, notices, records, corruption>>,
           left \in Nat \cup {Forever},
           \A i \in DOMAIN m_list : left # Forever /\ left <= m_list[i].due
    PROVE  QueueInv'
<1>1. /\ UNCHANGED <<m_list, current, m_stop, exitHandler, notices>>
      /\ worker' = "asleep" /\ timer' = left
      /\ UNCHANGED <<m_records, sinceLastPurge, m_corrupteds, callbacks, file, owed, notified>>
  BY DEF Sleep, records, corruption
<1>2. ScalarsFit'
  BY <1>1 DEF QueueInv, ScalarsFit, WorkerStates
<1>3. ListFits' /\ Registered' /\ StoppedIsEmpty'
  BY <1>1 DEF QueueInv, ListFits, Registered, StoppedIsEmpty, isExiting
<1>4. NeverOversleeps'
  BY <1>1 DEF NeverOversleeps, Elements
<1>5. CallbacksFit'
  BY <1>1 DEF QueueInv, CallbacksFit, Notification
<1> QED
  BY <1>2, <1>3, <1>4, <1>5 DEF QueueInv

\* Two notifications of the same file would have the same key.
LEMMA TakeStep ==
    ASSUME QueueInv, m_list # <<>>, m_list' = Tail(m_list), current' = Head(m_list),
           worker' = "running",
           UNCHANGED <<timer, m_stop, exitHandler, notices, records, corruption>>
    PROVE  QueueInv'
<1>1. UNCHANGED <<m_records, sinceLastPurge, m_corrupteds, callbacks, file, owed, notified>>
  BY DEF records, corruption
<1>2. GoodList(m_list) /\ StoppedIsEmpty /\ CallbacksFit
  BY DEF QueueInv, ListFits
<1>3. /\ GoodList(m_list') /\ 1 \in DOMAIN m_list /\ current' = m_list[1]
      /\ \A i \in DOMAIN m_list' : /\ i + 1 \in DOMAIN m_list /\ i + 1 # 1
                                   /\ m_list'[i] = m_list[i + 1]
  BY <1>2, TakenFacts
<1>4. ScalarsFit'
  BY <1>1 DEF QueueInv, ScalarsFit, WorkerStates
<1>5. \A i \in DOMAIN m_list : m_list[i] \in Operations
  BY <1>2 DEF GoodList
<1>6. ListFits'
  BY <1>3, <1>5 DEF ListFits
<1>7. Registered'
  BY <1>1, <1>3 DEF QueueInv, Registered
<1>8. StoppedIsEmpty' /\ NeverOversleeps'
  BY <1>2 DEF StoppedIsEmpty, NeverOversleeps, isExiting
<1>9. CallbacksFit'
  <2>1. ASSUME NEW i \in DOMAIN m_list', Notification(m_list'[i]), Notification(current')
        PROVE  m_list'[i].info # current'.info
    <3> DEFINE k == i + 1
    <3>1. k \in DOMAIN m_list /\ k # 1 /\ m_list'[i] = m_list[k]
      BY <1>3
    <3> HIDE DEF k
    <3>2. m_list[k].key # m_list[1].key
      BY <1>2, <1>3, <3>1 DEF GoodList, Distinct
    <3>3. /\ m_list[k].key[1] = "NotifyCorruption" /\ m_list[1].key[1] = "NotifyCorruption"
          /\ m_list[k].info[1] = m_list[k].key[2] /\ m_list[1].info[1] = m_list[1].key[2]
      BY <1>2, <1>3, <2>1, <3>1 DEF Notification, CallbacksFit
    <3>4. m_list[k].key \in Keys /\ m_list[1].key \in Keys
      BY <1>3, <1>5, <3>1, OperationFields
    <3>5. m_list[k].key[2] # m_list[1].key[2]
      BY <3>2, <3>3, <3>4, KeyFields
    <3> QED  BY <1>3, <3>1, <3>3, <3>5
  <2>2. ASSUME NEW i \in DOMAIN m_list', Notification(m_list'[i])
        PROVE  /\ m_list'[i].info \in m_corrupteds' \ notified'
               /\ m_list'[i].info[1] = m_list'[i].key[2]
    BY <1>1, <1>2, <1>3, <2>2 DEF CallbacksFit
  <2>3. Notification(current') => current'.info \in m_corrupteds' \ notified'
    BY <1>1, <1>2, <1>3 DEF CallbacksFit
  <2>4. notified' \subseteq m_corrupteds'
    BY <1>1, <1>2 DEF CallbacksFit
  <2> QED  BY <2>1, <2>2, <2>3, <2>4 DEF CallbacksFit, Notification
<1> QED
  BY <1>4, <1>6, <1>7, <1>8, <1>9 DEF QueueInv

LEMMA loopStep ==
    ASSUME QueueInv, loop, UNCHANGED <<records, corruption>>
    PROVE  QueueInv'
<1>1. UNCHANGED <<m_stop, exitHandler, notices>> /\ worker = "loop"
  BY DEF loop
<1>2. ScalarsFit /\ GoodList(m_list)
  BY DEF QueueInv, ListFits
<1>3. CASE worker' = "returned" /\ UNCHANGED <<m_list, timer, current>>
  BY <1>1, <1>2, <1>3, AwakeSteps DEF ScalarsFit, WorkerStates, isExiting
<1>4. CASE m_list = <<>> /\ Sleep(Forever)
  BY <1>1, <1>4, SleepStep
<1>5. CASE m_list # <<>> /\ Head(m_list).due > 0 /\ Sleep(Head(m_list).due)
  <2>1. 1 \in DOMAIN m_list /\ Head(m_list) = m_list[1]
    BY <1>2, <1>5, TakenFacts
  <2>2. m_list \in Seq(Operations) /\ Ordered(m_list)
    BY <1>2 DEF GoodList
  <2>3. \A i \in DOMAIN m_list : m_list[i].due \in Nat
    <3>1. \A i \in DOMAIN m_list : m_list[i] \in Operations
      BY <2>2
    <3> QED  BY <3>1, OperationFields
  <2>4. ASSUME NEW i \in DOMAIN m_list
        PROVE  m_list[1].due # Forever /\ m_list[1].due <= m_list[i].due
    <3>1. i \in 1 .. Len(m_list) /\ Len(m_list) \in Nat
      BY <2>2
    <3>2. CASE i = 1
      BY <2>1, <2>3, <3>2 DEF Forever
    <3>3. CASE i # 1
      BY <2>1, <2>2, <2>3, <3>1, <3>3 DEF Forever, Ordered
    <3> QED  BY <3>2, <3>3
  <2> QED  BY <1>1, <1>5, <2>1, <2>3, <2>4, SleepStep
<1>6. CASE /\ m_list # <<>> /\ m_list' = Tail(m_list) /\ current' = Head(m_list)
           /\ worker' = "running" /\ UNCHANGED timer
  BY <1>1, <1>6, TakeStep
<1> QED
  BY <1>3, <1>4, <1>5, <1>6 DEF loop

\* The worker after the callback of loop().
LEMMA WorkerFits ==
    ASSUME QueueInv, NEW new \in SUBSET Operations, FitsAfter(new, TRUE), finished,
           UNCHANGED <<m_records, callbacks, file>>,
           sinceLastPurge' \in 0 .. PurgeInterval + 1, owed' \subseteq Paths,
           m_corrupteds \subseteq m_corrupteds', m_corrupteds' \subseteq Identifiers,
           notified' \subseteq m_corrupteds,
           \A i \in DOMAIN m_list : Notification(m_list[i]) => m_list[i].info \notin notified',
           \A e \in new : /\ e.key[1] \in Types => e.key \in m_records
                          /\ Notification(e) => /\ e.info \in m_corrupteds' \ notified'
                                                /\ e.info[1] = e.key[2]
    PROVE  QueueInv'
<1>1. worker' = "loop" /\ current' = NoElement /\ UNCHANGED <<exitHandler, timer>>
  BY DEF finished
<1>2. /\ GoodList(m_list') /\ m_stop' \in BOOLEAN /\ notices' \in 0 .. MaxNotices
      /\ m_stop' => m_list' = <<>> /\ isExiting
      /\ \A j \in DOMAIN m_list' : \/ m_list'[j] \in new
                                   \/ \E k \in DOMAIN m_list : m_list'[j] = m_list[k]
  BY DEF FitsAfter
<1>3. ScalarsFit'
  BY <1>1, <1>2 DEF QueueInv, ScalarsFit, WorkerStates
<1>4. ListFits' /\ StoppedIsEmpty' /\ NeverOversleeps'
  BY <1>1, <1>2 DEF ListFits, StoppedIsEmpty, NeverOversleeps, isExiting
<1>5. Registered'
  BY <1>2 DEF QueueInv, Registered
<1>6. CallbacksFit'
  <2>1. ~Notification(current')
    BY <1>1 DEF Notification, NoElement
  <2>2. ASSUME NEW j \in DOMAIN m_list', Notification(m_list'[j])
        PROVE  /\ m_list'[j].info \in m_corrupteds' \ notified'
               /\ m_list'[j].info[1] = m_list'[j].key[2]
    BY <1>2, <2>2 DEF QueueInv, CallbacksFit
  <2> QED  BY <2>1, <2>2 DEF CallbacksFit, Notification
<1> QED
  BY <1>3, <1>4, <1>5, <1>6 DEF QueueInv

LEMMA UnchangedFits ==
    ASSUME QueueInv, UNCHANGED <<m_list, m_stop, notices>>
    PROVE  FitsAfter({}, TRUE)
BY DEF QueueInv, FitsAfter, ListFits, ScalarsFit, StoppedIsEmpty

\* A run that queues nothing, or again what is registered.
LEMMA WorkerKeeps ==
    ASSUME QueueInv, NEW new \in SUBSET Operations, FitsAfter(new, TRUE), finished,
           m_records' = m_records, sinceLastPurge' \in 0 .. PurgeInterval + 1,
           UNCHANGED corruption, Admitted(new, m_records)
    PROVE  QueueInv'
<1>1. UNCHANGED <<m_corrupteds, callbacks, file, owed, notified>>
  BY DEF corruption
<1>2. ScalarsFit /\ CallbacksFit
  BY DEF QueueInv
<1> QED
  BY <1>1, <1>2, WorkerFits DEF ScalarsFit, CallbacksFit, Admitted

LEMMA doRetryingStep ==
    ASSUME QueueInv, NEW type \in RetryTypes, doRetrying(type)
    PROVE  QueueInv'
<1> DEFINE p == current.key[2]
           key == <<type, p>>
           New(failures) == {e \in Operations : e.key = key /\ e.info = failures}
<1>1. /\ worker = "running" /\ current.key[1] = type /\ finished
      /\ UNCHANGED <<records, corruption>>
  BY DEF doRetrying, Runs
<1>2. ScalarsFit /\ current \in Operations
  BY <1>1 DEF QueueInv, ListFits
<1>3. /\ type \in Types /\ type # "NotifyCorruption" /\ type # "Purge"
      /\ Interval[type] \in Nat /\ RetryInterval \in Nat
      /\ TolerableFailures \in Nat \ {0}
  BY OperationQueueAssumption DEF Types
<1>4. current.key \in Keys /\ InfoOK(current)
  BY <1>2, OperationFields
<1>5. key \in Keys /\ key[1] = type
  <2>1. p \in Paths
    BY <1>1, <1>3, <1>4, KeyFields
  <2> QED  BY <1>3, <2>1 DEF Keys
<1>6. current.info \in 0 .. TolerableFailures - 1
  BY <1>1, <1>3, <1>4 DEF InfoOK
<1>7. m_records' = m_records /\ sinceLastPurge' \in 0 .. PurgeInterval + 1
  BY <1>1, <1>2 DEF records, ScalarsFit
<1>8. ASSUME UNCHANGED <<m_list, m_stop, notices>>
      PROVE  QueueInv'
  <2>1. {} \in SUBSET Operations /\ Admitted({}, m_records) /\ FitsAfter({}, TRUE)
    BY <1>8, UnchangedFits DEF Admitted
  <2> QED  BY <1>1, <1>7, <2>1, WorkerKeeps
<1> HIDE DEF key, p
<1>9. ASSUME NEW failures \in 0 .. TolerableFailures - 1, NEW delay \in Nat,
             key \in m_records, queue(key, failures, delay, TRUE)
      PROVE  QueueInv'
  <2> DEFINE new == New(failures)
  <2>1. ASSUME NEW due \in Nat
        PROVE  [key |-> key, info |-> failures, due |-> due] \in Operations
    BY <1>5 DEF Operations, InfoOK, Infos
  <2>2. FitsAfter(new, TRUE)
    BY <1>9, <2>1, QueueFits, Zenon
  <2>3. new \in SUBSET Operations /\ Admitted(new, m_records)
    BY <1>3, <1>5, <1>9 DEF Admitted, Notification
  <2> HIDE DEF new
  <2> QED  BY <1>1, <1>7, <2>2, <2>3, WorkerKeeps
<1>10. CASE async(type, p, Interval[type], current.info, TRUE)
  BY <1>3, <1>6, <1>8, <1>9, <1>10 DEF async, key
<1>11. CASE MayRetry(current.info) /\ async(type, p, RetryInterval, current.info + 1, TRUE)
  <2>1. current.info + 1 \in 0 .. TolerableFailures - 1
    BY <1>3, <1>6, <1>11 DEF MayRetry
  <2> QED  BY <1>3, <1>8, <1>9, <1>11, <2>1 DEF async, key
<1> QED
  BY <1>8, <1>10, <1>11 DEF doRetrying, p

LEMMA doPlainAndPurgeStep ==
    ASSUME QueueInv, doPurge \/ \E type \in PlainTypes : doPlain(type)
    PROVE  QueueInv'
<1>1. /\ finished /\ UNCHANGED <<m_list, m_stop, notices, corruption>>
      /\ m_records' = m_records /\ sinceLastPurge' \in {0, sinceLastPurge}
  BY DEF doPlain, doPurge, Runs, records
<1>2. sinceLastPurge' \in 0 .. PurgeInterval + 1
  BY <1>1, OperationQueueAssumption DEF QueueInv, ScalarsFit
<1>3. {} \in SUBSET Operations /\ Admitted({}, m_records) /\ FitsAfter({}, TRUE)
  BY <1>1, UnchangedFits DEF Admitted
<1> QED
  BY <1>1, <1>2, <1>3, WorkerKeeps

LEMMA doCheckIntegrityStep ==
    ASSUME QueueInv, doCheckIntegrity
    PROVE  QueueInv'
<1>1. /\ finished /\ UNCHANGED <<m_records, sinceLastPurge, callbacks, file, notified>>
  BY DEF doCheckIntegrity, Runs, records
<1>2. ScalarsFit /\ CallbacksFit
  BY DEF QueueInv
<1>3. CASE UNCHANGED <<m_list, m_stop, notices, m_corrupteds, owed>>
  <2>1. {} \in SUBSET Operations /\ Admitted({}, m_records) /\ FitsAfter({}, TRUE)
    BY <1>3, UnchangedFits DEF Admitted
  <2> QED  BY <1>1, <1>2, <1>3, <2>1, WorkerKeeps DEF corruption, ScalarsFit
<1>4. ASSUME NEW p \in Paths, m_corrupteds' = m_corrupteds \cup {Identifier(p)},
             UNCHANGED <<m_list, m_stop, notices, owed>>
      PROVE  QueueInv'
  <2>1. Identifier(p) \in Identifiers
    BY <1>2 DEF Identifier, Identifiers, ScalarsFit
  <2>2. FitsAfter({}, TRUE)
    BY <1>4, UnchangedFits
  <2>3. /\ sinceLastPurge' \in 0 .. PurgeInterval + 1 /\ owed' \subseteq Paths
        /\ m_corrupteds \subseteq m_corrupteds' /\ m_corrupteds' \subseteq Identifiers
    BY <1>1, <1>2, <1>4, <2>1 DEF ScalarsFit
  <2>4. /\ notified' \subseteq m_corrupteds
        /\ \A i \in DOMAIN m_list : Notification(m_list[i]) => m_list[i].info \notin notified'
    BY <1>1, <1>2 DEF CallbacksFit
  <2>5. {} \in SUBSET Operations
    OBVIOUS
  <2> QED  BY <1>1, <2>2, <2>3, <2>4, <2>5, WorkerFits
<1>5. ASSUME NEW p \in Paths, m_corrupteds' = m_corrupteds \cup {Identifier(p)}, Confirmed(p),
             queue(<<"NotifyCorruption", p>>, Identifier(p), 0, TRUE), owed' = owed \cup {p}
      PROVE  QueueInv'
  <2> DEFINE key == <<"NotifyCorruption", p>>
             id == Identifier(p)
             new == {e \in Operations : e.key = key /\ e.info = id}
  <2>1. id \in Identifiers /\ id[1] = p /\ id \notin m_corrupteds
    BY <1>2, <1>5 DEF Identifier, Identifiers, ScalarsFit, Confirmed
  <2>2. key \in Keys /\ key[1] = "NotifyCorruption" /\ key[2] = p /\ key[1] \notin Types
    BY TypeNames DEF Keys
  <2>3. queue(key, id, 0, TRUE)
    BY <1>5
  <2> HIDE DEF key, id
  <2>4. ASSUME NEW due \in Nat PROVE [key |-> key, info |-> id, due |-> due] \in Operations
    BY <2>1, <2>2 DEF Operations, InfoOK, Infos
  <2>5. 0 \in Nat /\ TRUE \in BOOLEAN
    OBVIOUS
  <2>6. FitsAfter(new, TRUE)
    BY <2>3, <2>4, <2>5, QueueFits, Zenon
  <2>7. notified \subseteq m_corrupteds /\ notified' = notified
    BY <1>1, <1>2 DEF CallbacksFit
  <2>8. new \in SUBSET Operations /\ \A e \in new :
           /\ e.key[1] \in Types => e.key \in m_records
           /\ Notification(e) => e.info \in m_corrupteds' \ notified' /\ e.info[1] = e.key[2]
    BY <1>5, <2>1, <2>2, <2>7 DEF id
  <2>9. \A i \in DOMAIN m_list : Notification(m_list[i]) => m_list[i].info \notin notified'
    BY <1>2, <2>7 DEF CallbacksFit
  <2>10. /\ sinceLastPurge' \in 0 .. PurgeInterval + 1 /\ owed' \subseteq Paths
         /\ m_corrupteds \subseteq m_corrupteds' /\ m_corrupteds' \subseteq Identifiers
    BY <1>1, <1>2, <1>5, <2>1 DEF ScalarsFit, id
  <2> HIDE DEF new
  <2> QED  BY <1>1, <2>6, <2>7, <2>8, <2>9, <2>10, WorkerFits
<1> QED
  BY <1>3, <1>4, <1>5 DEF doCheckIntegrity

\* The callback is called for this file; no other notification is about it.
LEMMA doNotifyCorruptionStep ==
    ASSUME QueueInv, doNotifyCorruption
    PROVE  QueueInv'
<1>1. /\ worker = "running" /\ current.key[1] = "NotifyCorruption" /\ finished
      /\ UNCHANGED <<m_list, m_stop, notices, m_records, sinceLastPurge>>
      /\ UNCHANGED <<m_corrupteds, callbacks, file>>
      /\ notified' \in {notified, notified \cup {current.info}} /\ owed' \subseteq owed
  BY DEF doNotifyCorruption, Runs, records
<1>2. ScalarsFit /\ CallbacksFit /\ current \in Operations
  BY <1>1 DEF QueueInv, ListFits
<1>3. Notification(current)
  <2>1. current.key \in Keys
    BY <1>2, OperationFields
  <2>2. current.key # <<>>
    BY <2>1, KeyFields
  <2> QED  BY <1>1, <2>2 DEF Notification
<1>4. notified' \subseteq m_corrupteds
  BY <1>1, <1>2, <1>3 DEF CallbacksFit
<1>5. \A i \in DOMAIN m_list : Notification(m_list[i]) => m_list[i].info \notin notified'
  BY <1>1, <1>2, <1>3 DEF CallbacksFit
<1>6. FitsAfter({}, TRUE)
  BY <1>1, UnchangedFits
<1>7. /\ sinceLastPurge' \in 0 .. PurgeInterval + 1 /\ owed' \subseteq Paths
      /\ m_corrupteds \subseteq m_corrupteds' /\ m_corrupteds' \subseteq Identifiers
      /\ {} \in SUBSET Operations
  BY <1>1, <1>2 DEF ScalarsFit
<1> QED
  BY <1>1, <1>4, <1>5, <1>6, <1>7, WorkerFits

LEMMA callEmptyNotificationStep ==
    ASSUME QueueInv, callEmptyNotification
    PROVE  QueueInv'
BY AwakeSteps DEF callEmptyNotification, QueueInv, ScalarsFit, WorkerStates, isExiting

LEMMA tickStep ==
    ASSUME QueueInv, tick
    PROVE  QueueInv'
<1>1. /\ m_list' = [i \in DOMAIN m_list |-> [m_list[i] EXCEPT !.due = Sooner(@)]]
      /\ timer' = Sooner(timer)
      /\ UNCHANGED <<m_stop, exitHandler, worker, current, notices, m_records>>
      /\ UNCHANGED <<m_corrupteds, callbacks, file, owed, notified>>
  BY DEF tick, elapse, corruption
<1>2. ScalarsFit /\ GoodList(m_list)
  BY DEF QueueInv, ListFits
<1>3. /\ GoodList(m_list') /\ DOMAIN m_list' = DOMAIN m_list
      /\ \A i \in DOMAIN m_list :
            /\ m_list'[i].due = Sooner(m_list[i].due)
            /\ m_list'[i].key = m_list[i].key /\ m_list'[i].info = m_list[i].info
  <2> DEFINE more == [i \in DOMAIN m_list |-> [m_list[i] EXCEPT !.due = Sooner(@)]]
  <2>1. /\ GoodList(more) /\ DOMAIN more = DOMAIN m_list
        /\ \A i \in DOMAIN m_list :
              /\ more[i].due = Sooner(m_list[i].due)
              /\ more[i].key = m_list[i].key /\ more[i].info = m_list[i].info
    BY <1>2, ElapsedFacts
  <2>2. m_list' = more
    BY <1>1
  <2> HIDE DEF more
  <2> QED  BY <2>1, <2>2
<1>4. timer' \in Nat \cup {Forever} /\ sinceLastPurge' \in 0 .. PurgeInterval + 1
  BY <1>1, <1>2, OperationQueueAssumption DEF ScalarsFit, Sooner, Forever, tick
<1>5. ScalarsFit'
  BY <1>1, <1>2, <1>4 DEF ScalarsFit
<1>6. ListFits' /\ Registered'
  <2>1. UNCHANGED <<current, worker, m_records>>
    BY <1>1
  <2>2. ListFits'
    BY <1>3, <2>1 DEF QueueInv, ListFits
  <2>3. Registered'
    BY <1>3, <2>1 DEF QueueInv, Registered
  <2> QED  BY <2>2, <2>3
<1>7. StoppedIsEmpty'
  <2>1. m_list = <<>> => m_list' = <<>>
    BY <1>1
  <2> QED  BY <1>1, <2>1 DEF QueueInv, StoppedIsEmpty, isExiting
<1>8. NeverOversleeps'
  <2> SUFFICES ASSUME worker = "asleep", notices = 0, NEW i \in DOMAIN m_list
               PROVE  timer' # Forever /\ timer' <= m_list'[i].due
    BY <1>1, <1>3 DEF NeverOversleeps, Elements
  <2>1. timer # Forever /\ timer <= m_list[i].due
    BY SleepsUntilDue
  <2>2. m_list[i].due \in Nat
    <3>1. m_list[i] \in Operations
      BY <1>2 DEF GoodList
    <3> QED  BY <3>1, OperationFields
  <2>3. timer \in Nat
    BY <1>2, <2>1 DEF ScalarsFit
  <2> QED  BY <1>1, <1>3, <2>1, <2>2, <2>3 DEF Sooner, Forever
<1>9. CallbacksFit'
  BY <1>1, <1>3 DEF QueueInv, CallbacksFit, Notification
<1> QED
  BY <1>5, <1>6, <1>7, <1>8, <1>9 DEF QueueInv

-----------------------------------------------------------------------------
(* The theorems                                                            *)

LEMMA InitQueueInv ==
    ASSUME Init
    PROVE  QueueInv
<1> USE DEF Init, InitQueue
<1>1. ScalarsFit
  <2>1. /\ 0 \in Nat \cup {Forever} /\ 0 \in 0 .. MaxNotices
        /\ PurgeInterval + 1 \in 0 .. PurgeInterval + 1 /\ 1 \in 1 .. MaxFiles
    BY TimedQueueAssumption, OperationQueueAssumption
  <2>2. file \in [Paths -> 1 .. MaxFiles]
    BY <2>1
  <2>3. m_stop \in BOOLEAN
    OBVIOUS
  <2> QED  BY <2>1, <2>2, <2>3 DEF ScalarsFit, WorkerStates
<1>2. ListFits /\ Registered /\ StoppedIsEmpty
  BY EmptyList DEF ListFits, Registered, StoppedIsEmpty
<1>3. NeverOversleeps
  BY DEF NeverOversleeps
<1>4. CallbacksFit
  BY EmptyList DEF CallbacksFit, Notification, NoElement
<1> QED
  BY <1>1, <1>2, <1>3, <1>4 DEF QueueInv

LEMMA StutterQueueInv ==
    ASSUME QueueInv, UNCHANGED vars
    PROVE  QueueInv'
<1>1. /\ UNCHANGED <<m_list, m_stop, exitHandler, worker, timer, current, notices>>
      /\ UNCHANGED <<m_records, sinceLastPurge, m_corrupteds, callbacks, file, owed, notified>>
  BY DEF vars, queueVars, records, corruption
<1>2. ScalarsFit' /\ ListFits' /\ Registered'
  BY <1>1 DEF QueueInv, ScalarsFit, ListFits, Registered
<1>3. StoppedIsEmpty' /\ NeverOversleeps' /\ CallbacksFit'
  BY <1>1 DEF QueueInv, StoppedIsEmpty, NeverOversleeps, CallbacksFit, Notification,
              Elements, isExiting
<1> QED
  BY <1>2, <1>3 DEF QueueInv

LEMMA NextQueueInv ==
    ASSUME QueueInv, Next
    PROVE  QueueInv'
<1>1. CASE Worker
  <2>1. CASE loop /\ UNCHANGED <<records, corruption>>
    BY <2>1, loopStep
  <2>2. CASE (timedOut \/ skipped) /\ UNCHANGED <<records, corruption>>
    BY <2>2, WakeSteps
  <2>3. CASE \E type \in RetryTypes : doRetrying(type)
    BY <2>3, doRetryingStep
  <2>4. CASE doPurge \/ \E type \in PlainTypes : doPlain(type)
    BY <2>4, doPlainAndPurgeStep
  <2>5. CASE doCheckIntegrity
    BY <2>5, doCheckIntegrityStep
  <2>6. CASE doNotifyCorruption
    BY <2>6, doNotifyCorruptionStep
  <2>7. CASE callEmptyNotification
    BY <2>7, callEmptyNotificationStep
  <2> QED  BY <1>1, <2>1, <2>2, <2>3, <2>4, <2>5, <2>6, <2>7 DEF Worker
<1>2. CASE Callers
  BY <1>2, WakeSteps, stopQueueStep DEF Callers
<1>3. CASE Requests
  <2>1. ASSUME NEW p \in Paths, NEW type \in Types,
               \/ registerAsRequired(type, p) \/ registerAsNoRequired(type, p)
               \/ request(type, p) \/ stopRetrying(type, p)
        PROVE  QueueInv'
    BY <2>1, registerAsRequiredStep, registerAsNoRequiredStep, requestStep, stopRetryingStep
  <2>2. ASSUME NEW p \in Paths,
               \/ stopAllDatabaseEvent(p) \/ setNotification(p) \/ unsetNotification(p)
               \/ handleError(p) \/ replaceFile(p)
        PROVE  QueueInv'
    BY <2>2, stopAllDatabaseEventStep, CallbackSteps, handleErrorStep
  <2>3. CASE asyncPurge
    BY <2>3, asyncPurgeStep
  <2>4. CASE (spuriousWakeup \/ exitProcess) /\ UNCHANGED <<records, corruption>>
    BY <2>4, WakeSteps
  <2> QED  BY <1>3, <2>1, <2>2, <2>3, <2>4 DEF Requests
<1>4. CASE tick
  BY <1>4, tickStep
<1> QED
  BY <1>1, <1>2, <1>3, <1>4 DEF Next

\* The invariant of the background queue holds in every reachable state,
\* whatever is registered, requested, stopped or replaced, and whenever the
\* process exits.
THEOREM QueueInvariant == Spec => []QueueInv
<1>1. Init => QueueInv
  BY InitQueueInv
<1>2. QueueInv /\ [Next]_vars => QueueInv'
  BY NextQueueInv, StutterQueueInv
<1> QED
  BY <1>1, <1>2, PTL DEF Spec

\* TimedQueue::loop() never sleeps past the first element of the list while no
\* notify_one() is on its way, although queue() notifies only for the front
\* element and after the unlock.
THEOREM WorkerNeverOversleeps == Spec => []NeverOversleeps
<1>1. QueueInv => NeverOversleeps
  BY DEF QueueInv
<1> QED
  BY <1>1, QueueInvariant, PTL

\* Every queued operation is a registered one, is queued once and has failed
\* fewer times than OperationQueue tolerates; all variables have their types.
THEOREM OnlyRegisteredIsQueued == Spec => []QueuedIsRegistered
<1>1. QueueInv => QueuedIsRegistered
  <2> SUFFICES ASSUME QueueInv PROVE QueuedIsRegistered
    OBVIOUS
  <2>1. ScalarsFit /\ ListFits /\ Registered /\ GoodList(m_list)
    BY DEF QueueInv, ListFits
  <2>2. \A i \in DOMAIN m_list :
           m_list[i].key \in Keys /\ m_list[i].due \in Nat /\ InfoOK(m_list[i])
    <3>1. \A i \in DOMAIN m_list : m_list[i] \in Operations
      BY <2>1 DEF GoodList
    <3> QED  BY <3>1, OperationFields
  <2>3. current.key = <<>> \/ (current.key \in Keys /\ InfoOK(current))
    BY <2>1, OperationFields DEF ListFits, NoElement
  <2>4. \A i, j \in DOMAIN m_list : m_list[i].key = m_list[j].key => i = j
    BY <2>1 DEF GoodList, Distinct
  <2>5. TypeOK
    BY <2>1, <2>2, <2>3, <2>4 DEF TypeOK, ScalarsFit, Elements
  <2> QED  BY <2>1, <2>5 DEF QueuedIsRegistered, Registered, Elements
<1> QED
  BY <1>1, QueueInvariant, PTL

\* OperationQueue::doNotifyCorruption() calls the callback at most once for a
\* corrupted file: none is on its way for a file whose callback was called.
THEOREM CallbackIsCalledOnce == Spec => []NotifiedOnce
<1>1. QueueInv => NotifiedOnce
  BY DEF QueueInv, NotifiedOnce, CallbacksFit, Notification, Elements
<1> QED
  BY <1>1, QueueInvariant, PTL
=============================================================================
