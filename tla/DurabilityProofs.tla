-------------------------- MODULE DurabilityProofs --------------------------
(***************************************************************************)
(* Proofs about the two components on which it depends that what was       *)
(* written is still there: Transaction, for any set of writes and any      *)
(* bounds, and RepairFactory, for any number of rows, workshops,           *)
(* operations and faults.                                                  *)
(*                                                                         *)
(* Transaction.  NoTransactionLeft is not inductive: that RELEASE of a     *)
(* nested level never removes the BEGIN needs that the savepoints lie on   *)
(* SQLite's stack in the order of their levels and that every level the    *)
(* handle counts still has one, as long as errors are allowed (StackFits). *)
(* The refinement needs in addition that the savepoint of a level saved    *)
(* what its transaction saw first (Remembers), which is true until SQLite  *)
(* ends a transaction by itself.                                           *)
(*                                                                         *)
(* RepairFactory.  LayoutInv says which names the directories may have at  *)
(* each step, and that a log belongs to the database beside it; MovedInv   *)
(* that a moveItems() starts with nothing moved; BackInv which material    *)
(* holds the last backup while the other one is written or while the files *)
(* are moved; KeptInv where the rows that are owed are at each step, for   *)
(* the start that would follow if the process ended there.  FilesBelong    *)
(* rests on the first, BackupsSurvive on the first three, NothingIsLost on *)
(* the first two and the last, and on link(): with rename() a file loses   *)
(* its old name before all have their new ones.                            *)
(***************************************************************************)
EXTENDS Transaction, RepairFactory, FiniteSetTheorems, TLAPS

(***************************************************************************)
(* Transaction                                                             *)
(***************************************************************************)

IsLast(fs, name, i) ==
    /\ i \in DOMAIN fs /\ fs[i].name = name
    /\ \A j \in DOMAIN fs : j > i => fs[j].name # name

\* A stack of savepoints for n levels: ROLLBACK TO leaves savepoints of
\* levels that have ended, at most one level above.
Stacked(fs, n) ==
    /\ \A i, j \in DOMAIN fs : i < j => fs[i].name <= fs[j].name
    /\ \A i \in DOMAIN fs : fs[i].name <= n + 1
    /\ \A l \in 1 .. n : \E i \in DOMAIN fs : IsLast(fs, l, i)

AutocommitIsClean == ~isInTransaction => data = db

StackFits ==
    isInTransaction =>
        /\ frames[1].name = 1
        /\ m_transactionError = "Allowed" => Stacked(frames, SyncedLevel)

Remembers ==
    ~interrupted =>
        /\ SyncedLevel = Len(calls)
        /\ ~isInTransaction => m_transactionLevel = 0
        /\ calls # <<>> => calls[1] = db
        /\ m_transactionError = "Allowed" =>
             \A l \in 2 .. Len(calls) : frames[Find(frames, l)].saved = calls[l]

\* Whether the handle is kept for the thread.
Marked == /\ transactioned \in BOOLEAN /\ unguarded \in BOOLEAN
          /\ unguarded \/ transactioned = isInTransaction

TransactionInv ==
    /\ NoTransactionLeft
    /\ AutocommitIsClean
    /\ StackFits
    /\ Remembers

-----------------------------------------------------------------------------
(* The stack of savepoints                                                 *)

\* The names of savepoints are numbers.
LEMMA FrameNames ==
    ASSUME NEW f \in Frame
    PROVE  f.name \in 1 .. MaxLevel /\ f.name \in Nat /\ f.saved \subseteq Writes
BY LevelAssumption DEF Frame

\* What SQLite finds for a name is its last savepoint.
LEMMA FindIsLast ==
    ASSUME NEW fs \in Seq(Frame), NEW name, NEW i, IsLast(fs, name, i)
    PROVE  Find(fs, name) = i
<1> DEFINE P(k) == fs[k].name = name /\ \A j \in DOMAIN fs : j > k => fs[j].name # name
<1>1. i \in DOMAIN fs /\ P(i)
  BY DEF IsLast
<1>2. DOMAIN fs = 1 .. Len(fs) /\ Len(fs) \in Nat
  OBVIOUS
<1>3. \A k \in DOMAIN fs : P(k) => k = i
  <2> SUFFICES ASSUME NEW k \in DOMAIN fs, P(k) PROVE k = i
    OBVIOUS
  <2>1. ~(k > i) /\ ~(i > k)
    BY <1>1
  <2> QED  BY <1>1, <1>2, <2>1
<1>4. Find(fs, name) = CHOOSE k \in DOMAIN fs : P(k)
  BY DEF Find
<1> HIDE DEF P
<1> QED
  BY <1>1, <1>3, <1>4

\* A level of the stack has a last savepoint, which Find() returns.
LEMMA StackedFinds ==
    ASSUME NEW fs \in Seq(Frame), NEW n \in Nat, Stacked(fs, n), NEW l \in 1 .. n
    PROVE  IsLast(fs, l, Find(fs, l))
<1>1. PICK i \in DOMAIN fs : IsLast(fs, l, i)
  BY DEF Stacked
<1> QED
  BY <1>1, FindIsLast

\* SAVEPOINT: the stack fits one level more, and finds what it found before.
LEMMA StackPush ==
    ASSUME NEW fs \in Seq(Frame), NEW n \in Nat, Stacked(fs, n),
           NEW f \in Frame, f.name = n + 1
    PROVE  LET gs == Append(fs, f) IN
           /\ Stacked(gs, n + 1)
           /\ \A l \in 1 .. n : gs[Find(gs, l)] = fs[Find(fs, l)]
           /\ gs[Find(gs, n + 1)] = f
<1> DEFINE gs == Append(fs, f)
           m == Len(fs)
<1>1. /\ gs \in Seq(Frame) /\ Len(gs) = m + 1 /\ m \in Nat
      /\ DOMAIN fs = 1 .. m /\ DOMAIN gs = 1 .. (m + 1)
      /\ \A i \in 1 .. m : gs[i] = fs[i]
      /\ gs[m + 1] = f
  OBVIOUS
<1>2. \A i \in 1 .. m : fs[i].name \in Nat /\ fs[i].name <= n + 1
  <2>1. \A i \in 1 .. m : fs[i] \in Frame
    BY <1>1
  <2> QED  BY <1>1, <2>1, FrameNames DEF Stacked
<1>3. \A i, j \in 1 .. m : i < j => fs[i].name <= fs[j].name
  BY <1>1 DEF Stacked
<1> HIDE DEF gs, m
<1>4. IsLast(gs, n + 1, m + 1)
  BY <1>1 DEF IsLast
<1>5. ASSUME NEW l \in 1 .. n
      PROVE  IsLast(gs, l, Find(fs, l)) /\ Find(fs, l) \in 1 .. m
  <2>1. IsLast(fs, l, Find(fs, l))
    BY StackedFinds
  <2> QED  BY <1>1, <2>1 DEF IsLast
<1>6. Stacked(gs, n + 1)
  <2>1. \A i, j \in DOMAIN gs : i < j => gs[i].name <= gs[j].name
    BY <1>1, <1>2, <1>3
  <2>2. \A i \in DOMAIN gs : gs[i].name <= (n + 1) + 1
    BY <1>1, <1>2
  <2>3. ASSUME NEW l \in 1 .. (n + 1) PROVE \E i \in DOMAIN gs : IsLast(gs, l, i)
    <3>1. CASE l = n + 1
      BY <1>1, <1>4, <3>1
    <3>2. CASE l # n + 1
      <4>1. l \in 1 .. n
        BY <3>2
      <4> QED  BY <1>1, <1>5, <4>1
    <3> QED  BY <3>1, <3>2
  <2> QED  BY <2>1, <2>2, <2>3 DEF Stacked
<1>7. gs[Find(gs, n + 1)] = f
  BY <1>1, <1>4, FindIsLast
<1>8. ASSUME NEW l \in 1 .. n PROVE gs[Find(gs, l)] = fs[Find(fs, l)]
  <2>1. Find(gs, l) = Find(fs, l)
    BY <1>1, <1>5, FindIsLast
  <2> QED  BY <1>1, <1>5, <2>1
<1> QED
  BY <1>6, <1>7, <1>8 DEF gs

\* RELEASE and ROLLBACK TO cut the stack just below or just above the last
\* savepoint of the innermost level: the levels below keep theirs.
LEMMA StackCut ==
    ASSUME NEW fs \in Seq(Frame), NEW n \in Nat, n > 1, Stacked(fs, n),
           NEW k \in Int, k = Find(fs, n) \/ k = Find(fs, n) - 1
    PROVE  LET gs == SubSeq(fs, 1, k) IN
           /\ Find(fs, n) \in 2 .. Len(fs)
           /\ gs \in Seq(Frame) /\ gs # <<>> /\ gs[1] = fs[1]
           /\ Stacked(gs, n - 1)
           /\ \A l \in 1 .. n - 1 : gs[Find(gs, l)] = fs[Find(fs, l)]
<1> DEFINE gs == SubSeq(fs, 1, k)
           m == Len(fs)
           top == Find(fs, n)
<1>1. DOMAIN fs = 1 .. m /\ m \in Nat
  OBVIOUS
<1>2. IsLast(fs, n, top)
  <2>1. n \in 1 .. n
    OBVIOUS
  <2> QED  BY <2>1, StackedFinds
<1>3. \A i \in 1 .. m : fs[i] \in Frame /\ fs[i].name \in Nat
  <2>1. \A i \in 1 .. m : fs[i] \in Frame
    BY <1>1
  <2> QED  BY <2>1, FrameNames
<1>4. \A i, j \in 1 .. m : i < j => fs[i].name <= fs[j].name
  BY <1>1 DEF Stacked
<1> HIDE DEF top
<1>5. ASSUME NEW l \in 1 .. n - 1
      PROVE  Find(fs, l) \in 1 .. m /\ IsLast(fs, l, Find(fs, l)) /\ Find(fs, l) < top
  <2>1. l \in 1 .. n
    OBVIOUS
  <2>2. IsLast(fs, l, Find(fs, l))
    BY <2>1, StackedFinds
  <2>3. Find(fs, l) \in 1 .. m /\ fs[Find(fs, l)].name = l
    BY <1>1, <2>2 DEF IsLast
  <2>4. top \in 1 .. m /\ fs[top].name = n
    BY <1>1, <1>2 DEF IsLast
  <2> QED  BY <1>4, <2>2, <2>3, <2>4
<1>6. top \in 2 .. m
  <2>1. top \in 1 .. m
    BY <1>1, <1>2 DEF IsLast
  <2>2. 1 \in 1 .. n - 1
    OBVIOUS
  <2> QED  BY <1>5, <2>1, <2>2
<1>7. k \in 1 .. m /\ (k = top \/ k = top - 1)
  BY <1>6 DEF top
<1>8. /\ gs \in Seq(Frame) /\ Len(gs) = k /\ DOMAIN gs = 1 .. k
      /\ \A i \in 1 .. k : gs[i] = fs[i]
  BY <1>1, <1>3, <1>7
<1> HIDE DEF gs, m
<1>9. ASSUME NEW l \in 1 .. n - 1
      PROVE  IsLast(gs, l, Find(fs, l)) /\ Find(fs, l) \in 1 .. k
  <2>1. /\ Find(fs, l) \in 1 .. m /\ Find(fs, l) < top
        /\ IsLast(fs, l, Find(fs, l))
    BY <1>5
  <2>2. Find(fs, l) \in 1 .. k
    BY <1>1, <1>6, <1>7, <2>1
  <2>3. \A j \in 1 .. k : j \in 1 .. m
    BY <1>1, <1>7
  <2> QED  BY <1>1, <1>8, <2>1, <2>2, <2>3 DEF IsLast
<1>10. Stacked(gs, n - 1)
  <2>1. \A i, j \in DOMAIN gs : i < j => gs[i].name <= gs[j].name
    <3>1. \A j \in 1 .. k : j \in 1 .. m
      BY <1>1, <1>7
    <3> QED  BY <1>4, <1>8, <3>1
  <2>2. ASSUME NEW i \in DOMAIN gs PROVE gs[i].name <= (n - 1) + 1
    <3>1. i \in 1 .. m /\ i <= top /\ gs[i] = fs[i]
      BY <1>1, <1>6, <1>7, <1>8
    <3>2. fs[top].name = n /\ top \in 1 .. m
      BY <1>1, <1>2 DEF IsLast
    <3>3. fs[i].name <= n
      BY <1>3, <1>4, <3>1, <3>2
    <3> QED  BY <3>1, <3>3
  <2>3. \A l \in 1 .. n - 1 : \E i \in DOMAIN gs : IsLast(gs, l, i)
    BY <1>8, <1>9
  <2> QED  BY <2>1, <2>2, <2>3 DEF Stacked
<1>11. ASSUME NEW l \in 1 .. n - 1 PROVE gs[Find(gs, l)] = fs[Find(fs, l)]
  <2>1. Find(gs, l) = Find(fs, l)
    BY <1>8, <1>9, FindIsLast
  <2> QED  BY <1>8, <1>9, <2>1
<1>12. gs # <<>> /\ gs[1] = fs[1]
  BY <1>7, <1>8
<1> QED
  BY <1>6, <1>8, <1>10, <1>11, <1>12 DEF gs, top, m

-----------------------------------------------------------------------------
(* The invariant                                                           *)

\* The level with which begin() goes on is one the thread has begun.
LEMMA LevelFacts ==
    ASSUME TransactionInv
    PROVE  /\ Len(calls) \in Nat /\ calls \in Seq(SUBSET Writes)
           /\ frames \in Seq(Frame)
           /\ m_transactionLevel \in Nat
           /\ SyncedLevel \in Nat /\ SyncedLevel <= Len(calls)
           /\ isInTransaction <=> SyncedLevel # 0
           /\ isInTransaction /\ m_transactionLevel # 0 => SyncedLevel = m_transactionLevel
           /\ calls = <<>> <=> Len(calls) = 0
<1>1. /\ calls \in Seq(SUBSET Writes) /\ frames \in Seq(Frame)
      /\ m_transactionLevel \in Nat /\ m_transactionLevel <= Len(calls)
      /\ calls = <<>> => ~isInTransaction
  BY LevelAssumption DEF TransactionInv, NoTransactionLeft, TypeOK
<1>2. Len(calls) \in Nat /\ (calls = <<>> <=> Len(calls) = 0)
  BY <1>1
<1> QED
  BY <1>1, <1>2 DEF SyncedLevel

LEMMA InitTransactionInv == Init => TransactionInv
<1> SUFFICES ASSUME Init PROVE TransactionInv
  OBVIOUS
<1> USE DEF Init, isInTransaction
<1>1. NoTransactionLeft
  <2>1. /\ frames \in Seq(Frame) /\ calls \in Seq(SUBSET Writes)
        /\ Len(calls) = 0 /\ 0 \in 0 .. MaxLevel /\ 0 <= MaxLevel
    BY LevelAssumption
  <2>2. {transactioned, returned, interrupted, unguarded} \subseteq BOOLEAN
    OBVIOUS
  <2>3. TypeOK
    BY <2>1, <2>2 DEF TypeOK, Errors
  <2>4. transactioned = isInTransaction
    BY Zenon
  <2>5. m_transactionLevel <= Len(calls)
    BY <2>1
  <2> QED  BY <2>3, <2>4, <2>5 DEF NoTransactionLeft
<1>2. AutocommitIsClean /\ StackFits
  BY DEF AutocommitIsClean, StackFits
<1>3. Remembers
  BY DEF Remembers, SyncedLevel
<1> QED
  BY <1>1, <1>2, <1>3 DEF TransactionInv

\* A guard leaves the mark right, or as it was.
LEMMA GuardMarks ==
    ASSUME TransactionInv, TransactionGuard
    PROVE  Marked'
<1> DEFINE in == frames # <<>>
           after == frames' # <<>>
<1>1. /\ transactioned \in BOOLEAN /\ unguarded \in BOOLEAN
      /\ unguarded \/ transactioned = in
  BY DEF TransactionInv, NoTransactionLeft, TypeOK, isInTransaction
<1>2. isInTransaction = in /\ isInTransaction' = after
  BY Zenon DEF isInTransaction
<1>3. CASE in = after
  <2>1. transactioned' = transactioned /\ unguarded' = unguarded
    BY <1>3 DEF TransactionGuard, isInTransaction
  <2>2. unguarded' \/ transactioned' = after
    BY <1>1, <1>3, <2>1
  <2> QED  BY <1>1, <1>2, <2>1, <2>2, Zenon DEF Marked
<1>4. CASE ~(in = after)
  <2>1. transactioned' = after /\ unguarded' = FALSE
    BY <1>4 DEF TransactionGuard, isInTransaction
  <2>2. after \in BOOLEAN /\ FALSE \in BOOLEAN
    OBVIOUS
  <2> QED  BY <1>2, <2>1, <2>2, Zenon DEF Marked
<1> QED
  BY <1>3, <1>4

\* A step() that begins or ends a transaction leaves it open.
LEMMA UnguardedMarks ==
    ASSUME TransactionInv, Unguarded
    PROVE  Marked'
<1>1. transactioned \in BOOLEAN
  BY DEF TransactionInv, NoTransactionLeft, TypeOK
<1> QED
  BY <1>1 DEF Unguarded, Marked

\* What a step that leaves the mark alone needs.
LEMMA MarkStays ==
    ASSUME TransactionInv, UNCHANGED <<transactioned, unguarded, frames>>
    PROVE  Marked'
  BY DEF TransactionInv, NoTransactionLeft, TypeOK, Marked, isInTransaction

LEMMA MarkInv ==
    ASSUME TransactionInv, markErrorNotAllowedWithinTransaction
    PROVE  TransactionInv'
<1> USE DEF TransactionInv, markErrorNotAllowedWithinTransaction
<1>1. NoTransactionLeft'
  <2>1. Marked'
    BY MarkStays
  <2> QED  BY <2>1 DEF Marked, NoTransactionLeft, TypeOK, Errors, isInTransaction
<1>2. AutocommitIsClean' /\ StackFits'
  BY DEF AutocommitIsClean, StackFits, isInTransaction
<1>3. Remembers'
  BY DEF Remembers, SyncedLevel, isInTransaction
<1> QED
  BY <1>1, <1>2, <1>3 DEF TransactionInv

LEMMA BeginInv ==
    ASSUME TransactionInv, beginTransaction
    PROVE  TransactionInv'
<1> DEFINE n == SyncedLevel
           f == [name |-> n + 1, saved |-> data]
           pushes == n = 0 \/ m_transactionError = "Allowed"
<1>1. /\ calls \in Seq(SUBSET Writes) /\ Len(calls) \in Nat
      /\ frames \in Seq(Frame) /\ n \in Nat /\ n <= Len(calls)
      /\ isInTransaction <=> n # 0
  BY LevelFacts
<1>2. /\ Len(calls) < MaxLevel
      /\ calls' = Append(calls, data) /\ returned' = TRUE
      /\ m_transactionLevel' = n + 1
      /\ frames' = IF pushes THEN Append(frames, f) ELSE frames
      /\ UNCHANGED <<db, data, m_transactionError, interrupted>>
  BY DEF beginTransaction, Opened
<1>3. f \in Frame /\ f.name = n + 1 /\ f.saved = data
  BY <1>1, <1>2, LevelAssumption DEF TransactionInv, NoTransactionLeft, TypeOK, Frame
<1>4. /\ calls' \in Seq(SUBSET Writes) /\ Len(calls') = Len(calls) + 1
      /\ calls' # <<>> /\ calls'[Len(calls) + 1] = data
      /\ \A l \in 1 .. Len(calls) : calls'[l] = calls[l]
  <2>1. data \in SUBSET Writes
    BY DEF TransactionInv, NoTransactionLeft, TypeOK
  <2> QED  BY <1>1, <1>2, <2>1
<1> HIDE DEF f
<1>5. frames' \in Seq(Frame) /\ frames' # <<>>
  BY <1>1, <1>2, <1>3 DEF isInTransaction
<1>6. SyncedLevel' = n + 1
  <2>1. n + 1 # 0
    BY <1>1
  <2> QED  BY <1>2, <1>5, <2>1 DEF SyncedLevel, isInTransaction
<1>7. NoTransactionLeft'
  <2>1. Marked'
    BY GuardMarks DEF beginTransaction
  <2>2. m_transactionLevel' \in 0 .. MaxLevel /\ m_transactionLevel' <= Len(calls')
    BY <1>1, <1>2, <1>4, LevelAssumption
  <2>3. Len(calls') <= MaxLevel
    BY <1>1, <1>2, <1>4, LevelAssumption
  <2> QED
    BY <1>2, <1>4, <1>5, <2>1, <2>2, <2>3
    DEF Marked, TransactionInv, NoTransactionLeft, TypeOK
<1>8. AutocommitIsClean'
  BY <1>5 DEF AutocommitIsClean, isInTransaction
<1>9. CASE n = 0
  <2>1. frames = <<>> /\ frames' = <<f>>
    BY <1>2, <1>9, <1>1 DEF isInTransaction
  <2>2. frames'[1] = f /\ DOMAIN frames' = {1} /\ f.name = 1
    BY <1>3, <1>9, <2>1
  <2>3. StackFits'
    <3>1. IsLast(frames', 1, 1)
      BY <2>2 DEF IsLast
    <3>2. Stacked(frames', 1)
      BY <2>2, <3>1 DEF Stacked
    <3> QED  BY <1>6, <1>9, <2>2, <3>2 DEF StackFits
  <2>4. Remembers'
    <3> SUFFICES ASSUME ~interrupted PROVE Remembers'
      BY <1>2 DEF Remembers
    <3>1. Len(calls) = 0 /\ calls = <<>>
      BY <1>1, <1>9 DEF TransactionInv, Remembers
    <3>2. data = db
      BY <3>1 DEF TransactionInv, NoTransactionLeft
    <3>3. Len(calls') = 1 /\ calls'[1] = db'
      BY <1>2, <1>4, <3>1, <3>2
    <3> QED  BY <1>5, <1>6, <1>9, <3>3 DEF Remembers, isInTransaction
  <2> QED
    BY <1>7, <1>8, <2>3, <2>4 DEF TransactionInv
<1>10. CASE n # 0
  <2>1. /\ frames # <<>> /\ frames[1].name = 1
        /\ m_transactionError = "Allowed" => Stacked(frames, n)
    BY <1>1, <1>10 DEF TransactionInv, StackFits, isInTransaction
  <2>2. frames'[1] = frames[1]
    BY <1>1, <1>2, <1>3, <2>1
  <2>3. StackFits'
    <3> SUFFICES ASSUME m_transactionError = "Allowed" PROVE Stacked(frames', n + 1)
      BY <1>2, <1>6, <2>1, <2>2 DEF StackFits
    <3>1. frames' = Append(frames, f)
      BY <1>2
    <3> QED  BY <1>1, <1>3, <2>1, <3>1, StackPush
  <2>4. Remembers'
    <3> SUFFICES ASSUME ~interrupted PROVE Remembers'
      BY <1>2 DEF Remembers
    <3>1. n = Len(calls) /\ (calls # <<>> => calls[1] = db)
      BY DEF TransactionInv, Remembers
    <3>2. SyncedLevel' = Len(calls')
      BY <1>4, <1>6, <3>1
    <3>3. calls'[1] = db'
      BY <1>1, <1>2, <1>4, <1>10, <3>1
    <3>4. ASSUME m_transactionError = "Allowed", NEW l \in 2 .. Len(calls')
          PROVE  frames'[Find(frames', l)].saved = calls'[l]
      <4>1. frames' = Append(frames, f)
        BY <1>2, <3>4
      <4>2. /\ \A k \in 1 .. n : frames'[Find(frames', k)] = frames[Find(frames, k)]
            /\ frames'[Find(frames', n + 1)] = f
        BY <1>1, <1>3, <2>1, <3>4, <4>1, StackPush
      <4>3. CASE l = n + 1
        BY <1>3, <1>4, <3>1, <4>2, <4>3
      <4>4. CASE l # n + 1
        <5>1. l \in 1 .. n /\ l \in 2 .. Len(calls)
          BY <1>1, <1>4, <3>1, <4>4
        <5>2. frames[Find(frames, l)].saved = calls[l]
          BY <3>4, <5>1 DEF TransactionInv, Remembers
        <5> QED  BY <1>4, <3>1, <4>2, <5>1, <5>2
      <4> QED  BY <4>3, <4>4
    <3> QED
      BY <1>2, <1>5, <3>2, <3>3, <3>4 DEF Remembers, isInTransaction
  <2> QED
    BY <1>7, <1>8, <2>3, <2>4 DEF TransactionInv
<1> QED
  BY <1>9, <1>10

LEMMA BeginFailsInv ==
    ASSUME TransactionInv, beginFails
    PROVE  TransactionInv'
<1>1. /\ m_transactionLevel' = SyncedLevel
      /\ m_transactionError' = notifyError(m_transactionError)
      /\ returned' = FALSE
      /\ UNCHANGED <<db, data, frames, transactioned, calls, interrupted, unguarded>>
  BY DEF beginFails
<1>2. /\ Len(calls) \in Nat /\ SyncedLevel \in Nat /\ SyncedLevel <= Len(calls)
      /\ isInTransaction <=> SyncedLevel # 0
      /\ calls = <<>> <=> Len(calls) = 0
  BY LevelFacts
<1>3. /\ m_transactionError' \in Errors
      /\ m_transactionError' = "Allowed" => m_transactionError = "Allowed"
  BY <1>1 DEF notifyError, Errors
<1>4. SyncedLevel' = SyncedLevel
  BY <1>1, <1>2 DEF SyncedLevel, isInTransaction
<1>5. NoTransactionLeft'
  <2>1. m_transactionLevel' \in 0 .. MaxLevel
    BY <1>1, <1>2, LevelAssumption DEF TransactionInv, NoTransactionLeft, TypeOK
  <2>2. Marked'
    BY <1>1, MarkStays
  <2> QED
    BY <1>1, <1>2, <1>3, <2>1, <2>2
    DEF Marked, TransactionInv, NoTransactionLeft, TypeOK, isInTransaction
<1>6. AutocommitIsClean' /\ StackFits'
  BY <1>1, <1>3, <1>4 DEF TransactionInv, AutocommitIsClean, StackFits, isInTransaction
<1>7. Remembers'
  BY <1>1, <1>2, <1>3, <1>4 DEF TransactionInv, Remembers, isInTransaction
<1> QED
  BY <1>5, <1>6, <1>7 DEF TransactionInv

LEMMA ExecuteBeginInv ==
    ASSUME TransactionInv, BEGIN, TransactionGuard \/ Unguarded
    PROVE  TransactionInv'
<1> DEFINE f == [name |-> 1, saved |-> data]
<1>1. /\ frames = <<>> /\ calls = <<>> /\ data = db /\ m_transactionLevel = 0
      /\ data \in SUBSET Writes
  BY DEF BEGIN, isInTransaction, TransactionInv, NoTransactionLeft, TypeOK
<1>2. /\ calls' = Append(calls, data) /\ returned' = TRUE
      /\ frames' = <<f>>
      /\ UNCHANGED <<db, data, m_transactionLevel, m_transactionError, interrupted>>
  BY DEF BEGIN, Opened
<1>3. /\ calls' \in Seq(SUBSET Writes) /\ Len(calls') = 1 /\ calls'[1] = data
      /\ calls' # <<>>
  BY <1>1, <1>2
<1>4. f \in Frame /\ f.name = 1
  BY <1>1, LevelAssumption DEF Frame
<1> HIDE DEF f
<1>5. frames' \in Seq(Frame) /\ frames' # <<>> /\ frames'[1] = f /\ DOMAIN frames' = {1}
  BY <1>2, <1>4
<1>6. SyncedLevel' = 1
  BY <1>1, <1>2, <1>5 DEF SyncedLevel, isInTransaction
<1>7. NoTransactionLeft'
  <2>1. Marked'
    BY GuardMarks, UnguardedMarks
  <2>2. 1 <= MaxLevel /\ 0 <= 1 /\ 0 \in 0 .. MaxLevel
    BY LevelAssumption
  <2> QED
    BY <1>1, <1>2, <1>3, <1>5, <2>1, <2>2
    DEF Marked, TransactionInv, NoTransactionLeft, TypeOK
<1>8. AutocommitIsClean'
  BY <1>5 DEF AutocommitIsClean, isInTransaction
<1>9. StackFits'
  <2>1. IsLast(frames', 1, 1)
    BY <1>4, <1>5 DEF IsLast
  <2>2. Stacked(frames', 1)
    BY <1>4, <1>5, <2>1 DEF Stacked
  <2> QED  BY <1>4, <1>5, <1>6, <2>2 DEF StackFits
<1>10. Remembers'
  BY <1>1, <1>2, <1>3, <1>5, <1>6 DEF Remembers, isInTransaction
<1> QED
  BY <1>7, <1>8, <1>9, <1>10 DEF TransactionInv

LEMMA ExecuteInv ==
    ASSUME TransactionInv, NEW k \in Writes, execute(k)
    PROVE  TransactionInv'
<1>1. /\ data' = data \cup {k}
      /\ db' = IF isInTransaction THEN db ELSE data'
      /\ returned' = TRUE
      /\ UNCHANGED <<frames, m_transactionLevel, m_transactionError, transactioned,
                     calls, interrupted, unguarded>>
  BY DEF execute
<1>2. SyncedLevel' = SyncedLevel /\ isInTransaction' = isInTransaction
  BY <1>1 DEF SyncedLevel, isInTransaction
<1>3. NoTransactionLeft'
  <2>1. data' \subseteq Writes /\ db' \subseteq Writes
    BY <1>1 DEF TransactionInv, NoTransactionLeft, TypeOK
  <2>2. calls = <<>> => data' = db'
    BY <1>1 DEF TransactionInv, NoTransactionLeft
  <2>3. Marked'
    BY <1>1, MarkStays
  <2> QED
    BY <1>1, <1>2, <2>1, <2>2, <2>3 DEF Marked, TransactionInv, NoTransactionLeft, TypeOK
<1>4. AutocommitIsClean' /\ StackFits'
  BY <1>1, <1>2 DEF TransactionInv, AutocommitIsClean, StackFits
<1>5. Remembers'
  <2>1. ~interrupted /\ calls # <<>> => isInTransaction
    BY LevelFacts DEF TransactionInv, Remembers
  <2> QED
    BY <1>1, <1>2, <2>1 DEF TransactionInv, Remembers
<1> QED
  BY <1>3, <1>4, <1>5 DEF TransactionInv

LEMMA ExecuteFailsInv ==
    ASSUME TransactionInv, executeFails
    PROVE  TransactionInv'
<1>1. /\ m_transactionError' = notifyError(m_transactionError)
      /\ returned' = FALSE
      /\ UNCHANGED <<db, data, frames, m_transactionLevel, transactioned, calls,
                     interrupted, unguarded>>
  BY DEF executeFails
<1>2. /\ m_transactionError' \in Errors
      /\ m_transactionError' = "Allowed" => m_transactionError = "Allowed"
  BY <1>1 DEF notifyError, Errors
<1>3. NoTransactionLeft'
  <2>1. Marked'
    BY <1>1, MarkStays
  <2> QED
    BY <1>1, <1>2, <2>1
    DEF Marked, TransactionInv, NoTransactionLeft, TypeOK, isInTransaction
<1>4. AutocommitIsClean' /\ StackFits'
  BY <1>1, <1>2
  DEF TransactionInv, AutocommitIsClean, StackFits, SyncedLevel, isInTransaction
<1>5. Remembers'
  BY <1>1, <1>2 DEF TransactionInv, Remembers, SyncedLevel, isInTransaction
<1> QED
  BY <1>3, <1>4, <1>5 DEF TransactionInv

LEMMA InterruptedInv ==
    ASSUME TransactionInv, RollbackAll, TransactionGuard \/ Unguarded
    PROVE  TransactionInv'
<1>1. /\ isInTransaction /\ frames' = <<>> /\ data' = db
      /\ m_transactionError' = notifyError(m_transactionError)
      /\ returned' = FALSE /\ interrupted' = TRUE
      /\ UNCHANGED <<db, m_transactionLevel, calls>>
  BY DEF RollbackAll
<1>2. m_transactionError' \in Errors
  BY <1>1 DEF notifyError, Errors
<1>3. Marked'
  BY GuardMarks, UnguardedMarks
<1>4. frames' \in Seq(Frame) /\ ~isInTransaction'
  BY <1>1 DEF isInTransaction
<1>5. NoTransactionLeft'
  <2>1. {transactioned', returned', interrupted', unguarded'} \subseteq BOOLEAN
    BY <1>1, <1>3 DEF Marked
  <2>2. TypeOK'
    BY <1>1, <1>2, <1>4, <2>1 DEF TransactionInv, NoTransactionLeft, TypeOK
  <2>3. m_transactionLevel' <= Len(calls')
    BY <1>1 DEF TransactionInv, NoTransactionLeft
  <2>4. calls' # <<>>
    BY <1>1 DEF TransactionInv, NoTransactionLeft
  <2> QED  BY <1>3, <2>2, <2>3, <2>4 DEF Marked, NoTransactionLeft
<1> QED
  BY <1>1, <1>4, <1>5
  DEF TransactionInv, AutocommitIsClean, StackFits, Remembers

LEMMA PrefixFacts ==
    ASSUME NEW S, NEW s \in Seq(S), NEW k \in 0 .. Len(s)
    PROVE  /\ SubSeq(s, 1, k) \in Seq(S) /\ Len(SubSeq(s, 1, k)) = k
           /\ \A i \in 1 .. k : SubSeq(s, 1, k)[i] = s[i]
<1>1. \A i \in 1 .. k : s[i] \in S
  OBVIOUS
<1> QED  BY <1>1

\* The innermost call comes back.
LEMMA CallsPopped ==
    ASSUME TransactionInv, calls # <<>>, NEW answer \in BOOLEAN, Closed(answer)
    PROVE  /\ calls' \in Seq(SUBSET Writes)
           /\ Len(calls') = Len(calls) - 1 /\ Len(calls) >= 1 /\ Len(calls) \in Nat
           /\ \A l \in 1 .. Len(calls) - 1 : calls'[l] = calls[l]
           /\ calls' # <<>> <=> Len(calls) > 1
           /\ returned' \in BOOLEAN /\ interrupted' \in BOOLEAN
           /\ interrupted' <=> interrupted /\ Len(calls) > 1
<1>1. calls \in Seq(SUBSET Writes) /\ Len(calls) \in Nat /\ Len(calls) # 0
  BY LevelFacts
<1>2. /\ calls' = SubSeq(calls, 1, Len(calls) - 1) /\ returned' = answer
      /\ interrupted' = (interrupted /\ Len(calls) > 1)
  BY DEF Closed
<1>3. Len(calls) - 1 \in 0 .. Len(calls)
  BY <1>1
<1>4. /\ calls' \in Seq(SUBSET Writes) /\ Len(calls') = Len(calls) - 1
      /\ \A l \in 1 .. Len(calls) - 1 : calls'[l] = calls[l]
  BY <1>1, <1>2, <1>3, PrefixFacts
<1>5. calls' # <<>> <=> Len(calls) > 1
  BY <1>1, <1>4
<1> DEFINE stays == interrupted /\ Len(calls) > 1
<1>6. interrupted' = stays /\ stays \in BOOLEAN
  BY <1>2, Zenon
<1>7. interrupted' \in BOOLEAN /\ (interrupted' <=> interrupted /\ Len(calls) > 1)
  BY <1>6, Zenon
<1> QED
  BY <1>1, <1>2, <1>4, <1>5, <1>7

\* The end of the outermost level, whether it keeps the effects or not.
LEMMA OutermostInv ==
    ASSUME TransactionInv, calls # <<>>, ~Nested, Reset,
           frames' = <<>>, data' = db', db' = db \/ db' = data,
           NEW answer \in BOOLEAN, Closed(answer), TransactionGuard
    PROVE  TransactionInv'
<1>1. /\ calls' \in Seq(SUBSET Writes)
      /\ Len(calls') = Len(calls) - 1 /\ Len(calls) >= 1 /\ Len(calls) \in Nat
      /\ calls' # <<>> <=> Len(calls) > 1
      /\ returned' \in BOOLEAN /\ interrupted' \in BOOLEAN
      /\ interrupted' <=> interrupted /\ Len(calls) > 1
  BY CallsPopped
<1>2. m_transactionLevel' = 0 /\ m_transactionError' = "Allowed"
  BY DEF Reset
<1>3. Marked'
  BY GuardMarks
<1>4. ~isInTransaction' /\ frames' \in Seq(Frame)
  BY DEF isInTransaction
<1>5. NoTransactionLeft'
  <2>1. {transactioned', returned', interrupted', unguarded'} \subseteq BOOLEAN
    BY <1>1, <1>3 DEF Marked
  <2>2. Len(calls') <= MaxLevel /\ 0 <= Len(calls') /\ 0 \in 0 .. MaxLevel
    BY <1>1, LevelAssumption DEF TransactionInv, NoTransactionLeft, TypeOK
  <2>3. db' \subseteq Writes /\ data' \subseteq Writes
    BY DEF TransactionInv, NoTransactionLeft, TypeOK
  <2>4. TypeOK'
    BY <1>1, <1>2, <1>4, <2>1, <2>2, <2>3 DEF TypeOK, Errors
  <2> QED  BY <1>2, <1>3, <1>4, <2>2, <2>4 DEF Marked, NoTransactionLeft
<1>6. Remembers'
  <2> SUFFICES ASSUME ~interrupted' PROVE Remembers'
    BY DEF Remembers
  <2>1. Len(calls) = 1
    <3> SUFFICES ASSUME ~interrupted PROVE Len(calls) = 1
      BY <1>1
    <3>1. SyncedLevel = Len(calls)
      BY DEF TransactionInv, Remembers
    <3>2. m_transactionLevel \in Nat /\ m_transactionLevel <= 1
      BY LevelFacts DEF Nested
    <3>3. SyncedLevel <= 1
      BY <3>2 DEF SyncedLevel
    <3> QED  BY <1>1, <3>1, <3>3
  <2>2. Len(calls') = 0 /\ calls' = <<>>
    BY <1>1, <2>1
  <2>3. SyncedLevel' = 0
    BY <1>4 DEF SyncedLevel
  <2> QED  BY <1>2, <2>2, <2>3 DEF Remembers
<1> QED
  BY <1>4, <1>5, <1>6 DEF TransactionInv, AutocommitIsClean, StackFits

\* The end of a nested level: with a savepoint the stack is cut at it.
LEMMA NestedInv ==
    ASSUME TransactionInv, calls # <<>>, Nested, Decremented,
           UNCHANGED db, data' \in SUBSET Writes,
           NEW answer \in BOOLEAN, Closed(answer), TransactionGuard,
           \/ ~EndsInSQLite /\ UNCHANGED <<frames, data>>
           \/ /\ EndsInSQLite
              /\ \E k \in Int : /\ \/ k = Find(frames, m_transactionLevel)
                                  \/ k = Find(frames, m_transactionLevel) - 1
                               /\ frames' = SubSeq(frames, 1, k)
    PROVE  TransactionInv'
<1> DEFINE n == m_transactionLevel
<1>1. /\ calls' \in Seq(SUBSET Writes)
      /\ Len(calls') = Len(calls) - 1 /\ Len(calls) >= 1 /\ Len(calls) \in Nat
      /\ \A l \in 1 .. Len(calls) - 1 : calls'[l] = calls[l]
      /\ calls' # <<>> <=> Len(calls) > 1
      /\ returned' \in BOOLEAN /\ interrupted' \in BOOLEAN
      /\ interrupted' <=> interrupted /\ Len(calls) > 1
  BY CallsPopped
<1>2. /\ n \in Nat /\ n > 1 /\ n <= Len(calls) /\ n <= MaxLevel
      /\ m_transactionLevel' = n - 1 /\ m_transactionError' = m_transactionError
  BY LevelFacts DEF Nested, Decremented, TransactionInv, NoTransactionLeft, TypeOK
<1>3. frames \in Seq(Frame) /\ (isInTransaction => SyncedLevel = n)
  BY <1>2, LevelFacts
<1>4. CASE EndsInSQLite
  <2>1. isInTransaction /\ m_transactionError = "Allowed" /\ Stacked(frames, n)
    BY <1>3, <1>4 DEF EndsInSQLite, TransactionInv, StackFits
  <2>2. PICK k \in Int : /\ k = Find(frames, n) \/ k = Find(frames, n) - 1
                         /\ frames' = SubSeq(frames, 1, k)
    BY <1>4
  <2>3. /\ frames' \in Seq(Frame) /\ frames' # <<>> /\ frames'[1] = frames[1]
        /\ Stacked(frames', n - 1)
        /\ \A l \in 1 .. n - 1 : frames'[Find(frames', l)] = frames[Find(frames, l)]
    BY <1>2, <1>3, <2>1, <2>2, StackCut
  <2>4. SyncedLevel' = n - 1
    BY <1>2, <2>3 DEF SyncedLevel, isInTransaction
  <2>5. NoTransactionLeft'
    <3>1. Marked'
      BY GuardMarks
    <3>2. {transactioned', returned', interrupted', unguarded'} \subseteq BOOLEAN
      BY <1>1, <3>1 DEF Marked
    <3>3. /\ Len(calls') <= MaxLevel /\ m_transactionLevel' <= Len(calls')
          /\ m_transactionLevel' \in 0 .. MaxLevel /\ calls' # <<>>
      BY <1>1, <1>2, LevelAssumption DEF TransactionInv, NoTransactionLeft, TypeOK
    <3>4. TypeOK'
      BY <1>1, <1>2, <2>3, <3>2, <3>3 DEF TransactionInv, NoTransactionLeft, TypeOK
    <3> QED  BY <3>1, <3>3, <3>4 DEF Marked, NoTransactionLeft
  <2>6. AutocommitIsClean' /\ StackFits'
    BY <2>1, <2>3, <2>4 DEF TransactionInv, AutocommitIsClean, StackFits, isInTransaction
  <2>7. Remembers'
    <3> SUFFICES ASSUME ~interrupted PROVE Remembers'
      BY <1>1, <1>2 DEF Remembers
    <3>1. /\ n = Len(calls) /\ calls[1] = db
          /\ \A l \in 2 .. Len(calls) : frames[Find(frames, l)].saved = calls[l]
      BY <1>3, <2>1 DEF TransactionInv, Remembers
    <3>2. calls'[1] = db' /\ SyncedLevel' = Len(calls')
      BY <1>1, <1>2, <2>4, <3>1
    <3>3. ASSUME NEW l \in 2 .. Len(calls')
          PROVE  frames'[Find(frames', l)].saved = calls'[l]
      <4>1. l \in 2 .. Len(calls) /\ l \in 1 .. n - 1 /\ l \in 1 .. Len(calls) - 1
        BY <1>1, <1>2, <3>1
      <4> QED  BY <1>1, <2>3, <3>1, <4>1
    <3> QED  BY <2>3, <3>2, <3>3 DEF Remembers, isInTransaction
  <2> QED
    BY <2>5, <2>6, <2>7 DEF TransactionInv
<1>5. CASE ~EndsInSQLite
  <2>1. UNCHANGED <<frames, data>>
    BY <1>5
  <2>2. isInTransaction => m_transactionError # "Allowed"
    BY <1>5 DEF EndsInSQLite
  <2>3. isInTransaction => SyncedLevel' = n - 1
    BY <1>2, <2>1 DEF SyncedLevel, isInTransaction
  <2>4. NoTransactionLeft'
    <3>1. Marked'
      BY GuardMarks
    <3>2. {transactioned', returned', interrupted', unguarded'} \subseteq BOOLEAN
      BY <1>1, <3>1 DEF Marked
    <3>3. /\ Len(calls') <= MaxLevel /\ m_transactionLevel' <= Len(calls')
          /\ m_transactionLevel' \in 0 .. MaxLevel /\ calls' # <<>>
      BY <1>1, <1>2, LevelAssumption DEF TransactionInv, NoTransactionLeft, TypeOK
    <3>4. TypeOK'
      BY <1>1, <1>2, <2>1, <3>2, <3>3 DEF TransactionInv, NoTransactionLeft, TypeOK
    <3> QED  BY <3>1, <3>3, <3>4 DEF Marked, NoTransactionLeft
  <2>5. AutocommitIsClean' /\ StackFits'
    BY <1>2, <2>1, <2>2 DEF TransactionInv, AutocommitIsClean, StackFits, isInTransaction
  <2>6. Remembers'
    <3> SUFFICES ASSUME ~interrupted PROVE Remembers'
      BY <1>1, <1>2 DEF Remembers
    <3>1. isInTransaction
      BY <1>2 DEF TransactionInv, Remembers
    <3>2. n = Len(calls) /\ calls[1] = db
      BY <1>3, <3>1 DEF TransactionInv, Remembers
    <3>3. calls'[1] = db' /\ SyncedLevel' = Len(calls')
      BY <1>1, <1>2, <2>3, <3>1, <3>2
    <3> QED  BY <1>2, <2>1, <2>2, <3>1, <3>3 DEF Remembers, isInTransaction
  <2> QED
    BY <2>4, <2>5, <2>6 DEF TransactionInv
<1> QED
  BY <1>4, <1>5

\* A rollback at any level; what the thread then sees is what the handle
\* sees (the last conjunct is for the refinement).
LEMMA RollbackInv ==
    ASSUME TransactionInv, calls # <<>>, rollback, Closed(FALSE), TransactionGuard
    PROVE  /\ TransactionInv'
           /\ Nested /\ EndsInSQLite =>
                data' = frames[Find(frames, m_transactionLevel)].saved
<1>1. CASE rollbackOutermost
  <2>1. TransactionInv'
    BY <1>1, OutermostInv DEF rollbackOutermost
  <2> QED  BY <1>1, <2>1 DEF rollbackOutermost
<1>2. CASE rollbackNested
  <2> DEFINE i == Find(frames, m_transactionLevel)
  <2>1. Nested /\ Decremented /\ UNCHANGED db
    BY <1>2 DEF rollbackNested
  <2>2. CASE EndsInSQLite
    <3>1. /\ frames \in Seq(Frame) /\ m_transactionLevel \in Nat /\ m_transactionLevel > 1
          /\ SyncedLevel = m_transactionLevel
      BY <2>1, <2>2, LevelFacts DEF Nested, EndsInSQLite
    <3>2. Stacked(frames, m_transactionLevel)
      BY <2>1, <2>2, <3>1 DEF TransactionInv, StackFits, EndsInSQLite
    <3>3. IsLast(frames, m_transactionLevel, i)
      <4>1. m_transactionLevel \in 1 .. m_transactionLevel
        BY <3>1
      <4> QED  BY <3>1, <3>2, <4>1, StackedFinds
    <3>4. i \in DOMAIN frames /\ frames[i].name = m_transactionLevel
      BY <3>3 DEF IsLast
    <3>5. frames' = SubSeq(frames, 1, i) /\ data' = frames[i].saved
      BY <1>2, <2>2, <3>4 DEF rollbackNested, Has, ROLLBACK_TO
    <3>6. i \in Int /\ data' \in SUBSET Writes
      <4>1. i \in 1 .. Len(frames) /\ frames[i] \in Frame
        BY <3>1, <3>4
      <4>2. frames[i].saved \subseteq Writes
        BY <4>1, FrameNames
      <4> QED  BY <3>1, <3>5, <4>1, <4>2
    <3> HIDE DEF i
    <3>7. \E k \in Int : /\ \/ k = Find(frames, m_transactionLevel)
                           \/ k = Find(frames, m_transactionLevel) - 1
                        /\ frames' = SubSeq(frames, 1, k)
      BY <3>5, <3>6 DEF i
    <3>8. TransactionInv'
      BY <2>1, <2>2, <3>6, <3>7, NestedInv
    <3> QED  BY <3>5, <3>8 DEF i
  <2>3. CASE ~EndsInSQLite
    <3>1. UNCHANGED <<frames, data>>
      BY <1>2, <2>3 DEF rollbackNested
    <3>2. data' \in SUBSET Writes
      BY <3>1 DEF TransactionInv, NoTransactionLeft, TypeOK
    <3>3. TransactionInv'
      BY <2>1, <2>3, <3>1, <3>2, NestedInv
    <3> QED  BY <2>3, <3>3
  <2> QED  BY <2>2, <2>3
<1> QED
  BY <1>1, <1>2 DEF rollback

\* A commit at any level.
LEMMA CommitInv ==
    ASSUME TransactionInv, calls # <<>>, commitNested \/ commitOutermost,
           Closed(TRUE), TransactionGuard
    PROVE  TransactionInv'
<1>1. CASE commitOutermost
  BY <1>1, OutermostInv DEF commitOutermost
<1>2. CASE commitNested
  <2>1. Nested /\ Decremented /\ UNCHANGED <<db, data>>
    BY <1>2 DEF commitNested
  <2>2. data' \in SUBSET Writes
    BY <2>1 DEF TransactionInv, NoTransactionLeft, TypeOK
  <2>3. CASE ~EndsInSQLite /\ UNCHANGED frames
    BY <2>1, <2>2, <2>3, NestedInv
  <2>4. CASE EndsInSQLite /\ Has(m_transactionLevel) /\ RELEASE
    <3> DEFINE i == Find(frames, m_transactionLevel)
    <3>1. /\ frames \in Seq(Frame) /\ m_transactionLevel \in Nat /\ m_transactionLevel > 1
          /\ SyncedLevel = m_transactionLevel
      BY <2>1, <2>4, LevelFacts DEF Nested, EndsInSQLite
    <3>2. Stacked(frames, m_transactionLevel)
      BY <2>1, <2>4, <3>1 DEF TransactionInv, StackFits, EndsInSQLite
    <3>3. i \in 1 .. Len(frames)
      <4>1. m_transactionLevel \in 1 .. m_transactionLevel
        BY <3>1
      <4>2. IsLast(frames, m_transactionLevel, i)
        BY <3>1, <3>2, <4>1, StackedFinds
      <4> QED  BY <3>1, <4>2 DEF IsLast
    <3>4. frames' = SubSeq(frames, 1, i - 1)
      BY <2>4 DEF RELEASE
    <3> HIDE DEF i
    <3>5. i - 1 \in Int
      BY <3>1, <3>3
    <3>6. \E k \in Int : /\ \/ k = Find(frames, m_transactionLevel)
                           \/ k = Find(frames, m_transactionLevel) - 1
                        /\ frames' = SubSeq(frames, 1, k)
      BY <3>4, <3>5 DEF i
    <3> QED
      BY <2>1, <2>2, <2>4, <3>6, NestedInv
  <2> QED
    BY <1>2, <2>3, <2>4 DEF commitNested
<1> QED
  BY <1>1, <1>2

LEMMA TransactionInvStep == TransactionInv /\ [Next]_vars => TransactionInv'
<1> SUFFICES ASSUME TransactionInv, [Next]_vars PROVE TransactionInv'
  OBVIOUS
<1>1. CASE markErrorNotAllowedWithinTransaction
  BY <1>1, MarkInv
<1>2. CASE beginTransaction
  BY <1>2, BeginInv
<1>3. CASE beginFails
  BY <1>3, BeginFailsInv
<1>4. CASE executeBegin \/ stepBegin
  BY <1>4, ExecuteBeginInv DEF executeBegin, stepBegin
<1>5. CASE \E k \in Writes : execute(k)
  BY <1>5, ExecuteInv
<1>6. CASE executeFails
  BY <1>6, ExecuteFailsInv
<1>7. CASE executeInterrupted \/ stepInterrupted
  BY <1>7, InterruptedInv DEF executeInterrupted, stepInterrupted
<1>8. CASE commitOrRollbackTransaction
  BY <1>8, CommitInv, RollbackInv DEF commitOrRollbackTransaction
<1>9. CASE rollbackTransaction
  BY <1>9, RollbackInv DEF rollbackTransaction
<1>10. CASE UNCHANGED vars
  BY <1>10
  DEF vars, TransactionInv, NoTransactionLeft, TypeOK, AutocommitIsClean, StackFits,
      Remembers, SyncedLevel, isInTransaction
<1> QED
  BY <1>1, <1>2, <1>3, <1>4, <1>5, <1>6, <1>7, <1>8, <1>9, <1>10 DEF Next

\* The invariant of the whole: levels, savepoints and calls agree, whatever
\* errors happen at whatever depth.
THEOREM TransactionInvariant == Spec => []TransactionInv
  BY InitTransactionInv, TransactionInvStep, PTL DEF Spec

\* When the outermost runTransaction() comes back the handle is in no
\* transaction and counts no level, for any depth of nesting and any mix of
\* commits, rollbacks and errors, also those with which SQLite ends a
\* transaction by itself.
THEOREM TransactionNoneLeft == Spec => []NoTransactionLeft
<1>1. TransactionInv => NoTransactionLeft
  BY DEF TransactionInv
<1> QED
  BY <1>1, TransactionInvariant, PTL

-----------------------------------------------------------------------------
(* The refinement                                                          *)

\* The handle takes a level for nested exactly when the thread's call is.
LEMMA NestedIsInner ==
    ASSUME TransactionInv, ~interrupted, calls # <<>>
    PROVE  Nested <=> Len(calls) # 1
<1>1. SyncedLevel = Len(calls) /\ SyncedLevel # 0 /\ isInTransaction
  BY LevelFacts DEF TransactionInv, Remembers
<1>2. CASE m_transactionLevel = 0
  BY <1>1, <1>2 DEF Nested, SyncedLevel
<1>3. CASE m_transactionLevel # 0
  <2>1. m_transactionLevel = Len(calls) /\ m_transactionLevel \in Nat
    BY <1>1, <1>3, LevelFacts
  <2> QED  BY <1>3, <2>1 DEF Nested
<1> QED
  BY <1>2, <1>3

\* A rollback takes back what was written since the level began; of a nested
\* level nothing, once errors are not allowed.
LEMMA RollbackRefines ==
    ASSUME TransactionInv, ~interrupted, calls # <<>>, rollback, Closed(FALSE),
           TransactionGuard
    PROVE  NT!Rollback
<1>1. /\ SyncedLevel = Len(calls) /\ calls[1] = db
      /\ ~isInTransaction => m_transactionLevel = 0
      /\ m_transactionError = "Allowed" =>
             \A l \in 2 .. Len(calls) : frames[Find(frames, l)].saved = calls[l]
  BY DEF TransactionInv, Remembers
<1>2. /\ m_transactionLevel \in Nat /\ Len(calls) \in Nat /\ Len(calls) # 0
      /\ m_transactionError \in Errors
  BY LevelFacts DEF TransactionInv, NoTransactionLeft, TypeOK
<1>3. Nested <=> Len(calls) # 1
  BY NestedIsInner
<1>4. NT!Pop /\ returned' = FALSE
  BY DEF NT!Pop, Closed
<1>5. CASE rollbackOutermost
  <2>1. ~Nested /\ data' = db /\ db' = db /\ m_transactionError' = "Allowed"
    BY <1>5 DEF rollbackOutermost, Reset
  <2>2. Len(calls) = 1 /\ data' = calls[Len(calls)]
    BY <1>1, <1>3, <2>1
  <2>3. NT!Ended /\ NT!Outermost
    BY <2>1, <2>2 DEF NT!Ended, NT!Outermost
  <2> QED  BY <1>4, <2>1, <2>2, <2>3 DEF NT!Rollback
<1>6. CASE rollbackNested
  <2>1. Nested /\ db' = db /\ m_transactionError' = m_transactionError
    BY <1>6 DEF rollbackNested, Decremented
  <2>2. Len(calls) # 1 /\ isInTransaction /\ m_transactionLevel = Len(calls)
    BY <1>1, <1>2, <1>3, <2>1 DEF Nested, SyncedLevel
  <2>3. NT!Ended /\ ~NT!Outermost
    BY <2>1, <2>2 DEF NT!Ended, NT!Outermost
  <2>4. CASE m_transactionError # "Allowed"
    <3>1. data' = data
      BY <1>6, <2>1, <2>4 DEF rollbackNested, EndsInSQLite
    <3> QED  BY <1>4, <2>1, <2>3, <2>4, <3>1 DEF NT!Rollback
  <2>5. CASE m_transactionError = "Allowed"
    <3>1. EndsInSQLite
      BY <2>2, <2>5 DEF EndsInSQLite
    <3>2. data' = frames[Find(frames, m_transactionLevel)].saved
      BY <2>1, <3>1, RollbackInv
    <3>3. Len(calls) \in 2 .. Len(calls)
      BY <1>2, <2>2
    <3>4. data' = calls[Len(calls)]
      BY <1>1, <2>2, <2>5, <3>2, <3>3
    <3> QED  BY <1>4, <2>1, <2>3, <2>5, <3>4 DEF NT!Rollback
  <2> QED  BY <2>4, <2>5
<1> QED
  BY <1>5, <1>6 DEF rollback

\* A commit keeps what the level wrote; the outermost one makes it durable.
LEMMA CommitRefines ==
    ASSUME TransactionInv, ~interrupted, calls # <<>>, m_transactionError # "Fatal",
           commitNested \/ commitOutermost, Closed(TRUE)
    PROVE  NT!Commit
<1>1. Nested <=> ~NT!Outermost
  BY NestedIsInner DEF NT!Outermost
<1>2. NT!Pop /\ returned' = TRUE
  BY DEF NT!Pop, Closed
<1>3. NT!Ended
  BY <1>1 DEF commitNested, commitOutermost, Decremented, Reset, NT!Ended
<1>4. data' = data /\ db' = IF NT!Outermost THEN data ELSE db
  BY <1>1 DEF commitNested, commitOutermost
<1> QED
  BY <1>2, <1>3, <1>4 DEF NT!Commit

LEMMA TransactionStepRefines ==
    ASSUME TransactionInv, [Next]_vars
    PROVE  [interrupted \/ interrupted' \/ NT!Next]_(NT!vars)
<1> SUFFICES ASSUME ~interrupted, ~interrupted' PROVE NT!Next \/ UNCHANGED NT!vars
  OBVIOUS
<1>1. CASE markErrorNotAllowedWithinTransaction
  <2>1. NT!Mark
    BY <1>1 DEF markErrorNotAllowedWithinTransaction, NT!Mark
  <2> QED  BY <2>1 DEF NT!Next
<1>2. CASE beginTransaction
  <2>1. NT!Begin
    BY <1>2 DEF beginTransaction, Opened, NT!Begin
  <2> QED  BY <2>1 DEF NT!Next
<1>3. CASE beginFails \/ executeFails
  <2>1. NT!Fail
    BY <1>3 DEF beginFails, executeFails, notifyError, NT!Fail
  <2> QED  BY <2>1 DEF NT!Next
<1>4. CASE executeBegin \/ stepBegin
  <2>1. NT!Begin
    BY <1>4 DEF executeBegin, stepBegin, BEGIN, Opened, NT!Begin
  <2> QED  BY <2>1 DEF NT!Next
<1>5. CASE \E k \in Writes : execute(k)
  <2>1. PICK k \in Writes : execute(k)
    BY <1>5
  <2>2. isInTransaction <=> calls # <<>>
    BY LevelFacts DEF TransactionInv, Remembers
  <2>3. NT!Write
    BY <2>1, <2>2 DEF execute, NT!Write
  <2> QED  BY <2>3 DEF NT!Next
<1>6. CASE executeInterrupted \/ stepInterrupted
  BY <1>6 DEF executeInterrupted, stepInterrupted, RollbackAll
<1>7. CASE commitOrRollbackTransaction
  <2>1. calls # <<>> /\ TransactionGuard
    BY <1>7 DEF commitOrRollbackTransaction
  <2>2. CASE /\ m_transactionError # "Fatal"
             /\ commitNested \/ commitOutermost
             /\ Closed(TRUE)
    BY <2>1, <2>2, CommitRefines DEF NT!Next
  <2>3. CASE rollback /\ Closed(FALSE)
    BY <2>1, <2>3, RollbackRefines DEF NT!Next
  <2> QED
    BY <1>7, <2>2, <2>3 DEF commitOrRollbackTransaction
<1>8. CASE rollbackTransaction
  <2>1. calls # <<>> /\ rollback /\ Closed(FALSE) /\ TransactionGuard
    BY <1>8 DEF rollbackTransaction
  <2> QED  BY <2>1, RollbackRefines DEF NT!Next
<1>9. CASE UNCHANGED vars
  BY <1>9 DEF vars, NT!vars
<1> QED
  BY <1>1, <1>2, <1>3, <1>4, <1>5, <1>6, <1>7, <1>8, <1>9 DEF Next

\* Transactions nest: AbstractHandle with its levels and savepoints implements
\* nested transactions at any depth, with any mix of commits, rollbacks, errors
\* and marks, except between a transaction that SQLite ends by itself and the
\* return of the outermost call.
THEOREM TransactionImplementsNested == Spec => ImplementsNestedTransaction
<1>1. Init => NT!Init
  BY DEF Init, NT!Init
<1>2. TransactionInv /\ [Next]_vars
        => [interrupted \/ interrupted' \/ NT!Next]_(NT!vars)
  BY TransactionStepRefines
<1> QED
  BY <1>1, <1>2, TransactionInvariant, PTL DEF Spec, ImplementsNestedTransaction


(***************************************************************************)
(* RepairFactory                                                           *)
(***************************************************************************)

\* A file has the name of its kind.
Names == {n \in [Directories -> [Files -> Inodes \cup {None}]] :
            \A p \in Directories, f \in Files : n[p][f] # None => n[p][f][1] = f}

(* Constants                                                               *)

\* The directories of the factory are different ones.
LEMMA DirectoryFacts ==
    /\ {"base", "renew", "vacuum", "temp"} \subseteq Directories
    /\ Workshops \subseteq Directories
    /\ \A w \in Workshops : w \notin {"base", "renew", "vacuum", "temp"}
BY RepairAssumption DEF Directories

LEMMA FileFacts ==
    /\ "db" \in Files /\ "wal" \in Files /\ "first" \in Files /\ "last" \in Files
    /\ \A f \in Files : f \in {"db", "wal", "first", "last"}
BY DEF Files

LEMMA NoneIsNoInode == None \notin Inodes
BY DEF None, Inodes

LEMMA NamedInodes ==
    ASSUME NEW n \in Names
    PROVE  /\ Named(n) \subseteq Inodes
           /\ \A p \in Directories, f \in Files : n[p][f] # None => n[p][f] \in Named(n)
           /\ None \notin Named(n)
BY NoneIsNoInode DEF Names, Named

\* There is an inode of each kind without a name: a directory names one of a
\* kind at most.
LEMMA FreeInode ==
    ASSUME NEW n \in Names, NEW f \in Files
    PROVE  \E i \in Inodes : i[1] = f /\ i \notin Named(n)
<1> DEFINE K == 1 .. Cardinality(Directories) + 1
<1>1. IsFiniteSet(Directories) /\ Cardinality(Directories) \in Nat
  <2>1. IsFiniteSet({"base", "renew", "vacuum", "temp"})
    <3>1. IsFiniteSet({})
      BY FS_EmptySet
    <3>2. IsFiniteSet({"base"})
      <4>1. {} \cup {"base"} = {"base"}
        OBVIOUS
      <4> QED  BY <3>1, <4>1, FS_AddElement
    <3>3. IsFiniteSet({"base", "renew"})
      <4>1. {"base"} \cup {"renew"} = {"base", "renew"}
        OBVIOUS
      <4> QED  BY <3>2, <4>1, FS_AddElement
    <3>4. IsFiniteSet({"base", "renew", "vacuum"})
      <4>1. {"base", "renew"} \cup {"vacuum"} = {"base", "renew", "vacuum"}
        OBVIOUS
      <4> QED  BY <3>3, <4>1, FS_AddElement
    <3> QED
      <4>1. {"base", "renew", "vacuum"} \cup {"temp"} = {"base", "renew", "vacuum", "temp"}
        OBVIOUS
      <4> QED  BY <3>4, <4>1, FS_AddElement
  <2> QED
    BY <2>1, RepairAssumption, FS_Union, FS_CardinalityType DEF Directories
<1>2. IsFiniteSet(K) /\ Cardinality(K) = Cardinality(Directories) + 1
  BY <1>1, FS_Interval
<1> SUFFICES ASSUME \A k \in K : <<f, k>> \in Named(n) PROVE FALSE
  <2>1. \A k \in K : <<f, k>> \in Inodes /\ <<f, k>>[1] = f
    BY DEF Inodes
  <2> QED
    BY <2>1
<1>3. \A k \in K : \E p \in Directories : n[p][f] = <<f, k>>
  <2> SUFFICES ASSUME NEW k \in K PROVE \E p \in Directories : n[p][f] = <<f, k>>
    OBVIOUS
  <2>1. PICK p \in Directories, g \in Files : n[p][g] = <<f, k>>
    BY DEF Named
  <2>2. <<f, k>> # None
    BY DEF None
  <2>3. n[p][g][1] = g
    BY <2>1, <2>2 DEF Names
  <2> QED
    BY <2>1, <2>3
<1> DEFINE at == [k \in K |-> CHOOSE p \in Directories : n[p][f] = <<f, k>>]
<1>4. at \in [K -> Directories] /\ \A k \in K : n[at[k]][f] = <<f, k>>
  BY <1>3
<1> HIDE DEF at, K
<1>5. PICK j, k \in K : j # k /\ at[j] = at[k]
  BY <1>1, <1>2, <1>4, FS_PigeonHole
<1> QED
  BY <1>4, <1>5

LEMMA NewInodeIsFree ==
    ASSUME inode \in Names, NEW f \in Files
    PROVE  NewInode(f) \in Inodes /\ NewInode(f)[1] = f /\ NewInode(f) \notin Named(inode)
BY FreeInode DEF NewInode

-----------------------------------------------------------------------------
(* Contents                                                                *)

LEMMA BlankIsContent == blank \in Contents
BY DEF blank, Contents

\* The content of inode i is not changed by the step.  Its database may be gone.
Untouched(i) ==
    /\ content'[i].rows = content[i].rows
    /\ content'[i].state = content[i].state
    /\ content'[i].latest = content[i].latest
    /\ content'[i].ahead = content[i].ahead
    /\ \A d \in Named(inode') : content'[i].of = d <=> content[i].of = d

\* What SetFiles() leaves in the inodes that have names.
LEMMA SetFilesEffect ==
    ASSUME NEW n \in Names, NEW c \in [Inodes -> Contents], SetFiles(n, c)
    PROVE  /\ inode' = n
           /\ content' \in [Inodes -> Contents]
           /\ \A i \in Named(n) :
                 /\ content'[i].rows = c[i].rows
                 /\ content'[i].state = c[i].state
                 /\ content'[i].latest = c[i].latest
                 /\ content'[i].ahead = c[i].ahead
                 /\ \A d \in Named(n) : content'[i].of = d <=> c[i].of = d
           /\ backed' = IF n["base"]["db"] = inode["base"]["db"] THEN backed ELSE {}
<1>1. inode' = n /\ backed' = IF n["base"]["db"] = inode["base"]["db"] THEN backed ELSE {}
  BY DEF SetFiles
<1>2. content' = [i \in Inodes |->
                     IF i \notin Named(n) THEN blank
                     ELSE [c[i] EXCEPT !.of = IF c[i].of \in Named(n) THEN c[i].of ELSE None]]
  BY DEF SetFiles
<1>3. Named(n) \subseteq Inodes /\ None \notin Named(n)
  BY NamedInodes
<1>4. ASSUME NEW i \in Inodes, i \in Named(n)
      PROVE  /\ content'[i] \in Contents
             /\ content'[i].rows = c[i].rows
             /\ content'[i].state = c[i].state
             /\ content'[i].latest = c[i].latest
             /\ content'[i].ahead = c[i].ahead
             /\ content'[i].of = IF c[i].of \in Named(n) THEN c[i].of ELSE None
  <2>1. c[i] \in Contents
    OBVIOUS
  <2>2. content'[i] = [c[i] EXCEPT !.of = IF c[i].of \in Named(n) THEN c[i].of ELSE None]
    BY <1>2, <1>4
  <2> QED
    BY <1>3, <2>1, <2>2 DEF Contents
<1>5. ASSUME NEW i \in Inodes, i \notin Named(n)
      PROVE  content'[i] \in Contents
  BY <1>2, <1>5, BlankIsContent
<1>6. content' \in [Inodes -> Contents]
  <2>1. \A i \in Inodes : content'[i] \in Contents
    BY <1>4, <1>5
  <2>2. content' = [i \in Inodes |-> content'[i]]
    BY <1>2
  <2> QED
    BY <2>1, <2>2
<1> QED
  BY <1>1, <1>3, <1>4, <1>6

\* Only names have changed.
Rearranges ==
    /\ inode' \in Names
    /\ content' \in [Inodes -> Contents]
    /\ \A i \in Named(inode') : Untouched(i)
    /\ backed' = IF inode'["base"]["db"] = inode["base"]["db"] THEN backed ELSE {}

LEMMA SetNamesRearranges ==
    ASSUME NEW n \in Names, content \in [Inodes -> Contents], SetFiles(n, content)
    PROVE  Rearranges /\ inode' = n
<1>1. /\ inode' = n
      /\ content' \in [Inodes -> Contents]
      /\ backed' = IF n["base"]["db"] = inode["base"]["db"] THEN backed ELSE {}
  BY SetFilesEffect
<1>2. ASSUME NEW i \in Named(inode') PROVE Untouched(i)
  BY <1>1, <1>2, SetFilesEffect DEF Untouched
<1> QED
  BY <1>1, <1>2 DEF Rearranges

\* The rows of a good database d with the log w.
GoodIn(d, w, c) ==
    IF d # None /\ c[d].state = "good"
    THEN c[d].rows \cup (IF w # None /\ c[w].of = d THEN c[w].rows ELSE {}) ELSE {}

LEMMA GoodRowsIs ==
    \A p : GoodRows(p) = GoodIn(inode[p]["db"], inode[p]["wal"], content)
BY DEF GoodRows, StateOf, FileRows, Exists, GoodIn

LEMMA GoodRowsIsAfter ==
    \A p : GoodRows(p)' = GoodIn(inode'[p]["db"], inode'[p]["wal"], content')
BY DEF GoodRows, StateOf, FileRows, Exists, GoodIn

LEMMA UntouchedRows ==
    ASSUME NEW d, NEW w,
           d # None => d \in Named(inode') /\ Untouched(d),
           w # None => Untouched(w)
    PROVE  GoodIn(d, w, content') = GoodIn(d, w, content)
BY DEF GoodIn, Untouched

\* When only names change, a directory has the rows of the files it names.
LEMMA RearrangedRows ==
    ASSUME Rearranges, NEW p \in Directories
    PROVE  GoodRows(p)' = GoodIn(inode'[p]["db"], inode'[p]["wal"], content)
<1>1. PICK n : n = inode'
  OBVIOUS
<1>2. n \in Names
  BY <1>1 DEF Rearranges
<1>3. PICK d, w : d = n[p]["db"] /\ w = n[p]["wal"]
  OBVIOUS
<1>4. /\ d # None => d \in Named(inode') /\ Untouched(d)
      /\ w # None => Untouched(w)
  BY <1>1, <1>2, <1>3, NamedInodes, FileFacts DEF Rearranges
<1>5. GoodIn(d, w, content') = GoodIn(d, w, content)
  BY <1>4, UntouchedRows
<1> QED
  BY <1>1, <1>3, <1>5, GoodRowsIsAfter

\* The directory p has the same database and the same log as before.
SameAt(p) == inode'[p]["db"] = inode[p]["db"] /\ inode'[p]["wal"] = inode[p]["wal"]

LEMMA SameRows ==
    ASSUME Rearranges, NEW p \in Directories, SameAt(p)
    PROVE  GoodRows(p)' = GoodRows(p)
<1>1. GoodRows(p)' = GoodIn(inode'[p]["db"], inode'[p]["wal"], content)
  BY RearrangedRows
<1> QED
  BY <1>1, GoodRowsIs DEF SameAt

-----------------------------------------------------------------------------
(* Names                                                                   *)

\* The files fs of directory p lose their names.
Drops(p, fs) ==
    \A q \in Directories, g \in Files :
        inode'[q][g] = IF q = p /\ g \in fs THEN None ELSE inode[q][g]

LEMMA RemoveDrops ==
    ASSUME inode \in Names, content \in [Inodes -> Contents],
           NEW p \in Directories, NEW f \in Files,
           SetFiles([inode EXCEPT ![p][f] = None], content)
    PROVE  Rearranges /\ Drops(p, {f})
<1> DEFINE n == [inode EXCEPT ![p][f] = None]
<1>1. /\ n \in [Directories -> [Files -> Inodes \cup {None}]]
      /\ \A q \in Directories, g \in Files :
            n[q][g] = IF q = p /\ g = f THEN None ELSE inode[q][g]
  BY DEF Names
<1> HIDE DEF n
<1>2. n \in Names
  BY <1>1 DEF Names
<1>3. Rearranges /\ inode' = n
  BY <1>2, SetNamesRearranges DEF n
<1> QED
  BY <1>1, <1>3 DEF Drops

LEMMA WithoutDrops ==
    ASSUME inode \in Names, content \in [Inodes -> Contents],
           NEW p \in Directories, NEW fs \in SUBSET Files,
           SetFiles(Without(p, fs), content)
    PROVE  Rearranges /\ Drops(p, fs)
<1> DEFINE n == Without(p, fs)
<1>1. /\ n \in [Directories -> [Files -> Inodes \cup {None}]]
      /\ \A q \in Directories, g \in Files :
            n[q][g] = IF q = p /\ g \in fs THEN None ELSE inode[q][g]
  BY DEF Names, Without
<1> HIDE DEF n
<1>2. n \in Names
  BY <1>1 DEF Names
<1>3. Rearranges /\ inode' = n
  BY <1>2, SetNamesRearranges DEF n
<1> QED
  BY <1>1, <1>3 DEF Drops

LEMMA CrashDrops ==
    ASSUME inode \in Names, content \in [Inodes -> Contents],
           SetFiles([inode EXCEPT !["temp"] = NoFiles], content)
    PROVE  Rearranges /\ Drops("temp", Files)
<1> DEFINE n == [inode EXCEPT !["temp"] = NoFiles]
<1>1. /\ n \in [Directories -> [Files -> Inodes \cup {None}]]
      /\ \A q \in Directories, g \in Files :
            n[q][g] = IF q = "temp" /\ g \in Files THEN None ELSE inode[q][g]
  BY DirectoryFacts DEF Names, NoFiles
<1> HIDE DEF n
<1>2. n \in Names
  BY <1>1 DEF Names
<1>3. Rearranges /\ inode' = n
  BY <1>2, SetNamesRearranges DEF n
<1> QED
  BY <1>1, <1>3 DEF Drops

\* The file f of directory p gets a name in directory q, and on Android loses
\* its old one.
Links(p, q, f) ==
    \A r \in Directories, g \in Files :
        inode'[r][g] = IF r = q /\ g = f THEN inode[p][f]
                       ELSE IF ByRename /\ r = p /\ g = f THEN None ELSE inode[r][g]

LEMMA MoveLinks ==
    ASSUME inode \in Names, content \in [Inodes -> Contents],
           NEW p \in Directories, NEW q \in Directories, NEW f \in Files, p # q,
           SetFiles(Moved(p, q, f), content)
    PROVE  Rearranges /\ Links(p, q, f)
<1> DEFINE n == Moved(p, q, f)
<1>1. /\ n \in [Directories -> [Files -> Inodes \cup {None}]]
      /\ \A r \in Directories, g \in Files :
            n[r][g] = IF r = q /\ g = f THEN inode[p][f]
                      ELSE IF ByRename /\ r = p /\ g = f THEN None ELSE inode[r][g]
  <2>1. CASE ByRename
    <3>1. n = [inode EXCEPT ![q][f] = inode[p][f], ![p][f] = None]
      BY <2>1 DEF Moved
    <3>2. PICK m : m = [inode EXCEPT ![q][f] = inode[p][f]]
      OBVIOUS
    <3>3. /\ m \in [Directories -> [Files -> Inodes \cup {None}]]
          /\ \A r \in Directories, g \in Files :
                m[r][g] = IF r = q /\ g = f THEN inode[p][f] ELSE inode[r][g]
      BY <3>2 DEF Names
    <3>4. n = [m EXCEPT ![p][f] = None]
      BY <3>1, <3>2
    <3>5. /\ n \in [Directories -> [Files -> Inodes \cup {None}]]
          /\ \A r \in Directories, g \in Files :
                n[r][g] = IF r = p /\ g = f THEN None ELSE m[r][g]
      BY <3>3, <3>4
    <3> QED
      BY <2>1, <3>3, <3>5
  <2>2. CASE ~ByRename
    BY <2>2 DEF Names, Moved
  <2> QED
    BY <2>1, <2>2
<1> HIDE DEF n
<1>2. n \in Names
  BY <1>1 DEF Names
<1>3. Rearranges /\ inode' = n
  BY <1>2, SetNamesRearranges DEF n
<1> QED
  BY <1>1, <1>3 DEF Links

\* Some files of the directories ps lose their names.
Clears(ps) ==
    \A q \in Directories, g \in Files :
        inode'[q][g] = inode[q][g] \/ (q \in ps /\ inode'[q][g] = None)

LEMMA RemoveDirectoriesClears ==
    ASSUME inode \in Names, content \in [Inodes -> Contents],
           NEW ps \in SUBSET Directories, NEW here, NEW next,
           removeDirectories(here, ps, next)
    PROVE  Rearranges /\ Clears(ps)
<1>1. PICK gone \in SUBSET (ps \X Files) :
         SetFiles([p \in Directories |-> [f \in Files |->
                     IF <<p, f>> \in gone THEN None ELSE inode[p][f]]], content)
  BY DEF removeDirectories
<1> DEFINE n == [p \in Directories |-> [f \in Files |->
                   IF <<p, f>> \in gone THEN None ELSE inode[p][f]]]
<1>2. /\ n \in [Directories -> [Files -> Inodes \cup {None}]]
      /\ \A q \in Directories, g \in Files :
            n[q][g] = IF <<q, g>> \in gone THEN None ELSE inode[q][g]
  BY DEF Names
<1> HIDE DEF n
<1>3. n \in Names
  <2>1. ASSUME NEW q \in Directories, NEW g \in Files, n[q][g] # None PROVE n[q][g][1] = g
    <3>1. n[q][g] = inode[q][g]
      BY <1>2, <2>1
    <3> QED
      BY <2>1, <3>1 DEF Names
  <2> QED
    BY <1>2, <2>1 DEF Names
<1>4. Rearranges /\ inode' = n
  BY <1>1, <1>3, SetNamesRearranges DEF n
<1>5. \A q, g : <<q, g>> \in gone => q \in ps
  BY <1>1
<1> QED
  BY <1>2, <1>4, <1>5 DEF Clears

-----------------------------------------------------------------------------
(* Control                                                                 *)

\* The operations that a list of calls is part of.
JobFits ==
    /\ step = "idle" <=> job \in {"closed", "open"}
    /\ step \in {"serializeFirst", "serializeLast"} <=> job = "backup"
    /\ step \in {"takeVacuum", "clearForVacuum", "putVacuum", "emptyVacuum"} =>
          job \in {"initialize", "vacuum"}
    /\ step = "dropVacuum" => job \in {"initialize", "vacuum", "failing"}
    /\ step \in {"takeRenew", "clearForRenew", "putRenew", "emptyRenew", "dropRenew"} =>
          job \in {"initialize", "deposit"}
    /\ step = "create" => job = "initialize"
    /\ step \in {"clearRenew", "fillRenew"} => job = "deposit"
    /\ step \in {"clearVacuum", "fillVacuum", "removeBase"} => job = "vacuum"
    /\ step = "emptyTemp" => job \in {"deposit", "vacuum", "retrieve"}
    /\ step = "dropTemp" => job \in {"deposit", "vacuum"}
    /\ step \in {"depositBase", "emptyBase"} => job \in {"deposit", "retrieve"}
    /\ step \in {"putTemp", "discard"} => job = "retrieve"
    /\ step = "dropWorkshops" => job = "removeDeposited"

ControlInv ==
    /\ job \in Jobs /\ step \in Steps
    /\ moved \subseteq Files /\ shop \in Workshops \cup {"none"}
    /\ JobFits
    /\ job \in {"deposit", "retrieve"} => shop \in Workshops

\* The list of calls at the step here goes on, ends or fails.
Runs(here, next) ==
    /\ step = here
    /\ shop' = shop
    /\ moved' \subseteq Files
    /\ \/ step' \in {here, next} /\ job' = job
       \/ step' \in {"dropVacuum", "return"} /\ job' = "failing"

LEMMA GenericRuns ==
    ASSUME moved \subseteq Files, NEW here, NEW next, NEW p, NEW q, NEW reversed,
           \/ removeItems(here, p, reversed, next)
           \/ moveItems(here, p, q, reversed, next)
           \/ removeDirectories(here, p, next)
    PROVE  Runs(here, next)
<1>1. CASE removeItems(here, p, reversed, next)
  BY <1>1 DEF removeItems, Fails, Continues, Runs
<1>2. CASE moveItems(here, p, q, reversed, next)
  BY <1>2 DEF moveItems, itemExistsFails, Fails, Continues, Runs
<1>3. CASE removeDirectories(here, p, next)
  BY <1>3 DEF removeDirectories, Runs
<1> QED
  BY <1>1, <1>2, <1>3

\* The order of the calls in an operation.
LEMMA RunsKeepsControl ==
    ASSUME ControlInv,
           \/ Runs("clearForVacuum", "putVacuum")
           \/ Runs("putVacuum", "emptyVacuum")
           \/ Runs("emptyVacuum", "dropVacuum")
           \/ Runs("dropVacuum", AfterVacuum)
           \/ Runs("clearForRenew", "putRenew")
           \/ Runs("putRenew", "emptyRenew")
           \/ Runs("emptyRenew", "dropRenew")
           \/ Runs("dropRenew", AfterRenew)
           \/ Runs("clearRenew", "fillRenew")
           \/ Runs("fillRenew", "emptyTemp")
           \/ Runs("clearVacuum", "fillVacuum")
           \/ Runs("fillVacuum", "emptyTemp")
           \/ job # "retrieve" /\ Runs("emptyTemp", "dropTemp")
           \/ Runs("dropTemp", IF job = "vacuum" THEN "removeBase" ELSE "depositBase")
           \/ Runs("removeBase", "takeVacuum")
           \/ Runs("depositBase", "emptyBase")
           \/ Runs("emptyBase", IF job = "deposit" THEN "takeRenew" ELSE "putTemp")
           \/ Runs("putTemp", "emptyTemp")
           \/ job = "retrieve" /\ Runs("emptyTemp", "discard")
           \/ job = "retrieve" /\ Runs("emptyTemp", "return")
           \/ Runs("discard", "return")
           \/ Runs("dropWorkshops", "return")
    PROVE  ControlInv'
<1>1. moved' \subseteq Files /\ shop' = shop
  BY DEF Runs
<1>2. job' \in Jobs /\ step' \in Steps
  BY DEF Runs, ControlInv, Jobs, Steps, AfterVacuum, AfterRenew
<1>3. job' \in {job, "failing"}
  BY DEF Runs
<1>4. JobFits'
  BY DEF Runs, ControlInv, JobFits, AfterVacuum, AfterRenew
<1> QED
  BY <1>1, <1>2, <1>3, <1>4 DEF ControlInv

\* The lists of calls that an operation consists of.
Calls == TakeOver \/ Prepare \/ depositor \/ UseRestored
         \/ removeDirectories("dropWorkshops", Workshops, "return")

LEMMA CallsKeepControl ==
    ASSUME ControlInv, Calls, ~takeVacuum, ~takeRenew
    PROVE  ControlInv'
<1>1. moved \subseteq Files
  BY DEF ControlInv
<1>2. CASE TakeOver
  BY <1>1, <1>2, GenericRuns, RunsKeepsControl DEF TakeOver, ClearBase
<1>3. CASE Prepare
  BY <1>1, <1>3, GenericRuns, RunsKeepsControl DEF Prepare
<1>4. CASE depositor
  BY <1>1, <1>4, GenericRuns, RunsKeepsControl DEF depositor
<1>5. CASE UseRestored
  BY <1>1, <1>5, GenericRuns, RunsKeepsControl DEF UseRestored
<1>6. CASE removeDirectories("dropWorkshops", Workshops, "return")
  BY <1>1, <1>6, GenericRuns, RunsKeepsControl
<1> QED
  BY <1>2, <1>3, <1>4, <1>5, <1>6 DEF Calls

LEMMA TakeKeepsControl ==
    ASSUME ControlInv, takeVacuum \/ takeRenew \/ create
    PROVE  ControlInv'
<1>1. /\ shop' = shop /\ moved' \in {moved, {}}
      /\ step \in {"takeVacuum", "takeRenew", "create"}
      /\ \/ job' = "failing" /\ step' \in {"dropVacuum", "return"}
         \/ /\ job' = job
            /\ step = "takeVacuum" => step' \in {"clearForVacuum", "dropVacuum"}
            /\ step = "takeRenew" => step' \in {AfterRenew, "clearForRenew", "dropRenew"}
            /\ step = "create" => step' = "return"
  BY DEF takeVacuum, takeRenew, create, Fails, Continues
<1>2. job' \in Jobs /\ step' \in Steps
  BY <1>1 DEF ControlInv, Jobs, Steps, AfterRenew
<1>3. JobFits'
  BY <1>1 DEF ControlInv, JobFits, AfterRenew
<1> QED
  BY <1>1, <1>2, <1>3 DEF ControlInv

LEMMA LifeKeepsControl ==
    ASSUME ControlInv, initialize \/ return \/ close \/ crash
    PROVE  ControlInv'
<1>1. CASE initialize
  BY <1>1 DEF initialize, ControlInv, JobFits, Jobs, Steps
<1>2. CASE return
  BY <1>2 DEF return, ControlInv, JobFits, Jobs, Steps
<1>3. CASE close
  BY <1>3 DEF close, ControlInv, JobFits, Jobs, Steps
<1>4. CASE crash
  BY <1>4 DEF crash, ControlInv, JobFits, Jobs, Steps
<1> QED
  BY <1>1, <1>2, <1>3, <1>4

LEMMA UseKeepsControl ==
    ASSUME ControlInv,
           \/ insert \/ checkpoint \/ damage \/ setClock \/ backup
           \/ serialize("first", "serializeFirst") \/ serialize("last", "serializeLast")
    PROVE  ControlInv'
<1>1. /\ shop' = shop /\ moved' = moved
      /\ \/ job' = job /\ step' = step
         \/ job' = "backup" /\ step' \in {"serializeFirst", "serializeLast"}
         \/ job' = "open" /\ step' = "idle"
  BY DEF insert, checkpoint, damage, setClock, backup, serialize
<1>2. JobFits'
  BY <1>1 DEF ControlInv, JobFits
<1> QED
  BY <1>1, <1>2 DEF ControlInv, Jobs, Steps

LEMMA WorkshopIsFree ==
    ASSUME FreeWorkshops # {}
    PROVE  getUniqueWorkshopDirectory \in FreeWorkshops
BY DEF getUniqueWorkshopDirectory

LEMMA OperationKeepsControl ==
    ASSUME ControlInv, deposit \/ retrieve \/ vacuum \/ removeDeposited
    PROVE  ControlInv'
<1>1. CASE deposit
  <2>1. job' = "deposit" /\ step' = "clearRenew" /\ moved' = moved /\ shop' \in Workshops
    BY <1>1, WorkshopIsFree DEF deposit, Begin, FreeWorkshops
  <2> QED
    BY <2>1 DEF ControlInv, JobFits, Jobs, Steps
<1>2. CASE retrieve
  <2>1. job' = "retrieve" /\ step' = "depositBase" /\ moved' = moved /\ shop' \in Workshops
    BY <1>2, WorkshopIsFree DEF retrieve, Begin, FreeWorkshops
  <2> QED
    BY <2>1 DEF ControlInv, JobFits, Jobs, Steps
<1>3. CASE vacuum
  BY <1>3 DEF vacuum, Begin, ControlInv, JobFits, Jobs, Steps
<1>4. CASE removeDeposited
  BY <1>4 DEF removeDeposited, Begin, ControlInv, JobFits, Jobs, Steps
<1> QED
  BY <1>1, <1>2, <1>3, <1>4

LEMMA ControlStep == ControlInv /\ [NextRepair]_repairVars => ControlInv'
<1> SUFFICES ASSUME ControlInv, [NextRepair]_repairVars PROVE ControlInv'
  OBVIOUS
<1>1. CASE UNCHANGED repairVars
  BY <1>1 DEF repairVars, ControlInv, JobFits
<1>2. CASE Calls
  BY <1>2, CallsKeepControl, TakeKeepsControl
<1> QED
  BY <1>1, <1>2, TakeKeepsControl, LifeKeepsControl, UseKeepsControl, OperationKeepsControl
     DEF NextRepair, Calls

-----------------------------------------------------------------------------
(* The files of one database                                               *)

\* The steps that move a database into its place.
Putting == {"putVacuum", "putRenew", "putTemp"}

\* The directories of the factory have no log and no second material.
NoLogs == \A p \in {"renew", "vacuum", "temp"} : ~Exists(p, "wal") /\ ~Exists(p, "last")

\* Nothing of an old database is left where a new one is put.
BaseCleared == step \in Putting => ~Exists("base", "wal") /\ ~Exists("base", "last")

\* An open database has a file.
HasDatabase ==
    job \in {"open", "backup"} \/ (job = "initialize" /\ step = "return") => Exists("base", "db")

\* A log is one of the database beside it.
LogBelongs ==
    StateOf("base") # "fresh" /\ Exists("base", "wal") =>
        content[inode["base"]["wal"]].of = Database

\* What the directories hold at each step, whatever fails.
LayoutInv ==
    /\ inode \in Names
    /\ content \in [Inodes -> Contents]
    /\ owed \subseteq Rows /\ backed \subseteq Rows
    /\ ControlInv
    /\ NoLogs
    /\ BaseCleared
    /\ HasDatabase
    /\ LogBelongs

LEMMA LayoutImplies == LayoutInv => FilesBelongTogether
BY DEF LayoutInv, FilesBelongTogether, RepairTypeOK, Names, Exists, ControlInv, LogBelongs

LEMMA InitLayout == InitRepair => LayoutInv
<1> SUFFICES ASSUME InitRepair PROVE LayoutInv
  OBVIOUS
<1>1. \A p \in Directories, f \in Files : inode[p][f] = None
  BY DEF InitRepair, NoFiles
<1>2. inode \in Names
  BY <1>1 DEF InitRepair, NoFiles, Names
<1>3. content \in [Inodes -> Contents]
  BY BlankIsContent DEF InitRepair
<1>4. ControlInv
  BY DEF InitRepair, ControlInv, JobFits, Jobs, Steps
<1>5. NoLogs /\ ~Exists("base", "wal")
  BY <1>1, DirectoryFacts, FileFacts DEF NoLogs, Exists
<1> QED
  BY <1>2, <1>3, <1>4, <1>5
     DEF InitRepair, LayoutInv, BaseCleared, HasDatabase, LogBelongs, Putting

LEMMA StutterLayout == LayoutInv /\ UNCHANGED repairVars => LayoutInv'
BY DEF repairVars, LayoutInv, ControlInv, JobFits, NoLogs, BaseCleared, HasDatabase, LogBelongs,
       Exists, StateOf, Database, Names

LEMMA UnchangedRearranges ==
    ASSUME inode \in Names, content \in [Inodes -> Contents], UNCHANGED files
    PROVE  Rearranges /\ inode' = inode
BY DEF files, Rearranges, Untouched

\* What one call of a list does to the names.
LEMMA RemoveItemsEffect ==
    ASSUME LayoutInv, NEW p \in Directories, NEW here, NEW next, NEW reversed,
           removeItems(here, p, reversed, next)
    PROVE  /\ Rearranges /\ step = here /\ owed' \subseteq owed /\ shop' = shop
           /\ \/ Present(p) = {} /\ inode' = inode /\ step' = next /\ job' = job
              \/ /\ \E f \in Files : Leads(f, Present(p), reversed) /\ Drops(p, {f})
                 /\ step' = here /\ job' = job
              \/ Fails /\ inode' = inode
<1>1. inode \in Names /\ content \in [Inodes -> Contents]
  BY DEF LayoutInv
<1>2. step = here /\ owed' \subseteq owed /\ shop' = shop
  BY DEF removeItems, Continues, Fails, Discards
<1>3. CASE Present(p) = {} /\ Continues(next) /\ UNCHANGED <<files, moved>>
  BY <1>1, <1>2, <1>3, UnchangedRearranges DEF Continues
<1>4. CASE Fails /\ UNCHANGED files
  BY <1>1, <1>2, <1>4, UnchangedRearranges
<1>5. ASSUME NEW f \in Files, Leads(f, Present(p), reversed),
             SetFiles([inode EXCEPT ![p][f] = None], content), Continues(here)
      PROVE  Rearranges /\ Drops(p, {f}) /\ step' = here /\ job' = job
  BY <1>1, <1>5, RemoveDrops DEF Continues
<1> QED
  BY <1>2, <1>3, <1>4, <1>5 DEF removeItems

\* All files have been moved, or what the others hold is not owed any more.
Gives(p) ==
    \/ Present(p) \ moved = {}
    \/ (Present(p) \ moved) \cap {"db", "wal"} = {}
    \/ owed' \cap GoodRows(p) = {}

LEMMA MoveItemsEffect ==
    ASSUME LayoutInv, NEW p \in Directories, NEW q \in Directories, p # q,
           NEW here, NEW next, NEW reversed,
           moveItems(here, p, q, reversed, next)
    PROVE  /\ Rearranges /\ step = here /\ owed' \subseteq owed /\ shop' = shop
           /\ \/ /\ Gives(p)
                 /\ inode' = inode /\ moved' = {} /\ step' = next /\ job' = job
              \/ /\ \E f \in Files : /\ Leads(f, Present(p) \ moved, reversed)
                                     /\ Links(p, q, f) /\ moved' = moved \cup {f}
                 /\ step' = here /\ job' = job
              \/ Fails /\ \E fs \in SUBSET moved : Drops(q, fs)
<1>1. inode \in Names /\ content \in [Inodes -> Contents] /\ moved \subseteq Files
  BY DEF LayoutInv, ControlInv
<1>2. step = here /\ owed' \subseteq owed /\ shop' = shop
  BY DEF moveItems, itemExistsFails, Continues, Fails, Discards
<1>3. CASE /\ (Present(p) \ moved = {} /\ Continues(next)) \/ itemExistsFails(p, Present(p) \ moved, next)
           /\ moved' = {} /\ UNCHANGED files
  <2>1. Gives(p) /\ step' = next /\ job' = job
    BY <1>3 DEF Gives, itemExistsFails, Continues, Discards
  <2> QED
    BY <1>1, <1>2, <1>3, <2>1, UnchangedRearranges
<1>4. ASSUME NEW f \in Files, Leads(f, Present(p) \ moved, reversed),
             SetFiles(Moved(p, q, f), content), moved' = moved \cup {f}, Continues(here)
      PROVE  Rearranges /\ Links(p, q, f) /\ step' = here /\ job' = job
  BY <1>1, <1>4, MoveLinks DEF Continues
<1>5. ASSUME NEW fs \in SUBSET moved, SetFiles(Without(q, fs), content), Fails
      PROVE  Rearranges /\ Drops(q, fs)
  BY <1>1, <1>5, WithoutDrops
<1> QED
  BY <1>2, <1>3, <1>4, <1>5 DEF moveItems

\* No call completes an initialize().
NoReturn == job' \notin {"open", "backup"} /\ ~(job' = "initialize" /\ step' = "return")

\* Of the database in use, the log may go, alone or with the database.
BaseShrinks ==
    \/ inode'["base"]["wal"] = None
    \/ /\ inode'["base"]["wal"] = inode["base"]["wal"]
       /\ inode'["base"]["db"] \in {inode["base"]["db"], None}

LEMMA RearrangedKeepsLayout ==
    ASSUME LayoutInv, ControlInv', Rearranges, owed' \subseteq Rows,
           NoLogs', BaseCleared', HasDatabase', BaseShrinks
    PROVE  LayoutInv'
<1>1. inode' \in Names /\ content' \in [Inodes -> Contents] /\ backed' \in {backed, {}}
  BY DEF Rearranges
<1>3. LogBelongs'
  <2>1. PICK n, d, w : n = inode' /\ d = n["base"]["db"] /\ w = n["base"]["wal"]
    OBVIOUS
  <2> SUFFICES ASSUME d # None, content'[d].state # "fresh", w # None
               PROVE  content'[w].of = d
    BY <2>1 DEF LogBelongs, StateOf, Exists, Database
  <2>2. d \in Named(n) /\ w \in Named(n)
    BY <1>1, <2>1, NamedInodes, DirectoryFacts, FileFacts
  <2>3. d = inode["base"]["db"] /\ w = inode["base"]["wal"]
    BY <2>1 DEF BaseShrinks
  <2>4. content[d].state # "fresh"
    BY <2>1, <2>2 DEF Rearranges, Untouched
  <2>5. content[w].of = d
    BY <2>3, <2>4 DEF LayoutInv, LogBelongs, StateOf, Exists, Database
  <2> QED
    BY <2>1, <2>2, <2>5 DEF Rearranges, Untouched
<1> QED
  BY <1>1, <1>3 DEF LayoutInv

LEMMA RearrangedLayout ==
    ASSUME LayoutInv, ControlInv', Rearranges, owed' \subseteq owed,
           NoLogs', BaseCleared', NoReturn, BaseShrinks
    PROVE  LayoutInv'
<1>1. HasDatabase' /\ owed' \subseteq Rows
  BY DEF HasDatabase, NoReturn, LayoutInv
<1> QED
  BY <1>1, RearrangedKeepsLayout

LEMMA RemoveItemsLayout ==
    ASSUME LayoutInv, ControlInv', NoReturn, NEW p \in Directories, NEW here, NEW next, NEW reversed,
           removeItems(here, p, reversed, next),
           here \notin Putting, next \in Putting => p = "base"
    PROVE  LayoutInv'
<1>1. Rearranges /\ owed' \subseteq owed
  BY RemoveItemsEffect
<1>2. \A r \in Directories, g \in Files : inode'[r][g] \in {inode[r][g], None}
  BY RemoveItemsEffect DEF Drops
<1>3. NoLogs'
  BY <1>2, DirectoryFacts, FileFacts DEF LayoutInv, NoLogs, Exists
<1>4. BaseShrinks
  BY <1>2, DirectoryFacts, FileFacts DEF BaseShrinks
<1>5. BaseCleared'
  <2> SUFFICES ASSUME step' \in Putting
               PROVE  inode'["base"]["wal"] = None /\ inode'["base"]["last"] = None
    BY DEF BaseCleared, Exists
  <2>1. step' = next /\ Present(p) = {} /\ inode' = inode
    BY RemoveItemsEffect DEF Fails, Putting
  <2> QED
    BY <2>1, FileFacts DEF Present, Exists
<1> QED
  BY <1>1, <1>3, <1>4, <1>5, RearrangedLayout

\* What is put into base comes from a directory without a log.
MoveFits(here, p, q, next) ==
    /\ p \in Directories /\ q \in Directories /\ p # q
    /\ p \in {"renew", "vacuum", "temp"} \/ (p = "base" /\ q \in Workshops)
    /\ q = "base" <=> here \in Putting
    /\ next \notin Putting

LEMMA MovesFit ==
    /\ MoveFits("putVacuum", "vacuum", "base", "emptyVacuum")
    /\ MoveFits("putRenew", "renew", "base", "emptyRenew")
    /\ MoveFits("putTemp", "temp", "base", "emptyTemp")
    /\ MoveFits("fillRenew", "temp", "renew", "emptyTemp")
    /\ MoveFits("fillVacuum", "temp", "vacuum", "emptyTemp")
    /\ \A w \in Workshops : MoveFits("depositBase", "base", w, "emptyBase")
BY DirectoryFacts DEF MoveFits, Putting

LEMMA MoveItemsLayout ==
    ASSUME LayoutInv, ControlInv', NoReturn, NEW p, NEW q,
           NEW here, NEW next, NEW reversed,
           moveItems(here, p, q, reversed, next),
           MoveFits(here, p, q, next)
    PROVE  LayoutInv'
<1>0. /\ p \in Directories /\ q \in Directories /\ p # q
      /\ p \in {"renew", "vacuum", "temp"} \/ (p = "base" /\ q \in Workshops)
      /\ q = "base" <=> here \in Putting
      /\ next \notin Putting
  BY DEF MoveFits
<1>1. Rearranges /\ owed' \subseteq owed /\ step = here
  BY <1>0, MoveItemsEffect
<1>2. ASSUME NEW r \in Directories, NEW g \in Files,
             ~(inode'[r][g] \in {inode[r][g], None})
      PROVE  r = q /\ g \in Present(p) /\ inode[p][g] # None
  BY <1>0, <1>2, MoveItemsEffect DEF Drops, Links, Leads, Present, Exists
<1>3. p \in {"renew", "vacuum", "temp"} => inode[p]["wal"] = None /\ inode[p]["last"] = None
  BY DEF LayoutInv, NoLogs, Exists
<1>4. NoLogs'
  <2> SUFFICES ASSUME NEW r \in {"renew", "vacuum", "temp"}
               PROVE  inode'[r]["wal"] = None /\ inode'[r]["last"] = None
    BY DEF NoLogs, Exists
  <2>1. inode[r]["wal"] = None /\ inode[r]["last"] = None
    BY DEF LayoutInv, NoLogs, Exists
  <2> QED
    BY <1>0, <1>2, <1>3, <2>1, DirectoryFacts, FileFacts
<1>5. q = "base" => inode["base"]["wal"] = None /\ inode["base"]["last"] = None
  BY <1>0, <1>1 DEF LayoutInv, BaseCleared, Exists
<1>6. /\ q = "base" => p \in {"renew", "vacuum", "temp"}
      /\ q = "base" => inode'["base"]["wal"] = None /\ inode'["base"]["last"] = None
  BY <1>0, <1>2, <1>3, <1>5, DirectoryFacts, FileFacts
<1>7. BaseShrinks
  BY <1>0, <1>2, <1>6, DirectoryFacts, FileFacts DEF BaseShrinks
<1>8. BaseCleared'
  <2> SUFFICES ASSUME step' \in Putting PROVE q = "base"
    BY <1>6 DEF BaseCleared, Exists
  <2>1. step' = here
    BY <1>0, MoveItemsEffect DEF Fails, Putting
  <2> QED
    BY <1>0, <2>1
<1> QED
  BY <1>1, <1>4, <1>7, <1>8, RearrangedLayout

LEMMA RemoveDirectoriesLayout ==
    ASSUME LayoutInv, ControlInv', NoReturn, NEW ps \in SUBSET Directories, NEW here, NEW next,
           removeDirectories(here, ps, next),
           next \notin Putting
    PROVE  LayoutInv'
<1>1. Rearranges /\ Clears(ps) /\ owed' \subseteq owed /\ step' = next
  BY RemoveDirectoriesClears DEF LayoutInv, removeDirectories
<1>2. \A r \in Directories, g \in Files : inode'[r][g] \in {inode[r][g], None}
  BY <1>1 DEF Clears
<1>3. NoLogs'
  BY <1>2, DirectoryFacts, FileFacts DEF LayoutInv, NoLogs, Exists
<1>4. BaseShrinks
  BY <1>2, DirectoryFacts, FileFacts DEF BaseShrinks
<1> QED
  BY <1>1, <1>3, <1>4, RearrangedLayout DEF BaseCleared

LEMMA RunsDoNotReturn ==
    ASSUME ControlInv,
           \/ Runs("clearForVacuum", "putVacuum")
           \/ Runs("putVacuum", "emptyVacuum")
           \/ Runs("emptyVacuum", "dropVacuum")
           \/ Runs("dropVacuum", AfterVacuum)
           \/ Runs("clearForRenew", "putRenew")
           \/ Runs("putRenew", "emptyRenew")
           \/ Runs("emptyRenew", "dropRenew")
           \/ Runs("dropRenew", AfterRenew)
           \/ Runs("clearRenew", "fillRenew")
           \/ Runs("fillRenew", "emptyTemp")
           \/ Runs("clearVacuum", "fillVacuum")
           \/ Runs("fillVacuum", "emptyTemp")
           \/ Runs("emptyTemp", "dropTemp")
           \/ Runs("dropTemp", IF job = "vacuum" THEN "removeBase" ELSE "depositBase")
           \/ Runs("removeBase", "takeVacuum")
           \/ Runs("depositBase", "emptyBase")
           \/ Runs("emptyBase", IF job = "deposit" THEN "takeRenew" ELSE "putTemp")
           \/ Runs("putTemp", "emptyTemp")
           \/ Runs("emptyTemp", "discard")
           \/ Runs("emptyTemp", "return")
           \/ Runs("discard", "return")
           \/ Runs("dropWorkshops", "return")
    PROVE  NoReturn
BY DEF Runs, ControlInv, JobFits, AfterVacuum, AfterRenew, NoReturn

LEMMA CallsDoNotReturn ==
    ASSUME ControlInv, Calls
    PROVE  NoReturn
<1>1. moved \subseteq Files
  BY DEF ControlInv
<1>2. CASE takeVacuum
  BY <1>2 DEF takeVacuum, Fails, Continues, ControlInv, JobFits, NoReturn
<1>3. CASE takeRenew
  BY <1>3 DEF takeRenew, Fails, Continues, ControlInv, JobFits, NoReturn, AfterRenew
<1>4. CASE TakeOver /\ ~takeVacuum /\ ~takeRenew
  BY <1>1, <1>4, GenericRuns, RunsDoNotReturn DEF TakeOver, ClearBase
<1>5. CASE Prepare
  BY <1>1, <1>5, GenericRuns, RunsDoNotReturn DEF Prepare
<1>6. CASE depositor
  BY <1>1, <1>6, GenericRuns, RunsDoNotReturn DEF depositor
<1>7. CASE UseRestored
  BY <1>1, <1>7, GenericRuns, RunsDoNotReturn DEF UseRestored
<1>8. CASE removeDirectories("dropWorkshops", Workshops, "return")
  BY <1>1, <1>8, GenericRuns, RunsDoNotReturn
<1> QED
  BY <1>2, <1>3, <1>4, <1>5, <1>6, <1>7, <1>8 DEF Calls

LEMMA TakeOverLayout ==
    ASSUME LayoutInv, ControlInv', NoReturn, TakeOver
    PROVE  LayoutInv'
<1>1. CASE takeVacuum \/ takeRenew
  <2>1. UNCHANGED files /\ owed' \subseteq owed /\ step' \notin Putting
    BY <1>1 DEF takeVacuum, takeRenew, Fails, Discards, Continues, Putting, AfterRenew
  <2>2. Rearranges /\ inode' = inode
    BY <2>1, UnchangedRearranges DEF LayoutInv
  <2>3. NoLogs' /\ BaseShrinks /\ BaseCleared'
    BY <2>1, <2>2 DEF LayoutInv, NoLogs, Exists, BaseShrinks, BaseCleared
  <2> QED
    BY <2>1, <2>2, <2>3, RearrangedLayout
<1>2. CASE ClearBase("clearForVacuum", "putVacuum")
  BY <1>2, DirectoryFacts, RemoveItemsLayout DEF ClearBase, Putting
<1>3. CASE moveItems("putVacuum", "vacuum", "base", TRUE, "emptyVacuum")
  BY <1>3, MovesFit, MoveItemsLayout
<1>4. CASE removeItems("emptyVacuum", "vacuum", TRUE, "dropVacuum")
  BY <1>4, DirectoryFacts, RemoveItemsLayout DEF Putting
<1>5. CASE removeDirectories("dropVacuum", {"vacuum"}, AfterVacuum)
  BY <1>5, DirectoryFacts, RemoveDirectoriesLayout DEF Putting, AfterVacuum
<1>6. CASE ClearBase("clearForRenew", "putRenew")
  BY <1>6, DirectoryFacts, RemoveItemsLayout DEF ClearBase, Putting
<1>7. CASE moveItems("putRenew", "renew", "base", TRUE, "emptyRenew")
  BY <1>7, MovesFit, MoveItemsLayout
<1>8. CASE removeItems("emptyRenew", "renew", TRUE, "dropRenew")
  BY <1>8, DirectoryFacts, RemoveItemsLayout DEF Putting
<1>9. CASE removeDirectories("dropRenew", {"renew"}, AfterRenew)
  BY <1>9, DirectoryFacts, RemoveDirectoriesLayout DEF Putting, AfterRenew
<1> QED
  BY <1>1, <1>2, <1>3, <1>4, <1>5, <1>6, <1>7, <1>8, <1>9 DEF TakeOver

LEMMA PrepareLayout ==
    ASSUME LayoutInv, ControlInv', NoReturn, Prepare
    PROVE  LayoutInv'
<1>1. CASE removeItems("clearRenew", "renew", TRUE, "fillRenew")
  BY <1>1, DirectoryFacts, RemoveItemsLayout DEF Putting
<1>2. CASE moveItems("fillRenew", "temp", "renew", TRUE, "emptyTemp")
  BY <1>2, MovesFit, MoveItemsLayout
<1>3. CASE removeItems("clearVacuum", "vacuum", TRUE, "fillVacuum")
  BY <1>3, DirectoryFacts, RemoveItemsLayout DEF Putting
<1>4. CASE moveItems("fillVacuum", "temp", "vacuum", TRUE, "emptyTemp")
  BY <1>4, MovesFit, MoveItemsLayout
<1>5. CASE removeItems("emptyTemp", "temp", TRUE, "dropTemp")
  BY <1>5, DirectoryFacts, RemoveItemsLayout DEF Putting
<1>6. CASE removeDirectories("dropTemp", {"temp"},
                             IF job = "vacuum" THEN "removeBase" ELSE "depositBase")
  BY <1>6, DirectoryFacts, RemoveDirectoriesLayout DEF Putting
<1>7. CASE removeItems("removeBase", "base", FALSE, "takeVacuum")
  BY <1>7, DirectoryFacts, RemoveItemsLayout DEF Putting
<1> QED
  BY <1>1, <1>2, <1>3, <1>4, <1>5, <1>6, <1>7 DEF Prepare

LEMMA MovesLayout ==
    ASSUME LayoutInv, ControlInv', NoReturn, depositor \/ UseRestored
    PROVE  LayoutInv'
<1>1. CASE moveItems("depositBase", "base", shop, FALSE, "emptyBase")
  <2>1. shop \in Workshops /\ shop # "base"
    BY <1>1, DirectoryFacts DEF moveItems, LayoutInv, ControlInv, JobFits
  <2> QED
    BY <1>1, <2>1, MovesFit, MoveItemsLayout
<1>2. CASE removeItems("emptyBase", "base", FALSE,
                       IF job = "deposit" THEN "takeRenew" ELSE "putTemp")
  BY <1>2, DirectoryFacts, RemoveItemsLayout DEF Putting
<1>3. CASE moveItems("putTemp", "temp", "base", FALSE, "emptyTemp")
  BY <1>3, MovesFit, MoveItemsLayout
<1>4. CASE removeItems("emptyTemp", "temp", FALSE, "discard")
  BY <1>4, DirectoryFacts, RemoveItemsLayout DEF Putting
<1>5. CASE removeItems("emptyTemp", "temp", FALSE, "return")
  BY <1>5, DirectoryFacts, RemoveItemsLayout DEF Putting
<1>6. CASE removeDirectories("discard", {"renew", "vacuum"} \cup Workshops, "return")
  BY <1>6, DirectoryFacts, RemoveDirectoriesLayout DEF Putting
<1> QED
  BY <1>1, <1>2, <1>3, <1>4, <1>5, <1>6 DEF depositor, UseRestored

LEMMA CallsLayout ==
    ASSUME LayoutInv, ControlInv', Calls
    PROVE  LayoutInv'
<1>1. NoReturn
  BY CallsDoNotReturn DEF LayoutInv
<1>2. CASE removeDirectories("dropWorkshops", Workshops, "return")
  BY <1>1, <1>2, DirectoryFacts, RemoveDirectoriesLayout DEF Putting
<1> QED
  BY <1>1, <1>2, TakeOverLayout, PrepareLayout, MovesLayout DEF Calls

-----------------------------------------------------------------------------
(* Steps that write contents                                               *)

\* The step writes to the inodes S only.
Changes(S) ==
    /\ inode' \in Names
    /\ content' \in [Inodes -> Contents]
    /\ \A i \in Named(inode') : i \notin S => Untouched(i)
    /\ backed' = IF inode'["base"]["db"] = inode["base"]["db"] THEN backed ELSE {}

\* The name f of directory p is one of the inode i now.
Gets(p, f, i) ==
    \A q \in Directories, g \in Files : inode'[q][g] = IF q = p /\ g = f THEN i ELSE inode[q][g]

LEMMA SetFilesChanges ==
    ASSUME NEW n \in Names, content \in [Inodes -> Contents], NEW c \in [Inodes -> Contents],
           SetFiles(n, c), NEW S,
           \A i \in Inodes : i \notin S => c[i] = content[i]
    PROVE  Changes(S) /\ inode' = n
<1>1. /\ inode' = n
      /\ content' \in [Inodes -> Contents]
      /\ backed' = IF n["base"]["db"] = inode["base"]["db"] THEN backed ELSE {}
  BY SetFilesEffect
<1>2. ASSUME NEW i \in Named(inode'), i \notin S PROVE Untouched(i)
  <2>1. i \in Named(n) /\ i \in Inodes
    BY <1>1, NamedInodes
  <2>2. c[i] = content[i]
    BY <1>2, <2>1
  <2> QED
    BY <1>1, <2>1, <2>2, SetFilesEffect DEF Untouched
<1> QED
  BY <1>1, <1>2 DEF Changes

\* n are the names with i as the file f of p.
IsWith(n, p, f, i) == n = [inode EXCEPT ![p][f] = i]

FitsName(i, f) == i \in Inodes \cup {None} /\ (i # None => i[1] = f)

LEMMA GetsName ==
    ASSUME inode \in Names, NEW p \in Directories, NEW f \in Files, NEW i,
           FitsName(i, f), NEW n, IsWith(n, p, f, i)
    PROVE  /\ n \in Names
           /\ \A q \in Directories, g \in Files :
                 n[q][g] = IF q = p /\ g = f THEN i ELSE inode[q][g]
<1>1. /\ n \in [Directories -> [Files -> Inodes \cup {None}]]
      /\ \A q \in Directories, g \in Files :
            n[q][g] = IF q = p /\ g = f THEN i ELSE inode[q][g]
  BY DEF Names, FitsName, IsWith
<1> QED
  BY <1>1 DEF Names, FitsName

\* A new database is empty.
LEMMA CreateEffect ==
    ASSUME LayoutInv, create
    PROVE  /\ step = "create" /\ owed' \subseteq owed /\ shop' = shop
           /\ \/ Rearranges /\ inode' = inode /\ Exists("base", "db") /\ step' = "return" /\ job' = job
              \/ Rearranges /\ inode' = inode /\ Fails
              \/ /\ ~Exists("base", "db") /\ step' = "return" /\ job' = job
                 /\ \E i \in Inodes : /\ i \notin Named(inode) /\ i[1] = "db"
                                      /\ Changes({i}) /\ Gets("base", "db", i)
                                      /\ content'[i].state = "fresh"
<1>1. inode \in Names /\ content \in [Inodes -> Contents]
  BY DEF LayoutInv
<1>2. step = "create" /\ owed' \subseteq owed /\ shop' = shop
  BY DEF create, Fails, Discards, Continues
<1>3. CASE UNCHANGED files /\ (Fails \/ (Exists("base", "db") /\ Continues("return")))
  BY <1>1, <1>2, <1>3, UnchangedRearranges DEF Continues
<1>4. CASE /\ ~Exists("base", "db") /\ Continues("return")
           /\ SetFiles([inode EXCEPT !["base"]["db"] = NewInode("db")],
                       [content EXCEPT ![NewInode("db")] = blank])
  <2>1. PICK i, n, c : /\ i = NewInode("db") /\ n = [inode EXCEPT !["base"]["db"] = i]
                       /\ c = [content EXCEPT ![i] = blank]
    OBVIOUS
  <2>2. i \in Inodes /\ i[1] = "db" /\ i \notin Named(inode)
    BY <1>1, <2>1, NewInodeIsFree, FileFacts
  <2>3. /\ n \in Names
        /\ \A q \in Directories, g \in Files :
              n[q][g] = IF q = "base" /\ g = "db" THEN i ELSE inode[q][g]
    <3>1. FitsName(i, "db") /\ IsWith(n, "base", "db", i)
      BY <2>1, <2>2 DEF FitsName, IsWith
    <3> QED
      BY <1>1, <3>1, GetsName, DirectoryFacts, FileFacts
  <2>4. c \in [Inodes -> Contents] /\ c[i] = blank /\ \A j \in Inodes : j \notin {i} => c[j] = content[j]
    BY <1>1, <2>1, <2>2, BlankIsContent
  <2>5. SetFiles(n, c)
    BY <1>4, <2>1
  <2>6. Changes({i}) /\ inode' = n
    BY <1>1, <2>3, <2>4, <2>5, SetFilesChanges
  <2>7. i \in Named(n)
    BY <2>2, <2>3, NamedInodes, NoneIsNoInode, DirectoryFacts, FileFacts
  <2>8. content'[i].state = "fresh"
    BY <2>3, <2>4, <2>5, <2>7, SetFilesEffect DEF blank
  <2>9. Gets("base", "db", i)
    BY <2>3, <2>6 DEF Gets
  <2> QED
    BY <1>2, <1>4, <2>2, <2>6, <2>8, <2>9 DEF Continues
<1> QED
  BY <1>2, <1>3, <1>4 DEF create

LEMMA DatabaseInUse ==
    ASSUME LayoutInv, job \in {"open", "backup"}
    PROVE  /\ Exists("base", "db")
           /\ Database \in Inodes /\ Database \in Named(inode) /\ Database[1] = "db"
BY NamedInodes, DirectoryFacts, FileFacts DEF LayoutInv, HasDatabase, Exists, Database, Names

\* The row goes to the log, which is a new one unless the database had one.
LEMMA InsertEffect ==
    ASSUME LayoutInv, insert
    PROVE  /\ job = "open" /\ job' = job /\ step' = step /\ moved' = moved
           /\ spent.rows + 1 \in Rows /\ owed' = owed \cup {spent.rows + 1}
           /\ \E i \in Inodes :
                 /\ i[1] = "wal"
                 /\ Changes({i, Database}) /\ Gets("base", "wal", i)
                 /\ content'[i].of = Database
                 /\ spent.rows + 1 \in content'[i].rows
                 /\ content'[Database].state = "good"
                 /\ content'[Database].rows = content[Database].rows
                 /\ content[Database].state # "bad"
                 /\ \/ i \notin Named(inode) /\ ~(Exists("base", "wal") /\ content[Database].state = "good")
                    \/ /\ i = inode["base"]["wal"] /\ content[Database].state = "good"
                       /\ content[i].rows \subseteq content'[i].rows
<1>1. inode \in Names /\ content \in [Inodes -> Contents]
  BY DEF LayoutInv
<1> DEFINE old == Exists("base", "wal") /\ StateOf("base") = "good"
<1>2. PICK k, i, d, R :
         /\ k = spent.rows + 1
         /\ i = (IF old THEN inode["base"]["wal"] ELSE NewInode("wal"))
         /\ d = Database
         /\ R = IF old THEN content[i].rows \cup {k} ELSE {k}
  OBVIOUS
<1>3. PICK n, b, c :
         /\ n = [inode EXCEPT !["base"]["wal"] = i]
         /\ b = [blank EXCEPT !.state = "good", !.of = d, !.rows = R]
         /\ c = [content EXCEPT ![i] = b, ![d].state = "good"]
  OBVIOUS
<1>4. /\ job = "open" /\ StateOf("base") # "bad" /\ k \in Rows /\ SetFiles(n, c)
      /\ owed' = owed \cup {k} /\ job' = job /\ step' = step /\ moved' = moved
  BY <1>2, <1>3 DEF insert
<1>5. d \in Inodes /\ d \in Named(inode) /\ d[1] = "db" /\ d = inode["base"]["db"] /\ d # None
  BY <1>2, <1>4, DatabaseInUse DEF Database, Exists
<1>6. StateOf("base") = content[d].state
  BY <1>5 DEF StateOf, Exists
<1>7. /\ i \in Inodes /\ i[1] = "wal" /\ i # None
      /\ old => i = inode["base"]["wal"] /\ content[d].state = "good"
      /\ ~old => i \notin Named(inode) /\ ~(Exists("base", "wal") /\ content[d].state = "good")
  <2>1. CASE old
    BY <1>1, <1>2, <1>6, <2>1, DirectoryFacts, FileFacts DEF Exists, Names
  <2>2. CASE ~old
    BY <1>1, <1>2, <1>6, <2>2, NewInodeIsFree, FileFacts, NoneIsNoInode
  <2> QED
    BY <2>1, <2>2
<1>9. R \in SUBSET Rows /\ k \in R /\ (old => content[i].rows \subseteq R)
  BY <1>1, <1>2, <1>4, <1>7 DEF Contents
<1>10. PICK e : e = [content[d] EXCEPT !.state = "good"]
  OBVIOUS
<1>11. b \in Contents /\ b.of = d /\ b.rows = R
  BY <1>3, <1>5, <1>9 DEF blank, Contents
<1>12. e \in Contents /\ e.state = "good" /\ e.rows = content[d].rows
  <2>1. content[d] \in Contents
    BY <1>1, <1>5
  <2> QED
    BY <1>10, <2>1 DEF Contents
<1>13. i # d
  BY <1>5, <1>7
<1>14. /\ c \in [Inodes -> Contents] /\ c[i] = b /\ c[d] = e
       /\ \A j \in Inodes : j \notin {i, d} => c[j] = content[j]
  <2>1. DOMAIN c = Inodes /\ c = [j \in Inodes |-> c[j]]
    BY <1>1, <1>3
  <2>2. \A j \in Inodes : c[j] = IF j = i THEN b ELSE IF j = d THEN e ELSE content[j]
    BY <1>1, <1>3, <1>5, <1>7, <1>10, <1>13
  <2>3. \A j \in Inodes : c[j] \in Contents
    BY <1>1, <1>11, <1>12, <2>2
  <2> QED
    BY <1>5, <1>7, <1>13, <2>1, <2>2, <2>3
<1>15. /\ n \in Names
       /\ \A q \in Directories, g \in Files :
             n[q][g] = IF q = "base" /\ g = "wal" THEN i ELSE inode[q][g]
  <2>1. FitsName(i, "wal") /\ IsWith(n, "base", "wal", i)
    BY <1>3, <1>7 DEF FitsName, IsWith
  <2> QED
    BY <1>1, <2>1, GetsName, DirectoryFacts, FileFacts
<1>16. Changes({i, d}) /\ inode' = n
  BY <1>1, <1>4, <1>14, <1>15, SetFilesChanges
<1>17. i \in Named(n) /\ d \in Named(n)
  BY <1>5, <1>7, <1>15, NamedInodes, DirectoryFacts, FileFacts
<1>18. /\ content'[i].of = d /\ content'[i].rows = R
       /\ content'[d].state = "good" /\ content'[d].rows = content[d].rows
  BY <1>4, <1>11, <1>12, <1>14, <1>15, <1>17, SetFilesEffect
<1>19. Gets("base", "wal", i)
  BY <1>15, <1>16 DEF Gets
<1>20. content[d].state # "bad"
  BY <1>4, <1>6
<1> QED
  BY <1>2, <1>4, <1>7, <1>9, <1>16, <1>18, <1>19, <1>20

LEMMA RowsOfFiles ==
    ASSUME inode \in Names, content \in [Inodes -> Contents], NEW p \in Directories
    PROVE  /\ Exists(p, "db") => FileRows(p) \subseteq Rows
           /\ restore(p) \subseteq Rows
<1>1. ASSUME NEW f \in Files, Exists(p, f)
      PROVE  inode[p][f] \in Inodes /\ content[inode[p][f]] \in Contents
  BY <1>1 DEF Exists, Names
<1>2. ASSUME NEW f \in Files, Exists(p, f) PROVE content[inode[p][f]].rows \subseteq Rows
  BY <1>1, <1>2 DEF Contents
<1>3. ASSUME Exists(p, "db") PROVE FileRows(p) \subseteq Rows
  <2>1. content[inode[p]["db"]].rows \subseteq Rows
    BY <1>2, <1>3, FileFacts
  <2>2. Exists(p, "wal") => content[inode[p]["wal"]].rows \subseteq Rows
    BY <1>2, FileFacts
  <2> QED
    BY <2>1, <2>2 DEF FileRows
<1>4. Exists(p, "db") \/ restore(p) = {}
  BY DEF restore, StateOf, GoodRows
<1>5. restore(p) \subseteq FileRows(p) \/ restore(p) = {}
  BY DEF restore, GoodRows
<1> QED
  BY <1>3, <1>4, <1>5

\* The rows of the log go to the database, and the log is removed.
LEMMA CheckpointEffect ==
    ASSUME LayoutInv, checkpoint
    PROVE  /\ job = "open" /\ job' = job /\ step' = step /\ moved' = moved /\ owed' \subseteq owed
           /\ Changes({Database}) /\ Gets("base", "wal", None)
           /\ content'[Database].rows = FileRows("base")
           /\ content[Database].state = "good" /\ content'[Database].state = "good"
<1>1. inode \in Names /\ content \in [Inodes -> Contents]
  BY DEF LayoutInv
<1>2. PICK d, R, n, c : /\ d = Database /\ R = FileRows("base")
                        /\ n = [inode EXCEPT !["base"]["wal"] = None]
                        /\ c = [content EXCEPT ![d].rows = R]
  OBVIOUS
<1>3. /\ job = "open" /\ StateOf("base") = "good" /\ SetFiles(n, c)
      /\ job' = job /\ step' = step /\ moved' = moved /\ owed' \subseteq owed
  BY <1>2 DEF checkpoint
<1>4. d \in Inodes /\ d[1] = "db" /\ d = inode["base"]["db"] /\ Exists("base", "db") /\ d # None
  BY <1>2, <1>3, DatabaseInUse DEF Database, Exists
<1>5. content[d].state = "good"
  BY <1>3, <1>4 DEF StateOf
<1>6. R \subseteq Rows
  BY <1>1, <1>2, <1>4, RowsOfFiles, DirectoryFacts
<1>7. PICK e : e = [content[d] EXCEPT !.rows = R]
  OBVIOUS
<1>8. e \in Contents /\ e.rows = R /\ e.state = "good"
  <2>1. content[d] \in Contents
    BY <1>1, <1>4
  <2> QED
    BY <1>5, <1>6, <1>7, <2>1 DEF Contents
<1>9. /\ c \in [Inodes -> Contents] /\ c[d] = e
      /\ \A j \in Inodes : j \notin {d} => c[j] = content[j]
  <2>1. c = [content EXCEPT ![d] = e]
    BY <1>2, <1>7
  <2> QED
    BY <1>1, <1>4, <1>8, <2>1
<1>10. /\ n \in Names
       /\ \A q \in Directories, g \in Files :
             n[q][g] = IF q = "base" /\ g = "wal" THEN None ELSE inode[q][g]
  <2>1. FitsName(None, "wal") /\ IsWith(n, "base", "wal", None)
    BY <1>2 DEF FitsName, IsWith
  <2> QED
    BY <1>1, <2>1, GetsName, DirectoryFacts, FileFacts
<1>11. Changes({d}) /\ inode' = n
  BY <1>1, <1>3, <1>9, <1>10, SetFilesChanges
<1>12. d \in Named(n)
  BY <1>4, <1>10, NamedInodes, DirectoryFacts, FileFacts
<1>13. content'[d].rows = R /\ content'[d].state = "good"
  BY <1>3, <1>8, <1>9, <1>10, <1>12, SetFilesEffect
<1>14. Gets("base", "wal", None)
  BY <1>10, <1>11 DEF Gets
<1> QED
  BY <1>2, <1>3, <1>5, <1>11, <1>13, <1>14

LEMMA DamageEffect ==
    ASSUME LayoutInv, damage
    PROVE  /\ job = "open" /\ job' = job /\ step' = step /\ moved' = moved
           /\ owed' = owed \cap Intact'
           /\ Changes({Database}) /\ inode' = inode
           /\ content'[Database].rows = content[Database].rows
           /\ content'[Database].of = content[Database].of
           /\ content[Database].state = "good"
<1>1. inode \in Names /\ content \in [Inodes -> Contents]
  BY DEF LayoutInv
<1>2. PICK d : d = Database
  OBVIOUS
<1>3. /\ job = "open" /\ StateOf("base") = "good" /\ inode' = inode /\ backed' = backed
      /\ job' = job /\ step' = step /\ moved' = moved
      /\ owed' = owed \cap Intact'
      /\ content' = [content EXCEPT ![d].state = "bad"]
  BY <1>2 DEF damage
<1>4. d \in Inodes /\ Exists("base", "db") /\ d = inode["base"]["db"]
  BY <1>2, <1>3, DatabaseInUse DEF Database
<1>5. content[d].state = "good"
  BY <1>3, <1>4 DEF StateOf
<1>6. PICK e : e = [content[d] EXCEPT !.state = "bad"]
  OBVIOUS
<1>7. e \in Contents /\ e.rows = content[d].rows /\ e.of = content[d].of
  <2>1. content[d] \in Contents
    BY <1>1, <1>4
  <2> QED
    BY <1>6, <2>1 DEF Contents
<1>8. content' \in [Inodes -> Contents] /\ content'[d] = e
      /\ \A j \in Inodes : j \notin {d} => content'[j] = content[j]
  <2>1. content' = [content EXCEPT ![d] = e]
    BY <1>3, <1>6
  <2> QED
    BY <1>1, <1>4, <1>7, <2>1
<1>9. Changes({d})
  <2>1. Named(inode') \subseteq Inodes
    BY <1>1, <1>3, NamedInodes
  <2> QED
    BY <1>1, <1>3, <1>8, <2>1 DEF Changes, Untouched
<1> QED
  BY <1>2, <1>3, <1>5, <1>7, <1>8, <1>9

\* The other material.
Sibling(f) == IF f = "first" THEN "last" ELSE "first"

LEMMA MaterialIsFirstOrLast == materialForSerializing \in {"first", "last"}
BY DEF materialForSerializing

\* The material f is truncated.  It becomes the latest, and the other one, which
\* keeps what it has, is not the latest any more, unless that is ahead of the clock.
Truncates(f, i) ==
    /\ i[1] = f
    /\ i = inode["base"][f] \/ (i \notin Named(inode) /\ ~Exists("base", f))
    /\ Changes({i, inode["base"][Sibling(f)]}) /\ Gets("base", f, i)
    /\ content'[i].state = "fresh" /\ ~content'[i].ahead
    /\ ~Behind(f) => content'[i].latest
    /\ Exists("base", Sibling(f)) =>
          LET j == inode["base"][Sibling(f)] IN
          /\ content'[j].rows = content[j].rows
          /\ content'[j].state = content[j].state
          /\ content'[j].ahead = content[j].ahead
          /\ ~Behind(f) => ~content'[j].latest
          /\ \A d \in Named(inode') : content'[j].of = d <=> content[j].of = d

LEMMA BackupEffect ==
    ASSUME LayoutInv, backup, NEW f, f = materialForSerializing
    PROVE  /\ job = "open" /\ job' = "backup" /\ owed' \subseteq owed /\ moved' = moved
           /\ step' = IF f = "first" THEN "serializeFirst" ELSE "serializeLast"
           /\ \E i \in Inodes : Truncates(f, i)
<1>1. inode \in Names /\ content \in [Inodes -> Contents]
  BY DEF LayoutInv
<1>2. f \in {"first", "last"} /\ f \in Files /\ Sibling(f) \in Files /\ f # Sibling(f)
  BY MaterialIsFirstOrLast, FileFacts DEF Sibling
<1>3. PICK g, i, j : /\ g = Sibling(f)
                     /\ i = IF Exists("base", f) THEN inode["base"][f] ELSE NewInode(f)
                     /\ j = inode["base"][g]
  OBVIOUS
<1>4. PICK n, b, c : /\ n = [inode EXCEPT !["base"][f] = i]
                     /\ b = [blank EXCEPT !.latest = ~Behind(f)]
                     /\ c = [k \in Inodes |-> IF k = i THEN b
                                             ELSE IF k = j THEN [content[k] EXCEPT !.latest = Behind(f)]
                                             ELSE content[k]]
  OBVIOUS
<1>5. /\ job = "open" /\ job' = "backup" /\ owed' \subseteq owed /\ moved' = moved
      /\ step' = IF f = "first" THEN "serializeFirst" ELSE "serializeLast"
      /\ SetFiles(n, c)
  BY <1>3, <1>4 DEF backup, Sibling
<1>6. /\ i \in Inodes /\ i[1] = f
      /\ i = inode["base"][f] \/ (i \notin Named(inode) /\ ~Exists("base", f))
  <2>1. CASE Exists("base", f)
    BY <1>1, <1>2, <1>3, <2>1, DirectoryFacts DEF Exists, Names
  <2>2. CASE ~Exists("base", f)
    BY <1>1, <1>2, <1>3, <2>2, NewInodeIsFree
  <2> QED
    BY <2>1, <2>2
<1>7. j # None => j \in Inodes /\ j[1] = g /\ i # j
  <2>1. g \in Files /\ g # f /\ "base" \in Directories
    BY <1>2, <1>3, DirectoryFacts
  <2>2. j # None => j \in Inodes /\ j[1] = g
    BY <1>1, <1>3, <2>1 DEF Names
  <2> QED
    BY <1>6, <2>1, <2>2
<1>8. b \in Contents /\ b.state = "fresh" /\ b.ahead = FALSE /\ (~Behind(f) => b.latest)
  BY <1>4 DEF blank, Contents
<1>9. /\ c \in [Inodes -> Contents] /\ c[i] = b
      /\ \A k \in Inodes : k \notin {i, j} => c[k] = content[k]
      /\ j # None => /\ c[j].rows = content[j].rows /\ c[j].state = content[j].state
                     /\ c[j].ahead = content[j].ahead /\ c[j].of = content[j].of
                     /\ ~Behind(f) => ~c[j].latest
  <2>1. ASSUME NEW k \in Inodes
        PROVE  LET e == [content[k] EXCEPT !.latest = Behind(f)] IN
               /\ e \in Contents /\ e.rows = content[k].rows /\ e.state = content[k].state
               /\ e.ahead = content[k].ahead /\ e.of = content[k].of
               /\ ~Behind(f) => ~e.latest
    <3>1. content[k] \in Contents /\ Behind(f) \in BOOLEAN
      BY <1>1 DEF Behind
    <3> QED
      BY <3>1 DEF Contents
  <2>2. \A k \in Inodes : c[k] = IF k = i THEN b
                                ELSE IF k = j THEN [content[k] EXCEPT !.latest = Behind(f)]
                                ELSE content[k]
    BY <1>4
  <2>3. \A k \in Inodes : c[k] \in Contents
    BY <1>1, <1>8, <2>1, <2>2
  <2>4. c \in [Inodes -> Contents]
    BY <1>4, <2>3
  <2>5. j # None => /\ c[j].rows = content[j].rows /\ c[j].state = content[j].state
                    /\ c[j].ahead = content[j].ahead /\ c[j].of = content[j].of
                    /\ ~Behind(f) => ~c[j].latest
    BY <1>7, <2>1, <2>2
  <2> QED
    BY <1>6, <2>2, <2>4, <2>5
<1>10. /\ n \in Names
       /\ \A q \in Directories, h \in Files :
             n[q][h] = IF q = "base" /\ h = f THEN i ELSE inode[q][h]
  <2>1. FitsName(i, f) /\ IsWith(n, "base", f, i)
    BY <1>4, <1>6 DEF FitsName, IsWith
  <2> QED
    BY <1>1, <1>2, <2>1, GetsName, DirectoryFacts
<1>11. Changes({i, j}) /\ inode' = n
  BY <1>1, <1>5, <1>9, <1>10, SetFilesChanges
<1>12. i \in Named(n) /\ (j # None => j \in Named(n))
  <2>1. g \in Files /\ g # f /\ "base" \in Directories
    BY <1>2, <1>3, DirectoryFacts
  <2>2. n["base"][f] = i /\ n["base"][g] = j /\ i # None
    BY <1>2, <1>3, <1>6, <1>10, <2>1, NoneIsNoInode
  <2> QED
    BY <1>2, <1>10, <2>1, <2>2, NamedInodes
<1>13. content'[i].state = "fresh" /\ ~content'[i].ahead /\ (~Behind(f) => content'[i].latest)
  BY <1>5, <1>8, <1>9, <1>10, <1>12, SetFilesEffect
<1>14. ASSUME j # None
       PROVE  /\ content'[j].rows = content[j].rows /\ content'[j].state = content[j].state
              /\ content'[j].ahead = content[j].ahead
              /\ ~Behind(f) => ~content'[j].latest
              /\ \A d \in Named(n) : content'[j].of = d <=> content[j].of = d
  BY <1>5, <1>9, <1>10, <1>12, <1>14, SetFilesEffect
<1>15. Gets("base", f, i)
  BY <1>10, <1>11 DEF Gets
<1> QED
  <2>1. Truncates(f, i)
    BY <1>3, <1>6, <1>11, <1>13, <1>14, <1>15 DEF Exists, Truncates
  <2> QED
    BY <1>5, <1>6, <2>1

\* The material that was truncated gets the rows of the database.
LEMMA SerializeEffect ==
    ASSUME LayoutInv, NEW f \in {"first", "last"},
           NEW here \in {"serializeFirst", "serializeLast"}, serialize(f, here)
    PROVE  /\ step = here /\ job' = "open" /\ step' = "idle" /\ moved' = moved /\ owed' \subseteq owed
           /\ inode' = inode /\ content' \in [Inodes -> Contents]
           /\ \A i \in Inodes : i # inode["base"][f] => content'[i] = content[i]
           /\ Exists("base", f) =>
                 /\ content'[inode["base"][f]].rows = FileRows("base")
                 /\ content'[inode["base"][f]].of = Database
                 /\ content'[inode["base"][f]].latest = content[inode["base"][f]].latest
                 /\ content'[inode["base"][f]].ahead = content[inode["base"][f]].ahead
                 /\ \/ /\ content'[inode["base"][f]].state = "good"
                       /\ backed' = FileRows("base") /\ ~Behind(f)
                    \/ backed' = {}
           /\ backed' \subseteq Rows
<1>1. inode \in Names /\ content \in [Inodes -> Contents] /\ backed \subseteq Rows
  BY DEF LayoutInv
<1>2. /\ step = here /\ job' = "open" /\ step' = "idle" /\ moved' = moved /\ owed' \subseteq owed
      /\ inode' = inode
  BY DEF serialize
<1>3. PICK i, d, R : i = inode["base"][f] /\ d = Database /\ R = FileRows("base")
  OBVIOUS
<1>4. PICK st \in {"good", "bad"} :
         /\ content' = [content EXCEPT ![i] = [content[i] EXCEPT !.state = st, !.of = d, !.rows = R]]
         /\ backed' = IF st = "good" /\ ~Behind(f) THEN R ELSE {}
  BY <1>3 DEF serialize
<1>5. job = "backup"
  BY <1>2 DEF LayoutInv, ControlInv, JobFits
<1>6. R \subseteq Rows /\ d \in Inodes
  BY <1>1, <1>3, <1>5, DatabaseInUse, RowsOfFiles, DirectoryFacts
<1>7. ASSUME i \in Inodes
      PROVE  /\ content' \in [Inodes -> Contents]
             /\ content'[i].rows = R /\ content'[i].of = d /\ content'[i].state = st
             /\ content'[i].latest = content[i].latest
             /\ content'[i].ahead = content[i].ahead
  <2>1. PICK e : e = [content[i] EXCEPT !.state = st, !.of = d, !.rows = R]
    OBVIOUS
  <2>2. e \in Contents /\ e.rows = R /\ e.of = d /\ e.state = st 
        /\ e.latest = content[i].latest /\ e.ahead = content[i].ahead
    <3>1. content[i] \in Contents
      BY <1>1, <1>7
    <3> QED
      BY <1>6, <2>1, <3>1 DEF Contents
  <2> QED
    BY <1>1, <1>4, <1>7, <2>1, <2>2
<1>8. ASSUME i \notin Inodes PROVE content' \in [Inodes -> Contents]
  BY <1>1, <1>4, <1>8
<1>9. \A j \in Inodes : j # i => content'[j] = content[j]
  BY <1>1, <1>4
<1>10. Exists("base", f) => i \in Inodes
  BY <1>1, <1>3, DirectoryFacts, FileFacts DEF Exists, Names
<1>11. backed' \subseteq Rows
  BY <1>1, <1>4, <1>6
<1>12. content' \in [Inodes -> Contents]
  BY <1>7, <1>8
<1> QED
  BY <1>2, <1>3, <1>4, <1>7, <1>9, <1>10, <1>11, <1>12

\* When the clock is set, nothing but the place of materials before or after it
\* changes; a backup counts no longer when one is ahead of the clock now.
LEMMA SetClockEffect ==
    ASSUME LayoutInv, setClock
    PROVE  /\ job = "open" /\ job' = job /\ step' = step /\ moved' = moved /\ owed' = owed
           /\ inode' = inode /\ content' \in [Inodes -> Contents]
           /\ \A i \in Inodes : /\ content'[i].rows = content[i].rows
                                /\ content'[i].state = content[i].state
                                /\ content'[i].of = content[i].of
                                /\ content'[i].latest = content[i].latest
           /\ \/ backed' = {}
              \/ /\ backed' = backed
                 /\ \A i \in Inodes : content'[i].ahead => content[i].ahead
<1>1. inode \in Names /\ content \in [Inodes -> Contents]
  BY DEF LayoutInv
<1>2. /\ job = "open" /\ job' = job /\ step' = step /\ moved' = moved /\ owed' = owed
      /\ inode' = inode
  BY DEF setClock
<1> DEFINE full == materialsForDeserializing("base")
           ahead == {f \in full : content[inode["base"][f]].ahead}
           set(i) == \E f \in full : i = inode["base"][f]
<1>3. PICK fs \in SUBSET full :
         /\ content' = [i \in Inodes |->
                          IF set(i) THEN [content[i] EXCEPT !.ahead = i[1] \in fs] ELSE content[i]]
         /\ IF fs \subseteq ahead THEN backed' = backed ELSE backed' = {}
  BY DEF setClock
<1>4. \A f \in full : f \in Files /\ inode["base"][f] \in Inodes /\ inode["base"][f][1] = f
  <2>1. \A f \in full : f \in Files /\ inode["base"][f] # None
    BY FileFacts DEF materialsForDeserializing, Exists
  <2> QED
    BY <1>1, <2>1, DirectoryFacts DEF Names
<1> HIDE DEF full, set
<1>5. ASSUME NEW i \in Inodes
      PROVE  /\ content'[i] \in Contents
             /\ content'[i].rows = content[i].rows /\ content'[i].state = content[i].state
             /\ content'[i].of = content[i].of /\ content'[i].latest = content[i].latest
             /\ ~set(i) => content'[i].ahead = content[i].ahead
             /\ set(i) /\ content'[i].ahead => i[1] \in fs
  <2>1. content[i] \in Contents /\ (i[1] \in fs) \in BOOLEAN
    BY <1>1
  <2>2. CASE set(i)
    <3>1. content'[i] = [content[i] EXCEPT !.ahead = i[1] \in fs]
      BY <1>3, <2>2
    <3> QED
      BY <2>1, <2>2, <3>1 DEF Contents
  <2>3. CASE ~set(i)
    BY <1>3, <2>1, <2>3
  <2> QED
    BY <2>2, <2>3
<1>6. content' \in [Inodes -> Contents]
  BY <1>3, <1>5
<1>7. ASSUME fs \subseteq ahead, NEW i \in Inodes, content'[i].ahead PROVE content[i].ahead
  <2>1. CASE set(i)
    <3>1. PICK f \in full : i = inode["base"][f]
      BY <2>1 DEF set
    <3>2. f \in fs
      BY <1>4, <1>5, <1>7, <2>1, <3>1
    <3> QED
      BY <1>7, <3>1, <3>2
  <2> QED
    BY <1>5, <1>7, <2>1
<1> QED
  BY <1>2, <1>3, <1>5, <1>6, <1>7

\* temp has a new database and perhaps its material, and nothing else.
InTemp(new, first) ==
    /\ \A q \in Directories, g \in Files :
          q # "temp" => inode'[q][g] = inode[q][g]
    /\ inode'["temp"]["db"] = new
    /\ inode'["temp"]["first"] \in {first, None}
    /\ inode'["temp"]["wal"] = None /\ inode'["temp"]["last"] = None

Assembles(R, new, first) ==
    /\ new[1] = "db" /\ new \notin Named(inode)
    /\ first[1] = "first" /\ first \notin Named(inode)
    /\ Changes({new, first}) /\ InTemp(new, first)
    /\ content'[new].rows = R
    /\ R # {} => content'[new].state = "good"
    /\ inode'["temp"]["first"] = first => content'[first].state = "good"

LEMMA AssembledEffect ==
    ASSUME LayoutInv, NEW R \in SUBSET Rows, NEW m, Assembled(R, m)
    PROVE  \E new, first \in Inodes : Assembles(R, new, first)
<1>1. inode \in Names /\ content \in [Inodes -> Contents]
  BY DEF LayoutInv
<1>2. PICK new, first : new = NewInode("db") /\ first = NewInode("first")
  OBVIOUS
<1>3. /\ new \in Inodes /\ new[1] = "db" /\ new \notin Named(inode)
      /\ first \in Inodes /\ first[1] = "first" /\ first \notin Named(inode)
      /\ new # None /\ first # None /\ new # first
  BY <1>1, <1>2, NewInodeIsFree, FileFacts, NoneIsNoInode
<1>4. PICK t, b, e :
         /\ t = [NoFiles EXCEPT !["db"] = new, !["first"] = IF m THEN first ELSE None]
         /\ b = [blank EXCEPT !.rows = R, !.state = IF m \/ R # {} THEN "good" ELSE "fresh"]
         /\ e = [blank EXCEPT !.rows = R, !.state = "good", !.of = new, !.latest = TRUE]
  OBVIOUS
<1>5. PICK n, c : n = [inode EXCEPT !["temp"] = t] /\ c = [content EXCEPT ![new] = b, ![first] = e]
  OBVIOUS
<1>6. SetFiles(n, c)
  BY <1>2, <1>4, <1>5 DEF Assembled
<1>7. b \in Contents /\ b.rows = R /\ (R # {} => b.state = "good")
  BY <1>4 DEF blank, Contents
<1>8. e \in Contents /\ e.state = "good"
  BY <1>3, <1>4 DEF blank, Contents
<1>9. /\ c \in [Inodes -> Contents] /\ c[new] = b /\ c[first] = e
      /\ \A j \in Inodes : j \notin {new, first} => c[j] = content[j]
  BY <1>1, <1>3, <1>5, <1>7, <1>8
<1>10. /\ t \in [Files -> Inodes \cup {None}]
       /\ t["db"] = new /\ t["first"] \in {first, None} /\ t["wal"] = None /\ t["last"] = None
  BY <1>3, <1>4 DEF NoFiles, Files
<1>11. /\ n \in [Directories -> [Files -> Inodes \cup {None}]]
       /\ \A q \in Directories : n[q] = IF q = "temp" THEN t ELSE inode[q]
  BY <1>1, <1>5, <1>10, DirectoryFacts DEF Names
<1>12. n \in Names
  <2> SUFFICES ASSUME NEW q \in Directories, NEW g \in Files, n[q][g] # None PROVE n[q][g][1] = g
    BY <1>11 DEF Names
  <2>1. CASE q = "temp"
    BY <1>3, <1>10, <1>11, <2>1, FileFacts
  <2>2. CASE q # "temp"
    BY <1>1, <1>11, <2>2 DEF Names
  <2> QED
    BY <2>1, <2>2
<1>13. Changes({new, first}) /\ inode' = n
  BY <1>1, <1>6, <1>9, <1>12, SetFilesChanges
<1>14. InTemp(new, first)
  BY <1>10, <1>11, <1>13, DirectoryFacts DEF InTemp
<1>15. new \in Named(n) /\ (n["temp"]["first"] = first => first \in Named(n))
  BY <1>3, <1>10, <1>11, <1>12, NamedInodes, DirectoryFacts, FileFacts
<1>16. content'[new].rows = R /\ content'[new].state = b.state
  BY <1>6, <1>7, <1>9, <1>12, <1>15, SetFilesEffect
<1>17. inode'["temp"]["first"] = first => content'[first].state = "good"
  BY <1>6, <1>8, <1>9, <1>12, <1>13, <1>15, SetFilesEffect
<1>18. Assembles(R, new, first)
  BY <1>3, <1>7, <1>13, <1>14, <1>16, <1>17 DEF Assembles
<1> QED
  BY <1>3, <1>18

-----------------------------------------------------------------------------

LEMMA LifeLayout ==
    ASSUME LayoutInv, ControlInv', initialize \/ return \/ close \/ crash
    PROVE  LayoutInv'
<1>1. CASE initialize \/ return \/ close
  <2>1. UNCHANGED files /\ owed' \subseteq owed /\ step' \notin Putting
    BY <1>1 DEF initialize, return, close, LayoutInv, ControlInv, JobFits, Putting
  <2>2. HasDatabase'
    BY <1>1, <2>1 DEF initialize, return, close, LayoutInv, HasDatabase, Exists, files
  <2>3. inode' = inode /\ content' = content /\ backed' = backed
    BY <2>1 DEF files
  <2> QED
    BY <2>1, <2>2, <2>3
       DEF LayoutInv, NoLogs, BaseCleared, LogBelongs, Exists, StateOf, Database, Names
<1>2. CASE crash
  <2>1. Rearranges /\ Drops("temp", Files)
    BY <1>2, CrashDrops DEF crash, LayoutInv
  <2>2. owed' \subseteq owed /\ job' = "closed" /\ step' = "idle"
    BY <1>2 DEF crash
  <2>3. \A q \in Directories, g \in Files : inode'[q][g] \in {inode[q][g], None}
    BY <2>1 DEF Drops
  <2>4. NoLogs' /\ BaseShrinks
    BY <2>3, DirectoryFacts, FileFacts DEF LayoutInv, NoLogs, Exists, BaseShrinks
  <2>5. BaseCleared' /\ NoReturn
    BY <2>2 DEF BaseCleared, Putting, NoReturn
  <2> QED
    BY <2>1, <2>2, <2>4, <2>5, RearrangedLayout
<1> QED
  BY <1>1, <1>2

\* What a step that writes contents has to keep.
LEMMA ChangedLayout ==
    ASSUME LayoutInv, ControlInv', NEW S, Changes(S), owed' \subseteq Rows,
           step' \notin Putting, Exists("base", "db")',
           inode'["base"]["wal"] = None \/ content'[inode'["base"]["db"]].state = "fresh"
             \/ content'[inode'["base"]["wal"]].of = inode'["base"]["db"],
           \A p \in {"renew", "vacuum", "temp"} :
              inode'[p]["wal"] = None /\ inode'[p]["last"] = None
    PROVE  LayoutInv'
<1>1. inode' \in Names /\ content' \in [Inodes -> Contents] /\ backed' \subseteq Rows
  BY DEF Changes, LayoutInv
<1>2. NoLogs' /\ BaseCleared' /\ HasDatabase'
  BY DEF NoLogs, BaseCleared, HasDatabase, Exists
<1>3. LogBelongs'
  BY DEF LogBelongs, StateOf, Exists, Database
<1> QED
  BY <1>1, <1>2, <1>3 DEF LayoutInv

LEMMA NoLogsNow ==
    ASSUME LayoutInv
    PROVE  \A p \in {"renew", "vacuum", "temp"} :
              inode[p]["wal"] = None /\ inode[p]["last"] = None
BY DEF LayoutInv, NoLogs, Exists

LEMMA CreateLayout ==
    ASSUME LayoutInv, ControlInv', create
    PROVE  LayoutInv'
<1>1. CASE Rearranges /\ inode' = inode /\ (Exists("base", "db") \/ Fails)
  <2>1. owed' \subseteq Rows /\ step' \notin Putting
    BY <1>1, CreateEffect DEF Fails, Putting, LayoutInv
  <2>2. HasDatabase'
    BY <1>1, CreateEffect DEF Fails, Exists, HasDatabase
  <2>3. NoLogs' /\ BaseCleared' /\ BaseShrinks
    BY <1>1, <2>1 DEF LayoutInv, NoLogs, BaseCleared, BaseShrinks, Exists
  <2> QED
    BY <1>1, <2>1, <2>2, <2>3, RearrangedKeepsLayout
<1>2. ASSUME NEW i \in Inodes, Changes({i}), Gets("base", "db", i), content'[i].state = "fresh",
             owed' \subseteq owed, step' = "return"
      PROVE  LayoutInv'
  <2>1. inode'["base"]["db"] = i /\ Exists("base", "db")'
    BY <1>2, NoneIsNoInode, DirectoryFacts, FileFacts DEF Gets, Exists
  <2>2. \A p \in {"renew", "vacuum", "temp"} :
           inode'[p]["wal"] = None /\ inode'[p]["last"] = None
    BY <1>2, NoLogsNow, DirectoryFacts, FileFacts DEF Gets
  <2>3. step' \notin Putting /\ owed' \subseteq Rows
    BY <1>2 DEF Putting, LayoutInv
  <2> QED
    BY <1>2, <2>1, <2>2, <2>3, ChangedLayout
<1> QED
  BY <1>1, <1>2, CreateEffect

LEMMA UseLayout ==
    ASSUME LayoutInv, ControlInv', insert \/ checkpoint \/ damage \/ backup
    PROVE  LayoutInv'
<1>1. job = "open" /\ step' \notin Putting
  BY DEF insert, checkpoint, damage, backup, LayoutInv, ControlInv, JobFits, Putting
<1>2. /\ Database = inode["base"]["db"] /\ Database # None
      /\ Database \in Named(inode)
  BY <1>1, DatabaseInUse DEF Database, Exists
<1>3. CASE insert
  <2>1. PICK i \in Inodes :
           /\ Changes({i, Database}) /\ Gets("base", "wal", i) /\ content'[i].of = Database
    BY <1>3, InsertEffect
  <2>2. inode'["base"]["wal"] = i /\ inode'["base"]["db"] = Database
    BY <1>2, <2>1, DirectoryFacts, FileFacts DEF Gets
  <2>3. \A p \in {"renew", "vacuum", "temp"} :
           inode'[p]["wal"] = None /\ inode'[p]["last"] = None
    BY <2>1, NoLogsNow, DirectoryFacts, FileFacts DEF Gets
  <2>4. owed' \subseteq Rows
    BY <1>3, InsertEffect DEF LayoutInv
  <2>5. Exists("base", "db")'
    BY <1>2, <2>2 DEF Exists
  <2> QED
    BY <1>1, <2>1, <2>2, <2>3, <2>4, <2>5, ChangedLayout
<1>4. CASE checkpoint
  <2>1. Changes({Database}) /\ Gets("base", "wal", None) /\ owed' \subseteq Rows
    BY <1>4, CheckpointEffect DEF LayoutInv
  <2>2. inode'["base"]["wal"] = None /\ inode'["base"]["db"] = Database
    BY <1>2, <2>1, DirectoryFacts, FileFacts DEF Gets
  <2>3. \A p \in {"renew", "vacuum", "temp"} :
           inode'[p]["wal"] = None /\ inode'[p]["last"] = None
    BY <2>1, NoLogsNow, DirectoryFacts, FileFacts DEF Gets
  <2>5. Exists("base", "db")'
    BY <1>2, <2>2 DEF Exists
  <2> QED
    BY <1>1, <2>1, <2>2, <2>3, <2>5, ChangedLayout
<1>5. CASE damage
  <2>1. /\ Changes({Database}) /\ inode' = inode /\ owed' \subseteq Rows
        /\ content[Database].state = "good"
    BY <1>5, DamageEffect DEF LayoutInv
  <2>2. Exists("base", "db")'
    BY <1>2, <2>1 DEF Exists
  <2>3. PICK w : w = inode["base"]["wal"]
    OBVIOUS
  <2>4. w # None => content'[w].of = Database
    <3> SUFFICES ASSUME w # None PROVE content'[w].of = Database
      OBVIOUS
    <3>1. content[w].of = Database
      BY <1>2, <2>1, <2>3 DEF LayoutInv, LogBelongs, StateOf, Exists
    <3>2. w \in Named(inode) /\ w # Database
      <4>1. w \in Named(inode) /\ w[1] = "wal" /\ Database[1] = "db"
        BY <1>1, <2>3, DatabaseInUse, NamedInodes, DirectoryFacts, FileFacts DEF LayoutInv, Names
      <4> QED
        BY <4>1
    <3> QED
      BY <1>2, <2>1, <3>1, <3>2 DEF Changes, Untouched
  <2> QED
    BY <1>1, <1>2, <2>1, <2>2, <2>3, <2>4, NoLogsNow, ChangedLayout
<1>6. CASE backup
  <2>1. PICK f : f = materialForSerializing
    OBVIOUS
  <2>2. PICK i \in Inodes :
           Changes({i, inode["base"][Sibling(f)]}) /\ Gets("base", f, i) /\ i[1] = f
    <3>1. PICK i \in Inodes : Truncates(f, i)
      BY <1>6, <2>1, BackupEffect
    <3> QED
      BY <3>1 DEF Truncates
  <2>3. owed' \subseteq Rows
    BY <1>6, <2>1, BackupEffect DEF LayoutInv
  <2>4. f \in {"first", "last"} /\ f \in Files /\ Sibling(f) \in {"first", "last"}
    BY <2>1, MaterialIsFirstOrLast, FileFacts DEF Sibling
  <2>5. /\ inode'["base"]["wal"] = inode["base"]["wal"]
        /\ inode'["base"]["db"] = Database
    BY <1>2, <2>2, <2>4, DirectoryFacts, FileFacts DEF Gets
  <2>6. \A p \in {"renew", "vacuum", "temp"} :
           inode'[p]["wal"] = None /\ inode'[p]["last"] = None
    BY <2>2, NoLogsNow, DirectoryFacts, FileFacts DEF Gets
  <2>7. PICK j, w, d : j = inode["base"][Sibling(f)] /\ w = inode["base"]["wal"] /\ d = Database
    OBVIOUS
  <2>8. /\ d # i /\ d # j
        /\ w # None => w # i /\ w # j
    <3>1. /\ d[1] = "db" /\ (w # None => w[1] = "wal") /\ d # None
          /\ j # None => j[1] = Sibling(f)
      BY <1>1, <1>2, <2>4, <2>7, DatabaseInUse, DirectoryFacts, FileFacts DEF LayoutInv, Names
    <3> QED
      BY <2>2, <2>4, <3>1
  <2>9. d \in Named(inode') /\ (w # None => w \in Named(inode'))
    <3>1. PICK n : n = inode'
      OBVIOUS
    <3>2. n \in Names /\ n["base"]["db"] = d /\ n["base"]["wal"] = w
      BY <2>2, <2>5, <2>7, <3>1 DEF Changes
    <3> QED
      BY <1>2, <2>7, <3>1, <3>2, NamedInodes, DirectoryFacts, FileFacts
  <2>10. w # None => content'[d].state = "fresh" \/ content'[w].of = d
    <3> SUFFICES ASSUME w # None, content'[d].state # "fresh" PROVE content'[w].of = d
      OBVIOUS
    <3>1. content[d].state # "fresh"
      BY <2>2, <2>7, <2>8, <2>9 DEF Changes, Untouched
    <3>2. content[w].of = d
      BY <1>2, <2>7, <3>1 DEF LayoutInv, LogBelongs, StateOf, Exists
    <3> QED
      BY <2>2, <2>7, <2>8, <2>9, <3>2 DEF Changes, Untouched
  <2>11. Exists("base", "db")'
    BY <1>2, <2>5 DEF Exists
  <2> QED
    BY <1>1, <2>2, <2>3, <2>5, <2>6, <2>7, <2>10, <2>11, ChangedLayout
<1> QED
  BY <1>3, <1>4, <1>5, <1>6

LEMMA SetClockLayout ==
    ASSUME LayoutInv, ControlInv', setClock
    PROVE  LayoutInv'
<1>1. /\ step' = step /\ job' = job /\ owed' = owed /\ inode' = inode
      /\ content' \in [Inodes -> Contents] /\ backed' \in {backed, {}}
      /\ \A i \in Inodes : content'[i].state = content[i].state /\ content'[i].of = content[i].of
  BY SetClockEffect
<1>2. \A f \in Files : Exists("base", f) => inode["base"][f] \in Inodes
  BY DirectoryFacts DEF LayoutInv, Names, Exists
<1>3. LogBelongs'
  <2>1. StateOf("base")' = StateOf("base")
    BY <1>1, <1>2, FileFacts DEF StateOf, Exists
  <2>2. Exists("base", "wal") => content'[inode["base"]["wal"]].of = content[inode["base"]["wal"]].of
    BY <1>1, <1>2, FileFacts
  <2> QED
    BY <1>1, <2>1, <2>2 DEF LayoutInv, LogBelongs, Exists, Database
<1>4. NoLogs' /\ BaseCleared' /\ HasDatabase'
  BY <1>1 DEF LayoutInv, NoLogs, BaseCleared, HasDatabase, Exists
<1> QED
  BY <1>1, <1>3, <1>4 DEF LayoutInv, Names

LEMMA SerializeLayout ==
    ASSUME LayoutInv, ControlInv', NEW f \in {"first", "last"},
           NEW here \in {"serializeFirst", "serializeLast"}, serialize(f, here)
    PROVE  LayoutInv'
<1>1. /\ job' = "open" /\ step' = "idle" /\ owed' \subseteq owed /\ inode' = inode
      /\ content' \in [Inodes -> Contents] /\ backed' \subseteq Rows /\ step = here
      /\ \A i \in Inodes : i # inode["base"][f] => content'[i] = content[i]
  BY SerializeEffect
<1>2. job = "backup"
  BY <1>1 DEF LayoutInv, ControlInv, JobFits
<1>3. /\ Exists("base", "db") /\ Database \in Inodes /\ Database[1] = "db"
      /\ Database = inode["base"]["db"]
  BY <1>2, DatabaseInUse DEF Database
<1>4. inode["base"][f] # None => inode["base"][f][1] = f
  BY DirectoryFacts, FileFacts DEF LayoutInv, Names
<1>5. content'[Database] = content[Database]
  BY <1>1, <1>3, <1>4, NoneIsNoInode
<1>6. Exists("base", "wal") => content'[inode["base"]["wal"]] = content[inode["base"]["wal"]]
  <2>1. Exists("base", "wal") => inode["base"]["wal"] \in Inodes /\ inode["base"]["wal"][1] = "wal"
    BY DirectoryFacts, FileFacts DEF LayoutInv, Names, Exists
  <2> QED
    BY <1>1, <1>4, <2>1, NoneIsNoInode
<1>7. LogBelongs'
  BY <1>1, <1>3, <1>5, <1>6 DEF LayoutInv, LogBelongs, StateOf, Exists, Database
<1>8. NoLogs' /\ BaseCleared' /\ HasDatabase'
  BY <1>1, <1>3 DEF LayoutInv, NoLogs, BaseCleared, HasDatabase, Exists, Putting
<1> QED
  BY <1>1, <1>7, <1>8 DEF LayoutInv, Names

LEMMA RetrievedRows ==
    ASSUME LayoutInv
    PROVE  Retrieved \subseteq Rows /\ restore("base") \subseteq Rows
BY RowsOfFiles, DirectoryFacts DEF LayoutInv, Retrieved

\* What deposit(), retrieve() and vacuum() do before they move files.
LEMMA OperationEffect ==
    ASSUME LayoutInv, deposit \/ retrieve \/ vacuum
    PROVE  /\ job = "open" /\ owed' \subseteq owed /\ moved' = moved
           /\ \E R \in SUBSET Rows :
                 /\ \E m : Assembled(R, m)
                 /\ retrieve => R = Retrieved
                 /\ vacuum => R = restore("base")
<1>1. job = "open" /\ owed' \subseteq owed /\ moved' = moved
  BY DEF deposit, retrieve, vacuum, Begin
<1>2. CASE deposit
  <2>1. ~retrieve /\ ~vacuum
    BY <1>2 DEF deposit, retrieve, vacuum, Begin
  <2>2. PICK m : m = (\E p \in {"base"} \cup Workshops : UsableMaterials(p) # {})
    OBVIOUS
  <2>3. {} \in SUBSET Rows /\ Assembled({}, m)
    BY <1>2, <2>2 DEF deposit
  <2> QED
    BY <1>1, <2>1, <2>3
<1>3. CASE retrieve
  <2>1. ~vacuum
    BY <1>3 DEF retrieve, vacuum, Begin
  <2> QED
    BY <1>1, <1>3, <2>1, RetrievedRows DEF retrieve
<1>4. CASE vacuum
  <2>1. ~retrieve
    BY <1>4 DEF retrieve, vacuum, Begin
  <2> QED
    BY <1>1, <1>4, <2>1, RetrievedRows DEF vacuum
<1> QED
  BY <1>2, <1>3, <1>4

LEMMA OperationLayout ==
    ASSUME LayoutInv, ControlInv', deposit \/ retrieve \/ vacuum
    PROVE  LayoutInv'
<1>1. job = "open" /\ owed' \subseteq Rows /\ step' \notin Putting
  BY OperationEffect DEF LayoutInv, deposit, retrieve, vacuum, Begin, Putting
<1>2. PICK R \in SUBSET Rows : \E m : Assembled(R, m)
  BY OperationEffect
<1>3. PICK new, first \in Inodes :
         /\ new[1] = "db" /\ new \notin Named(inode)
         /\ first[1] = "first" /\ first \notin Named(inode)
         /\ Changes({new, first}) /\ InTemp(new, first)
  <2>1. PICK new, first \in Inodes : Assembles(R, new, first)
    BY <1>2, AssembledEffect
  <2> QED
    BY <2>1 DEF Assembles
<1>4. \A q \in {"base", "renew", "vacuum"}, g \in Files : inode'[q][g] = inode[q][g]
  BY <1>3, DirectoryFacts DEF InTemp
<1>5. \A p \in {"renew", "vacuum", "temp"} :
         inode'[p]["wal"] = None /\ inode'[p]["last"] = None
  BY <1>3, <1>4, NoLogsNow, FileFacts DEF InTemp
<1>6. PICK d, w : d = inode["base"]["db"] /\ w = inode["base"]["wal"]
  OBVIOUS
<1>7. inode'["base"]["db"] = d /\ inode'["base"]["wal"] = w /\ d # None
  BY <1>1, <1>4, <1>6, FileFacts, DatabaseInUse DEF Exists
<1>8. d \in Named(inode) /\ (w # None => w \in Named(inode))
  BY <1>6, <1>7, NamedInodes, DirectoryFacts, FileFacts DEF LayoutInv
<1>9. d \in Named(inode') /\ (w # None => w \in Named(inode'))
  <2>1. PICK n : n = inode'
    OBVIOUS
  <2>2. n \in Names /\ n["base"]["db"] = d /\ n["base"]["wal"] = w
    BY <1>3, <1>7, <2>1 DEF Changes
  <2> QED
    BY <1>7, <2>1, <2>2, NamedInodes, DirectoryFacts, FileFacts
<1>10. w # None => content'[d].state = "fresh" \/ content'[w].of = d
  <2> SUFFICES ASSUME w # None, content'[d].state # "fresh" PROVE content'[w].of = d
    OBVIOUS
  <2>1. content[d].state # "fresh"
    BY <1>3, <1>8, <1>9 DEF Changes, Untouched
  <2>2. content[w].of = d
    BY <1>6, <1>7, <2>1 DEF LayoutInv, LogBelongs, StateOf, Exists, Database
  <2> QED
    BY <1>3, <1>8, <1>9, <2>2 DEF Changes, Untouched
<1>11. Exists("base", "db")'
  BY <1>7 DEF Exists
<1> QED
  BY <1>1, <1>3, <1>5, <1>7, <1>10, <1>11, ChangedLayout

LEMMA RemoveDepositedLayout ==
    ASSUME LayoutInv, ControlInv', removeDeposited
    PROVE  LayoutInv'
<1>1. /\ UNCHANGED files /\ job' = "removeDeposited" /\ step' = "dropWorkshops"
      /\ owed' \subseteq owed
  BY DEF removeDeposited, Begin
<1>2. inode' = inode /\ content' = content /\ backed' = backed
  BY <1>1 DEF files
<1> QED
  BY <1>1, <1>2
     DEF LayoutInv, NoLogs, BaseCleared, HasDatabase, LogBelongs, Exists, StateOf, Database, Names,
         Putting

LEMMA LayoutStep == LayoutInv /\ [NextRepair]_repairVars => LayoutInv'
<1> SUFFICES ASSUME LayoutInv, [NextRepair]_repairVars PROVE LayoutInv'
  OBVIOUS
<1>1. CASE UNCHANGED repairVars
  BY <1>1, StutterLayout
<1>2. ControlInv'
  BY ControlStep DEF LayoutInv
<1>3. CASE Calls
  BY <1>2, <1>3, CallsLayout
<1>4. CASE serialize("first", "serializeFirst") \/ serialize("last", "serializeLast")
  BY <1>2, <1>4, SerializeLayout
<1> QED
  BY <1>1, <1>2, <1>3, <1>4, LifeLayout, CreateLayout, UseLayout, SetClockLayout, OperationLayout,
     RemoveDepositedLayout
     DEF NextRepair, Calls

\* The layout of the directories is an invariant, whatever fails.
THEOREM LayoutSafe == SpecRepair => []LayoutInv
BY InitLayout, LayoutStep, PTL DEF SpecRepair

\* No database is opened with the log of another one, whatever calls fail
\* and wherever the process ends.
THEOREM FilesBelong == SpecRepair => []FilesBelongTogether
BY LayoutSafe, LayoutImplies, PTL

-----------------------------------------------------------------------------
(* The list of moved files                                                 *)

Moving == Putting \cup {"fillRenew", "fillVacuum", "depositBase"}

\* recovers is empty when moveItems() begins.
MovedInv == step \notin Moving => moved = {}

LEMMA RemovalMovesNothing ==
    ASSUME MovedInv, NEW here, here \notin Moving, NEW next, NEW p, NEW reversed,
           removeItems(here, p, reversed, next) \/ removeDirectories(here, p, next)
    PROVE  MovedInv'
BY DEF MovedInv, removeItems, removeDirectories, Fails

LEMMA MoveEnds ==
    ASSUME MovedInv, NEW here, here \in Moving, NEW next, NEW p, NEW q, NEW reversed,
           moveItems(here, p, q, reversed, next)
    PROVE  MovedInv'
BY DEF MovedInv, moveItems, itemExistsFails, Fails, Continues

LEMMA CallsMoved ==
    ASSUME MovedInv, Calls
    PROVE  MovedInv'
<1> USE DEF Moving, Putting
<1>1. CASE takeVacuum \/ takeRenew
  BY <1>1 DEF takeVacuum, takeRenew, Fails, MovedInv
<1>2. CASE TakeOver /\ ~takeVacuum /\ ~takeRenew
  BY <1>2, RemovalMovesNothing, MoveEnds DEF TakeOver, ClearBase
<1>3. CASE Prepare
  BY <1>3, RemovalMovesNothing, MoveEnds DEF Prepare
<1>4. CASE depositor
  BY <1>4, RemovalMovesNothing, MoveEnds DEF depositor
<1>5. CASE UseRestored
  BY <1>5, RemovalMovesNothing, MoveEnds DEF UseRestored
<1>6. CASE removeDirectories("dropWorkshops", Workshops, "return")
  BY <1>6, RemovalMovesNothing
<1> QED
  BY <1>1, <1>2, <1>3, <1>4, <1>5, <1>6 DEF Calls

LEMMA MovedStep == LayoutInv /\ MovedInv /\ [NextRepair]_repairVars => MovedInv'
<1> SUFFICES ASSUME LayoutInv, MovedInv, [NextRepair]_repairVars PROVE MovedInv'
  OBVIOUS
<1>1. CASE UNCHANGED repairVars
  BY <1>1 DEF repairVars, MovedInv
<1>2. CASE Calls
  BY <1>2, CallsMoved
<1>3. CASE initialize \/ return \/ close \/ crash \/ create
  BY <1>3 DEF initialize, return, close, crash, create, Fails, MovedInv, LayoutInv, ControlInv,
              JobFits, Moving, Putting
<1>4. \/ step \notin Moving /\ moved' = moved
      \/ Calls \/ UNCHANGED repairVars \/ initialize \/ return \/ close \/ crash \/ create
  <2>1. CASE \/ insert \/ checkpoint \/ damage \/ setClock \/ backup
             \/ deposit \/ retrieve \/ vacuum \/ removeDeposited
    BY <2>1 DEF insert, checkpoint, damage, setClock, backup, deposit, retrieve, vacuum, removeDeposited,
                Begin, LayoutInv, ControlInv, JobFits, Moving, Putting
  <2>2. CASE serialize("first", "serializeFirst") \/ serialize("last", "serializeLast")
    BY <2>2 DEF serialize, Moving, Putting
  <2> QED
    BY <2>1, <2>2 DEF NextRepair, Calls
<1> QED
  BY <1>1, <1>2, <1>3, <1>4 DEF MovedInv

-----------------------------------------------------------------------------
(* The materials of the database in use                                    *)

Materials == {"first", "last"}

FullAt(f) == Exists("base", f) /\ content[inode["base"][f]].state # "fresh"
GoodAt(f) == Exists("base", f) /\ content[inode["base"][f]].state = "good"
LatestAt(f) == Exists("base", f) /\ content[inode["base"][f]].latest
AheadAt(f) == Exists("base", f) /\ content[inode["base"][f]].ahead

\* The other material is empty, or it is older.
Prevails(f) ==
    \/ ~FullAt(Sibling(f))
    \/ LatestAt(f) /\ ~LatestAt(Sibling(f)) /\ ~AheadAt(Sibling(f))

\* The material f of the database in use names the rows of the last completed
\* backup, and retrieve() will choose it.
Holds(f) ==
    /\ GoodAt(f) /\ ~AheadAt(f)
    /\ content[inode["base"][f]].of = Database
    /\ backed \subseteq content[inode["base"][f]].rows
    /\ Prevails(f)

\* The material f has been truncated for a backup.
Writing(f) ==
    /\ Exists("base", f) /\ ~AheadAt(f)
    /\ Behind(f) \/ (LatestAt(f) /\ ~LatestAt(Sibling(f)))

\* A material holds the last completed backup.
BackInv ==
    /\ backed # {} => Exists("base", "db") /\ \E f \in Materials : Holds(f)
    /\ step \in Putting => backed = {}
    /\ step = "serializeFirst" => Writing("first")
    /\ step = "serializeLast" => Writing("last")
    /\ ByRename /\ step = "depositBase" /\ "db" \in moved => backed = {}

LEMMA Siblings ==
    \A f \in Materials : /\ f \in Files /\ Sibling(f) \in Materials /\ Sibling(f) \in Files
                         /\ f # Sibling(f) /\ Sibling(Sibling(f)) = f
                         /\ \A g \in Materials : g = f \/ g = Sibling(f)
BY FileFacts DEF Materials, Sibling

LEMMA BehindIs ==
    \A f \in Materials : Behind(f) <=> FullAt(Sibling(f)) /\ AheadAt(Sibling(f))
BY DEF Behind, materialsForDeserializing, FullAt, AheadAt, Materials, Sibling

LEMMA BehindIsAfter ==
    \A f \in Materials : Behind(f)' <=> (FullAt(Sibling(f)) /\ AheadAt(Sibling(f)))'
BY DEF Behind, materialsForDeserializing, FullAt, AheadAt, Materials, Sibling

LEMMA BackImplies == BackInv => BackupSurvives
<1> SUFFICES ASSUME BackInv, backed # {}
             PROVE  Exists("base", "db") /\ backed \subseteq MaterialRows("base")
  BY DEF BackupSurvives
<1>1. PICK f \in Materials : Holds(f)
  BY DEF BackInv
<1>2. \A g \in Materials : g = f \/ g = Sibling(f)
  BY Siblings
<1>3. f \in UsableMaterials("base")
  BY <1>1, <1>2
     DEF UsableMaterials, materialsForDeserializing, Materials, Holds, Prevails, GoodAt, FullAt, LatestAt
<1>4. backed \subseteq content[inode["base"][f]].rows /\ content[inode["base"][f]].of = inode["base"]["db"]
  BY <1>1 DEF Holds, Database
<1> QED
  BY <1>3, <1>4 DEF MaterialRows, BackInv

LEMMA InitBack == InitRepair => BackInv
BY DEF InitRepair, BackInv, Putting

\* As long as a backup counts, its database and both materials stay.
KeepsMaterials ==
    backed' # {} =>
        \A f \in {"db", "first", "last"} : inode'["base"][f] = inode["base"][f]

\* The step does not write to the materials of base.
MaterialsUntouched ==
    /\ inode' \in Names
    /\ \A f \in Materials : inode'["base"][f] # None => Untouched(inode'["base"][f])

LEMMA RearrangesMaterials == Rearranges => MaterialsUntouched
<1> SUFFICES ASSUME Rearranges, NEW f \in Materials, inode'["base"][f] # None
             PROVE  Untouched(inode'["base"][f])
  BY DEF MaterialsUntouched, Rearranges
<1>1. PICK n, i : n = inode' /\ i = n["base"][f]
  OBVIOUS
<1>2. n \in Names /\ f \in Files
  BY <1>1, FileFacts DEF Rearranges, Materials
<1>3. i \in Named(n)
  BY <1>1, <1>2, NamedInodes, DirectoryFacts
<1> QED
  BY <1>1, <1>3 DEF Rearranges

LEMMA KeptMaterialHolds ==
    ASSUME inode \in Names, MaterialsUntouched, NEW f \in Materials, Holds(f), Exists("base", "db"),
           backed' = backed,
           \A g \in {"db", "first", "last"} : inode'["base"][g] = inode["base"][g]
    PROVE  Holds(f)'
<1>1. f \in Files /\ Sibling(f) \in Files /\ Sibling(f) \in Materials
  BY Siblings
<1>2. PICK n, d, i, j :
         n = inode' /\ d = n["base"]["db"] /\ i = n["base"][f] /\ j = n["base"][Sibling(f)]
  OBVIOUS
<1>3. d = inode["base"]["db"] /\ i = inode["base"][f] /\ j = inode["base"][Sibling(f)]
  BY <1>1, <1>2 DEF Materials
<1>4. i # None /\ d # None
  BY <1>3 DEF Holds, GoodAt, Exists
<1>5. i \in Named(n) /\ d \in Named(n) /\ (j # None => j \in Named(n))
  <2>1. n \in Names
    BY <1>2 DEF MaterialsUntouched
  <2> QED
    BY <1>1, <1>2, <1>4, <2>1, NamedInodes, DirectoryFacts, FileFacts
<1>6. Untouched(i) /\ (j # None => Untouched(j))
  BY <1>1, <1>2, <1>4 DEF MaterialsUntouched
<1>7. /\ content'[i].state = "good" /\ content'[i].of = d /\ backed \subseteq content'[i].rows
      /\ ~content'[i].ahead
  BY <1>2, <1>3, <1>5, <1>6 DEF Holds, GoodAt, AheadAt, Database, Untouched
<1>8. \/ j = None \/ content'[j].state = "fresh"
      \/ content'[i].latest /\ ~content'[j].latest /\ ~content'[j].ahead
  BY <1>3, <1>6 DEF Holds, Prevails, LatestAt, AheadAt, FullAt, Exists, Untouched
<1>9. Prevails(f)'
  BY <1>2, <1>4, <1>8 DEF Prevails, FullAt, LatestAt, AheadAt, Exists
<1> QED
  BY <1>2, <1>4, <1>7, <1>9 DEF Holds, GoodAt, AheadAt, Exists, Database

LEMMA RearrangedBack ==
    ASSUME LayoutInv, BackInv, Rearranges, KeepsMaterials,
           step' \in Putting => backed' = {},
           step' \notin {"serializeFirst", "serializeLast"},
           ByRename /\ step' = "depositBase" /\ "db" \in moved' => backed' = {}
    PROVE  BackInv'
<1>1. ASSUME backed' # {} PROVE Exists("base", "db")' /\ \E f \in Materials : Holds(f)'
  <2>1. backed' = backed
    BY <1>1 DEF Rearranges
  <2>2. \A g \in {"db", "first", "last"} : inode'["base"][g] = inode["base"][g]
    BY <1>1 DEF KeepsMaterials
  <2>3. PICK f \in Materials : Holds(f)
    BY <1>1, <2>1 DEF BackInv
  <2>4. Exists("base", "db")
    BY <1>1, <2>1 DEF BackInv
  <2>5. Holds(f)'
    BY <2>1, <2>2, <2>3, <2>4, KeptMaterialHolds, RearrangesMaterials DEF LayoutInv
  <2> QED
    BY <2>2, <2>4, <2>5 DEF Exists
<1> QED
  BY <1>1 DEF BackInv

\* Forwards, the database is the first of the files that are there.
LEMMA DatabaseLeads ==
    ASSUME NEW f \in Files, NEW fs, Leads(f, fs, FALSE), "db" \in fs
    PROVE  f = "db"
BY FileFacts DEF Leads, associatedPathsForDatabase

LEMMA NoSerializing ==
    ASSUME ControlInv', NoReturn
    PROVE  step' \notin {"serializeFirst", "serializeLast"}
BY DEF ControlInv, JobFits, NoReturn

LEMMA RemoveItemsBack ==
    ASSUME LayoutInv, BackInv, ControlInv', NoReturn,
           NEW p \in Directories, NEW here, NEW next, NEW reversed,
           removeItems(here, p, reversed, next),
           here \notin Moving, next # "depositBase",
           next \in Putting => p = "base",
           p = "base" => reversed = FALSE
    PROVE  BackInv'
<1>1. Rearranges /\ step' \notin {"serializeFirst", "serializeLast"}
  BY RemoveItemsEffect, NoSerializing
<1>2. \A r \in Directories, g \in Files :
         inode'[r][g] = inode[r][g] \/ (r = p /\ inode'[r][g] = None)
  BY RemoveItemsEffect DEF Drops
<1>6. KeepsMaterials
  <2>1. CASE inode' = inode \/ p # "base"
    BY <1>2, <2>1, DirectoryFacts, FileFacts DEF KeepsMaterials
  <2>2. ASSUME p = "base", NEW f \in Files, Leads(f, Present("base"), FALSE), Drops("base", {f})
        PROVE  KeepsMaterials
    <3> SUFFICES ASSUME backed' # {} PROVE FALSE
      BY DEF KeepsMaterials
    <3>1. backed # {} /\ inode'["base"]["db"] = inode["base"]["db"]
      BY <1>1 DEF Rearranges
    <3>2. Exists("base", "db")
      BY <3>1 DEF BackInv
    <3>3. f = "db"
      BY <2>2, <3>2, DatabaseLeads, FileFacts DEF Present
    <3>4. inode'["base"]["db"] = None
      BY <2>2, <3>3, DirectoryFacts, FileFacts DEF Drops
    <3> QED
      BY <3>1, <3>2, <3>4 DEF Exists
  <2> QED
    BY <2>1, <2>2, RemoveItemsEffect
<1>7. step' \in Putting => backed' = {}
  <2> SUFFICES ASSUME step' \in Putting PROVE backed' = {}
    OBVIOUS
  <2>1. step' = next /\ Present(p) = {}
    BY RemoveItemsEffect DEF Fails, Putting, Moving
  <2>2. ~Exists("base", "db")
    BY <2>1, FileFacts DEF Present
  <2>3. backed = {}
    BY <2>2 DEF BackInv
  <2> QED
    BY <1>1, <2>3 DEF Rearranges
<1>8. step' # "depositBase"
  BY RemoveItemsEffect DEF Fails, Moving
<1> QED
  BY <1>1, <1>6, <1>7, <1>8, RearrangedBack

LEMMA RemoveDirectoriesBack ==
    ASSUME LayoutInv, BackInv, MovedInv, ControlInv', NoReturn,
           NEW ps \in SUBSET Directories, NEW here, NEW next,
           removeDirectories(here, ps, next),
           "base" \notin ps, here \notin Moving, next \notin Putting
    PROVE  BackInv'
<1>1. Rearranges /\ Clears(ps) /\ step' = next /\ moved' = {} /\ step' \notin {"serializeFirst", "serializeLast"}
  BY RemoveDirectoriesClears, NoSerializing DEF LayoutInv, removeDirectories, MovedInv
<1>2. \A r \in Directories, g \in Files :
         inode'[r][g] = inode[r][g] \/ (r \in ps /\ inode'[r][g] = None)
  BY <1>1 DEF Clears
<1>3. \A f \in Files : inode'["base"][f] = inode["base"][f]
  BY <1>2, DirectoryFacts
<1>4. KeepsMaterials
  BY <1>3, FileFacts DEF KeepsMaterials
<1> QED
  BY <1>1, <1>4, RearrangedBack

LEMMA MoveItemsBack ==
    ASSUME LayoutInv, BackInv, ControlInv', NoReturn, LayoutInv', NEW p, NEW q,
           NEW here, NEW next, NEW reversed,
           moveItems(here, p, q, reversed, next),
           MoveFits(here, p, q, next),
           p = "base" => reversed = FALSE,
           p = "base" <=> here = "depositBase",
           next # "depositBase"
    PROVE  BackInv'
<1>0. /\ p \in Directories /\ q \in Directories /\ p # q
      /\ p \in {"renew", "vacuum", "temp"} \/ (p = "base" /\ q \in Workshops)
      /\ q = "base" <=> here \in Putting
      /\ next \notin Putting
  BY DEF MoveFits
<1>1. Rearranges /\ step = here /\ step' \notin {"serializeFirst", "serializeLast"}
  BY <1>0, MoveItemsEffect, NoSerializing
<1>3. CASE q = "base"
  <2>1. backed = {} /\ backed' = {}
    BY <1>0, <1>1, <1>3 DEF BackInv, Rearranges
  <2> QED
    BY <1>1, <2>1, RearrangedBack DEF KeepsMaterials
<1>4. CASE q # "base"
  <2>1. step' \notin Putting
    BY <1>0, <1>4, MoveItemsEffect DEF Fails, Putting
  <2>2. \A f \in Files : \/ inode'["base"][f] = inode["base"][f]
                         \/ p = "base" /\ inode'["base"][f] = None
    <3>1. ASSUME NEW f \in Files, Links(p, q, f)
          PROVE  \A g \in Files : \/ inode'["base"][g] = inode["base"][g]
                                  \/ p = "base" /\ inode'["base"][g] = None
      BY <1>4, <3>1, DirectoryFacts DEF Links
    <3>2. ASSUME NEW fs, Drops(q, fs)
          PROVE  \A g \in Files : inode'["base"][g] = inode["base"][g]
      BY <1>4, <3>2, DirectoryFacts DEF Drops
    <3> QED
      BY <1>0, <3>1, <3>2, MoveItemsEffect
  <2>4. CASE p # "base"
    <3>1. KeepsMaterials
      BY <2>2, <2>4, FileFacts DEF KeepsMaterials
    <3>2. step' # "depositBase"
      <4>1. here # "depositBase" /\ next # "depositBase"
        BY <2>4
      <4>2. step' \in {here, next, "dropVacuum", "return"}
        BY <1>0, MoveItemsEffect DEF Fails
      <4> QED
        BY <4>1, <4>2
    <3> QED
      BY <1>1, <2>1, <3>1, <3>2, RearrangedBack
  <2>5. CASE p = "base"
    <3>1. ASSUME NEW f \in Files, Leads(f, Present("base") \ moved, FALSE), Links("base", q, f),
                 moved' = moved \cup {f}
          PROVE  /\ KeepsMaterials
                 /\ ByRename /\ "db" \in moved' => backed' = {}
      <4>1. CASE ~ByRename
        <5>1. \A g \in Files : inode'["base"][g] = inode["base"][g]
          BY <1>4, <3>1, <4>1, DirectoryFacts DEF Links
        <5> QED
          BY <4>1, <5>1, FileFacts DEF KeepsMaterials
      <4>2. CASE ByRename
        <5>1. CASE backed = {}
          BY <1>1, <5>1 DEF Rearranges, KeepsMaterials
        <5>2. CASE backed # {}
          <6>1. "db" \notin moved /\ Exists("base", "db")
            BY <1>1, <2>5, <4>2, <5>2 DEF BackInv
          <6>2. f = "db"
            BY <3>1, <6>1, DatabaseLeads, FileFacts DEF Present
          <6>3. inode'["base"]["db"] = None
            BY <1>4, <3>1, <4>2, <6>2, DirectoryFacts, FileFacts DEF Links
          <6>4. backed' = {}
            BY <1>1, <6>1, <6>3 DEF Rearranges, Exists
          <6> QED
            BY <6>4 DEF KeepsMaterials
        <5> QED
          BY <5>1, <5>2
      <4> QED
        BY <4>1, <4>2
    <3>2. CASE inode' = inode /\ step' = next
      BY <1>1, <2>1, <3>2, RearrangedBack DEF KeepsMaterials
    <3>3. ASSUME NEW fs, Drops(q, fs), Fails PROVE BackInv'
      <4>1. KeepsMaterials
        BY <1>4, <3>3, DirectoryFacts, FileFacts DEF Drops, KeepsMaterials
      <4>2. step' # "depositBase"
        BY <3>3 DEF Fails
      <4> QED
        BY <1>1, <2>1, <4>1, <4>2, RearrangedBack
    <3>4. ASSUME NEW f \in Files, Leads(f, Present("base") \ moved, FALSE), Links("base", q, f),
                 moved' = moved \cup {f}
          PROVE  BackInv'
      BY <1>1, <2>1, <3>1, <3>4, RearrangedBack
    <3> QED
      BY <1>0, <2>5, <3>2, <3>3, <3>4, MoveItemsEffect
  <2> QED
    BY <2>4, <2>5
<1> QED
  BY <1>3, <1>4

LEMMA TakeBack ==
    ASSUME LayoutInv, BackInv, ControlInv', NoReturn, takeVacuum \/ takeRenew
    PROVE  BackInv'
<1>1. UNCHANGED files /\ step' \notin Putting /\ step' # "depositBase"
  BY DEF takeVacuum, takeRenew, Fails, Continues, Putting, AfterRenew
<1>2. Rearranges /\ inode' = inode
  BY <1>1, UnchangedRearranges DEF LayoutInv
<1>3. KeepsMaterials
  BY <1>2 DEF KeepsMaterials
<1>4. step' \notin {"serializeFirst", "serializeLast"}
  BY NoSerializing
<1> QED
  BY <1>1, <1>2, <1>3, <1>4, RearrangedBack

LEMMA CallsBack ==
    ASSUME LayoutInv, BackInv, MovedInv, LayoutInv', Calls
    PROVE  BackInv'
<1>1. ControlInv' /\ NoReturn
  BY CallsDoNotReturn DEF LayoutInv
<1>2. CASE takeVacuum \/ takeRenew
  BY <1>1, <1>2, TakeBack
<1> USE DirectoryFacts DEF Putting, Moving
<1>3. CASE ClearBase("clearForVacuum", "putVacuum") \/ ClearBase("clearForRenew", "putRenew")
  BY <1>1, <1>3, RemoveItemsBack DEF ClearBase
<1>4. CASE moveItems("putVacuum", "vacuum", "base", TRUE, "emptyVacuum")
  BY <1>1, <1>4, MovesFit, MoveItemsBack
<1>5. CASE \/ removeItems("emptyVacuum", "vacuum", TRUE, "dropVacuum")
           \/ removeItems("emptyRenew", "renew", TRUE, "dropRenew")
           \/ removeItems("clearRenew", "renew", TRUE, "fillRenew")
           \/ removeItems("clearVacuum", "vacuum", TRUE, "fillVacuum")
           \/ removeItems("emptyTemp", "temp", TRUE, "dropTemp")
           \/ removeItems("emptyTemp", "temp", FALSE, "discard")
           \/ removeItems("emptyTemp", "temp", FALSE, "return")
  BY <1>1, <1>5, RemoveItemsBack
<1>6. CASE removeDirectories("dropVacuum", {"vacuum"}, AfterVacuum)
  BY <1>1, <1>6, RemoveDirectoriesBack DEF AfterVacuum
<1>7. CASE moveItems("putRenew", "renew", "base", TRUE, "emptyRenew")
  BY <1>1, <1>7, MovesFit, MoveItemsBack
<1>8. CASE removeDirectories("dropRenew", {"renew"}, AfterRenew)
  BY <1>1, <1>8, RemoveDirectoriesBack DEF AfterRenew
<1>9. CASE \/ moveItems("fillRenew", "temp", "renew", TRUE, "emptyTemp")
           \/ moveItems("fillVacuum", "temp", "vacuum", TRUE, "emptyTemp")
  BY <1>1, <1>9, MovesFit, MoveItemsBack
<1>10. CASE removeDirectories("dropTemp", {"temp"},
                              IF job = "vacuum" THEN "removeBase" ELSE "depositBase")
  BY <1>1, <1>10, RemoveDirectoriesBack
<1>11. CASE \/ removeItems("removeBase", "base", FALSE, "takeVacuum")
            \/ removeItems("emptyBase", "base", FALSE, "takeRenew")
            \/ removeItems("emptyBase", "base", FALSE, "putTemp")
  BY <1>1, <1>11, RemoveItemsBack
<1>12. CASE moveItems("depositBase", "base", shop, FALSE, "emptyBase")
  <2>1. shop \in Workshops
    BY <1>12 DEF moveItems, LayoutInv, ControlInv, JobFits
  <2>2. MoveFits("depositBase", "base", shop, "emptyBase")
    BY <2>1, MovesFit
  <2> QED
    BY <1>1, <1>12, <2>2, MoveItemsBack
<1>13. CASE moveItems("putTemp", "temp", "base", FALSE, "emptyTemp")
  BY <1>1, <1>13, MovesFit, MoveItemsBack
<1>14. CASE \/ removeDirectories("discard", {"renew", "vacuum"} \cup Workshops, "return")
            \/ removeDirectories("dropWorkshops", Workshops, "return")
  BY <1>1, <1>14, RemoveDirectoriesBack
<1> QED
  BY <1>2, <1>3, <1>4, <1>5, <1>6, <1>7, <1>8, <1>9, <1>10, <1>11, <1>12, <1>13, <1>14
     DEF Calls, TakeOver, Prepare, depositor, UseRestored

\* A step that does not write to the materials of base.
LEMMA ChangedBack ==
    ASSUME LayoutInv, BackInv, NEW S, Changes(S), MaterialsUntouched,
           \A f \in {"db", "first", "last"} : inode'["base"][f] = inode["base"][f],
           step' \notin Putting, step' \notin {"serializeFirst", "serializeLast"}, "db" \notin moved'
    PROVE  BackInv'
<1>1. backed' = backed
  BY DEF Changes
<1>2. ASSUME backed' # {} PROVE Exists("base", "db")' /\ \E f \in Materials : Holds(f)'
  <2>1. PICK f \in Materials : Holds(f)
    BY <1>1, <1>2 DEF BackInv
  <2>2. Exists("base", "db")
    BY <1>1, <1>2 DEF BackInv
  <2>3. Holds(f)'
    BY <1>1, <2>1, <2>2, KeptMaterialHolds DEF LayoutInv
  <2> QED
    BY <2>2, <2>3 DEF Exists
<1> QED
  BY <1>2 DEF BackInv

\* A step that writes to no material at all.
LEMMA NoMaterialWritten ==
    ASSUME LayoutInv, BackInv, NEW S, Changes(S), \A i \in S : i[1] \notin Materials,
           \A p \in Directories, f \in Materials : inode'[p][f] = inode[p][f]
    PROVE  MaterialsUntouched
<1>1. PICK n : n = inode'
  OBVIOUS
<1>2. n \in Names
  BY <1>1 DEF Changes
<1>3. ASSUME NEW p \in Directories, NEW f \in Materials, n[p][f] # None
      PROVE  Untouched(n[p][f])
  <2>1. f \in Files
    BY FileFacts DEF Materials
  <2>2. n[p][f] \in Named(n) /\ n[p][f][1] = f
    BY <1>2, <1>3, <2>1, NamedInodes DEF Names
  <2>3. n[p][f] \notin S
    BY <2>2
  <2> QED
    BY <1>1, <2>2, <2>3 DEF Changes
<1> QED
  BY <1>1, <1>2, <1>3, DirectoryFacts DEF MaterialsUntouched

LEMMA UseBack ==
    ASSUME LayoutInv, BackInv, MovedInv, insert \/ checkpoint \/ damage
    PROVE  BackInv'
<1>1. /\ job = "open" /\ step' = step /\ moved' = moved
      /\ step = "idle" /\ moved = {}
  BY DEF insert, checkpoint, damage, LayoutInv, ControlInv, JobFits, MovedInv, Moving, Putting
<1>2. Database[1] = "db"
  BY <1>1, DatabaseInUse
<1>3. PICK S : /\ Changes(S) /\ \A i \in S : i[1] \notin Materials
               /\ \A p \in Directories, f \in Files : f # "wal" => inode'[p][f] = inode[p][f]
  <2>1. CASE insert
    <3>1. PICK i \in Inodes : i[1] = "wal" /\ Changes({i, Database}) /\ Gets("base", "wal", i)
      BY <2>1, InsertEffect
    <3>2. \A j \in {i, Database} : j[1] \notin Materials
      BY <1>2, <3>1 DEF Materials
    <3>3. \A p \in Directories, f \in Files : f # "wal" => inode'[p][f] = inode[p][f]
      BY <3>1 DEF Gets
    <3> QED
      BY <3>1, <3>2, <3>3
  <2>2. CASE checkpoint
    <3>1. Changes({Database}) /\ Gets("base", "wal", None)
      BY <2>2, CheckpointEffect
    <3>2. \A j \in {Database} : j[1] \notin Materials
      BY <1>2 DEF Materials
    <3>3. \A p \in Directories, f \in Files : f # "wal" => inode'[p][f] = inode[p][f]
      BY <3>1 DEF Gets
    <3> QED
      BY <3>1, <3>2, <3>3
  <2>3. CASE damage
    <3>1. Changes({Database}) /\ inode' = inode
      BY <2>3, DamageEffect
    <3>2. \A j \in {Database} : j[1] \notin Materials
      BY <1>2 DEF Materials
    <3> QED
      BY <3>1, <3>2
  <2> QED
    BY <2>1, <2>2, <2>3
<1>4. \A p \in Directories, f \in Materials : inode'[p][f] = inode[p][f]
  BY <1>3, FileFacts DEF Materials
<1>5. MaterialsUntouched
  BY <1>3, <1>4, NoMaterialWritten
<1>6. \A f \in {"db", "first", "last"} : inode'["base"][f] = inode["base"][f]
  BY <1>3, FileFacts, DirectoryFacts
<1> QED
  BY <1>1, <1>3, <1>5, <1>6, ChangedBack DEF Putting

LEMMA OperationBack ==
    ASSUME LayoutInv, BackInv, MovedInv, deposit \/ retrieve \/ vacuum
    PROVE  BackInv'
<1>1. /\ job = "open" /\ moved' = moved
      /\ step' \notin Putting /\ step' \notin {"serializeFirst", "serializeLast"}
  BY DEF deposit, retrieve, vacuum, Begin, Putting
<1>2. moved' = {}
  BY <1>1 DEF LayoutInv, ControlInv, JobFits, MovedInv, Moving, Putting
<1>3. PICK R \in SUBSET Rows : \E m : Assembled(R, m)
  BY OperationEffect
<1>4. PICK new, first \in Inodes :
         /\ new[1] = "db" /\ new \notin Named(inode)
         /\ first[1] = "first" /\ first \notin Named(inode)
         /\ Changes({new, first}) /\ InTemp(new, first)
  <2>1. PICK new, first \in Inodes : Assembles(R, new, first)
    BY <1>3, AssembledEffect
  <2> QED
    BY <2>1 DEF Assembles
<1>5. \A p \in Directories, f \in Files : p # "temp" => inode'[p][f] = inode[p][f]
  BY <1>4 DEF InTemp
<1>6. PICK n : n = inode'
  OBVIOUS
<1>7. n \in Names
  BY <1>4, <1>6 DEF Changes
<1>8. ASSUME NEW p \in Directories, NEW f \in Files, p # "temp", n[p][f] # None
      PROVE  Untouched(n[p][f]) /\ n[p][f] = inode[p][f]
  <2>1. n[p][f] \in Named(n) /\ n[p][f] = inode[p][f]
    BY <1>5, <1>6, <1>7, <1>8, NamedInodes
  <2>2. n[p][f] \in Named(inode)
    BY <1>8, <2>1, NamedInodes DEF LayoutInv
  <2> QED
    BY <1>4, <1>6, <2>1, <2>2 DEF Changes
<1>9. MaterialsUntouched
  BY <1>6, <1>7, <1>8, DirectoryFacts, FileFacts DEF MaterialsUntouched, Materials
<1>10. \A f \in {"db", "first", "last"} : inode'["base"][f] = inode["base"][f]
  BY <1>5, FileFacts, DirectoryFacts
<1> QED
  BY <1>1, <1>2, <1>4, <1>9, <1>10, ChangedBack

LEMMA SameNamesBack ==
    ASSUME LayoutInv, BackInv, Rearranges, inode' = inode,
           step' \notin Putting, step' \notin {"serializeFirst", "serializeLast"},
           step' # "depositBase"
    PROVE  BackInv'
<1>1. KeepsMaterials
  BY DEF KeepsMaterials
<1> QED
  BY <1>1, RearrangedBack

LEMMA LifeBack ==
    ASSUME LayoutInv, BackInv, initialize \/ return \/ close \/ crash \/ removeDeposited
    PROVE  BackInv'
<1>1. /\ step' \notin Putting /\ step' \notin {"serializeFirst", "serializeLast"}
      /\ step' # "depositBase"
  BY DEF initialize, return, close, crash, removeDeposited, Begin, Putting, LayoutInv, ControlInv,
         JobFits
<1>2. CASE initialize \/ return \/ close \/ removeDeposited
  <2>1. Rearranges /\ inode' = inode
    BY <1>2, UnchangedRearranges DEF initialize, return, close, removeDeposited, LayoutInv
  <2> QED
    BY <1>1, <2>1, SameNamesBack
<1>3. CASE crash
  <2>1. Rearranges /\ Drops("temp", Files)
    BY <1>3, CrashDrops DEF crash, LayoutInv
  <2>2. \A f \in Files : inode'["base"][f] = inode["base"][f]
    BY <2>1, DirectoryFacts DEF Drops
  <2>3. KeepsMaterials
    BY <2>2, FileFacts DEF KeepsMaterials
  <2> QED
    BY <1>1, <2>1, <2>3, RearrangedBack
<1> QED
  BY <1>2, <1>3

LEMMA CreateBack ==
    ASSUME LayoutInv, BackInv, create
    PROVE  BackInv'
<1>1. step' \in {"return", "dropVacuum"}
  BY CreateEffect DEF Fails
<1>2. CASE Rearranges /\ inode' = inode
  BY <1>1, <1>2, SameNamesBack DEF Putting
<1>3. ASSUME ~Exists("base", "db"), NEW i \in Inodes, i[1] = "db", Changes({i}),
             Gets("base", "db", i)
      PROVE  BackInv'
  <2>1. backed' = {}
    BY <1>3 DEF BackInv, Changes
  <2> QED
    BY <1>1, <2>1 DEF BackInv, Putting
<1> QED
  BY <1>2, <1>3, CreateEffect

\* A backup does not begin with the material that holds the last one.
LEMMA HolderStays ==
    ASSUME NEW f \in Materials, Holds(f)
    PROVE  materialForSerializing = Sibling(f)
<1>1. f \in materialsForDeserializing("base") /\ ~content[inode["base"][f]].ahead
  BY DEF Holds, GoodAt, AheadAt, materialsForDeserializing, Materials
<1>2. \/ Sibling(f) \notin materialsForDeserializing("base")
      \/ /\ content[inode["base"][f]].latest
         /\ ~content[inode["base"][Sibling(f)]].latest /\ ~content[inode["base"][Sibling(f)]].ahead
  BY DEF Holds, Prevails, LatestAt, AheadAt, FullAt, materialsForDeserializing
<1>3. CASE f = "first"
  <2>1. Sibling(f) = "last"
    BY <1>3 DEF Sibling
  <2> QED
    BY <1>1, <1>2, <1>3, <2>1 DEF materialForSerializing
<1>4. CASE f = "last"
  <2>1. Sibling(f) = "first"
    BY <1>4 DEF Sibling
  <2> QED
    BY <1>1, <1>2, <1>4, <2>1 DEF materialForSerializing
<1> QED
  BY <1>3, <1>4 DEF Materials

LEMMA BackupBack ==
    ASSUME LayoutInv, BackInv, backup
    PROVE  BackInv'
<1>1. PICK f : f = materialForSerializing
  OBVIOUS
<1>2. PICK i \in Inodes : Truncates(f, i)
  BY <1>1, BackupEffect
<1>3. /\ f \in Materials /\ Sibling(f) \in Materials /\ f # Sibling(f) /\ Sibling(Sibling(f)) = f
      /\ f \in Files /\ Sibling(f) \in Files
  BY <1>1, MaterialIsFirstOrLast, Siblings DEF Materials
<1>4. /\ job = "open"
      /\ step' = IF f = "first" THEN "serializeFirst" ELSE "serializeLast"
  BY <1>1, BackupEffect
<1>5. PICK n, d, j : n = inode' /\ d = inode["base"]["db"] /\ j = inode["base"][Sibling(f)]
  OBVIOUS
<1>6. /\ n \in Names /\ Changes({i, j}) /\ Gets("base", f, i) /\ i[1] = f
      /\ content'[i].state = "fresh" /\ ~content'[i].ahead
      /\ ~Behind(f) => content'[i].latest
  BY <1>2, <1>5 DEF Truncates, Changes
<1>7. n["base"]["db"] = d /\ n["base"][f] = i /\ n["base"][Sibling(f)] = j /\ i # None
  BY <1>3, <1>5, <1>6, DirectoryFacts, FileFacts, NoneIsNoInode DEF Gets, Materials
<1>8. d # None /\ d \in Named(n)
  BY <1>4, <1>5, <1>6, <1>7, DatabaseInUse, NamedInodes, DirectoryFacts, FileFacts DEF Exists
<1>9. j # None => /\ content'[j].rows = content[j].rows
                  /\ content'[j].state = content[j].state
                  /\ content'[j].ahead = content[j].ahead
                  /\ ~Behind(f) => ~content'[j].latest
                  /\ content'[j].of = d <=> content[j].of = d
  BY <1>2, <1>5, <1>8 DEF Truncates, Exists
<1>10. ~FullAt(f)' /\ Exists("base", f)' /\ ~AheadAt(f)'
  BY <1>5, <1>6, <1>7 DEF FullAt, AheadAt, Exists
<1>11. Writing(f)'
  <2>1. Behind(f) => Behind(f)'
    <3>1. FullAt(Sibling(f)) /\ AheadAt(Sibling(f)) => (FullAt(Sibling(f)) /\ AheadAt(Sibling(f)))'
      BY <1>3, <1>5, <1>7, <1>9 DEF FullAt, AheadAt, Exists
    <3> QED
      BY <1>3, <3>1, BehindIs, BehindIsAfter
  <2>2. ~Behind(f) => (LatestAt(f) /\ ~LatestAt(Sibling(f)))'
    BY <1>3, <1>5, <1>6, <1>7, <1>9 DEF LatestAt, Exists
  <2> QED
    BY <1>10, <2>1, <2>2 DEF Writing
<1>12. backed' = backed
  BY <1>5, <1>6, <1>7 DEF Changes
<1>13. backed' # {} => Exists("base", "db")' /\ \E h \in Materials : Holds(h)'
  <2> SUFFICES ASSUME backed # {} PROVE Exists("base", "db")' /\ Holds(Sibling(f))'
    BY <1>3, <1>12
  <2>1. PICK h \in Materials : Holds(h)
    BY DEF BackInv
  <2>2. h = Sibling(f)
    BY <1>1, <1>3, <2>1, HolderStays, Siblings
  <2>3. /\ j # None /\ content[j].state = "good" /\ content[j].of = d /\ backed \subseteq content[j].rows
        /\ ~content[j].ahead
    BY <1>5, <2>1, <2>2 DEF Holds, GoodAt, AheadAt, Exists, Database
  <2>4. GoodAt(Sibling(f))' /\ ~AheadAt(Sibling(f))' /\ Exists("base", "db")'
    BY <1>3, <1>5, <1>7, <1>8, <1>9, <2>3 DEF GoodAt, AheadAt, Exists
  <2>5. content'[j].of = Database' /\ backed' \subseteq content'[j].rows
    BY <1>5, <1>7, <1>9, <1>12, <2>3 DEF Database
  <2>6. Prevails(Sibling(f))'
    BY <1>3, <1>10 DEF Prevails
  <2> QED
    BY <1>3, <1>5, <1>7, <2>4, <2>5, <2>6 DEF Holds
<1>14. f = "first" \/ f = "last"
  BY <1>3 DEF Materials
<1> QED
  BY <1>4, <1>11, <1>13, <1>14 DEF BackInv, Putting

LEMMA SerializeBack ==
    ASSUME LayoutInv, BackInv, NEW f \in Materials,
           NEW here, here = (IF f = "first" THEN "serializeFirst" ELSE "serializeLast"),
           serialize(f, here)
    PROVE  BackInv'
<1>1. here \in {"serializeFirst", "serializeLast"} /\ f \in {"first", "last"}
  BY DEF Materials
<1>2. step = here
  BY DEF serialize
<1>3. Writing(f) /\ Exists("base", f)
  BY <1>1, <1>2 DEF BackInv, Writing
<1>4. PICK i, j : i = inode["base"][f] /\ j = inode["base"][Sibling(f)]
  OBVIOUS
<1>5. step' = "idle" /\ inode' = inode
  BY <1>1, SerializeEffect
<1>6. CASE backed' = {}
  BY <1>5, <1>6 DEF BackInv, Putting
<1>7. CASE backed' # {}
  <2>1. /\ content'[i].rows = FileRows("base") /\ content'[i].of = Database
        /\ content'[i].latest = content[i].latest /\ content'[i].ahead = content[i].ahead
        /\ content'[i].state = "good" /\ backed' = FileRows("base") /\ ~Behind(f)
        /\ \A k \in Inodes : k # i => content'[k] = content[k]
    BY <1>1, <1>3, <1>4, <1>7, SerializeEffect
  <2>2. Exists("base", "db")
    BY <1>1, <1>2, DatabaseInUse DEF LayoutInv, ControlInv, JobFits
  <2>3. GoodAt(f)' /\ ~AheadAt(f)'
    BY <1>3, <1>4, <1>5, <2>1 DEF Writing, GoodAt, AheadAt, Exists
  <2>4. j # None => content'[j] = content[j]
    <3>1. Sibling(f) \in Files /\ f \in Files /\ Sibling(f) # f
      BY Siblings
    <3>2. j # None => j \in Inodes /\ j # i
      BY <1>3, <1>4, <3>1, DirectoryFacts DEF LayoutInv, Names, Exists
    <3> QED
      BY <2>1, <3>2
  <2>5. Prevails(f)'
    <3>1. LatestAt(f) /\ ~LatestAt(Sibling(f)) /\ ~(FullAt(Sibling(f)) /\ AheadAt(Sibling(f)))
      BY <1>3, <2>1, BehindIs DEF Writing
    <3>2. LatestAt(f)' /\ ~LatestAt(Sibling(f))'
      BY <1>3, <1>4, <1>5, <2>1, <2>4, <3>1 DEF LatestAt, Exists
    <3>3. ~FullAt(Sibling(f))' \/ ~AheadAt(Sibling(f))'
      BY <1>4, <1>5, <2>4, <3>1 DEF FullAt, AheadAt, Exists
    <3> QED
      BY <3>2, <3>3 DEF Prevails
  <2>6. Holds(f)'
    BY <1>4, <1>5, <2>1, <2>3, <2>5 DEF Holds, Database
  <2> QED
    BY <1>5, <2>2, <2>6 DEF BackInv, Putting, Exists
<1> QED
  BY <1>6, <1>7

\* When the clock goes on, a material that was ahead of it may not be any more.
LEMMA SetClockBack ==
    ASSUME LayoutInv, BackInv, MovedInv, setClock
    PROVE  BackInv'
<1>1. /\ job = "open" /\ step' = step /\ moved' = moved /\ inode' = inode
      /\ \A i \in Inodes : /\ content'[i].rows = content[i].rows
                           /\ content'[i].state = content[i].state
                           /\ content'[i].of = content[i].of
                           /\ content'[i].latest = content[i].latest
      /\ \/ backed' = {}
         \/ backed' = backed /\ \A i \in Inodes : content'[i].ahead => content[i].ahead
  BY SetClockEffect
<1>2. step = "idle" /\ moved = {}
  BY <1>1 DEF LayoutInv, ControlInv, JobFits, MovedInv, Moving, Putting
<1>3. CASE backed' = {}
  BY <1>1, <1>2, <1>3 DEF BackInv, Putting
<1>4. CASE backed' # {}
  <2>1. backed' = backed /\ \A i \in Inodes : content'[i].ahead => content[i].ahead
    BY <1>1, <1>4
  <2>2. PICK f \in Materials : Holds(f)
    BY <1>4, <2>1 DEF BackInv
  <2>3. Exists("base", "db")
    BY <1>4, <2>1 DEF BackInv
  <2>4. PICK i, j : i = inode["base"][f] /\ j = inode["base"][Sibling(f)]
    OBVIOUS
  <2>5. (i # None => i \in Inodes) /\ (j # None => j \in Inodes)
    BY <2>4, Siblings, DirectoryFacts DEF LayoutInv, Names
  <2>6. GoodAt(f)' /\ ~AheadAt(f)'
    BY <1>1, <2>1, <2>2, <2>4, <2>5 DEF Holds, GoodAt, AheadAt, Exists
  <2>7. Prevails(f)'
    <3>1. CASE ~FullAt(Sibling(f))
      BY <1>1, <2>4, <2>5, <3>1 DEF Prevails, FullAt, Exists
    <3>2. CASE LatestAt(f) /\ ~LatestAt(Sibling(f)) /\ ~AheadAt(Sibling(f))
      BY <1>1, <2>1, <2>4, <2>5, <3>2 DEF Prevails, LatestAt, AheadAt, Exists
    <3> QED
      BY <2>2, <3>1, <3>2 DEF Holds, Prevails
  <2>8. content'[i].of = Database' /\ backed' \subseteq content'[i].rows
    BY <1>1, <2>1, <2>2, <2>4, <2>5 DEF Holds, GoodAt, Exists, Database
  <2>9. Holds(f)'
    BY <1>1, <2>4, <2>6, <2>7, <2>8 DEF Holds
  <2> QED
    BY <1>1, <1>2, <2>3, <2>9 DEF BackInv, Putting, Exists
<1> QED
  BY <1>3, <1>4

LEMMA BackStep == LayoutInv /\ MovedInv /\ BackInv /\ LayoutInv' /\ [NextRepair]_repairVars => BackInv'
<1> SUFFICES ASSUME LayoutInv, MovedInv, BackInv, LayoutInv', [NextRepair]_repairVars PROVE BackInv'
  OBVIOUS
<1>1. CASE UNCHANGED repairVars
  <2>1. /\ inode' = inode /\ content' = content /\ step' = step /\ moved' = moved /\ backed' = backed
    BY <1>1 DEF repairVars
  <2>2. \A f \in Materials : (Holds(f) => Holds(f)') /\ (Writing(f) => Writing(f)')
    BY <2>1 DEF Holds, Prevails, Writing, Behind, materialsForDeserializing, GoodAt, LatestAt, FullAt,
                AheadAt, Exists, Database
  <2> QED
    BY <2>1, <2>2 DEF BackInv, Exists, Materials
<1>2. CASE Calls
  BY <1>2, CallsBack
<1>3. CASE serialize("first", "serializeFirst") \/ serialize("last", "serializeLast")
  BY <1>3, SerializeBack DEF Materials
<1> QED
  BY <1>1, <1>2, <1>3, LifeBack, CreateBack, UseBack, SetClockBack, BackupBack, OperationBack
     DEF NextRepair, Calls

LEMMA InitMoved == InitRepair => MovedInv
BY DEF InitRepair, MovedInv

\* A completed backup() of the database in use can be read, whatever fails or is
\* interrupted, until another database replaces it, a later material is written
\* in part or the clock is set back.
THEOREM BackupsSurvive == SpecRepair => []BackupSurvives
<1>1. InitRepair => LayoutInv /\ MovedInv /\ BackInv
  BY InitLayout, InitMoved, InitBack
<1>2. LayoutInv /\ MovedInv /\ BackInv /\ [NextRepair]_repairVars
        => (LayoutInv /\ MovedInv /\ BackInv)'
  BY LayoutStep, MovedStep, BackStep
<1> QED
  BY <1>1, <1>2, BackImplies, PTL DEF SpecRepair

-----------------------------------------------------------------------------
(* The rows that are owed                                                  *)

\* The rows of the deposited databases that are not damaged.
InShops == UNION {GoodRows(w) : w \in Workshops}
Deposited == owed \subseteq InShops
Kept(p) == owed \subseteq GoodRows(p) \cup InShops

\* The files of p that moveItems() has moved to q, and no others, are in q.
Linked(p, q) == \A f \in Files : inode[q][f] = IF f \in moved THEN inode[p][f] ELSE None

\* The workshop of the depositor has no file yet.
ShopEmpty == \A f \in Files : inode[shop][f] = None

\* What holds while vacuum() and the start after it replace the database.
VacuumKept ==
    /\ step \in {"clearVacuum", "fillVacuum"} => Exists("temp", "db") /\ Kept("temp")
    /\ step = "fillVacuum" => Linked("temp", "vacuum")
    /\ job = "vacuum" /\ step \in {"emptyTemp", "dropTemp", "removeBase"} =>
          (Exists("vacuum", "db") /\ Kept("vacuum")) \/ Deposited
    /\ step = "clearForVacuum" => Exists("vacuum", "db") /\ ~Exists("base", "db")
    /\ step = "putVacuum" => Exists("vacuum", "db") /\ Linked("vacuum", "base")
    /\ step = "dropVacuum" => Exists("base", "db") \/ ~Exists("vacuum", "db") \/ Deposited

\* ... while a new database takes the place of a deposited one, ...
RenewKept ==
    /\ step = "takeRenew" => Exists("base", "db") \/ ~Exists("vacuum", "db") \/ Deposited
    /\ step = "clearForRenew" => /\ Exists("renew", "db") /\ ~Exists("base", "db")
                                 /\ ~Exists("vacuum", "db") \/ Deposited
    /\ step = "putRenew" => /\ Exists("renew", "db") /\ Linked("renew", "base")
                            /\ ~Exists("vacuum", "db") \/ Deposited
    /\ step = "create" => Exists("base", "db") \/ Deposited

\* ... and while a database is deposited, or replaced by what was restored.
DepositKept ==
    /\ job = "deposit" /\ step \in {"clearRenew", "fillRenew", "emptyTemp", "dropTemp"} => ShopEmpty
    /\ step = "depositBase" => Linked("base", shop)
    /\ step \in {"emptyBase", "putTemp"} => Deposited
    /\ job = "retrieve" /\ step \in {"depositBase", "emptyBase", "putTemp"} =>
          Exists("temp", "db") /\ owed \subseteq GoodRows("temp")
    /\ step = "putTemp" => Linked("temp", "base")
    /\ (job = "retrieve" /\ step = "emptyTemp") \/ step \in {"discard", "dropWorkshops"} =>
          owed \subseteq GoodRows("base")

\* Steps at which the database is in its place, unless it was discarded.
InPlace == {"emptyVacuum", "emptyRenew", "dropRenew", "clearRenew", "fillRenew", "clearVacuum",
            "fillVacuum", "emptyTemp", "dropTemp", "depositBase", "discard", "dropWorkshops"}

\* The rows that are owed are where the next start, or a retrieve(), finds them.
KeptInv ==
    /\ Kept(Launched)
    /\ step \in InPlace => Exists("base", "db") \/ Deposited
    /\ VacuumKept
    /\ RenewKept
    /\ DepositKept

LEMMA GoodRowsAreRestored == \A p : GoodRows(p) \subseteq restore(p)
BY DEF GoodRows, restore

LEMMA KeptImplies == KeptInv => NothingElseLost
<1> SUFFICES ASSUME KeptInv PROVE NothingElseLost
  OBVIOUS
<1>1. owed \subseteq GoodRows(Launched) \cup InShops
  BY DEF KeptInv, Kept
<1>2. GoodRows(Launched) \subseteq restore(Launched)
  BY GoodRowsAreRestored
<1>3. InShops \subseteq UNION {restore(w) : w \in Workshops}
  BY GoodRowsAreRestored DEF InShops
<1> QED
  BY <1>1, <1>2, <1>3 DEF NothingElseLost, Recoverable

LEMMA InitKept == InitRepair => KeptInv
BY DEF InitRepair, KeptInv, Kept, InPlace, VacuumKept, RenewKept, DepositKept

\* Which database the next start uses.
LEMMA LaunchedIs ==
    /\ Exists("base", "db") => Launched = "base"
    /\ ~Exists("base", "db") /\ Exists("vacuum", "db") => Launched = "vacuum"
    /\ ~Exists("base", "db") /\ ~Exists("vacuum", "db") /\ Exists("renew", "db") => Launched = "renew"
    /\ ~Exists("base", "db") /\ ~Exists("vacuum", "db") /\ ~Exists("renew", "db") => Launched = "base"
BY DEF Launched

LEMMA NoDatabaseNoRows == \A p : ~Exists(p, "db") => GoodRows(p) = {}
BY DEF GoodRows, StateOf

LEMMA KeptNow ==
    ASSUME KeptInv
    PROVE  /\ Exists("base", "db") => Kept("base")
           /\ ~Exists("base", "db") /\ Exists("vacuum", "db") => Kept("vacuum")
           /\ ~Exists("base", "db") /\ ~Exists("vacuum", "db") /\ Exists("renew", "db") => Kept("renew")
           /\ ~Exists("base", "db") /\ ~Exists("vacuum", "db") /\ ~Exists("renew", "db") => Deposited
<1>1. Kept(Launched)
  BY DEF KeptInv
<1>2. Kept("base") /\ ~Exists("base", "db") => Deposited
  BY NoDatabaseNoRows DEF Kept, Deposited
<1> QED
  BY <1>1, <1>2, LaunchedIs

LEMMA KeptAfter ==
    ASSUME \/ Deposited'
           \/ Exists("base", "db")' /\ Kept("base")'
           \/ ~Exists("base", "db")' /\ Exists("vacuum", "db")' /\ Kept("vacuum")'
           \/ ~Exists("base", "db")' /\ ~Exists("vacuum", "db")' /\ Exists("renew", "db")' /\ Kept("renew")'
    PROVE  Kept(Launched)'
<1>1. CASE Deposited'
  BY <1>1 DEF Deposited, Kept
<1>2. CASE Exists("base", "db")' /\ Kept("base")'
  BY <1>2 DEF Launched
<1>3. CASE ~Exists("base", "db")' /\ Exists("vacuum", "db")' /\ Kept("vacuum")'
  BY <1>3 DEF Launched
<1>4. CASE ~Exists("base", "db")' /\ ~Exists("vacuum", "db")' /\ Exists("renew", "db")' /\ Kept("renew")'
  BY <1>4 DEF Launched
<1> QED
  BY <1>1, <1>2, <1>3, <1>4

\* The directory p keeps its files.
StaysAt(p) == \A f \in Files : inode'[p][f] = inode[p][f]
ShopsStay == \A w \in Workshops : StaysAt(w)

LEMMA StaysRows ==
    ASSUME Rearranges, NEW p \in Directories, StaysAt(p)
    PROVE  GoodRows(p)' = GoodRows(p) /\ \A f \in Files : Exists(p, f)' = Exists(p, f)
<1>1. SameAt(p)
  BY FileFacts DEF SameAt, StaysAt
<1>2. GoodRows(p)' = GoodRows(p)
  BY <1>1, SameRows
<1> QED
  BY <1>2 DEF StaysAt, Exists

LEMMA ShopsStayRows ==
    ASSUME Rearranges, ShopsStay
    PROVE  InShops' = InShops
<1>1. \A w \in Workshops : GoodRows(w)' = GoodRows(w)
  BY StaysRows, DirectoryFacts DEF ShopsStay
<1> QED
  BY <1>1 DEF InShops

LEMMA StaysKept ==
    ASSUME Rearranges, ShopsStay, owed' \subseteq owed, NEW p \in Directories, StaysAt(p)
    PROVE  /\ Kept(p) => Kept(p)'
           /\ Deposited => Deposited'
           /\ owed \subseteq GoodRows(p) => (owed \subseteq GoodRows(p))'
           /\ Exists(p, "db")' <=> Exists(p, "db")
<1>1. InShops' = InShops
  BY ShopsStayRows
<1>2. GoodRows(p)' = GoodRows(p) /\ Exists(p, "db")' = Exists(p, "db")
  BY StaysRows, FileFacts
<1> QED
  BY <1>1, <1>2 DEF Kept, Deposited

LEMMA StaysDeposited ==
    ASSUME Rearranges, ShopsStay, owed' \subseteq owed, Deposited
    PROVE  Deposited'
BY ShopsStayRows DEF Deposited

-----------------------------------------------------------------------------

\* All directories but p keep their files.
OthersStay(p) == \A r \in Directories : r # p => StaysAt(r)

LEMMA RemoveKeeps ==
    ASSUME LayoutInv, NEW p \in Directories, NEW here, NEW next, NEW reversed,
           removeItems(here, p, reversed, next)
    PROVE  /\ Rearranges /\ step = here /\ owed' \subseteq owed /\ shop' = shop /\ OthersStay(p)
           /\ \A f \in Files : inode'[p][f] \in {inode[p][f], None}
           /\ Exists(p, "db") /\ reversed = FALSE => Fails \/ ~Exists(p, "db")'
           /\ \/ step' = here /\ job' = job
              \/ step' = next /\ job' = job /\ inode' = inode /\ \A f \in Files : inode[p][f] = None
              \/ Fails /\ inode' = inode
<1>1. Rearranges /\ step = here /\ owed' \subseteq owed /\ shop' = shop
  BY RemoveItemsEffect
<1>2. ASSUME NEW f \in Files, Drops(p, {f})
      PROVE  /\ OthersStay(p)
             /\ \A g \in Files : inode'[p][g] \in {inode[p][g], None}
  BY <1>2 DEF Drops, OthersStay, StaysAt
<1>3. inode' = inode => OthersStay(p) /\ \A f \in Files : inode'[p][f] \in {inode[p][f], None}
  BY DEF OthersStay, StaysAt
<1>4. OthersStay(p) /\ \A f \in Files : inode'[p][f] \in {inode[p][f], None}
  BY <1>2, <1>3, RemoveItemsEffect
<1>5. Present(p) = {} => \A f \in Files : inode[p][f] = None
  BY DEF Present, Exists
<1>6. ASSUME Exists(p, "db"), reversed = FALSE PROVE Fails \/ ~Exists(p, "db")'
  <2>1. "db" \in Present(p)
    BY <1>6, FileFacts DEF Present
  <2>2. ASSUME NEW f \in Files, Leads(f, Present(p), FALSE), Drops(p, {f}) PROVE ~Exists(p, "db")'
    <3>1. f = "db"
      BY <2>1, <2>2, DatabaseLeads
    <3> QED
      BY <2>2, <3>1, FileFacts DEF Drops, Exists
  <2> QED
    BY <1>6, <2>1, <2>2, RemoveItemsEffect
<1> QED
  BY <1>1, <1>4, <1>5, <1>6, RemoveItemsEffect

\* q has the database and the log of p, or what p has is not owed any more.
Delivers(p, q) ==
    \/ inode[q]["db"] = inode[p]["db"] /\ inode[q]["wal"] = inode[p]["wal"]
    \/ owed' \cap GoodRows(p) = {}

LEMMA MoveKeeps ==
    ASSUME LayoutInv, ~ByRename, NEW p \in Directories, NEW q \in Directories, p # q,
           NEW here, NEW next, NEW reversed,
           moveItems(here, p, q, reversed, next), Linked(p, q)
    PROVE  /\ Rearranges /\ step = here /\ owed' \subseteq owed /\ shop' = shop /\ OthersStay(q)
           /\ \A f \in Files : inode'[q][f] \in {inode[p][f], None}
           /\ \/ step' = here /\ job' = job /\ Linked(p, q)'
              \/ step' = next /\ job' = job /\ inode' = inode /\ Delivers(p, q)
              \/ Fails
<1>1. Rearranges /\ step = here /\ owed' \subseteq owed /\ shop' = shop
  BY MoveItemsEffect
<1>2. \A f \in Files : inode[q][f] \in {inode[p][f], None}
  BY DEF Linked
<1>3. ASSUME NEW f \in Files, Links(p, q, f), moved' = moved \cup {f}
      PROVE  /\ OthersStay(q) /\ Linked(p, q)'
             /\ \A g \in Files : inode'[q][g] \in {inode[p][g], None}
  <2>1. OthersStay(q)
    BY <1>3 DEF Links, OthersStay, StaysAt
  <2>2. \A g \in Files : /\ inode'[q][g] = IF g \in moved' THEN inode[p][g] ELSE None
                         /\ inode'[p][g] = inode[p][g]
    BY <1>3 DEF Links, Linked
  <2> QED
    BY <2>1, <2>2 DEF Linked
<1>4. ASSUME NEW fs \in SUBSET moved, Drops(q, fs)
      PROVE  /\ OthersStay(q)
             /\ \A g \in Files : inode'[q][g] \in {inode[p][g], None}
  BY <1>2, <1>4 DEF Drops, OthersStay, StaysAt
<1>5. Gives(p) => Delivers(p, q)
  <2>1. ASSUME (Present(p) \ moved) \cap {"db", "wal"} = {}
        PROVE  inode[q]["db"] = inode[p]["db"] /\ inode[q]["wal"] = inode[p]["wal"]
    BY <2>1, FileFacts DEF Present, Exists, Linked
  <2> QED
    BY <2>1 DEF Gives, Delivers
<1>6. inode' = inode => OthersStay(q)
  BY DEF OthersStay, StaysAt
<1>7. \/ Gives(p) /\ inode' = inode /\ step' = next /\ job' = job
      \/ step' = here /\ job' = job /\ \E f \in Files : Links(p, q, f) /\ moved' = moved \cup {f}
      \/ Fails /\ \E fs \in SUBSET moved : Drops(q, fs)
  BY MoveItemsEffect
<1>8. CASE Gives(p) /\ inode' = inode /\ step' = next /\ job' = job
  BY <1>1, <1>2, <1>5, <1>6, <1>8
<1>9. CASE step' = here /\ job' = job /\ \E f \in Files : Links(p, q, f) /\ moved' = moved \cup {f}
  BY <1>1, <1>3, <1>9
<1>10. CASE Fails /\ \E fs \in SUBSET moved : Drops(q, fs)
  BY <1>1, <1>4, <1>10
<1> QED
  BY <1>7, <1>8, <1>9, <1>10

LEMMA DirectoriesKeep ==
    ASSUME LayoutInv, NEW ps \in SUBSET Directories, NEW here, NEW next,
           removeDirectories(here, ps, next)
    PROVE  /\ Rearranges /\ step = here /\ step' = next /\ job' = job /\ owed' \subseteq owed /\ shop' = shop
           /\ \A r \in Directories : r \notin ps => StaysAt(r)
           /\ \A r \in ps, f \in Files : inode'[r][f] \in {inode[r][f], None}
<1>1. Rearranges /\ Clears(ps)
  BY RemoveDirectoriesClears DEF LayoutInv
<1>2. step = here /\ step' = next /\ job' = job /\ owed' \subseteq owed /\ shop' = shop
  BY DEF removeDirectories
<1> QED
  BY <1>1, <1>2 DEF Clears, StaysAt

\* A failed operation returns, after it has removed the directory of a vacuum.
LEMMA FailsKept ==
    ASSUME Fails, Kept(Launched)',
           Exists("base", "db")' \/ ~Exists("vacuum", "db")' \/ Deposited'
    PROVE  KeptInv'
<1>1. job' = "failing" /\ step' \in {"dropVacuum", "return"}
  BY DEF Fails
<1> QED
  BY <1>1 DEF KeptInv, InPlace, VacuumKept, RenewKept, DepositKept

\* What only the directory of a failed vacuum has is not owed any more.
LEMMA VacuumDiscards ==
    ASSUME Fails, Vacuuming, Kept("vacuum"), InShops' = InShops, owed' \subseteq owed
    PROVE  Exists("base", "db")' \/ Deposited'
<1>1. CASE inode'["base"]["db"] = None
  <2>1. owed' = owed \ GoodRows("vacuum")
    BY <1>1 DEF Fails, Discards
  <2> QED
    BY <2>1 DEF Kept, Deposited
<1> QED
  BY <1>1 DEF Exists

\* The rows of a database without a log are the same in every directory.
LEMMA RowsFollow ==
    ASSUME Rearranges, NEW p \in Directories, NEW q \in Directories,
           inode'[q]["db"] = inode[p]["db"], inode'[q]["wal"] = None, inode[p]["wal"] = None
    PROVE  GoodRows(q)' = GoodRows(p)
<1>1. GoodRows(q)' = GoodIn(inode'[q]["db"], inode'[q]["wal"], content)
  BY RearrangedRows
<1> QED
  BY <1>1, GoodRowsIs

\* Directories other than p keep their rows and databases.
LEMMA OthersStayKept ==
    ASSUME Rearranges, owed' \subseteq owed, NEW p \in Directories, p \notin Workshops, OthersStay(p)
    PROVE  /\ ShopsStay
           /\ Deposited => Deposited'
           /\ \A r \in Directories : r # p =>
                 /\ Kept(r) => Kept(r)'
                 /\ owed \subseteq GoodRows(r) => (owed \subseteq GoodRows(r))'
                 /\ Exists(r, "db")' <=> Exists(r, "db")
<1>1. ShopsStay
  BY DirectoryFacts DEF OthersStay, ShopsStay
<1>2. Deposited => Deposited'
  BY <1>1, StaysDeposited
<1>3. ASSUME NEW r \in Directories, r # p
      PROVE  /\ Kept(r) => Kept(r)'
             /\ owed \subseteq GoodRows(r) => (owed \subseteq GoodRows(r))'
             /\ Exists(r, "db")' <=> Exists(r, "db")
  <2>1. StaysAt(r)
    BY <1>3 DEF OthersStay
  <2> QED
    BY <1>1, <2>1, StaysKept
<1> QED
  BY <1>1, <1>2, <1>3

LEMMA TakeKept ==
    ASSUME LayoutInv, KeptInv, takeVacuum \/ takeRenew
    PROVE  KeptInv'
<1>1. UNCHANGED files /\ owed' \subseteq owed
  BY DEF takeVacuum, takeRenew, Fails, Discards, Continues
<1>2. Rearranges /\ inode' = inode
  BY <1>1, UnchangedRearranges DEF LayoutInv
<1>3. OthersStay("temp")
  BY <1>2 DEF OthersStay, StaysAt
<1>4. /\ Deposited => Deposited'
      /\ \A r \in {"base", "vacuum", "renew"} : /\ Kept(r) => Kept(r)'
                                                /\ Exists(r, "db")' <=> Exists(r, "db")
  BY <1>1, <1>2, <1>3, OthersStayKept, DirectoryFacts
<1>5. Kept(Launched)'
  BY <1>4, KeptNow, KeptAfter
<1>6. CASE takeVacuum
  <2>1. \/ step' = "clearForVacuum" /\ Exists("vacuum", "db") /\ ~Exists("base", "db")
        \/ step' = "dropVacuum" /\ (Exists("vacuum", "db") => Exists("base", "db"))
        \/ Fails
    BY <1>6 DEF takeVacuum, Continues
  <2>2. CASE Fails
    <3>1. Vacuuming
      BY <1>6 DEF takeVacuum, Vacuuming
    <3>2. InShops' = InShops
      BY <1>2, <1>3, ShopsStayRows, DirectoryFacts DEF OthersStay, ShopsStay
    <3>3. Exists("base", "db") \/ ~Exists("vacuum", "db") \/ Kept("vacuum")
      BY KeptNow
    <3>4. Exists("base", "db")' \/ ~Exists("vacuum", "db")' \/ Deposited'
      BY <1>1, <1>4, <2>2, <3>1, <3>2, <3>3, VacuumDiscards
    <3> QED
      BY <1>5, <2>2, <3>4, FailsKept
  <2>3. CASE step' \in {"clearForVacuum", "dropVacuum"} /\ ~Fails
    BY <1>4, <1>5, <2>1, <2>3 DEF KeptInv, InPlace, VacuumKept, RenewKept, DepositKept
  <2> QED
    BY <2>1, <2>2, <2>3
<1>7. CASE takeRenew
  <2>1. Exists("base", "db") \/ ~Exists("vacuum", "db") \/ Deposited
    BY <1>7 DEF takeRenew, KeptInv, RenewKept
  <2>2. \/ step' = "return"
        \/ step' = "create" /\ ~Exists("renew", "db")
        \/ step' = "clearForRenew" /\ Exists("renew", "db") /\ ~Exists("base", "db")
        \/ step' = "dropRenew" /\ Exists("base", "db")
        \/ Fails
    BY <1>7 DEF takeRenew, Continues, AfterRenew
  <2>3. step' = "create" /\ ~Exists("renew", "db") => Exists("base", "db") \/ Deposited
    BY <2>1, KeptNow
  <2>4. CASE Fails
    BY <1>4, <1>5, <2>1, <2>4, FailsKept
  <2>5. CASE ~Fails
    BY <1>4, <1>5, <2>1, <2>2, <2>3, <2>5 DEF KeptInv, InPlace, VacuumKept, RenewKept, DepositKept
  <2> QED
    BY <2>4, <2>5
<1> QED
  BY <1>6, <1>7

\* Removals in a directory that the next start does not use.
LEMMA AsideKept ==
    ASSUME LayoutInv, KeptInv, Rearranges, owed' \subseteq owed, NEW p \in Directories, p \notin Workshops,
           p # "base", OthersStay(p), Exists("base", "db") \/ Deposited
    PROVE  (Exists("base", "db")' \/ Deposited') /\ Kept(Launched)'
<1>1. (Exists("base", "db")' /\ Kept("base")') \/ Deposited'
  BY OthersStayKept, KeptNow, DirectoryFacts
<1> QED
  BY <1>1, KeptAfter

LEMMA RemovalLeavesList ==
    ASSUME MovedInv, NEW here, here \notin Moving, NEW next, NEW p, NEW reversed,
           removeItems(here, p, reversed, next) \/ removeDirectories(here, p, next)
    PROVE  moved' = {}
BY DEF MovedInv, removeItems, removeDirectories, Fails

LEMMA ClearKept ==
    ASSUME LayoutInv, MovedInv, KeptInv,
           \/ ClearBase("clearForVacuum", "putVacuum")
           \/ ClearBase("clearForRenew", "putRenew")
    PROVE  KeptInv'
<1>1. PICK here, next :
         /\ removeItems(here, "base", FALSE, next)
         /\ \/ here = "clearForVacuum" /\ next = "putVacuum"
            \/ here = "clearForRenew" /\ next = "putRenew"
  BY DEF ClearBase
<1>2. /\ Rearranges /\ step = here /\ owed' \subseteq owed /\ OthersStay("base")
      /\ \A f \in Files : inode'["base"][f] \in {inode["base"][f], None}
      /\ \/ step' = here /\ job' = job
         \/ step' = next /\ job' = job /\ inode' = inode /\ \A f \in Files : inode["base"][f] = None
         \/ Fails /\ inode' = inode
  BY <1>1, RemoveKeeps, DirectoryFacts
<1>3. ~Exists("base", "db") /\ ~Exists("base", "db")'
  BY <1>1, <1>2, FileFacts DEF KeptInv, VacuumKept, RenewKept, Exists
<1>4. /\ Deposited => Deposited'
      /\ \A r \in {"vacuum", "renew"} : /\ Kept(r) => Kept(r)'
                                        /\ Exists(r, "db")' <=> Exists(r, "db")
  BY <1>2, OthersStayKept, DirectoryFacts
<1>5. Kept(Launched)'
  <2>1. Exists("vacuum", "db") \/ Exists("renew", "db")
    BY <1>1, <1>2 DEF KeptInv, VacuumKept, RenewKept
  <2> QED
    BY <1>3, <1>4, <2>1, KeptNow, KeptAfter
<1>6. moved' = {}
  <2>1. here \notin Moving
    BY <1>1 DEF Moving, Putting
  <2> QED
    BY <1>1, <2>1, RemovalLeavesList
<1>7. CASE step' = here /\ job' = job
  <2>1. /\ here = "clearForVacuum" => Exists("vacuum", "db")'
        /\ here = "clearForRenew" => Exists("renew", "db")' /\ (~Exists("vacuum", "db")' \/ Deposited')
    BY <1>2, <1>4 DEF KeptInv, VacuumKept, RenewKept
  <2> QED
    BY <1>1, <1>3, <1>5, <1>7, <2>1 DEF KeptInv, InPlace, VacuumKept, RenewKept, DepositKept
<1>8. CASE step' = next /\ inode' = inode /\ \A f \in Files : inode["base"][f] = None
  <2>1. /\ here = "clearForVacuum" => Exists("vacuum", "db")'
        /\ here = "clearForRenew" => Exists("renew", "db")' /\ (~Exists("vacuum", "db")' \/ Deposited')
    BY <1>2, <1>4 DEF KeptInv, VacuumKept, RenewKept
  <2>2. Linked("vacuum", "base")' /\ Linked("renew", "base")'
    BY <1>6, <1>8 DEF Linked
  <2> QED
    BY <1>1, <1>5, <1>8, <2>1, <2>2 DEF KeptInv, InPlace, VacuumKept, RenewKept, DepositKept
<1>9. CASE Fails
  <2>1. CASE here = "clearForVacuum"
    <3>1. Vacuuming
      BY <1>2, <2>1 DEF Vacuuming
    <3>2. InShops' = InShops
      BY <1>2, OthersStayKept, ShopsStayRows, DirectoryFacts
    <3>3. Kept("vacuum")
      BY <1>2, <1>3, <2>1, KeptNow DEF KeptInv, VacuumKept
    <3>4. Exists("base", "db")' \/ Deposited'
      BY <1>2, <1>9, <3>1, <3>2, <3>3, VacuumDiscards
    <3> QED
      BY <1>5, <1>9, <3>4, FailsKept
  <2>2. CASE here = "clearForRenew"
    <3>1. ~Exists("vacuum", "db")' \/ Deposited'
      BY <1>2, <1>4, <2>2 DEF KeptInv, RenewKept
    <3> QED
      BY <1>5, <1>9, <3>1, FailsKept
  <2> QED
    BY <1>1, <2>1, <2>2
<1> QED
  BY <1>2, <1>7, <1>8, <1>9

\* putVacuum and putRenew: the database comes without a log.
LEMMA PutKept ==
    ASSUME ~ByRename, LayoutInv, LayoutInv', KeptInv,
           \/ moveItems("putVacuum", "vacuum", "base", TRUE, "emptyVacuum")
           \/ moveItems("putRenew", "renew", "base", TRUE, "emptyRenew")
    PROVE  KeptInv'
<1>1. PICK here, p, next :
         /\ moveItems(here, p, "base", TRUE, next)
         /\ \/ here = "putVacuum" /\ p = "vacuum" /\ next = "emptyVacuum"
            \/ here = "putRenew" /\ p = "renew" /\ next = "emptyRenew"
  OBVIOUS
<1>2. step = here
  BY <1>1 DEF moveItems
<1>3. /\ Exists(p, "db") /\ Linked(p, "base")
      /\ here = "putRenew" => ~Exists("vacuum", "db") \/ Deposited
  BY <1>1, <1>2 DEF KeptInv, VacuumKept, RenewKept
<1>4. p \in Directories /\ "base" \in Directories /\ p # "base" /\ "base" \notin Workshops
  BY <1>1, DirectoryFacts
<1>5. /\ Rearranges /\ owed' \subseteq owed /\ OthersStay("base")
      /\ \A f \in Files : inode'["base"][f] \in {inode[p][f], None}
      /\ \/ step' = here /\ job' = job /\ Linked(p, "base")'
         \/ step' = next /\ job' = job /\ inode' = inode /\ Delivers(p, "base")
         \/ Fails
  BY <1>1, <1>3, <1>4, MoveKeeps
<1>6. inode[p]["wal"] = None /\ inode'["base"]["wal"] = None /\ inode["base"]["wal"] = None
  <2>1. inode[p]["wal"] = None
    BY <1>1, NoLogsNow
  <2>2. inode["base"]["wal"] = None
    BY <1>1, <1>2 DEF LayoutInv, BaseCleared, Putting, Exists
  <2> QED
    BY <1>5, <2>1, <2>2, FileFacts
<1>7. Kept(p)
  <2>1. CASE Exists("base", "db")
    <3>1. inode["base"]["db"] = inode[p]["db"]
      BY <1>3, <2>1, FileFacts DEF Linked, Exists
    <3>2. GoodRows("base") = GoodRows(p)
      BY <1>6, <3>1, GoodRowsIs
    <3> QED
      BY <2>1, <3>2, KeptNow DEF Kept
  <2>2. CASE ~Exists("base", "db")
    <3>1. Deposited => Kept(p)
      BY DEF Deposited, Kept
    <3> QED
      BY <1>1, <1>3, <2>2, <3>1, KeptNow
  <2> QED
    BY <2>1, <2>2
<1>8. /\ Deposited => Deposited'
      /\ \A r \in {"vacuum", "renew"} : /\ Kept(r) => Kept(r)'
                                        /\ Exists(r, "db")' <=> Exists(r, "db")
  BY <1>4, <1>5, OthersStayKept, DirectoryFacts
<1>9. Exists("base", "db")' => Kept("base")'
  <2> SUFFICES ASSUME Exists("base", "db")' PROVE Kept("base")'
    OBVIOUS
  <2>1. inode'["base"]["db"] = inode[p]["db"]
    BY <1>5, FileFacts DEF Exists
  <2>2. GoodRows("base")' = GoodRows(p)
    BY <1>4, <1>5, <1>6, <2>1, RowsFollow
  <2>3. InShops' = InShops
    BY <1>4, <1>5, OthersStayKept, ShopsStayRows
  <2> QED
    BY <1>5, <1>7, <2>2, <2>3 DEF Kept
<1>10. Kept(Launched)'
  <2>1. Exists(p, "db")' /\ Kept(p)' /\ (here = "putRenew" => ~Exists("vacuum", "db")' \/ Deposited')
    BY <1>1, <1>3, <1>7, <1>8
  <2> QED
    BY <1>1, <1>9, <2>1, KeptAfter
<1>11. CASE step' = here /\ Linked(p, "base")'
  <2>1. Exists(p, "db")' /\ (here = "putRenew" => ~Exists("vacuum", "db")' \/ Deposited')
    BY <1>1, <1>3, <1>8
  <2> QED
    BY <1>1, <1>10, <1>11, <2>1 DEF KeptInv, InPlace, VacuumKept, RenewKept, DepositKept
<1>12. CASE step' = next /\ inode' = inode /\ Delivers(p, "base")
  <2>1. Exists("base", "db")' \/ Deposited'
    <3>1. CASE inode["base"]["db"] = inode[p]["db"]
      BY <1>3, <1>12, <3>1 DEF Exists
    <3>2. CASE owed' \cap GoodRows(p) = {}
      <4>1. InShops' = InShops
        BY <1>4, <1>5, OthersStayKept, ShopsStayRows
      <4> QED
        BY <1>5, <1>7, <3>2, <4>1 DEF Kept, Deposited
    <3> QED
      BY <1>12, <3>1, <3>2 DEF Delivers
  <2> QED
    BY <1>1, <1>10, <1>12, <2>1 DEF KeptInv, InPlace, VacuumKept, RenewKept, DepositKept
<1>13. CASE Fails
  <2>1. CASE here = "putVacuum"
    <3>1. Vacuuming
      BY <1>2, <2>1 DEF Vacuuming
    <3>2. InShops' = InShops
      BY <1>4, <1>5, OthersStayKept, ShopsStayRows
    <3>3. Exists("base", "db")' \/ Deposited'
      BY <1>1, <1>5, <1>7, <1>13, <2>1, <3>1, <3>2, VacuumDiscards
    <3> QED
      BY <1>10, <1>13, <3>3, FailsKept
  <2>2. CASE here = "putRenew"
    <3>1. ~Exists("vacuum", "db")' \/ Deposited'
      BY <1>3, <1>8, <2>2
    <3> QED
      BY <1>10, <1>13, <3>1, FailsKept
  <2> QED
    BY <1>1, <2>1, <2>2
<1> QED
  BY <1>5, <1>11, <1>12, <1>13

LEMMA MoveOthers ==
    ASSUME LayoutInv, ~ByRename, NEW p \in Directories, NEW q \in Directories, p # q,
           NEW here, NEW next, NEW reversed,
           moveItems(here, p, q, reversed, next)
    PROVE  /\ Rearranges /\ step = here /\ owed' \subseteq owed /\ shop' = shop /\ OthersStay(q)
           /\ \/ step' \in {here, next} /\ job' = job
              \/ Fails
<1>1. ASSUME NEW f \in Files, Links(p, q, f) PROVE OthersStay(q)
  BY <1>1 DEF Links, OthersStay, StaysAt
<1>2. ASSUME NEW fs, Drops(q, fs) PROVE OthersStay(q)
  BY <1>2 DEF Drops, OthersStay, StaysAt
<1>3. inode' = inode => OthersStay(q)
  BY DEF OthersStay, StaysAt
<1>4. /\ Rearranges /\ step = here /\ owed' \subseteq owed /\ shop' = shop
      /\ \/ inode' = inode /\ step' = next /\ job' = job
         \/ (\E f \in Files : Links(p, q, f)) /\ step' = here /\ job' = job
         \/ Fails /\ \E fs \in SUBSET moved : Drops(q, fs)
  BY MoveItemsEffect
<1>5. OthersStay(q)
  BY <1>1, <1>2, <1>3, <1>4
<1> QED
  BY <1>4, <1>5

LEMMA EmptyKept ==
    ASSUME LayoutInv, KeptInv,
           \/ removeItems("emptyVacuum", "vacuum", TRUE, "dropVacuum")
           \/ removeItems("emptyRenew", "renew", TRUE, "dropRenew")
    PROVE  KeptInv'
<1>1. PICK here, p, next :
         /\ removeItems(here, p, TRUE, next)
         /\ \/ here = "emptyVacuum" /\ p = "vacuum" /\ next = "dropVacuum"
            \/ here = "emptyRenew" /\ p = "renew" /\ next = "dropRenew"
  OBVIOUS
<1>2. p \in Directories /\ p # "base" /\ p \notin Workshops
  BY <1>1, DirectoryFacts
<1>3. /\ Rearranges /\ step = here /\ owed' \subseteq owed /\ OthersStay(p)
      /\ step' \in {here, next} \/ Fails
  BY <1>1, <1>2, RemoveKeeps
<1>4. Exists("base", "db") \/ Deposited
  BY <1>1, <1>3 DEF KeptInv, InPlace
<1>5. (Exists("base", "db")' \/ Deposited') /\ Kept(Launched)'
  BY <1>2, <1>3, <1>4, AsideKept
<1>6. CASE Fails
  BY <1>5, <1>6, FailsKept
<1>7. CASE step' \in {here, next}
  BY <1>1, <1>5, <1>7 DEF KeptInv, InPlace, VacuumKept, RenewKept, DepositKept
<1> QED
  BY <1>3, <1>6, <1>7

LEMMA DropKept ==
    ASSUME LayoutInv, KeptInv,
           \/ removeDirectories("dropVacuum", {"vacuum"}, AfterVacuum)
           \/ removeDirectories("dropRenew", {"renew"}, AfterRenew)
    PROVE  KeptInv'
<1>1. CASE removeDirectories("dropRenew", {"renew"}, AfterRenew)
  <2>1. /\ Rearranges /\ step = "dropRenew" /\ step' = AfterRenew /\ owed' \subseteq owed
        /\ \A r \in Directories : r \notin {"renew"} => StaysAt(r)
    BY <1>1, DirectoriesKeep, DirectoryFacts
  <2>2. OthersStay("renew") /\ "renew" \in Directories /\ "renew" \notin Workshops
    BY <2>1, DirectoryFacts DEF OthersStay
  <2>3. Exists("base", "db") \/ Deposited
    BY <2>1 DEF KeptInv, InPlace
  <2>4. (Exists("base", "db")' \/ Deposited') /\ Kept(Launched)'
    BY <2>1, <2>2, <2>3, AsideKept
  <2>5. step' \in {"create", "return"}
    BY <2>1 DEF AfterRenew
  <2> QED
    BY <2>4, <2>5 DEF KeptInv, InPlace, VacuumKept, RenewKept, DepositKept
<1>2. CASE removeDirectories("dropVacuum", {"vacuum"}, AfterVacuum)
  <2>1. /\ Rearranges /\ step = "dropVacuum" /\ step' = AfterVacuum /\ owed' \subseteq owed
        /\ \A r \in Directories : r \notin {"vacuum"} => StaysAt(r)
        /\ \A r \in {"vacuum"}, f \in Files : inode'[r][f] \in {inode[r][f], None}
    BY <1>2, DirectoriesKeep, DirectoryFacts
  <2>2. OthersStay("vacuum") /\ "vacuum" \in Directories /\ "vacuum" \notin Workshops
    BY <2>1, DirectoryFacts DEF OthersStay
  <2>3. Exists("base", "db") \/ ~Exists("vacuum", "db") \/ Deposited
    BY <2>1 DEF KeptInv, VacuumKept
  <2>4. ~Exists("vacuum", "db") => ~Exists("vacuum", "db")'
    BY <2>1, FileFacts DEF Exists
  <2>5. /\ Deposited => Deposited'
        /\ \A r \in {"base", "renew"} : /\ Kept(r) => Kept(r)'
                                        /\ Exists(r, "db")' <=> Exists(r, "db")
    BY <2>1, <2>2, OthersStayKept, DirectoryFacts
  <2>6. Kept(Launched)'
    BY <2>3, <2>4, <2>5, KeptNow, KeptAfter
  <2>7. step' \in {"takeRenew", "return"}
    BY <2>1 DEF AfterVacuum
  <2> QED
    BY <2>3, <2>4, <2>5, <2>6, <2>7 DEF KeptInv, InPlace, VacuumKept, RenewKept, DepositKept
<1> QED
  BY <1>1, <1>2

LEMMA ShopStaysEmpty ==
    ASSUME NEW p \in Directories, p \notin Workshops, OthersStay(p), shop \in Workshops, shop' = shop,
           ShopEmpty
    PROVE  ShopEmpty'
<1>1. StaysAt(shop)
  BY DirectoryFacts DEF OthersStay
<1> QED
  BY <1>1 DEF StaysAt, ShopEmpty

\* The new database of deposit() is prepared; its workshop stays empty.
LEMMA PrepareRenewKept ==
    ASSUME ~ByRename, LayoutInv, MovedInv, KeptInv,
           \/ removeItems("clearRenew", "renew", TRUE, "fillRenew")
           \/ moveItems("fillRenew", "temp", "renew", TRUE, "emptyTemp")
           \/ job = "deposit" /\ removeItems("emptyTemp", "temp", TRUE, "dropTemp")
           \/ job = "deposit" /\ removeDirectories("dropTemp", {"temp"},
                                   IF job = "vacuum" THEN "removeBase" ELSE "depositBase")
    PROVE  KeptInv'
<1>1. PICK p \in {"renew", "temp"} :
         /\ Rearranges /\ owed' \subseteq owed /\ shop' = shop /\ OthersStay(p)
         /\ \/ /\ step \in {"clearRenew", "fillRenew", "emptyTemp", "dropTemp"}
               /\ step' \in {"clearRenew", "fillRenew", "emptyTemp", "dropTemp"} /\ job' = job
            \/ step = "dropTemp" /\ step' = "depositBase" /\ job' = job /\ moved' = {}
            \/ step \in {"clearRenew", "fillRenew", "emptyTemp", "dropTemp"} /\ Fails
  <2>1. CASE removeItems("clearRenew", "renew", TRUE, "fillRenew")
    BY <2>1, RemoveKeeps, DirectoryFacts
  <2>2. CASE moveItems("fillRenew", "temp", "renew", TRUE, "emptyTemp")
    BY <2>2, MoveOthers, DirectoryFacts
  <2>3. CASE removeItems("emptyTemp", "temp", TRUE, "dropTemp")
    BY <2>3, RemoveKeeps, DirectoryFacts
  <2>4. CASE job = "deposit" /\ removeDirectories("dropTemp", {"temp"},
                                   IF job = "vacuum" THEN "removeBase" ELSE "depositBase")
    <3>1. /\ Rearranges /\ step = "dropTemp" /\ step' = "depositBase" /\ job' = job
          /\ owed' \subseteq owed /\ shop' = shop
          /\ \A r \in Directories : r \notin {"temp"} => StaysAt(r)
      BY <2>4, DirectoriesKeep, DirectoryFacts
    <3>2. OthersStay("temp")
      BY <3>1 DEF OthersStay
    <3>3. moved' = {}
      BY <2>4, RemovalLeavesList DEF Moving, Putting
    <3> QED
      BY <3>1, <3>2, <3>3
  <2> QED
    BY <2>1, <2>2, <2>3, <2>4
<1>2. job = "deposit" /\ shop \in Workshops
  BY DEF removeItems, moveItems, removeDirectories, LayoutInv, ControlInv, JobFits
<1>3. p \in Directories /\ p # "base" /\ p \notin Workshops
  BY DirectoryFacts
<1>4. (Exists("base", "db") \/ Deposited) /\ ShopEmpty
  BY <1>1, <1>2 DEF KeptInv, InPlace, DepositKept
<1>5. (Exists("base", "db")' \/ Deposited') /\ Kept(Launched)'
  BY <1>1, <1>3, <1>4, AsideKept
<1>6. ShopEmpty'
  BY <1>1, <1>2, <1>3, <1>4, ShopStaysEmpty
<1>7. CASE step' \in {"clearRenew", "fillRenew", "emptyTemp", "dropTemp"} /\ job' = job
  BY <1>2, <1>5, <1>6, <1>7 DEF KeptInv, InPlace, VacuumKept, RenewKept, DepositKept
<1>8. CASE step' = "depositBase" /\ job' = job /\ moved' = {}
  <2>1. Linked("base", shop)'
    BY <1>6, <1>8 DEF Linked, ShopEmpty
  <2> QED
    BY <1>2, <1>5, <1>8, <2>1 DEF KeptInv, InPlace, VacuumKept, RenewKept, DepositKept
<1>9. CASE Fails
  BY <1>5, <1>9, FailsKept
<1> QED
  BY <1>1, <1>7, <1>8, <1>9

\* The copy of vacuum() is put beside the original, ...
LEMMA FillVacuumKept ==
    ASSUME ~ByRename, LayoutInv, MovedInv, KeptInv,
           \/ removeItems("clearVacuum", "vacuum", TRUE, "fillVacuum")
           \/ moveItems("fillVacuum", "temp", "vacuum", TRUE, "emptyTemp")
    PROVE  KeptInv'
<1>1. /\ step \in {"clearVacuum", "fillVacuum"} /\ job = "vacuum"
  BY DEF removeItems, moveItems, LayoutInv, ControlInv, JobFits
<1>2. /\ Exists("base", "db") \/ Deposited
      /\ Exists("temp", "db") /\ Kept("temp")
  BY <1>1 DEF KeptInv, InPlace, VacuumKept
<1>3. /\ "vacuum" \in Directories /\ "vacuum" \notin Workshops /\ "vacuum" # "base"
      /\ "temp" \in Directories /\ "base" \in Directories /\ "temp" # "vacuum"
  BY DirectoryFacts
<1>4. CASE removeItems("clearVacuum", "vacuum", TRUE, "fillVacuum")
  <2>1. /\ Rearranges /\ owed' \subseteq owed /\ OthersStay("vacuum")
        /\ \/ step' = "clearVacuum" /\ job' = job
           \/ /\ step' = "fillVacuum" /\ job' = job /\ inode' = inode
              /\ \A f \in Files : inode["vacuum"][f] = None
           \/ Fails /\ inode' = inode
    BY <1>3, <1>4, RemoveKeeps
  <2>2. (Exists("base", "db")' \/ Deposited') /\ Kept(Launched)'
    BY <1>2, <1>3, <2>1, AsideKept
  <2>3. Exists("temp", "db")' /\ Kept("temp")'
    BY <1>2, <1>3, <2>1, OthersStayKept
  <2>4. moved' = {}
    BY <1>4, RemovalLeavesList DEF Moving, Putting
  <2>5. CASE Fails
    BY <2>2, <2>5, FailsKept
  <2>6. CASE ~Fails
    <3>1. step' = "fillVacuum" => Linked("temp", "vacuum")'
      BY <2>1, <2>4, <2>6 DEF Linked
    <3> QED
      BY <1>1, <2>1, <2>2, <2>3, <2>6, <3>1 DEF KeptInv, InPlace, VacuumKept, RenewKept, DepositKept
  <2> QED
    BY <2>5, <2>6
<1>5. CASE moveItems("fillVacuum", "temp", "vacuum", TRUE, "emptyTemp")
  <2>1. Linked("temp", "vacuum")
    BY <1>5 DEF moveItems, KeptInv, VacuumKept
  <2>2. /\ Rearranges /\ owed' \subseteq owed /\ OthersStay("vacuum")
        /\ \/ step' = "fillVacuum" /\ job' = job /\ Linked("temp", "vacuum")'
           \/ step' = "emptyTemp" /\ job' = job /\ inode' = inode /\ Delivers("temp", "vacuum")
           \/ Fails
    BY <1>3, <1>5, <2>1, MoveKeeps
  <2>3. (Exists("base", "db")' \/ Deposited') /\ Kept(Launched)'
    BY <1>2, <1>3, <2>2, AsideKept
  <2>4. Exists("temp", "db")' /\ Kept("temp")'
    BY <1>2, <1>3, <2>2, OthersStayKept
  <2>5. CASE step' = "fillVacuum" /\ job' = job /\ Linked("temp", "vacuum")'
    BY <2>3, <2>4, <2>5 DEF KeptInv, InPlace, VacuumKept, RenewKept, DepositKept
  <2>6. CASE step' = "emptyTemp" /\ job' = job /\ inode' = inode /\ Delivers("temp", "vacuum")
    <3>1. (Exists("vacuum", "db")' /\ Kept("vacuum")') \/ Deposited'
      <4>1. CASE inode["vacuum"]["db"] = inode["temp"]["db"] /\ inode["vacuum"]["wal"] = inode["temp"]["wal"]
        <5>1. inode'["vacuum"]["db"] = inode'["temp"]["db"] /\ inode'["vacuum"]["wal"] = inode'["temp"]["wal"]
          BY <2>6, <4>1
        <5>2. GoodRows("vacuum")' = GoodRows("temp")'
          BY <5>1, GoodRowsIsAfter
        <5> QED
          BY <2>4, <5>1, <5>2 DEF Kept, Exists
      <4>2. CASE owed' \cap GoodRows("temp") = {}
        <5>1. InShops' = InShops
          BY <1>3, <2>2, OthersStayKept, ShopsStayRows
        <5> QED
          BY <1>2, <2>2, <4>2, <5>1 DEF Kept, Deposited
      <4> QED
        BY <2>6, <4>1, <4>2 DEF Delivers
    <3> QED
      BY <1>1, <2>3, <2>6, <3>1 DEF KeptInv, InPlace, VacuumKept, RenewKept, DepositKept
  <2>7. CASE Fails
    BY <2>3, <2>7, FailsKept
  <2> QED
    BY <2>2, <2>5, <2>6, <2>7
<1> QED
  BY <1>4, <1>5

\* ... temp goes, ...
LEMMA EmptyTempVacuumKept ==
    ASSUME LayoutInv, KeptInv, job = "vacuum",
           \/ removeItems("emptyTemp", "temp", TRUE, "dropTemp")
           \/ removeDirectories("dropTemp", {"temp"},
                                IF job = "vacuum" THEN "removeBase" ELSE "depositBase")
    PROVE  KeptInv'
<1>1. step \in {"emptyTemp", "dropTemp"}
  BY DEF removeItems, removeDirectories
<1>2. /\ Exists("base", "db") \/ Deposited
      /\ (Exists("vacuum", "db") /\ Kept("vacuum")) \/ Deposited
  BY <1>1 DEF KeptInv, InPlace, VacuumKept
<1>3. /\ "temp" \in Directories /\ "temp" \notin Workshops /\ "vacuum" \in Directories
      /\ {"temp"} \subseteq Directories /\ "temp" # "base" /\ "temp" # "vacuum"
  BY DirectoryFacts
<1>4. /\ Rearranges /\ owed' \subseteq owed /\ OthersStay("temp")
      /\ \/ job' = job /\ step' \in {"emptyTemp", "dropTemp", "removeBase"}
         \/ Fails
  <2>1. CASE removeItems("emptyTemp", "temp", TRUE, "dropTemp")
    BY <1>3, <2>1, RemoveKeeps
  <2>2. CASE removeDirectories("dropTemp", {"temp"},
                               IF job = "vacuum" THEN "removeBase" ELSE "depositBase")
    <3>1. /\ Rearranges /\ step' = "removeBase" /\ job' = job /\ owed' \subseteq owed
          /\ \A r \in Directories : r \notin {"temp"} => StaysAt(r)
      BY <1>3, <2>2, DirectoriesKeep
    <3> QED
      BY <3>1 DEF OthersStay
  <2> QED
    BY <2>1, <2>2
<1>5. (Exists("base", "db")' \/ Deposited') /\ Kept(Launched)'
  BY <1>2, <1>3, <1>4, AsideKept
<1>6. (Exists("vacuum", "db")' /\ Kept("vacuum")') \/ Deposited'
  BY <1>2, <1>3, <1>4, OthersStayKept
<1>7. CASE Fails
  BY <1>5, <1>7, FailsKept
<1>8. CASE job' = job /\ step' \in {"emptyTemp", "dropTemp", "removeBase"}
  BY <1>5, <1>6, <1>8 DEF KeptInv, InPlace, VacuumKept, RenewKept, DepositKept
<1> QED
  BY <1>4, <1>7, <1>8

\* ... and the original is removed, the database first.
LEMMA RemoveBaseKept ==
    ASSUME LayoutInv, KeptInv,
           removeItems("removeBase", "base", FALSE, "takeVacuum")
    PROVE  KeptInv'
<1>1. step = "removeBase" /\ job = "vacuum"
  BY DEF removeItems, LayoutInv, ControlInv, JobFits
<1>2. (Exists("vacuum", "db") /\ Kept("vacuum")) \/ Deposited
  BY <1>1 DEF KeptInv, VacuumKept
<1>3. "base" \in Directories /\ "base" \notin Workshops /\ "vacuum" \in Directories /\ "base" # "vacuum"
  BY DirectoryFacts
<1>4. /\ Rearranges /\ owed' \subseteq owed /\ OthersStay("base")
      /\ \A f \in Files : inode'["base"][f] \in {inode["base"][f], None}
      /\ Exists("base", "db") => Fails \/ ~Exists("base", "db")'
      /\ \/ step' = "removeBase" /\ job' = job
         \/ /\ step' = "takeVacuum" /\ job' = job /\ inode' = inode
            /\ \A f \in Files : inode["base"][f] = None
         \/ Fails /\ inode' = inode
  BY <1>3, RemoveKeeps
<1>5. (Exists("vacuum", "db")' /\ Kept("vacuum")') \/ Deposited'
  BY <1>2, <1>3, <1>4, OthersStayKept
<1>6. CASE Fails /\ inode' = inode
  <2>1. Vacuuming
    BY <1>1 DEF Vacuuming
  <2>2. InShops' = InShops
    BY <1>3, <1>4, OthersStayKept, ShopsStayRows
  <2>3. Exists("base", "db")' \/ Deposited'
    BY <1>2, <1>4, <1>5, <1>6, <2>1, <2>2, VacuumDiscards DEF Deposited
  <2>4. Exists("base", "db")' => Kept("base")'
    <3>1. Exists("base", "db")' => Exists("base", "db")
      BY <1>6 DEF Exists
    <3>2. GoodRows("base")' = GoodRows("base")
      BY <1>3, <1>4, <1>6, StaysRows DEF StaysAt
    <3> QED
      BY <1>4, <2>2, <3>1, <3>2, KeptNow DEF Kept
  <2>5. Kept(Launched)'
    BY <2>3, <2>4, KeptAfter
  <2> QED
    BY <1>6, <2>3, <2>5, FailsKept
<1>7. CASE ~Fails
  <2>1. ~Exists("base", "db")'
    BY <1>4, <1>7, FileFacts DEF Exists
  <2>2. Kept(Launched)'
    BY <1>5, <2>1, KeptAfter
  <2>3. step' \in {"removeBase", "takeVacuum"} /\ job' = job
    BY <1>4, <1>7
  <2> QED
    BY <1>5, <2>2, <2>3 DEF KeptInv, InPlace, VacuumKept, RenewKept, DepositKept
<1>8. job' = job => ~Fails
  BY <1>1 DEF Fails
<1> QED
  BY <1>4, <1>6, <1>7, <1>8

\* deposit() and retrieve() give the files their names in the workshop, ...
LEMMA DepositBaseKept ==
    ASSUME ~ByRename, LayoutInv, KeptInv,
           moveItems("depositBase", "base", shop, FALSE, "emptyBase")
    PROVE  KeptInv'
<1>1. /\ step = "depositBase" /\ job \in {"deposit", "retrieve"} /\ shop \in Workshops
  BY DEF moveItems, LayoutInv, ControlInv, JobFits
<1>2. (Exists("base", "db") \/ Deposited) /\ Linked("base", shop) /\ Kept("base")
  <2>1. Deposited => Kept("base")
    BY DEF Deposited, Kept
  <2> QED
    BY <1>1, <2>1, KeptNow DEF KeptInv, InPlace, DepositKept
<1>3. PICK s \in Workshops : s = shop
  BY <1>1
<1>4. /\ s \in Directories /\ s # "base" /\ s # "temp" /\ Workshops \subseteq Directories
      /\ "base" \in Directories /\ "temp" \in Directories
  BY DirectoryFacts
<1>5. /\ Rearranges /\ owed' \subseteq owed /\ shop' = shop /\ OthersStay(s)
      /\ \/ step' = "depositBase" /\ job' = job /\ Linked("base", s)'
         \/ step' = "emptyBase" /\ job' = job /\ inode' = inode /\ Delivers("base", s)
         \/ Fails
  <2>1. moveItems("depositBase", "base", s, FALSE, "emptyBase") /\ Linked("base", s)
    BY <1>2, <1>3
  <2> QED
    BY <1>4, <2>1, MoveKeeps
<1>6. \A r \in Directories : r # s => GoodRows(r)' = GoodRows(r) /\ Exists(r, "db")' = Exists(r, "db")
  BY <1>5, StaysRows, FileFacts DEF OthersStay
<1>7. GoodRows(s) \subseteq GoodRows("base")
  <2>1. inode[s]["db"] \in {inode["base"]["db"], None} /\ inode[s]["wal"] \in {inode["base"]["wal"], None}
    BY <1>2, <1>3, FileFacts DEF Linked
  <2>2. PICK d, w, e, v : /\ d = inode["base"]["db"] /\ w = inode["base"]["wal"]
                          /\ e = inode[s]["db"] /\ v = inode[s]["wal"]
    OBVIOUS
  <2>3. GoodIn(e, v, content) \subseteq GoodIn(d, w, content)
    BY <2>1, <2>2 DEF GoodIn
  <2> QED
    BY <2>2, <2>3, GoodRowsIs
<1>8. Kept("base")'
  <2> SUFFICES ASSUME NEW x \in owed', x \notin GoodRows("base")' PROVE x \in InShops'
    BY DEF Kept
  <2>1. x \notin GoodRows("base")
    BY <1>4, <1>6
  <2>2. PICK w \in Workshops : x \in GoodRows(w)
    BY <1>2, <1>5, <2>1 DEF Kept, InShops
  <2>3. w # s
    BY <1>7, <2>1, <2>2
  <2>4. x \in GoodRows(w)'
    BY <1>4, <1>6, <2>2, <2>3
  <2> QED
    BY <2>4 DEF InShops
<1>9. ~Exists("base", "db")' => Deposited'
  <2> SUFFICES ASSUME ~Exists("base", "db")' PROVE Deposited'
    OBVIOUS
  <2>1. GoodRows("base")' = {}
    BY DEF GoodRows, StateOf
  <2> QED
    BY <1>8, <2>1 DEF Kept, Deposited
<1>10. (Exists("base", "db")' \/ Deposited') /\ Kept(Launched)'
  BY <1>8, <1>9, KeptAfter
<1>11. job = "retrieve" => Exists("temp", "db")' /\ (owed \subseteq GoodRows("temp"))'
  BY <1>1, <1>4, <1>5, <1>6 DEF KeptInv, DepositKept
<1>12. CASE step' = "depositBase" /\ job' = job /\ Linked("base", s)'
  <2>1. Linked("base", shop)'
    BY <1>3, <1>5, <1>12 DEF Linked
  <2> QED
    BY <1>10, <1>11, <1>12, <2>1 DEF KeptInv, InPlace, VacuumKept, RenewKept, DepositKept
<1>13. CASE step' = "emptyBase" /\ job' = job /\ inode' = inode /\ Delivers("base", s)
  <2>1. ASSUME inode[s]["db"] = inode["base"]["db"], inode[s]["wal"] = inode["base"]["wal"]
        PROVE  Deposited'
    <3>1. inode'[s]["db"] = inode'["base"]["db"] /\ inode'[s]["wal"] = inode'["base"]["wal"]
      BY <1>13, <2>1
    <3>2. GoodRows(s)' = GoodRows("base")'
      BY <3>1, GoodRowsIsAfter
    <3> QED
      BY <1>8, <3>2 DEF Deposited, Kept, InShops
  <2>2. ASSUME owed' \cap GoodRows("base") = {}
        PROVE  Deposited'
    BY <1>4, <1>6, <1>8, <2>2 DEF Deposited, Kept
  <2>3. Deposited'
    BY <1>13, <2>1, <2>2 DEF Delivers
  <2> QED
    BY <1>10, <1>11, <1>13, <2>3 DEF KeptInv, InPlace, VacuumKept, RenewKept, DepositKept
<1>14. CASE Fails
  BY <1>10, <1>14, FailsKept
<1> QED
  BY <1>5, <1>12, <1>13, <1>14

\* ... remove the old names ...
LEMMA EmptyBaseKept ==
    ASSUME LayoutInv, MovedInv, KeptInv,
           removeItems("emptyBase", "base", FALSE,
                       IF job = "deposit" THEN "takeRenew" ELSE "putTemp")
    PROVE  KeptInv'
<1>1. step = "emptyBase" /\ job \in {"deposit", "retrieve"}
  BY DEF removeItems, LayoutInv, ControlInv, JobFits
<1>2. Deposited
  BY <1>1 DEF KeptInv, DepositKept
<1>3. "base" \in Directories /\ "base" \notin Workshops /\ "temp" \in Directories /\ "temp" # "base"
  BY DirectoryFacts
<1>4. PICK next : next = IF job = "deposit" THEN "takeRenew" ELSE "putTemp"
  OBVIOUS
<1>5. /\ Rearranges /\ owed' \subseteq owed /\ OthersStay("base")
      /\ \/ step' = "emptyBase" /\ job' = job
         \/ step' = next /\ job' = job /\ inode' = inode /\ \A f \in Files : inode["base"][f] = None
         \/ Fails /\ inode' = inode
  <2>1. removeItems("emptyBase", "base", FALSE, next)
    BY <1>4
  <2> QED
    BY <1>3, <2>1, RemoveKeeps
<1>6. Deposited'
  BY <1>2, <1>3, <1>5, OthersStayKept
<1>7. Kept(Launched)'
  BY <1>6, KeptAfter
<1>8. job = "retrieve" => Exists("temp", "db")' /\ (owed \subseteq GoodRows("temp"))'
  <2>1. job = "retrieve" => Exists("temp", "db") /\ owed \subseteq GoodRows("temp")
    BY <1>1 DEF KeptInv, DepositKept
  <2> QED
    BY <1>3, <1>5, <2>1, OthersStayKept
<1>9. CASE step' = "emptyBase" /\ job' = job
  BY <1>6, <1>7, <1>8, <1>9 DEF KeptInv, InPlace, VacuumKept, RenewKept, DepositKept
<1>10. CASE step' = next /\ job' = job /\ inode' = inode /\ \A f \in Files : inode["base"][f] = None
  <2>1. moved' = {}
    BY RemovalLeavesList DEF Moving, Putting
  <2>2. Linked("temp", "base")'
    BY <1>10, <2>1 DEF Linked
  <2>3. step' = "takeRenew" \/ (step' = "putTemp" /\ job = "retrieve")
    BY <1>1, <1>4, <1>10
  <2> QED
    BY <1>6, <1>7, <1>8, <1>10, <2>2, <2>3 DEF KeptInv, InPlace, VacuumKept, RenewKept, DepositKept
<1>11. CASE Fails
  BY <1>6, <1>7, <1>11, FailsKept
<1> QED
  BY <1>5, <1>9, <1>10, <1>11

\* ... and retrieve() puts the restored database in their place.
LEMMA PutTempKept ==
    ASSUME ~ByRename, LayoutInv, LayoutInv', KeptInv,
           moveItems("putTemp", "temp", "base", FALSE, "emptyTemp")
    PROVE  KeptInv'
<1>1. step = "putTemp" /\ job = "retrieve"
  BY DEF moveItems, LayoutInv, ControlInv, JobFits
<1>2. Deposited /\ Linked("temp", "base") /\ Exists("temp", "db") /\ owed \subseteq GoodRows("temp")
  BY <1>1 DEF KeptInv, DepositKept
<1>3. "base" \in Directories /\ "base" \notin Workshops /\ "temp" \in Directories /\ "temp" # "base"
  BY DirectoryFacts
<1>4. /\ Rearranges /\ owed' \subseteq owed /\ OthersStay("base")
      /\ \/ step' = "putTemp" /\ job' = job /\ Linked("temp", "base")'
         \/ step' = "emptyTemp" /\ job' = job /\ inode' = inode /\ Delivers("temp", "base")
         \/ Fails
  BY <1>2, <1>3, MoveKeeps
<1>5. Deposited' /\ Exists("temp", "db")' /\ (owed \subseteq GoodRows("temp"))'
  BY <1>2, <1>3, <1>4, OthersStayKept
<1>6. Kept(Launched)'
  BY <1>5, KeptAfter
<1>7. CASE step' = "putTemp" /\ job' = job /\ Linked("temp", "base")'
  BY <1>1, <1>5, <1>6, <1>7 DEF KeptInv, InPlace, VacuumKept, RenewKept, DepositKept
<1>8. CASE step' = "emptyTemp" /\ job' = job /\ inode' = inode /\ Delivers("temp", "base")
  <2>1. ASSUME inode["base"]["db"] = inode["temp"]["db"], inode["base"]["wal"] = inode["temp"]["wal"]
        PROVE  (owed \subseteq GoodRows("base"))'
    <3>1. inode'["base"]["db"] = inode'["temp"]["db"] /\ inode'["base"]["wal"] = inode'["temp"]["wal"]
      BY <1>8, <2>1
    <3>2. GoodRows("base")' = GoodRows("temp")'
      BY <3>1, GoodRowsIsAfter
    <3> QED
      BY <1>5, <3>2
  <2>2. ASSUME owed' \cap GoodRows("temp") = {}
        PROVE  (owed \subseteq GoodRows("base"))'
    BY <1>2, <1>4, <2>2
  <2>3. (owed \subseteq GoodRows("base"))'
    BY <1>8, <2>1, <2>2 DEF Delivers
  <2> QED
    BY <1>1, <1>5, <1>6, <1>8, <2>3 DEF KeptInv, InPlace, VacuumKept, RenewKept, DepositKept
<1>9. CASE Fails
  BY <1>5, <1>6, <1>9, FailsKept
<1> QED
  BY <1>4, <1>7, <1>8, <1>9

\* The deposited databases are discarded when the one in use has all rows.
LEMMA DiscardKept ==
    ASSUME LayoutInv, KeptInv,
           \/ job = "retrieve" /\ removeItems("emptyTemp", "temp", FALSE, "discard")
           \/ job = "retrieve" /\ removeItems("emptyTemp", "temp", FALSE, "return")
           \/ removeDirectories("discard", {"renew", "vacuum"} \cup Workshops, "return")
           \/ removeDirectories("dropWorkshops", Workshops, "return")
    PROVE  KeptInv'
<1>1. (job = "retrieve" /\ step = "emptyTemp") \/ step \in {"discard", "dropWorkshops"}
  BY DEF removeItems, removeDirectories
<1>2. (Exists("base", "db") \/ Deposited) /\ owed \subseteq GoodRows("base")
  BY <1>1 DEF KeptInv, InPlace, DepositKept
<1>3. /\ Rearranges /\ owed' \subseteq owed /\ StaysAt("base")
      /\ \/ job' = "retrieve" /\ step' \in {"emptyTemp", "discard"}
         \/ step' = "return"
         \/ Fails
  <2>1. CASE job = "retrieve" /\ removeItems("emptyTemp", "temp", FALSE, "discard")
    BY <2>1, RemoveKeeps, DirectoryFacts DEF OthersStay
  <2>2. CASE job = "retrieve" /\ removeItems("emptyTemp", "temp", FALSE, "return")
    BY <2>2, RemoveKeeps, DirectoryFacts DEF OthersStay
  <2>3. CASE removeDirectories("discard", {"renew", "vacuum"} \cup Workshops, "return")
    <3>1. PICK ps : ps = {"renew", "vacuum"} \cup Workshops
      OBVIOUS
    <3>2. ps \in SUBSET Directories /\ "base" \notin ps /\ "base" \in Directories
      BY <3>1, DirectoryFacts
    <3>3. removeDirectories("discard", ps, "return")
      BY <2>3, <3>1
    <3> QED
      BY <3>2, <3>3, DirectoriesKeep
  <2>4. CASE removeDirectories("dropWorkshops", Workshops, "return")
    BY <2>4, DirectoriesKeep, DirectoryFacts
  <2> QED
    BY <2>1, <2>2, <2>3, <2>4
<1>4. GoodRows("base")' = GoodRows("base") /\ Exists("base", "db")' = Exists("base", "db")
  BY <1>3, StaysRows, DirectoryFacts, FileFacts
<1>5. (owed \subseteq GoodRows("base"))' /\ Kept("base")'
  BY <1>2, <1>3, <1>4 DEF Kept
<1>6. Exists("base", "db")' \/ Deposited'
  <2>1. ~Exists("base", "db")' => GoodRows("base")' = {}
    BY DEF GoodRows, StateOf
  <2> QED
    BY <1>5, <2>1 DEF Deposited
<1>7. Kept(Launched)'
  BY <1>5, <1>6, KeptAfter
<1>8. CASE Fails
  BY <1>6, <1>7, <1>8, FailsKept
<1>9. CASE ~Fails
  BY <1>3, <1>5, <1>6, <1>7, <1>9 DEF KeptInv, InPlace, VacuumKept, RenewKept, DepositKept
<1> QED
  BY <1>8, <1>9

LEMMA CallsKept ==
    ASSUME ~ByRename, LayoutInv, MovedInv, LayoutInv', KeptInv, Calls
    PROVE  KeptInv'
<1>1. CASE TakeOver
  BY <1>1, TakeKept, ClearKept, PutKept, EmptyKept, DropKept DEF TakeOver
<1>2. CASE Prepare
  <2>1. step \in {"emptyTemp", "dropTemp"} /\ job # "retrieve" => job \in {"deposit", "vacuum"}
    BY DEF LayoutInv, ControlInv, JobFits
  <2>2. CASE job # "retrieve" /\ removeItems("emptyTemp", "temp", TRUE, "dropTemp")
    <3>1. job = "deposit" \/ job = "vacuum"
      BY <2>1, <2>2 DEF removeItems
    <3> QED
      BY <2>2, <3>1, PrepareRenewKept, EmptyTempVacuumKept
  <2>3. CASE removeDirectories("dropTemp", {"temp"},
                               IF job = "vacuum" THEN "removeBase" ELSE "depositBase")
    <3>1. job = "deposit" \/ job = "vacuum"
      BY <2>3 DEF removeDirectories, LayoutInv, ControlInv, JobFits
    <3> QED
      BY <2>3, <3>1, PrepareRenewKept, EmptyTempVacuumKept
  <2>4. CASE \/ removeItems("clearRenew", "renew", TRUE, "fillRenew")
             \/ moveItems("fillRenew", "temp", "renew", TRUE, "emptyTemp")
    BY <2>4, PrepareRenewKept
  <2> QED
    BY <1>2, <2>2, <2>3, <2>4, FillVacuumKept, RemoveBaseKept DEF Prepare
<1>3. CASE depositor
  BY <1>3, DepositBaseKept, EmptyBaseKept DEF depositor
<1>4. CASE UseRestored \/ removeDirectories("dropWorkshops", Workshops, "return")
  BY <1>4, PutTempKept, DiscardKept DEF UseRestored
<1> QED
  BY <1>1, <1>2, <1>3, <1>4 DEF Calls

\* No database and no log loses anything while it has a name.
KeepsContents ==
    \A j \in Named(inode) \cap Named(inode') :
       /\ j[1] \in {"db", "wal"} => content[j].rows \subseteq content'[j].rows
       /\ j[1] = "db" /\ content[j].state = "good" => content'[j].state = "good"
       /\ j[1] = "wal" => \A d \in Named(inode') : content[j].of = d => content'[j].of = d

LEMMA RowsGrow ==
    ASSUME inode \in Names, inode' \in Names, KeepsContents, NEW p \in Directories, SameAt(p)
    PROVE  GoodRows(p) \subseteq GoodRows(p)'
<1>1. PICK m, n, d, w : m = inode /\ n = inode' /\ d = m[p]["db"] /\ w = m[p]["wal"]
  OBVIOUS
<1>2. m \in Names /\ n \in Names /\ n[p]["db"] = d /\ n[p]["wal"] = w
  BY <1>1 DEF SameAt
<1>3. /\ d # None => d \in Named(m) \cap Named(n) /\ d[1] = "db"
      /\ w # None => w \in Named(m) \cap Named(n) /\ w[1] = "wal"
  BY <1>1, <1>2, NamedInodes, FileFacts DEF Names
<1>4. /\ d # None => /\ content[d].rows \subseteq content'[d].rows
                     /\ content[d].state = "good" => content'[d].state = "good"
      /\ d # None /\ w # None => /\ content[w].rows \subseteq content'[w].rows
                                 /\ content[w].of = d => content'[w].of = d
  BY <1>1, <1>3 DEF KeepsContents
<1>5. GoodIn(d, w, content) \subseteq GoodIn(d, w, content')
  BY <1>4 DEF GoodIn
<1> QED
  BY <1>1, <1>2, <1>5, GoodRowsIs, GoodRowsIsAfter

LEMMA ShopsGrow ==
    ASSUME inode \in Names, inode' \in Names, KeepsContents, \A w \in Workshops : SameAt(w)
    PROVE  InShops \subseteq InShops'
<1>1. \A w \in Workshops : GoodRows(w) \subseteq GoodRows(w)'
  BY RowsGrow, DirectoryFacts
<1> QED
  BY <1>1 DEF InShops

\* A step that writes to no database and no log that has a name already.
LEMMA OthersKeepContents ==
    ASSUME NEW S, Changes(S), \A j \in S : j \in Named(inode) => j[1] \notin {"db", "wal"}
    PROVE  KeepsContents
<1> SUFFICES ASSUME NEW j \in Named(inode) \cap Named(inode'), j[1] \in {"db", "wal"}
             PROVE  Untouched(j)
  BY DEF KeepsContents, Untouched
<1> QED
  BY DEF Changes

\* Steps after which nothing runs.
LEMMA IdleKept ==
    ASSUME Kept(Launched)', step' \in {"idle", "takeVacuum", "return", "serializeFirst", "serializeLast"}
    PROVE  KeptInv'
BY DEF KeptInv, InPlace, VacuumKept, RenewKept, DepositKept

LEMMA LifeKept ==
    ASSUME LayoutInv, KeptInv, initialize \/ return \/ close \/ crash
    PROVE  KeptInv'
<1>1. step' \in {"idle", "takeVacuum"} /\ owed' \subseteq owed
  BY DEF initialize, return, close, crash, LayoutInv, ControlInv, JobFits
<1>2. Rearranges /\ OthersStay("temp")
  <2>1. CASE initialize \/ return \/ close
    <3>1. Rearranges /\ inode' = inode
      BY <2>1, UnchangedRearranges DEF initialize, return, close, LayoutInv
    <3> QED
      BY <3>1 DEF OthersStay, StaysAt
  <2>2. CASE crash
    <3>1. Rearranges /\ Drops("temp", Files)
      BY <2>2, CrashDrops DEF crash, LayoutInv
    <3> QED
      BY <3>1 DEF OthersStay, StaysAt, Drops
  <2> QED
    BY <2>1, <2>2
<1>3. /\ Deposited => Deposited'
      /\ \A r \in {"base", "vacuum", "renew"} :
            /\ Kept(r) => Kept(r)'
            /\ Exists(r, "db")' <=> Exists(r, "db")
  BY <1>1, <1>2, OthersStayKept, DirectoryFacts
<1>4. Kept(Launched)'
  BY <1>3, KeptNow, KeptAfter
<1> QED
  BY <1>1, <1>4, IdleKept

LEMMA CreateKept ==
    ASSUME LayoutInv, LayoutInv', KeptInv, create
    PROVE  KeptInv'
<1>1. step = "create" /\ owed' \subseteq owed
  BY CreateEffect
<1>2. inode \in Names /\ inode' \in Names
  BY DEF LayoutInv
<1>3. step' = "return" \/ (Fails /\ Rearranges /\ inode' = inode)
  BY CreateEffect
<1>4. CASE Rearranges /\ inode' = inode
  <2>1. OthersStay("temp")
    BY <1>4 DEF OthersStay, StaysAt
  <2>2. /\ Deposited => Deposited'
        /\ \A r \in {"base", "vacuum", "renew"} :
              /\ Kept(r) => Kept(r)'
              /\ Exists(r, "db")' <=> Exists(r, "db")
    BY <1>1, <1>4, <2>1, OthersStayKept, DirectoryFacts
  <2>3. Kept(Launched)'
    BY <2>2, KeptNow, KeptAfter
  <2>4. Exists("base", "db")' \/ Deposited'
    BY <1>1, <2>2 DEF KeptInv, RenewKept
  <2> QED
    BY <1>3, <2>3, <2>4, IdleKept, FailsKept
<1>5. CASE /\ ~Exists("base", "db") /\ step' = "return"
           /\ \E i \in Inodes : /\ i \notin Named(inode) /\ i[1] = "db"
                                /\ Changes({i}) /\ Gets("base", "db", i)
  <2>1. PICK i \in Inodes : i \notin Named(inode) /\ Changes({i}) /\ Gets("base", "db", i)
    BY <1>5
  <2>2. KeepsContents
    BY <2>1, OthersKeepContents
  <2>3. \A w \in Workshops : SameAt(w)
    BY <2>1, DirectoryFacts, FileFacts DEF Gets, SameAt
  <2>4. Deposited
    BY <1>1, <1>5 DEF KeptInv, RenewKept
  <2>5. Deposited'
    BY <1>1, <1>2, <2>2, <2>3, <2>4, ShopsGrow DEF Deposited
  <2> QED
    BY <1>5, <2>5, KeptAfter, IdleKept
<1> QED
  BY <1>4, <1>5, CreateEffect

\* A step that keeps the database in use and what was written.
LEMMA BaseGrowsKept ==
    ASSUME LayoutInv, LayoutInv', KeptInv, Exists("base", "db"), owed' \subseteq owed, KeepsContents,
           SameAt("base"), \A w \in Workshops : SameAt(w)
    PROVE  Kept("base")' /\ Exists("base", "db")' /\ Kept(Launched)'
<1>1. inode \in Names /\ inode' \in Names
  BY DEF LayoutInv
<1>2. Kept("base")
  BY KeptNow
<1>3. GoodRows("base") \subseteq GoodRows("base")' /\ InShops \subseteq InShops'
  BY <1>1, RowsGrow, ShopsGrow, DirectoryFacts
<1>4. Kept("base")' /\ Exists("base", "db")'
  BY <1>2, <1>3 DEF Kept, SameAt, Exists
<1> QED
  BY <1>4, KeptAfter

LEMMA InsertKept ==
    ASSUME LayoutInv, LayoutInv', KeptInv, insert
    PROVE  KeptInv'
<1>1. /\ job = "open" /\ step' = step /\ spent.rows + 1 \in Rows
      /\ owed' = owed \cup {spent.rows + 1}
  BY InsertEffect
<1>2. PICK k, d, m, n : k = spent.rows + 1 /\ d = Database /\ m = inode /\ n = inode'
  OBVIOUS
<1>3. PICK i \in Inodes :
         /\ i[1] = "wal"
         /\ Changes({i, d}) /\ Gets("base", "wal", i)
         /\ content'[i].of = d /\ k \in content'[i].rows
         /\ content'[d].state = "good" /\ content'[d].rows = content[d].rows
         /\ content[d].state # "bad"
         /\ \/ i \notin Named(m) /\ ~(m["base"]["wal"] # None /\ content[d].state = "good")
            \/ /\ i = m["base"]["wal"] /\ content[d].state = "good"
               /\ content[i].rows \subseteq content'[i].rows
  BY <1>2, InsertEffect DEF Exists
<1>4. m \in Names /\ n \in Names
  BY <1>2 DEF LayoutInv
<1>5. d \in Named(m) /\ d[1] = "db" /\ d # None /\ d = m["base"]["db"] /\ Exists("base", "db")
  BY <1>1, <1>2, DatabaseInUse, NoneIsNoInode DEF Database
<1>6. n["base"]["db"] = d /\ n["base"]["wal"] = i /\ i # None /\ i # d
  BY <1>2, <1>3, <1>5, DirectoryFacts, FileFacts, NoneIsNoInode DEF Gets
<1>7. d \in Named(n) /\ i \in Named(n)
  BY <1>4, <1>5, <1>6, NamedInodes, DirectoryFacts, FileFacts
<1>8. content[d].state = "good" /\ m["base"]["wal"] # None => content[m["base"]["wal"]].of = d
  BY <1>2, <1>5 DEF LayoutInv, LogBelongs, StateOf, Exists, Database
<1>9. KeepsContents
  <2> SUFFICES ASSUME NEW j \in Named(m) \cap Named(n), j[1] \in {"db", "wal"}
               PROVE  /\ content[j].rows \subseteq content'[j].rows
                      /\ j[1] = "db" /\ content[j].state = "good" => content'[j].state = "good"
                      /\ j[1] = "wal" => \A e \in Named(n) : content[j].of = e => content'[j].of = e
    BY <1>2 DEF KeepsContents
  <2>1. CASE j = d
    BY <1>3, <1>5, <2>1
  <2>2. CASE j = i
    <3>1. i = m["base"]["wal"] /\ content[d].state = "good" /\ content[i].rows \subseteq content'[i].rows
      BY <1>3, <2>2
    <3>2. content[i].of = d
      BY <1>6, <1>8, <3>1
    <3> QED
      BY <1>3, <2>2, <3>1, <3>2
  <2>3. CASE j \notin {i, d}
    <3>1. Untouched(j)
      BY <1>2, <1>3, <2>3 DEF Changes
    <3> QED
      BY <1>2, <3>1 DEF Untouched
  <2> QED
    BY <2>1, <2>2, <2>3
<1>10. \A w \in Workshops : SameAt(w)
  BY <1>3, DirectoryFacts, FileFacts DEF Gets, SameAt
<1>11. InShops \subseteq InShops'
  BY <1>2, <1>4, <1>9, <1>10, ShopsGrow
<1>12. GoodRows("base")' = GoodIn(d, i, content')
  BY <1>2, <1>6, GoodRowsIsAfter
<1>13. GoodRows("base") \cup {k} \subseteq GoodRows("base")'
  <2>1. GoodIn(d, i, content') = content[d].rows \cup content'[i].rows
    BY <1>3, <1>5, <1>6 DEF GoodIn
  <2>2. GoodRows("base") = GoodIn(d, m["base"]["wal"], content)
    BY <1>2, <1>5, GoodRowsIs
  <2>3. GoodIn(d, m["base"]["wal"], content) \subseteq content[d].rows \cup content'[i].rows
    BY <1>3 DEF GoodIn
  <2> QED
    BY <1>3, <1>12, <2>1, <2>2, <2>3
<1>14. Kept("base")
  BY <1>5, KeptNow
<1>15. Kept("base")' /\ Exists("base", "db")'
  BY <1>1, <1>2, <1>5, <1>6, <1>11, <1>13, <1>14 DEF Kept, Exists
<1>16. step' = "idle"
  BY <1>1 DEF LayoutInv, ControlInv, JobFits
<1> QED
  BY <1>15, <1>16, KeptAfter, IdleKept

LEMMA CheckpointKept ==
    ASSUME LayoutInv, LayoutInv', KeptInv, checkpoint
    PROVE  KeptInv'
<1>1. PICK d, m, n : d = Database /\ m = inode /\ n = inode'
  OBVIOUS
<1>2. /\ job = "open" /\ step' = step /\ owed' \subseteq owed
      /\ Changes({d}) /\ Gets("base", "wal", None)
      /\ content'[d].rows = FileRows("base")
      /\ content[d].state = "good" /\ content'[d].state = "good"
  BY <1>1, CheckpointEffect
<1>3. m \in Names /\ n \in Names
  BY <1>1 DEF LayoutInv
<1>4. d \in Named(m) /\ d[1] = "db" /\ d # None /\ d = m["base"]["db"] /\ Exists("base", "db")
  BY <1>1, <1>2, DatabaseInUse, NoneIsNoInode DEF Database
<1>5. n["base"]["db"] = d /\ n["base"]["wal"] = None
  BY <1>1, <1>2, <1>4, DirectoryFacts, FileFacts DEF Gets
<1>6. content[d].rows \subseteq FileRows("base") /\ GoodRows("base") = FileRows("base")
  BY <1>1, <1>2, <1>4 DEF FileRows, GoodRows, StateOf, Exists
<1>7. KeepsContents
  <2> SUFFICES ASSUME NEW j \in Named(m) \cap Named(n), j[1] \in {"db", "wal"}
               PROVE  /\ content[j].rows \subseteq content'[j].rows
                      /\ j[1] = "db" /\ content[j].state = "good" => content'[j].state = "good"
                      /\ j[1] = "wal" => \A e \in Named(n) : content[j].of = e => content'[j].of = e
    BY <1>1 DEF KeepsContents
  <2>1. CASE j = d
    BY <1>2, <1>4, <1>6, <2>1
  <2>2. CASE j # d
    <3>1. Untouched(j)
      BY <1>1, <1>2, <2>2 DEF Changes
    <3> QED
      BY <1>1, <3>1 DEF Untouched
  <2> QED
    BY <2>1, <2>2
<1>8. \A w \in Workshops : SameAt(w)
  BY <1>2, DirectoryFacts, FileFacts DEF Gets, SameAt
<1>9. InShops \subseteq InShops'
  BY <1>1, <1>3, <1>7, <1>8, ShopsGrow
<1>10. GoodRows("base")' = FileRows("base")
  <2>1. GoodRows("base")' = GoodIn(d, None, content')
    BY <1>1, <1>5, GoodRowsIsAfter
  <2> QED
    BY <1>2, <1>4, <2>1 DEF GoodIn
<1>11. Kept("base")
  BY <1>4, KeptNow
<1>12. Kept("base")' /\ Exists("base", "db")'
  BY <1>1, <1>2, <1>4, <1>5, <1>6, <1>9, <1>10, <1>11 DEF Kept, Exists
<1>13. step' = "idle"
  BY <1>2 DEF LayoutInv, ControlInv, JobFits
<1> QED
  BY <1>12, <1>13, KeptAfter, IdleKept

\* What damage() takes away is not owed any more.
LEMMA DamageKept ==
    ASSUME LayoutInv, KeptInv, damage
    PROVE  KeptInv'
<1>1. job = "open" /\ step' = step /\ owed' = owed \cap Intact'
  BY DamageEffect
<1>2. Kept(Launched)'
  BY <1>1 DEF Kept, Intact, InShops
<1>3. step' = "idle"
  BY <1>1 DEF LayoutInv, ControlInv, JobFits
<1> QED
  BY <1>2, <1>3, IdleKept

LEMMA SetClockKept ==
    ASSUME LayoutInv, LayoutInv', KeptInv, setClock
    PROVE  KeptInv'
<1>1. /\ job = "open" /\ step' = step /\ owed' = owed /\ inode' = inode
      /\ \A i \in Inodes : /\ content'[i].rows = content[i].rows
                           /\ content'[i].state = content[i].state
                           /\ content'[i].of = content[i].of
  BY SetClockEffect
<1>2. KeepsContents
  BY <1>1, NamedInodes DEF KeepsContents, LayoutInv
<1>3. SameAt("base") /\ \A w \in Workshops : SameAt(w)
  BY <1>1 DEF SameAt
<1>4. Exists("base", "db")
  BY <1>1, DatabaseInUse
<1>5. Kept(Launched)'
  BY <1>1, <1>2, <1>3, <1>4, BaseGrowsKept
<1>6. step' = "idle"
  BY <1>1 DEF LayoutInv, ControlInv, JobFits
<1> QED
  BY <1>5, <1>6, IdleKept

LEMMA BackupKept ==
    ASSUME LayoutInv, LayoutInv', KeptInv, backup
    PROVE  KeptInv'
<1>1. PICK f : f = materialForSerializing
  OBVIOUS
<1>2. f \in {"first", "last"} /\ Sibling(f) \in {"first", "last"}
  BY <1>1, MaterialIsFirstOrLast DEF Sibling
<1>3. job = "open" /\ owed' \subseteq owed /\ \E i \in Inodes : Truncates(f, i)
  BY <1>1, BackupEffect
<1>4. PICK i \in Inodes : Truncates(f, i)
  BY <1>3
<1>5. PICK j : j = inode["base"][Sibling(f)]
  OBVIOUS
<1>6. i[1] = f /\ Changes({i, j}) /\ Gets("base", f, i)
  BY <1>4, <1>5 DEF Truncates
<1>7. j \in Named(inode) => j[1] \in {"first", "last"}
  BY <1>2, <1>5, NamedInodes, DirectoryFacts, FileFacts DEF LayoutInv, Names
<1>8. KeepsContents
  BY <1>2, <1>6, <1>7, OthersKeepContents
<1>9. SameAt("base") /\ \A w \in Workshops : SameAt(w)
  BY <1>2, <1>6, DirectoryFacts, FileFacts DEF Gets, SameAt
<1>10. Exists("base", "db")
  BY <1>3, DatabaseInUse
<1>11. Kept(Launched)'
  BY <1>3, <1>8, <1>9, <1>10, BaseGrowsKept
<1>12. step' \in {"serializeFirst", "serializeLast"}
  BY DEF backup
<1> QED
  BY <1>11, <1>12, IdleKept

LEMMA SerializeKept ==
    ASSUME LayoutInv, LayoutInv', KeptInv, NEW f \in {"first", "last"},
           NEW here \in {"serializeFirst", "serializeLast"}, serialize(f, here)
    PROVE  KeptInv'
<1>1. /\ step = here /\ step' = "idle" /\ owed' \subseteq owed /\ inode' = inode
      /\ \A i \in Inodes : i # inode["base"][f] => content'[i] = content[i]
  BY SerializeEffect
<1>2. \A j \in Named(inode) : j[1] \in {"db", "wal"} => j # inode["base"][f]
  BY NamedInodes, DirectoryFacts, FileFacts DEF LayoutInv, Names
<1>3. \A j \in Named(inode) : j[1] \in {"db", "wal"} => content'[j] = content[j]
  BY <1>1, <1>2, NamedInodes DEF LayoutInv
<1>4. KeepsContents
  BY <1>1, <1>3 DEF KeepsContents
<1>5. SameAt("base") /\ \A w \in Workshops : SameAt(w)
  BY <1>1 DEF SameAt
<1>6. Exists("base", "db")
  BY <1>1, DatabaseInUse DEF LayoutInv, ControlInv, JobFits
<1>7. Kept(Launched)'
  BY <1>1, <1>4, <1>5, <1>6, BaseGrowsKept
<1> QED
  BY <1>1, <1>7, IdleKept

\* temp has the rows R, and everything else stays.
LEMMA AssembledKept ==
    ASSUME LayoutInv, LayoutInv', KeptInv, Exists("base", "db"), owed' \subseteq owed,
           NEW R \in SUBSET Rows, \E m : Assembled(R, m)
    PROVE  /\ Kept(Launched)' /\ Exists("base", "db")' /\ Exists("temp", "db")'
           /\ R \subseteq GoodRows("temp")' /\ InShops \subseteq InShops'
           /\ \A w \in Workshops, f \in Files : inode'[w][f] = inode[w][f]
<1>1. PICK new, first \in Inodes : Assembles(R, new, first)
  BY AssembledEffect
<1>2. /\ new \notin Named(inode) /\ first \notin Named(inode)
      /\ Changes({new, first}) /\ InTemp(new, first)
      /\ content'[new].rows = R /\ (R # {} => content'[new].state = "good")
  BY <1>1 DEF Assembles
<1>3. KeepsContents
  BY <1>2, OthersKeepContents
<1>4. SameAt("base") /\ \A w \in Workshops : SameAt(w)
  BY <1>2, DirectoryFacts, FileFacts DEF InTemp, SameAt
<1>5. Kept(Launched)' /\ Exists("base", "db")'
  BY <1>3, <1>4, BaseGrowsKept
<1>6. inode'["temp"]["db"] = new /\ inode'["temp"]["wal"] = None /\ new # None
  BY <1>2, NoneIsNoInode DEF InTemp
<1>7. GoodRows("temp")' = GoodIn(new, None, content')
  BY <1>6, GoodRowsIsAfter
<1>8. R \subseteq GoodRows("temp")'
  BY <1>2, <1>6, <1>7 DEF GoodIn
<1>9. InShops \subseteq InShops'
  BY <1>3, <1>4, ShopsGrow DEF LayoutInv
<1>10. \A w \in Workshops, f \in Files : inode'[w][f] = inode[w][f]
  BY <1>2, DirectoryFacts DEF InTemp
<1> QED
  BY <1>5, <1>6, <1>8, <1>9, <1>10 DEF Exists

LEMMA FreeShop ==
    ASSUME deposit \/ retrieve, \A w \in Workshops, f \in Files : inode'[w][f] = inode[w][f]
    PROVE  \A f \in Files : inode'[shop'][f] = None
<1>1. PICK w : w = getUniqueWorkshopDirectory
  OBVIOUS
<1>2. w \in Workshops /\ inode[w] = NoFiles /\ shop' = w
  BY <1>1, WorkshopIsFree DEF deposit, retrieve, FreeWorkshops
<1> QED
  BY <1>2 DEF NoFiles

LEMMA OperationKept ==
    ASSUME LayoutInv, MovedInv, LayoutInv', KeptInv, deposit \/ retrieve \/ vacuum
    PROVE  KeptInv'
<1>1. job = "open" /\ owed' \subseteq owed /\ moved' = moved
  BY OperationEffect
<1>2. Exists("base", "db") /\ Kept("base")
  BY <1>1, DatabaseInUse, KeptNow
<1>3. PICK R \in SUBSET Rows : /\ \E m : Assembled(R, m)
                               /\ retrieve => R = Retrieved
                               /\ vacuum => R = restore("base")
  BY OperationEffect
<1>4. /\ Kept(Launched)' /\ Exists("base", "db")' /\ Exists("temp", "db")'
      /\ R \subseteq GoodRows("temp")' /\ InShops \subseteq InShops'
      /\ \A w \in Workshops, f \in Files : inode'[w][f] = inode[w][f]
  BY <1>1, <1>2, <1>3, AssembledKept
<1>5. moved' = {}
  BY <1>1 DEF MovedInv, Moving, Putting, LayoutInv, ControlInv, JobFits
<1>6. CASE deposit
  <2>1. job' = "deposit" /\ step' = "clearRenew"
    BY <1>6 DEF deposit, Begin
  <2>2. ShopEmpty'
    BY <1>4, <1>6, FreeShop DEF ShopEmpty
  <2> QED
    BY <1>4, <2>1, <2>2 DEF KeptInv, InPlace, VacuumKept, RenewKept, DepositKept
<1>7. CASE retrieve
  <2>1. job' = "retrieve" /\ step' = "depositBase"
    BY <1>7 DEF retrieve, Begin
  <2>2. Linked("base", shop)'
    BY <1>4, <1>5, <1>7, FreeShop DEF Linked
  <2>3. InShops \subseteq UNION {restore(w) : w \in Workshops}
    BY GoodRowsAreRestored DEF InShops
  <2>4. owed \subseteq R
    BY <1>2, <1>3, <1>7, <2>3, GoodRowsAreRestored DEF Kept, Retrieved
  <2>5. (owed \subseteq GoodRows("temp"))'
    BY <1>1, <1>4, <2>4
  <2> QED
    BY <1>4, <2>1, <2>2, <2>5 DEF KeptInv, InPlace, VacuumKept, RenewKept, DepositKept
<1>8. CASE vacuum
  <2>1. job' = "vacuum" /\ step' = "clearVacuum"
    BY <1>8 DEF vacuum, Begin
  <2>2. GoodRows("base") \subseteq R
    BY <1>3, <1>8, GoodRowsAreRestored
  <2>3. Kept("temp")'
    BY <1>1, <1>2, <1>4, <2>2 DEF Kept
  <2> QED
    BY <1>4, <2>1, <2>3 DEF KeptInv, InPlace, VacuumKept, RenewKept, DepositKept
<1> QED
  BY <1>6, <1>7, <1>8

\* The user gives up what only the deposited databases have.
LEMMA RemoveDepositedKept ==
    ASSUME LayoutInv, KeptInv, removeDeposited
    PROVE  KeptInv'
<1>1. /\ job = "open" /\ step' = "dropWorkshops" /\ UNCHANGED files
      /\ owed' = owed \cap GoodRows("base")
  BY DEF removeDeposited, Begin
<1>2. Rearranges /\ inode' = inode
  BY <1>1, UnchangedRearranges DEF LayoutInv
<1>3. GoodRows("base")' = GoodRows("base")
  BY <1>2, SameRows, DirectoryFacts DEF SameAt
<1>4. Exists("base", "db")'
  BY <1>1, <1>2, DatabaseInUse DEF Exists
<1>5. (owed \subseteq GoodRows("base"))' /\ Kept("base")'
  BY <1>1, <1>3 DEF Kept
<1>6. Kept(Launched)'
  BY <1>4, <1>5, KeptAfter
<1> QED
  BY <1>1, <1>4, <1>5, <1>6 DEF KeptInv, InPlace, VacuumKept, RenewKept, DepositKept

LEMMA StutterKept == KeptInv /\ UNCHANGED repairVars => KeptInv'
<1> SUFFICES ASSUME KeptInv, UNCHANGED repairVars PROVE KeptInv'
  OBVIOUS
<1>1. /\ inode' = inode /\ content' = content /\ owed' \subseteq owed /\ job' = job /\ step' = step
      /\ moved' = moved /\ shop' = shop
  BY DEF repairVars
<1>2. \A p, f : Exists(p, f)' <=> Exists(p, f)
  BY <1>1 DEF Exists
<1>3. \A p : GoodRows(p)' = GoodRows(p)
  BY <1>1, GoodRowsIs, GoodRowsIsAfter
<1>4. InShops' = InShops /\ Launched' = Launched
  BY <1>2, <1>3 DEF InShops, Launched
<1>5. (\A p : Kept(p) => Kept(p)') /\ (Deposited => Deposited')
  BY <1>1, <1>3, <1>4 DEF Kept, Deposited
<1>6. Kept(Launched)'
  <2>1. Kept(Launched)
    BY DEF KeptInv
  <2> QED
    BY <1>1, <1>3, <1>4, <2>1 DEF Kept
<1>7. (\A p, q : Linked(p, q) => Linked(p, q)') /\ (ShopEmpty => ShopEmpty')
  BY <1>1 DEF Linked, ShopEmpty
<1>8. Linked("base", shop) => Linked("base", shop)'
  BY <1>1 DEF Linked
<1> QED
  BY <1>1, <1>2, <1>3, <1>5, <1>6, <1>7, <1>8
     DEF KeptInv, InPlace, VacuumKept, RenewKept, DepositKept

LEMMA KeptStep ==
    ASSUME ~ByRename
    PROVE  LayoutInv /\ MovedInv /\ KeptInv /\ [NextRepair]_repairVars => KeptInv'
<1> SUFFICES ASSUME LayoutInv, MovedInv, KeptInv, [NextRepair]_repairVars PROVE KeptInv'
  OBVIOUS
<1>1. LayoutInv'
  BY LayoutStep
<1>2. CASE UNCHANGED repairVars
  BY <1>2, StutterKept
<1>3. CASE Calls
  BY <1>1, <1>3, CallsKept
<1>4. CASE serialize("first", "serializeFirst") \/ serialize("last", "serializeLast")
  BY <1>1, <1>4, SerializeKept
<1> QED
  BY <1>1, <1>2, <1>3, <1>4, LifeKept, CreateKept, InsertKept, CheckpointKept, DamageKept, SetClockKept, BackupKept,
     OperationKept, RemoveDepositedKept
     DEF NextRepair, Calls

\* Wherever a call of the factory fails or the process ends between two calls
\* of the file system, every row that was written can be recovered, where files
\* are moved with link() and but for rows of databases that were damaged or
\* given up and those that two error paths discard (FactoryVacuum.cpp:143,
\* FileManager.cpp:467).
THEOREM NothingIsLost ==
    ASSUME ~ByRename
    PROVE  SpecRepair => []NothingElseLost
<1>1. InitRepair => LayoutInv /\ MovedInv /\ KeptInv
  BY InitLayout, InitMoved, InitKept
<1>2. LayoutInv /\ MovedInv /\ KeptInv /\ [NextRepair]_repairVars
        => (LayoutInv /\ MovedInv /\ KeptInv)'
  BY LayoutStep, MovedStep, KeptStep
<1> QED
  BY <1>1, <1>2, KeptImplies, PTL DEF SpecRepair
=============================================================================
