-------------------------- MODULE MigrationProofs --------------------------
(***************************************************************************)
(* Proofs about Migration, for any number of handles and rows: the         *)
(* references are counted exactly, a prepared statement works and sees     *)
(* every row once, and the users work on one logical table.                *)
(*                                                                         *)
(* MigrationInv is what holds whatever the users do.  That a statement     *)
(* goes on working rests on the reference that its handle holds            *)
(* (StatementFits), which keeps the source (SourceFits), and on what a     *)
(* Binder remembers of its view (BinderFits).  RowsInv needs that tables   *)
(* are created before others use them and that no statement bound to       *)
(* nothing by a failing query has written yet: then nobody else prepares a *)
(* statement for the target alone (AloneFits) unless the source has no     *)
(* rows (RowsFit), because initInfo() has seen the target or there is none *)
(* (FoundFits, MissingFits).                                               *)
(***************************************************************************)
EXTENDS Migration, FiniteSetTheorems, NaturalsInduction, WellFoundedInduction, TLAPS

-----------------------------------------------------------------------------
(* The inductive invariant.                                                *)

Holders == {h \in Handles : b[h].referenced}

\* m_referenceds counts the handles that hold the info.
CountFits ==
    /\ m.referenceds = Absent => Holders = {}
    /\ m.referenceds # Absent => m.referenceds = Cardinality(Holders)

\* Where the info is: it migrates, is held, waits in the dumpster or is gone.
InfoFits ==
    /\ m.referenceds = 0 => m.migratings
    /\ m.migratings => m.referenceds # Absent
    /\ m.dumpster => ~m.migratings /\ m.referenceds = Absent
    /\ m.filted # "info" => m.referenceds = Absent /\ ~m.dumpster

\* What the stepper is about to do is still to be done.
WorkerFits ==
    /\ w.pc \in {"migrate", "commit", "mark"} => m.migratings
    /\ w.pc \in {"drop", "dropSource", "markDropped"} => m.dumpster
    /\ writer = Worker <=> w.pc = "commit"
    /\ st[Worker].pc # "idle" => w.pc = "acquire"

\* A statement for both tables holds the info.
StatementFits(h) ==
    /\ st[h].union => b[h].referenced /\ st[h].pc \in {"compile", "ready"}
    /\ st[h].union /\ st[h].pc = "ready" => b[h].view \/ b[h].lost

\* A view that a savepoint has, or that was created after it, is marked.
SaveKnown(r, x) ==
    /\ r.view => x.oldView \/ x.newView \/ x.lost
    /\ x.view => r.view \/ x.newView \/ x.lost

\* The Binder knows about its view, in a transaction and after its end, as
\* long as it has not lost it: what a rollback removes was there when the
\* transaction began, or is marked as new.
BinderFits(h) ==
    /\ b[h].bound /\ ~b[h].rebind => b[h].view \/ b[h].lost
    /\ writer = h /\ b[h].view => b[h].oldView \/ b[h].newView \/ b[h].lost
    /\ writer = h => \A r \in save : SaveKnown(r, b[h])

\* The tables inside and outside a transaction.
TablesFit ==
    /\ ~db.hasSource => db.source = {}
    /\ work.hasSource = db.hasSource
    /\ work.source \subseteq db.source
    /\ writer = Nobody => work = db
    /\ writer = Worker => /\ work.hasTarget = db.hasTarget
                          /\ work.target \subseteq db.target \cup db.source
                          /\ work.target \cup work.source = db.target \cup db.source
    /\ w.pc = "dropSource" => db.source = {}

\* The savepoint belongs to a transaction of a user, and so do its tables.
SaveFits ==
    /\ save # {} => writer \in Handles
    /\ \A r \in save : /\ r.tables.hasSource = db.hasSource
                       /\ r.tables.source \subseteq db.source

\* The source table stays while the info is held, or about to be registered.
SourceFits ==
    /\ m.referenceds # Absent => db.hasSource
    /\ \A p \in Procs : m.filted = "unknown" /\ st[p].pc = "register" => db.hasSource

MigrationInv ==
    /\ TypeOK
    /\ CountFits /\ InfoFits /\ WorkerFits
    /\ \A h \in Handles : StatementFits(h) /\ BinderFits(h)
    /\ TablesFit /\ SaveFits /\ SourceFits

\* There is still something to move, and nothing has gone wrong.
Moving == ~strayed /\ db.source # {}

\* Nobody has written to a table that is not known.
UnknownFits ==
    Moving /\ m.filted = "unknown" =>
        /\ work = db
        /\ \A r \in save : r.tables = db

\* initInfo() has found the target, and until the info is registered nobody
\* drops it.
FoundFits(p) ==
    Moving /\ m.filted = "unknown" /\ st[p].pc = "register" /\ st[p].exists
        => db.hasTarget

\* A handle that has not found the target and goes on without the info: there
\* is no target still, so that its statement does not compile.
MissingFits(h) ==
    Moving /\ m.filted = "unknown" /\ st[h].kind # "create" /\ ~st[h].missed =>
        /\ st[h].pc = "register" /\ ~st[h].exists => ~db.hasTarget
        /\ st[h].pc \in {"again", "compile", "ready"} => ~db.hasTarget

\* Whoever works on the target alone, without a failing query, does so because
\* nothing is left to move.
AloneFits(h) ==
    Moving /\ ~st[h].missed
    /\ st[h].pc \in {"compile", "ready"} /\ st[h].kind # "create" /\ ~st[h].union
        => ~m.migratings

\* A table that was dropped has left no rows behind in the source, and no row
\* is in both tables.
Sound(t) == /\ m.migratings /\ ~t.hasTarget => t.source = {}
            /\ ~torn => t.target \cap t.source = {}

\* A table that counts as migrated has no rows.
MigratedFits ==
    ~torn => /\ m.filted # "unknown" /\ ~m.migratings => db.source = {}
             /\ w.pc = "mark" => db.source = {}
             /\ w.pc = "commit" /\ w.migrated => work.source = {}

RowsFit ==
    ~strayed => /\ Sound(db) /\ Sound(work)
                /\ \A r \in save : Sound(r.tables)
                /\ MigratedFits

RowsInv ==
    /\ UnknownFits
    /\ \A p \in Procs : FoundFits(p)
    /\ \A h \in Handles : MissingFits(h) /\ AloneFits(h)
    /\ RowsFit

-----------------------------------------------------------------------------
(* The operators on the shared state.                                      *)

LEMMA ReleaseResult ==
    ASSUME NEW x \in MigrationState, x.referenceds \in Nat \ {0}
    PROVE  LET y == releaseInfo(x)
               last == x.referenceds = 1 /\ ~x.migratings
           IN  /\ y \in MigrationState
               /\ y.filted = x.filted /\ y.migratings = x.migratings
               /\ y.referenceds = IF last THEN Absent ELSE x.referenceds - 1
               /\ y.dumpster = IF last THEN TRUE ELSE x.dumpster
  <1> DEFINE z == [x EXCEPT !.referenceds = @ - 1]
  <1>1. z \in MigrationState /\ z.referenceds = x.referenceds - 1
        /\ z.migratings = x.migratings /\ z.filted = x.filted /\ z.dumpster = x.dumpster
    BY DEF MigrationState
  <1>2. releaseInfo(x) = IF z.referenceds = 0 /\ ~z.migratings THEN markAsUnreferenced(z) ELSE z
    BY DEF releaseInfo
  <1> HIDE DEF z
  <1>3. LET y == markAsUnreferenced(z)
        IN  /\ y \in MigrationState /\ y.filted = z.filted /\ y.migratings = z.migratings
            /\ y.referenceds = Absent /\ y.dumpster = TRUE
    BY <1>1 DEF markAsUnreferenced, MigrationState
  <1>4. CASE x.referenceds = 1 /\ ~x.migratings
    <2>1. z.referenceds = 0 /\ ~z.migratings
      BY <1>1, <1>4
    <2>2. releaseInfo(x) = markAsUnreferenced(z)
      BY <1>2, <2>1
    <2> QED  BY <1>1, <1>3, <1>4, <2>2
  <1>5. CASE ~(x.referenceds = 1 /\ ~x.migratings)
    <2>1. ~(z.referenceds = 0 /\ ~z.migratings)
      BY <1>1, <1>5
    <2> QED  BY <1>1, <1>2, <1>5, <2>1
  <1> QED  BY <1>4, <1>5

LEMMA RetainResult ==
    ASSUME NEW x \in MigrationState, x.referenceds \in Nat
    PROVE  LET y == retainInfo(x)
           IN  /\ y \in MigrationState
               /\ y.filted = x.filted /\ y.migratings = x.migratings
               /\ y.referenceds = x.referenceds + 1
               /\ y.dumpster = x.dumpster
  BY DEF retainInfo, MigrationState

LEMMA RegisterResult ==
    ASSUME NEW x \in MigrationState, NEW e \in BOOLEAN
    PROVE  LET y == registerInfo(x, e)
               now == x.filted = "unknown" /\ e
           IN  /\ y \in MigrationState
               /\ y.filted = IF now THEN "info" ELSE x.filted
               /\ y.migratings = IF now THEN TRUE ELSE x.migratings
               /\ y.referenceds = IF now THEN 0 ELSE x.referenceds
               /\ y.dumpster = x.dumpster
  BY DEF registerInfo, MigrationState

LEMMA NoNeedResult ==
    ASSUME NEW x \in MigrationState
    PROVE  LET y == markAsNoNeedToMigrate(x)
           IN  /\ y \in MigrationState
               /\ y.filted = IF x.filted = "unknown" THEN "null" ELSE x.filted
               /\ y.migratings = x.migratings /\ y.referenceds = x.referenceds
               /\ y.dumpster = x.dumpster
  BY DEF markAsNoNeedToMigrate, MigrationState

LEMMA MigratedResult ==
    ASSUME NEW x \in MigrationState
    PROVE  LET y == markAsMigrated(x)
           IN  /\ y \in MigrationState
               /\ y.filted = x.filted /\ y.migratings = FALSE
               /\ y.referenceds = IF x.referenceds = 0 THEN Absent ELSE x.referenceds
               /\ y.dumpster = IF x.referenceds = 0 THEN TRUE ELSE x.dumpster
  BY DEF markAsMigrated, markAsUnreferenced, MigrationState, Absent

-----------------------------------------------------------------------------
(* Who holds the info.                                                     *)

LEMMA HoldersFinite ==
    IsFiniteSet(Holders) /\ Cardinality(Holders) \in Nat
    /\ (Cardinality(Holders) = 0 <=> Holders = {})
<1>1. Holders \subseteq Handles
  BY DEF Holders
<1>2. IsFiniteSet(Holders)
  BY <1>1, FS_Subset, ProcessAssumption
<1> QED
  BY <1>2, FS_CardinalityType, FS_EmptySet

LEMMA SameHolders ==
    ASSUME \A g \in Handles : b'[g].referenced = b[g].referenced
    PROVE  Holders' = Holders
BY DEF Holders

LEMMA NewHolder ==
    ASSUME NEW h \in Handles, ~b[h].referenced, b'[h].referenced,
           \A g \in Handles \ {h} : b'[g].referenced = b[g].referenced
    PROVE  Holders' # {} /\ Cardinality(Holders') = Cardinality(Holders) + 1
<1>1. Holders' = Holders \cup {h} /\ h \notin Holders
  BY DEF Holders
<1> QED
  BY <1>1, HoldersFinite, FS_AddElement

LEMMA HolderLeaves ==
    ASSUME NEW h \in Handles, b[h].referenced, ~b'[h].referenced,
           \A g \in Handles \ {h} : b'[g].referenced = b[g].referenced
    PROVE  /\ Cardinality(Holders') = Cardinality(Holders) - 1
           /\ Holders' = {} <=> Cardinality(Holders) = 1
<1>1. Holders' = Holders \ {h} /\ h \in Holders
  BY DEF Holders
<1>2. IsFiniteSet(Holders') /\ Cardinality(Holders') = Cardinality(Holders) - 1
  BY <1>1, HoldersFinite, FS_RemoveElement
<1>3. Cardinality(Holders') = 0 <=> Holders' = {}
  BY <1>2, FS_EmptySet
<1> QED
  BY <1>2, <1>3, HoldersFinite

LEMMA HeldIsCounted ==
    ASSUME TypeOK, CountFits, NEW h \in Handles, b[h].referenced
    PROVE  m.referenceds \in Nat \ {0} /\ m.referenceds = Cardinality(Holders)
<1>1. Holders # {}
  BY DEF Holders
<1> QED
  BY <1>1, HoldersFinite DEF CountFits, TypeOK, MigrationState, Absent

\* A handle gives its reference back.
LEMMA ReleaseFits ==
    ASSUME TypeOK, CountFits, InfoFits, NEW h \in Handles, b[h].referenced,
           m' = releaseInfo(m), b' = [b EXCEPT ![h].referenced = FALSE]
    PROVE  /\ m' \in MigrationState /\ CountFits' /\ InfoFits'
           /\ m'.filted = m.filted /\ m'.migratings = m.migratings
           /\ m.dumpster => m'.dumpster
           /\ m.referenceds # Absent
<1>1. m.referenceds \in Nat \ {0} /\ m.referenceds = Cardinality(Holders)
  BY HeldIsCounted
<1>2. m \in MigrationState
  BY DEF TypeOK
<1>3. /\ ~b'[h].referenced
      /\ \A g \in Handles \ {h} : b'[g].referenced = b[g].referenced
  BY DEF TypeOK, Binder
<1>4. /\ Cardinality(Holders') = Cardinality(Holders) - 1
      /\ Holders' = {} <=> Cardinality(Holders) = 1
  BY <1>3, HolderLeaves
<1> DEFINE last == m.referenceds = 1 /\ ~m.migratings
<1>5. /\ m' \in MigrationState
      /\ m'.filted = m.filted /\ m'.migratings = m.migratings
      /\ m'.referenceds = IF last THEN Absent ELSE m.referenceds - 1
      /\ m'.dumpster = IF last THEN TRUE ELSE m.dumpster
  BY <1>1, <1>2, ReleaseResult
<1>6. m.referenceds # Absent
  BY <1>1 DEF Absent
<1>7. CASE last
  BY <1>1, <1>4, <1>5, <1>6, <1>7 DEF CountFits, InfoFits, Absent
<1>8. CASE ~last
  <2>1. m'.referenceds = m.referenceds - 1 /\ m'.dumpster = m.dumpster
    BY <1>5, <1>8
  <2>2. CountFits'
    BY <1>1, <1>4, <2>1 DEF CountFits, Absent
  <2>3. InfoFits'
    BY <1>1, <1>5, <1>6, <1>8, <2>1 DEF InfoFits, Absent
  <2> QED  BY <1>5, <1>6, <2>1, <2>2, <2>3
<1> QED  BY <1>7, <1>8

\* getInfo() in prepare(): the reference of this prepare() replaces the one of
\* an earlier one.
LEMMA RebindFits ==
    ASSUME TypeOK, CountFits, InfoFits, NEW h \in Handles,
           m' = rebound(m, b[h].referenced),
           b' = [b EXCEPT ![h].referenced = m.migratings]
    PROVE  /\ m' \in MigrationState /\ CountFits' /\ InfoFits'
           /\ m'.filted = m.filted /\ m'.migratings = m.migratings
           /\ m.dumpster => m'.dumpster
           /\ m'.referenceds # Absent => m.referenceds # Absent
<1>1. m \in MigrationState /\ b \in [Handles -> Binder] /\ m.migratings \in BOOLEAN
  BY DEF TypeOK, MigrationState
<1>2. /\ b'[h].referenced = m.migratings
      /\ \A g \in Handles \ {h} : b'[g].referenced = b[g].referenced
  BY <1>1 DEF Binder
<1>3. CASE m.migratings /\ b[h].referenced
  <2>1. m.referenceds \in Nat \ {0}
    BY <1>3, HeldIsCounted
  <2> DEFINE y == retainInfo(m)
  <2>2. /\ y \in MigrationState
        /\ y.filted = m.filted /\ y.migratings = m.migratings
        /\ y.referenceds = m.referenceds + 1
        /\ y.dumpster = m.dumpster
    BY <1>1, <2>1, RetainResult
  <2>3. m' = releaseInfo(y)
    BY <1>3 DEF rebound
  <2> HIDE DEF y
  <2>4. /\ m' \in MigrationState
        /\ m'.filted = y.filted /\ m'.migratings = y.migratings
        /\ m'.referenceds = y.referenceds - 1
        /\ m'.dumpster = y.dumpster
    <3>1. y.referenceds \in Nat \ {0} /\ y.migratings
      BY <1>3, <2>1, <2>2
    <3> QED  BY <2>2, <2>3, <3>1, ReleaseResult
  <2>5. m'.referenceds = m.referenceds /\ m'.dumpster = m.dumpster
        /\ m'.filted = m.filted /\ m'.migratings = m.migratings
    BY <2>1, <2>2, <2>4
  <2>6. Holders' = Holders
    BY <1>2, <1>3, SameHolders
  <2> QED
    BY <2>4, <2>5, <2>6 DEF CountFits, InfoFits
<1>4. CASE m.migratings /\ ~b[h].referenced
  <2>1. m.referenceds \in Nat /\ m.referenceds = Cardinality(Holders)
        /\ m.referenceds # Absent
    BY <1>1, <1>4 DEF CountFits, InfoFits, MigrationState
  <2>2. m' = retainInfo(m)
    BY <1>4 DEF rebound
  <2>3. /\ m' \in MigrationState
        /\ m'.filted = m.filted /\ m'.migratings = m.migratings
        /\ m'.referenceds = m.referenceds + 1
        /\ m'.dumpster = m.dumpster
    BY <1>1, <2>1, <2>2, RetainResult
  <2>4. Holders' # {} /\ Cardinality(Holders') = Cardinality(Holders) + 1
    BY <1>2, <1>4, NewHolder
  <2>5. CountFits'
    BY <2>1, <2>3, <2>4 DEF CountFits, Absent
  <2>6. InfoFits'
    BY <1>4, <2>1, <2>3 DEF InfoFits, Absent
  <2> QED  BY <2>1, <2>3, <2>5, <2>6
<1>5. CASE ~m.migratings /\ b[h].referenced
  <2>1. m' = releaseInfo(m)
    BY <1>5 DEF rebound
  <2>2. b' = [b EXCEPT ![h].referenced = FALSE]
    BY <1>1, <1>5
  <2> QED  BY <1>5, <2>1, <2>2, ReleaseFits
<1>6. CASE ~m.migratings /\ ~b[h].referenced
  <2>1. m' = m
    BY <1>6 DEF rebound
  <2>2. Holders' = Holders
    <3>1. b[h].referenced \in BOOLEAN
      BY <1>1 DEF Binder
    <3>2. b'[h].referenced = FALSE /\ b[h].referenced = FALSE
      BY <1>1, <1>2, <1>6, <3>1
    <3> QED  BY <1>2, <3>2, SameHolders
  <2> QED  BY <1>1, <2>1, <2>2 DEF CountFits, InfoFits
<1> QED  BY <1>3, <1>4, <1>5, <1>6

-----------------------------------------------------------------------------
(* The steps of prepare() and of statements keep the invariant.            *)

LEMMA ProcsSorted == /\ Handles \subseteq Procs /\ Worker \in Procs
                     /\ Worker \notin Handles /\ Nobody \notin Procs
BY ProcessAssumption DEF Procs

\* A step of one handle outside the tables.
LEMMA HandleFrame ==
    ASSUME MigrationInv, NEW h \in Handles,
           UNCHANGED <<db, work, writer, w, torn, strayed, save>>,
           TypeOK', CountFits', InfoFits',
           m.migratings => m'.migratings,
           m.dumpster => m'.dumpster,
           m'.filted = m.filted,
           m'.referenceds # Absent => m.referenceds # Absent,
           \A p \in Procs \ {h} : st'[p] = st[p],
           \A g \in Handles \ {h} : b'[g] = b[g],
           st'[h].pc # "register",
           StatementFits(h)', BinderFits(h)'
    PROVE  MigrationInv'
<1>1. WorkerFits'
  BY ProcsSorted DEF MigrationInv, WorkerFits
<1>2. \A g \in Handles : StatementFits(g)' /\ BinderFits(g)'
  <2>1. SUFFICES ASSUME NEW g \in Handles \ {h}
                 PROVE  StatementFits(g)' /\ BinderFits(g)'
    OBVIOUS
  <2>2. st'[g] = st[g] /\ b'[g] = b[g]
    BY ProcsSorted
  <2> QED  BY <2>2 DEF MigrationInv, StatementFits, BinderFits
<1>3. TablesFit' /\ SaveFits'
  BY DEF MigrationInv, TablesFit, SaveFits
<1>4. SourceFits'
  BY DEF MigrationInv, SourceFits
<1> QED
  BY <1>1, <1>2, <1>3, <1>4 DEF MigrationInv

LEMMA BindKeeps ==
    ASSUME MigrationInv, NEW h \in Handles, NEW s \in Statement, bindTable(h, s),
           s.pc # "register", st[h].pc \in {"idle", "again"},
           UNCHANGED <<db, work, writer, w, events, torn, strayed, save>>
    PROVE  MigrationInv'
<1>1. TypeOK /\ CountFits /\ InfoFits /\ BinderFits(h)
  BY DEF MigrationInv
<1>2. /\ m' \in MigrationState /\ CountFits' /\ InfoFits'
      /\ m'.filted = m.filted /\ m'.migratings = m.migratings
      /\ m.dumpster => m'.dumpster
      /\ m'.referenceds # Absent => m.referenceds # Absent
  BY <1>1, RebindFits DEF bindTable
<1>3. m.migratings \in BOOLEAN
  BY <1>1 DEF TypeOK, MigrationState
<1>4. /\ b' \in [Handles -> Binder]
      /\ b'[h] = [b[h] EXCEPT !.referenced = m.migratings]
      /\ \A g \in Handles \ {h} : b'[g] = b[g]
  BY <1>1, <1>3 DEF TypeOK, bindTable, Binder
<1>5. /\ st' \in [Procs -> Statement]
      /\ st'[h] = [s EXCEPT !.pc = "compile", !.union = m.migratings]
      /\ \A p \in Procs \ {h} : st'[p] = st[p]
  BY <1>1, <1>3, ProcsSorted DEF TypeOK, bindTable, Statement
<1>6. TypeOK'
  BY <1>1, <1>2, <1>4, <1>5 DEF TypeOK
<1>7. st'[h].pc = "compile" /\ st'[h].union = m.migratings /\ b'[h].referenced = m.migratings
  BY <1>1, <1>4, <1>5 DEF TypeOK, Statement, Binder
<1>8. StatementFits(h)'
  BY <1>7 DEF StatementFits
<1>9. BinderFits(h)'
  BY <1>1, <1>4 DEF BinderFits, SaveKnown, TypeOK, Binder
<1> QED
  BY <1>2, <1>4, <1>5, <1>6, <1>7, <1>8, <1>9, HandleFrame

LEMMA PrepareKeeps ==
    ASSUME MigrationInv, NEW h \in Handles, NEW k \in KindsOf(h), prepare(h, k)
    PROVE  MigrationInv'
<1> DEFINE s == [idle EXCEPT !.kind = k]
<1>1. TypeOK /\ CountFits /\ InfoFits /\ BinderFits(h)
  BY DEF MigrationInv
<1>2. s \in Statement /\ s.pc = "idle" /\ s.union = FALSE
  BY DEF idle, Statement, KindsOf, Kinds
<1>3. CASE bindTable(h, s)
  <2>1. st[h].pc = "idle" /\ UNCHANGED <<db, work, writer, w, events, torn, strayed, save>>
    BY DEF prepare
  <2> HIDE DEF s
  <2> QED  BY <1>2, <1>3, <2>1, BindKeeps
<1>4. CASE st' = [st EXCEPT ![h] = [s EXCEPT !.pc = "init"]] /\ UNCHANGED <<m, b>>
  <2>1. /\ st' \in [Procs -> Statement]
        /\ st'[h].pc = "init" /\ st'[h].union = FALSE
        /\ \A p \in Procs \ {h} : st'[p] = st[p]
    BY <1>1, <1>2, <1>4, ProcsSorted DEF TypeOK, Statement
  <2>2. UNCHANGED <<m, b, db, work, writer, w, events, torn, strayed, save>>
    BY <1>4 DEF prepare
  <2>3. TypeOK'
    BY <1>1, <2>1, <2>2 DEF TypeOK
  <2>4. CountFits' /\ InfoFits'
    BY <1>1, <2>2 DEF CountFits, InfoFits, Holders
  <2>5. StatementFits(h)' /\ BinderFits(h)'
    BY <1>1, <2>1, <2>2 DEF StatementFits, BinderFits
  <2> QED  BY <2>1, <2>2, <2>3, <2>4, <2>5, HandleFrame
<1> QED  BY <1>3, <1>4 DEF prepare

LEMMA AgainKeeps ==
    ASSUME MigrationInv, NEW h \in Handles, getOrInitInfo(h)
    PROVE  MigrationInv'
<1>1. TypeOK /\ CountFits /\ InfoFits /\ BinderFits(h) /\ StatementFits(h)
  BY DEF MigrationInv
<1>2. st[h] \in Statement /\ st[h].pc = "again"
  BY <1>1, ProcsSorted DEF TypeOK, getOrInitInfo
<1>3. CASE bindTable(h, st[h])
  BY <1>2, <1>3, BindKeeps DEF getOrInitInfo
<1>4. CASE Goto(h, "compile") /\ UNCHANGED <<m, b>>
  <2>1. /\ st' \in [Procs -> Statement]
        /\ st'[h].pc = "compile" /\ st'[h].union = st[h].union
        /\ \A p \in Procs \ {h} : st'[p] = st[p]
    BY <1>1, <1>4, ProcsSorted DEF TypeOK, Statement, Goto
  <2>2. UNCHANGED <<m, b, db, work, writer, w, events, torn, strayed, save>>
    BY <1>4 DEF getOrInitInfo
  <2>3. TypeOK'
    BY <1>1, <2>1, <2>2 DEF TypeOK
  <2>4. CountFits' /\ InfoFits'
    BY <1>1, <2>2 DEF CountFits, InfoFits, Holders
  <2>5. StatementFits(h)' /\ BinderFits(h)'
    BY <1>1, <1>2, <2>1, <2>2 DEF StatementFits, BinderFits
  <2> QED  BY <2>1, <2>2, <2>3, <2>4, <2>5, HandleFrame
<1> QED  BY <1>3, <1>4 DEF getOrInitInfo

\* What stopBinding() leaves behind.
LEMMA StopBindingResult ==
    ASSUME m.migratings \in BOOLEAN, NEW x \in Binder, NEW inTransaction \in BOOLEAN,
           x.bound /\ ~x.rebind => x.view \/ x.lost,
           inTransaction /\ x.view => x.oldView \/ x.newView \/ x.lost
    PROVE  LET y == stopBinding(x, inTransaction)
           IN  /\ y \in Binder
               /\ y.referenced = x.referenced /\ y.oldView = x.oldView
               /\ y.bound /\ ~y.rebind => y.view \/ y.lost
               /\ x.newView => y.newView
               /\ inTransaction /\ y.view => x.view \/ y.newView
               /\ inTransaction /\ x.lost => y.lost
               /\ inTransaction /\ y.view => y.oldView \/ y.newView \/ y.lost
               /\ x.referenced => y.view \/ y.lost
               /\ y.lost => x.lost
<1> DEFINE needed == (x.binding /\ m.migratings) \/ x.referenced
           y == [x EXCEPT !.binding = needed]
           new == x.newView \/ (inTransaction /\ needed /\ ~x.view)
           gone == x.lost /\ inTransaction
           z == [y EXCEPT !.bound = needed, !.rebind = FALSE, !.view = needed,
                          !.newView = new, !.lost = gone]
<1>1. needed \in BOOLEAN /\ new \in BOOLEAN /\ gone \in BOOLEAN
  OBVIOUS
<1>2. x.referenced => needed
  OBVIOUS
<1>3. inTransaction /\ needed /\ ~new => x.view /\ ~x.newView
  OBVIOUS
<1>4. x.newView => new
  OBVIOUS
<1>10. (gone => x.lost) /\ (inTransaction /\ x.lost => gone)
  OBVIOUS
<1> HIDE DEF needed, new, gone
<1>5. /\ y \in Binder /\ y.referenced = x.referenced /\ y.bound = x.bound
      /\ y.rebind = x.rebind /\ y.view = x.view /\ y.oldView = x.oldView
      /\ y.newView = x.newView /\ y.lost = x.lost
  BY <1>1 DEF Binder
<1>6. /\ z \in Binder /\ z.referenced = x.referenced /\ z.bound = needed
      /\ z.rebind = FALSE /\ z.view = needed /\ z.oldView = x.oldView
      /\ z.newView = new /\ z.lost = gone
  BY <1>1 DEF Binder
<1>7. stopBinding(x, inTransaction) = IF x.rebind \/ x.bound # needed THEN z ELSE y
  BY DEF stopBinding, needed, new, gone
<1> HIDE DEF y, z
<1>8. CASE x.rebind \/ x.bound # needed
  <2>1. stopBinding(x, inTransaction) = z
    BY <1>7, <1>8
  <2> QED  BY <1>1, <1>2, <1>3, <1>4, <1>6, <1>10, <2>1
<1>9. CASE ~(x.rebind \/ x.bound # needed)
  <2>1. stopBinding(x, inTransaction) = y
    BY <1>7, <1>9
  <2> QED  BY <1>1, <1>2, <1>5, <1>9, <2>1
<1> QED  BY <1>8, <1>9

\* The Binder of a handle after stopBinding().
LEMMA StopBindingFits ==
    ASSUME TypeOK, NEW h \in Handles, BinderFits(h)
    PROVE  LET x == stopBinding(b[h], writer = h)
           IN  /\ x \in Binder
               /\ x.referenced = b[h].referenced /\ x.oldView = b[h].oldView
               /\ x.bound /\ ~x.rebind => x.view \/ x.lost
               /\ writer = h /\ x.view => x.oldView \/ x.newView \/ x.lost
               /\ writer = h => \A r \in save : SaveKnown(r, x)
               /\ b[h].referenced => x.view \/ x.lost
               /\ x.lost => b[h].lost
<1>1. m.migratings \in BOOLEAN /\ b[h] \in Binder /\ (writer = h) \in BOOLEAN
  BY DEF TypeOK, MigrationState
<1>2. /\ b[h].bound /\ ~b[h].rebind => b[h].view \/ b[h].lost
      /\ writer = h /\ b[h].view => b[h].oldView \/ b[h].newView \/ b[h].lost
      /\ writer = h => \A r \in save : SaveKnown(r, b[h])
  BY DEF BinderFits
<1> DEFINE inTransaction == writer = h
           x == stopBinding(b[h], inTransaction)
<1>3. /\ x \in Binder
      /\ x.referenced = b[h].referenced /\ x.oldView = b[h].oldView
      /\ x.bound /\ ~x.rebind => x.view \/ x.lost
      /\ b[h].newView => x.newView
      /\ inTransaction /\ x.view => b[h].view \/ x.newView
      /\ inTransaction /\ b[h].lost => x.lost
      /\ inTransaction /\ x.view => x.oldView \/ x.newView \/ x.lost
      /\ b[h].referenced => x.view \/ x.lost
      /\ x.lost => b[h].lost
  <2> HIDE DEF inTransaction
  <2>1. inTransaction \in BOOLEAN
    BY <1>1 DEF inTransaction
  <2>2. inTransaction /\ b[h].view => b[h].oldView \/ b[h].newView \/ b[h].lost
    BY <1>2 DEF inTransaction
  <2> QED  BY <1>1, <1>2, <2>1, <2>2, StopBindingResult
<1> HIDE DEF x
<1>4. writer = h => \A r \in save : SaveKnown(r, x)
  BY <1>2, <1>3 DEF SaveKnown
<1> QED  BY <1>3, <1>4 DEF x

LEMMA CompileKeeps ==
    ASSUME MigrationInv, NEW h \in Handles, compile(h)
    PROVE  MigrationInv'
<1> DEFINE x == stopBinding(b[h], writer = h)
<1>1. TypeOK /\ CountFits /\ InfoFits /\ BinderFits(h) /\ StatementFits(h)
  BY DEF MigrationInv
<1>2. /\ x \in Binder
      /\ x.referenced = b[h].referenced
      /\ x.bound /\ ~x.rebind => x.view \/ x.lost
      /\ writer = h /\ x.view => x.oldView \/ x.newView \/ x.lost
      /\ writer = h => \A r \in save : SaveKnown(r, x)
      /\ b[h].referenced => x.view \/ x.lost
  BY <1>1, StopBindingFits
<1>3. UNCHANGED <<m, db, work, writer, w, events, torn, strayed, save>> /\ b' = [b EXCEPT ![h] = x]
  BY DEF compile
<1>4. st' = [st EXCEPT ![h].pc = "ready"] \/ st' = [st EXCEPT ![h] = idle]
  BY DEF compile, Goto
<1> HIDE DEF x
<1>5. /\ b' \in [Handles -> Binder] /\ b'[h] = x
      /\ \A g \in Handles \ {h} : b'[g] = b[g]
  BY <1>1, <1>2, <1>3 DEF TypeOK
<1>6. /\ st' \in [Procs -> Statement] /\ st'[h].pc \in {"idle", "ready"}
      /\ st'[h].union => st[h].union /\ st'[h].pc = "ready"
      /\ \A p \in Procs \ {h} : st'[p] = st[p]
  <2>1. CASE st' = [st EXCEPT ![h].pc = "ready"]
    BY <1>1, <2>1, ProcsSorted DEF TypeOK, Statement
  <2>2. CASE st' = [st EXCEPT ![h] = idle]
    BY <1>1, <2>2, ProcsSorted DEF TypeOK, Statement, idle, Kinds
  <2> QED  BY <1>4, <2>1, <2>2
<1>7. TypeOK'
  BY <1>1, <1>3, <1>5, <1>6 DEF TypeOK
<1>8. Holders' = Holders
  <2>1. \A g \in Handles : b'[g].referenced = b[g].referenced
    BY <1>2, <1>5
  <2> QED  BY <2>1, SameHolders
<1>9. CountFits' /\ InfoFits'
  BY <1>1, <1>3, <1>8 DEF CountFits, InfoFits
<1>10. StatementFits(h)'
  BY <1>1, <1>2, <1>5, <1>6 DEF StatementFits
<1>11. BinderFits(h)'
  BY <1>2, <1>3, <1>5 DEF BinderFits
<1> QED
  BY <1>3, <1>5, <1>6, <1>7, <1>9, <1>10, <1>11, HandleFrame

LEMMA BindInfosFailsKeeps ==
    ASSUME MigrationInv, NEW h \in Handles, bindInfosFails(h)
    PROVE  MigrationInv'
<1> DEFINE x == stopBinding(b[h], writer = h)
<1>1. TypeOK /\ CountFits /\ InfoFits /\ BinderFits(h) /\ StatementFits(h)
  BY DEF MigrationInv
<1>2. /\ x \in Binder
      /\ x.referenced = b[h].referenced
      /\ writer = h /\ x.view => x.oldView \/ x.newView \/ x.lost
      /\ writer = h => \A r \in save : SaveKnown(r, x)
  BY <1>1, StopBindingFits
<1>3. /\ UNCHANGED <<m, db, work, writer, w, torn, strayed, save>>
      /\ events < MaxEvents /\ events' = events + 1
      /\ st' = [st EXCEPT ![h] = idle]
      /\ \E y \in {b[h], x} :
              b' = [b EXCEPT ![h] = [y EXCEPT !.binding = x.binding, !.rebind = TRUE,
                                              !.bound = b[h].bound]]
  BY DEF bindInfosFails
<1> HIDE DEF x
<1>4. PICK y \in {b[h], x} :
              b' = [b EXCEPT ![h] = [y EXCEPT !.binding = x.binding, !.rebind = TRUE,
                                              !.bound = b[h].bound]]
  BY <1>3
<1>5. /\ y \in Binder
      /\ y.referenced = b[h].referenced
      /\ writer = h /\ y.view => y.oldView \/ y.newView \/ y.lost
      /\ writer = h => \A r \in save : SaveKnown(r, y)
  BY <1>1, <1>2, <1>4 DEF TypeOK, BinderFits
<1>6. /\ b' \in [Handles -> Binder]
      /\ b'[h].referenced = y.referenced /\ b'[h].newView = y.newView
      /\ b'[h].view = y.view /\ b'[h].oldView = y.oldView /\ b'[h].rebind = TRUE
      /\ b'[h].lost = y.lost
      /\ \A g \in Handles \ {h} : b'[g] = b[g]
  BY <1>1, <1>2, <1>4, <1>5 DEF TypeOK, Binder
<1>7. /\ st' \in [Procs -> Statement] /\ st'[h] = idle
      /\ \A p \in Procs \ {h} : st'[p] = st[p]
  BY <1>1, <1>3, ProcsSorted DEF TypeOK, Statement, idle, Kinds
<1>8. TypeOK'
  BY <1>1, <1>3, <1>6, <1>7, BoundAssumption DEF TypeOK
<1>9. Holders' = Holders
  <2>1. \A g \in Handles : b'[g].referenced = b[g].referenced
    BY <1>5, <1>6
  <2> QED  BY <2>1, SameHolders
<1>10. CountFits' /\ InfoFits'
  BY <1>1, <1>3, <1>9 DEF CountFits, InfoFits
<1>11. StatementFits(h)' /\ st'[h].pc # "register"
  BY <1>7 DEF StatementFits, idle
<1>12. BinderFits(h)'
  BY <1>3, <1>5, <1>6 DEF BinderFits, SaveKnown
<1> QED
  BY <1>3, <1>6, <1>7, <1>8, <1>10, <1>11, <1>12, HandleFrame

LEMMA UpdateSequenceFailsKeeps ==
    ASSUME MigrationInv, NEW h \in Handles, NEW k \in KindsOf(h), updateSequenceFails(h, k)
    PROVE  MigrationInv'
<1>1. TypeOK /\ CountFits /\ InfoFits /\ BinderFits(h)
  BY DEF MigrationInv
<1>2. /\ UNCHANGED <<m, db, work, writer, b, w, torn, strayed, save>>
      /\ events < MaxEvents /\ events' = events + 1
      /\ st' = [st EXCEPT ![h] = [idle EXCEPT !.pc = "compile", !.kind = k, !.missed = TRUE]]
  BY DEF updateSequenceFails
<1>3. /\ st' \in [Procs -> Statement] /\ st'[h].pc = "compile" /\ st'[h].union = FALSE
      /\ \A p \in Procs \ {h} : st'[p] = st[p]
  BY <1>1, <1>2, ProcsSorted DEF TypeOK, Statement, idle, Kinds, KindsOf
<1>4. TypeOK'
  BY <1>1, <1>2, <1>3, BoundAssumption DEF TypeOK
<1>5. CountFits' /\ InfoFits' /\ BinderFits(h)'
  BY <1>1, <1>2 DEF CountFits, InfoFits, BinderFits, Holders
<1>6. StatementFits(h)' /\ st'[h].pc # "register"
  BY <1>3 DEF StatementFits
<1> QED  BY <1>2, <1>3, <1>4, <1>5, <1>6, HandleFrame

LEMMA FinalizeKeeps ==
    ASSUME MigrationInv, NEW h \in Handles, finalize(h)
    PROVE  MigrationInv'
<1>1. TypeOK /\ CountFits /\ InfoFits /\ BinderFits(h)
  BY DEF MigrationInv
<1>2. UNCHANGED <<m, db, work, writer, b, w, events, torn, strayed, save>>
  BY DEF finalize
<1>3. /\ st' \in [Procs -> Statement] /\ st'[h] = idle
      /\ \A p \in Procs \ {h} : st'[p] = st[p]
  BY <1>1, ProcsSorted DEF finalize, TypeOK, Statement, idle, Kinds
<1>4. TypeOK'
  BY <1>1, <1>2, <1>3 DEF TypeOK
<1>5. CountFits' /\ InfoFits' /\ BinderFits(h)'
  BY <1>1, <1>2 DEF CountFits, InfoFits, BinderFits, Holders
<1>6. StatementFits(h)' /\ st'[h].pc # "register"
  BY <1>3 DEF StatementFits, idle
<1> QED  BY <1>2, <1>3, <1>4, <1>5, <1>6, HandleFrame

LEMMA FinalizeStatementsKeeps ==
    ASSUME MigrationInv, NEW h \in Handles, finalizeStatements(h)
    PROVE  MigrationInv'
<1>1. TypeOK /\ CountFits /\ InfoFits /\ BinderFits(h) /\ StatementFits(h)
  BY DEF MigrationInv
<1>2. /\ m' = releaseInfo(m) /\ b[h].referenced /\ st[h].pc = "idle"
      /\ b' = [b EXCEPT ![h].referenced = FALSE]
      /\ UNCHANGED <<db, work, writer, st, w, events, torn, strayed, save>>
  BY DEF finalizeStatements
<1>3. /\ m' \in MigrationState /\ CountFits' /\ InfoFits'
      /\ m'.filted = m.filted /\ m'.migratings = m.migratings
      /\ m.dumpster => m'.dumpster
      /\ m.referenceds # Absent
  BY <1>1, <1>2, ReleaseFits
<1>4. /\ b' \in [Handles -> Binder]
      /\ b'[h] = [b[h] EXCEPT !.referenced = FALSE]
      /\ \A g \in Handles \ {h} : b'[g] = b[g]
  BY <1>1, <1>2 DEF TypeOK, Binder
<1>5. TypeOK'
  BY <1>1, <1>2, <1>3, <1>4 DEF TypeOK
<1>6. BinderFits(h)'
  BY <1>1, <1>2, <1>4 DEF BinderFits, SaveKnown, TypeOK, Binder
<1>7. StatementFits(h)'
  BY <1>1, <1>2 DEF StatementFits
<1> QED  BY <1>2, <1>3, <1>4, <1>5, <1>6, <1>7, HandleFrame

\* The queries and the end of initInfo(), of a handle or of the stepper.
LEMMA InitFrame ==
    ASSUME MigrationInv, NEW p \in Procs,
           UNCHANGED <<db, work, writer, b, w, events, torn, strayed, save>>,
           m' \in MigrationState, st' \in [Procs -> Statement],
           CountFits', InfoFits',
           m.migratings => m'.migratings,
           m.dumpster => m'.dumpster,
           m'.filted = "unknown" => m.filted = "unknown",
           m'.referenceds # Absent => db.hasSource,
           \A q \in Procs \ {p} : st'[q] = st[q],
           st[p].pc # "idle",
           st'[p].pc = "register" => db.hasSource,
           st[p].pc \notin {"compile", "ready"}, st'[p].union = st[p].union
    PROVE  MigrationInv'
<1>1. TypeOK'
  BY DEF MigrationInv, TypeOK
<1>2. WorkerFits'
  BY ProcsSorted DEF MigrationInv, WorkerFits
<1>3. \A g \in Handles : StatementFits(g)' /\ BinderFits(g)'
  <2>1. SUFFICES ASSUME NEW g \in Handles
                 PROVE  StatementFits(g)' /\ BinderFits(g)'
    OBVIOUS
  <2>2. BinderFits(g)'
    BY DEF MigrationInv, BinderFits
  <2>5. StatementFits(g) /\ b'[g] = b[g]
    BY DEF MigrationInv
  <2>3. CASE g = p
    BY <2>2, <2>3, <2>5 DEF StatementFits
  <2>4. CASE g # p
    <3>1. st'[g] = st[g]
      BY <2>4, ProcsSorted
    <3> QED  BY <2>2, <2>5, <3>1 DEF StatementFits
  <2> QED  BY <2>2, <2>3, <2>4
<1>4. TablesFit' /\ SaveFits'
  BY DEF MigrationInv, TablesFit, SaveFits
<1>5. SourceFits'
  BY DEF MigrationInv, SourceFits
<1> QED
  BY <1>1, <1>2, <1>3, <1>4, <1>5 DEF MigrationInv

LEMMA AfterInitType ==
    ASSUME NEW p \in Procs
    PROVE  AfterInit(p) \in {"acquired", "compile", "again"}
BY DEF AfterInit

LEMMA CheckTablesKeeps ==
    ASSUME MigrationInv, NEW p \in Procs, checkTables(p)
    PROVE  MigrationInv'
<1>1. TypeOK /\ CountFits /\ InfoFits /\ SourceFits /\ TablesFit
  BY DEF MigrationInv
<1>2. UNCHANGED <<db, work, writer, b, w, events, torn, strayed, save>> /\ st[p].pc = "init"
  BY DEF checkTables
<1>3. Sees(p) \in Tables /\ Sees(p).hasSource = db.hasSource
  BY <1>1 DEF Sees, TypeOK, TablesFit
<1>4. CASE /\ Sees(p).hasSource
           /\ st' = [st EXCEPT ![p].pc = "register", ![p].exists = Sees(p).hasTarget]
           /\ UNCHANGED m
  <2>1. Sees(p).hasTarget \in BOOLEAN
    BY <1>3 DEF Tables
  <2>2. PICK e \in BOOLEAN : e = Sees(p).hasTarget
    BY <2>1
  <2>3. /\ st' \in [Procs -> Statement]
        /\ st'[p].union = st[p].union
        /\ \A q \in Procs \ {p} : st'[q] = st[q]
    BY <1>1, <1>4, <2>2 DEF TypeOK, Statement
  <2>4. CountFits' /\ InfoFits'
    BY <1>1, <1>2, <1>4 DEF CountFits, InfoFits, Holders
  <2>5. m' \in MigrationState /\ db.hasSource
    BY <1>1, <1>3, <1>4 DEF TypeOK
  <2> QED  BY <1>2, <1>4, <2>3, <2>4, <2>5, InitFrame
<1>5. CASE /\ ~Sees(p).hasSource /\ Goto(p, AfterInit(p)) /\ m' = markAsNoNeedToMigrate(m)
  <2>1. PICK next \in {"acquired", "compile", "again"} : next = AfterInit(p)
    BY AfterInitType
  <2>2. /\ st' \in [Procs -> Statement]
        /\ st'[p].pc = next /\ st'[p].union = st[p].union
        /\ \A q \in Procs \ {p} : st'[q] = st[q]
    BY <1>1, <1>5, <2>1 DEF TypeOK, Statement, Goto
  <2>3. /\ m' \in MigrationState
        /\ m'.filted = IF m.filted = "unknown" THEN "null" ELSE m.filted
        /\ m'.migratings = m.migratings /\ m'.referenceds = m.referenceds
        /\ m'.dumpster = m.dumpster
    BY <1>1, <1>5, NoNeedResult DEF TypeOK
  <2>4. Holders' = Holders
    BY <1>2 DEF Holders
  <2>5. CountFits' /\ InfoFits'
    BY <1>1, <2>3, <2>4 DEF CountFits, InfoFits
  <2>6. m'.referenceds # Absent => db.hasSource
    BY <1>1, <2>3 DEF SourceFits
  <2>7. st'[p].pc # "register"
    BY <2>2
  <2> QED  BY <1>2, <2>2, <2>3, <2>5, <2>6, <2>7, InitFrame
<1> QED  BY <1>4, <1>5 DEF checkTables

LEMMA InitInfoKeeps ==
    ASSUME MigrationInv, NEW p \in Procs, initInfo(p)
    PROVE  MigrationInv'
<1>1. TypeOK /\ CountFits /\ InfoFits /\ SourceFits
  BY DEF MigrationInv
<1>2. /\ UNCHANGED <<db, work, writer, b, w, events, torn, strayed, save>> /\ st[p].pc = "register"
      /\ m' = registerInfo(m, st[p].exists)
  BY DEF initInfo
<1>3. PICK next \in {"acquired", "compile", "again"} : next = AfterInit(p)
  BY AfterInitType
<1>4. /\ st' \in [Procs -> Statement]
      /\ st'[p].pc = next /\ st'[p].union = st[p].union
      /\ \A q \in Procs \ {p} : st'[q] = st[q]
  BY <1>1, <1>3 DEF initInfo, TypeOK, Statement
<1>5. PICK now : now = (m.filted = "unknown" /\ st[p].exists)
  OBVIOUS
<1>6. /\ m' \in MigrationState
      /\ m'.filted = IF now THEN "info" ELSE m.filted
      /\ m'.migratings = IF now THEN TRUE ELSE m.migratings
      /\ m'.referenceds = IF now THEN 0 ELSE m.referenceds
      /\ m'.dumpster = m.dumpster
  <2>1. m \in MigrationState /\ st[p].exists \in BOOLEAN
    BY <1>1 DEF TypeOK, Statement
  <2> QED  BY <1>2, <1>5, <2>1, RegisterResult
<1>7. Holders' = Holders
  BY <1>2 DEF Holders
<1>8. CASE now
  <2>1. m.referenceds = Absent /\ ~m.dumpster /\ m.filted = "unknown" /\ Holders = {}
    BY <1>1, <1>5, <1>8 DEF CountFits, InfoFits
  <2>2. Cardinality(Holders) = 0
    BY <2>1, HoldersFinite
  <2>3. CountFits' /\ InfoFits'
    BY <1>6, <1>7, <1>8, <2>1, <2>2 DEF CountFits, InfoFits, Absent
  <2>4. m'.referenceds # Absent => db.hasSource
    BY <1>1, <1>2, <2>1 DEF SourceFits
  <2>5. /\ m.migratings => m'.migratings
        /\ m.dumpster => m'.dumpster
        /\ m'.filted = "unknown" => m.filted = "unknown"
        /\ st'[p].pc # "register"
    BY <1>4, <1>6, <1>8
  <2> QED  BY <1>2, <1>4, <1>6, <2>3, <2>4, <2>5, InitFrame
<1>9. CASE ~now
  <2>1. /\ m'.filted = m.filted /\ m'.migratings = m.migratings
        /\ m'.referenceds = m.referenceds
    BY <1>6, <1>9
  <2>2. CountFits' /\ InfoFits'
    BY <1>1, <1>6, <1>7, <2>1 DEF CountFits, InfoFits
  <2>3. m'.referenceds # Absent => db.hasSource
    BY <1>1, <2>1 DEF SourceFits
  <2>4. st'[p].pc # "register"
    BY <1>4
  <2> QED  BY <1>2, <1>4, <1>6, <2>1, <2>2, <2>3, <2>4, InitFrame
<1> QED  BY <1>8, <1>9

LEMMA InitInfoFailsKeeps ==
    ASSUME MigrationInv, NEW p \in Procs, initInfoFails(p)
    PROVE  MigrationInv'
<1>1. TypeOK /\ CountFits /\ InfoFits /\ WorkerFits /\ TablesFit /\ SaveFits /\ SourceFits
  BY DEF MigrationInv
<1>2. /\ UNCHANGED <<m, db, work, writer, b, torn, strayed, save>>
      /\ events < MaxEvents /\ events' = events + 1 /\ st[p].pc = "init"
  BY DEF initInfoFails
<1>3. CountFits' /\ InfoFits'
  BY <1>1, <1>2 DEF CountFits, InfoFits, Holders
<1>4. CASE p = Worker /\ st' = [st EXCEPT ![p] = idle] /\ WGoto("idle")
  <2>1. w' \in Work /\ w'.pc = "idle"
    BY <1>1, <1>4 DEF TypeOK, Work, WGoto
  <2>2. /\ st' \in [Procs -> Statement] /\ st'[Worker] = idle
        /\ \A q \in Procs \ {Worker} : st'[q] = st[q]
    BY <1>1, <1>4, ProcsSorted DEF TypeOK, Statement, idle, Kinds
  <2>3. TypeOK'
    BY <1>1, <1>2, <2>1, <2>2, BoundAssumption DEF TypeOK
  <2>4. w.pc = "acquire" /\ writer # Worker
    BY <1>1, <1>2, <1>4 DEF WorkerFits
  <2>5. WorkerFits' /\ TablesFit' /\ SaveFits'
    BY <1>1, <1>2, <2>1, <2>2, <2>4 DEF WorkerFits, TablesFit, SaveFits, idle
  <2>6. SourceFits'
    BY <1>1, <1>2, <2>2 DEF SourceFits, idle
  <2>7. \A g \in Handles : StatementFits(g)' /\ BinderFits(g)'
    <3>1. SUFFICES ASSUME NEW g \in Handles PROVE StatementFits(g)' /\ BinderFits(g)'
      OBVIOUS
    <3>2. StatementFits(g) /\ BinderFits(g) /\ st'[g] = st[g] /\ b'[g] = b[g]
      BY <1>2, <2>2, ProcsSorted DEF MigrationInv
    <3> QED  BY <1>2, <3>2 DEF StatementFits, BinderFits
  <2> QED  BY <1>3, <2>3, <2>5, <2>6, <2>7 DEF MigrationInv
<1>5. CASE /\ p # Worker /\ UNCHANGED w
           /\ st' = [st EXCEPT ![p] = IF @.kind = "create" THEN idle
                                      ELSE [@ EXCEPT !.pc = "compile", !.missed = TRUE]]
  <2>1. p \in Handles
    BY <1>5 DEF Procs
  <2>2. st[p] \in Statement /\ StatementFits(p) /\ BinderFits(p)
    BY <1>1, <2>1 DEF TypeOK, MigrationInv
  <2>3. idle \in Statement /\ idle.pc = "idle" /\ idle.union = FALSE
    BY DEF idle, Statement, Kinds
  <2>4. /\ st' \in [Procs -> Statement]
        /\ st'[p].pc \in {"idle", "compile"}
        /\ st'[p].union => st[p].union
        /\ \A q \in Procs \ {p} : st'[q] = st[q]
    <3>1. PICK s : s = IF st[p].kind = "create" THEN idle
                       ELSE [st[p] EXCEPT !.pc = "compile", !.missed = TRUE]
      OBVIOUS
    <3>2. s \in Statement /\ s.pc \in {"idle", "compile"} /\ (s.union => st[p].union)
      BY <2>2, <2>3, <3>1 DEF Statement
    <3>3. st' = [st EXCEPT ![p] = s]
      BY <1>5, <3>1
    <3> QED  BY <1>1, <3>2, <3>3 DEF TypeOK
  <2>5. TypeOK'
    BY <1>1, <1>2, <1>5, <2>4, BoundAssumption DEF TypeOK
  <2>6. StatementFits(p)' /\ BinderFits(p)'
    BY <1>2, <2>2, <2>4 DEF StatementFits, BinderFits
  <2>7. st'[p].pc # "register"
    BY <2>4
  <2> QED  BY <1>2, <1>3, <1>5, <2>1, <2>4, <2>5, <2>6, <2>7, HandleFrame
<1> QED  BY <1>4, <1>5 DEF initInfoFails

-----------------------------------------------------------------------------
(* The steps on the tables keep the invariant.                             *)

LEMMA OutcomesFit ==
    ASSUME NEW t \in Tables, NEW s \in Statement, NEW u \in Outcomes(t, s)
    PROVE  /\ u \in Tables
           /\ u.hasSource = t.hasSource
           /\ u.source \subseteq t.source
<1>1. CASE s.kind = "write"
  <2>1. CASE u \in stepInsert(t, s.union)
    <3>1. PICK k \in Rows : u = [t EXCEPT !.target = @ \cup {k},
                                          !.source = IF s.union THEN @ \ {k} ELSE @]
      BY <2>1 DEF stepInsert
    <3> QED  BY <3>1 DEF Tables
  <2>2. CASE u \in stepUpdateOrDelete(t, s.union)
    <3>1. PICK k \in Rows :
            u = [t EXCEPT !.target = @ \ {k}, !.source = IF s.union THEN @ \ {k} ELSE @]
      BY <2>2 DEF stepUpdateOrDelete
    <3> QED  BY <3>1 DEF Tables
  <2>3. CASE u = dropTable(t, s.union)
    BY <2>3 DEF dropTable, Tables
  <2> QED  BY <1>1, <2>1, <2>2, <2>3 DEF Outcomes
<1>2. CASE s.kind = "create"
  <2>1. u = createTable(t)
    BY <1>2 DEF Outcomes
  <2> QED  BY <2>1 DEF createTable, Tables
<1>3. CASE s.kind = "select"
  <2>1. u = t
    BY <1>3 DEF Outcomes
  <2> QED  BY <2>1
<1> QED  BY <1>1, <1>2, <1>3 DEF Statement, Kinds

\* What the end of a transaction does to a Binder.
LEMMA CommittedResult ==
    ASSUME NEW x \in Binder
    PROVE  LET y == committed(x)
           IN  /\ y \in Binder /\ y.referenced = x.referenced
               /\ y.bound = x.bound /\ y.rebind = x.rebind
               /\ y.view = x.view /\ y.oldView = x.oldView
               /\ y.newView = FALSE
               /\ y.lost <=> x.lost /\ ~x.view
BY DEF committed, Binder

LEMMA RolledBackResult ==
    ASSUME NEW x \in Binder
    PROVE  LET y == rolledBack(x)
           IN  /\ y \in Binder /\ y.referenced = x.referenced
               /\ y.view = x.view /\ y.oldView = x.oldView
               /\ y.lost = x.lost
               /\ ~y.newView
               /\ y.bound => x.bound /\ ~x.newView
               /\ x.rebind => y.rebind
BY DEF rolledBack, Binder

\* A user begins or ends a transaction or writes: only his view, the tables and
\* the savepoint change.
LEMMA TransactionFrame ==
    ASSUME MigrationInv, NEW h \in Handles,
           UNCHANGED <<m, st, w, torn>>, strayed' \in BOOLEAN, events' \in 0 .. MaxEvents,
           writer' \in {h, Nobody}, writer \in {h, Nobody},
           NEW x \in Binder, b' = [b EXCEPT ![h] = x],
           x.referenced = b[h].referenced,
           st[h].union /\ st[h].pc = "ready" => x.view \/ x.lost,
           x.bound /\ ~x.rebind => x.view \/ x.lost,
           writer' = h /\ x.view => x.oldView \/ x.newView \/ x.lost,
           writer' = h => \A r \in save' : SaveKnown(r, x),
           save' \subseteq [tables : Tables, view : BOOLEAN],
           work' \in Tables, db' \in Tables, TablesFit', SaveFits', db'.hasSource = db.hasSource
    PROVE  MigrationInv'
<1>1. h # Nobody /\ h # Worker /\ Worker # Nobody /\ b \in [Handles -> Binder]
  BY ProcessAssumption DEF MigrationInv, TypeOK
<1>8. b' \in [Handles -> Binder] /\ b'[h] = x /\ \A g \in Handles \ {h} : b'[g] = b[g]
  BY <1>1
<1>2. TypeOK'
  BY <1>8, ProcsSorted DEF MigrationInv, TypeOK
<1>3. Holders' = Holders
  <2>1. \A g \in Handles : b'[g].referenced = b[g].referenced
    BY <1>8
  <2> QED  BY <2>1, SameHolders
<1>4. CountFits' /\ InfoFits'
  BY <1>3 DEF MigrationInv, CountFits, InfoFits
<1>5. WorkerFits'
  BY <1>1 DEF MigrationInv, WorkerFits
<1>6. \A g \in Handles : StatementFits(g)' /\ BinderFits(g)'
  <2>1. SUFFICES ASSUME NEW g \in Handles
                 PROVE  StatementFits(g)' /\ BinderFits(g)'
    OBVIOUS
  <2>2. StatementFits(g) /\ BinderFits(g) /\ st'[g] = st[g]
    BY DEF MigrationInv
  <2>3. CASE g = h
    BY <1>8, <2>2, <2>3 DEF StatementFits, BinderFits
  <2>4. CASE g # h
    <3>1. b'[g] = b[g] /\ g # writer /\ g # writer'
      BY <1>8, <2>4, ProcessAssumption
    <3> QED  BY <2>2, <3>1 DEF StatementFits, BinderFits
  <2> QED  BY <2>3, <2>4
<1>7. SourceFits'
  BY DEF MigrationInv, SourceFits
<1> QED
  BY <1>2, <1>4, <1>5, <1>6, <1>7 DEF MigrationInv

LEMMA StepKeeps ==
    ASSUME MigrationInv, NEW h \in Handles, step(h)
    PROVE  MigrationInv'
<1>1. /\ TypeOK /\ TablesFit /\ SaveFits /\ BinderFits(h) /\ StatementFits(h)
      /\ b[h] \in Binder
  BY DEF MigrationInv, TypeOK
<1>2. /\ UNCHANGED <<m, writer, st, w, events, torn, save>>
      /\ writer \in {h, Nobody} /\ work' \in Outcomes(Sees(h), st[h])
      /\ db' = IF writer = h THEN db ELSE work'
      /\ strayed' \in BOOLEAN
      /\ b' = [b EXCEPT ![h] = IF writer = Nobody /\ st[h].union THEN committed(b[h])
                               ELSE b[h]]
  BY <1>1 DEF step
<1>3. st[h] \in Statement /\ Sees(h) \in Tables
  BY <1>1, ProcsSorted DEF TypeOK, Sees
<1>4. PICK t \in Tables : t = Sees(h)
  BY <1>3
<1>5. /\ work' \in Tables
      /\ work'.hasSource = t.hasSource
      /\ work'.source \subseteq t.source
  <2>1. PICK u \in Outcomes(t, st[h]) : u = work'
    BY <1>2, <1>4
  <2>2. /\ u \in Tables
        /\ u.hasSource = t.hasSource
        /\ u.source \subseteq t.source
    BY <1>3, OutcomesFit
  <2> QED  BY <2>1, <2>2
<1>6. h # Nobody /\ h # Worker /\ writer # Worker /\ Nobody \notin Handles
  BY <1>2, ProcessAssumption
<1>7. TablesFit'
  <2>1. CASE writer = h
    BY <1>1, <1>2, <1>4, <1>5, <1>6, <2>1 DEF TablesFit, Sees
  <2>2. CASE writer # h
    BY <1>1, <1>2, <1>4, <1>5, <1>6, <2>2 DEF TablesFit, Sees
  <2> QED  BY <2>1, <2>2
<1>8. db'.hasSource = db.hasSource /\ db' \in Tables
  BY <1>1, <1>2, <1>4, <1>5 DEF TablesFit, Sees, TypeOK
<1>9. SaveFits'
  <2>1. CASE writer = h
    BY <1>1, <1>2, <2>1 DEF SaveFits
  <2>2. CASE writer # h
    <3>1. save = {}
      BY <1>1, <1>2, <1>6, <2>2 DEF SaveFits
    <3> QED  BY <1>2, <3>1 DEF SaveFits
  <2> QED  BY <2>1, <2>2
<1>10. PICK x : x = IF writer = Nobody /\ st[h].union THEN committed(b[h]) ELSE b[h]
  OBVIOUS
<1>11. /\ x \in Binder /\ x.referenced = b[h].referenced
       /\ x.bound = b[h].bound /\ x.rebind = b[h].rebind
       /\ x.view = b[h].view /\ x.oldView = b[h].oldView
       /\ b[h].lost => x.lost \/ x.view
       /\ writer = h => x = b[h]
  BY <1>1, <1>6, <1>10, CommittedResult
<1>12. /\ st[h].union /\ st[h].pc = "ready" => x.view \/ x.lost
       /\ x.bound /\ ~x.rebind => x.view \/ x.lost
       /\ writer' = h /\ x.view => x.oldView \/ x.newView \/ x.lost
       /\ writer' = h => \A r \in save' : SaveKnown(r, x)
  BY <1>1, <1>2, <1>11 DEF StatementFits, BinderFits
<1>13. /\ events' \in 0 .. MaxEvents /\ save' \subseteq [tables : Tables, view : BOOLEAN]
       /\ b' = [b EXCEPT ![h] = x] /\ writer' \in {h, Nobody}
  BY <1>1, <1>2, <1>10 DEF TypeOK
<1> QED
  BY <1>2, <1>5, <1>7, <1>8, <1>9, <1>11, <1>12, <1>13, TransactionFrame

LEMMA StepFailsKeeps ==
    ASSUME MigrationInv, NEW h \in Handles, stepFails(h)
    PROVE  MigrationInv'
<1>1. /\ TypeOK /\ TablesFit /\ SaveFits /\ BinderFits(h) /\ StatementFits(h)
      /\ b[h] \in Binder
  BY DEF MigrationInv, TypeOK
<1> DEFINE y == rolledBack(b[h])
           gone == b[h].lost \/ b[h].newView
<1>2. /\ UNCHANGED <<m, db, work, writer, st, w, torn, strayed, save>>
      /\ events < MaxEvents /\ events' = events + 1
      /\ writer \in {h, Nobody}
  BY DEF stepFails
<1>4. /\ y \in Binder /\ y.referenced = b[h].referenced
      /\ y.view = b[h].view /\ y.oldView = b[h].oldView /\ y.lost = b[h].lost
      /\ ~y.newView
      /\ y.bound => b[h].bound /\ ~b[h].newView
      /\ b[h].rebind => y.rebind
  BY <1>1, RolledBackResult
<1>3. gone \in BOOLEAN /\ (b[h].lost => gone) /\ (b[h].newView => gone)
  BY <1>4
<1>5. b' = [b EXCEPT ![h] = [y EXCEPT !.lost = gone]]
  BY DEF stepFails
<1> HIDE DEF gone, y
<1>6. PICK x : x = [y EXCEPT !.lost = gone]
  OBVIOUS
<1>7. /\ x \in Binder /\ x.referenced = b[h].referenced
      /\ x.view = b[h].view /\ x.oldView = b[h].oldView /\ x.lost = gone
      /\ x.bound => b[h].bound /\ ~b[h].newView
      /\ b[h].rebind => x.rebind
  BY <1>3, <1>4, <1>6 DEF Binder
<1>8. /\ st[h].union /\ st[h].pc = "ready" => x.view \/ x.lost
      /\ x.bound /\ ~x.rebind => x.view \/ x.lost
      /\ writer' = h /\ x.view => x.oldView \/ x.newView \/ x.lost
      /\ writer' = h => \A r \in save' : SaveKnown(r, x)
  BY <1>1, <1>2, <1>3, <1>7 DEF StatementFits, BinderFits, SaveKnown
<1>9. /\ events' \in 0 .. MaxEvents /\ save' \subseteq [tables : Tables, view : BOOLEAN]
      /\ b' = [b EXCEPT ![h] = x] /\ writer' \in {h, Nobody} /\ strayed' \in BOOLEAN
      /\ work' \in Tables /\ db' \in Tables /\ db'.hasSource = db.hasSource
  BY <1>1, <1>2, <1>5, <1>6, BoundAssumption DEF TypeOK
<1>10. TablesFit' /\ SaveFits'
  BY <1>1, <1>2 DEF TablesFit, SaveFits
<1> QED
  BY <1>2, <1>7, <1>8, <1>9, <1>10, TransactionFrame

LEMMA BeginKeeps ==
    ASSUME MigrationInv, NEW h \in Handles, beginTransaction(h)
    PROVE  MigrationInv'
<1>1. /\ TypeOK /\ TablesFit /\ SaveFits /\ BinderFits(h) /\ StatementFits(h)
      /\ b[h] \in Binder
  BY DEF MigrationInv, TypeOK
<1>2. /\ UNCHANGED <<m, db, work, st, w, events, torn, strayed, save>>
      /\ writer = Nobody /\ writer' = h /\ st[h].pc = "idle"
      /\ b' = [b EXCEPT ![h].oldView = b[h].view]
  BY DEF beginTransaction
<1>3. h # Nobody /\ h # Worker /\ Worker # Nobody /\ Nobody \notin Handles
  BY ProcessAssumption
<1>4. save = {}
  BY <1>1, <1>2, <1>3 DEF SaveFits
<1>5. PICK x : x = [b[h] EXCEPT !.oldView = b[h].view]
  OBVIOUS
<1>6. /\ x \in Binder /\ x.referenced = b[h].referenced /\ x.view = b[h].view
      /\ x.oldView = b[h].view /\ x.lost = b[h].lost /\ x.bound = b[h].bound
      /\ x.rebind = b[h].rebind
  BY <1>1, <1>5 DEF Binder
<1>7. /\ x.bound /\ ~x.rebind => x.view \/ x.lost
      /\ writer' = h /\ x.view => x.oldView \/ x.newView \/ x.lost
      /\ writer' = h => \A r \in save' : SaveKnown(r, x)
  BY <1>1, <1>2, <1>4, <1>6 DEF BinderFits
<1>8. /\ events' \in 0 .. MaxEvents /\ save' \subseteq [tables : Tables, view : BOOLEAN]
      /\ strayed' \in BOOLEAN /\ work' \in Tables /\ db' \in Tables
      /\ db'.hasSource = db.hasSource
  BY <1>1, <1>2 DEF TypeOK
<1>9. b' = [b EXCEPT ![h] = x]
  BY <1>2, <1>5
<1>10. TablesFit' /\ SaveFits'
  BY <1>1, <1>2, <1>3, <1>4 DEF TablesFit, SaveFits
<1> QED
  BY <1>2, <1>6, <1>7, <1>8, <1>9, <1>10, TransactionFrame

LEMMA CommitKeeps ==
    ASSUME MigrationInv, NEW h \in Handles, commitTransaction(h)
    PROVE  MigrationInv'
<1>1. /\ TypeOK /\ TablesFit /\ SaveFits /\ BinderFits(h) /\ StatementFits(h)
      /\ b[h] \in Binder
  BY DEF MigrationInv, TypeOK
<1>2. /\ UNCHANGED <<m, work, st, w, events, torn, strayed, save>>
      /\ writer = h /\ writer' = Nobody /\ st[h].pc = "idle" /\ db' = work /\ save = {}
      /\ b' = [b EXCEPT ![h] = [committed(b[h]) EXCEPT !.oldView = FALSE]]
  BY <1>1 DEF commitTransaction, MayEnd
<1>3. h # Nobody /\ h # Worker /\ Worker # Nobody /\ Nobody \notin Handles
  BY ProcessAssumption
<1>4. PICK y : y = committed(b[h])
  OBVIOUS
<1>5. /\ y \in Binder /\ y.referenced = b[h].referenced /\ y.view = b[h].view
      /\ y.bound = b[h].bound /\ y.rebind = b[h].rebind
      /\ b[h].lost => y.lost \/ y.view
  BY <1>1, <1>4, CommittedResult
<1>6. PICK x : x = [y EXCEPT !.oldView = FALSE]
  OBVIOUS
<1>7. /\ x \in Binder /\ x.referenced = b[h].referenced /\ x.view = b[h].view
      /\ x.bound = b[h].bound /\ x.rebind = b[h].rebind
      /\ b[h].lost => x.lost \/ x.view
  BY <1>5, <1>6 DEF Binder
<1>8. x.bound /\ ~x.rebind => x.view \/ x.lost
  BY <1>1, <1>7 DEF BinderFits
<1>9. /\ events' \in 0 .. MaxEvents /\ save' \subseteq [tables : Tables, view : BOOLEAN]
      /\ strayed' \in BOOLEAN /\ work' \in Tables /\ db' \in Tables
      /\ db'.hasSource = db.hasSource
  BY <1>1, <1>2 DEF TypeOK, TablesFit
<1>10. b' = [b EXCEPT ![h] = x]
  BY <1>2, <1>4, <1>6
<1>11. TablesFit' /\ SaveFits'
  BY <1>1, <1>2, <1>3 DEF TablesFit, SaveFits
<1> QED
  BY <1>2, <1>3, <1>7, <1>8, <1>9, <1>10, <1>11, TransactionFrame

\* A rollback, of any level, leaves the tables and the view as they were: what
\* the Binder still believes is true unless it has lost the view.
LEMMA RollbackFrame ==
    ASSUME MigrationInv, NEW h \in Handles, writer = h,
           UNCHANGED <<m, db, st, w, torn, strayed>>, events' \in 0 .. MaxEvents,
           NEW y \in Binder, y.referenced = b[h].referenced,
           NEW v \in BOOLEAN, NEW o \in BOOLEAN, NEW gone \in BOOLEAN,
           b' = [b EXCEPT ![h] = [y EXCEPT !.view = v, !.oldView = o, !.lost = gone]],
           y.bound /\ ~y.rebind => v \/ gone,
           st[h].pc = "ready" /\ st[h].union => v \/ gone,
           writer' = h /\ v => o \/ gone,
           writer' \in {h, Nobody}, save' = {}, work' \in Tables, TablesFit'
    PROVE  MigrationInv'
<1>1. TypeOK
  BY DEF MigrationInv
<1>2. PICK x : x = [y EXCEPT !.view = v, !.oldView = o, !.lost = gone]
  OBVIOUS
<1>3. /\ x \in Binder /\ x.referenced = b[h].referenced /\ x.view = v /\ x.oldView = o
      /\ x.lost = gone /\ x.bound = y.bound /\ x.rebind = y.rebind
  BY <1>2 DEF Binder
<1>4. /\ save' \subseteq [tables : Tables, view : BOOLEAN] /\ strayed' \in BOOLEAN
      /\ db' \in Tables /\ db'.hasSource = db.hasSource
  BY <1>1 DEF TypeOK
<1>5. SaveFits'
  BY DEF SaveFits
<1>6. b' = [b EXCEPT ![h] = x]
  BY <1>2
<1>7. /\ st[h].union /\ st[h].pc = "ready" => x.view \/ x.lost
      /\ x.bound /\ ~x.rebind => x.view \/ x.lost
      /\ writer' = h /\ x.view => x.oldView \/ x.newView \/ x.lost
      /\ writer' = h => \A r \in save' : SaveKnown(r, x)
  BY <1>3
<1> QED
  BY <1>3, <1>4, <1>5, <1>6, <1>7, TransactionFrame

LEMMA RollbackKeeps ==
    ASSUME MigrationInv, NEW h \in Handles, rollbackTransaction(h)
    PROVE  MigrationInv'
<1>1. /\ TypeOK /\ TablesFit /\ SaveFits /\ BinderFits(h) /\ b[h] \in Binder
  BY DEF MigrationInv, TypeOK
<1> DEFINE v == b[h].oldView
           y == rolledBack(b[h])
           gone == b[h].lost /\ ~b[h].newView
<1>2. /\ UNCHANGED <<m, db, st, w, events, torn, strayed, save>>
      /\ writer = h /\ writer' = Nobody /\ st[h].pc = "idle" /\ work' = db /\ save = {}
  BY DEF rollbackTransaction, MayEnd
<1>3. v \in BOOLEAN /\ gone \in BOOLEAN
  BY <1>1 DEF Binder
<1>4. /\ y \in Binder /\ y.referenced = b[h].referenced /\ y.lost = b[h].lost
      /\ y.bound => b[h].bound /\ ~b[h].newView
      /\ b[h].rebind => y.rebind
  BY <1>1, RolledBackResult
<1>5. b' = [b EXCEPT ![h] = [y EXCEPT !.view = v, !.oldView = FALSE, !.lost = gone]]
  BY DEF rollbackTransaction
<1>6. y.bound /\ ~y.rebind => v \/ gone
  BY <1>1, <1>2, <1>4 DEF BinderFits
<1> HIDE DEF v, gone, y
<1>7. h # Nobody /\ h # Worker /\ Worker # Nobody /\ Nobody \notin Handles
  BY ProcessAssumption
<1>8. events' \in 0 .. MaxEvents /\ work' \in Tables /\ save' = {} /\ TablesFit'
  BY <1>1, <1>2, <1>7 DEF TablesFit, TypeOK
<1> QED
  BY <1>2, <1>3, <1>4, <1>5, <1>6, <1>7, <1>8, RollbackFrame

LEMMA RollbackToSavepointKeeps ==
    ASSUME MigrationInv, NEW h \in Handles, rollbackToSavepoint(h)
    PROVE  MigrationInv'
<1>1. /\ TypeOK /\ TablesFit /\ SaveFits /\ BinderFits(h) /\ b[h] \in Binder
  BY DEF MigrationInv, TypeOK
<1>2. /\ UNCHANGED <<m, db, writer, st, w, events, torn, strayed>>
      /\ writer = h /\ st[h].pc = "idle" /\ save' = {}
  BY DEF rollbackToSavepoint, MayEnd
<1>3. PICK r \in save :
          /\ work' = r.tables
          /\ b' = [b EXCEPT ![h] = [rolledBack(b[h]) EXCEPT !.view = r.view,
                                        !.lost = b[h].lost \/ (b[h].newView /\ r.view)]]
  BY DEF rollbackToSavepoint
<1> DEFINE v == r.view
           o == b[h].oldView
           y == rolledBack(b[h])
           gone == b[h].lost \/ (b[h].newView /\ r.view)
<1>4. r.tables \in Tables /\ r.view \in BOOLEAN
  BY <1>1 DEF TypeOK
<1>5. v \in BOOLEAN /\ o \in BOOLEAN /\ gone \in BOOLEAN
  BY <1>1, <1>4 DEF Binder
<1>6. /\ y \in Binder /\ y.referenced = b[h].referenced
      /\ y.lost = b[h].lost /\ y.oldView = b[h].oldView
      /\ y.bound => b[h].bound /\ ~b[h].newView
      /\ b[h].rebind => y.rebind
  BY <1>1, RolledBackResult
<1>7. b' = [b EXCEPT ![h] = [y EXCEPT !.view = v, !.oldView = o, !.lost = gone]]
  <2>1. b' = [b EXCEPT ![h] = [y EXCEPT !.view = v, !.lost = gone]]
    BY <1>3
  <2>2. [y EXCEPT !.view = v, !.lost = gone] = [y EXCEPT !.view = v, !.oldView = o, !.lost = gone]
    <3> HIDE DEF v, gone, y
    <3> QED  BY <1>5, <1>6 DEF Binder
  <2> QED  BY <2>1, <2>2
<1>8. /\ y.bound /\ ~y.rebind => v \/ gone
      /\ v => o \/ gone
  BY <1>1, <1>2, <1>3, <1>4, <1>6 DEF BinderFits, SaveKnown
<1> HIDE DEF v, o, gone, y
<1>9. h # Nobody /\ h # Worker /\ Worker # Nobody
  BY ProcessAssumption
<1>10. events' \in 0 .. MaxEvents /\ work' \in Tables /\ TablesFit'
  BY <1>1, <1>2, <1>3, <1>4, <1>9 DEF TablesFit, SaveFits, TypeOK
<1> QED
  BY <1>2, <1>5, <1>6, <1>7, <1>8, <1>10, RollbackFrame

LEMMA SqliteRollsBackKeeps ==
    ASSUME MigrationInv, NEW h \in Handles, sqliteRollsBack(h)
    PROVE  MigrationInv'
<1>1. /\ TypeOK /\ TablesFit /\ SaveFits /\ BinderFits(h) /\ StatementFits(h)
      /\ b[h] \in Binder
  BY DEF MigrationInv, TypeOK
<1> DEFINE v == b[h].oldView
           gone == b[h].lost \/ b[h].newView
           x == [b[h] EXCEPT !.view = v, !.oldView = FALSE, !.lost = gone]
           called == st[h].union /\ st[h].kind # "select"
           y == IF called THEN rolledBack(x) ELSE x
<1>2. /\ UNCHANGED <<m, db, st, w, torn, strayed>>
      /\ events < MaxEvents /\ events' = events + 1
      /\ writer = h /\ writer' = Nobody /\ work' = db /\ save' = {}
      /\ b' = [b EXCEPT ![h] = y]
  BY DEF sqliteRollsBack
<1>3. v \in BOOLEAN /\ gone \in BOOLEAN
  BY <1>1 DEF Binder
<1>4. /\ b[h].bound /\ ~b[h].rebind => v \/ gone
      /\ st[h].pc = "ready" /\ st[h].union => v \/ gone
  BY <1>1, <1>2 DEF BinderFits, StatementFits
<1> HIDE DEF v, gone
<1>5. /\ x \in Binder /\ x.referenced = b[h].referenced /\ x.view = v /\ x.oldView = FALSE
      /\ x.lost = gone /\ x.bound = b[h].bound /\ x.rebind = b[h].rebind
  BY <1>1, <1>3 DEF Binder
<1> HIDE DEF x
<1>6. /\ y \in Binder /\ y.referenced = b[h].referenced /\ y.view = v /\ y.oldView = FALSE
      /\ y.lost = gone
      /\ y.bound => b[h].bound
      /\ b[h].rebind => y.rebind
  <2>1. CASE called
    BY <1>5, <2>1, RolledBackResult
  <2>2. CASE ~called
    BY <1>5, <2>2
  <2> QED  BY <2>1, <2>2
<1> HIDE DEF y
<1>7. b' = [b EXCEPT ![h] = [y EXCEPT !.view = v, !.oldView = FALSE, !.lost = gone]]
  <2>1. y = [y EXCEPT !.view = v, !.oldView = FALSE, !.lost = gone]
    BY <1>6 DEF Binder
  <2> QED  BY <1>2, <2>1
<1>8. h # Nobody /\ h # Worker /\ Worker # Nobody
  BY ProcessAssumption
<1>9. events' \in 0 .. MaxEvents /\ work' \in Tables /\ TablesFit'
  BY <1>1, <1>2, <1>8, BoundAssumption DEF TablesFit, TypeOK
<1>10. y.bound /\ ~y.rebind => v \/ gone
  BY <1>4, <1>6
<1> QED
  BY <1>2, <1>3, <1>4, <1>6, <1>7, <1>8, <1>9, <1>10, RollbackFrame

\* A savepoint begins or is released.
LEMMA SavepointKeeps ==
    ASSUME MigrationInv, NEW h \in Handles, beginSavepoint(h) \/ releaseSavepoint(h)
    PROVE  MigrationInv'
<1>1. /\ TypeOK /\ TablesFit /\ SaveFits /\ BinderFits(h) /\ b[h] \in Binder
  BY DEF MigrationInv, TypeOK
<1>2. /\ UNCHANGED <<m, db, work, writer, st, b, w, torn, strayed>>
      /\ writer = h /\ st[h].pc = "idle" /\ events' \in 0 .. MaxEvents
  BY <1>1, BoundAssumption DEF beginSavepoint, releaseSavepoint, MayEnd, TypeOK
<1>3. \A r \in save' : r = [tables |-> work, view |-> b[h].view]
  BY DEF beginSavepoint, releaseSavepoint
<1>4. save' \subseteq [tables : Tables, view : BOOLEAN]
  BY <1>1, <1>3 DEF TypeOK, Binder
<1>5. TablesFit' /\ SaveFits'
  BY <1>1, <1>2, <1>3 DEF TablesFit, SaveFits
<1>6. PICK x \in Binder : x = b[h]
  BY <1>1
<1>7. /\ x.bound /\ ~x.rebind => x.view \/ x.lost
      /\ writer' = h /\ x.view => x.oldView \/ x.newView \/ x.lost
      /\ writer' = h => \A r \in save' : SaveKnown(r, x)
  BY <1>1, <1>2, <1>3, <1>6 DEF BinderFits, SaveKnown
<1>8. b' = [b EXCEPT ![h] = x]
  BY <1>1, <1>2, <1>6 DEF TypeOK
<1>9. /\ strayed' \in BOOLEAN /\ work' \in Tables /\ db' \in Tables
      /\ db'.hasSource = db.hasSource
  BY <1>1, <1>2 DEF TypeOK
<1> QED
  BY <1>2, <1>4, <1>5, <1>6, <1>7, <1>8, <1>9, TransactionFrame

LEMMA EndRolledBackKeeps ==
    ASSUME MigrationInv, NEW h \in Handles, endRolledBack(h)
    PROVE  MigrationInv'
<1>1. /\ TypeOK /\ CountFits /\ InfoFits /\ BinderFits(h) /\ StatementFits(h)
      /\ b[h] \in Binder
  BY DEF MigrationInv, TypeOK
<1>2. /\ UNCHANGED <<m, db, work, writer, st, w, events, torn, strayed, save>>
      /\ writer # h /\ st[h].pc = "idle" /\ b[h].newView
  BY DEF endRolledBack
<1> DEFINE y == rolledBack(b[h])
<1>3. /\ y \in Binder /\ y.referenced = b[h].referenced
      /\ y.bound => ~b[h].newView
  BY <1>1, RolledBackResult
<1>4. \E x \in Binder : /\ b' = [b EXCEPT ![h] = x] /\ x.referenced = b[h].referenced
                        /\ x.bound /\ ~x.rebind => x.view \/ x.lost
  <2>1. CASE b' = [b EXCEPT ![h] = committed(b[h])]
    <3>1. PICK x : x = committed(b[h])
      OBVIOUS
    <3>2. /\ x \in Binder /\ x.referenced = b[h].referenced /\ x.view = b[h].view
          /\ x.bound = b[h].bound /\ x.rebind = b[h].rebind
          /\ b[h].lost => x.lost \/ x.view
      BY <1>1, <3>1, CommittedResult
    <3> QED  BY <1>1, <2>1, <3>1, <3>2 DEF BinderFits
  <2>2. CASE b' = [b EXCEPT ![h] = [y EXCEPT !.lost = FALSE]]
    <3> HIDE DEF y
    <3>1. PICK x : x = [y EXCEPT !.lost = FALSE]
      OBVIOUS
    <3>2. x \in Binder /\ x.referenced = b[h].referenced /\ ~x.bound
      BY <1>2, <1>3, <3>1 DEF Binder
    <3> QED  BY <2>2, <3>1, <3>2
  <2> QED  BY <1>1, <2>1, <2>2 DEF endRolledBack
<1>5. PICK x \in Binder : /\ b' = [b EXCEPT ![h] = x] /\ x.referenced = b[h].referenced
                          /\ x.bound /\ ~x.rebind => x.view \/ x.lost
  BY <1>4
<1>6. b' \in [Handles -> Binder] /\ b'[h] = x /\ \A g \in Handles \ {h} : b'[g] = b[g]
  BY <1>1, <1>5 DEF TypeOK
<1>7. TypeOK'
  BY <1>1, <1>2, <1>6 DEF TypeOK
<1>8. Holders' = Holders
  <2>1. \A g \in Handles : b'[g].referenced = b[g].referenced
    BY <1>5, <1>6
  <2> QED  BY <2>1, SameHolders
<1>9. CountFits' /\ InfoFits'
  BY <1>1, <1>2, <1>8 DEF CountFits, InfoFits
<1>10. StatementFits(h)' /\ BinderFits(h)' /\ st'[h].pc # "register"
  BY <1>1, <1>2, <1>5, <1>6 DEF StatementFits, BinderFits
<1> QED
  BY <1>2, <1>6, <1>7, <1>9, <1>10, HandleFrame

-----------------------------------------------------------------------------
(* The steps of stepMigration() keep the invariant.                        *)

LEMMA StepperFrame ==
    ASSUME MigrationInv, TypeOK', UNCHANGED <<b, save>>, db' = db \/ save = {},
           \A h \in Handles : st'[h] = st[h] /\ (writer' = h <=> writer = h),
           CountFits', InfoFits', WorkerFits', TablesFit', SourceFits'
    PROVE  MigrationInv'
<1>3. SaveFits'
  BY DEF MigrationInv, SaveFits
<1>1. SUFFICES ASSUME NEW g \in Handles
               PROVE  StatementFits(g)' /\ BinderFits(g)'
  BY <1>3 DEF MigrationInv
<1>2. StatementFits(g) /\ BinderFits(g) /\ st'[g] = st[g] /\ b'[g] = b[g]
      /\ (writer' = g <=> writer = g)
  BY DEF MigrationInv
<1> QED  BY <1>2 DEF StatementFits, BinderFits

LEMMA StepMigrationKeeps ==
    ASSUME MigrationInv, stepMigration
    PROVE  MigrationInv'
<1>1. TypeOK /\ CountFits /\ InfoFits /\ WorkerFits /\ TablesFit /\ SourceFits
  BY DEF MigrationInv
<1>2. /\ UNCHANGED <<m, db, work, writer, b, events, torn, strayed, save>> /\ w.pc = "idle"
      /\ st[Worker].pc = "idle" /\ writer # Worker
  BY <1>1 DEF stepMigration, WorkerFits
<1>3. /\ w' \in Work /\ w'.pc \notin {"commit", "dropSource", "markDropped"}
      /\ w'.pc \in {"migrate", "mark"} => m.migratings
      /\ w'.pc = "drop" => m.dumpster
  BY <1>1 DEF stepMigration, WGoto, TypeOK, Work
<1>4. /\ st' \in [Procs -> Statement]
      /\ \A p \in Procs \ {Worker} : st'[p] = st[p]
      /\ st'[Worker].pc # "register"
      /\ st'[Worker].pc # "idle" => w'.pc = "acquire"
  <2>1. CASE UNCHANGED st
    BY <1>1, <1>2, <2>1, ProcsSorted DEF TypeOK
  <2>2. CASE WGoto("acquire") /\ Goto(Worker, IF db.hasTarget \/ m.hints THEN "init" ELSE "acquired")
    BY <1>1, <2>2, ProcsSorted DEF TypeOK, WGoto, Goto, Statement, Work
  <2> QED  BY <2>1, <2>2 DEF stepMigration
<1>5. TypeOK'
  BY <1>1, <1>2, <1>3, <1>4 DEF TypeOK
<1>6. CountFits' /\ InfoFits'
  BY <1>1, <1>2 DEF CountFits, InfoFits, Holders
<1>7. WorkerFits'
  BY <1>2, <1>3, <1>4 DEF WorkerFits
<1>8. TablesFit'
  BY <1>1, <1>2, <1>3 DEF TablesFit
<1>9. SourceFits'
  BY <1>1, <1>2, <1>4 DEF SourceFits
<1>10. \A h \in Handles : st'[h] = st[h] /\ (writer' = h <=> writer = h)
  BY <1>2, <1>4, ProcsSorted
<1> QED
  BY <1>2, <1>5, <1>6, <1>7, <1>8, <1>9, <1>10, StepperFrame

LEMMA SelectAnyRowKeeps ==
    ASSUME MigrationInv, selectAnyRow
    PROVE  MigrationInv'
<1>1. TypeOK /\ CountFits /\ InfoFits /\ WorkerFits /\ TablesFit /\ SourceFits
  BY DEF MigrationInv
<1>2. /\ UNCHANGED <<m, db, work, writer, st, b, events, torn, strayed, save>> /\ w.pc = "drop"
  BY DEF selectAnyRow
<1>3. /\ w' \in Work /\ w'.pc \in {"idle", "dropSource", "markDropped"}
      /\ w'.pc = "dropSource" => db.source = {}
  BY <1>1 DEF selectAnyRow, WGoto, TypeOK, Work
<1>4. TypeOK'
  BY <1>1, <1>2, <1>3 DEF TypeOK
<1>5. CountFits' /\ InfoFits' /\ SourceFits'
  BY <1>1, <1>2 DEF CountFits, InfoFits, Holders, SourceFits
<1>6. WorkerFits' /\ TablesFit'
  BY <1>1, <1>2, <1>3 DEF WorkerFits, TablesFit
<1> QED
  BY <1>2, <1>4, <1>5, <1>6, StepperFrame

LEMMA DropSourceTableKeeps ==
    ASSUME MigrationInv, dropSourceTable
    PROVE  MigrationInv'
<1>1. TypeOK /\ CountFits /\ InfoFits /\ WorkerFits /\ TablesFit /\ SourceFits
  BY DEF MigrationInv
<1>2. /\ UNCHANGED <<m, writer, st, b, events, torn, strayed, save>> /\ w.pc = "dropSource"
      /\ writer = Nobody /\ work' = db'
      /\ db' = [db EXCEPT !.hasSource = FALSE, !.source = {}]
      /\ w' = [w EXCEPT !.pc = "markDropped"]
  BY DEF dropSourceTable, WGoto
<1>3. w' \in Work /\ w'.pc = "markDropped"
  BY <1>1, <1>2 DEF TypeOK, Work
<1>4. db' \in Tables /\ db'.source = {} /\ db'.hasSource = FALSE
  BY <1>1, <1>2 DEF TypeOK, Tables
<1>5. TypeOK'
  BY <1>1, <1>2, <1>3, <1>4 DEF TypeOK
<1>6. CountFits' /\ InfoFits'
  BY <1>1, <1>2 DEF CountFits, InfoFits, Holders
<1>7. m.dumpster /\ m.referenceds = Absent /\ m.filted = "info" /\ writer # Worker
  BY <1>1, <1>2, ProcessAssumption DEF WorkerFits, InfoFits
<1>8. WorkerFits' /\ TablesFit' /\ SourceFits'
  BY <1>1, <1>2, <1>3, <1>4, <1>7 DEF WorkerFits, TablesFit, SourceFits
<1>9. save = {}
  BY <1>2, ProcessAssumption DEF MigrationInv, SaveFits
<1> QED
  BY <1>2, <1>5, <1>6, <1>8, <1>9, StepperFrame

LEMMA SourceTableDroppedKeeps ==
    ASSUME MigrationInv, sourceTableDropped
    PROVE  MigrationInv'
<1>1. TypeOK /\ CountFits /\ InfoFits /\ WorkerFits /\ TablesFit /\ SourceFits
  BY DEF MigrationInv
<1>2. /\ UNCHANGED <<db, work, writer, st, b, events, torn, strayed, save>> /\ w.pc = "markDropped"
      /\ m' = [m EXCEPT !.dumpster = FALSE] /\ w' = [w EXCEPT !.pc = "idle"]
  BY DEF sourceTableDropped, WGoto, markAsDropped
<1>3. w' \in Work /\ w'.pc = "idle"
  BY <1>1, <1>2 DEF TypeOK, Work
<1>4. /\ m' \in MigrationState /\ m'.filted = m.filted /\ m'.migratings = m.migratings
      /\ m'.referenceds = m.referenceds /\ ~m'.dumpster
  BY <1>1, <1>2 DEF TypeOK, MigrationState
<1>5. TypeOK'
  BY <1>1, <1>2, <1>3, <1>4 DEF TypeOK
<1>6. Holders' = Holders
  BY <1>2 DEF Holders
<1>7. CountFits' /\ InfoFits'
  BY <1>1, <1>4, <1>6 DEF CountFits, InfoFits
<1>8. WorkerFits' /\ TablesFit' /\ SourceFits'
  BY <1>1, <1>2, <1>3, <1>4 DEF WorkerFits, TablesFit, SourceFits
<1> QED
  BY <1>2, <1>5, <1>7, <1>8, StepperFrame

\* A batch moves rows of the source and changes nothing else.
LEMMA RowsMovedFit ==
    ASSUME NEW t \in Tables, NEW r \in LastRows(t)
    PROVE  LET u == rowsMoved(t, r)
           IN  /\ u \in Tables /\ r \subseteq t.source \ t.target
               /\ u.hasSource = t.hasSource /\ u.hasTarget = t.hasTarget
               /\ u.source = t.source \ r /\ u.target = t.target \cup r
<1>1. r \subseteq t.source \ t.target
  BY DEF LastRows
<1> QED  BY <1>1 DEF rowsMoved, Tables

LEMMA MigrateRowsKeeps ==
    ASSUME MigrationInv, migrateRows
    PROVE  MigrationInv'
<1>1. TypeOK /\ CountFits /\ InfoFits /\ WorkerFits /\ TablesFit /\ SourceFits
  BY DEF MigrationInv
<1>2. /\ UNCHANGED <<m, db, st, b, events, torn, strayed, save>> /\ w.pc = "migrate" /\ writer = Nobody
  BY DEF migrateRows
<1>3. CountFits' /\ InfoFits' /\ SourceFits'
  BY <1>1, <1>2 DEF CountFits, InfoFits, Holders, SourceFits
<1>4. m.migratings /\ st[Worker].pc = "idle" /\ Worker # Nobody /\ work = db
      /\ \A h \in Handles : h # Worker /\ h # Nobody
  BY <1>1, <1>2, ProcessAssumption DEF WorkerFits, TablesFit
<1>5. CASE WGoto("idle") /\ UNCHANGED <<work, writer>>
  <2>1. w' \in Work /\ w'.pc = "idle"
    BY <1>1, <1>5 DEF TypeOK, Work, WGoto
  <2>2. TypeOK'
    BY <1>1, <1>2, <1>5, <2>1 DEF TypeOK
  <2>3. WorkerFits' /\ TablesFit'
    BY <1>1, <1>2, <1>4, <1>5, <2>1 DEF WorkerFits, TablesFit
  <2> QED  BY <1>2, <1>3, <1>5, <2>2, <2>3, StepperFrame
<1>6. CASE /\ db.hasTarget
           /\ writer' = Worker
           /\ \E r \in LastRows(db), migrated \in BOOLEAN :
                /\ work' = rowsMoved(db, r)
                /\ w' = [pc |-> "commit", migrated |-> migrated]
  <2>1. PICK r \in LastRows(db), migrated \in BOOLEAN :
                /\ work' = rowsMoved(db, r)
                /\ w' = [pc |-> "commit", migrated |-> migrated]
    BY <1>6
  <2>2. w' \in Work /\ w'.pc = "commit"
    BY <2>1 DEF Work
  <2>3. /\ work' \in Tables /\ r \subseteq db.source \ db.target
        /\ work'.hasSource = db.hasSource /\ work'.hasTarget = db.hasTarget
        /\ work'.source = db.source \ r /\ work'.target = db.target \cup r
    BY <1>1, <2>1, RowsMovedFit DEF TypeOK
  <2>4. TypeOK'
    BY <1>1, <1>2, <1>6, <2>2, <2>3, ProcsSorted DEF TypeOK
  <2>5. WorkerFits'
    BY <1>2, <1>4, <1>6, <2>2 DEF WorkerFits
  <2>6. TablesFit'
    <3>1. work'.target \subseteq db.target \cup db.source
      BY <2>3
    <3>2. work'.target \cup work'.source = db.target \cup db.source
      BY <2>3
    <3> QED  BY <1>1, <1>2, <1>4, <1>6, <2>2, <2>3, <3>1, <3>2 DEF TablesFit
  <2>7. \A h \in Handles : st'[h] = st[h] /\ (writer' = h <=> writer = h)
    BY <1>2, <1>4, <1>6
  <2> QED  BY <1>2, <1>3, <2>4, <2>5, <2>6, <2>7, StepperFrame
<1> QED  BY <1>5, <1>6 DEF migrateRows

\* The batch ends: it is committed or rolled back.
LEMMA BatchEndFrame ==
    ASSUME MigrationInv, UNCHANGED <<m, st, b, strayed, save>>, events' \in 0 .. MaxEvents,
           torn' \in BOOLEAN, w.pc = "commit", writer' = Nobody,
           work' = db', db' \in {db, work}, w' \in Work, w'.pc \in {"idle", "mark"}
    PROVE  MigrationInv'
<1>1. TypeOK /\ CountFits /\ InfoFits /\ WorkerFits /\ TablesFit /\ SourceFits
  BY DEF MigrationInv
<1>2. /\ m.migratings /\ st[Worker].pc = "idle" /\ writer = Worker
      /\ Worker # Nobody /\ \A h \in Handles : h # Worker /\ h # Nobody
  BY <1>1, ProcessAssumption DEF WorkerFits
<1>3. TypeOK'
  BY <1>1 DEF TypeOK
<1>4. CountFits' /\ InfoFits'
  BY <1>1 DEF CountFits, InfoFits, Holders
<1>5. WorkerFits'
  BY <1>2 DEF WorkerFits
<1>6. db'.hasSource = db.hasSource /\ db'.source \subseteq db.source
  BY <1>1 DEF TablesFit
<1>7. TablesFit'
  BY <1>1, <1>2, <1>6 DEF TablesFit
<1>8. SourceFits'
  BY <1>1, <1>6 DEF SourceFits
<1>9. \A h \in Handles : st'[h] = st[h] /\ (writer' = h <=> writer = h)
  BY <1>2
<1>10. save = {}
  BY <1>2 DEF MigrationInv, SaveFits
<1> QED
  BY <1>3, <1>4, <1>5, <1>7, <1>8, <1>9, <1>10, StepperFrame

LEMMA RowsMigratedKeeps ==
    ASSUME MigrationInv, rowsMigrated
    PROVE  MigrationInv'
<1>1. TypeOK
  BY DEF MigrationInv
<1>2. /\ UNCHANGED <<m, work, st, b, events, torn, strayed, save>> /\ w.pc = "commit"
      /\ writer' = Nobody /\ db' = work
  BY DEF rowsMigrated
<1>3. w' \in Work /\ w'.pc \in {"idle", "mark"}
  BY DEF rowsMigrated, Work
<1>4. events' \in 0 .. MaxEvents /\ torn' \in BOOLEAN /\ work' = db' /\ db' \in {db, work}
  BY <1>1, <1>2 DEF TypeOK
<1> QED  BY <1>2, <1>3, <1>4, BatchEndFrame

LEMMA MigrateRowsFailsKeeps ==
    ASSUME MigrationInv, migrateRowsFails
    PROVE  MigrationInv'
<1>1. TypeOK
  BY DEF MigrationInv
<1>2. /\ UNCHANGED <<m, db, st, b, events, torn, strayed, save>> /\ w.pc = "commit"
      /\ writer' = Nobody /\ work' = db /\ w' = resting
  BY DEF migrateRowsFails
<1>3. w' \in Work /\ w'.pc = "idle"
  BY <1>2 DEF Work, resting
<1>4. events' \in 0 .. MaxEvents /\ torn' \in BOOLEAN /\ work' = db' /\ db' \in {db, work}
  BY <1>1, <1>2, BoundAssumption DEF TypeOK
<1> QED  BY <1>2, <1>3, <1>4, BatchEndFrame

LEMMA TableMigratedKeeps ==
    ASSUME MigrationInv, tableMigrated
    PROVE  MigrationInv'
<1>1. TypeOK /\ CountFits /\ InfoFits /\ WorkerFits /\ TablesFit /\ SourceFits
  BY DEF MigrationInv
<1>2. /\ UNCHANGED <<db, work, writer, st, b, events, torn, strayed, save>> /\ w.pc = "mark"
      /\ m' = markAsMigrated(m) /\ w' = [w EXCEPT !.pc = "idle"]
  BY DEF tableMigrated, WGoto
<1>3. w' \in Work /\ w'.pc = "idle"
  BY <1>1, <1>2 DEF TypeOK, Work
<1>4. /\ m' \in MigrationState /\ m'.filted = m.filted /\ m'.migratings = FALSE
      /\ m'.referenceds = IF m.referenceds = 0 THEN Absent ELSE m.referenceds
      /\ m'.dumpster = IF m.referenceds = 0 THEN TRUE ELSE m.dumpster
  BY <1>1, <1>2, MigratedResult DEF TypeOK
<1>5. m.migratings /\ m.referenceds # Absent /\ ~m.dumpster
  BY <1>1, <1>2 DEF WorkerFits, InfoFits
<1>6. TypeOK'
  BY <1>1, <1>2, <1>3, <1>4 DEF TypeOK
<1>7. Holders' = Holders
  BY <1>2 DEF Holders
<1>8. CountFits'
  <2>1. CASE m.referenceds = 0
    BY <1>1, <1>4, <1>7, <2>1, HoldersFinite DEF CountFits, Absent
  <2>2. CASE m.referenceds # 0
    BY <1>1, <1>4, <1>7, <2>2 DEF CountFits
  <2> QED  BY <2>1, <2>2
<1>9. InfoFits'
  <2>1. CASE m.referenceds = 0
    BY <1>1, <1>4, <1>5, <2>1 DEF InfoFits, Absent
  <2>2. CASE m.referenceds # 0
    BY <1>1, <1>4, <1>5, <2>2 DEF InfoFits
  <2> QED  BY <2>1, <2>2
<1>10. WorkerFits' /\ TablesFit' /\ SourceFits'
  BY <1>1, <1>2, <1>3, <1>4, <1>5 DEF WorkerFits, TablesFit, SourceFits
<1> QED
  BY <1>2, <1>6, <1>8, <1>9, <1>10, StepperFrame

LEMMA TablesAcquiredKeeps ==
    ASSUME MigrationInv, tablesAcquired
    PROVE  MigrationInv'
<1>1. TypeOK /\ CountFits /\ InfoFits /\ WorkerFits /\ TablesFit /\ SourceFits
  BY DEF MigrationInv
<1>2. /\ UNCHANGED <<db, work, writer, b, events, torn, strayed, save>> /\ st[Worker].pc = "acquired"
      /\ m' = [m EXCEPT !.tableAcquired = TRUE] /\ w' = [w EXCEPT !.pc = "idle"]
      /\ st' = [st EXCEPT ![Worker] = idle]
  BY DEF tablesAcquired, WGoto
<1>3. w' \in Work /\ w'.pc = "idle"
  BY <1>1, <1>2 DEF TypeOK, Work
<1>4. /\ m' \in MigrationState /\ m'.filted = m.filted /\ m'.migratings = m.migratings
      /\ m'.referenceds = m.referenceds /\ m'.dumpster = m.dumpster
  BY <1>1, <1>2 DEF TypeOK, MigrationState
<1>5. /\ st' \in [Procs -> Statement] /\ st'[Worker] = idle
      /\ \A p \in Procs \ {Worker} : st'[p] = st[p]
  BY <1>1, <1>2, ProcsSorted DEF TypeOK, Statement, idle, Kinds
<1>6. TypeOK'
  BY <1>1, <1>2, <1>3, <1>4, <1>5 DEF TypeOK
<1>7. Holders' = Holders
  BY <1>2 DEF Holders
<1>8. CountFits' /\ InfoFits'
  BY <1>1, <1>4, <1>7 DEF CountFits, InfoFits
<1>9. WorkerFits' /\ TablesFit'
  BY <1>1, <1>2, <1>3, <1>5 DEF WorkerFits, TablesFit, idle
<1>10. SourceFits'
  BY <1>1, <1>2, <1>4, <1>5 DEF SourceFits, idle
<1>11. \A h \in Handles : st'[h] = st[h] /\ (writer' = h <=> writer = h)
  BY <1>2, <1>5, ProcsSorted
<1> QED
  BY <1>2, <1>6, <1>8, <1>9, <1>10, <1>11, StepperFrame

-----------------------------------------------------------------------------
(* The process starts, for the first time or again.                        *)

Fresh ==
    /\ m = purged /\ w = resting /\ writer = Nobody
    /\ work = db /\ db \in Tables /\ (~db.hasSource => db.source = {})
    /\ st = [p \in Procs |-> idle] /\ b = [h \in Handles |-> unbound]
    /\ events \in 0 .. MaxEvents /\ torn \in BOOLEAN
    /\ strayed \in BOOLEAN /\ save = {}

LEMMA FreshFits == Fresh => MigrationInv
<1> SUFFICES ASSUME Fresh PROVE MigrationInv
  OBVIOUS
<1> USE DEF Fresh
<1>1. TypeOK
  <2>1. m \in MigrationState
    BY DEF purged, MigrationState, Absent
  <2>2. idle \in Statement /\ unbound \in Binder /\ resting \in Work
    BY DEF idle, Statement, Kinds, unbound, Binder, resting, Work
  <2> QED  BY <2>1, <2>2 DEF TypeOK
<1>2. Holders = {}
  BY DEF Holders, unbound
<1>3. CountFits /\ InfoFits
  BY <1>2 DEF CountFits, InfoFits, purged, Absent
<1>4. Worker # Nobody
  BY ProcessAssumption
<1>5. WorkerFits
  BY <1>4, ProcsSorted DEF WorkerFits, resting, idle
<1>6. \A h \in Handles : StatementFits(h)
  BY ProcsSorted DEF StatementFits, idle
<1>7. \A h \in Handles : BinderFits(h)
  BY ProcessAssumption DEF BinderFits, unbound
<1>8. TablesFit /\ SaveFits
  BY <1>4 DEF TablesFit, SaveFits, resting
<1>9. SourceFits
  BY DEF SourceFits, purged, idle
<1> QED
  BY <1>1, <1>3, <1>5, <1>6, <1>7, <1>8, <1>9 DEF MigrationInv

LEMMA HalfCommittedFits ==
    ASSUME TypeOK
    PROVE  /\ HalfCommitted \in Tables
           /\ HalfCommitted.hasSource = db.hasSource /\ HalfCommitted.source = db.source
           /\ HalfCommitted.hasTarget = work.hasTarget /\ HalfCommitted.target = work.target
BY DEF HalfCommitted, TypeOK, Tables

LEMMA CrashIsFresh ==
    ASSUME MigrationInv, crash
    PROVE  Fresh'
<1>1. TypeOK /\ TablesFit
  BY DEF MigrationInv
<1>2. /\ m' = purged /\ w' = resting /\ writer' = Nobody /\ work' = db'
      /\ st' = [p \in Procs |-> idle] /\ b' = [h \in Handles |-> unbound]
      /\ save' = {} /\ UNCHANGED strayed
  BY DEF crash
<1>3. events' \in 0 .. MaxEvents
  BY <1>1, BoundAssumption DEF crash, TypeOK
<1>4. torn' \in BOOLEAN
  <2>1. torn' = torn \/ torn' = TRUE
    BY DEF crash
  <2> QED  BY <1>1, <2>1 DEF TypeOK
<1>5. db' \in Tables /\ (~db'.hasSource => db'.source = {})
  BY <1>1, HalfCommittedFits DEF crash, TypeOK, TablesFit
<1> QED
  BY <1>1, <1>2, <1>3, <1>4, <1>5 DEF Fresh, TypeOK

LEMMA CrashKeeps ==
    ASSUME MigrationInv, crash
    PROVE  MigrationInv'
BY CrashIsFresh, FreshFits, PTL

LEMMA InitIsFresh == Init => Fresh
<1>1. SUFFICES ASSUME Init PROVE Fresh
  OBVIOUS
<1>2. db \in Tables /\ (~db.hasSource => db.source = {})
  BY <1>1 DEF Init
<1>3. events \in 0 .. MaxEvents
  BY <1>1, BoundAssumption DEF Init
<1>4. torn \in BOOLEAN /\ strayed \in BOOLEAN
  BY <1>1 DEF Init
<1> QED  BY <1>1, <1>2, <1>3, <1>4 DEF Init, Fresh

LEMMA MigrationInvHolds == Spec => []MigrationInv
<1>1. Init => MigrationInv
  BY InitIsFresh, FreshFits
<1>2. MigrationInv /\ [Next]_vars => MigrationInv'
  <2>1. SUFFICES ASSUME MigrationInv, [Next]_vars PROVE MigrationInv'
    OBVIOUS
  <2>2. ASSUME NEW h \in Handles, User(h) PROVE MigrationInv'
    BY <2>1, <2>2, PrepareKeeps, UpdateSequenceFailsKeeps, AgainKeeps, CompileKeeps,
       BindInfosFailsKeeps, StepKeeps, StepFailsKeeps, FinalizeKeeps, FinalizeStatementsKeeps,
       BeginKeeps, CommitKeeps, RollbackKeeps, SavepointKeeps, RollbackToSavepointKeeps,
       SqliteRollsBackKeeps, EndRolledBackKeeps DEF User
  <2>3. ASSUME NEW p \in Procs, initTable(p) PROVE MigrationInv'
    BY <2>1, <2>3, CheckTablesKeeps, InitInfoKeeps, InitInfoFailsKeeps DEF initTable
  <2>4. CASE Stepper
    BY <2>1, <2>4, StepMigrationKeeps, SelectAnyRowKeeps, SourceTableDroppedKeeps,
       DropSourceTableKeeps, MigrateRowsKeeps, RowsMigratedKeeps, MigrateRowsFailsKeeps,
       TableMigratedKeeps, TablesAcquiredKeeps DEF Stepper
  <2>5. CASE crash
    BY <2>1, <2>5, CrashKeeps
  <2>6. CASE UNCHANGED vars
    BY <2>1, <2>6 DEF vars, MigrationInv, TypeOK, CountFits, Holders, InfoFits, WorkerFits,
       StatementFits, BinderFits, TablesFit, SaveFits, SourceFits
  <2> QED  BY <2>1, <2>2, <2>3, <2>4, <2>5, <2>6 DEF Next
<1> QED
  BY <1>1, <1>2, PTL DEF Spec

-----------------------------------------------------------------------------
(* The rows.  A table is created before others use it (CreatesFirst).      *)

\* A step that touches neither the shared state nor the tables.
LEMMA SameRows ==
    ASSUME RowsInv, UNCHANGED <<m, db, work, st, w, torn, strayed, save>>
    PROVE  RowsInv'
BY DEF RowsInv, UnknownFits, Moving, FoundFits, MissingFits, AloneFits, RowsFit, Sound,
       MigratedFits

\* The rows after a step outside the tables.
LEMMA RowsFitFrame ==
    ASSUME RowsFit, UNCHANGED <<db, work, torn, strayed, save>>,
           m'.filted = m.filted, m'.migratings = m.migratings,
           \/ w' = w
           \/ /\ w'.pc # "commit"
              /\ w'.pc = "mark" /\ ~torn /\ ~strayed => db.source = {}
    PROVE  RowsFit'
<1>1. SUFFICES ASSUME ~strayed
               PROVE  Sound(db)' /\ Sound(work)' /\ (\A r \in save' : Sound(r.tables)') /\ MigratedFits'
  BY DEF RowsFit
<1>2. Sound(db) /\ Sound(work) /\ (\A r \in save : Sound(r.tables)) /\ MigratedFits
  BY <1>1 DEF RowsFit
<1>3. Sound(db)' /\ Sound(work)' /\ \A r \in save' : Sound(r.tables)'
  BY <1>2 DEF Sound
<1>4. MigratedFits'
  BY <1>1, <1>2 DEF MigratedFits
<1> QED  BY <1>3, <1>4

\* A step of a handle outside the tables.
LEMMA HandleRows ==
    ASSUME RowsInv, NEW h \in Handles, UNCHANGED <<db, work, w, torn, strayed, save>>,
           m'.filted = m.filted, m'.migratings = m.migratings,
           \A p \in Procs \ {h} : st'[p] = st[p],
           st'[h].pc # "register", MissingFits(h)', AloneFits(h)'
    PROVE  RowsInv'
<1>1. UnknownFits'
  BY DEF RowsInv, UnknownFits, Moving
<1>2. \A p \in Procs : FoundFits(p)'
  BY DEF RowsInv, FoundFits, Moving
<1>3. \A g \in Handles : MissingFits(g)' /\ AloneFits(g)'
  <2>1. SUFFICES ASSUME NEW g \in Handles \ {h}
                 PROVE  MissingFits(g)' /\ AloneFits(g)'
    OBVIOUS
  <2>2. st'[g] = st[g] /\ MissingFits(g) /\ AloneFits(g)
    BY ProcsSorted DEF RowsInv
  <2> QED  BY <2>2 DEF MissingFits, AloneFits, Moving
<1>4. RowsFit'
  BY RowsFitFrame DEF RowsInv
<1> QED  BY <1>1, <1>2, <1>3, <1>4 DEF RowsInv

LEMMA BindRows ==
    ASSUME MigrationInv, RowsInv, NEW h \in Handles, NEW s \in Statement, bindTable(h, s),
           m.filted # "unknown", UNCHANGED <<db, work, w, torn, strayed, save>>
    PROVE  RowsInv'
<1>1. TypeOK /\ CountFits /\ InfoFits
  BY DEF MigrationInv
<1>2. m'.filted = m.filted /\ m'.migratings = m.migratings
  BY <1>1, RebindFits DEF bindTable
<1>3. m.migratings \in BOOLEAN
  BY <1>1 DEF TypeOK, MigrationState
<1>4. /\ st'[h].pc = "compile" /\ st'[h].union = m.migratings
      /\ \A p \in Procs \ {h} : st'[p] = st[p]
  BY <1>1, <1>3, ProcsSorted DEF TypeOK, bindTable, Statement
<1>5. MissingFits(h)' /\ AloneFits(h)'
  BY <1>2, <1>4 DEF MissingFits, AloneFits
<1> QED  BY <1>2, <1>4, <1>5, HandleRows

LEMMA PrepareRows ==
    ASSUME MigrationInv, RowsInv, NEW h \in Handles, NEW k \in KindsOf(h), prepare(h, k)
    PROVE  RowsInv'
<1> DEFINE s == [idle EXCEPT !.kind = k]
<1>1. TypeOK
  BY DEF MigrationInv
<1>2. s \in Statement
  BY DEF idle, Statement, KindsOf, Kinds
<1>3. CASE m.filted # "unknown" /\ bindTable(h, s)
  <2>1. UNCHANGED <<db, work, w, torn, strayed, save>>
    BY DEF prepare
  <2> HIDE DEF s
  <2> QED  BY <1>2, <1>3, <2>1, BindRows
<1>4. CASE st' = [st EXCEPT ![h] = [s EXCEPT !.pc = "init"]] /\ UNCHANGED <<m, b>>
  <2>1. /\ st'[h].pc = "init"
        /\ \A p \in Procs \ {h} : st'[p] = st[p]
    BY <1>1, <1>2, <1>4, ProcsSorted DEF TypeOK, Statement
  <2>2. UNCHANGED <<m, db, work, w, torn, strayed, save>>
    BY <1>4 DEF prepare
  <2>3. MissingFits(h)' /\ AloneFits(h)'
    BY <2>1 DEF MissingFits, AloneFits
  <2> QED  BY <2>1, <2>2, <2>3, HandleRows
<1> QED  BY <1>3, <1>4 DEF prepare

LEMMA AgainRows ==
    ASSUME MigrationInv, RowsInv, NEW h \in Handles, getOrInitInfo(h)
    PROVE  RowsInv'
<1>1. TypeOK /\ InfoFits /\ MissingFits(h)
  BY DEF MigrationInv, RowsInv
<1>2. st[h] \in Statement /\ st[h].pc = "again"
  BY <1>1, ProcsSorted DEF TypeOK, getOrInitInfo
<1>3. CASE m.filted # "unknown" /\ bindTable(h, st[h])
  BY <1>2, <1>3, BindRows DEF getOrInitInfo
<1>4. CASE m.filted = "unknown" /\ Goto(h, "compile") /\ UNCHANGED <<m, b>>
  <2>1. /\ st'[h].pc = "compile" /\ st'[h].kind = st[h].kind /\ st'[h].missed = st[h].missed
        /\ \A p \in Procs \ {h} : st'[p] = st[p]
    BY <1>1, <1>4, ProcsSorted DEF TypeOK, Statement, Goto
  <2>2. UNCHANGED <<m, db, work, w, torn, strayed, save>>
    BY <1>4 DEF getOrInitInfo
  <2>3. MissingFits(h)'
    BY <1>1, <1>2, <2>1, <2>2 DEF MissingFits, Moving
  <2>4. AloneFits(h)'
    BY <1>1, <1>4, <2>2 DEF AloneFits, InfoFits
  <2> QED  BY <2>1, <2>2, <2>3, <2>4, HandleRows
<1> QED  BY <1>3, <1>4 DEF getOrInitInfo

\* A statement that met a failing query goes on with nothing to say.
LEMMA UpdateSequenceFailsRows ==
    ASSUME MigrationInv, RowsInv, NEW h \in Handles, NEW k \in KindsOf(h),
           updateSequenceFails(h, k)
    PROVE  RowsInv'
<1>1. TypeOK
  BY DEF MigrationInv
<1>2. UNCHANGED <<m, db, work, w, torn, strayed, save>>
  BY DEF updateSequenceFails
<1>3. /\ st'[h].pc = "compile" /\ st'[h].missed
      /\ \A p \in Procs \ {h} : st'[p] = st[p]
  BY <1>1, ProcsSorted DEF updateSequenceFails, TypeOK, idle
<1>4. MissingFits(h)' /\ AloneFits(h)'
  BY <1>3 DEF MissingFits, AloneFits
<1> QED  BY <1>2, <1>3, <1>4, HandleRows

LEMMA CompileRows ==
    ASSUME MigrationInv, RowsInv, NEW h \in Handles, compile(h)
    PROVE  RowsInv'
<1>1. TypeOK /\ MissingFits(h) /\ AloneFits(h)
  BY DEF MigrationInv, RowsInv
<1>2. UNCHANGED <<m, db, work, w, torn, strayed, save>> /\ st[h].pc = "compile"
  BY DEF compile
<1>3. CASE st' = [st EXCEPT ![h].pc = "ready"]
  <2>1. /\ st'[h].pc = "ready" /\ st'[h].kind = st[h].kind /\ st'[h].union = st[h].union
        /\ st'[h].missed = st[h].missed
        /\ \A p \in Procs \ {h} : st'[p] = st[p]
    BY <1>1, <1>3, ProcsSorted DEF TypeOK, Statement
  <2>2. MissingFits(h)' /\ AloneFits(h)'
    BY <1>1, <1>2, <2>1 DEF MissingFits, AloneFits, Moving
  <2> QED  BY <1>2, <2>1, <2>2, HandleRows
<1>4. CASE st' = [st EXCEPT ![h] = idle]
  <2>1. /\ st'[h].pc = "idle"
        /\ \A p \in Procs \ {h} : st'[p] = st[p]
    BY <1>1, <1>4, ProcsSorted DEF TypeOK, idle
  <2>2. MissingFits(h)' /\ AloneFits(h)'
    BY <2>1 DEF MissingFits, AloneFits
  <2> QED  BY <1>2, <2>1, <2>2, HandleRows
<1> QED  BY <1>3, <1>4 DEF compile, Goto

LEMMA FinalizeRows ==
    ASSUME MigrationInv, RowsInv, NEW h \in Handles,
           UNCHANGED <<m, db, work, w, torn, strayed, save>>,
           st' = [st EXCEPT ![h] = idle]
    PROVE  RowsInv'
<1>1. /\ st'[h].pc = "idle"
      /\ \A p \in Procs \ {h} : st'[p] = st[p]
  BY ProcsSorted DEF MigrationInv, TypeOK, idle
<1>2. MissingFits(h)' /\ AloneFits(h)'
  BY <1>1 DEF MissingFits, AloneFits
<1> QED  BY <1>1, <1>2, HandleRows

LEMMA FinalizeStatementsRows ==
    ASSUME MigrationInv, RowsInv, NEW h \in Handles, finalizeStatements(h)
    PROVE  RowsInv'
<1>1. TypeOK /\ CountFits /\ InfoFits
  BY DEF MigrationInv
<1>2. m'.filted = m.filted /\ m'.migratings = m.migratings
  BY <1>1, ReleaseFits DEF finalizeStatements
<1>3. UNCHANGED <<db, work, w, torn, st, strayed, save>> /\ st[h].pc = "idle"
  BY DEF finalizeStatements
<1>4. MissingFits(h)' /\ AloneFits(h)'
  BY <1>3 DEF MissingFits, AloneFits
<1> QED  BY <1>2, <1>3, <1>4, HandleRows

\* Steps of the stepper that leave the tables alone.
LEMMA StepperRows ==
    ASSUME MigrationInv, RowsInv, UNCHANGED <<db, work, torn, strayed, save>>,
           m'.filted = m.filted, m'.migratings = m.migratings,
           \A p \in Procs \ {Worker} : st'[p] = st[p],
           st'[Worker].pc # "register" \/ st'[Worker] = st[Worker],
           w'.pc # "commit", w'.pc = "mark" /\ ~torn /\ ~strayed => db.source = {}
    PROVE  RowsInv'
<1>1. RowsFit'
  BY RowsFitFrame DEF RowsInv
<1>2. \A p \in Procs : FoundFits(p)'
  BY DEF RowsInv, FoundFits, Moving
<1>3. \A h \in Handles : MissingFits(h)' /\ AloneFits(h)'
  <2>1. SUFFICES ASSUME NEW h \in Handles PROVE MissingFits(h)' /\ AloneFits(h)'
    OBVIOUS
  <2>2. st'[h] = st[h] /\ MissingFits(h) /\ AloneFits(h)
    BY ProcsSorted DEF RowsInv
  <2> QED  BY <2>2 DEF MissingFits, AloneFits, Moving
<1>4. UnknownFits'
  BY DEF RowsInv, UnknownFits, Moving
<1> QED  BY <1>1, <1>2, <1>3, <1>4 DEF RowsInv

LEMMA AfterInitOfHandle ==
    ASSUME NEW h \in Handles
    PROVE  AfterInit(h) = IF st[h].kind = "create" THEN "compile" ELSE "again"
BY ProcessAssumption DEF AfterInit

LEMMA InitInfoFailsRows ==
    ASSUME MigrationInv, RowsInv, NEW p \in Procs, initInfoFails(p)
    PROVE  RowsInv'
<1>1. TypeOK
  BY DEF MigrationInv
<1>2. UNCHANGED <<m, db, work, torn, strayed, save>> /\ st[p].pc = "init"
  BY DEF initInfoFails
<1>3. CASE p = Worker
  <2>1. st' = [st EXCEPT ![Worker] = idle] /\ w' = [w EXCEPT !.pc = "idle"]
    BY <1>3 DEF initInfoFails, WGoto
  <2>2. w'.pc = "idle" /\ st'[Worker].pc = "idle" /\ \A q \in Procs \ {Worker} : st'[q] = st[q]
    BY <1>1, <2>1, ProcsSorted DEF TypeOK, Work, idle
  <2> QED  BY <1>2, <2>2, StepperRows
<1>4. CASE p # Worker
  <2>1. p \in Handles /\ UNCHANGED w
    BY <1>4 DEF initInfoFails, Procs
  <2>2. CASE st' = [st EXCEPT ![p] = idle]
    BY <1>2, <2>1, <2>2, FinalizeRows
  <2>3. CASE st' = [st EXCEPT ![p] = [st[p] EXCEPT !.pc = "compile", !.missed = TRUE]]
    <3>1. /\ st'[p].pc = "compile" /\ st'[p].missed
          /\ \A q \in Procs \ {p} : st'[q] = st[q]
      BY <1>1, <2>3 DEF TypeOK, Statement
    <3>2. MissingFits(p)' /\ AloneFits(p)'
      BY <3>1 DEF MissingFits, AloneFits
    <3> QED  BY <1>2, <2>1, <3>1, <3>2, HandleRows
  <2> QED  BY <1>4, <2>2, <2>3 DEF initInfoFails
<1> QED  BY <1>3, <1>4

LEMMA CheckTablesRows ==
    ASSUME MigrationInv, RowsInv, NEW p \in Procs, checkTables(p)
    PROVE  RowsInv'
<1>1. TypeOK /\ TablesFit /\ SaveFits /\ RowsFit /\ UnknownFits
  BY DEF MigrationInv, RowsInv
<1>2. UNCHANGED <<db, work, w, torn, strayed, save>> /\ st[p].pc = "init"
  BY DEF checkTables
<1>3. Sees(p) \in Tables /\ Sees(p).hasSource = db.hasSource
  BY <1>1 DEF Sees, TypeOK, TablesFit
<1>4. CASE /\ Sees(p).hasSource
           /\ st' = [st EXCEPT ![p].pc = "register", ![p].exists = Sees(p).hasTarget]
           /\ UNCHANGED m
  <2>1. PICK e \in BOOLEAN : e = Sees(p).hasTarget
    BY <1>3 DEF Tables
  <2>2. /\ st'[p].pc = "register" /\ st'[p].exists = e
        /\ \A q \in Procs \ {p} : st'[q] = st[q]
    BY <1>1, <1>4, <2>1 DEF TypeOK, Statement
  <2>3. Moving /\ m.filted = "unknown" => e = db.hasTarget
    BY <1>1, <2>1 DEF UnknownFits, Sees
  <2>4. \A q \in Procs : FoundFits(q)'
    <3>1. SUFFICES ASSUME NEW q \in Procs PROVE FoundFits(q)'
      OBVIOUS
    <3>2. CASE q = p
      BY <1>2, <1>4, <2>2, <2>3, <3>2 DEF FoundFits, Moving
    <3>3. CASE q # p
      BY <1>2, <1>4, <2>2, <3>3 DEF RowsInv, FoundFits, Moving
    <3> QED  BY <3>2, <3>3
  <2>5. \A h \in Handles : MissingFits(h)' /\ AloneFits(h)'
    <3>1. SUFFICES ASSUME NEW h \in Handles PROVE MissingFits(h)' /\ AloneFits(h)'
      OBVIOUS
    <3>2. CASE h = p
      BY <1>2, <1>4, <2>2, <2>3, <3>2 DEF MissingFits, AloneFits, Moving
    <3>3. CASE h # p
      <4>1. st'[h] = st[h] /\ MissingFits(h) /\ AloneFits(h)
        BY <2>2, <3>3, ProcsSorted DEF RowsInv
      <4> QED  BY <1>2, <1>4, <4>1 DEF MissingFits, AloneFits, Moving
    <3> QED  BY <3>2, <3>3
  <2>6. RowsFit'
    BY <1>1, <1>2, <1>4, RowsFitFrame
  <2>7. UnknownFits'
    BY <1>1, <1>2, <1>4 DEF UnknownFits, Moving
  <2> QED  BY <2>4, <2>5, <2>6, <2>7 DEF RowsInv
<1>5. CASE /\ ~Sees(p).hasSource /\ Goto(p, AfterInit(p)) /\ m' = markAsNoNeedToMigrate(m)
  <2>1. m'.migratings = m.migratings
    BY <1>1, <1>5, NoNeedResult DEF TypeOK
  <2>2. db.source = {} /\ ~Moving'
    BY <1>1, <1>2, <1>3, <1>5 DEF TablesFit, Moving
  <2>3. RowsFit'
    BY <1>1, <1>2, <2>1, <2>2 DEF RowsFit, Sound, MigratedFits
  <2> QED  BY <2>2, <2>3 DEF RowsInv, UnknownFits, FoundFits, MissingFits, AloneFits
<1> QED  BY <1>4, <1>5 DEF checkTables

LEMMA InitInfoRows ==
    ASSUME MigrationInv, RowsInv, NEW p \in Procs, initInfo(p)
    PROVE  RowsInv'
<1>1. TypeOK /\ TablesFit /\ SaveFits /\ RowsFit /\ UnknownFits /\ FoundFits(p)
  BY DEF MigrationInv, RowsInv
<1>2. /\ UNCHANGED <<db, work, w, torn, strayed, save>> /\ st[p].pc = "register"
      /\ m' = registerInfo(m, st[p].exists)
  BY DEF initInfo
<1>3. PICK next \in {"acquired", "compile", "again"} : next = AfterInit(p)
  BY AfterInitType
<1>4. /\ st'[p].pc = next /\ st'[p].kind = st[p].kind /\ st'[p].missed = st[p].missed
      /\ \A q \in Procs \ {p} : st'[q] = st[q]
  BY <1>1, <1>3 DEF initInfo, TypeOK, Statement
<1>5. PICK now : now = (m.filted = "unknown" /\ st[p].exists)
  OBVIOUS
<1>6. /\ m'.filted = IF now THEN "info" ELSE m.filted
      /\ m'.migratings = IF now THEN TRUE ELSE m.migratings
  <2>1. m \in MigrationState /\ st[p].exists \in BOOLEAN
    BY <1>1 DEF TypeOK, Statement
  <2> QED  BY <1>2, <1>5, <2>1, RegisterResult
<1>7. ASSUME NEW h \in Handles, h = p
      PROVE  st'[h].pc = IF st'[h].kind = "create" THEN "compile" ELSE "again"
  BY <1>3, <1>4, <1>7, AfterInitOfHandle
<1>8. CASE now
  <2>1. m.filted = "unknown" /\ st[p].exists
    BY <1>5, <1>8
  <2>2. Moving => db.hasTarget /\ work = db /\ \A r \in save : r.tables = db
    BY <1>1, <1>2, <2>1 DEF FoundFits, UnknownFits
  <2>3. m'.filted = "info" /\ m'.migratings = TRUE
    BY <1>6, <1>8
  <2>4. \A h \in Handles : AloneFits(h)'
    <3>1. SUFFICES ASSUME NEW h \in Handles PROVE AloneFits(h)'
      OBVIOUS
    <3>2. CASE h = p
      BY <1>7, <3>2 DEF AloneFits
    <3>3. CASE h # p
      <4>1. st'[h] = st[h] /\ MissingFits(h)
        BY <1>4, <3>3, ProcsSorted DEF RowsInv
      <4> QED  BY <1>2, <2>1, <2>2, <4>1 DEF AloneFits, MissingFits, Moving
    <3> QED  BY <3>2, <3>3
  <2>5. ASSUME ~strayed PROVE Sound(db)' /\ Sound(work)' /\ \A r \in save' : Sound(r.tables)'
    <3>1. Sound(db) /\ Sound(work) /\ \A r \in save : Sound(r.tables)
      BY <1>1, <2>5 DEF RowsFit
    <3>2. CASE Moving
      BY <1>2, <2>2, <2>3, <3>1, <3>2 DEF Sound
    <3>3. CASE ~Moving
      <4>1. db.source = {} /\ work.source = {} /\ \A r \in save : r.tables.source = {}
        BY <1>1, <2>5, <3>3 DEF Moving, TablesFit, SaveFits
      <4> QED  BY <1>2, <3>1, <4>1 DEF Sound
    <3> QED  BY <3>2, <3>3
  <2>6. ~strayed => MigratedFits'
    BY <1>1, <1>2, <2>3 DEF RowsFit, MigratedFits
  <2>7. RowsFit'
    BY <1>2, <2>5, <2>6 DEF RowsFit
  <2> QED  BY <2>3, <2>4, <2>7 DEF RowsInv, UnknownFits, FoundFits, MissingFits
<1>9. CASE ~now
  <2>1. m'.filted = m.filted /\ m'.migratings = m.migratings
    BY <1>6, <1>9
  <2>2. m'.filted = "unknown" => ~st[p].exists
    BY <1>5, <1>9, <2>1
  <2>3. \A q \in Procs : FoundFits(q)'
    <3>1. st'[p].pc # "register"
      BY <1>4
    <3> QED  BY <1>2, <1>4, <2>1, <3>1 DEF RowsInv, FoundFits, Moving
  <2>4. \A h \in Handles : MissingFits(h)' /\ AloneFits(h)'
    <3>1. SUFFICES ASSUME NEW h \in Handles PROVE MissingFits(h)' /\ AloneFits(h)'
      OBVIOUS
    <3>2. MissingFits(h) /\ AloneFits(h)
      BY DEF RowsInv
    <3>3. CASE h = p
      <4>1. AloneFits(h)'
        BY <1>7, <3>3 DEF AloneFits
      <4>2. MissingFits(h)'
        BY <1>2, <1>4, <2>1, <2>2, <3>2, <3>3 DEF MissingFits, Moving
      <4> QED  BY <4>1, <4>2
    <3>4. CASE h # p
      <4>1. st'[h] = st[h]
        BY <1>4, <3>4, ProcsSorted
      <4> QED  BY <1>2, <2>1, <3>2, <4>1 DEF MissingFits, AloneFits, Moving
    <3> QED  BY <3>3, <3>4
  <2>5. RowsFit'
    BY <1>1, <1>2, <2>1, RowsFitFrame
  <2>6. UnknownFits'
    BY <1>1, <1>2, <2>1 DEF UnknownFits, Moving
  <2> QED  BY <2>3, <2>4, <2>5, <2>6 DEF RowsInv
<1> QED  BY <1>8, <1>9

\* A statement of a user on an existing target keeps the rows apart, if it
\* was compiled for both tables or only one of them has rows.
LEMMA OutcomesRows ==
    ASSUME NEW t \in Tables, NEW s \in Statement, NEW u \in Outcomes(t, s),
           t.hasTarget, s.union \/ t.source = {}
    PROVE  /\ t.target \cap t.source = {} => u.target \cap u.source = {}
           /\ ~u.hasTarget => u.source = {}
<1>1. CASE s.kind = "write"
  <2>1. CASE u \in stepInsert(t, s.union)
    <3>1. PICK k \in Rows :
            u = [t EXCEPT !.target = @ \cup {k}, !.source = IF s.union THEN @ \ {k} ELSE @]
      BY <2>1 DEF stepInsert
    <3>2. /\ u.target = t.target \cup {k} /\ u.hasTarget
          /\ u.source = IF s.union THEN t.source \ {k} ELSE t.source
      BY <3>1 DEF Tables
    <3> QED  BY <3>2
  <2>2. CASE u \in stepUpdateOrDelete(t, s.union)
    <3>1. PICK k \in Rows :
            u = [t EXCEPT !.target = @ \ {k}, !.source = IF s.union THEN @ \ {k} ELSE @]
      BY <2>2 DEF stepUpdateOrDelete
    <3>2. u.target \subseteq t.target /\ u.source \subseteq t.source /\ u.hasTarget
      BY <3>1 DEF Tables
    <3> QED  BY <3>2
  <2>3. CASE u = dropTable(t, s.union)
    <3>1. u.target = {} /\ u.source = {}
      BY <2>3 DEF dropTable, Tables
    <3> QED  BY <3>1
  <2> QED  BY <1>1, <2>1, <2>2, <2>3 DEF Outcomes
<1>2. CASE s.kind = "create"
  <2>1. u = createTable(t)
    BY <1>2 DEF Outcomes
  <2>2. u.target = t.target /\ u.source = t.source /\ u.hasTarget
    BY <2>1 DEF createTable, Tables
  <2> QED  BY <2>2
<1>3. CASE s.kind = "select"
  <2>1. u = t
    BY <1>3 DEF Outcomes
  <2> QED  BY <2>1
<1> QED  BY <1>1, <1>2, <1>3 DEF Statement, Kinds

\* What a statement that is ready knows about the rows it works on.
LEMMA ReadySees ==
    ASSUME MigrationInv, RowsInv, ~strayed, NEW h \in Handles, st[h].pc = "ready",
           st[h].kind # "create", Sees(h).hasTarget, Sees(h).source # {}
    PROVE  /\ ~st[h].missed => m.filted # "unknown"
           /\ ~st[h].missed /\ (m.migratings \/ ~torn) => st[h].union
<1>1. TablesFit /\ UnknownFits /\ MissingFits(h) /\ AloneFits(h) /\ RowsFit
  BY DEF MigrationInv, RowsInv
<1>2. Moving
  BY <1>1 DEF Moving, Sees, TablesFit
<1>3. SUFFICES ASSUME ~st[h].missed
               PROVE  m.filted # "unknown" /\ (m.migratings \/ ~torn => st[h].union)
  OBVIOUS
<1>4. m.filted # "unknown"
  <2>1. SUFFICES ASSUME m.filted = "unknown" PROVE FALSE
    OBVIOUS
  <2>2. ~db.hasTarget /\ work = db
    BY <1>1, <1>2, <1>3, <2>1 DEF UnknownFits, MissingFits
  <2> QED  BY <2>2 DEF Sees
<1>5. ASSUME ~st[h].union PROVE ~m.migratings /\ torn
  <2>1. ~m.migratings
    BY <1>1, <1>2, <1>3, <1>5 DEF AloneFits
  <2>2. torn
    BY <1>1, <1>2, <1>4, <2>1 DEF RowsFit, MigratedFits, Moving
  <2> QED  BY <2>1, <2>2
<1> QED  BY <1>4, <1>5

\* After a write on the target alone nothing is claimed any more.
LEMMA StrayedRows == strayed => RowsInv
BY DEF RowsInv, UnknownFits, Moving, FoundFits, MissingFits, AloneFits, RowsFit

LEMMA StepRows ==
    ASSUME CreatesFirst, MigrationInv, RowsInv, NEW h \in Handles, step(h)
    PROVE  RowsInv'
<1>1. TypeOK /\ WorkerFits /\ TablesFit /\ SaveFits /\ RowsFit /\ UnknownFits
  BY DEF MigrationInv, RowsInv
<1>2. /\ UNCHANGED <<m, writer, st, w, torn, save>> /\ st[h].pc = "ready"
      /\ writer \in {h, Nobody} /\ work' \in Outcomes(Sees(h), st[h])
      /\ db' = IF writer = h THEN db ELSE work'
      /\ strayed' = (strayed \/ (st[h].missed /\ Sees(h).source # {}))
  BY DEF step
<1>3. CASE strayed'
  <2>1. (strayed => RowsInv)'
    BY StrayedRows, PTL
  <2> QED  BY <1>3, <2>1
<1>4. CASE ~strayed'
  <2>1. ~strayed /\ (Sees(h).source # {} => ~st[h].missed)
    BY <1>2, <1>4
  <2>2. w.pc # "commit"
    BY <1>1, <1>2, ProcessAssumption DEF WorkerFits
  <2>3. PICK t \in Tables : t = Sees(h)
    BY <1>1 DEF TypeOK, Sees
  <2>4. PICK u \in Outcomes(t, st[h]) : u = work'
    BY <1>2, <2>3
  <2>5. st[h] \in Statement
    BY <1>1, ProcsSorted DEF TypeOK
  <2>6. u \in Tables /\ u.source \subseteq t.source
    BY <2>5, OutcomesFit
  <2>7. /\ Sound(t) /\ Sound(db) /\ (\A r \in save : Sound(r.tables)) /\ MigratedFits
    BY <1>1, <2>1, <2>3 DEF RowsFit, Sees
  <2>8. t.source \subseteq db.source
    BY <1>1, <2>3 DEF Sees, TablesFit
  <2>9. db'.source \subseteq db.source /\ (db' = db \/ db' = u)
    BY <1>2, <2>4, <2>6, <2>8
  <2>10. ASSUME Sound(u) PROVE RowsFit'
    <3>1. Sound(db') /\ Sound(work') /\ (\A r \in save' : Sound(r.tables))
      BY <1>2, <2>4, <2>7, <2>9, <2>10
    <3>2. Sound(db)' /\ Sound(work)' /\ (\A r \in save' : Sound(r.tables)')
      BY <1>2, <3>1 DEF Sound
    <3>3. MigratedFits'
      BY <1>2, <2>2, <2>7, <2>9 DEF MigratedFits
    <3> QED  BY <3>2, <3>3 DEF RowsFit
  <2>11. Moving' => Moving
    BY <2>1, <2>9 DEF Moving
  <2>12. CASE st[h].kind # "create"
    <3>1. t.hasTarget
      BY <2>3, <2>12 DEF step, Works, Compiles
    <3>2. t.source # {} => /\ m.filted # "unknown"
                           /\ m.migratings \/ ~torn => st[h].union
      BY <1>2, <2>1, <2>3, <2>12, <3>1, ReadySees
    <3>3. Sound(u)
      <4>1. CASE st[h].union \/ t.source = {}
        BY <2>5, <2>7, <3>1, <4>1, OutcomesRows DEF Sound
      <4>2. CASE ~st[h].union /\ t.source # {}
        BY <3>2, <4>2 DEF Sound
      <4> QED  BY <4>1, <4>2
    <3>4. Moving => m.filted # "unknown"
      <4>1. Moving /\ m.filted = "unknown" => t.source # {}
        BY <1>1, <2>3 DEF UnknownFits, Sees, Moving
      <4> QED  BY <3>2, <4>1
    <3>5. \A g \in Handles : AloneFits(g)'
      BY <1>2, <2>11 DEF RowsInv, AloneFits
    <3> QED
      BY <1>2, <2>10, <2>11, <3>3, <3>4, <3>5 DEF RowsInv, UnknownFits, FoundFits, MissingFits
  <2>13. CASE st[h].kind = "create"
    <3>1. ~Uses(h)
      BY <2>13 DEF step
    <3>2. writer = Nobody /\ h # Nobody /\ \A g \in Handles \ {h} : st[g].pc = "idle"
      BY <1>2, <3>1, ProcessAssumption DEF Uses
    <3>3. t = db /\ work = db /\ db' = u /\ save = {}
      BY <1>1, <1>2, <2>3, <2>4, <3>2, ProcessAssumption DEF Sees, TablesFit, SaveFits
    <3>4. u = createTable(db)
      BY <2>4, <2>13, <3>3 DEF Outcomes
    <3>5. u.target = db.target /\ u.source = db.source /\ u.hasTarget
      BY <1>1, <3>4 DEF createTable, TypeOK, Tables
    <3>6. \A g \in Handles : MissingFits(g)' /\ AloneFits(g)'
      <4>1. SUFFICES ASSUME NEW g \in Handles PROVE MissingFits(g)' /\ AloneFits(g)'
        OBVIOUS
      <4>2. g = h \/ st[g].pc = "idle"
        BY <3>2
      <4> QED  BY <1>2, <2>13, <4>2 DEF MissingFits, AloneFits
    <3>7. \A p \in Procs : FoundFits(p)'
      BY <3>3, <3>5 DEF FoundFits
    <3>8. Sound(u)
      BY <2>7, <3>3, <3>5 DEF Sound
    <3>9. UnknownFits'
      BY <1>2, <2>4, <3>3 DEF UnknownFits
    <3> QED  BY <2>10, <3>6, <3>7, <3>8, <3>9 DEF RowsInv
  <2> QED  BY <2>12, <2>13
<1> QED  BY <1>3, <1>4

\* Transactions and savepoints begin and end, and batches end: what is
\* committed or restored was seen before.
LEMMA TransactionRows ==
    ASSUME MigrationInv, RowsInv, UNCHANGED <<m, st, torn, strayed>>, db' \in {db, work},
           work' \in {db, work} \/ \E r \in save : work' = r.tables,
           \A r \in save' : r \in save \/ r.tables = work,
           w'.pc \notin {"mark", "commit"} \/ (w' = w /\ writer # Worker)
    PROVE  RowsInv'
<1>1. WorkerFits /\ TablesFit /\ UnknownFits /\ RowsFit
  BY DEF MigrationInv, RowsInv
<1>2. db'.source \subseteq db.source
  BY <1>1 DEF TablesFit
<1>3. Moving' => Moving
  BY <1>2 DEF Moving
<1>4. Moving /\ m.filted = "unknown" => work' = db /\ db' = db /\ \A r \in save' : r.tables = db
  BY <1>1 DEF UnknownFits
<1>5. w'.pc # "commit" /\ (w'.pc = "mark" => w.pc = "mark")
  BY <1>1 DEF WorkerFits
<1>6. RowsFit'
  <2>1. SUFFICES ASSUME ~strayed
                 PROVE  /\ Sound(db)' /\ Sound(work)' /\ (\A r \in save' : Sound(r.tables)')
                        /\ MigratedFits'
    BY DEF RowsFit
  <2>2. Sound(db) /\ Sound(work) /\ (\A r \in save : Sound(r.tables)) /\ MigratedFits
    BY <1>1, <2>1 DEF RowsFit
  <2>3. Sound(db') /\ Sound(work') /\ (\A r \in save' : Sound(r.tables))
    BY <2>2
  <2>4. Sound(db)' /\ Sound(work)' /\ (\A r \in save' : Sound(r.tables)')
    BY <2>3 DEF Sound
  <2>5. MigratedFits'
    BY <1>2, <1>5, <2>2 DEF MigratedFits
  <2> QED  BY <2>4, <2>5
<1>7. \A p \in Procs : FoundFits(p)'
  BY <1>3, <1>4 DEF RowsInv, FoundFits
<1>8. \A h \in Handles : MissingFits(h)' /\ AloneFits(h)'
  BY <1>3, <1>4 DEF RowsInv, MissingFits, AloneFits
<1>9. UnknownFits'
  BY <1>3, <1>4 DEF UnknownFits
<1> QED  BY <1>6, <1>7, <1>8, <1>9 DEF RowsInv

LEMMA EndsRows ==
    ASSUME MigrationInv, RowsInv, NEW h \in Handles,
           \/ beginTransaction(h) \/ commitTransaction(h) \/ rollbackTransaction(h)
           \/ sqliteRollsBack(h)
    PROVE  RowsInv'
<1>1. UNCHANGED <<m, st, w, torn, strayed>> /\ writer \in {h, Nobody}
  BY DEF beginTransaction, commitTransaction, rollbackTransaction, sqliteRollsBack, MayEnd
<1>2. writer # Worker
  BY <1>1, ProcessAssumption
<1>3. db' \in {db, work} /\ work' \in {db, work} /\ save' \in {save, {}}
  BY DEF beginTransaction, commitTransaction, rollbackTransaction, sqliteRollsBack
<1> QED  BY <1>1, <1>2, <1>3, TransactionRows

LEMMA SavepointRows ==
    ASSUME MigrationInv, RowsInv, NEW h \in Handles,
           beginSavepoint(h) \/ releaseSavepoint(h) \/ rollbackToSavepoint(h)
    PROVE  RowsInv'
<1>1. UNCHANGED <<m, db, st, w, torn, strayed>> /\ writer = h
  BY DEF beginSavepoint, releaseSavepoint, rollbackToSavepoint, MayEnd
<1>2. writer # Worker
  BY <1>1, ProcessAssumption
<1>3. work' = work \/ \E r \in save : work' = r.tables
  <2>1. CASE beginSavepoint(h) \/ releaseSavepoint(h)
    BY <2>1 DEF beginSavepoint, releaseSavepoint
  <2>2. CASE rollbackToSavepoint(h)
    BY <2>2 DEF rollbackToSavepoint
  <2> QED  BY <2>1, <2>2
<1>4. \A r \in save' : r.tables = work
  <2>1. CASE beginSavepoint(h)
    <3>1. save' = {[tables |-> work, view |-> b[h].view]}
      BY <2>1 DEF beginSavepoint
    <3> QED  BY <3>1
  <2>2. CASE releaseSavepoint(h) \/ rollbackToSavepoint(h)
    BY <2>2 DEF releaseSavepoint, rollbackToSavepoint
  <2> QED  BY <2>1, <2>2
<1> QED  BY <1>1, <1>2, <1>3, <1>4, TransactionRows

\* A row that the target has not got moves, the last one first: when nothing
\* moves any more the source is empty.
LEMMA NothingLeft ==
    ASSUME NEW t \in Tables, t.target \cap t.source = {}, nothingMoves(t)
    PROVE  t.source = {}
<1>1. SUFFICES ASSUME t.source # {} PROVE FALSE
  OBVIOUS
<1>2. t.source \subseteq Rows
  BY DEF Tables
<1> DEFINE below == {MaxRow - i : i \in t.source}
           R == OpToRel(<, Nat)
<1>3. below \in SUBSET Nat /\ below # {}
  BY <1>1, <1>2, BoundAssumption DEF Rows
<1>4. IsWellFoundedOn(R, Nat)
  BY NatLessThanWellFounded
<1>5. \A x, y \in Nat : <<x, y>> \in R <=> x < y
  BY DEF OpToRel
<1> HIDE DEF R
<1>6. PICK least \in below : \A k \in below : ~(<<k, least>> \in R)
  <2> HIDE DEF below
  <2> QED  BY <1>3, <1>4, WFMin
<1>7. \A k \in below : ~(k < least)
  BY <1>3, <1>5, <1>6
<1>8. PICK i \in t.source : least = MaxRow - i
  BY <1>6
<1>9. \A j \in t.source \ {i} : j < i
  <2>1. SUFFICES ASSUME NEW j \in t.source \ {i} PROVE j < i
    OBVIOUS
  <2>2. ~(MaxRow - j < MaxRow - i)
    BY <1>7, <1>8
  <2>3. i \in Nat /\ j \in Nat /\ i # j
    BY <1>2, <1>8 DEF Rows
  <2> QED  BY <2>2, <2>3, BoundAssumption
<1> HIDE DEF below
<1>10. {i} \in LastRows(t)
  BY <1>8, <1>9 DEF LastRows
<1> QED  BY <1>10 DEF nothingMoves

LEMMA StepMigrationRows ==
    ASSUME MigrationInv, RowsInv, stepMigration
    PROVE  RowsInv'
<1>1. TypeOK /\ RowsFit
  BY DEF MigrationInv, RowsInv
<1>2. UNCHANGED <<m, db, work, torn, strayed, save>>
  BY DEF stepMigration
<1>3. w'.pc # "commit" /\ (w'.pc = "mark" => m.migratings /\ ~db.hasTarget)
  BY <1>1 DEF stepMigration, WGoto, TypeOK, Work
<1>4. /\ \A p \in Procs \ {Worker} : st'[p] = st[p]
      /\ st'[Worker].pc # "register" \/ st'[Worker] = st[Worker]
  <2>1. CASE UNCHANGED st
    BY <2>1
  <2>2. CASE Goto(Worker, IF db.hasTarget \/ m.hints THEN "init" ELSE "acquired")
    BY <1>1, <2>2, ProcsSorted DEF TypeOK, Goto, Statement
  <2> QED  BY <2>1, <2>2 DEF stepMigration
<1>5. w'.pc = "mark" /\ ~strayed => db.source = {}
  BY <1>1, <1>3 DEF RowsFit, Sound
<1> QED  BY <1>2, <1>3, <1>4, <1>5, StepperRows

LEMMA DropRows ==
    ASSUME MigrationInv, RowsInv, selectAnyRow \/ sourceTableDropped
    PROVE  RowsInv'
<1>1. TypeOK
  BY DEF MigrationInv
<1>2. UNCHANGED <<db, work, st, torn, strayed, save>>
  BY DEF selectAnyRow, sourceTableDropped
<1>3. m'.filted = m.filted /\ m'.migratings = m.migratings
  BY <1>1 DEF selectAnyRow, sourceTableDropped, markAsDropped, TypeOK, MigrationState
<1>4. w'.pc \in {"idle", "dropSource", "markDropped"}
  BY <1>1 DEF selectAnyRow, sourceTableDropped, WGoto, TypeOK, Work
<1> QED  BY <1>2, <1>3, <1>4, StepperRows

LEMMA DropSourceTableRows ==
    ASSUME MigrationInv, RowsInv, dropSourceTable
    PROVE  RowsInv'
<1>1. TypeOK /\ RowsFit /\ SaveFits
  BY DEF MigrationInv, RowsInv
<1>2. /\ UNCHANGED <<m, st, torn, strayed, save>> /\ work' = db' /\ writer = Nobody
      /\ db' = [db EXCEPT !.hasSource = FALSE, !.source = {}]
      /\ w' = [w EXCEPT !.pc = "markDropped"]
  BY DEF dropSourceTable, WGoto
<1>3. db'.source = {} /\ w'.pc = "markDropped"
  BY <1>1, <1>2 DEF TypeOK, Tables, Work
<1>4. save' = {}
  BY <1>1, <1>2, ProcessAssumption DEF SaveFits
<1>5. RowsFit' /\ ~Moving'
  BY <1>2, <1>3, <1>4 DEF RowsFit, Sound, MigratedFits, Moving
<1> QED  BY <1>5 DEF RowsInv, UnknownFits, FoundFits, MissingFits, AloneFits

LEMMA MigrateRowsRows ==
    ASSUME MigrationInv, RowsInv, migrateRows
    PROVE  RowsInv'
<1>1. TypeOK /\ WorkerFits /\ InfoFits /\ SaveFits /\ RowsFit
  BY DEF MigrationInv, RowsInv
<1>2. /\ UNCHANGED <<m, db, st, torn, strayed, save>> /\ w.pc = "migrate" /\ writer = Nobody
  BY DEF migrateRows
<1>3. m.migratings /\ m.filted = "info" /\ save = {}
  BY <1>1, <1>2, ProcessAssumption DEF WorkerFits, InfoFits, SaveFits
<1>4. CASE WGoto("idle") /\ UNCHANGED <<work, writer>>
  <2>1. w'.pc = "idle"
    BY <1>1, <1>4 DEF TypeOK, Work, WGoto
  <2> QED  BY <1>2, <1>4, <2>1, StepperRows
<1>5. CASE /\ db.hasTarget
           /\ \E r \in LastRows(db), migrated \in BOOLEAN :
                /\ migrated => nothingMoves(rowsMoved(db, r))
                /\ work' = rowsMoved(db, r)
                /\ w' = [pc |-> "commit", migrated |-> migrated]
  <2>1. PICK r \in LastRows(db), migrated \in BOOLEAN :
                /\ migrated => nothingMoves(rowsMoved(db, r))
                /\ work' = rowsMoved(db, r)
                /\ w' = [pc |-> "commit", migrated |-> migrated]
    BY <1>5
  <2>2. w'.pc = "commit" /\ w'.migrated = migrated
    BY <2>1
  <2>3. PICK u : u = rowsMoved(db, r)
    OBVIOUS
  <2>4. /\ u \in Tables /\ r \subseteq db.source \ db.target
        /\ u.hasTarget = db.hasTarget
        /\ u.source = db.source \ r /\ u.target = db.target \cup r
    BY <1>1, <2>3, RowsMovedFit DEF TypeOK
  <2>5. ~strayed => Sound(db) /\ MigratedFits
    BY <1>1 DEF RowsFit
  <2>6. ~strayed => Sound(u)
    BY <1>5, <2>4, <2>5 DEF Sound
  <2>7. ~strayed /\ ~torn /\ migrated => u.source = {}
    BY <2>1, <2>3, <2>4, <2>6, NothingLeft DEF Sound
  <2>8. RowsFit'
    <3>1. ~strayed => Sound(db)' /\ Sound(work)'
      BY <1>2, <2>1, <2>3, <2>5, <2>6 DEF Sound
    <3>2. ~strayed => MigratedFits'
      BY <1>2, <1>3, <2>1, <2>2, <2>3, <2>7 DEF MigratedFits
    <3> QED  BY <1>2, <1>3, <3>1, <3>2 DEF RowsFit
  <2>9. \A h \in Handles : AloneFits(h)'
    BY <1>2 DEF RowsInv, AloneFits, Moving
  <2> QED  BY <1>2, <1>3, <2>8, <2>9 DEF RowsInv, UnknownFits, FoundFits, MissingFits
<1> QED  BY <1>4, <1>5 DEF migrateRows

LEMMA RowsMigratedRows ==
    ASSUME MigrationInv, RowsInv, rowsMigrated
    PROVE  RowsInv'
<1>1. WorkerFits /\ InfoFits /\ TablesFit /\ SaveFits /\ RowsFit
  BY DEF MigrationInv, RowsInv
<1>2. /\ UNCHANGED <<m, work, st, torn, strayed, save>> /\ w.pc = "commit" /\ db' = work
      /\ w' = [pc |-> IF w.migrated THEN "mark" ELSE "idle", migrated |-> FALSE]
  BY DEF rowsMigrated
<1>3. w'.pc # "commit" /\ (w'.pc = "mark" => w.migrated)
  BY <1>2
<1>4. m.migratings /\ m.filted = "info" /\ save = {}
  BY <1>1, <1>2, ProcessAssumption DEF WorkerFits, InfoFits, SaveFits
<1>5. RowsFit'
  BY <1>1, <1>2, <1>3, <1>4 DEF RowsFit, Sound, MigratedFits
<1>6. Moving' => Moving
  BY <1>1, <1>2 DEF Moving, TablesFit
<1>7. \A h \in Handles : AloneFits(h)'
  BY <1>2, <1>6 DEF RowsInv, AloneFits
<1> QED  BY <1>2, <1>4, <1>5, <1>7 DEF RowsInv, UnknownFits, FoundFits, MissingFits

LEMMA MigrateRowsFailsRows ==
    ASSUME MigrationInv, RowsInv, migrateRowsFails
    PROVE  RowsInv'
<1>1. UNCHANGED <<m, st, torn, strayed, save>> /\ db' = db /\ work' = db /\ w'.pc = "idle"
  BY DEF migrateRowsFails, resting
<1> QED  BY <1>1, TransactionRows

LEMMA TableMigratedRows ==
    ASSUME MigrationInv, RowsInv, tableMigrated
    PROVE  RowsInv'
<1>1. TypeOK /\ WorkerFits /\ InfoFits /\ RowsFit
  BY DEF MigrationInv, RowsInv
<1>2. /\ UNCHANGED <<db, work, st, torn, strayed, save>> /\ w.pc = "mark"
      /\ m' = markAsMigrated(m) /\ w' = [w EXCEPT !.pc = "idle"]
  BY DEF tableMigrated, WGoto
<1>3. w'.pc = "idle"
  BY <1>1, <1>2 DEF TypeOK, Work
<1>4. m'.filted = m.filted /\ m'.migratings = FALSE
  BY <1>1, <1>2, MigratedResult DEF TypeOK
<1>5. m.filted = "info"
  BY <1>1, <1>2 DEF WorkerFits, InfoFits
<1>6. RowsFit'
  BY <1>1, <1>2, <1>3, <1>4 DEF RowsFit, Sound, MigratedFits
<1>7. \A h \in Handles : AloneFits(h)'
  BY <1>4 DEF AloneFits
<1> QED  BY <1>4, <1>5, <1>6, <1>7 DEF RowsInv, UnknownFits, FoundFits, MissingFits

LEMMA TablesAcquiredRows ==
    ASSUME MigrationInv, RowsInv, tablesAcquired
    PROVE  RowsInv'
<1>1. TypeOK
  BY DEF MigrationInv
<1>2. /\ UNCHANGED <<db, work, torn, strayed, save>>
      /\ m' = [m EXCEPT !.tableAcquired = TRUE] /\ w' = [w EXCEPT !.pc = "idle"]
      /\ st' = [st EXCEPT ![Worker] = idle]
  BY DEF tablesAcquired, WGoto
<1>3. m'.filted = m.filted /\ m'.migratings = m.migratings /\ w'.pc = "idle"
  BY <1>1, <1>2 DEF TypeOK, MigrationState, Work
<1>4. st'[Worker].pc = "idle" /\ \A p \in Procs \ {Worker} : st'[p] = st[p]
  BY <1>1, <1>2, ProcsSorted DEF TypeOK, idle
<1> QED  BY <1>2, <1>3, <1>4, StepperRows

LEMMA FreshRows ==
    Fresh /\ (~torn /\ ~strayed => db.target \cap db.source = {}) => RowsInv
<1>1. SUFFICES ASSUME Fresh, ~torn /\ ~strayed => db.target \cap db.source = {}
               PROVE  RowsInv
  OBVIOUS
<1>2. /\ work = db /\ ~m.migratings /\ m.filted = "unknown" /\ w.pc = "idle" /\ save = {}
      /\ \A p \in Procs : st[p].pc = "idle"
  BY <1>1 DEF Fresh, purged, resting, idle
<1>3. RowsFit
  BY <1>1, <1>2 DEF RowsFit, Sound, MigratedFits
<1>4. \A p \in Procs : FoundFits(p)
  BY <1>2 DEF FoundFits
<1>5. \A h \in Handles : MissingFits(h) /\ AloneFits(h)
  BY <1>2, ProcsSorted DEF MissingFits, AloneFits
<1>6. UnknownFits
  BY <1>2 DEF UnknownFits
<1> QED  BY <1>3, <1>4, <1>5, <1>6 DEF RowsInv

LEMMA CrashRows ==
    ASSUME MigrationInv, RowsInv, crash
    PROVE  RowsInv'
<1>1. Fresh'
  BY CrashIsFresh
<1>2. ~torn' /\ ~strayed' => db'.target \cap db'.source = {}
  BY DEF crash, RowsInv, RowsFit, Sound
<1>3. (Fresh /\ (~torn /\ ~strayed => db.target \cap db.source = {}))'
  BY <1>1, <1>2
<1> QED  BY <1>3, FreshRows, PTL

LEMMA RowsInvHolds ==
    ASSUME CreatesFirst
    PROVE  Spec => []RowsInv
<1>1. Init => RowsInv
  <2>1. Init => (~torn /\ ~strayed => db.target \cap db.source = {})
    BY DEF Init
  <2> QED  BY <2>1, InitIsFresh, FreshRows
<1>2. MigrationInv /\ RowsInv /\ [Next]_vars => RowsInv'
  <2>1. SUFFICES ASSUME MigrationInv, RowsInv, [Next]_vars PROVE RowsInv'
    OBVIOUS
  <2>2. ASSUME NEW h \in Handles, User(h) PROVE RowsInv'
    <3>1. ASSUME NEW k \in KindsOf(h), prepare(h, k) PROVE RowsInv'
      BY <2>1, <3>1, PrepareRows
    <3>2. ASSUME NEW k \in KindsOf(h), updateSequenceFails(h, k) PROVE RowsInv'
      BY <2>1, <3>2, UpdateSequenceFailsRows
    <3>3. CASE getOrInitInfo(h)
      BY <2>1, <3>3, AgainRows
    <3>4. CASE compile(h)
      BY <2>1, <3>4, CompileRows
    <3>5. CASE bindInfosFails(h)
      BY <2>1, <3>5, FinalizeRows DEF bindInfosFails
    <3>6. CASE step(h)
      BY <2>1, <3>6, StepRows
    <3>7. CASE finalize(h)
      BY <2>1, <3>7, FinalizeRows DEF finalize
    <3>8. CASE finalizeStatements(h)
      BY <2>1, <3>8, FinalizeStatementsRows
    <3>9. CASE \/ beginTransaction(h) \/ commitTransaction(h) \/ rollbackTransaction(h)
               \/ sqliteRollsBack(h)
      BY <2>1, <3>9, EndsRows
    <3>10. CASE beginSavepoint(h) \/ releaseSavepoint(h) \/ rollbackToSavepoint(h)
      BY <2>1, <3>10, SavepointRows
    <3>11. CASE stepFails(h) \/ endRolledBack(h)
      BY <2>1, <3>11, SameRows DEF stepFails, endRolledBack
    <3> QED
      BY <2>2, <3>1, <3>2, <3>3, <3>4, <3>5, <3>6, <3>7, <3>8, <3>9, <3>10, <3>11 DEF User
  <2>3. ASSUME NEW p \in Procs, initTable(p) PROVE RowsInv'
    BY <2>1, <2>3, CheckTablesRows, InitInfoRows, InitInfoFailsRows DEF initTable
  <2>4. CASE Stepper
    BY <2>1, <2>4, StepMigrationRows, DropRows, DropSourceTableRows, MigrateRowsRows,
       RowsMigratedRows, MigrateRowsFailsRows, TableMigratedRows, TablesAcquiredRows DEF Stepper
  <2>5. CASE crash
    BY <2>1, <2>5, CrashRows
  <2>6. CASE UNCHANGED vars
    BY <2>1, <2>6, SameRows DEF vars
  <2> QED  BY <2>1, <2>2, <2>3, <2>4, <2>5, <2>6 DEF Next
<1> QED
  BY <1>1, <1>2, MigrationInvHolds, PTL DEF Spec

-----------------------------------------------------------------------------
(* The theorems.                                                           *)

\* The inductive invariant: counts, views, transactions, savepoints and the
\* two tables fit together, for any handles and rows, whatever queries, writes
\* and batches fail and wherever the process ends.  Where the code loses track
\* of a view (lost) the invariant says so and claims nothing for it.
THEOREM MigrationInvariant == Spec => []MigrationInv
BY MigrationInvHolds

\* The count in m_referenceds is exact and the info is never forgotten: what
\* the WCTAsserts of Migration.cpp say holds, however prepare(), flowBack() and
\* the steps of the migration interleave, also where a prepare() fails.
THEOREM MigrationReferences == Spec => []ReferencesExact
<1>1. MigrationInv => ReferencesExact
  <2>1. SUFFICES ASSUME MigrationInv PROVE ReferencesExact
    OBVIOUS
  <2>2. TypeOK /\ CountFits /\ InfoFits /\ WorkerFits
    BY <2>1 DEF MigrationInv
  <2>3. /\ m.referenceds = Absent => \A h \in Handles : ~b[h].referenced
        /\ m.referenceds # Absent =>
              m.referenceds = Cardinality({h \in Handles : b[h].referenced})
    BY <2>2 DEF CountFits, Holders
  <2> QED  BY <2>2, <2>3 DEF ReferencesExact, InfoFits, WorkerFits
<1> QED  BY <1>1, MigrationInvHolds, PTL

\* prepare() on an existing target table succeeds, and no step of the
\* migration, no rollback of a transaction or savepoint and no rollback by
\* SQLite takes the source table or the view away from a statement that was
\* compiled for both tables, except on a handle whose flag was reset while a
\* rollback could still take its view (MigratingHandleDecorator.cpp:343-351).
THEOREM MigrationStatements == Spec => []StatementsWork
<1>1. MigrationInv => StatementsWork
  <2>1. SUFFICES ASSUME MigrationInv, NEW h \in Handles,
                        st[h].pc \in {"compile", "ready"}, Sees(h).hasTarget, ~b[h].lost
                 PROVE  Compiles(Sees(h), st[h],
                                 IF st[h].pc = "ready" THEN b[h].view
                                 ELSE stopBinding(b[h], writer = h).view)
    BY DEF StatementsWork
  <2>2. TypeOK /\ CountFits /\ SourceFits /\ TablesFit /\ StatementFits(h) /\ BinderFits(h)
    BY <2>1 DEF MigrationInv
  <2>3. CASE ~st[h].union
    BY <2>1, <2>3 DEF Compiles
  <2>4. CASE st[h].union
    <3>1. b[h].referenced
      BY <2>2, <2>4 DEF StatementFits
    <3>2. m.referenceds # Absent
      BY <2>2, <3>1, HeldIsCounted DEF Absent
    <3>3. Sees(h).hasSource
      BY <2>2, <3>2 DEF SourceFits, TablesFit, Sees
    <3>4. stopBinding(b[h], writer = h).view
      BY <2>1, <2>2, <3>1, StopBindingFits
    <3>5. st[h].pc = "ready" => b[h].view
      BY <2>1, <2>2, <2>4 DEF StatementFits
    <3> QED  BY <2>1, <3>3, <3>4, <3>5 DEF Compiles
  <2> QED  BY <2>3, <2>4
<1> QED  BY <1>1, MigrationInvHolds, PTL

\* A prepared statement sees every row exactly once, also one that was
\* compiled long before the migration came to its end, unless its own
\* prepare() met a failing query (Migration.cpp:486-495).
THEOREM MigrationReads ==
    ASSUME CreatesFirst
    PROVE  Spec => []ReadsSeeEverything
<1>1. MigrationInv /\ RowsInv => ReadsSeeEverything
  <2>1. SUFFICES ASSUME MigrationInv, RowsInv, NEW h \in Handles, ~torn, ~strayed,
                        st[h].pc = "ready", st[h].kind # "create", Sees(h).hasTarget
                 PROVE  /\ st[h].union \/ st[h].missed \/ Sees(h).source = {}
                        /\ Sees(h).target \cap Sees(h).source = {}
    BY DEF ReadsSeeEverything
  <2>2. st[h].union \/ st[h].missed \/ Sees(h).source = {}
    BY <2>1, ReadySees
  <2>3. Sound(Sees(h))
    BY <2>1 DEF RowsInv, RowsFit, Sees
  <2> QED  BY <2>1, <2>2, <2>3 DEF Sound
<1> QED  BY <1>1, MigrationInvHolds, RowsInvHolds, PTL

-----------------------------------------------------------------------------
(* The logical table.                                                      *)

\* What a statement does to the two tables it does to the logical one.
LEMMA OutcomesEffect ==
    ASSUME NEW t \in Tables, NEW s \in Statement, NEW u \in Outcomes(t, s),
           s.kind # "select",
           s.kind = "create" \/ s.union \/ t.source = {}
    PROVE  Logical(u) \in LT!Effect(Logical(t))
<1> DEFINE l == [exists |-> t.hasTarget, rows |-> t.target \cup t.source]
<1>1. Logical(t) = l
  BY DEF Logical
<1>2. CASE s.kind = "write"
  <2>1. CASE u \in stepInsert(t, s.union)
    <3>1. PICK k \in Rows :
            u = [t EXCEPT !.target = @ \cup {k}, !.source = IF s.union THEN @ \ {k} ELSE @]
      BY <2>1 DEF stepInsert
    <3>2. /\ u.hasTarget = t.hasTarget /\ u.target = t.target \cup {k}
          /\ u.source = IF s.union THEN t.source \ {k} ELSE t.source
      BY <3>1 DEF Tables
    <3>3. u.target \cup u.source = (t.target \cup t.source) \cup {k}
      BY <3>2
    <3>4. Logical(u) = [l EXCEPT !.rows = @ \cup {k}]
      BY <3>2, <3>3 DEF Logical
    <3> QED  BY <1>1, <3>4 DEF LT!Effect
  <2>2. CASE u \in stepUpdateOrDelete(t, s.union)
    <3>1. PICK k \in Rows :
            u = [t EXCEPT !.target = @ \ {k}, !.source = IF s.union THEN @ \ {k} ELSE @]
      BY <2>2 DEF stepUpdateOrDelete
    <3>2. /\ u.hasTarget = t.hasTarget /\ u.target = t.target \ {k}
          /\ u.source = IF s.union THEN t.source \ {k} ELSE t.source
      BY <3>1 DEF Tables
    <3>3. u.target \cup u.source = (t.target \cup t.source) \ {k}
      BY <1>2, <3>2
    <3>4. Logical(u) = [l EXCEPT !.rows = @ \ {k}]
      BY <3>2, <3>3 DEF Logical
    <3> QED  BY <1>1, <3>4 DEF LT!Effect
  <2>3. CASE u = dropTable(t, s.union)
    <3>1. u.hasTarget = FALSE /\ u.target = {} /\ u.source = {}
      BY <1>2, <2>3 DEF dropTable, Tables
    <3>2. Logical(u) = [exists |-> FALSE, rows |-> {}]
      BY <3>1 DEF Logical
    <3> QED  BY <3>2 DEF LT!Effect
  <2> QED  BY <1>2, <2>1, <2>2, <2>3 DEF Outcomes
<1>3. CASE s.kind = "create"
  <2>1. u = createTable(t)
    BY <1>3 DEF Outcomes
  <2>2. u.hasTarget = TRUE /\ u.target = t.target /\ u.source = t.source
    BY <2>1 DEF createTable, Tables
  <2>3. Logical(u) = [exists |-> TRUE, rows |-> t.target \cup t.source]
    BY <2>2 DEF Logical
  <2>4. [l EXCEPT !.exists = TRUE] = [exists |-> TRUE, rows |-> t.target \cup t.source]
    <3>1. ASSUME NEW e \in BOOLEAN, NEW r, NEW f \in BOOLEAN
          PROVE  [[exists |-> e, rows |-> r] EXCEPT !.exists = f] = [exists |-> f, rows |-> r]
      OBVIOUS
    <3>2. t.hasTarget \in BOOLEAN /\ TRUE \in BOOLEAN
      BY DEF Tables
    <3> QED  BY <3>1, <3>2
  <2> QED  BY <1>1, <2>3, <2>4 DEF LT!Effect
<1> QED  BY <1>2, <1>3 DEF Statement, Kinds

\* Steps of the migration are not visible.
LEMMA Invisible ==
    ASSUME writer \notin Handles, writer' \notin Handles, Logical(db') = Logical(db),
           UNCHANGED save
    PROVE  UNCHANGED LT!vars
BY DEF LT!vars

LEMMA StepImplements ==
    ASSUME MigrationInv, RowsInv, ~torn, NEW h \in Handles, step(h), ~strayed'
    PROVE  LT!Execute(h)
<1>1. TypeOK /\ TablesFit
  BY DEF MigrationInv
<1>2. /\ UNCHANGED <<writer, save>> /\ st[h].pc = "ready" /\ st[h].kind # "select"
      /\ writer \in {h, Nobody} /\ work' \in Outcomes(Sees(h), st[h])
      /\ db' = IF writer = h THEN db ELSE work'
      /\ Works(h)
      /\ ~strayed /\ (Sees(h).source # {} => ~st[h].missed)
  BY DEF step
<1>3. PICK t \in Tables : t = Sees(h)
  BY <1>1 DEF TypeOK, Sees
<1>4. PICK u \in Outcomes(t, st[h]) : u = work'
  BY <1>2, <1>3
<1>5. st[h].kind = "create" \/ st[h].union \/ t.source = {}
  <2>1. SUFFICES ASSUME st[h].kind # "create", t.source # {} PROVE st[h].union
    OBVIOUS
  <2>2. Sees(h).hasTarget
    BY <1>2, <2>1 DEF Works, Compiles
  <2> QED  BY <1>2, <1>3, <2>1, <2>2, ReadySees
<1>6. Logical(work') \in LT!Effect(Logical(t))
  <2>1. st[h] \in Statement
    BY <1>1, ProcsSorted DEF TypeOK
  <2> QED  BY <1>2, <1>4, <1>5, <2>1, OutcomesEffect
<1>7. h # Nobody /\ Nobody \notin Handles
  BY ProcessAssumption
<1>8. CASE writer = h
  <2>1. t = work
    BY <1>3, <1>8 DEF Sees
  <2> QED  BY <1>2, <1>6, <1>8, <2>1 DEF LT!Execute
<1>9. CASE writer = Nobody
  <2>1. t = db /\ db' = work'
    BY <1>2, <1>3, <1>7, <1>9 DEF Sees
  <2> QED  BY <1>2, <1>6, <1>7, <1>9, <2>1 DEF LT!Execute
<1> QED  BY <1>2, <1>8, <1>9

LEMMA EndsImplement ==
    ASSUME MigrationInv, NEW h \in Handles
    PROVE  /\ beginTransaction(h) => LT!Begin(h)
           /\ commitTransaction(h) => LT!Commit(h)
           /\ rollbackTransaction(h) \/ sqliteRollsBack(h) => LT!Rollback(h)
<1>1. Nobody \notin Handles /\ h # Nobody
  BY ProcessAssumption
<1>2. ASSUME beginTransaction(h) PROVE LT!Begin(h)
  <2>1. writer = Nobody /\ writer' = h /\ UNCHANGED <<db, work, save>> /\ work = db
    BY <1>2 DEF beginTransaction, MigrationInv, TablesFit
  <2> QED  BY <1>1, <2>1 DEF LT!Begin
<1>3. ASSUME commitTransaction(h) PROVE LT!Commit(h)
  <2>1. /\ writer = h /\ writer' = Nobody /\ db' = work /\ UNCHANGED <<work, save>>
        /\ save = {}
    BY <1>3 DEF commitTransaction, MayEnd
  <2> QED  BY <1>1, <2>1 DEF LT!Commit
<1>4. ASSUME rollbackTransaction(h) \/ sqliteRollsBack(h) PROVE LT!Rollback(h)
  <2>1. writer = h /\ writer' = Nobody /\ work' = db /\ UNCHANGED db /\ save' = {}
    BY <1>4 DEF rollbackTransaction, sqliteRollsBack, MayEnd
  <2> QED  BY <1>1, <2>1 DEF LT!Rollback
<1> QED  BY <1>2, <1>3, <1>4

LEMMA SavepointsImplement ==
    ASSUME NEW h \in Handles
    PROVE  /\ beginSavepoint(h) => LT!Nest(h)
           /\ releaseSavepoint(h) \/ rollbackToSavepoint(h) => LT!Unnest(h)
<1>1. ASSUME beginSavepoint(h) PROVE LT!Nest(h)
  <2>1. /\ writer = h /\ save = {} /\ UNCHANGED <<db, work, writer>>
        /\ save' = {[tables |-> work, view |-> b[h].view]}
    BY <1>1 DEF beginSavepoint, MayEnd
  <2>2. {Logical(r.tables) : r \in save'} = {Logical(work)}
    BY <2>1
  <2> QED  BY <2>1, <2>2 DEF LT!Nest
<1>2. ASSUME releaseSavepoint(h) PROVE LT!Unnest(h)
  <2>1. writer = h /\ save' = {} /\ UNCHANGED <<db, work, writer>>
    BY <1>2 DEF releaseSavepoint, MayEnd
  <2> QED  BY <2>1 DEF LT!Unnest
<1>3. ASSUME rollbackToSavepoint(h) PROVE LT!Unnest(h)
  <2>1. writer = h /\ save' = {} /\ UNCHANGED <<db, writer>>
    BY <1>3 DEF rollbackToSavepoint, MayEnd
  <2>2. PICK r \in save : work' = r.tables
    BY <1>3 DEF rollbackToSavepoint
  <2>3. Logical(work') \in {Logical(q.tables) : q \in save}
    BY <2>2
  <2> QED  BY <2>1, <2>3 DEF LT!Unnest
<1> QED  BY <1>1, <1>2, <1>3

LEMMA BatchImplements ==
    ASSUME MigrationInv,
           dropSourceTable \/ migrateRows \/ rowsMigrated \/ migrateRowsFails
    PROVE  UNCHANGED LT!vars
<1>1. TypeOK /\ WorkerFits /\ TablesFit
  BY DEF MigrationInv
<1>2. Nobody \notin Handles /\ Worker \notin Handles
  BY ProcessAssumption
<1>3. CASE dropSourceTable
  <2>1. /\ writer = Nobody /\ UNCHANGED <<writer, save>> /\ w.pc = "dropSource"
        /\ db' = [db EXCEPT !.hasSource = FALSE, !.source = {}]
    BY <1>3 DEF dropSourceTable
  <2>2. db.source = {}
    BY <1>1, <2>1 DEF TablesFit
  <2>3. db'.hasTarget = db.hasTarget /\ db'.target \cup db'.source = db.target \cup db.source
    BY <1>1, <2>1, <2>2 DEF TypeOK, Tables
  <2>4. Logical(db') = Logical(db)
    BY <2>3 DEF Logical
  <2> QED  BY <1>2, <2>1, <2>4, Invisible
<1>4. CASE migrateRows
  <2>1. writer = Nobody /\ writer' \in {Nobody, Worker} /\ UNCHANGED <<db, save>>
    BY <1>4 DEF migrateRows
  <2> QED  BY <1>2, <2>1, Invisible
<1>5. CASE rowsMigrated
  <2>1. writer = Worker /\ writer' = Nobody /\ db' = work /\ UNCHANGED save
    BY <1>1, <1>5 DEF rowsMigrated, WorkerFits
  <2>2. Logical(db') = Logical(db)
    BY <1>1, <2>1 DEF TablesFit, Logical
  <2> QED  BY <1>2, <2>1, <2>2, Invisible
<1>6. CASE migrateRowsFails
  <2>1. writer = Worker /\ writer' = Nobody /\ UNCHANGED <<db, save>>
    BY <1>1, <1>6 DEF migrateRowsFails, WorkerFits
  <2> QED  BY <1>2, <2>1, Invisible
<1> QED  BY <1>3, <1>4, <1>5, <1>6

\* The process ends: the transaction of a user is rolled back; a batch may be
\* committed in one file only, which leaves its rows in both.
LEMMA CrashImplements ==
    ASSUME MigrationInv, crash
    PROVE  LT!Next \/ UNCHANGED LT!vars
<1>1. TypeOK /\ WorkerFits /\ TablesFit /\ SaveFits
  BY DEF MigrationInv
<1>2. Nobody \notin Handles /\ Worker \notin Handles
  BY ProcessAssumption
<1>3. writer' = Nobody /\ work' = db' /\ save' = {}
  BY DEF crash
<1>4. CASE writer \in Handles
  <2>1. db' = db
    BY <1>1, <1>2, <1>4 DEF crash, WorkerFits
  <2>2. LT!Rollback(writer)
    BY <1>2, <1>3, <1>4, <2>1 DEF LT!Rollback
  <2> QED  BY <1>4, <2>2 DEF LT!Next
<1>5. CASE writer \notin Handles
  <2>1. Logical(db') = Logical(db)
    <3>1. CASE db' = db
      BY <3>1
    <3>2. CASE w.pc = "commit" /\ db' = HalfCommitted
      <4>1. writer = Worker
        BY <1>1, <3>2 DEF WorkerFits
      <4>2. /\ db'.hasTarget = work.hasTarget /\ db'.target = work.target
            /\ db'.source = db.source
        BY <1>1, <3>2, HalfCommittedFits
      <4>3. /\ work.hasTarget = db.hasTarget
            /\ work.target \subseteq db.target \cup db.source
            /\ work.target \cup work.source = db.target \cup db.source
            /\ work.source \subseteq db.source
        BY <1>1, <4>1 DEF TablesFit
      <4>4. db'.target \cup db'.source = db.target \cup db.source
        BY <4>2, <4>3
      <4> QED  BY <4>2, <4>3, <4>4 DEF Logical
    <3> QED  BY <3>1, <3>2 DEF crash
  <2>2. save' = save
    BY <1>1, <1>3, <1>5 DEF SaveFits
  <2> QED  BY <1>2, <1>3, <1>5, <2>1, <2>2, Invisible
<1> QED  BY <1>4, <1>5

LEMMA NextImplements ==
    ASSUME MigrationInv, RowsInv, [Next]_vars
    PROVE  [torn \/ strayed' \/ LT!Next]_(LT!vars)
<1>1. SUFFICES ASSUME ~torn, ~strayed' PROVE LT!Next \/ UNCHANGED LT!vars
  OBVIOUS
<1>2. CASE UNCHANGED <<db, work, writer, save>>
  BY <1>2 DEF LT!vars
<1>3. ASSUME NEW h \in Handles, User(h) PROVE LT!Next \/ UNCHANGED LT!vars
  <2>1. CASE step(h)
    BY <1>1, <2>1, StepImplements DEF LT!Next
  <2>2. CASE \/ beginTransaction(h) \/ commitTransaction(h) \/ rollbackTransaction(h)
             \/ sqliteRollsBack(h)
    BY <2>2, EndsImplement DEF LT!Next
  <2>3. CASE beginSavepoint(h) \/ releaseSavepoint(h) \/ rollbackToSavepoint(h)
    BY <2>3, SavepointsImplement DEF LT!Next
  <2>4. CASE \/ \E k \in KindsOf(h) : prepare(h, k) \/ updateSequenceFails(h, k)
             \/ getOrInitInfo(h) \/ compile(h) \/ bindInfosFails(h)
             \/ stepFails(h) \/ finalize(h) \/ finalizeStatements(h) \/ endRolledBack(h)
    BY <1>2, <2>4 DEF prepare, updateSequenceFails, getOrInitInfo, compile, bindInfosFails,
                      stepFails, finalize, finalizeStatements, endRolledBack
  <2> QED  BY <1>3, <2>1, <2>2, <2>3, <2>4 DEF User
<1>4. ASSUME NEW p \in Procs, initTable(p) PROVE LT!Next \/ UNCHANGED LT!vars
  BY <1>2, <1>4 DEF initTable, checkTables, initInfo, initInfoFails
<1>5. CASE Stepper
  <2>1. CASE dropSourceTable \/ migrateRows \/ rowsMigrated \/ migrateRowsFails
    BY <2>1, BatchImplements
  <2>2. CASE \/ stepMigration \/ selectAnyRow \/ sourceTableDropped
             \/ tableMigrated \/ tablesAcquired
    BY <1>2, <2>2 DEF stepMigration, selectAnyRow, sourceTableDropped, tableMigrated,
                      tablesAcquired
  <2> QED  BY <1>5, <2>1, <2>2 DEF Stepper
<1>6. CASE crash
  BY <1>6, CrashImplements
<1>7. CASE UNCHANGED vars
  BY <1>2, <1>7 DEF vars
<1> QED  BY <1>3, <1>4, <1>5, <1>6, <1>7 DEF Next

\* The documentation of addMigration(): the users of the target table work on
\* one table with nested transactions, which no step of the migration, no
\* failure of a batch, of a write or of a query, no rollback and no end of the
\* process changes, as long as no commit was torn and no write was compiled for
\* the target alone because a query failed.
THEOREM MigrationImplementsLogicalTable ==
    ASSUME CreatesFirst
    PROVE  Spec => ImplementsLogicalTable
<1>1. Init => LT!Init
  <2>1. SUFFICES ASSUME Init PROVE LT!Init
    OBVIOUS
  <2>2. writer \notin Handles /\ db \in Tables /\ save = {}
    BY <2>1, ProcessAssumption DEF Init
  <2>3. Logical(db) \in LT!Table
    BY <2>2 DEF Logical, LT!Table, Tables
  <2> QED  BY <2>2, <2>3 DEF LT!Init
<1>2. MigrationInv /\ RowsInv /\ [Next]_vars => [torn \/ strayed' \/ LT!Next]_(LT!vars)
  BY NextImplements
<1> QED
  BY <1>1, <1>2, MigrationInvHolds, RowsInvHolds, PTL DEF Spec, ImplementsLogicalTable

=============================================================================
