---------------------------- MODULE RepairFactory ----------------------------
(***************************************************************************)
(* The repair factory: deposit(), retrieve(), vacuum() and                 *)
(* removeDeposited() move the files of a database between its own          *)
(* directory, the directories of the factory and the workshops that hold   *)
(* deposited databases, one call of the file system after the other;       *)
(* backup() writes the two materials.  A call may fail, and the process    *)
(* may end between any two calls; initialize() goes on with what it finds  *)
(* at the next start.                                                      *)
(*                                                                         *)
(* The operations run in the callback of close(), so that there is one     *)
(* actor; users do not write while backup() runs.  Files are names of      *)
(* inodes, since a file is moved by a hard link.                           *)
(***************************************************************************)
EXTENDS Integers, FiniteSets

CONSTANTS MaxRows,      \* bound: rows that users write
          Workshops,    \* bound: the directories for deposited databases
          MaxOperations, \* bound: operations of the factory and backups
          MaxFaults,    \* bound: failing calls, ends of the process, damages
          ByRename      \* the build for Android: rename() instead of link()

ASSUME RepairAssumption ==
    /\ IsFiniteSet(Workshops)
    /\ Workshops \cap {"base", "renew", "vacuum", "temp"} = {}
    /\ {MaxRows, MaxOperations, MaxFaults} \subseteq Nat
    /\ ByRename \in BOOLEAN

VARIABLES inode,    \* per directory and file: the inode, or None
          content,  \* per inode: the content
          job,      \* what runs: closed, open (initialized), or an operation
          step,     \* the call, or the list of calls, that it makes next
          moved,    \* recovers of the moveItems() that runs
          shop,     \* the workshop of the depositor that runs
          owed,     \* rows that have been written and must be recoverable
          backed,   \* rows of the last completed backup() of the database in use,
                    \* until a later one is written in part or the clock set back
          spent     \* how many rows, operations and faults there were

files == <<inode, content, backed>>
repairVars == <<inode, content, job, step, moved, shop, owed, backed, spent>>

None == <<>>
Rows == 1 .. MaxRows

\* "temp" stands for renew/temp, vacuum/temp and the restore directory, each
\* of which is removed before it is filled and never read after a restart.
Directories == {"base", "renew", "vacuum", "temp"} \cup Workshops

\* The journal, the shared memory and the incremental material are left out.
Files == {"db", "wal", "first", "last"}
associatedPathsForDatabase == [db |-> 1, wal |-> 2, first |-> 3, last |-> 4]

\* One more of a kind than can have a name at a time.
Inodes == Files \X (1 .. Cardinality(Directories) + 1)

(***************************************************************************)
(* A database is fresh (of size 0), good or bad (damaged); a material is   *)
(* fresh (truncated), good or bad (written in part).  The log and the      *)
(* materials are those of the database "of".  Of two materials the one     *)
(* that was modified last is the latest; one may be ahead of the clock.    *)
(***************************************************************************)
Contents == [rows : SUBSET Rows, state : {"fresh", "good", "bad"},
             of : Inodes \cup {None}, latest : BOOLEAN, ahead : BOOLEAN]

blank == [rows |-> {}, state |-> "fresh", of |-> None, latest |-> FALSE, ahead |-> FALSE]

NoFiles == [f \in Files |-> None]

Named(n) == {n[p][f] : p \in Directories, f \in Files} \ {None}

Exists(p, f) == inode[p][f] # None
Present(p) == {f \in Files : Exists(p, f)}

\* The files have the names n and the contents c.  An inode without a name is
\* gone.
SetFiles(n, c) ==
    /\ inode' = n
    /\ content' = [i \in Inodes |->
                     IF i \notin Named(n) THEN blank
                     ELSE [c[i] EXCEPT !.of = IF @ \in Named(n) THEN @ ELSE None]]
    /\ backed' = IF n["base"]["db"] = inode["base"]["db"] THEN backed ELSE {}

NewInode(f) == CHOOSE i \in Inodes : i[1] = f /\ i \notin Named(inode)

-----------------------------------------------------------------------------
(* What retrieve() reads from a directory.                                 *)

\* The materials that are not empty.
materialsForDeserializing(p) ==
    {f \in {"first", "last"} : Exists(p, f) /\ content[inode[p][f]].state # "fresh"}

\* The latest one that can be read.
UsableMaterials(p) ==
    LET good == {f \in materialsForDeserializing(p) : content[inode[p][f]].state = "good"}
    IN  {f \in good : content[inode[p][f]].latest \/ good = {f}}

\* The pages that a material names, if it is one of this database.
MaterialRows(p) ==
    UNION {content[inode[p][f]].rows :
             f \in {g \in UsableMaterials(p) : content[inode[p][g]].of = inode[p]["db"]}}

FileRows(p) ==
    content[inode[p]["db"]].rows
        \cup (IF Exists(p, "wal") /\ content[inode[p]["wal"]].of = inode[p]["db"]
              THEN content[inode[p]["wal"]].rows ELSE {})

StateOf(p) == IF Exists(p, "db") THEN content[inode[p]["db"]].state ELSE "fresh"

GoodRows(p) == IF StateOf(p) = "good" THEN FileRows(p) ELSE {}

\* The crawler reads a good database; of a damaged one only the pages
\* that its material names are found.
restore(p) ==
    IF StateOf(p) = "bad" THEN FileRows(p) \cap MaterialRows(p) ELSE GoodRows(p)

\* The directory whose database initialize() will use.
Launched == IF Exists("base", "db") THEN "base"
            ELSE IF Exists("vacuum", "db") THEN "vacuum"
            ELSE IF Exists("renew", "db") THEN "renew" ELSE "base"

Recoverable == restore(Launched) \cup UNION {restore(w) : w \in Workshops}

\* The rows of undamaged databases.
Intact == GoodRows(Launched) \cup UNION {GoodRows(w) : w \in Workshops}

-----------------------------------------------------------------------------
(* Calls of the file system.                                               *)

Fault == spent.faults < MaxFaults /\ spent' = [spent EXCEPT !.faults = @ + 1]
Operation == spent.operations < MaxOperations /\ spent' = [spent EXCEPT !.operations = @ + 1]

\* f is the first of fs in the order of associatedPathsForDatabase.
Leads(f, fs, reversed) ==
    /\ f \in fs
    /\ \A g \in fs :
          IF reversed THEN associatedPathsForDatabase[g] <= associatedPathsForDatabase[f]
          ELSE associatedPathsForDatabase[f] <= associatedPathsForDatabase[g]

Vacuuming ==
    \/ job = "vacuum" /\ step \notin {"dropVacuum", "return"}
    \/ step \in {"takeVacuum", "clearForVacuum", "putVacuum", "emptyVacuum"}

\* The code discards what may be the only copy of these rows.
Discards(rows) == owed' = owed \ rows

\* A call fails, and the operation with it.  exit() of a vacuum removes its
\* directory, which has the only copy if the database itself is gone.
Fails ==
    /\ Fault
    /\ job' = "failing"
    /\ step' = IF Vacuuming THEN "dropVacuum" ELSE "return"
    /\ moved' = {}
    /\ Discards(IF Vacuuming /\ inode'["base"]["db"] = None THEN GoodRows("vacuum") ELSE {})

Continues(next) == step' = next /\ UNCHANGED <<job, spent, owed>>

removeItems(here, p, reversed, next) ==
    /\ step = here
    /\ \/ Present(p) = {} /\ Continues(next) /\ UNCHANGED <<files, moved>>
       \/ /\ \E f \in Files : /\ Leads(f, Present(p), reversed)
                              /\ SetFiles([inode EXCEPT ![p][f] = None], content)
          /\ Continues(here) /\ UNCHANGED moved
       \/ UNCHANGED files /\ Fails
    /\ UNCHANGED shop

\* A mutant of Moved: rename(), by which a file loses its old name first.
Renamed(p, q, f) == [inode EXCEPT ![q][f] = inode[p][f], ![p][f] = None]

\* link(), or rename() on Android.
Moved(p, q, f) ==
    IF ByRename THEN [inode EXCEPT ![q][f] = inode[p][f], ![p][f] = None]
    ELSE [inode EXCEPT ![q][f] = inode[p][f]]

\* The names p of the files fs are gone.
Without(p, fs) == [inode EXCEPT ![p] = [f \in Files |-> IF f \in fs THEN None ELSE @[f]]]

\* The loop of moveItems() ends when itemExists() fails, with result still true.
\* The files that it has not come to are removed with the others, and if the
\* database or its log is one of them its rows are gone.
itemExistsFails(p, rest, next) ==
    /\ rest # {} /\ Fault
    /\ Discards(IF rest \cap {"db", "wal"} # {} THEN GoodRows(p) ELSE {})
    /\ step' = next /\ UNCHANGED job

\* All files get their new names before the first one loses its old name, in
\* the step next.  When a call fails, the files that have been moved lose their
\* new names again, except those whose removal fails, which nobody checks.  An
\* old file with the new name, which is removed first, is there in no case.
moveItems(here, p, q, reversed, next) ==
    LET rest == Present(p) \ moved IN
    /\ step = here
    /\ \/ /\ (rest = {} /\ Continues(next)) \/ itemExistsFails(p, rest, next)
          /\ moved' = {} /\ UNCHANGED files
       \/ \E f \in Files : /\ Leads(f, rest, reversed)
                           /\ SetFiles(Moved(p, q, f), content)
                           /\ moved' = moved \cup {f}
                           /\ Continues(here)
       \/ /\ rest # {} \/ moved = {}
          /\ \E recovers \in SUBSET moved : SetFiles(Without(q, recovers), content) /\ Fails
    /\ UNCHANGED shop

\* Directories are read in any order, and nobody looks at the result.
removeDirectories(here, places, next) ==
    LET items == {i \in places \X Files : Exists(i[1], i[2])} IN
    /\ step = here
    /\ \E gone \in SUBSET items :
          /\ SetFiles([p \in Directories |-> [f \in Files |->
                         IF <<p, f>> \in gone THEN None ELSE inode[p][f]]], content)
          /\ IF gone = items THEN UNCHANGED spent ELSE Fault
    /\ step' = next
    /\ UNCHANGED <<job, moved, shop, owed>>

-----------------------------------------------------------------------------
(* initialize()                                                            *)

AfterVacuum == IF job = "initialize" THEN "takeRenew" ELSE "return"
AfterRenew == IF job = "initialize" THEN "create" ELSE "return"

\* FactoryVacuum::work().
takeVacuum ==
    /\ step = "takeVacuum" /\ UNCHANGED files
    /\ \/ Exists("vacuum", "db") /\ ~Exists("base", "db") /\ Continues("clearForVacuum") /\ UNCHANGED moved
       \/ (Exists("vacuum", "db") => Exists("base", "db")) /\ Continues("dropVacuum") /\ UNCHANGED moved
       \/ Fails
    /\ UNCHANGED shop

\* FactoryRenewer::work().
takeRenew ==
    /\ step = "takeRenew" /\ UNCHANGED files
    /\ \/ ~Exists("renew", "db") /\ Continues(AfterRenew) /\ UNCHANGED moved
       \/ Exists("renew", "db") /\ ~Exists("base", "db") /\ Continues("clearForRenew") /\ UNCHANGED moved
       \/ Exists("renew", "db") /\ Exists("base", "db") /\ Continues("dropRenew") /\ UNCHANGED moved
       \/ Fails
    /\ UNCHANGED shop

\* A mutant of ClearBase: the files of the old database stay.
KeepBase(here, next) ==
    step = here /\ Continues(next) /\ UNCHANGED <<files, moved, shop>>

\* The files of the old database go first, ...
ClearBase(here, next) == removeItems(here, "base", FALSE, next)

\* ... and the database itself comes last.
TakeOver ==
    \/ takeVacuum
    \/ ClearBase("clearForVacuum", "putVacuum")
    \/ moveItems("putVacuum", "vacuum", "base", TRUE, "emptyVacuum")
    \/ removeItems("emptyVacuum", "vacuum", TRUE, "dropVacuum")
    \/ removeDirectories("dropVacuum", {"vacuum"}, AfterVacuum)
    \/ takeRenew
    \/ ClearBase("clearForRenew", "putRenew")
    \/ moveItems("putRenew", "renew", "base", TRUE, "emptyRenew")
    \/ removeItems("emptyRenew", "renew", TRUE, "dropRenew")
    \/ removeDirectories("dropRenew", {"renew"}, AfterRenew)

create ==
    /\ step = "create"
    /\ \/ Exists("base", "db") /\ Continues("return") /\ UNCHANGED <<files, moved>>
       \/ /\ ~Exists("base", "db") /\ Continues("return") /\ UNCHANGED moved
          /\ SetFiles([inode EXCEPT !["base"]["db"] = NewInode("db")],
                      [content EXCEPT ![NewInode("db")] = blank])
       \/ UNCHANGED files /\ Fails
    /\ UNCHANGED shop

initialize ==
    /\ job = "closed"
    /\ job' = "initialize" /\ step' = "takeVacuum"
    /\ UNCHANGED <<files, moved, shop, owed, spent>>

close ==
    /\ job = "open"
    /\ job' = "closed"
    /\ UNCHANGED <<files, step, moved, shop, owed, spent>>

\* close() leaves the database uninitialized.
return ==
    /\ step = "return"
    /\ job' = IF job = "initialize" THEN "open" ELSE "closed"
    /\ step' = "idle" /\ shop' = "none"
    /\ UNCHANGED <<files, moved, owed, spent>>

\* The process ends.  Nobody reads temp again.
crash ==
    /\ job \notin {"closed", "open"}
    /\ Fault
    /\ job' = "closed" /\ step' = "idle" /\ moved' = {} /\ shop' = "none"
    /\ SetFiles([inode EXCEPT !["temp"] = NoFiles], content)
    /\ UNCHANGED owed

-----------------------------------------------------------------------------
(* Users of the open database.                                             *)

Database == inode["base"]["db"]

\* A new row.  SQLite removes a log that it finds beside an empty database.
insert ==
    LET k == spent.rows + 1
        old == Exists("base", "wal") /\ StateOf("base") = "good"
        i == IF old THEN inode["base"]["wal"] ELSE NewInode("wal")
    IN  /\ job = "open" /\ StateOf("base") # "bad"
        /\ k \in Rows
        /\ SetFiles([inode EXCEPT !["base"]["wal"] = i],
                    [content EXCEPT ![i] = [blank EXCEPT !.state = "good", !.of = Database,
                                              !.rows = IF old THEN content[i].rows \cup {k} ELSE {k}],
                                    ![Database].state = "good"])
        /\ owed' = owed \cup {k}
        /\ spent' = [spent EXCEPT !.rows = k]
        /\ UNCHANGED <<job, step, moved, shop>>

\* A checkpoint, as by the last connection that closes.
checkpoint ==
    /\ job = "open" /\ StateOf("base") = "good" /\ Exists("base", "wal")
    /\ SetFiles([inode EXCEPT !["base"]["wal"] = None],
                [content EXCEPT ![Database].rows = FileRows("base")])
    /\ UNCHANGED <<job, step, moved, shop, owed, spent>>

\* The database file is damaged: what only it had is not owed any more, even
\* if a material names its pages.
damage ==
    /\ job = "open" /\ StateOf("base") = "good"
    /\ Fault
    /\ UNCHANGED <<inode, backed, job, step, moved, shop>>
    /\ content' = [content EXCEPT ![Database].state = "bad"]
    /\ owed' = owed \cap Intact'

\* The clock is set, or time passes: the materials f are ahead of it.
setClock ==
    LET full == materialsForDeserializing("base")
        ahead == {f \in full : content[inode["base"][f]].ahead}
    IN  /\ job = "open"
        /\ \E fs \in SUBSET full \ {ahead} :
              /\ \A f \in full : content[inode["base"][f]].latest /\ fs # {} => f \in fs
              /\ content' = [i \in Inodes |->
                               IF \E f \in full : i = inode["base"][f]
                               THEN [content[i] EXCEPT !.ahead = i[1] \in fs] ELSE content[i]]
              /\ IF fs \subseteq ahead THEN UNCHANGED <<spent, backed>>
                 ELSE Fault /\ backed' = {}
        /\ UNCHANGED <<inode, job, step, moved, shop, owed>>

\* A mutant of materialForSerializing: the latest one is overwritten.
OverwritesLatest ==
    LET full == materialsForDeserializing("base")
    IN  IF full # {} THEN CHOOSE f \in full : content[inode["base"][f]].latest ELSE "first"

\* The first that is missing, empty or ahead of the clock, or else the older one.
materialForSerializing ==
    LET due(f) == \/ f \notin materialsForDeserializing("base")
                  \/ content[inode["base"][f]].ahead
    IN  IF due("first") THEN "first"
        ELSE IF due("last") THEN "last"
        ELSE IF content[inode["base"]["first"]].latest THEN "last" ELSE "first"

\* The other material is there and ahead of the clock, so that it stays the latest.
Behind(f) == \E g \in materialsForDeserializing("base") \ {f} : content[inode["base"][g]].ahead

\* The file is opened with O_TRUNC.
backup ==
    LET f == materialForSerializing
        g == IF f = "first" THEN "last" ELSE "first"
        i == IF Exists("base", f) THEN inode["base"][f] ELSE NewInode(f)
    IN  /\ job = "open" /\ StateOf("base") = "good"
        /\ SetFiles([inode EXCEPT !["base"][f] = i],
                    [j \in Inodes |-> IF j = i THEN [blank EXCEPT !.latest = ~Behind(f)]
                                      ELSE IF j = inode["base"][g] THEN [content[j] EXCEPT !.latest = Behind(f)]
                                      ELSE content[j]])
        /\ job' = "backup"
        /\ step' = IF f = "first" THEN "serializeFirst" ELSE "serializeLast"
        /\ Operation
        /\ UNCHANGED <<moved, shop, owed>>

\* The material is written, as a whole or in part.
serialize(f, here) ==
    /\ step = here
    /\ \E state \in {"good", "bad"} :
          /\ content' = [content EXCEPT ![inode["base"][f]] =
                           [@ EXCEPT !.state = state, !.of = Database, !.rows = FileRows("base")]]
          /\ IF state = "good" THEN UNCHANGED spent ELSE Fault
          /\ backed' = IF state = "good" /\ ~Behind(f) THEN FileRows("base") ELSE {}
    /\ step' = "idle" /\ job' = "open"
    /\ UNCHANGED <<inode, moved, shop, owed>>

-----------------------------------------------------------------------------
(* The operations of the factory.                                          *)

\* A database and, if it has a material, its first material in temp.
Assembled(rows, material) ==
    LET new == NewInode("db")
        first == NewInode("first")
    IN  SetFiles([inode EXCEPT !["temp"] =
                    [NoFiles EXCEPT !["db"] = new, !["first"] = IF material THEN first ELSE None]],
                 [content EXCEPT
                    ![new] = [blank EXCEPT !.rows = rows,
                                !.state = IF material \/ rows # {} THEN "good" ELSE "fresh"],
                    ![first] = [blank EXCEPT !.rows = rows, !.state = "good", !.of = new,
                                             !.latest = TRUE]])

FreeWorkshops == {w \in Workshops : inode[w] = NoFiles}
getUniqueWorkshopDirectory == CHOOSE w \in FreeWorkshops : TRUE

Begin(j, first) == job = "open" /\ Operation /\ job' = j /\ step' = first /\ UNCHANGED moved

\* prepare() of FactoryRenewer makes an empty database with the tables that
\* the materials name; the current one is deposited; the new one replaces it.
deposit ==
    /\ Begin("deposit", "clearRenew")
    /\ FreeWorkshops # {}
    /\ Assembled({}, \E p \in {"base"} \cup Workshops : UsableMaterials(p) # {})
    /\ shop' = getUniqueWorkshopDirectory
    /\ UNCHANGED owed

\* Everything that can be read, restored into one database.
Retrieved == restore("base") \cup UNION {restore(w) : w \in Workshops}

retrieve ==
    /\ Begin("retrieve", "depositBase")
    /\ FreeWorkshops # {}
    /\ Retrieved # {}
    /\ Assembled(Retrieved, TRUE)
    /\ shop' = getUniqueWorkshopDirectory
    /\ UNCHANGED owed

\* All rows are copied with SQL.
vacuum ==
    /\ Begin("vacuum", "clearVacuum")
    /\ StateOf("base") # "bad"
    /\ Assembled(restore("base"), FALSE)
    /\ UNCHANGED <<shop, owed>>

\* prepare() of FactoryRenewer and of FactoryVacuum.
Prepare ==
    \/ removeItems("clearRenew", "renew", TRUE, "fillRenew")
    \/ moveItems("fillRenew", "temp", "renew", TRUE, "emptyTemp")
    \/ removeItems("clearVacuum", "vacuum", TRUE, "fillVacuum")
    \/ moveItems("fillVacuum", "temp", "vacuum", TRUE, "emptyTemp")
    \/ job # "retrieve" /\ removeItems("emptyTemp", "temp", TRUE, "dropTemp")
    \/ removeDirectories("dropTemp", {"temp"},
                         IF job = "vacuum" THEN "removeBase" ELSE "depositBase")
    \/ removeItems("removeBase", "base", FALSE, "takeVacuum")

\* FactoryDepositor::work(), for deposit() and retrieve().
depositor ==
    \/ moveItems("depositBase", "base", shop, FALSE, "emptyBase")
    \/ removeItems("emptyBase", "base", FALSE,
                   IF job = "deposit" THEN "takeRenew" ELSE "putTemp")

\* The end of retrieve().  The deposited databases are kept when there was an
\* error, and discarded else.
UseRestored ==
    \/ moveItems("putTemp", "temp", "base", FALSE, "emptyTemp")
    \/ /\ job = "retrieve"
       /\ \E next \in {"discard", "return"} : removeItems("emptyTemp", "temp", FALSE, next)
    \/ removeDirectories("discard", {"renew", "vacuum"} \cup Workshops, "return")

\* The user gives up what only the deposited databases have.
removeDeposited ==
    /\ Begin("removeDeposited", "dropWorkshops")
    /\ owed' = owed \cap GoodRows("base")
    /\ UNCHANGED <<files, shop>>

InitRepair ==
    /\ inode = [p \in Directories |-> NoFiles]
    /\ content = [i \in Inodes |-> blank]
    /\ job = "closed" /\ step = "idle" /\ moved = {} /\ shop = "none"
    /\ owed = {} /\ backed = {}
    /\ spent = [rows |-> 0, operations |-> 0, faults |-> 0]

NextRepair ==
    \/ initialize \/ return \/ close \/ crash
    \/ TakeOver \/ create
    \/ insert \/ checkpoint \/ damage \/ setClock
    \/ backup \/ serialize("first", "serializeFirst") \/ serialize("last", "serializeLast")
    \/ deposit \/ retrieve \/ vacuum \/ removeDeposited
    \/ Prepare \/ depositor \/ UseRestored
    \/ removeDirectories("dropWorkshops", Workshops, "return")

SpecRepair == InitRepair /\ [][NextRepair]_repairVars
-----------------------------------------------------------------------------
Jobs == {"closed", "open", "initialize", "backup", "deposit", "retrieve", "vacuum",
         "removeDeposited", "failing"}
Steps == {"idle", "return", "create", "serializeFirst", "serializeLast",
          "takeVacuum", "clearForVacuum", "putVacuum", "emptyVacuum", "dropVacuum",
          "takeRenew", "clearForRenew", "putRenew", "emptyRenew", "dropRenew",
          "clearRenew", "fillRenew", "clearVacuum", "fillVacuum", "emptyTemp", "dropTemp",
          "removeBase", "depositBase", "emptyBase", "putTemp", "discard", "dropWorkshops"}

RepairTypeOK ==
    /\ inode \in [Directories -> [Files -> Inodes \cup {None}]]
    /\ \A p \in Directories, f \in Files : Exists(p, f) => inode[p][f][1] = f
    /\ content \in [Inodes -> Contents]
    /\ job \in Jobs /\ step \in Steps
    /\ moved \subseteq Files /\ shop \in Workshops \cup {"none"}
    /\ owed \subseteq Rows /\ backed \subseteq Rows

\* Where files are moved with link(), and wherever an operation fails or the
\* process ends between two calls, every row that was written is in the
\* database that the next initialize() uses or in a deposited one, with the log
\* that is needed to read it.  Not owed are
\* rows of databases that were damaged or given up, and the ones that two
\* error paths discard: exit() of a vacuum after the removal of the original
\* has begun, and moveItems() when it cannot examine the database or its log.
NothingElseLost == owed \subseteq Recoverable

\* A database is never opened with the log of another one, which SQLite would
\* write into it.
FilesBelongTogether ==
    /\ RepairTypeOK
    /\ StateOf("base") # "fresh" /\ Exists("base", "wal") =>
          content[inode["base"]["wal"]].of = Database

\* A completed backup() of the database in use stays usable, whatever later
\* ones are interrupted between the truncation and the write, and whatever
\* other operation fails or is interrupted, until another database replaces it,
\* a later material is written in part or the clock is set back behind one.
BackupSurvives == backed # {} => Exists("base", "db") /\ backed \subseteq MaterialRows("base")
=============================================================================
