--------------------------- MODULE SchemaLifecycle ---------------------------
(***************************************************************************)
(* The SQLite schema: inspect, ensure and migrate, called at start-up by   *)
(* several processes that share one database file, the way the README has  *)
(* hosts call them.                                                        *)
(*                                                                         *)
(* inspect_sqlite_schema is a series of SELECTs and PRAGMAs.  A standalone *)
(* call runs them outside any transaction, so each one reads what is       *)
(* committed at that moment; an external call runs them in its caller's    *)
(* transaction, on one snapshot.  The statements that follow run in one    *)
(* transaction, which a failure or the end of the process rolls back.      *)
(*                                                                         *)
(* The three passkey tables go through every statement together and are    *)
(* one unit here.  External to src/: SQLite (WAL mode, one writer, a       *)
(* snapshot that another commit has overtaken cannot be written from), the *)
(* hosts, and earlier versions of the application that still write rows.   *)
(***************************************************************************)
EXTENDS Naturals, FiniteSets

CONSTANTS
  Processes, \* processes that start up over the database
  Rows,      \* rows of the passkey tables
  Modes,     \* the transaction modes to consider: "standalone", "external"
  None       \* Python's None

ASSUME LifecycleAssumption ==
  /\ Modes \subseteq {"standalone", "external"}
  /\ None \notin Processes

VARIABLES
  db,      \* the committed database
  writer,  \* the process that holds the write lock, or None
  mode,    \* process -> the transaction mode it uses
  proc,    \* process -> what it is doing
  failed,  \* the processes that were interrupted (each at most once, a bound)
  written  \* history: the rows an application committed

vars == <<db, writer, mode, proc, failed, written>>
-----------------------------------------------------------------------------
(***************************************************************************)
(* A database: the passkey tables, the *_v2 tables of a migration, the     *)
(* rows of my_auth_schema, and whether the enrolment table exists.  Byte   *)
(* strings are stored raw in the 0.1 layout and as base64url text later.   *)
(*                                                                         *)
(* hidden is what the inspection of an older layout does not see and no    *)
(* upgrade repairs.  A divergence: other columns of the users or the       *)
(* credentials, no unique user_handle (schema 2), or what IF NOT EXISTS    *)
(* passes over: another enrolment table, the name of an index taken.  An   *)
(* obstacle: one of the last statements of an upgrade fails every time     *)
(* (CREATE INDEX on a name or a column that will not do, orphans found by  *)
(* foreign_key_check).  An enrolment table that an older layout has        *)
(* already is one of these, or makes no difference.                        *)
(***************************************************************************)
Encodings == {"bytes", "text"}

Tables ==
  [columns : {"flow_key", "v2", "v2_kind", "v3", "other"}, indexed : BOOLEAN,
   rows : SUBSET (Rows \X Encodings)]

ASSUME TablesAssumption == None \notin Tables

Database ==
  [passkey : Tables \cup {None}, copy : Tables \cup {None},
   metadata : (SUBSET {2, 3, 4}) \cup {None}, enrollment : BOOLEAN,
   hidden : {"nothing", "divergence", "obstacle"}]

ASSUME DatabaseAssumption ==
  None \notin Database /\ \A versions \in SUBSET {2, 3, 4} : None # versions

Found == {"empty", "canonical_unversioned", "legacy", "legacy_v2", "current",
          "unsupported", "none"}

Steps == {"new", "tables", "columns", "version", "layout", "act", "begin", "again",
          "write", "alter", "check", "rename", "stamp", "commit", "up", "ended"}

(***************************************************************************)
(* A process: the function it is in, its next statement there, whether the *)
(* inspection saw my_auth_schema, what it has concluded (or what it is     *)
(* still comparing the layout with), and its transaction.                  *)
(***************************************************************************)
Process ==
  [call : {"startup", "ensure", "migrate", "migrate_ensure", "migrated"}, step : Steps,
   meta : BOOLEAN, found : Found, view : Database \cup {None}, stale : BOOLEAN]

Off(step) == [call |-> "startup", step |-> step, meta |-> FALSE, found |-> "none",
              view |-> None, stale |-> FALSE]

TypeOK ==
  /\ db \in Database
  /\ writer \in Processes \cup {None}
  /\ mode \in [Processes -> Modes]
  /\ proc \in [Processes -> Process]
  /\ failed \subseteq Processes
  /\ written \subseteq Rows

\* A unit of tables that holds the rows R in one encoding.
Holding(columns, indexed, encoding, R) ==
  [columns |-> columns, indexed |-> indexed, rows |-> R \X {encoding}]

\* The databases a host may start over, with the rows R.
Initial(R) ==
  [passkey : {None} \cup {Holding("flow_key", i, "bytes", R) : i \in BOOLEAN}, copy : {None},
   metadata : {None}, enrollment : {FALSE}, hidden : {"nothing", "divergence", "obstacle"}]
    \cup [passkey : {Holding("v2", i, "text", R) : i \in BOOLEAN}, copy : {None},
          metadata : {{2}}, enrollment : {FALSE}, hidden : {"nothing", "divergence", "obstacle"}]
    \cup [passkey : {Holding("v3", TRUE, "text", R)}, copy : {None},
          metadata : {None, {3}, {4}}, enrollment : BOOLEAN, hidden : {"nothing", "divergence"}]
    \cup [passkey : {Holding("other", TRUE, "text", R)}, copy : {None},
          metadata : {None, {3}}, enrollment : {FALSE}, hidden : {"nothing"}]

Init ==
  /\ written \in SUBSET Rows
  /\ db \in Initial(written)
  /\ db.passkey = None => written = {}
  /\ writer = None
  /\ mode \in [Processes -> Modes]
  /\ proc = [p \in Processes |-> Off("new")]
  /\ failed = {}
-----------------------------------------------------------------------------
(***************************************************************************)
(* inspect_sqlite_schema, statement by statement: what each one concludes  *)
(* from the database v it reads, or which statement comes next.            *)
(***************************************************************************)
AfterTables(v) ==
  IF v.passkey # None THEN "columns"
  ELSE IF v.metadata = None THEN "empty" ELSE "unsupported"

AfterColumns(v, meta) ==
  IF v.passkey.columns = "flow_key"
  THEN IF meta THEN "unsupported" ELSE "legacy"
  ELSE IF meta THEN "version" ELSE "canonical_unversioned"

AfterVersion(v) ==
  IF v.metadata = {3} THEN "current"
  ELSE IF v.metadata = {2} THEN "legacy_v2"
  ELSE "unsupported"

(***************************************************************************)
(* The layout has to be the one of the state looked for.  The comparison   *)
(* with the canonical one is complete, and leaves out the enrolment table  *)
(* only where there is none; that with schema 2 is of the challenges, two  *)
(* indexes and a foreign key.                                              *)
(***************************************************************************)
AfterLayout(v, sought) ==
  IF /\ v.passkey.indexed
     /\ \/ sought = "legacy_v2" /\ v.passkey.columns = "v2"
        \/ /\ sought # "legacy_v2" /\ v.passkey.columns = "v3"
           /\ ~(v.hidden = "divergence" /\ v.enrollment)
  THEN sought
  ELSE "unsupported"

Inspect(v) ==
  LET meta == v.metadata # None
      sought == IF meta THEN AfterVersion(v) ELSE "canonical_unversioned"
  IN CASE AfterTables(v) # "columns" -> AfterTables(v)
       [] AfterTables(v) = "columns" /\ AfterColumns(v, meta) \in {"unsupported", "legacy"} ->
            AfterColumns(v, meta)
       [] OTHER -> IF sought = "unsupported" THEN sought ELSE AfterLayout(v, sought)
-----------------------------------------------------------------------------
(***************************************************************************)
(* SQLite: what a statement of p reads, and how its transaction ends.      *)
(***************************************************************************)
View(p) == IF proc[p].view = None THEN db ELSE proc[p].view

\* The transaction an external caller has open reads one snapshot.
Snapshot(p) == IF mode[p] = "external" THEN View(p) ELSE None

\* A commit by `p` (None: by an application) overtakes all other snapshots.
Overtaken(p) ==
  [q \in Processes |->
     IF q # p /\ proc[q].view # None THEN [proc[q] EXCEPT !.stale = TRUE] ELSE proc[q]]

\* The call raises: whoever began the transaction rolls it back.
Raise(p) ==
  /\ proc' = [proc EXCEPT ![p] = Off("ended")]
  /\ writer' = IF writer = p THEN None ELSE writer
  /\ UNCHANGED db

\* Wrong form of Statement: without BEGIN every statement commits by itself.
StatementAutocommits(p, v, next) ==
  /\ proc' = [proc EXCEPT ![p].view = v, ![p].step = next]
  /\ db' = v
  /\ UNCHANGED writer

\* A statement of p's transaction leaves the database v to the next one.
Statement(p, v, next) ==
  /\ proc' = [proc EXCEPT ![p].view = v, ![p].step = next]
  /\ UNCHANGED <<db, writer>>

\* p goes on to another function, or to another statement, without a write.
Goto(p, call, step) ==
  /\ proc' = [proc EXCEPT ![p].call = call, ![p].step = step]
  /\ UNCHANGED <<db, writer>>

At(p, calls, step) == proc[p].call \in calls /\ proc[p].step = step
-----------------------------------------------------------------------------
(***************************************************************************)
(* The inspection.                                                         *)
(***************************************************************************)
Conclude(p, outcome, nexts, meta) ==
  /\ proc' = [proc EXCEPT ![p].found = IF outcome \in Found THEN outcome ELSE "none",
                          ![p].step = IF outcome \in DOMAIN nexts THEN nexts[outcome]
                                      ELSE "act",
                          ![p].meta = meta,
                          ![p].view = Snapshot(p)]
  /\ UNCHANGED <<db, writer>>

ReadTables(p) ==
  /\ proc[p].step = "tables"
  /\ Conclude(p, AfterTables(View(p)), [columns |-> "columns"], View(p).metadata # None)

ReadColumns(p) ==
  LET meta == proc[p].meta IN
  /\ proc[p].step = "columns"
  /\ Conclude(p, AfterColumns(View(p), meta),
              [version |-> "version", canonical_unversioned |-> "layout"], meta)

ReadVersion(p) ==
  /\ proc[p].step = "version"
  /\ Conclude(p, AfterVersion(View(p)), [current |-> "layout", legacy_v2 |-> "layout"],
              proc[p].meta)

ReadLayout(p) ==
  /\ proc[p].step = "layout"
  /\ Conclude(p, AfterLayout(View(p), proc[p].found), <<>>, proc[p].meta)
-----------------------------------------------------------------------------
(***************************************************************************)
(* What the start-up code and the two functions do with an inspection.     *)
(***************************************************************************)
\* Wrong form of Returned: the caller commits with no transaction open.
ReturnedCommits(p) == Goto(p, proc[p].call, "commit")

\* The caller of an external call commits when it has returned: what it wrote,
\* or a snapshot it only read.
Returned(p) ==
  IF writer = p
  THEN Goto(p, proc[p].call, "commit")
  ELSE /\ proc' = [proc EXCEPT ![p] = Off("up")]
       /\ UNCHANGED <<db, writer>>

\* Wrong form of StartUp: a database without a version is taken as it is.
StartUpTrusts(p) ==
  /\ At(p, {"startup"}, "act")
  /\ CASE proc[p].found \in {"current", "canonical_unversioned"} -> Returned(p)
       [] proc[p].found = "empty" -> Goto(p, "ensure", "tables")
       [] proc[p].found \in {"legacy", "legacy_v2"} -> Goto(p, "migrate", "tables")
       [] OTHER -> Raise(p)

StartUp(p) ==
  /\ At(p, {"startup"}, "act")
  /\ CASE proc[p].found = "current" -> Returned(p)
       [] proc[p].found \in {"empty", "canonical_unversioned"} -> Goto(p, "ensure", "tables")
       [] proc[p].found \in {"legacy", "legacy_v2"} -> Goto(p, "migrate", "tables")
       [] OTHER -> Raise(p)

EnsureSchema(p) ==
  /\ At(p, {"ensure", "migrate_ensure"}, "act")
  /\ IF proc[p].found \in {"empty", "canonical_unversioned", "current"}
     THEN Goto(p, proc[p].call, "begin")
     ELSE Raise(p)

MigrateSchema(p) ==
  /\ At(p, {"migrate"}, "act")
  /\ CASE proc[p].found = "current" -> Returned(p)
       [] proc[p].found \in {"empty", "canonical_unversioned"} ->
            Goto(p, "migrate_ensure", "tables")
       [] proc[p].found \in {"legacy", "legacy_v2"} -> Goto(p, "migrate", "begin")
       [] OTHER -> Raise(p)

\* The inspection that migrate returns.
Migrated(p) ==
  /\ At(p, {"migrated"}, "act")
  /\ Returned(p)

\* Wrong form of Begin: the transaction takes no lock.
BeginUnlocked(p) ==
  /\ proc[p].step = "begin"
  /\ proc' = [proc EXCEPT ![p].view = View(p), ![p].step = "write"]
  /\ UNCHANGED <<db, writer>>

\* Where a call goes on once it has the lock.
AfterBegin(p) ==
  IF mode[p] = "standalone" /\ proc[p].call # "migrate" /\ proc[p].found # "current"
  THEN "again" ELSE "write"

Locked(p) ==
  /\ writer' = p
  /\ proc' = [proc EXCEPT ![p].view = View(p), ![p].step = AfterBegin(p)]
  /\ UNCHANGED db

\* Wrong form of Begin: it does not wait for the lock.
BeginAtOnce(p) ==
  /\ proc[p].step = "begin"
  /\ IF writer # None \/ proc[p].stale THEN Raise(p) ELSE Locked(p)

\* Wrong form of Begin: a stale snapshot waits to be writable again.
BeginPatiently(p) ==
  /\ proc[p].step = "begin"
  /\ writer = None /\ ~proc[p].stale
  /\ Locked(p)

(***************************************************************************)
(* BEGIN IMMEDIATE, or the first write of an external call.  ensure looks  *)
(* again once it has the lock, unless the schema was current; migrate does *)
(* not.                                                                    *)
(***************************************************************************)
Begin(p) ==
  /\ proc[p].step = "begin"
  /\ writer = None
  /\ IF proc[p].stale THEN Raise(p) ELSE Locked(p)

InspectAgain(p) ==
  LET found == Inspect(View(p)) IN
  /\ proc[p].step = "again"
  /\ IF found \in {"empty", "canonical_unversioned", "current"}
     THEN /\ proc' = [proc EXCEPT ![p].found = found, ![p].step = "write"]
          /\ UNCHANGED <<db, writer>>
     ELSE Raise(p)
-----------------------------------------------------------------------------
(***************************************************************************)
(* The statements that write.                                              *)
(***************************************************************************)
Enrolled(v) == [v EXCEPT !.enrollment = TRUE]

\* CREATE TABLE IF NOT EXISTS my_auth_schema, DELETE, INSERT.
Stamped(v) == [v EXCEPT !.metadata = {3}]

Created(v) ==
  IF v.passkey = None THEN [v EXCEPT !.passkey = Holding("v3", TRUE, "text", {})] ELSE v

\* After the last write of a call: a standalone call commits; migrate inspects.
LastWrite(p, v) ==
  IF mode[p] = "external" /\ proc[p].call # "ensure"
  THEN /\ proc' = [proc EXCEPT ![p].view = v, ![p].call = "migrated", ![p].step = "tables"]
       /\ UNCHANGED <<db, writer>>
  ELSE Statement(p, v, "commit")

EnsureWrites(p) ==
  /\ At(p, {"ensure", "migrate_ensure"}, "write")
  /\ IF View(p).hidden = "obstacle"
     THEN Raise(p)
     ELSE LastWrite(p, IF proc[p].found = "current" THEN Enrolled(View(p))
                       ELSE Stamped(Enrolled(Created(View(p)))))

\* Schema 2: two ALTER TABLEs, which fail when the columns are there already.
AddRegistrationKind(p) ==
  LET v == View(p) IN
  /\ At(p, {"migrate"}, "write") /\ proc[p].found = "legacy_v2"
  /\ IF v.passkey.columns = "v2"
     THEN Statement(p, [v EXCEPT !.passkey.columns = "v2_kind"], "alter")
     ELSE Raise(p)

AddCapabilityId(p) ==
  LET v == View(p) IN
  /\ At(p, {"migrate"}, "alter")
  /\ IF v.hidden = "obstacle"
     THEN Raise(p)
     ELSE LastWrite(p, Stamped(Enrolled([v EXCEPT !.passkey.columns = "v3"])))

\* _b64: byte strings become text, text stays.
Encoded(rows) == {<<row[1], "text">> : row \in rows}

\* The 0.1 layout: the *_v2 tables are created and filled.
CopyRows(p) ==
  LET v == View(p) IN
  /\ At(p, {"migrate"}, "write") /\ proc[p].found = "legacy"
  /\ IF v.copy = None /\ v.passkey.columns = "flow_key"
     THEN Statement(p, [v EXCEPT !.copy = [columns |-> "v3", indexed |-> FALSE,
                                           rows |-> Encoded(v.passkey.rows)]], "check")
     ELSE Raise(p)

\* The row counts must agree; then the old tables are dropped.
DropTables(p) ==
  LET v == View(p) IN
  /\ At(p, {"migrate"}, "check")
  /\ IF Cardinality(v.copy.rows) = Cardinality(v.passkey.rows)
     THEN Statement(p, [v EXCEPT !.passkey = None], "rename")
     ELSE Raise(p)

RenameTables(p) ==
  LET v == View(p) IN
  /\ At(p, {"migrate"}, "rename")
  /\ Statement(p, [v EXCEPT !.passkey = v.copy, !.copy = None], "stamp")

\* The indexes, CREATE TABLE my_auth_schema, its row, the enrolment table and
\* foreign_key_check.
CreateMetadata(p) ==
  LET v == View(p) IN
  /\ At(p, {"migrate"}, "stamp")
  /\ IF v.metadata = None /\ v.hidden # "obstacle"
     THEN LastWrite(p, Stamped(Enrolled([v EXCEPT !.passkey.indexed = TRUE])))
     ELSE Raise(p)

Commit(p) ==
  /\ proc[p].step = "commit"
  /\ db' = proc[p].view
  /\ writer' = None
  /\ proc' = [Overtaken(p) EXCEPT ![p] =
       IF mode[p] = "standalone" /\ proc[p].call # "ensure"
       THEN [Off("tables") EXCEPT !.call = "migrated"]
       ELSE Off("up")]
-----------------------------------------------------------------------------
Launch(p) ==
  /\ proc[p].step = "new"
  /\ Goto(p, "startup", "tables")
  /\ UNCHANGED <<mode, failed, written>>

Relaunch(p) ==
  /\ proc[p].step = "ended"
  /\ Goto(p, "startup", "tables")
  /\ UNCHANGED <<mode, failed, written>>

Stop(p) ==
  /\ proc[p].step = "up"
  /\ Goto(p, "startup", "ended")
  /\ UNCHANGED <<mode, failed, written>>

\* The process dies, a statement fails, or the wait for the lock times out.
Interrupt(p) ==
  /\ proc[p].step \notin {"new", "up", "ended"} /\ p \notin failed
  /\ Raise(p)
  /\ failed' = failed \cup {p}
  /\ UNCHANGED <<mode, written>>

\* Every step of start-up once the process was launched.
Work(p) ==
  /\ \/ ReadTables(p) \/ ReadColumns(p) \/ ReadVersion(p) \/ ReadLayout(p)
     \/ StartUp(p) \/ EnsureSchema(p) \/ MigrateSchema(p) \/ Migrated(p)
     \/ Begin(p) \/ InspectAgain(p)
     \/ EnsureWrites(p)
     \/ AddRegistrationKind(p) \/ AddCapabilityId(p)
     \/ CopyRows(p) \/ DropTables(p) \/ RenameTables(p) \/ CreateMetadata(p)
     \/ Commit(p)
  /\ UNCHANGED <<mode, failed, written>>

\* A row is committed, encoded the way its tables hold it.
Insert(row, encoding) ==
  /\ writer = None /\ row \notin written
  /\ db' = [db EXCEPT !.passkey.rows = @ \cup {<<row, encoding>>}]
  /\ written' = written \cup {row}
  /\ proc' = Overtaken(None)
  /\ UNCHANGED <<writer, mode, failed>>

\* An earlier version of the application is still running on its own layout.
EarlierVersionWrites(row) ==
  \/ Inspect(db) = "legacy" /\ Insert(row, "bytes")
  \/ Inspect(db) \in {"legacy_v2", "canonical_unversioned"} /\ Insert(row, "text")

\* A store of a process that started up: its constructor inspects the schema.
StoreWrites(p, row) ==
  /\ proc[p].step = "up"
  /\ Inspect(db) = "current"
  /\ Insert(row, "text")

Next ==
  \/ \E p \in Processes :
       \/ Launch(p) \/ Relaunch(p) \/ Stop(p) \/ Interrupt(p) \/ Work(p)
       \/ \E row \in Rows : StoreWrites(p, row)
  \/ \E row \in Rows : EarlierVersionWrites(row)

(***************************************************************************)
(* A process is started and, being ordinary straight-line code, goes on    *)
(* with its next statement; it waits only for a lock.  Whether a process   *)
(* that raised is started again is the host's affair.                      *)
(***************************************************************************)
Fairness == \A p \in Processes : WF_vars(Launch(p)) /\ WF_vars(Work(p))

Spec == Init /\ [][Next]_vars /\ Fairness
-----------------------------------------------------------------------------
(***************************************************************************)
(* No row is lost or doubled, and none is encoded twice or not at all: not *)
(* by a migration that runs while an earlier version still writes, nor by  *)
(* two that race, nor by one that dies between the drops and the renames.  *)
(***************************************************************************)
RowsKept ==
  LET rows == IF db.passkey = None THEN {} ELSE db.passkey.rows
      encoding == IF db.passkey # None /\ db.passkey.columns = "flow_key" THEN "bytes" ELSE "text"
  IN rows = written \X {encoding}

(***************************************************************************)
(* "Migrates atomically and rolls back on failure; unsupported layouts are *)
(* refused": whatever dies at whatever statement, an unsupported database  *)
(* is never written to, no commit leaves tables of a migration behind, and *)
(* one that always fails leaves the layout as it was.  A commit makes a    *)
(* database unsupported only if that hides a divergence, which an upgrade  *)
(* does not look for.                                                      *)
(***************************************************************************)
NoHalfMigration ==
  [][IF Inspect(db) = "unsupported"
     THEN db' = db
     ELSE /\ db'.copy = None
          /\ Inspect(db') = "unsupported" => db.hidden = "divergence"
          /\ db.hidden = "obstacle" => Inspect(db') = Inspect(db)]_vars

\* What an upgrade can make of a database: version 3, and current unless it
\* hides a divergence.
FullyUpgraded(v) ==
  Inspect(v) = "current" \/ (v.hidden = "divergence" /\ v.metadata = {3})

(***************************************************************************)
(* What start-up was told stays true: as long as a process is up the       *)
(* database is current (or hides a divergence and has version 3), whatever *)
(* process created or migrated it and whatever the ones that start later   *)
(* do; and the inspection that migrate returns says that it is current, or *)
(* that it is not, which the start-up does not look at.                    *)
(***************************************************************************)
UpMeansUpgraded ==
  \A p \in Processes :
    /\ proc[p].step = "up" => FullyUpgraded(db)
    /\ At(p, {"migrated"}, "act") =>
         IF View(p).hidden = "divergence" THEN proc[p].found = "unsupported"
         ELSE proc[p].found = "current"

(***************************************************************************)
(* Racing start-ups do not defeat each other: if one standalone process is *)
(* never interrupted, the database is upgraded for good, whatever the      *)
(* others do, also when this process itself raises because another one has *)
(* changed the schema between its statements; unless there is an obstacle, *)
(* on which every upgrade fails.                                           *)
(***************************************************************************)
Upgraded ==
  Inspect(db) # "unsupported" /\ db.hidden # "obstacle" =>
    \A p \in Processes :
      mode[p] = "standalone" /\ [](p \notin failed) => <>[]FullyUpgraded(db)

(***************************************************************************)
(* Every start-up ends: no process waits for ever for a lock, in whatever  *)
(* transactions the others were interrupted; unless there is an obstacle   *)
(* and the host starts what failed on it again and again.                  *)
(***************************************************************************)
StartUpsEnd ==
  \/ db.hidden = "obstacle" /\ []<><<\E p \in Processes : Relaunch(p)>>_vars
  \/ \A p \in Processes : proc[p].step = "begin" ~> proc[p].step \in {"up", "ended"}
=============================================================================
