------------------------ MODULE SchemaLifecycleProofs ------------------------
(***************************************************************************)
(* Proofs about SchemaLifecycle, for any number of processes and rows.     *)
(*                                                                         *)
(* The committed database has one of a few layouts, and holds the written  *)
(* rows in that layout's encoding (DatabaseOK).  What a process works on   *)
(* is the database itself, an overtaken snapshot that can only be read, or *)
(* the lock holder's uncommitted version, which is described statement by  *)
(* statement (Pending).  What an inspection has concluded so far holds of  *)
(* every later database when it reads the database (Known), and is what    *)
(* Inspect says when it reads one snapshot (Exact).                        *)
(***************************************************************************)
EXTENDS SchemaLifecycle, TLAPS

Supported == {"empty", "canonical_unversioned", "current"}

Reads == {"tables", "columns", "version", "layout", "act"}

LockSteps == {"again", "write", "alter", "check", "rename", "stamp", "commit"}

\* The tables t exist with these columns, and hold the rows R in one encoding.
Holds(t, columns, encoding, R) ==
  t # None /\ t.columns = columns /\ t.rows = R \X {encoding}

\* A committed database that holds the rows R.
Sound(v, R) ==
  /\ v.copy = None
  /\ \/ v.passkey = None /\ v.metadata = None /\ R = {}
     \/ Holds(v.passkey, "flow_key", "bytes", R) /\ v.metadata = None
     \/ Holds(v.passkey, "v2", "text", R) /\ v.metadata = {2}
     \/ /\ Holds(v.passkey, "v3", "text", R) /\ v.passkey.indexed
        /\ v.metadata \in {None, {3}, {4}}
     \/ /\ Holds(v.passkey, "other", "text", R) /\ v.passkey.indexed
        /\ v.metadata \in {None, {3}}

\* What an upgrade makes of a database; a divergence stays where it was.
Complete(v) ==
  v.passkey # None /\ v.passkey.columns = "v3" /\ v.passkey.indexed /\ v.metadata = {3}

\* What the comparison of a canonical layout finds fault with.
Divergent(v) == v.hidden = "divergence" /\ v.enrollment

\* What a process r that holds the lock has made of the database, the rows R.
Pending(r, v, R) ==
  /\ r.step = "alter" =>
       /\ Holds(v.passkey, "v2_kind", "text", R) /\ v.passkey.indexed
       /\ v.copy = None
  /\ r.step = "check" =>
       /\ Holds(v.passkey, "flow_key", "bytes", R) /\ v.metadata = None
       /\ Holds(v.copy, "v3", "text", R)
  /\ r.step = "rename" =>
       v.passkey = None /\ v.metadata = None /\ Holds(v.copy, "v3", "text", R)
  /\ r.step = "stamp" =>
       v.copy = None /\ v.metadata = None /\ Holds(v.passkey, "v3", "text", R)
  /\ r.step = "commit" \/ r.call = "migrated" =>
       Sound(v, R) /\ Complete(v) /\ v.enrollment /\ v.hidden # "obstacle"

\* What an inspection has learned that every later database agrees with.
Known(r, v) ==
  /\ r.step \in {"columns", "version", "layout"} => v.passkey # None
  /\ r.step = "columns" /\ r.meta => v.metadata # None
  /\ r.step = "version" => v.metadata # None
  /\ r.step = "layout" =>
       /\ r.found \in {"canonical_unversioned", "legacy_v2", "current"}
       /\ r.found = "current" => v.metadata = {3}
  /\ r.step \in {"act", "begin"} /\ r.found = "current" => Complete(v)
  /\ r.step \in {"act", "begin", "write"} /\ r.found \in {"legacy", "legacy_v2"} =>
       v.passkey # None
  /\ r.step \in {"act", "begin", "write"} /\ r.found = "legacy_v2" =>
       (v.passkey.columns = "v2" => v.passkey.indexed)

\* An inspection of the one snapshot v concludes what Inspect does.
Exact(r, v) ==
  /\ r.step = "columns" => (r.meta <=> v.metadata # None)
  /\ r.step \in {"version", "layout"} =>
       v.passkey.columns # "flow_key" /\ (r.meta <=> v.metadata # None)
  /\ r.step = "version" => r.meta
  /\ r.step = "layout" =>
       r.found = IF r.meta THEN AfterVersion(v) ELSE "canonical_unversioned"
  /\ r.step \in {"act", "begin"} => r.found = Inspect(v)

\* What ensure and migrate act on.
Acting(r, v) ==
  /\ r.step = "begin" /\ r.call \in {"ensure", "migrate_ensure"} => r.found \in Supported
  /\ r.step = "write" /\ r.call \in {"ensure", "migrate_ensure"} =>
       /\ r.found \in Supported
       /\ IF r.found = "current" THEN Complete(v) ELSE r.found = Inspect(v)
  /\ r.call = "migrated" =>
       /\ Complete(v) /\ v.enrollment /\ r.step \in Reads \cup {"commit"}
       /\ r.step \in {"columns", "version"} => r.meta
       /\ r.step = "layout" => r.found = "current"
       /\ r.step = "act" =>
            r.found = IF v.hidden = "divergence" THEN "unsupported" ELSE "current"

\* Whose view is which database.
Viewing(p, r) ==
  /\ r.step \in LockSteps => writer = p
  /\ r.step \in {"new", "up", "ended"} => r = Off(r.step)
  /\ writer = p =>
       /\ r.view # None /\ ~r.stale
       /\ \/ r.step \in LockSteps
          \/ r.call = "migrated" /\ mode[p] = "external" /\ r.step \in Reads
  /\ writer # p /\ r.view # None =>
       /\ mode[p] = "external"
       /\ ~r.stale => r.view = db
       /\ Complete(r.view) => Complete(db)
  /\ mode[p] = "external" /\ r.step \in (Reads \ {"tables"}) \cup {"begin"} => r.view # None

\* A version w that the process r may commit over the database: an unsupported
\* one stays as it is.
MayReplace(r, w) ==
  /\ w.hidden = db.hidden
  /\ \/ Inspect(db) # "unsupported"
     \/ w = db /\ (r.step = "commit" \/ r.call = "migrated")

\* The lock holder's version, next to the database it started from.
HolderOK(p, r) ==
  writer = p =>
    IF r.step \in {"again", "write"}
    THEN r.view = db
    ELSE MayReplace(r, r.view) /\ Pending(r, r.view, written)

ProcessOK(p) ==
  /\ Viewing(p, proc[p]) /\ HolderOK(p, proc[p])
  /\ Known(proc[p], View(p))
  /\ proc[p].view # None => Exact(proc[p], View(p))
  /\ Acting(proc[p], View(p))
  /\ proc[p].step = "up" => Complete(db)

IInv ==
  /\ TypeOK
  /\ Sound(db, written)
  /\ \A p \in Processes : ProcessOK(p)
-----------------------------------------------------------------------------
(***************************************************************************)
(* What the inspection says of a database.                                 *)
(***************************************************************************)
\* The versions and None are different values.
LEMMA Versions == {2} # {3} /\ {3} # {4} /\ {2} # {4} /\ None \notin {{2}, {3}, {4}}
<1>1. {2} \in SUBSET {2, 3, 4} /\ {3} \in SUBSET {2, 3, 4} /\ {4} \in SUBSET {2, 3, 4}
  OBVIOUS
<1>2. 2 \in {2} /\ 2 \notin {3} /\ 3 \in {3} /\ 3 \notin {4} /\ 2 \notin {4}
  OBVIOUS
<1> QED
  BY <1>1, <1>2, DatabaseAssumption

\* What each outcome of inspect says of the database it read.
LEMMA InspectFacts ==
  ASSUME NEW v \in Database
  PROVE  /\ Inspect(v) \in Found
         /\ Inspect(v) = "current" <=> Complete(v) /\ ~Divergent(v)
         /\ Inspect(v) = "empty" <=> v.passkey = None /\ v.metadata = None
         /\ Inspect(v) = "canonical_unversioned" <=>
              /\ v.passkey # None /\ v.passkey.columns = "v3" /\ v.passkey.indexed
              /\ v.metadata = None /\ ~Divergent(v)
         /\ v.passkey # None /\ v.passkey.columns = "flow_key" /\ v.metadata = None =>
              Inspect(v) = "legacy"
         /\ /\ v.passkey # None /\ v.passkey.columns = "v2" /\ v.passkey.indexed
            /\ v.metadata = {2}
            => Inspect(v) = "legacy_v2"
BY Versions
DEF Inspect, AfterTables, AfterColumns, AfterVersion, AfterLayout, Complete, Divergent, Found

\* What is true of every committed database.
LEMMA SoundFacts ==
  ASSUME NEW v \in Database, NEW R, Sound(v, R)
  PROVE  /\ v.copy = None
         /\ v.passkey # None /\ v.passkey.columns = "flow_key" =>
              Holds(v.passkey, "flow_key", "bytes", R) /\ v.metadata = None
         /\ v.passkey # None /\ v.passkey.columns = "v2" =>
              Holds(v.passkey, "v2", "text", R) /\ v.metadata = {2}
         /\ v.passkey # None /\ v.passkey.columns = "v3" =>
              Holds(v.passkey, "v3", "text", R) /\ v.passkey.indexed
BY DEF Sound, Holds

\* Inspect, by the statement that decides.
LEMMA InspectSteps ==
  ASSUME NEW v \in Database
  PROVE  /\ v.passkey = None => Inspect(v) = AfterTables(v)
         /\ v.passkey # None /\ v.passkey.columns = "flow_key" =>
              Inspect(v) = IF v.metadata # None THEN "unsupported" ELSE "legacy"
         /\ v.passkey # None /\ v.passkey.columns # "flow_key" =>
              IF v.metadata = None
              THEN Inspect(v) = AfterLayout(v, "canonical_unversioned")
              ELSE IF AfterVersion(v) = "unsupported"
              THEN Inspect(v) = "unsupported"
              ELSE Inspect(v) = AfterLayout(v, AfterVersion(v))
BY DEF Inspect, AfterTables, AfterColumns, AfterVersion, AfterLayout
-----------------------------------------------------------------------------
(***************************************************************************)
(* Steps of one process.                                                   *)
(***************************************************************************)
\* A process and the database it reads.
LEMMA ViewFacts ==
  ASSUME IInv, NEW p \in Processes
  PROVE  /\ proc[p] \in Process /\ View(p) \in Database
         /\ mode[p] \in {"standalone", "external"}
         /\ writer = p => View(p) = proc[p].view
         /\ writer # p /\ mode[p] # "external" => proc[p].view = None /\ View(p) = db
         /\ ProcessOK(p) /\ p # None
BY LifecycleAssumption, DatabaseAssumption
DEF IInv, TypeOK, View, Process, ProcessOK, Viewing

\* A step of p that leaves the database alone matters to p only.
LEMMA StepInv ==
  ASSUME IInv, NEW p \in Processes,
         UNCHANGED <<db, mode, written>>, failed' \subseteq Processes,
         proc' \in [Processes -> Process],
         \A q \in Processes : q # p => proc'[q] = proc[q],
         writer' \in Processes \cup {None},
         \A q \in Processes : q # p => (writer' = q <=> writer = q),
         ProcessOK(p)'
  PROVE  IInv'
<1>1. ASSUME NEW q \in Processes, q # p PROVE ProcessOK(q)'
  <2>1. ProcessOK(q) /\ proc'[q] = proc[q] /\ (writer' = q <=> writer = q)
    BY <1>1 DEF IInv
  <2>2. View(q)' = View(q)
    BY <2>1 DEF View
  <2>3. Viewing(q, proc[q])' /\ HolderOK(q, proc[q])'
    BY <2>1 DEF ProcessOK, Viewing, HolderOK, MayReplace
  <2> QED
    BY <2>1, <2>2, <2>3 DEF ProcessOK
<1>2. TypeOK'
  BY DEF IInv, TypeOK
<1> QED
  BY <1>1, <1>2 DEF IInv

\* A call that raises leaves nothing behind.
LEMMA RaiseInv ==
  ASSUME IInv, NEW p \in Processes, Raise(p), UNCHANGED <<mode, written>>,
         failed' \subseteq Processes
  PROVE  IInv'
<1>1. PICK off \in Process : off = Off("ended")
  BY DEF Off, Process, Steps, Found
<1>2. /\ off.step = "ended" /\ off.call = "startup" /\ off.found = "none"
      /\ off.view = None /\ off = Off(off.step)
  BY <1>1 DEF Off
<1>3. /\ proc' = [proc EXCEPT ![p] = off] /\ db' = db
      /\ writer' = IF writer = p THEN None ELSE writer
  BY <1>1 DEF Raise
<1>4. /\ proc' \in [Processes -> Process] /\ proc'[p] = off
      /\ \A q \in Processes : q # p => proc'[q] = proc[q]
  BY <1>3 DEF IInv, TypeOK
<1>5. writer' # p /\ writer' \in Processes \cup {None}
  BY <1>3, LifecycleAssumption DEF IInv, TypeOK
<1>6. ProcessOK(p)'
  BY <1>2, <1>4, <1>5
  DEF ProcessOK, Viewing, HolderOK, Known, Exact, Acting, LockSteps, Reads
<1> QED
  BY <1>3, <1>4, <1>5, <1>6, LifecycleAssumption, StepInv

\* A statement of an inspection keeps the snapshot of an external call.
LEMMA ReadInv ==
  ASSUME IInv, NEW p \in Processes, UNCHANGED <<db, writer, mode, failed, written>>,
         NEW r \in Process, proc' = [proc EXCEPT ![p] = r],
         proc[p].step \in Reads, r.step \in Reads \ {"tables"},
         r.call = proc[p].call, r.stale = proc[p].stale, r.view = Snapshot(p),
         Known(r, View(p)), Acting(r, View(p)),
         mode[p] = "external" => Exact(r, View(p))
  PROVE  IInv'
<1>1. /\ proc' \in [Processes -> Process] /\ proc'[p] = r
      /\ \A q \in Processes : q # p => proc'[q] = proc[q]
  BY DEF IInv, TypeOK
<1>2. proc[p].step \notin LockSteps /\ r.step \notin LockSteps /\ r.step \in Reads
  BY DEF Reads, LockSteps
<1>3. writer = p => mode[p] = "external" /\ proc[p].call = "migrated"
  BY <1>2, ViewFacts DEF ProcessOK, Viewing
<1>4. r.view # None => mode[p] = "external" /\ r.view = View(p)
  BY DEF Snapshot
<1>5. mode[p] = "external" => r.view # None /\ r.view = View(p)
  BY ViewFacts, DatabaseAssumption DEF Snapshot
<1>6. View(p)' = View(p)
  BY <1>1, <1>3, <1>4, <1>5, ViewFacts DEF View
<1>7. Viewing(p, proc[p])'
  <2>1. proc[p].view = None => View(p) = db
    BY DEF View
  <2>2. proc[p].view # None => View(p) = proc[p].view
    BY DEF View
  <2>3. Viewing(p, proc[p])
    BY ViewFacts DEF ProcessOK
  <2> QED
    BY <1>1, <1>2, <1>3, <1>4, <1>5, <2>1, <2>2, <2>3 DEF Viewing, Reads
<1>8. HolderOK(p, proc[p])'
  <2>1. HolderOK(p, proc[p])
    BY ViewFacts DEF ProcessOK
  <2> QED
    BY <1>1, <1>3, <1>5, <1>2, <2>1, ViewFacts
    DEF HolderOK, MayReplace, Pending, Reads, LockSteps
<1>9. ProcessOK(p)'
  BY <1>1, <1>4, <1>6, <1>7, <1>8 DEF ProcessOK, Reads
<1> QED
  BY <1>1, <1>9, StepInv DEF IInv, TypeOK

\* The SELECT over sqlite_master keeps the invariant.
LEMMA ReadTablesInv ==
  ASSUME IInv, NEW p \in Processes, ReadTables(p), UNCHANGED <<mode, failed, written>>
  PROVE  IInv'
<1> DEFINE V == View(p)
<1>1. /\ V \in Database /\ proc[p] \in Process /\ proc[p].step = "tables"
      /\ Acting(proc[p], V)
  BY ViewFacts DEF ProcessOK, ReadTables
<1>2. PICK r : r = proc'[p]
  OBVIOUS
<1>3. Snapshot(p) \in Database \cup {None}
  BY <1>1 DEF Snapshot
<1>4. /\ r \in Process /\ proc' = [proc EXCEPT ![p] = r]
      /\ r.call = proc[p].call /\ r.stale = proc[p].stale /\ r.view = Snapshot(p)
      /\ r.meta <=> V.metadata # None
      /\ V.passkey # None => r.step = "columns" /\ r.found = "none"
      /\ V.passkey = None => r.step = "act" /\ r.found = AfterTables(V)
  BY <1>1, <1>2, <1>3
  DEF ReadTables, Conclude, AfterTables, Process, Found, Steps, IInv, TypeOK
<1>5. AfterTables(V) \in {"columns", "empty", "unsupported"}
  BY DEF AfterTables
<1>6. Known(r, V) /\ Exact(r, V)
  BY <1>1, <1>4, <1>5, InspectSteps DEF Known, Exact
<1>7. Acting(r, V)
  BY <1>1, <1>4, <1>5, Versions DEF Acting, Complete, Reads
<1> QED
  BY <1>4, <1>6, <1>7, ReadInv DEF ReadTables, Conclude, Reads

\* The PRAGMA that tells the 0.1 layout from the later ones keeps it.
LEMMA ReadColumnsInv ==
  ASSUME IInv, NEW p \in Processes, ReadColumns(p), UNCHANGED <<mode, failed, written>>
  PROVE  IInv'
<1> DEFINE V == View(p)
<1>1. /\ V \in Database /\ proc[p] \in Process /\ proc[p].step = "columns"
      /\ Known(proc[p], V) /\ Acting(proc[p], V)
      /\ mode[p] = "external" => Exact(proc[p], V)
  BY ViewFacts DEF ProcessOK, ReadColumns, Viewing, Reads
<1>2. PICK r : r = proc'[p]
  OBVIOUS
<1>3. Snapshot(p) \in Database \cup {None}
  BY <1>1 DEF Snapshot
<1>4. /\ r \in Process /\ proc' = [proc EXCEPT ![p] = r]
      /\ r.call = proc[p].call /\ r.stale = proc[p].stale /\ r.view = Snapshot(p)
      /\ r.meta = proc[p].meta
      /\ V.passkey.columns = "flow_key" =>
           r.step = "act" /\ r.found = IF proc[p].meta THEN "unsupported" ELSE "legacy"
      /\ V.passkey.columns # "flow_key" =>
           IF proc[p].meta THEN r.step = "version" /\ r.found = "none"
           ELSE r.step = "layout" /\ r.found = "canonical_unversioned"
  BY <1>1, <1>2, <1>3
  DEF ReadColumns, Conclude, AfterColumns, Process, Found, Steps, IInv, TypeOK
<1>5. Known(r, V) /\ (mode[p] = "external" => Exact(r, V))
  BY <1>1, <1>4, InspectSteps DEF Known, Exact
<1>6. Acting(r, V)
  BY <1>1, <1>4 DEF Acting, Complete, Reads
<1> QED
  BY <1>4, <1>5, <1>6, ReadInv DEF ReadColumns, Conclude, Reads

\* Reading the version keeps it.
LEMMA ReadVersionInv ==
  ASSUME IInv, NEW p \in Processes, ReadVersion(p), UNCHANGED <<mode, failed, written>>
  PROVE  IInv'
<1> DEFINE V == View(p)
<1>1. /\ V \in Database /\ proc[p] \in Process /\ proc[p].step = "version"
      /\ Known(proc[p], V) /\ Acting(proc[p], V)
      /\ mode[p] = "external" => Exact(proc[p], V)
  BY ViewFacts DEF ProcessOK, ReadVersion, Viewing, Reads
<1>2. PICK r : r = proc'[p]
  OBVIOUS
<1>3. Snapshot(p) \in Database \cup {None}
  BY <1>1 DEF Snapshot
<1>4. AfterVersion(V) \in {"current", "legacy_v2", "unsupported"}
  BY DEF AfterVersion
<1>5. /\ r \in Process /\ proc' = [proc EXCEPT ![p] = r]
      /\ r.call = proc[p].call /\ r.stale = proc[p].stale /\ r.view = Snapshot(p)
      /\ r.meta = proc[p].meta /\ r.found = AfterVersion(V)
      /\ r.step = IF AfterVersion(V) = "unsupported" THEN "act" ELSE "layout"
  BY <1>1, <1>2, <1>3, <1>4
  DEF ReadVersion, Conclude, Process, Found, Steps, IInv, TypeOK
<1>6. Known(r, V) /\ (mode[p] = "external" => Exact(r, V))
  BY <1>1, <1>4, <1>5, InspectSteps DEF Known, Exact, AfterVersion
<1>7. Acting(r, V)
  BY <1>1, <1>4, <1>5 DEF Acting, Complete, Reads, AfterVersion
<1> QED
  BY <1>4, <1>5, <1>6, <1>7, ReadInv DEF ReadVersion, Conclude, Reads

\* Comparing the layout keeps it: a layout found current is current by now,
\* although the version was read earlier.
LEMMA ReadLayoutInv ==
  ASSUME IInv, NEW p \in Processes, ReadLayout(p), UNCHANGED <<mode, failed, written>>
  PROVE  IInv'
<1> DEFINE V == View(p)
<1>1. /\ V \in Database /\ proc[p] \in Process /\ proc[p].step = "layout"
      /\ Known(proc[p], V) /\ Acting(proc[p], V)
      /\ mode[p] = "external" => Exact(proc[p], V)
  BY ViewFacts DEF ProcessOK, ReadLayout, Viewing, Reads
<1>2. PICK r : r = proc'[p]
  OBVIOUS
<1>3. Snapshot(p) \in Database \cup {None}
  BY <1>1 DEF Snapshot
<1>4. /\ AfterLayout(V, proc[p].found) \in Found
      /\ AfterLayout(V, proc[p].found) = "current" => Complete(V)
      /\ AfterLayout(V, proc[p].found) = "legacy_v2" => V.passkey.indexed
      /\ Complete(V) /\ V.enrollment /\ proc[p].found = "current" =>
           AfterLayout(V, proc[p].found) =
             IF V.hidden = "divergence" THEN "unsupported" ELSE "current"
  BY <1>1 DEF AfterLayout, Known, Found, Complete
<1>5. /\ r \in Process /\ proc' = [proc EXCEPT ![p] = r]
      /\ r.call = proc[p].call /\ r.stale = proc[p].stale /\ r.view = Snapshot(p)
      /\ r.meta = proc[p].meta /\ r.found = AfterLayout(V, proc[p].found)
      /\ r.step = "act"
  BY <1>1, <1>2, <1>3, <1>4
  DEF ReadLayout, Conclude, Process, Found, Steps, IInv, TypeOK
<1>6. Known(r, V)
  BY <1>1, <1>4, <1>5 DEF Known
<1>7. mode[p] = "external" => Exact(r, V)
  BY <1>1, <1>5, InspectSteps DEF Known, Exact
<1>8. Acting(r, V)
  BY <1>1, <1>4, <1>5 DEF Acting, Reads
<1> QED
  BY <1>5, <1>6, <1>7, <1>8, ReadInv DEF ReadLayout, Conclude, Reads

\* A process that holds no lock turns to another function, or to a write.
LEMMA GotoInv ==
  ASSUME IInv, NEW p \in Processes, NEW call, NEW step, Goto(p, call, step),
         UNCHANGED <<mode, failed, written>>, writer # p,
         \/ /\ proc[p].step \in {"new", "ended", "act"} /\ step = "tables"
            /\ call \in {"startup", "ensure", "migrate", "migrate_ensure"}
         \/ /\ proc[p].step = "act" /\ step = "begin" /\ call # "migrated"
            /\ call = proc[p].call
            /\ call \in {"ensure", "migrate_ensure"} => proc[p].found \in Supported
  PROVE  IInv'
<1>1. /\ proc[p] \in Process /\ View(p) \in Database
      /\ Viewing(p, proc[p]) /\ Known(proc[p], View(p))
      /\ proc[p].view # None => Exact(proc[p], View(p))
  BY ViewFacts DEF ProcessOK
<1>2. PICK r : r = proc'[p]
  OBVIOUS
<1>3. /\ r \in Process /\ proc' \in [Processes -> Process]
      /\ \A q \in Processes : q # p => proc'[q] = proc[q]
      /\ r.call = call /\ r.step = step /\ r.meta = proc[p].meta
      /\ r.found = proc[p].found /\ r.view = proc[p].view /\ r.stale = proc[p].stale
  BY <1>1, <1>2 DEF Goto, Process, Steps, IInv, TypeOK
<1>4. db' = db /\ writer' = writer /\ View(p)' = View(p)
  BY <1>2, <1>3 DEF Goto, View
<1>5. Viewing(p, r)'
  BY <1>1, <1>3, <1>4 DEF Viewing, LockSteps, Reads
<1>6. Known(r, View(p)) /\ (r.view # None => Exact(r, View(p)))
  BY <1>1, <1>3 DEF Known, Exact
<1>7. Acting(r, View(p))
  BY <1>3 DEF Acting
<1>8. ProcessOK(p)'
  BY <1>2, <1>3, <1>4, <1>5, <1>6, <1>7 DEF ProcessOK, HolderOK
<1> QED
  BY <1>3, <1>4, <1>8, StepInv DEF IInv, TypeOK

\* A call that returns has found, or made, the database complete.
LEMMA ReturnedInv ==
  ASSUME IInv, NEW p \in Processes, Returned(p), UNCHANGED <<mode, failed, written>>,
         proc[p].step = "act", proc[p].found = "current" \/ proc[p].call = "migrated"
  PROVE  IInv'
<1>1. /\ proc[p] \in Process /\ View(p) \in Database
      /\ Viewing(p, proc[p]) /\ HolderOK(p, proc[p])
      /\ Known(proc[p], View(p)) /\ Acting(proc[p], View(p))
      /\ writer = p => View(p) = proc[p].view
  BY ViewFacts DEF ProcessOK
<1>2. PICK r : r = proc'[p]
  OBVIOUS
<1>3. CASE writer = p
  <2>1. /\ r \in Process /\ proc' \in [Processes -> Process]
        /\ \A q \in Processes : q # p => proc'[q] = proc[q]
        /\ r.call = proc[p].call /\ r.step = "commit" /\ r.meta = proc[p].meta
        /\ r.found = proc[p].found /\ r.view = proc[p].view /\ r.stale = proc[p].stale
        /\ db' = db /\ writer' = writer
    BY <1>1, <1>2, <1>3 DEF Returned, Goto, Process, Steps, IInv, TypeOK
  <2>2. View(p)' = View(p) /\ proc[p].call = "migrated" /\ r.view # None
    BY <1>1, <1>2, <1>3, <2>1 DEF View, Viewing, LockSteps
  <2>3. Viewing(p, r)'
    BY <1>1, <1>3, <2>1, <2>2 DEF Viewing, LockSteps, Reads
  <2>4. HolderOK(p, r)'
    BY <1>1, <1>3, <2>1, <2>2 DEF HolderOK, MayReplace, Pending
  <2>5. Known(r, View(p)) /\ Exact(r, View(p)) /\ Acting(r, View(p))
    BY <1>1, <2>1, <2>2 DEF Known, Exact, Acting, Reads
  <2>6. ProcessOK(p)'
    BY <1>2, <2>1, <2>2, <2>3, <2>4, <2>5 DEF ProcessOK
  <2> QED
    BY <2>1, <2>6, StepInv DEF IInv, TypeOK
<1>4. CASE writer # p
  <2>1. PICK up \in Process : up = Off("up")
    BY DEF Off, Process, Steps, Found
  <2>2. /\ up.step = "up" /\ up.call = "startup" /\ up.found = "none"
        /\ up.view = None /\ up = Off(up.step)
    BY <2>1 DEF Off
  <2>3. /\ proc' \in [Processes -> Process] /\ proc'[p] = up
        /\ \A q \in Processes : q # p => proc'[q] = proc[q]
        /\ db' = db /\ writer' = writer
    BY <1>4, <2>1 DEF Returned, IInv, TypeOK
  <2>4. Complete(db)
    <3>1. Complete(View(p))
      BY <1>1 DEF Known, Acting
    <3> QED
      BY <1>1, <1>4, <3>1 DEF View, Viewing
  <2>5. ProcessOK(p)'
    BY <1>4, <2>2, <2>3, <2>4
    DEF ProcessOK, Viewing, HolderOK, Known, Exact, Acting, LockSteps, Reads
  <2> QED
    BY <2>3, <2>5, StepInv DEF IInv, TypeOK
<1> QED
  BY <1>3, <1>4

\* Away from the lock: the steps that choose what to do next.
LEMMA ChoiceInv ==
  ASSUME IInv, NEW p \in Processes, UNCHANGED <<mode, failed, written>>,
         StartUp(p) \/ EnsureSchema(p) \/ MigrateSchema(p) \/ Migrated(p)
  PROVE  IInv'
<1>1. proc[p].step = "act"
  BY DEF StartUp, EnsureSchema, MigrateSchema, Migrated, At
<1>2. proc[p].call # "migrated" => writer # p
  BY <1>1, ViewFacts DEF ProcessOK, Viewing, LockSteps
<1>3. failed \subseteq Processes /\ failed' = failed
  BY DEF IInv, TypeOK
<1>4. CASE Raise(p)
  BY <1>3, <1>4, RaiseInv
<1>5. CASE Returned(p) /\ (proc[p].found = "current" \/ proc[p].call = "migrated")
  BY <1>1, <1>5, ReturnedInv
<1>6. CASE /\ proc[p].call # "migrated"
           /\ \E call \in {"ensure", "migrate", "migrate_ensure"} : Goto(p, call, "tables")
  BY <1>1, <1>2, <1>6, GotoInv
<1>7. CASE /\ proc[p].call # "migrated" /\ Goto(p, proc[p].call, "begin")
           /\ proc[p].call \in {"ensure", "migrate_ensure"} => proc[p].found \in Supported
  BY <1>1, <1>2, <1>7, GotoInv
<1>8. CASE StartUp(p)
  BY <1>4, <1>5, <1>6, <1>8 DEF StartUp, At
<1>9. CASE EnsureSchema(p)
  BY <1>4, <1>7, <1>9 DEF EnsureSchema, At, Supported
<1>10. CASE MigrateSchema(p)
  BY <1>4, <1>5, <1>6, <1>7, <1>10 DEF MigrateSchema, At
<1>11. CASE Migrated(p)
  BY <1>2, <1>5, <1>11 DEF Migrated, At
<1> QED
  BY <1>8, <1>9, <1>10, <1>11

\* A host launches, stops and launches its process again; any call may fail.
LEMMA HostInv ==
  ASSUME IInv, NEW p \in Processes, Launch(p) \/ Relaunch(p) \/ Stop(p) \/ Interrupt(p)
  PROVE  IInv'
<1>1. CASE Launch(p) \/ Relaunch(p)
  <2>1. proc[p].step \in {"new", "ended"} /\ Goto(p, "startup", "tables")
    BY <1>1 DEF Launch, Relaunch
  <2>2. writer # p
    BY <2>1, ViewFacts DEF ProcessOK, Viewing, LockSteps, Reads
  <2> QED
    BY <1>1, <2>1, <2>2, GotoInv DEF Launch, Relaunch
<1>2. CASE Stop(p)
  <2>1. PICK off \in Process : off = Off("ended")
    BY DEF Off, Process, Steps, Found
  <2>2. proc[p] = Off("up") /\ writer # p
    BY <1>2, ViewFacts DEF Stop, ProcessOK, Viewing, LockSteps, Reads
  <2>3. PICK r \in Process : r = proc'[p]
    BY <1>2 DEF Stop, Goto, IInv, TypeOK, Process, Steps
  <2>4. /\ r.call = off.call /\ r.step = off.step /\ r.meta = off.meta
        /\ r.found = off.found /\ r.view = off.view /\ r.stale = off.stale
    BY <1>2, <2>1, <2>2, <2>3 DEF Stop, Goto, IInv, TypeOK, Process, Off
  <2>5. r = off
    BY <2>4 DEF Process
  <2>6. proc' = [proc EXCEPT ![p] = off] /\ UNCHANGED <<db, writer, mode, failed, written>>
    BY <1>2, <2>3, <2>5 DEF Stop, Goto, IInv, TypeOK
  <2>7. Raise(p)
    BY <2>1, <2>2, <2>6 DEF Raise
  <2> QED
    BY <2>6, <2>7, RaiseInv DEF IInv, TypeOK
<1>3. CASE Interrupt(p)
  BY <1>3, RaiseInv DEF Interrupt, IInv, TypeOK
<1> QED
  BY <1>1, <1>2, <1>3
-----------------------------------------------------------------------------
(***************************************************************************)
(* The lock, and the statements that write.                                *)
(***************************************************************************)
LEMMA BeginInv ==
  ASSUME IInv, NEW p \in Processes, Begin(p), UNCHANGED <<mode, failed, written>>
  PROVE  IInv'
<1>1. /\ proc[p] \in Process /\ View(p) \in Database /\ Viewing(p, proc[p])
      /\ Known(proc[p], View(p)) /\ Acting(proc[p], View(p))
      /\ proc[p].view # None => Exact(proc[p], View(p))
      /\ mode[p] \in {"standalone", "external"}
      /\ proc[p].step = "begin" /\ writer = None /\ p # None
  BY ViewFacts DEF ProcessOK, Begin
<1>2. CASE proc[p].stale
  BY <1>2, RaiseInv DEF Begin, IInv, TypeOK
<1>3. CASE ~proc[p].stale
  <2>1. View(p) = db /\ db # None
    BY <1>1, <1>3, DatabaseAssumption DEF View, Viewing
  <2>2. PICK r : r = proc'[p]
    OBVIOUS
  <2>3. Locked(p) /\ AfterBegin(p) \in {"again", "write"}
    BY <1>3 DEF Begin, AfterBegin
  <2>4. /\ r \in Process /\ proc' \in [Processes -> Process]
        /\ \A q \in Processes : q # p => proc'[q] = proc[q]
        /\ r.call = proc[p].call /\ r.step = AfterBegin(p) /\ r.meta = proc[p].meta
        /\ r.found = proc[p].found /\ r.view = db /\ r.stale = proc[p].stale
        /\ db' = db /\ writer' = p
    BY <1>1, <2>1, <2>2, <2>3 DEF Locked, Process, Steps, IInv, TypeOK
  <2>5. View(p)' = db
    BY <2>1, <2>2, <2>4 DEF View
  <2>6. Viewing(p, r)' /\ HolderOK(p, r)'
    BY <1>3, <2>1, <2>3, <2>4 DEF Viewing, HolderOK, LockSteps, Reads
  <2>7. Known(r, db) /\ Exact(r, db)
    BY <1>1, <2>1, <2>3, <2>4 DEF Known, Exact
  <2>8. Acting(r, db)
    BY <1>1, <2>1, <2>3, <2>4, InspectFacts
    DEF Acting, AfterBegin, Known, Exact, Viewing, Reads, Supported
  <2>9. ProcessOK(p)'
    BY <2>2, <2>3, <2>4, <2>5, <2>6, <2>7, <2>8 DEF ProcessOK
  <2> QED
    BY <1>1, <2>4, <2>9, StepInv, LifecycleAssumption DEF IInv, TypeOK
<1> QED
  BY <1>2, <1>3

\* What the lock holder knows of its version of the database.
LEMMA HolderFacts ==
  ASSUME IInv, NEW p \in Processes, proc[p].step \in LockSteps
  PROVE  /\ writer = p /\ ~proc[p].stale /\ proc[p] \in Process
         /\ View(p) = proc[p].view /\ View(p) \in Database
         /\ IF proc[p].step \in {"again", "write"}
            THEN View(p) = db /\ Sound(View(p), written)
            ELSE /\ Pending(proc[p], View(p), written) /\ View(p).hidden = db.hidden
                 /\ proc[p].step = "commit" \/ Inspect(db) # "unsupported"
                 /\ View(p) = db \/ Inspect(db) # "unsupported"
         /\ Known(proc[p], View(p)) /\ Acting(proc[p], View(p))
<1>1. /\ ProcessOK(p) /\ Sound(db, written)
      /\ proc[p].call = "migrated" => proc[p].step \in Reads \cup {"commit"}
  BY ViewFacts DEF ProcessOK, Acting, IInv
<1> QED
  BY <1>1, ViewFacts DEF ProcessOK, Viewing, HolderOK, MayReplace, LockSteps, Reads

\* The inspection under the lock keeps it.
LEMMA InspectAgainInv ==
  ASSUME IInv, NEW p \in Processes, InspectAgain(p), UNCHANGED <<mode, failed, written>>
  PROVE  IInv'
<1>1. /\ writer = p /\ ~proc[p].stale /\ proc[p] \in Process
      /\ View(p) = proc[p].view /\ View(p) \in Database /\ View(p) = db
      /\ proc[p].step = "again" /\ Acting(proc[p], View(p)) /\ Viewing(p, proc[p])
  BY HolderFacts, ViewFacts DEF InspectAgain, LockSteps, ProcessOK
<1>2. CASE Raise(p)
  BY <1>2, RaiseInv DEF IInv, TypeOK
<1>3. CASE ~Raise(p)
  <2>1. PICK found : found = Inspect(View(p))
    OBVIOUS
  <2>2. PICK r : r = proc'[p]
    OBVIOUS
  <2>3. /\ found \in {"empty", "canonical_unversioned", "current"}
        /\ proc' = [proc EXCEPT ![p].found = found, ![p].step = "write"]
        /\ db' = db /\ writer' = writer
    BY <1>3, <2>1 DEF InspectAgain
  <2>4. /\ r \in Process /\ proc' \in [Processes -> Process]
        /\ \A q \in Processes : q # p => proc'[q] = proc[q]
        /\ r.call = proc[p].call /\ r.step = "write" /\ r.meta = proc[p].meta
        /\ r.found = found /\ r.view = proc[p].view /\ r.stale = proc[p].stale
    BY <1>1, <2>2, <2>3 DEF Process, Steps, Found, IInv, TypeOK
  <2>5. View(p)' = View(p)
    BY <1>1, <2>2, <2>3, <2>4 DEF View
  <2>6. Viewing(p, r)' /\ HolderOK(p, r)'
    BY <1>1, <2>3, <2>4 DEF Viewing, HolderOK, LockSteps, Reads
  <2>7. Known(r, View(p)) /\ Exact(r, View(p)) /\ Acting(r, View(p))
    BY <1>1, <2>1, <2>3, <2>4, InspectFacts DEF Known, Exact, Acting, Supported, Reads
  <2>8. ProcessOK(p)'
    BY <2>2, <2>4, <2>5, <2>6, <2>7 DEF ProcessOK
  <2> QED
    BY <2>3, <2>4, <2>8, StepInv DEF IInv, TypeOK
<1> QED
  BY <1>2, <1>3

\* A statement of the lock holder that leaves the version w to the next one.
LEMMA WriteInv ==
  ASSUME IInv, NEW p \in Processes, writer = p, NEW w \in Database,
         NEW r \in Process, proc' = [proc EXCEPT ![p] = r],
         UNCHANGED <<db, writer, mode, failed, written>>,
         r.view = w, ~r.stale, MayReplace(r, w), Pending(r, w, written),
         \/ r.step \in {"alter", "check", "rename", "stamp"} /\ r.call # "migrated"
         \/ r.step = "commit"
         \/ r.step = "tables" /\ r.call = "migrated" /\ mode[p] = "external"
  PROVE  IInv'
<1>1. /\ proc' \in [Processes -> Process] /\ proc'[p] = r
      /\ \A q \in Processes : q # p => proc'[q] = proc[q]
  BY DEF IInv, TypeOK
<1>2. r.view # None /\ View(p)' = w
  BY <1>1, DatabaseAssumption DEF View
<1>3. Viewing(p, r)' /\ HolderOK(p, r)'
  BY <1>2 DEF Viewing, HolderOK, MayReplace, LockSteps, Reads
<1>4. Known(r, w) /\ Exact(r, w) /\ Acting(r, w)
  BY DEF Known, Exact, Acting, Pending, Reads
<1>5. ProcessOK(p)'
  BY <1>1, <1>2, <1>3, <1>4 DEF ProcessOK
<1> QED
  BY <1>1, <1>5, StepInv DEF IInv, TypeOK

\* The same for a statement within a call.
LEMMA StatementInv ==
  ASSUME IInv, NEW p \in Processes, proc[p].step \in LockSteps, proc[p].call # "migrated",
         UNCHANGED <<mode, failed, written>>,
         NEW w \in Database, NEW next \in {"alter", "check", "rename", "stamp", "commit"},
         Statement(p, w, next), w.hidden = db.hidden,
         Inspect(db) # "unsupported" \/ (w = db /\ next = "commit"),
         \A r \in Process :
           r.step = next /\ r.call # "migrated" => Pending(r, w, written)
  PROVE  IInv'
<1>1. writer = p /\ ~proc[p].stale /\ proc[p] \in Process
  BY HolderFacts
<1>2. PICK r : r = proc'[p]
  OBVIOUS
<1>3. /\ r \in Process /\ proc' = [proc EXCEPT ![p] = r]
      /\ r.call = proc[p].call /\ r.step = next /\ r.view = w /\ ~r.stale
  BY <1>1, <1>2 DEF Statement, Process, Steps, IInv, TypeOK
<1> QED
  BY <1>1, <1>3, WriteInv DEF Statement, MayReplace

\* The same for the last write of a call, whose version is complete.
LEMMA LastWriteInv ==
  ASSUME IInv, NEW p \in Processes, proc[p].step \in LockSteps, proc[p].call # "migrated",
         UNCHANGED <<mode, failed, written>>,
         NEW w \in Database, LastWrite(p, w), Inspect(db) # "unsupported" \/ w = db,
         w.hidden = db.hidden, w.hidden # "obstacle",
         Sound(w, written), Complete(w), w.enrollment
  PROVE  IInv'
<1>1. CASE Statement(p, w, "commit")
  BY <1>1, StatementInv DEF Pending
<1>2. CASE ~Statement(p, w, "commit")
  <2>1. writer = p /\ ~proc[p].stale /\ proc[p] \in Process
    BY HolderFacts
  <2>2. PICK r : r = proc'[p]
    OBVIOUS
  <2>3. /\ r \in Process /\ proc' = [proc EXCEPT ![p] = r]
        /\ r.call = "migrated" /\ r.step = "tables" /\ r.view = w /\ ~r.stale
        /\ mode[p] = "external" /\ UNCHANGED <<db, writer>>
    BY <1>2, <2>1, <2>2 DEF LastWrite, Process, Steps, IInv, TypeOK
  <2>4. Pending(r, w, written)
    BY <2>3 DEF Pending
  <2> QED
    BY <2>1, <2>3, <2>4, WriteInv DEF MayReplace
<1> QED
  BY <1>1, <1>2

\* The operators that make a new version of the database.
LEMMA EnrolledFacts ==
  ASSUME NEW v \in Database
  PROVE  /\ Enrolled(v) \in Database
         /\ Enrolled(v).passkey = v.passkey /\ Enrolled(v).copy = v.copy
         /\ Enrolled(v).metadata = v.metadata /\ Enrolled(v).enrollment
         /\ Enrolled(v).hidden = v.hidden /\ (v.enrollment => Enrolled(v) = v)
BY DEF Enrolled, Database

\* Writing the version changes nothing else.
LEMMA StampedFacts ==
  ASSUME NEW v \in Database
  PROVE  /\ Stamped(v) \in Database
         /\ Stamped(v).passkey = v.passkey /\ Stamped(v).copy = v.copy
         /\ Stamped(v).metadata = {3} /\ Stamped(v).hidden = v.hidden
         /\ Stamped(v).enrollment <=> v.enrollment
<1>1. {3} \in SUBSET {2, 3, 4}
  OBVIOUS
<1> QED
  BY <1>1 DEF Stamped, Database

\* CREATE TABLE IF NOT EXISTS on an empty database.
LEMMA CreatedFacts ==
  ASSUME NEW v \in Database, v.passkey = None
  PROVE  /\ Created(v) \in Database
         /\ Holds(Created(v).passkey, "v3", "text", {}) /\ Created(v).passkey.indexed
         /\ Created(v).copy = v.copy /\ Created(v).metadata = v.metadata
         /\ Created(v).hidden = v.hidden
<1>1. PICK new \in Tables : new = Holding("v3", TRUE, "text", {})
  BY DEF Holding, Tables
<1>2. new.columns = "v3" /\ new.indexed /\ new.rows = {} \X {"text"} /\ new # None
  BY <1>1, TablesAssumption DEF Holding
<1>3. Created(v) = [v EXCEPT !.passkey = new]
  BY <1>1 DEF Created
<1> QED
  BY <1>2, <1>3 DEF Database, Holds

\* The last statements of a call store the rows in a complete database.
LEMMA StampedComplete ==
  ASSUME NEW v \in Database, NEW R, v.copy = None,
         Holds(v.passkey, "v3", "text", R), v.passkey.indexed
  PROVE  LET w == Stamped(Enrolled(v))
         IN  /\ w \in Database /\ Sound(w, R) /\ Complete(w)
             /\ w.enrollment /\ w.hidden = v.hidden
<1>1. Enrolled(v) \in Database
  BY EnrolledFacts
<1> QED
  BY <1>1, EnrolledFacts, StampedFacts DEF Sound, Complete, Holds

\* A change of the tables' columns or index keeps the rest.
LEMMA ColumnsFacts ==
  ASSUME NEW v \in Database, v.passkey # None,
         NEW columns \in {"flow_key", "v2", "v2_kind", "v3", "other"}
  PROVE  LET w == [v EXCEPT !.passkey.columns = columns]
         IN  /\ w \in Database /\ w.passkey # None /\ w.passkey.columns = columns
             /\ w.passkey.rows = v.passkey.rows
             /\ w.passkey.indexed <=> v.passkey.indexed
             /\ w.copy = v.copy /\ w.metadata = v.metadata /\ w.hidden = v.hidden
<1>1. PICK old \in Tables : old = v.passkey
  BY DEF Database
<1>2. PICK new : new = [old EXCEPT !.columns = columns]
  OBVIOUS
<1>3. /\ new \in Tables /\ new.columns = columns /\ new.rows = old.rows
      /\ new.indexed = old.indexed /\ new # None
  BY <1>2, TablesAssumption DEF Tables
<1>4. [v EXCEPT !.passkey.columns = columns] = [v EXCEPT !.passkey = new]
  BY <1>1, <1>2 DEF Database
<1> QED
  BY <1>1, <1>3, <1>4 DEF Database

\* So does the creation of the indexes.
LEMMA IndexedFacts ==
  ASSUME NEW v \in Database, v.passkey # None
  PROVE  LET w == [v EXCEPT !.passkey.indexed = TRUE]
         IN  /\ w \in Database /\ w.passkey # None /\ w.passkey.indexed
             /\ w.passkey.rows = v.passkey.rows /\ w.passkey.columns = v.passkey.columns
             /\ w.copy = v.copy /\ w.metadata = v.metadata /\ w.hidden = v.hidden
<1>1. PICK old \in Tables : old = v.passkey
  BY DEF Database
<1>2. PICK new : new = [old EXCEPT !.indexed = TRUE]
  OBVIOUS
<1>3. /\ new \in Tables /\ new.columns = old.columns /\ new.rows = old.rows
      /\ new.indexed /\ new # None
  BY <1>2, TablesAssumption DEF Tables
<1>4. [v EXCEPT !.passkey.indexed = TRUE] = [v EXCEPT !.passkey = new]
  BY <1>1, <1>2 DEF Database
<1> QED
  BY <1>1, <1>3, <1>4 DEF Database

\* Encoding the rows of the 0.1 layout loses and doubles none.
LEMMA EncodedRows ==
  ASSUME NEW R, NEW encoding
  PROVE  Encoded(R \X {encoding}) = R \X {"text"}
<1>1. ASSUME NEW row \in Encoded(R \X {encoding}) PROVE row \in R \X {"text"}
  BY DEF Encoded
<1>2. ASSUME NEW row \in R \X {"text"} PROVE row \in Encoded(R \X {encoding})
  <2>1. PICK x \in R : row = <<x, "text">>
    OBVIOUS
  <2>2. <<x, encoding>> \in R \X {encoding} /\ <<x, encoding>>[1] = x
    OBVIOUS
  <2> QED
    BY <2>1, <2>2 DEF Encoded
<1> QED
  BY <1>1, <1>2

\* ensure leaves a complete database, whatever supported one it found.
LEMMA EnsureWritesInv ==
  ASSUME IInv, NEW p \in Processes, EnsureWrites(p), UNCHANGED <<mode, failed, written>>
  PROVE  IInv'
<1> DEFINE V == View(p)
<1>1. /\ proc[p].call \in {"ensure", "migrate_ensure"} /\ proc[p].step = "write"
      /\ V = db /\ V \in Database /\ Sound(V, written) /\ proc[p].found \in Supported
      /\ IF proc[p].found = "current" THEN Complete(V) ELSE proc[p].found = Inspect(V)
      /\ proc[p].step \in LockSteps
  BY HolderFacts DEF EnsureWrites, At, LockSteps, Acting
<1>2. CASE Raise(p)
  BY <1>2, RaiseInv DEF IInv, TypeOK
<1>3. CASE ~Raise(p) /\ proc[p].found = "current"
  <2>1. V.hidden # "obstacle" /\ LastWrite(p, Enrolled(V))
    BY <1>3 DEF EnsureWrites
  <2>2. /\ Enrolled(V) \in Database /\ Sound(Enrolled(V), written)
        /\ Complete(Enrolled(V)) /\ Enrolled(V).enrollment /\ Enrolled(V).hidden = V.hidden
    BY <1>1, <1>3, EnrolledFacts DEF Sound, Complete, Holds
  <2>3. Inspect(db) # "unsupported" \/ Enrolled(V) = db
    BY <1>1, <1>3, InspectFacts, EnrolledFacts DEF Divergent
  <2> QED
    BY <1>1, <2>1, <2>2, <2>3, LastWriteInv
<1>4. CASE ~Raise(p) /\ proc[p].found # "current"
  <2>1. /\ Created(V) \in Database /\ Created(V).copy = None
        /\ Holds(Created(V).passkey, "v3", "text", written) /\ Created(V).passkey.indexed
        /\ Created(V).hidden = V.hidden
    <3>1. CASE proc[p].found = "empty"
      <4>1. V.passkey = None
        BY <1>1, <3>1, InspectFacts
      <4>2. V.copy = None /\ written = {}
        BY <1>1, <4>1 DEF Sound, Holds
      <4> QED
        BY <1>1, <4>1, <4>2, CreatedFacts
    <3>2. CASE proc[p].found = "canonical_unversioned"
      <4>1. V.passkey # None /\ V.passkey.columns = "v3" /\ V.passkey.indexed
        BY <1>1, <3>2, InspectFacts
      <4> QED
        BY <1>1, <4>1, SoundFacts DEF Created
    <3> QED
      BY <1>1, <1>4, <3>1, <3>2 DEF Supported
  <2>2. PICK w : w = Stamped(Enrolled(Created(V)))
    OBVIOUS
  <2>3. /\ w \in Database /\ Sound(w, written) /\ Complete(w)
        /\ w.enrollment /\ w.hidden = V.hidden
    BY <2>1, <2>2, StampedComplete
  <2>4. V.hidden # "obstacle" /\ LastWrite(p, w)
    BY <1>4, <2>2 DEF EnsureWrites
  <2>5. Inspect(db) # "unsupported"
    BY <1>1, <1>4 DEF Supported
  <2> QED
    BY <1>1, <2>3, <2>4, <2>5, LastWriteInv
<1> QED
  BY <1>2, <1>3, <1>4

\* Schema 2 gains its two columns, the second with the new version.
LEMMA AlterInv ==
  ASSUME IInv, NEW p \in Processes, AddRegistrationKind(p) \/ AddCapabilityId(p),
         UNCHANGED <<mode, failed, written>>
  PROVE  IInv'
<1> DEFINE V == View(p)
<1>1. CASE AddRegistrationKind(p)
  <2>1. /\ proc[p].call = "migrate" /\ proc[p].step = "write"
        /\ proc[p].step \in LockSteps
        /\ V = db /\ V \in Database /\ Sound(V, written) /\ V.passkey # None
        /\ Known(proc[p], V)
    BY <1>1, HolderFacts DEF AddRegistrationKind, At, LockSteps, Known
  <2>2. CASE Raise(p)
    BY <2>2, RaiseInv DEF IInv, TypeOK
  <2>3. CASE ~Raise(p)
    <3>1. PICK w : w = [V EXCEPT !.passkey.columns = "v2_kind"]
      OBVIOUS
    <3>2. V.passkey.columns = "v2" /\ Statement(p, w, "alter")
      BY <1>1, <2>3, <3>1 DEF AddRegistrationKind
    <3>3. /\ Holds(V.passkey, "v2", "text", written) /\ V.passkey.indexed
          /\ V.metadata = {2} /\ V.copy = None
      BY <1>1, <2>1, <3>2, SoundFacts DEF Known, AddRegistrationKind
    <3>4. /\ w \in Database /\ Holds(w.passkey, "v2_kind", "text", written)
          /\ w.passkey.indexed /\ w.copy = None /\ w.hidden = V.hidden
      BY <2>1, <3>1, <3>3, ColumnsFacts DEF Holds
    <3>5. Inspect(db) # "unsupported"
      BY <2>1, <3>2, <3>3, InspectFacts
    <3> QED
      BY <2>1, <3>2, <3>4, <3>5, StatementInv DEF Pending
  <2> QED
    BY <2>2, <2>3
<1>2. CASE AddCapabilityId(p)
  <2>1. /\ proc[p].call = "migrate" /\ proc[p].step = "alter"
        /\ proc[p].step \in LockSteps /\ V \in Database /\ Inspect(db) # "unsupported"
        /\ Holds(V.passkey, "v2_kind", "text", written) /\ V.passkey.indexed
        /\ V.copy = None /\ V.hidden = db.hidden
    BY <1>2, HolderFacts DEF AddCapabilityId, At, LockSteps, Pending
  <2>2. CASE Raise(p)
    BY <2>2, RaiseInv DEF IInv, TypeOK
  <2>3. CASE ~Raise(p)
    <3>1. PICK u : u = [V EXCEPT !.passkey.columns = "v3"]
      OBVIOUS
    <3>2. /\ u \in Database /\ Holds(u.passkey, "v3", "text", written)
          /\ u.passkey.indexed /\ u.copy = None /\ u.hidden = db.hidden
      BY <2>1, <3>1, ColumnsFacts DEF Holds
    <3>3. PICK w : w = Stamped(Enrolled(u))
      OBVIOUS
    <3>4. /\ w \in Database /\ Sound(w, written) /\ Complete(w)
          /\ w.enrollment /\ w.hidden = db.hidden
      BY <3>2, <3>3, StampedComplete
    <3>5. LastWrite(p, w) /\ db.hidden # "obstacle"
      BY <1>2, <2>1, <2>3, <3>1, <3>3 DEF AddCapabilityId
    <3> QED
      BY <2>1, <3>4, <3>5, LastWriteInv
  <2> QED
    BY <2>2, <2>3
<1> QED
  BY <1>1, <1>2

\* The 0.1 layout: the copy holds every row once before the tables go.
LEMMA CopyRowsInv ==
  ASSUME IInv, NEW p \in Processes, CopyRows(p), UNCHANGED <<mode, failed, written>>
  PROVE  IInv'
<1> DEFINE V == View(p)
<1>1. /\ proc[p].call = "migrate" /\ proc[p].step = "write"
      /\ proc[p].step \in LockSteps
      /\ V = db /\ V \in Database /\ Sound(V, written) /\ V.passkey # None
  BY HolderFacts DEF CopyRows, At, LockSteps, Known
<1>2. CASE Raise(p)
  BY <1>2, RaiseInv DEF IInv, TypeOK
<1>3. CASE ~Raise(p)
  <2>1. PICK copy : copy = [columns |-> "v3", indexed |-> FALSE,
                            rows |-> Encoded(V.passkey.rows)]
    OBVIOUS
  <2>2. PICK w : w = [V EXCEPT !.copy = copy]
    OBVIOUS
  <2>3. V.passkey.columns = "flow_key" /\ Statement(p, w, "check")
    BY <1>3, <2>1, <2>2 DEF CopyRows
  <2>4. Holds(V.passkey, "flow_key", "bytes", written) /\ V.metadata = None
    BY <1>1, <2>3, SoundFacts
  <2>5. copy.rows = written \X {"text"} /\ copy.columns = "v3"
    BY <2>1, <2>4, EncodedRows DEF Holds
  <2>6. copy \in Tables /\ copy # None
    <3>1. written \X {"text"} \in SUBSET (Rows \X Encodings)
      BY DEF IInv, TypeOK, Encodings
    <3>2. PICK rows \in SUBSET (Rows \X Encodings) : rows = Encoded(V.passkey.rows)
      BY <2>1, <2>5, <3>1
    <3>3. copy = [columns |-> "v3", indexed |-> FALSE, rows |-> rows]
      BY <2>1, <3>2
    <3>4. copy \in Tables
      <4>1. rows \in SUBSET (Rows \X Encodings)
        OBVIOUS
      <4>2. PICK new \in Tables : new = [columns |-> "v3", indexed |-> FALSE, rows |-> rows]
        BY <4>1 DEF Tables
      <4> QED
        BY <3>3, <4>2
    <3> QED
      BY <3>4, TablesAssumption
  <2>7. /\ w \in Database /\ w.passkey = V.passkey /\ w.metadata = None
        /\ w.copy = copy /\ w.hidden = db.hidden
    BY <1>1, <2>2, <2>4, <2>6 DEF Database
  <2>8. Inspect(db) # "unsupported"
    BY <1>1, <2>3, <2>4, InspectFacts
  <2>9. /\ Holds(w.passkey, "flow_key", "bytes", written)
        /\ Holds(w.copy, "v3", "text", written)
    BY <2>4, <2>5, <2>6, <2>7 DEF Holds
  <2> QED
    BY <1>1, <2>3, <2>7, <2>8, <2>9, StatementInv DEF Pending
<1> QED
  BY <1>2, <1>3

\* The row counts were compared: the old tables go.
LEMMA DropTablesInv ==
  ASSUME IInv, NEW p \in Processes, DropTables(p), UNCHANGED <<mode, failed, written>>
  PROVE  IInv'
<1> DEFINE V == View(p)
<1>1. /\ proc[p].call = "migrate" /\ proc[p].step \in LockSteps
      /\ V \in Database /\ Inspect(db) # "unsupported"
      /\ V.metadata = None /\ Holds(V.copy, "v3", "text", written)
      /\ V.hidden = db.hidden
  BY HolderFacts DEF DropTables, At, LockSteps, Pending
<1>2. CASE Raise(p)
  BY <1>2, RaiseInv DEF IInv, TypeOK
<1>3. CASE ~Raise(p)
  <2>1. PICK w : w = [V EXCEPT !.passkey = None]
    OBVIOUS
  <2>2. Statement(p, w, "rename")
    BY <1>3, <2>1 DEF DropTables
  <2>3. /\ w \in Database /\ w.passkey = None /\ w.metadata = None /\ w.copy = V.copy
        /\ w.hidden = db.hidden
    BY <1>1, <2>1 DEF Database
  <2> QED
    BY <1>1, <2>2, <2>3, StatementInv DEF Pending
<1> QED
  BY <1>2, <1>3

\* The copy takes their place.
LEMMA RenameTablesInv ==
  ASSUME IInv, NEW p \in Processes, RenameTables(p), UNCHANGED <<mode, failed, written>>
  PROVE  IInv'
<1> DEFINE V == View(p)
<1>1. /\ proc[p].call = "migrate" /\ proc[p].step \in LockSteps
      /\ V \in Database /\ Inspect(db) # "unsupported"
      /\ V.metadata = None /\ Holds(V.copy, "v3", "text", written)
      /\ V.hidden = db.hidden
  BY HolderFacts DEF RenameTables, At, LockSteps, Pending
<1>2. PICK w : w = [V EXCEPT !.passkey = V.copy, !.copy = None]
  OBVIOUS
<1>3. Statement(p, w, "stamp")
  BY <1>2 DEF RenameTables
<1>4. /\ w \in Database /\ w.passkey = V.copy /\ w.metadata = None /\ w.copy = None
      /\ w.hidden = db.hidden
  BY <1>1, <1>2 DEF Database
<1> QED
  BY <1>1, <1>3, <1>4, StatementInv DEF Pending

\* The migrated database gets its indexes and its version.
LEMMA CreateMetadataInv ==
  ASSUME IInv, NEW p \in Processes, CreateMetadata(p), UNCHANGED <<mode, failed, written>>
  PROVE  IInv'
<1> DEFINE V == View(p)
<1>1. /\ proc[p].call = "migrate" /\ proc[p].step \in LockSteps
      /\ V \in Database /\ Inspect(db) # "unsupported"
      /\ V.copy = None /\ V.metadata = None /\ Holds(V.passkey, "v3", "text", written)
      /\ V.hidden = db.hidden
  BY HolderFacts DEF CreateMetadata, At, LockSteps, Pending
<1>2. CASE Raise(p)
  BY <1>2, RaiseInv DEF IInv, TypeOK
<1>3. CASE ~Raise(p)
  <2>1. PICK u : u = [V EXCEPT !.passkey.indexed = TRUE]
    OBVIOUS
  <2>2. /\ u \in Database /\ Holds(u.passkey, "v3", "text", written)
        /\ u.passkey.indexed /\ u.copy = None /\ u.hidden = db.hidden
    BY <1>1, <2>1, IndexedFacts DEF Holds
  <2>3. PICK w : w = Stamped(Enrolled(u))
    OBVIOUS
  <2>4. /\ w \in Database /\ Sound(w, written) /\ Complete(w)
        /\ w.enrollment /\ w.hidden = db.hidden
    BY <2>2, <2>3, StampedComplete
  <2>5. LastWrite(p, w) /\ db.hidden # "obstacle"
    BY <1>1, <1>3, <2>1, <2>3 DEF CreateMetadata
  <2> QED
    BY <1>1, <2>4, <2>5, LastWriteInv
<1> QED
  BY <1>2, <1>3
-----------------------------------------------------------------------------
(***************************************************************************)
(* A commit, and what it means to the other processes.                     *)
(***************************************************************************)
\* What every commit keeps.
Later(v, w) ==
  /\ v.passkey # None => w.passkey # None
  /\ v.metadata # None => w.metadata # None
  /\ v.metadata = {3} => w.metadata = {3}
  /\ Complete(v) => Complete(w)
  /\ w.hidden = v.hidden /\ (v.enrollment => w.enrollment)
  /\ v.passkey # None /\ w.passkey.columns = "v2" =>
       v.passkey.columns = "v2" /\ (w.passkey.indexed <=> v.passkey.indexed)

\* A commit by another leaves a process its snapshot, which it cannot write.
LEMMA OvertakenInv ==
  ASSUME IInv, NEW q \in Processes, writer # q, writer' # q, mode' = mode,
         Later(db, db'),
         proc'[q] = IF proc[q].view # None THEN [proc[q] EXCEPT !.stale = TRUE] ELSE proc[q]
  PROVE  ProcessOK(q)'
<1>1. /\ proc[q] \in Process /\ Viewing(q, proc[q])
      /\ Known(proc[q], View(q)) /\ Acting(proc[q], View(q))
      /\ proc[q].view # None => Exact(proc[q], View(q))
      /\ proc[q].step = "up" => Complete(db)
  BY ViewFacts DEF ProcessOK
<1>2. PICK r : r = proc'[q]
  OBVIOUS
<1>3. CASE proc[q].view # None
  <2>1. /\ r.call = proc[q].call /\ r.step = proc[q].step /\ r.meta = proc[q].meta
        /\ r.found = proc[q].found /\ r.view = proc[q].view /\ r.stale
    BY <1>1, <1>2, <1>3 DEF Process
  <2>2. View(q)' = View(q) /\ View(q) = proc[q].view
    BY <1>2, <1>3, <2>1 DEF View
  <2>3. proc[q].step \notin {"new", "up", "ended"}
    BY <1>1, <1>3 DEF Viewing, Off
  <2>4. Viewing(q, r)'
    BY <1>1, <1>3, <2>1, <2>3 DEF Viewing, Later
  <2>5. Known(r, View(q)) /\ Exact(r, View(q)) /\ Acting(r, View(q))
    BY <1>1, <1>3, <2>1 DEF Known, Exact, Acting
  <2> QED
    BY <1>2, <2>1, <2>2, <2>3, <2>4, <2>5 DEF ProcessOK, HolderOK
<1>4. CASE proc[q].view = None
  <2>1. r = proc[q] /\ View(q) = db /\ View(q)' = db'
    BY <1>2, <1>4 DEF View
  <2>2. Viewing(q, r)' /\ r.step \notin LockSteps
    BY <1>1, <1>4, <2>1 DEF Viewing
  <2>3. Known(r, db')
    BY <1>1, <2>1 DEF Known, Later
  <2>4. Acting(r, db')
    BY <1>1, <2>1, <2>2 DEF Acting, Later, LockSteps
  <2> QED
    BY <1>1, <1>2, <1>4, <2>1, <2>2, <2>3, <2>4 DEF ProcessOK, HolderOK, Later
<1> QED
  BY <1>3, <1>4

\* A commit publishes a complete database that holds every row.
LEMMA CommitInv ==
  ASSUME IInv, NEW p \in Processes, Commit(p), UNCHANGED <<mode, failed, written>>
  PROVE  /\ IInv'
         /\ \/ db' = db
            \/ /\ Inspect(db) # "unsupported" /\ Complete(db')
               /\ db'.hidden = db.hidden /\ db.hidden # "obstacle"
<1>1. /\ proc[p].step = "commit" /\ writer = p /\ proc[p] \in Process
      /\ View(p) \in Database /\ View(p) = proc[p].view /\ Viewing(p, proc[p])
      /\ Pending(proc[p], View(p), written) /\ View(p).hidden = db.hidden
      /\ View(p) = db \/ Inspect(db) # "unsupported"
      /\ mode[p] \in {"standalone", "external"}
  BY HolderFacts, ViewFacts DEF Commit, LockSteps, ProcessOK
<1>2. /\ db' \in Database /\ Sound(db', written') /\ Complete(db') /\ db'.enrollment
      /\ writer' = None /\ db'.hidden = db.hidden /\ db.hidden # "obstacle"
      /\ db' = db \/ Inspect(db) # "unsupported"
  BY <1>1 DEF Commit, Pending
<1>3. PICK up \in Process : up = Off("up")
  BY DEF Off, Process, Steps, Found
<1>4. PICK off \in Process : off = Off("tables")
  BY DEF Off, Process, Steps, Found
<1>5. PICK again : again = [off EXCEPT !.call = "migrated"]
  OBVIOUS
<1>6. /\ up.step = "up" /\ up.call = "startup" /\ up.found = "none"
      /\ up.view = None /\ up = Off(up.step)
  BY <1>3 DEF Off
<1>7. /\ again \in Process /\ again.step = "tables" /\ again.call = "migrated"
      /\ again.view = None
  <2>1. off.step = "tables" /\ off.view = None
    BY <1>4 DEF Off
  <2> QED
    BY <1>4, <1>5, <2>1 DEF Process
<1>8. PICK r : r = IF mode[p] = "standalone" /\ proc[p].call # "ensure" THEN again ELSE up
  OBVIOUS
<1>9. r \in Process /\ proc' = [Overtaken(p) EXCEPT ![p] = r]
  BY <1>3, <1>4, <1>5, <1>7, <1>8 DEF Commit
<1>10. ASSUME NEW q \in Processes, q # p
       PROVE  proc'[q] = IF proc[q].view # None THEN [proc[q] EXCEPT !.stale = TRUE]
                         ELSE proc[q]
  BY <1>9, <1>10 DEF Overtaken
<1>11. proc'[p] = r /\ proc' \in [Processes -> Process]
  <2>1. ASSUME NEW q \in Processes PROVE Overtaken(p)[q] \in Process
    BY DEF Overtaken, IInv, TypeOK, Process
  <2>2. Overtaken(p) \in [Processes -> Process]
    BY <2>1 DEF Overtaken
  <2> QED
    BY <1>9, <2>2
<1>12. p # None
  BY LifecycleAssumption
<1>13. ASSUME NEW q \in Processes, q # p PROVE ProcessOK(q)'
  <2>1. Later(db, db') /\ writer # q /\ writer' # q
    BY <1>1, <1>2, <1>13, Versions, LifecycleAssumption DEF Later, Complete
  <2> QED
    BY <1>10, <1>13, <2>1, OvertakenInv
<1>14. ProcessOK(p)'
  <2>1. View(p)' = db'
    BY <1>6, <1>7, <1>8, <1>11 DEF View
  <2>2. Viewing(p, r)' /\ HolderOK(p, r)'
    BY <1>2, <1>6, <1>7, <1>8, <1>12 DEF Viewing, HolderOK, LockSteps, Reads
  <2>3. Known(r, db') /\ Acting(r, db')
    BY <1>2, <1>6, <1>7, <1>8 DEF Known, Acting, Reads
  <2> QED
    BY <1>2, <1>6, <1>7, <1>8, <1>11, <2>1, <2>2, <2>3 DEF ProcessOK
<1>15. TypeOK'
  BY <1>2, <1>11 DEF IInv, TypeOK
<1> QED
  BY <1>1, <1>2, <1>13, <1>14, <1>15 DEF IInv

\* A row is added in the encoding of the tables it goes to.
LEMMA InsertInv ==
  ASSUME IInv, NEW row \in Rows, NEW encoding, Insert(row, encoding), db.passkey # None,
         \/ db.passkey.columns = "flow_key" /\ encoding = "bytes"
         \/ db.passkey.columns \in {"v2", "v3"} /\ encoding = "text"
  PROVE  /\ IInv' /\ Inspect(db') = Inspect(db) /\ db'.copy = None
<1>1. /\ db \in Database /\ Sound(db, written) /\ written \subseteq Rows
      /\ writer = None /\ writer' = None
      /\ mode' = mode /\ failed' = failed /\ written' = written \cup {row}
  BY DEF IInv, TypeOK, Insert
<1>2. Holds(db.passkey, db.passkey.columns, encoding, written)
  BY <1>1, SoundFacts DEF Holds
<1>3. PICK old \in Tables : old = db.passkey
  BY <1>1 DEF Database
<1>4. old.rows \cup {<<row, encoding>>} = written' \X {encoding}
  BY <1>1, <1>2, <1>3 DEF Holds
<1>5. PICK new : new = [old EXCEPT !.rows = written' \X {encoding}]
  OBVIOUS
<1>6. written' \X {encoding} \in SUBSET (Rows \X Encodings)
  BY <1>1 DEF Encodings
<1>7. /\ new \in Tables /\ new.columns = old.columns /\ new.indexed = old.indexed
      /\ new.rows = written' \X {encoding} /\ new # None
  BY <1>5, <1>6, TablesAssumption DEF Tables
<1>8. db' = [db EXCEPT !.passkey = new]
  <2>1. db' = [db EXCEPT !.passkey.rows = @ \cup {<<row, encoding>>}]
    BY DEF Insert
  <2> QED
    BY <1>1, <1>3, <1>4, <1>5, <2>1 DEF Database
<1>9. /\ db' \in Database /\ db'.passkey = new /\ db'.copy = db.copy
      /\ db'.metadata = db.metadata /\ db'.hidden = db.hidden
      /\ db'.enrollment <=> db.enrollment
  BY <1>1, <1>7, <1>8 DEF Database
<1>10. Sound(db', written')
  BY <1>1, <1>2, <1>3, <1>7, <1>9, SoundFacts DEF Sound, Holds
<1>11. Inspect(db') = Inspect(db) /\ Later(db, db')
  <2>1. Later(db, db')
    BY <1>3, <1>7, <1>9 DEF Later, Complete
  <2> QED
    BY <1>1, <1>3, <1>7, <1>9, <2>1, InspectSteps DEF AfterVersion, AfterLayout
<1>12. ASSUME NEW q \in Processes
       PROVE  proc'[q] = IF proc[q].view # None THEN [proc[q] EXCEPT !.stale = TRUE]
                         ELSE proc[q]
  BY LifecycleAssumption DEF Insert, Overtaken
<1>13. proc' \in [Processes -> Process]
  <2>1. ASSUME NEW q \in Processes PROVE proc'[q] \in Process
    BY <1>12 DEF IInv, TypeOK, Process
  <2> QED
    BY <2>1 DEF Insert, Overtaken
<1>14. ASSUME NEW q \in Processes PROVE ProcessOK(q)'
  BY <1>1, <1>11, <1>12, OvertakenInv, LifecycleAssumption
<1>15. TypeOK'
  BY <1>1, <1>9, <1>13 DEF IInv, TypeOK
<1> QED
  BY <1>9, <1>10, <1>11, <1>14, <1>15, SoundFacts DEF IInv

\* Rows are written by stores and by earlier versions of the application.
LEMMA RowsInv ==
  ASSUME IInv, NEW row \in Rows,
         EarlierVersionWrites(row) \/ \E p \in Processes : StoreWrites(p, row)
  PROVE  IInv' /\ Inspect(db') = Inspect(db) /\ db'.copy = None
<1>1. db \in Database /\ Sound(db, written)
  BY DEF IInv, TypeOK
<1>2. Inspect(db) = "legacy" => db.passkey # None /\ db.passkey.columns = "flow_key"
  BY <1>1, InspectSteps DEF AfterTables, AfterLayout, AfterVersion
<1>3. Inspect(db) = "legacy_v2" => db.passkey # None /\ db.passkey.columns = "v2"
  BY <1>1, InspectSteps DEF AfterTables, AfterLayout, AfterVersion
<1>4. Inspect(db) = "canonical_unversioned" =>
        db.passkey # None /\ db.passkey.columns = "v3"
  BY <1>1, InspectFacts
<1>5. CASE Insert(row, "bytes") /\ Inspect(db) = "legacy"
  BY <1>2, <1>5, InsertInv
<1>6. CASE Insert(row, "text") /\ Inspect(db) \in {"legacy_v2", "canonical_unversioned"}
  BY <1>3, <1>4, <1>6, InsertInv
<1>7. CASE Insert(row, "text") /\ Inspect(db) = "current"
  BY <1>1, <1>7, InspectFacts, InsertInv DEF Complete
<1> QED
  BY <1>5, <1>6, <1>7 DEF EarlierVersionWrites, StoreWrites
-----------------------------------------------------------------------------
(***************************************************************************)
(* The invariant holds in every reachable state.                           *)
(***************************************************************************)
LEMMA InitInv == Init => IInv
<1> SUFFICES ASSUME Init PROVE IInv
  OBVIOUS
<1>1. \A R \in SUBSET Rows : \A c \in {"flow_key", "v2", "v3", "other"} :
        \A i \in BOOLEAN : \A e \in Encodings :
          LET t == Holding(c, i, e, R)
          IN  t \in Tables /\ Holds(t, c, e, R) /\ (t.indexed <=> i)
  <2> TAKE R \in SUBSET Rows
  <2> TAKE c \in {"flow_key", "v2", "v3", "other"}
  <2> TAKE i \in BOOLEAN
  <2> TAKE e \in Encodings
  <2>1. PICK rows \in SUBSET (Rows \X Encodings) : rows = R \X {e}
    BY DEF Encodings
  <2>2. PICK t \in Tables : t = [columns |-> c, indexed |-> i, rows |-> rows]
    BY DEF Tables
  <2>3. t = Holding(c, i, e, R) /\ t # None
    BY <2>1, <2>2, TablesAssumption DEF Holding
  <2> QED
    BY <2>1, <2>2, <2>3 DEF Holds
<1>2. /\ written \in SUBSET Rows /\ db \in Initial(written)
      /\ db.passkey = None => written = {}
  BY DEF Init
<1>3. db \in Database /\ Sound(db, written)
  <2>1. {2} \in SUBSET {2, 3, 4} /\ {3} \in SUBSET {2, 3, 4} /\ {4} \in SUBSET {2, 3, 4}
    OBVIOUS
  <2>2. CASE db \in [passkey : {None} \cup {Holding("flow_key", i, "bytes", written) : i \in BOOLEAN},
                     copy : {None}, metadata : {None}, enrollment : {FALSE},
                     hidden : {"nothing", "divergence", "obstacle"}]
    <3>1. CASE db.passkey = None
      BY <1>2, <2>2, <3>1 DEF Database, Sound
    <3>2. CASE db.passkey # None
      <4>1. PICK i \in BOOLEAN : db.passkey = Holding("flow_key", i, "bytes", written)
        BY <2>2, <3>2
      <4>2. db.passkey \in Tables /\ Holds(db.passkey, "flow_key", "bytes", written)
        BY <1>1, <1>2, <4>1 DEF Encodings
      <4> QED
        BY <2>2, <4>2 DEF Database, Sound
    <3> QED
      BY <3>1, <3>2
  <2>3. CASE db \in [passkey : {Holding("v2", i, "text", written) : i \in BOOLEAN},
                     copy : {None}, metadata : {{2}}, enrollment : {FALSE},
                     hidden : {"nothing", "divergence", "obstacle"}]
    <3>1. PICK i \in BOOLEAN : db.passkey = Holding("v2", i, "text", written)
      BY <2>3
    <3>2. db.passkey \in Tables /\ Holds(db.passkey, "v2", "text", written)
      BY <1>1, <1>2, <3>1 DEF Encodings
    <3> QED
      BY <2>1, <2>3, <3>2 DEF Database, Sound
  <2>4. CASE db \in [passkey : {Holding("v3", TRUE, "text", written)}, copy : {None},
                     metadata : {None, {3}, {4}}, enrollment : BOOLEAN,
                     hidden : {"nothing", "divergence"}]
    <3>1. /\ db.passkey \in Tables /\ Holds(db.passkey, "v3", "text", written)
          /\ db.passkey.indexed
      BY <1>1, <1>2, <2>4 DEF Encodings
    <3> QED
      BY <2>1, <2>4, <3>1 DEF Database, Sound
  <2>5. CASE db \in [passkey : {Holding("other", TRUE, "text", written)}, copy : {None},
                     metadata : {None, {3}}, enrollment : {FALSE}, hidden : {"nothing"}]
    <3>1. /\ db.passkey \in Tables /\ Holds(db.passkey, "other", "text", written)
          /\ db.passkey.indexed
      BY <1>1, <1>2, <2>5 DEF Encodings
    <3> QED
      BY <2>1, <2>5, <3>1 DEF Database, Sound
  <2> QED
    BY <1>2, <2>2, <2>3, <2>4, <2>5 DEF Initial
<1>4. PICK new \in Process : new = Off("new")
  BY DEF Off, Process, Steps, Found
<1>5. /\ new.step = "new" /\ new.call = "startup" /\ new.found = "none"
      /\ new.view = None /\ new = Off(new.step)
  BY <1>4 DEF Off
<1>6. ASSUME NEW p \in Processes PROVE ProcessOK(p)
  <2>1. proc[p] = new /\ writer # p
    BY <1>4, LifecycleAssumption DEF Init
  <2> QED
    BY <1>5, <2>1 DEF ProcessOK, Viewing, HolderOK, Known, Exact, Acting, LockSteps, Reads
<1>7. TypeOK
  BY <1>2, <1>3, <1>4 DEF Init, TypeOK
<1> QED
  BY <1>3, <1>6, <1>7 DEF IInv

\* One step: the invariant is kept, and so is what a commit may do.
LEMMA NextInv ==
  ASSUME IInv, Next
  PROVE  /\ IInv'
         /\ \/ db' = db
            \/ /\ Inspect(db) # "unsupported" /\ Complete(db')
               /\ db'.hidden = db.hidden /\ db.hidden # "obstacle"
            \/ Inspect(db') = Inspect(db) /\ Inspect(db) # "unsupported"
<1>1. CASE \E p \in Processes : Launch(p) \/ Relaunch(p) \/ Stop(p) \/ Interrupt(p)
  BY <1>1, HostInv DEF Launch, Relaunch, Stop, Interrupt, Goto, Raise
<1>2. ASSUME NEW p \in Processes, Work(p)
      PROVE  /\ IInv'
             /\ \/ db' = db
                \/ /\ Inspect(db) # "unsupported" /\ Complete(db')
                   /\ db'.hidden = db.hidden /\ db.hidden # "obstacle"
  <2>1. UNCHANGED <<mode, failed, written>>
    BY <1>2 DEF Work
  <2>2. CASE ReadTables(p)
    BY <2>1, <2>2, ReadTablesInv DEF ReadTables, Conclude
  <2>3. CASE ReadColumns(p)
    BY <2>1, <2>3, ReadColumnsInv DEF ReadColumns, Conclude
  <2>4. CASE ReadVersion(p)
    BY <2>1, <2>4, ReadVersionInv DEF ReadVersion, Conclude
  <2>5. CASE ReadLayout(p)
    BY <2>1, <2>5, ReadLayoutInv DEF ReadLayout, Conclude
  <2>6. CASE StartUp(p) \/ EnsureSchema(p) \/ MigrateSchema(p) \/ Migrated(p)
    <3>1. db' = db
      BY <2>6 DEF StartUp, EnsureSchema, MigrateSchema, Migrated, Returned, Goto, Raise
    <3> QED
      BY <2>1, <2>6, <3>1, ChoiceInv
  <2>7. CASE Begin(p)
    BY <2>1, <2>7, BeginInv DEF Begin, Locked, Raise
  <2>8. CASE InspectAgain(p)
    BY <2>1, <2>8, InspectAgainInv DEF InspectAgain, Raise
  <2>9. CASE EnsureWrites(p)
    BY <2>1, <2>9, EnsureWritesInv DEF EnsureWrites, LastWrite, Statement, Raise
  <2>10. CASE AddRegistrationKind(p) \/ AddCapabilityId(p)
    BY <2>1, <2>10, AlterInv
    DEF AddRegistrationKind, AddCapabilityId, LastWrite, Statement, Raise
  <2>11. CASE CopyRows(p)
    BY <2>1, <2>11, CopyRowsInv DEF CopyRows, Statement, Raise
  <2>12. CASE DropTables(p)
    BY <2>1, <2>12, DropTablesInv DEF DropTables, Statement, Raise
  <2>13. CASE RenameTables(p)
    BY <2>1, <2>13, RenameTablesInv DEF RenameTables, Statement
  <2>14. CASE CreateMetadata(p)
    BY <2>1, <2>14, CreateMetadataInv DEF CreateMetadata, LastWrite, Statement, Raise
  <2>15. CASE Commit(p)
    BY <2>1, <2>15, CommitInv
  <2> QED
    BY <1>2, <2>2, <2>3, <2>4, <2>5, <2>6, <2>7, <2>8, <2>9, <2>10, <2>11, <2>12, <2>13,
       <2>14, <2>15
    DEF Work
<1>3. ASSUME NEW row \in Rows,
             EarlierVersionWrites(row) \/ \E p \in Processes : StoreWrites(p, row)
      PROVE  IInv' /\ Inspect(db') = Inspect(db) /\ Inspect(db) # "unsupported"
  <2>1. IInv' /\ Inspect(db') = Inspect(db)
    BY <1>3, RowsInv
  <2>2. Inspect(db) # "unsupported"
    <3>1. CASE EarlierVersionWrites(row)
      BY <3>1 DEF EarlierVersionWrites
    <3>2. CASE \E p \in Processes : StoreWrites(p, row)
      BY <3>2 DEF StoreWrites
    <3> QED
      BY <1>3, <3>1, <3>2
  <2> QED
    BY <2>1, <2>2
<1> QED
  BY <1>1, <1>2, <1>3 DEF Next

\* The invariant holds of the specification, whatever fairness it assumes.
LEMMA LifecycleInvariant == Spec => []IInv
<1>1. IInv /\ UNCHANGED vars => IInv'
  BY DEF vars, IInv, TypeOK, ProcessOK, Viewing, HolderOK, MayReplace, View
<1>2. IInv /\ [Next]_vars => IInv'
  BY <1>1, NextInv
<1> QED
  BY InitInv, <1>2, PTL DEF Spec
-----------------------------------------------------------------------------
(***************************************************************************)
(* What the invariant shows.                                               *)
(***************************************************************************)
\* The lifecycle's state is what it is said to be.
THEOREM LifecycleTypeCorrect == Spec => []TypeOK
<1>1. IInv => TypeOK
  BY DEF IInv
<1> QED
  BY <1>1, LifecycleInvariant, PTL

\* No row is lost, doubled, or left in another encoding than its tables', for
\* any number of processes that race, die or still run an earlier version.
THEOREM EveryRowKept == Spec => []RowsKept
<1>1. IInv => RowsKept
  BY DEF IInv, RowsKept, Sound, Holds
<1> QED
  BY <1>1, LifecycleInvariant, PTL

\* While any process is up the database has been upgraded: it is current, or it
\* has version 3 and hides a divergence; and the inspection that migrate returns
\* tells the two apart.
THEOREM UpProcessesSeeUpgraded == Spec => []UpMeansUpgraded
<1>1. ASSUME NEW v \in Database, Complete(v) PROVE FullyUpgraded(v)
  BY <1>1, InspectFacts DEF FullyUpgraded, Complete, Divergent
<1>2. IInv => UpMeansUpgraded
  BY <1>1 DEF IInv, TypeOK, ProcessOK, Acting, UpMeansUpgraded, At
<1> QED
  BY <1>2, LifecycleInvariant, PTL

\* An unsupported database is never written to, no commit leaves half a
\* migration, an upgrade that always fails changes no layout, and a commit makes
\* a database unsupported only if that hides a divergence.
THEOREM MigrationsWhole == Spec => NoHalfMigration
<1> DEFINE Whole == IF Inspect(db) = "unsupported"
                    THEN db' = db
                    ELSE /\ db'.copy = None
                         /\ Inspect(db') = "unsupported" => db.hidden = "divergence"
                         /\ db.hidden = "obstacle" => Inspect(db') = Inspect(db)
<1>1. IInv /\ [Next]_vars => Whole \/ UNCHANGED vars
  <2> SUFFICES ASSUME IInv, Next PROVE Whole
    OBVIOUS
  <2>1. db'.copy = None /\ db' \in Database
    BY NextInv DEF IInv, TypeOK, Sound
  <2>2. CASE db' = db
    BY <2>1, <2>2
  <2>3. CASE /\ Inspect(db) # "unsupported" /\ Complete(db')
             /\ db'.hidden = db.hidden /\ db.hidden # "obstacle"
    BY <2>1, <2>3, InspectFacts DEF Divergent
  <2>4. CASE Inspect(db') = Inspect(db) /\ Inspect(db) # "unsupported"
    BY <2>1, <2>4
  <2> QED
    BY <2>2, <2>3, <2>4, NextInv
<1> QED
  BY <1>1, LifecycleInvariant, PTL DEF Spec, NoHalfMigration
=============================================================================
