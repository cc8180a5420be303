-------------------------- MODULE SchemaMigration --------------------------
(***************************************************************************)
(* The start of a RequestStore on a workspace of any release               *)
(* (backend/store.py): the versions that are not recorded are migrated one *)
(* after the other, each after a backup.  The connection is in autocommit, *)
(* so every statement is a transaction of its own and the process may die  *)
(* between any two of them; only versions 46 and 47 are one transaction.   *)
(***************************************************************************)
EXTENDS SchemaScripts

CONSTANTS
    Releases,    \* versions a workspace may be at, 0 for a folder without a database
    MaxCrashes   \* bound: crashes and ends of the process

ASSUME ReleasesAssumption == Releases \subseteq 0..Latest /\ MaxCrashes \in Nat

VARIABLES
    db,          \* the database, as the connection sees it
    disk,        \* what is committed, and what a death leaves of it
    exists,      \* database_path.exists()
    newDatabase, \* _new_database
    doing,       \* version being migrated
    todo,        \* its statements still to run
    process,     \* "down", "up", "ready" or "failed"
    backups,     \* versions of the backups, in the order they were made
    release,     \* release that wrote the workspace
    held,        \* tables in which it left rows
    crashes

vars == <<db, disk, exists, newDatabase, doing, todo, process, backups, release, held, crashes>>

\* Versions whose script and record are one transaction.
Atomic == {46, 47}

-----------------------------------------------------------------------------
(* Workspaces of earlier releases.                                         *)

\* The member of a singleton (a bound variable is evaluated once, where nested
\* definitions are unfolded within each other).
One(S) == CHOOSE x \in S : TRUE

Recorded(d, k) == [d EXCEPT !.versions = @ \cup {k}]

Migrated(d, k) == Recorded(Run(d, Script(k, d), k), k)

\* The database that versions 1 to k make of nothing.
UpTo[k \in 1..Latest] ==
    IF k = 1 THEN Run(Empty, Baseline \o <<Record(1)>>, 1)
    ELSE One({Migrated(d, k) : d \in {UpTo[k - 1]}})

\* Columns that today's script of an older version already has, and the version
\* that gave them to the databases of its time.
Since == [expected_workspace_revision |-> 3, origin_request_id |-> 10, work_order_id |-> 21,
          task_id |-> 35, task_relation |-> 35]

AsReleased(d, r) ==
    [d EXCEPT !.tables = [t \in DOMAIN @ |->
                 [@[t] EXCEPT !.rows = {t},
                              !.columns = {c \in @ : c \in DOMAIN Since /\ t # "request_records"
                                                     => Since[c] <= r}]],
              !.indexes = IF r < 21 THEN Without(@, "idx_resource_usage_work_order") ELSE @]

\* Release 27 left the foreign key of code_executions at the table it renamed.
Misreferenced(d) ==
    [d EXCEPT !.tables["code_executions"].columns = @ \cup {MisreferencedWork}]

Databases(r) ==
    IF r = 0 THEN {Empty}
    ELSE LET d == AsReleased(UpTo[r], r)
         IN IF r = 27 THEN {d, Misreferenced(d)} ELSE {d}

-----------------------------------------------------------------------------
(* Backups.                                                                *)

\* Files are sorted by name, workspace-before-v<version>-<time>: "v10-" comes
\* before "v2-".
NameOrder(v) == IF v < 10 THEN 11 * v ELSE 11 * (v \div 10) + 1 + (v % 10)

\* Mutant of First: the order is reversed.
FirstReversed(all) ==
    CHOOSE i \in DOMAIN all : \A j \in DOMAIN all :
        NameOrder(all[i]) > NameOrder(all[j]) \/ (NameOrder(all[i]) = NameOrder(all[j]) /\ i <= j)

First(all) ==
    CHOOSE i \in DOMAIN all : \A j \in DOMAIN all :
        NameOrder(all[i]) < NameOrder(all[j]) \/ (NameOrder(all[i]) = NameOrder(all[j]) /\ i <= j)

\* _backup_before_migration: all but the last three by name are removed.
BackedUp(files, v) ==
    LET all == Append(files, v)
    IN IF Len(all) <= 3 THEN all ELSE RemoveAt(all, First(all))

\* The files that upgrades left in backups/ which took a workspace made by one
\* release to another, in one go or in several.
LeftBehind(made, now) ==
    LET After[k \in made..now] ==
            IF k = made THEN <<>> ELSE One({BackedUp(files, k) : files \in {After[k - 1]}})
    IN After[now]

\* A workspace was made by the release it is at, or by an earlier one.
Earlier(now) == {<<>>} \cup {LeftBehind(made, now) : made \in 1..now}

-----------------------------------------------------------------------------

Init ==
    /\ release \in Releases
    /\ db \in Databases(release) /\ disk = db
    /\ held = DOMAIN db.tables
    /\ exists = (release # 0)
    /\ newDatabase = FALSE /\ doing = 0 /\ todo = <<>>
    /\ process = "down" /\ backups \in Earlier(release) /\ crashes = 0

\* __init__: the file is looked at before sqlite3.connect makes it.
Start ==
    /\ process = "down"
    /\ process' = "up" /\ newDatabase' = ~exists /\ exists' = TRUE
    /\ doing' = 1
    /\ todo' = Baseline \o (IF 1 \in db.versions THEN <<>> ELSE <<Record(1)>>)
               \o (IF exists THEN <<>> ELSE Marks)
    /\ UNCHANGED <<db, disk, backups, release, held, crashes>>

\* A statement of the script, which is committed by itself or with the script.
Execute ==
    /\ process = "up" /\ todo # <<>>
    /\ LET done == Exec(db, Head(todo), doing)
       IN IF done.fails
          THEN process' = "failed" /\ UNCHANGED <<db, disk, todo>>
          ELSE /\ db' = done /\ todo' = Tail(todo)
               /\ disk' = IF doing \in Atomic THEN disk ELSE done
               /\ UNCHANGED process
    /\ UNCHANGED <<exists, newDatabase, doing, backups, release, held, crashes>>

\* The row that records the version, and the end of its transaction.
Records ==
    /\ process = "up" /\ todo = <<>> /\ doing \notin disk.versions
    /\ db' = Recorded(db, doing) /\ disk' = db'
    /\ UNCHANGED <<exists, newDatabase, doing, todo, process, backups, release, held, crashes>>

\* The next version: recorded and passed over, or backed up and begun.
Advance ==
    /\ process = "up" /\ todo = <<>> /\ doing \in disk.versions /\ doing < Latest
    /\ doing' = doing + 1
    /\ IF doing + 1 \in db.versions
       THEN UNCHANGED <<todo, backups>>
       ELSE /\ todo' = Script(doing + 1, db)
            /\ backups' = IF newDatabase THEN backups ELSE BackedUp(backups, doing + 1)
    /\ UNCHANGED <<db, disk, exists, newDatabase, process, release, held, crashes>>

Open ==
    /\ process = "up" /\ todo = <<>> /\ doing \in disk.versions /\ doing = Latest
    /\ process' = "ready"
    /\ UNCHANGED <<db, disk, exists, newDatabase, doing, todo, backups, release, held, crashes>>

\* The process dies or ends: a statement that failed has raised out of __init__.
Crash ==
    /\ process # "down" /\ crashes < MaxCrashes
    /\ process' = "down" /\ crashes' = crashes + 1
    /\ newDatabase' = FALSE /\ doing' = 0 /\ todo' = <<>> /\ db' = disk
    /\ UNCHANGED <<disk, exists, backups, release, held>>

Next == Start \/ Execute \/ Records \/ Advance \/ Open \/ Crash

Spec == Init /\ [][Next]_vars

-----------------------------------------------------------------------------
(* Properties.                                                             *)

TypeOK ==
    /\ \A t \in DOMAIN db.tables : db.tables[t].by \in 1..Latest
    /\ \A i \in DOMAIN db.indexes : db.indexes[i] \in DOMAIN db.tables
    /\ db.versions \subseteq 1..Latest /\ ~db.fails
    /\ exists \in BOOLEAN /\ newDatabase \in BOOLEAN
    /\ doing \in 0..Latest /\ process \in {"down", "up", "ready", "failed"}
    /\ Len(backups) <= 3 /\ crashes \in 0..MaxCrashes

\* The tables that the script of a version drops with their rows on purpose.
Retirements == {29, 30, 32}

GoneBy(v) ==
    CASE v = 29 -> {"team_work_records", "team_work_attempts", "analysis_executor_leases",
                    "code_executions"}
      [] v = 30 -> {"analysis_runs", "analysis_attempts", "analysis_run_events"}
      [] v = 32 -> {"multi_agent_tasks", "multi_agent_proposals"}

\* Tables of releases before all of these; no workspace here has them.
Forgotten == {"review_records", "verification_records", "task_map_states"}

\* The table whose rows a table is for: one set aside stands for the one it was.
Origin(t) ==
    CASE t \in {"task_interactions_v16", "task_interactions_v43"} -> "task_interactions"
      [] t \in {"analysis_executor_leases_v21", "analysis_executor_leases_v22",
                "analysis_executor_leases_v26"} -> "analysis_executor_leases"
      [] t \in {"team_work_records_v21", "team_work_records_v22", "team_work_records_v26"} ->
            "team_work_records"
      [] t \in {"team_work_attempts_v22", "team_work_attempts_v26"} -> "team_work_attempts"
      [] t \in {"code_executions_v26", "code_executions_v27"} -> "code_executions"
      [] t = "task_artifact_links_v23" -> "task_artifact_links"
      [] t = "artifact_projections_v31" -> "artifact_projections"
      [] t = "resource_usage_records_v31" -> "resource_usage_records"
      [] t = "task_workflows_v32" -> "task_workflows"
      [] OTHER -> t

Retires(t, v) ==
    Origin(t) \in Forgotten \/ \E w \in Retirements : w <= v /\ Origin(t) \in GoneBy(w)

Drops(s) == s.do \in {"drop", "discard"}

\* Rows are moved to a table of the same origin only.
Moves(s) ==
    /\ s.do = "rename" => Origin(s.to) = Origin(s.on)
    /\ s.do = "copy" => Origin(s.from) = Origin(s.on)

\* s neither adds to t nor takes from its origin.
Spares(s, t) ==
    /\ s.do \in {"create", "ensure", "copy"} => s.on # t
    /\ Drops(s) => s.on \notin {t, Origin(t)}
    /\ s.do = "rename" => {s.on, s.to} \cap {t, Origin(t)} = {}

\* Every table that script drops is retired by version v or was copied before.
Careful(script, v) ==
    /\ script \in Seq(Statement)
    /\ \A i \in 1..Len(script) :
          /\ Moves(script[i])
          /\ Drops(script[i]) /\ ~Retires(script[i].on, v) =>
                LET t == script[i].on IN
                /\ Origin(t) # t
                /\ \E j \in 1..(i - 1) :
                      /\ script[j] = Copy(t, Origin(t))
                      /\ \A k \in (j + 1)..(i - 1) : Spares(script[k], t)

\* All the scripts are; 28 is the only one that depends on the database, and on an
\* empty one it is whole.
ASSUME ScriptsAreCareful ==
    /\ \A v \in 2..Latest : Careful(Script(v, Empty), v)
    /\ \A record \in {<<>>, <<Record(1)>>}, marks \in {<<>>, Marks} :
          Careful(Baseline \o record \o marks, 1)

\* Upgrades to release r left three files at most, none of a later version.
ASSUME BackupsOfUpgrades ==
    \A r \in Releases : \A files \in Earlier(r) :
        /\ files \in Seq(Nat) /\ Len(files) <= 3
        /\ \A i \in 1..Len(files) : files[i] \in 2..Latest /\ files[i] <= r

\* A workspace of release r has recorded the versions up to r, and each of its
\* tables holds its own rows.
ASSUME WorkspacesAreWhole ==
    \A r \in Releases : \A d \in Databases(r) :
        /\ DOMAIN d = {"tables", "indexes", "versions", "fails"}
        /\ 1..r \subseteq d.versions
        /\ \A t \in DOMAIN d.tables :
              /\ DOMAIN d.tables[t] = {"by", "columns", "rows"} /\ d.tables[t].rows = {t}
              /\ Origin(t) = t /\ t \notin Forgotten

GivenUp(t) == \E v \in Retirements : t \in GoneBy(v) /\ v - 1 \in disk.versions

\* Wherever a start dies or fails, the rows of the workspace are in some table of
\* it, unless their table is one that is retired.
RowsKept ==
    \A t \in held : GivenUp(t) \/ \E u \in DOMAIN disk.tables : t \in disk.tables[u].rows

Schema(d) ==
    [tables  |-> [t \in DOMAIN d.tables |-> [by |-> d.tables[t].by, columns |-> d.tables[t].columns]],
     indexes |-> d.indexes]

\* What a start on an empty folder makes.
Installed[k \in 1..Latest] ==
    IF k = 1 THEN Run(Empty, Baseline \o <<Record(1)>> \o Marks, 1)
    ELSE One({IF k \in d.versions THEN d ELSE Migrated(d, k) : d \in {Installed[k - 1]}})

\* A store that opens has the tables, columns and indexes of a new one, from
\* whatever release and after whatever crashes, and every row is in its table.  (A
\* release 27 that dies in version 28 may keep the table it had set aside, which
\* nothing reads.)
OpensAsInstalled ==
    process = "ready" =>
        /\ Schema(IF release = 27 THEN Dropped(db, "code_executions_v27") ELSE db)
               = Schema(Installed[Latest])
        /\ \A t \in held : t \in DOMAIN db.tables => GivenUp(t) \/ t \in db.tables[t].rows

\* Versions whose script cannot be run again from the middle.
Unrepeatable == {17, 22, 23, 24, 27, 28, 32, 33, 40, 44, 45}

\* Versions that find nothing to work on when a first start was cut off among its
\* marks of retired versions.
NeedsRetired == {12, 13, 18, 22, 23, 27, 28}

\* A start fails only in those, and only behind a crash.
FailsOnlyWhereUnrepeatable ==
    process = "failed" =>
        /\ crashes > 0
        /\ doing \in Unrepeatable \/ (release = 0 /\ doing \in NeedsRetired)

\* A version finds the backup from before it gone when three of versions 7, 8 and
\* 9 are there, which sort behind it.
Crowded == doing >= 10 /\ Len(backups) = 3 /\ \A i \in 1..3 : backups[i] < 10

Changing == process \in {"up", "failed"} /\ doing > 1 /\ doing \notin disk.versions

\* A version changes an existing database only with the backup from before it at
\* hand, which stays until the version is recorded, whatever upgrades the workspace
\* has behind it and however often a start was cut off; but for one case: backups
\* of versions below 10, of an earlier upgrade or of this one, fill all three places.
BackupAtHand == Changing /\ ~newDatabase => Contains(backups, doing) \/ Crowded

\* ADR 0008, decision 4: the store "retains the three newest successful backups",
\* so the one just made, from before the version that is running, is among them.
NewestBackupKept == Changing /\ ~newDatabase => Contains(backups, doing)

=============================================================================
