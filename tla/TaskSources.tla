---------------------------- MODULE TaskSources ----------------------------
(***************************************************************************)
(* How local data becomes a source of a task, and which versions a task    *)
(* shows: the path a client names, what a snapshot of it takes along, when *)
(* a reference that exists is used again (src/oceanx/backend/router.py,    *)
(* _dataset_import and the other imports; src/oceanx/backend/store.py, the *)
(* links of tasks), and which files a viewer may open.                     *)
(*                                                                         *)
(* A folder is a function from paths to "file", "directory", "link" or     *)
(* "special"; a path is a sequence of names.  Contents are left out; the   *)
(* size and time of a source are one value, its print.                     *)
(***************************************************************************)
EXTENDS Naturals, Sequences, FiniteSets, SequencesExt

CONSTANTS
    Unsafe,  \* names that mean something else on some system, ".." among them
    NoTask

-----------------------------------------------------------------------------
(* Paths.                                                                  *)

\* is_safe_cross_platform_relative_path.
Safe(path) == path # <<>> /\ ToSet(path) \cap Unsafe = {}

KindOf(folder, path) == IF path \in DOMAIN folder THEN folder[path] ELSE "absent"

\* _workspace_dataset_source: no part of the path is a link.
WorkspaceSource(folder, path) ==
    IF Safe(path) /\ \A p \in Prefixes(path) \ {<<>>} : KindOf(folder, p) # "link"
                  /\ KindOf(folder, path) \in {"file", "directory"}
    THEN folder[path] ELSE "refused"

\* _workspace_pdf_source.
PdfSource(folder, path, pdf) ==
    IF WorkspaceSource(folder, path) = "file" /\ pdf THEN "file" ELSE "refused"

\* _local_dataset_source: another place only for the desktop on its own machine, and
\* only its last part must not be a link.
LocalSource(workspace, machine, relative, absolute, desktop) ==
    IF absolute = <<>> THEN WorkspaceSource(workspace, relative)
    ELSE IF relative # <<>> \/ ~desktop THEN "refused"
    ELSE IF KindOf(machine, absolute) \in {"file", "directory"} THEN machine[absolute]
    ELSE "refused"

Under(folder, path) == {p \in DOMAIN folder : path # p /\ IsPrefix(path, p)}

\* _dataset_snapshot_files: all files of a directory, or nothing if it has anything
\* else in it.
SnapshotFiles(folder, path) ==
    IF folder[path] = "file" THEN {path}
    ELSE IF \E p \in Under(folder, path) : folder[p] \in {"link", "special"} THEN {}
    ELSE {p \in Under(folder, path) : folder[p] = "file"}

\* _assert_desktop_staged_dataset_path, below the folder of staged imports: the
\* import has a name of its own and its data a place in it.
Staged(path) == Len(path) >= 2 /\ path[2] = "source" /\ path[1] # "source"

\* _discard_desktop_staged_dataset: the import with all there is in it.
Discarded(folder, path) ==
    [p \in DOMAIN folder \ ({SubSeq(path, 1, 1)} \cup Under(folder, SubSeq(path, 1, 1))) |-> folder[p]]

-----------------------------------------------------------------------------
(* Imports.  rows: [level, scope, locator, print], links in their order:    *)
(* [task, row, relation, origin].                                           *)

Linked(links, link) == IF link \in ToSet(links) THEN links ELSE Append(links, link)

\* find_local_dataset_reference: the newest reference to the same unchanged source.
Reusable(rows, scope, locator, print) ==
    LET same == {i \in DOMAIN rows : rows[i] = [level |-> "local_reference", scope |-> scope,
                                                locator |-> locator, print |-> print]}
    IN {i \in same : \A j \in same : j <= i}

SourceOf(links, task) ==
    {links[i].row : i \in {j \in DOMAIN links : links[j].task = task /\ links[j].relation = "source"}}

\* _dataset_import: a request [id, task, level, scope, locator, print, staged, names],
\* names tells whether it names the artifact; a reuse is linked once.
Imported(library, r) ==
    LET found == Reusable(library.rows, r.scope, r.locator, r.print)
        again == r.level # "materialized_snapshot" /\ ~r.staged /\ ~r.names /\ found # {}
        row   == IF again THEN CHOOSE i \in found : TRUE ELSE Len(library.rows) + 1
        link  == [task |-> r.task, row |-> row, relation |-> "source", origin |-> r.id]
        had   == again /\ row \in SourceOf(library.links, r.task)
    IN [rows  |-> IF again THEN library.rows
                  ELSE Append(library.rows, [level |-> r.level, scope |-> r.scope,
                                             locator |-> r.locator, print |-> r.print]),
        links |-> IF r.task = NoTask \/ had THEN library.links ELSE Linked(library.links, link)]

\* _task_source_summaries_in_connection: each source once, where it was first linked.
SourcesOf(links, task) ==
    LET mine == SelectSeq(links, LAMBDA l : l.task = task /\ l.relation = "source")
    IN FoldLeft(LAMBDA seen, l : IF l.row \in ToSet(seen) THEN seen ELSE Append(seen, l.row),
                <<>>, mine)

-----------------------------------------------------------------------------
(* What a task shows.                                                      *)

Rank == [primary |-> 3, output |-> 3, supporting |-> 2, internal |-> 1, evidence |-> 0]

\* replace_task_request_deliveries.
Delivered(links, task, origin, primary, supporting) ==
    LET kept == SelectSeq(links, LAMBDA l : ~(/\ l.task = task /\ l.origin = origin
                                              /\ l.relation \in {"primary", "output"}))
        add(to, rows, relation) ==
            FoldLeft(LAMBDA so_far, r : Linked(so_far, [task |-> task, row |-> r,
                                                        relation |-> relation, origin |-> origin]),
                     to, SetToSeq(rows))
    IN add(add(kept, primary, "primary"), supporting, "supporting")

\* _task_output_summaries_in_connection: with its best rank, and the requests it has
\* this rank from.
Shown(links, task) ==
    LET mine    == {l \in ToSet(links) : l.task = task /\ l.relation # "source"}
        best(r) == {l \in mine : l.row = r
                        /\ \A k \in mine : k.row = r => Rank[k.relation] <= Rank[l.relation]}
    IN {[row |-> r, rank |-> Rank[(CHOOSE l \in best(r) : TRUE).relation],
         origins |-> {l.origin : l \in best(r)}] : r \in {l.row : l \in mine}}

-----------------------------------------------------------------------------
(* Files a viewer may open.  A purpose stands for a type, a mime type and a *)
(* limit; sizes are in KiB.                                                 *)

Viewers ==
    [paper_viewer             |-> <<"paper", "pdf", 25600>>,
     report_viewer            |-> <<"report", "markdown", 2048>>,
     report_notebook          |-> <<"report", "notebook", 5120>>,
     report_code              |-> <<"report", "python", 2048>>,
     report_environment       |-> <<"report", "text", 512>>,
     report_inputs            |-> <<"report", "json", 2048>>,
     report_reproducibility   |-> <<"report", "json", 2048>>,
     report_image             |-> <<"report", "png", 8192>>,
     interactive_view_data    |-> <<"interactive_view", "json", 8192>>,
     interactive_view_preview |-> <<"interactive_view", "png", 8192>>]

\* _artifact_resource_grant: files are [name, mime, size] of the manifest.
ArtifactGrant(type, files, name, purpose) ==
    {f \in files : f.name = name /\ <<type, f.mime>> = <<Viewers[purpose][1], Viewers[purpose][2]>>
                   /\ f.size <= Viewers[purpose][3]}

\* _task_result_resource_grant: what the user may edit goes by its present state, what
\* was accepted by its manifest; declared and present are [size, hash].
ResultGrant(declared, present, editable) ==
    LET told == IF editable THEN present ELSE declared
    IN IF told.size <= 25600 THEN {told} ELSE {}
=============================================================================
