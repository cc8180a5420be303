--------------------------- MODULE SchemaScripts ---------------------------
(***************************************************************************)
(* The SQL of RequestStore._migrate, _migrate_learning and                 *)
(* _migrate_exploration (backend/store.py): one script per schema version  *)
(* and what SQLite does with a statement.                                  *)
(*                                                                         *)
(* A database is its tables, its indexes and the versions it has recorded. *)
(* A table has the version whose script made it, the columns that came     *)
(* after, and the rows it holds, named after the table they were written   *)
(* to.  Column lists, checks and the rewriting of values are left out.     *)
(***************************************************************************)
EXTENDS Naturals, Sequences, SequencesExt, FiniteSets, TLC

Empty == [tables |-> <<>>, indexes |-> <<>>, versions |-> {}, fails |-> FALSE]

Without(f, x) == [k \in DOMAIN f \ {x} |-> f[k]]
With(f, x, y) == [k \in DOMAIN f \cup {x} |-> IF k = x THEN y ELSE f[k]]

-----------------------------------------------------------------------------
(* Statements.                                                             *)

Create(t)        == [do |-> "create", on |-> t]
Ensure(t)        == [do |-> "ensure", on |-> t]
EnsureWith(t, c) == [do |-> "ensure", on |-> t, columns |-> c]
Index(i, t)      == [do |-> "index", name |-> i, on |-> t]
EnsureIndex(i, t) == [do |-> "ensure_index", name |-> i, on |-> t]
DropIndex(i)     == [do |-> "drop_index", name |-> i]
Drop(t)          == [do |-> "drop", on |-> t]
Discard(t)       == [do |-> "discard", on |-> t]
Rename(t, u)     == [do |-> "rename", on |-> t, to |-> u]
AddColumn(t, c)  == [do |-> "add_column", on |-> t, column |-> c]
EnsureColumn(t, c) == [do |-> "ensure_column", on |-> t, column |-> c]
Copy(u, t)       == [do |-> "copy", from |-> u, on |-> t]
Rewrite(t)       == [do |-> "rewrite", on |-> t]
Record(v)        == [do |-> "record", version |-> v]
Mark(v)          == [do |-> "mark", version |-> v]

Statement ==
    [do : {"create", "ensure", "drop", "discard", "rewrite"}, on : STRING]
    \cup [do : {"ensure"}, on : STRING, columns : SUBSET STRING]
    \cup [do : {"index", "ensure_index"}, name : STRING, on : STRING]
    \cup [do : {"drop_index"}, name : STRING]
    \cup [do : {"rename"}, on : STRING, to : STRING]
    \cup [do : {"add_column", "ensure_column"}, on : STRING, column : STRING]
    \cup [do : {"copy"}, from : STRING, on : STRING]
    \cup [do : {"record", "mark"}, version : Nat]

\* "IF NOT EXISTS" passes over what is there, and a column is added by hand
\* only if it is missing.
PassedOver(d, s) ==
    \/ s.do = "ensure" /\ s.on \in DOMAIN d.tables
    \/ s.do = "ensure_index" /\ s.name \in DOMAIN d.indexes
    \/ s.do = "ensure_column" /\ s.on \in DOMAIN d.tables /\ s.column \in d.tables[s.on].columns
    \/ s.do = "discard" /\ s.on \notin DOMAIN d.tables
    \/ s.do = "drop_index" /\ s.name \notin DOMAIN d.indexes

\* What SQLite refuses.
Refused(d, s) ==
    \/ s.do = "create" /\ s.on \in DOMAIN d.tables
    \/ s.do = "index" /\ s.name \in DOMAIN d.indexes
    \/ s.do \in {"index", "ensure_index", "drop", "rename", "add_column", "ensure_column",
                 "copy", "rewrite"} /\ s.on \notin DOMAIN d.tables
    \/ s.do = "rename" /\ s.to \in DOMAIN d.tables
    \/ s.do = "copy" /\ s.from \notin DOMAIN d.tables
    \/ s.do = "add_column" /\ s.on \in DOMAIN d.tables /\ s.column \in d.tables[s.on].columns
    \/ s.do = "record" /\ s.version \in d.versions

Dropped(d, t) ==
    [d EXCEPT !.tables = Without(@, t),
              !.indexes = [i \in {j \in DOMAIN @ : @[j] # t} |-> @[i]]]

Made(s, v) ==
    [by |-> v, columns |-> IF "columns" \in DOMAIN s THEN s.columns ELSE {}, rows |-> {}]

\* Mutant of Copied: rows that the new constraints refuse are passed over
\* (INSERT OR IGNORE), here all of them.
CopiedWhatFits(d, from, on) == d

\* INSERT INTO on SELECT ... FROM from, of every row.
Copied(d, from, on) == [d EXCEPT !.tables[on].rows = @ \cup d.tables[from].rows]

\* What it does with the others, run by the script of version v.  Indexes follow
\* a renamed table and go with a dropped one.
Done(d, s, v) ==
    CASE s.do \in {"create", "ensure"} -> [d EXCEPT !.tables = With(@, s.on, Made(s, v))]
      [] s.do \in {"index", "ensure_index"} -> [d EXCEPT !.indexes = With(@, s.name, s.on)]
      [] s.do = "drop_index" -> [d EXCEPT !.indexes = Without(@, s.name)]
      [] s.do \in {"drop", "discard"} -> Dropped(d, s.on)
      [] s.do = "rename" ->
            [d EXCEPT !.tables = With(Without(@, s.on), s.to, @[s.on]),
                      !.indexes = [i \in DOMAIN @ |-> IF @[i] = s.on THEN s.to ELSE @[i]]]
      [] s.do \in {"add_column", "ensure_column"} ->
            [d EXCEPT !.tables[s.on].columns = @ \cup {s.column}]
      [] s.do = "copy" -> Copied(d, s.from, s.on)
      [] s.do \in {"record", "mark"} -> [d EXCEPT !.versions = @ \cup {s.version}]
      [] OTHER -> d

Exec(d, s, v) ==
    IF d.fails \/ PassedOver(d, s) THEN d
    ELSE IF Refused(d, s) THEN [d EXCEPT !.fails = TRUE]
    ELSE Done(d, s, v)

\* A script on d, statement by statement.
Run(d, script, v) == FoldLeft(LAMBDA e, s : Exec(e, s, v), d, script)

Indexes(t, names) == [k \in DOMAIN names |-> Index(names[k], t)]
DropIndexes(names) == [k \in DOMAIN names |-> DropIndex(names[k])]

\* The new table takes the rows of the old one, which is then dropped.
Moved(t, old) == <<Create(t), Copy(old, t), Drop(old)>>

\* How a table gets new constraints: set aside, made again, copied, dropped.
Rebuilt(t, old, names) ==
    <<Rename(t, old)>> \o DropIndexes(names) \o Moved(t, old) \o Indexes(t, names)

-----------------------------------------------------------------------------
(* The scripts.                                                            *)

Baseline ==
    <<Ensure("request_records"), Ensure("event_records"), Ensure("workspace_records"),
      Ensure("session_records"), Ensure("operation_checkpoints"),
      EnsureIndex("idx_request_records_session_state", "request_records"),
      EnsureIndex("idx_event_records_workspace", "event_records"),
      Ensure("schema_migrations")>>

\* Versions of execution models that are gone, recorded in a new database.
Retired == <<8, 12, 13, 14, 18, 19, 20, 21, 22, 23, 26, 27, 28>>
Marks   == [k \in DOMAIN Retired |-> Mark(Retired[k])]

Script2 ==
    <<Ensure("artifact_versions"), Ensure("artifact_files"), Ensure("artifact_links"),
      EnsureIndex("idx_artifact_links_source", "artifact_links"),
      EnsureIndex("idx_artifact_links_target", "artifact_links"),
      Ensure("artifact_projections"), Ensure("workspace_active_refs"),
      EnsureWith("artifact_commit_intents",
                 {"origin_request_id", "task_id", "task_relation", "expected_workspace_revision"}),
      Ensure("artifact_state_events")>>
Script3 ==
    <<EnsureColumn("artifact_commit_intents", "expected_workspace_revision"),
      Ensure("artifact_state_events")>>
Script4 == <<EnsureIndex("idx_artifact_commit_intents_version", "artifact_commit_intents")>>
Script5 == <<EnsureColumn("artifact_commit_intents", "committed_event_id")>>
Script6 ==
    <<Ensure("workspace_disclosure_policies"), Ensure("disclosure_audit_records"),
      EnsureIndex("idx_disclosure_audit_workspace", "disclosure_audit_records")>>
Script7 ==
    <<EnsureWith("resource_usage_records", {"work_order_id"}),
      EnsureIndex("idx_resource_usage_workspace", "resource_usage_records"),
      EnsureIndex("idx_resource_usage_work_order", "resource_usage_records")>>
Script8 ==
    <<Ensure("analysis_runs"), EnsureIndex("idx_analysis_runs_workspace", "analysis_runs"),
      Ensure("analysis_attempts"), EnsureIndex("idx_analysis_attempts_run", "analysis_attempts"),
      Ensure("analysis_run_events"),
      EnsureIndex("idx_analysis_run_events_run", "analysis_run_events")>>
Script9 ==
    <<Ensure("workspace_disclosure_policy_versions"),
      EnsureIndex("idx_disclosure_policy_versions_workspace",
                  "workspace_disclosure_policy_versions"),
      Rewrite("workspace_disclosure_policies")>>
Script10 == <<EnsureColumn("artifact_commit_intents", "origin_request_id")>>
Script11 ==
    <<Ensure("tool_call_records"), EnsureIndex("idx_tool_call_records_request", "tool_call_records")>>
Script12 ==
    <<EnsureColumn("analysis_attempts", "operation_id"),
      EnsureIndex("idx_analysis_attempts_operation", "analysis_attempts")>>
Script13 == <<EnsureColumn("analysis_runs", "analysis_plan_seeded")>>
Script14 ==
    <<Ensure("multi_agent_tasks"),
      EnsureIndex("idx_multi_agent_tasks_workspace", "multi_agent_tasks"),
      Ensure("multi_agent_proposals"),
      EnsureIndex("idx_multi_agent_proposals_workspace", "multi_agent_proposals"),
      EnsureIndex("idx_multi_agent_proposals_task", "multi_agent_proposals")>>
Script15 ==
    <<EnsureColumn("request_records", "task_id"),
      EnsureIndex("idx_request_records_task_state", "request_records"),
      Ensure("research_tasks"),
      EnsureIndex("idx_research_tasks_workspace_updated", "research_tasks"),
      Ensure("task_transcript_items"),
      EnsureIndex("idx_task_transcript_items_task_sequence", "task_transcript_items"),
      Ensure("task_conversation_checkpoints"),
      EnsureIndex("idx_task_checkpoints_task_generation", "task_conversation_checkpoints"),
      Ensure("task_artifact_links"),
      EnsureIndex("idx_task_artifact_links_task", "task_artifact_links")>>

InteractionIndexes ==
    <<"idx_task_interactions_task_state", "idx_task_interactions_request_state">>
Script16 ==
    <<Ensure("task_interactions"),
      EnsureIndex(InteractionIndexes[1], "task_interactions"),
      EnsureIndex(InteractionIndexes[2], "task_interactions")>>
Script17 == Rebuilt("task_interactions", "task_interactions_v16", InteractionIndexes)
Script18 ==
    <<EnsureColumn("analysis_attempts", "runtime_manifest_uri"),
      EnsureColumn("analysis_attempts", "runtime_fingerprint_sha256"),
      EnsureColumn("analysis_attempts", "runtime_baseline_sha256")>>

WorkIndexes    == <<"idx_team_work_workspace_updated", "idx_team_work_parent_state">>
AttemptIndexes == <<"idx_team_attempts_work_number", "idx_team_attempts_state_started">>
LeaseIndexes   == <<"idx_executor_leases_workspace_state">>
CodeIndexes    == <<"idx_code_executions_work", "idx_code_executions_task">>
Script19 ==
    <<Ensure("team_work_records"), EnsureIndex(WorkIndexes[1], "team_work_records"),
      EnsureIndex(WorkIndexes[2], "team_work_records")>>
Script20 ==
    <<Ensure("analysis_executor_leases"), EnsureIndex(LeaseIndexes[1], "analysis_executor_leases")>>
Script21 ==
    <<EnsureColumn("resource_usage_records", "work_order_id"),
      EnsureIndex("idx_resource_usage_work_order", "resource_usage_records")>>

\* t made and filled again, the old one kept for now.
Refilled(t, old, names) == <<Create(t), Copy(old, t)>> \o Indexes(t, names)

Script22 ==
    <<Rename("analysis_executor_leases", "analysis_executor_leases_v21"),
      Rename("team_work_records", "team_work_records_v21")>>
    \o DropIndexes(LeaseIndexes \o WorkIndexes)
    \o Refilled("team_work_records", "team_work_records_v21", WorkIndexes)
    \o Refilled("analysis_executor_leases", "analysis_executor_leases_v21", LeaseIndexes)
    \o <<Drop("analysis_executor_leases_v21"), Drop("team_work_records_v21"),
         Create("team_work_attempts")>> \o Indexes("team_work_attempts", AttemptIndexes)
Script23 ==
    <<Rename("analysis_executor_leases", "analysis_executor_leases_v22"),
      Rename("team_work_attempts", "team_work_attempts_v22"),
      Rename("team_work_records", "team_work_records_v22")>>
    \o DropIndexes(LeaseIndexes \o AttemptIndexes \o WorkIndexes)
    \o Refilled("team_work_records", "team_work_records_v22", WorkIndexes)
    \o Refilled("analysis_executor_leases", "analysis_executor_leases_v22", LeaseIndexes)
    \o Refilled("team_work_attempts", "team_work_attempts_v22", AttemptIndexes)
    \o <<Drop("analysis_executor_leases_v22"), Drop("team_work_attempts_v22"),
         Drop("team_work_records_v22")>>
Script24 ==
    Rebuilt("task_artifact_links", "task_artifact_links_v23", <<"idx_task_artifact_links_task">>)

WorkflowIndexes == <<"idx_task_workflows_task_updated", "idx_task_workflows_state_heartbeat">>
Script25 ==
    <<Ensure("task_workflows"), EnsureIndex(WorkflowIndexes[1], "task_workflows"),
      EnsureIndex(WorkflowIndexes[2], "task_workflows")>>
Script26 ==
    <<Ensure("code_executions"), EnsureIndex(CodeIndexes[1], "code_executions"),
      EnsureIndex(CodeIndexes[2], "code_executions")>>
Script27 ==
    <<Rename("code_executions", "code_executions_v26"),
      Rename("analysis_executor_leases", "analysis_executor_leases_v26"),
      Rename("team_work_attempts", "team_work_attempts_v26"),
      Rename("team_work_records", "team_work_records_v26")>>
    \o DropIndexes(CodeIndexes \o LeaseIndexes \o AttemptIndexes \o WorkIndexes)
    \o Refilled("team_work_records", "team_work_records_v26", WorkIndexes)
    \o Refilled("team_work_attempts", "team_work_attempts_v26", AttemptIndexes)
    \o Refilled("analysis_executor_leases", "analysis_executor_leases_v26", <<>>)
    \o Refilled("code_executions", "code_executions_v26", CodeIndexes)
    \o <<Drop("code_executions_v26"), Drop("analysis_executor_leases_v26"),
         Drop("team_work_attempts_v26"), Drop("team_work_records_v26")>>

\* Only if the foreign key of code_executions names another table, as the
\* release of version 27 left it, or if there is no such table.
MisreferencedWork == "work_order_id references team_work_records_v26"
Script28(d) ==
    IF "code_executions" \in DOMAIN d.tables
       /\ MisreferencedWork \notin d.tables["code_executions"].columns
    THEN <<>>
    ELSE Rebuilt("code_executions", "code_executions_v27", CodeIndexes)

\* Mutant of Script29: the leases are not dropped.
Script29KeepsLeases ==
    <<Discard("team_work_attempts"), Discard("code_executions"), Discard("team_work_records")>>
    \o DropIndexes(AttemptIndexes \o LeaseIndexes \o CodeIndexes \o WorkIndexes)
    \o <<Create("team_work_records")>> \o Indexes("team_work_records", WorkIndexes)
    \o <<Create("code_executions")>> \o Indexes("code_executions", CodeIndexes)

Script29 ==
    <<Discard("team_work_attempts"), Discard("analysis_executor_leases"),
      Discard("code_executions"), Discard("team_work_records")>>
    \o DropIndexes(AttemptIndexes \o LeaseIndexes \o CodeIndexes \o WorkIndexes)
    \o <<Create("team_work_records")>> \o Indexes("team_work_records", WorkIndexes)
    \o <<Create("code_executions")>> \o Indexes("code_executions", CodeIndexes)
Script30 ==
    <<Discard("analysis_run_events"), Discard("analysis_attempts"), Discard("analysis_runs")>>
    \o DropIndexes(<<"idx_analysis_run_events_run", "idx_analysis_attempts_run",
                     "idx_analysis_attempts_operation", "idx_analysis_runs_workspace">>)
Script31 == <<Discard("review_records"), Discard("verification_records")>>

UsageIndexes == <<"idx_resource_usage_workspace", "idx_resource_usage_work_order">>
Script32 ==
    <<Discard("multi_agent_proposals"), Discard("multi_agent_tasks"), Discard("task_map_states")>>
    \o DropIndexes(<<"idx_multi_agent_proposals_workspace", "idx_multi_agent_proposals_task",
                     "idx_multi_agent_tasks_workspace">>)
    \o <<Rename("artifact_projections", "artifact_projections_v31")>>
    \o Moved("artifact_projections", "artifact_projections_v31")
    \o <<Rename("resource_usage_records", "resource_usage_records_v31")>>
    \o Moved("resource_usage_records", "resource_usage_records_v31")
    \o Indexes("resource_usage_records", UsageIndexes)
Script33 == Rebuilt("task_workflows", "task_workflows_v32", WorkflowIndexes)
Script34 == <<Rewrite("task_artifact_links"), Rewrite("task_artifact_links")>>
Script35 ==
    <<EnsureColumn("artifact_commit_intents", "task_id"),
      EnsureColumn("artifact_commit_intents", "task_relation"),
      Rewrite("artifact_commit_intents"), Rewrite("artifact_commit_intents"),
      Rewrite("task_artifact_links")>>
Script36 ==
    <<EnsureColumn("team_work_records", "checkpoint_json"),
      EnsureColumn("team_work_records", "resume_count"), Rewrite("team_work_records")>>
Script37 == <<Rewrite("team_work_records")>>
Script38 == <<Ensure("coordinator_result_receipts")>>
Script39 == <<Ensure("expert_session_checkpoints")>>
Script40 ==
    <<Ensure("research_observations"),
      Index("idx_research_observations_task", "research_observations"),
      Index("idx_research_observations_lesson", "research_observations"),
      Ensure("experience_candidates"),
      Index("idx_experience_candidates_status", "experience_candidates"),
      Ensure("evolved_skill_revisions"),
      Index("idx_evolved_skill_active", "evolved_skill_revisions")>>
\* Mutant of Script41: the index is created without a look.
Script41Unguarded ==
    <<Ensure("expert_session_message_history"),
      Index("idx_expert_session_history_lookup", "expert_session_message_history")>>

Script41 ==
    <<Ensure("expert_session_message_history"),
      EnsureIndex("idx_expert_session_history_lookup", "expert_session_message_history")>>
Script42 ==
    <<Ensure("research_observation_links"),
      EnsureIndex("idx_research_observation_links_target", "research_observation_links")>>
Script43 == <<EnsureColumn("experience_candidates", "review_json")>>
Script44 == Rebuilt("task_interactions", "task_interactions_v43", InteractionIndexes)
Script45 ==
    <<Ensure("saved_experiences"), Index("idx_saved_experiences_pending", "saved_experiences"),
      Ensure("evolved_skill_documents"),
      Index("idx_evolved_skill_documents_active", "evolved_skill_documents")>>
Script46 ==
    <<AddColumn("saved_experiences", "source_context_json"),
      AddColumn("resource_usage_records", "request_id"),
      AddColumn("resource_usage_records", "agent_id"),
      Create("curator_calls"), Index("idx_curator_calls_day", "curator_calls"),
      Create("curator_review_attempts")>>
Script47 == <<Create("research_exploration_trees")>>

Latest == 47

\* The script of version v on database d, before the row that records it.
Script(v, d) ==
    CASE v = 2 -> Script2 [] v = 3 -> Script3 [] v = 4 -> Script4 [] v = 5 -> Script5
      [] v = 6 -> Script6 [] v = 7 -> Script7 [] v = 8 -> Script8 [] v = 9 -> Script9
      [] v = 10 -> Script10 [] v = 11 -> Script11 [] v = 12 -> Script12 [] v = 13 -> Script13
      [] v = 14 -> Script14 [] v = 15 -> Script15 [] v = 16 -> Script16 [] v = 17 -> Script17
      [] v = 18 -> Script18 [] v = 19 -> Script19 [] v = 20 -> Script20 [] v = 21 -> Script21
      [] v = 22 -> Script22 [] v = 23 -> Script23 [] v = 24 -> Script24 [] v = 25 -> Script25
      [] v = 26 -> Script26 [] v = 27 -> Script27 [] v = 28 -> Script28(d)
      [] v = 29 -> Script29 [] v = 30 -> Script30 [] v = 31 -> Script31 [] v = 32 -> Script32
      [] v = 33 -> Script33 [] v = 34 -> Script34 [] v = 35 -> Script35 [] v = 36 -> Script36
      [] v = 37 -> Script37 [] v = 38 -> Script38 [] v = 39 -> Script39 [] v = 40 -> Script40
      [] v = 41 -> Script41 [] v = 42 -> Script42 [] v = 43 -> Script43 [] v = 44 -> Script44
      [] v = 45 -> Script45 [] v = 46 -> Script46 [] v = 47 -> Script47
=============================================================================
