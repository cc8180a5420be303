# OceanMind backend: specification, model checking and proofs

This directory is the verification project of the OceanMind backend, the
Python program in `src/oceanx/` that runs research tasks for the desktop
application. It holds TLA+ modules translated from the source, TLC
configurations that check them on small instances, and TLAPS proofs for all
sizes. Paths below are relative to `src/src/oceanx/` unless they start with
`docs/`.

- [1. The system](#1-the-system)
- [2. The modules](#2-the-modules)
- [3. The runs](#3-the-runs)
- [4. The proofs](#4-the-proofs)
- [5. What the code does not keep](#5-what-the-code-does-not-keep)
- [6. Abstractions](#6-abstractions)
- [7. Not modelled](#7-not-modelled)
- [8. Plan](#8-plan)
- [9. Running it](#9-running-it)

## 1. The system

The desktop application (Electron) starts one backend process and talks to it
over stdin and stdout, one JSON frame per line. The backend is one asyncio
loop. Requests are journalled in SQLite before they are executed, so that a
desktop that lost its backend can repeat a request and be told what became of
it.

```
 desktop --stdin--> host.py -----> router.py ----> deep_runtime.py ----> LangGraph, model
    ^                 |              |  |   \            |
    +----stdout-------+              |  |    \           +--> tools.py ---> domain services
                                     |  |     \                              |
                                     v  v      v                             v
                                   store.py (SQLite)   team/orchestrator.py, exploration.py,
                                        |              artifacts/, skill_curator.py
                                        |                  |
                                        |                  v
                                        |              expert_execution.py ---> sandbox/
                                        v                                        (process groups)
                                   migrations, backups
```

| Component | State it keeps | Operations | What is hard |
|---|---|---|---|
| **Request journal** `backend/store.py` | request rows with their terminal event, tasks with status, `active_request_id` and checkpoint pointer, workflow, interaction, receipt, tool-call and transcript rows | reserve, begin, start/transition workflow, ask/answer, record receipts, commit a terminal, archive/reopen/delete a task, recover | one transaction may touch seven tables; a terminal must release everything the request held; recovery decides what an interrupted request was |
| **Schema migrations** `backend/store.py` | recorded versions, tables, backups | 47 scripts, a backup before each | autocommit: a start may die between any two statements |
| **Request router** `backend/router.py` | `_agent_tasks`, `_agent_request_sessions`, `_cancelling_agent_requests`, `_agent_sessions`, `_pending_questions` | `handle`, `_session_submit`, `_execute_agent_request`, `_cancel_agent_request`, `_interaction_respond`, task commands, `shutdown_active_analysis` | agents, cancellations, follow-ups and answers interleave at every await; `task.cancel()` may land anywhere |
| **Stdio host** `backend/host.py` | `shutdown_requested` | run the line loop, recover at start, drain at the end | a crash at any point; two ways of ending |
| **Coordinator runtime, task memory** `deep_runtime.py`, `model_recovery.py` | engine messages and seed; the LangGraph thread in `langgraph.sqlite3`; the stable checkpoint in the journal | load, seed, record, retry, refresh, checkpoint, evict | two memories of one conversation written at different times |
| **Tool receipts** `tools.py` | `tool_call_records` | begin, record result, replay a receipt | a graph that outlives its request; effects before receipts |
| **Expert team** `team/`, tables `team_*` | work rows, session locks, participants | plan a wave, delegate, retry, stop, settle | parallel Experts, cancellation inside a cancellation, late results |
| **Expert recovery** `expert_recovery.py` | the same rows at start | settle executions, restore bindings, interrupt | a crash between result and receipt |
| **Expert execution, deliverables** `expert_execution.py`, `expert_deliverables.py`, `expert_context.py` | execution rows, manifests, files, cached contexts | run code, collect, settle, offer and publish outputs | concurrent calls, partial outputs, what a later round is told |
| **Sandbox** `sandbox/` | process groups, pipes | supervise, stop, judge | a program that ignores signals or leaves others behind |
| **Artifact commits** `artifacts/` | commit intents, staged and published files, artifact rows, links | stage, publish, commit, `recover_pending`, impact | files and rows cannot change together |
| **Idea exploration** `exploration.py` | the exploration tree, its tests and budget | propose, begin tests, record, adjudicate, decide | reservations, replays and late facts |
| **Learning and curation** `skill_curator.py`, `curator_budget.py`, `skill_history.py`, ... | saved notes, leases, budgets, Skill versions | save, review, install, dismiss, roll back | a model call of minutes in the middle of a decision |
| **Task workspaces and results** `task_results.py`, `delivery.py`, `context.py`, ... | links of tasks, workspace record, policies | import, deliver, open, confirm | stale revisions, reuse of references |
| **Event bus, authentication** `backend/events.py`, `auth.py` | the connected client | emit | order of frames |
| **Protocol** `protocol/v2` | none | validate | none |
| **Exports, datasets, literature, figures** | files | convert | pure I/O |
| **Batch, command line, doctor** | none | drive the backend | none |
| **Desktop** `frontend/` | its view of requests | submit, repeat, restart the backend | repeats after a lost backend |

How they interact: the host hands one frame at a time to `handle`, which
reserves the request row and dispatches. A `session.submit` claims its task
(`begin_task_request`), prepares or reuses the cached runtime of the
conversation and starts an asyncio task, here called the *agent*; the handler
then returns and the next frame is read, so agents and later requests share
the loop. The agent streams the engine's events. Its tools change the
exploration tree, or dispatch a wave of Experts (`ocean_assign`): one delegate
coroutine per work order, which holds the lock of its Expert session and awaits
a participant, which runs programs in the sandbox. When the agent ends, it
settles leftover Expert work, records the Coordinator's conclusion, displays
the answer, and commits the terminal together with the new checkpoint. A
`request.cancel` cancels the asyncio task, waits for it and commits both
terminals. Experts leave notes of experience; between turns the Skill Curator
reviews them. When the process ends, open rows are settled by the drain or by
the next start, which first migrates the database.

What makes each part correct:

- *Journal and router*: every open request has somebody who will settle it and
  does get settled; a terminal is final and is what the client was told; a
  task's slot names a request in progress in that task and is released with its
  terminal; two agents never share a conversation; what a task remembers was
  written by a completed request whose answer was received and displayed; a
  stopped request leaves no question behind.
- *Task memory*: no completed turn is lost; a checkpoint is a prefix of the
  conversation; failed turns do not become memory (they do, see section 5).
- *Expert team*: rounds of one Expert do not overlap; every round gets one result;
  no round stays open behind a closed request, and no program without the Expert
  that waits for it; a result cites all that was computed, restarts included.
- *Execution and sandbox*: a success is whole; what was recorded of the outputs
  stays true; nothing of a stopped group runs on; no source is probed twice and
  nothing that is on record computed again; every execution ends.
- *Artifact commits*: a commit appears atomic: a version is listed if and only if
  its request was told so, its files are never lost and never left behind
  unlisted, and a request settles whatever fails.
- *Exploration*: the budget is charged once per order and kept; recorded facts are
  final; nothing is decided on a tree that has moved on unseen; an answered
  question stays settled.
- *Curation*: no version of a Skill is overwritten unread, notes and versions agree,
  what is reserved and reported for calls stays within the budget, nothing is
  published from a task that has moved on, and every note comes up for review.
- *Migrations*: no crash loses rows, a database that opens has the schema of a new
  one, it opens again after every crash, and the newest backup is kept (neither is
  so, see section 5).

## 2. The modules

| Module | Models | Kind |
|---|---|---|
| `RequestStore` | the transactions of `store.py` about requests, one operator per method | operations |
| `RequestRouter` | `router.py` and `host.py` over `RequestStore` | component, composed |
| `RequestJournal` | what the journal promises, without handlers or rows | abstract specification |
| `TaskMemory` | the two memories of one task's conversation | component |
| `Conversation` | what the memory of a task keeps, without engines or caches | abstract specification |
| `ArtifactCommit` | `artifacts/service.py` and `files.py` over the intents of `store.py` | component |
| `ArtifactLibrary` | what a commit promises, without files, intents or restarts | abstract specification |
| `ArtifactLineage` | the links a commit may make and the impact of a change | functions |
| `ExpertWorkStore` | the transactions of `store.py` about work orders and executions | operations |
| `TeamWork` | `team/orchestrator.py`, `ocean_assign`, publication and `expert_recovery.py` over `ExpertWorkStore` | component, composed |
| `WorkBook` | what the team promises about the rounds it records | abstract specification |
| `ExpertOutputs` | from the save journal of a program to task results | functions |
| `WorkPlan` | from a plan of the Coordinator to a wave of rounds | functions |
| `ExpertMemory` | what an Expert is told of its past | functions |
| `TaskAnswer` | from the Coordinator's texts to the answer of a request | functions |
| `CodeExecution` | `expert_execution.py` in the supervised `sandbox/execution.py` | component |
| `ExecutionRecord` | what running code promises the Expert | abstract specification |
| `ResearchExploration` | the tree of `exploration.py` with Coordinator, router and Experts | component |
| `ResearchQuestion` | what exploring a question promises, without trees or revisions | abstract specification |
| `SkillCuration` | `skill_curator.py`, `curator_budget.py`, `skill_history.py`, saved notes | component |
| `SkillHistory` | what learning promises about versions and notes | abstract specification |
| `SchemaScripts` | the SQL of every version, and what SQLite does with it | operations |
| `SchemaMigration` | a start of the store: backups, scripts, crashes | component |
| `TaskSources`, `WorkspaceState` | sources and shown versions of a task; the record of a workspace | functions |
| `MC*` | instances for TLC, with the checks of the function modules | TLC |
| `*Proofs` | invariants, action properties and refinements for every size | proofs |

### RequestStore

The store is one SQLite connection behind one lock, and each writing method is
one `BEGIN IMMEDIATE` transaction; hence one atomic operator per method. A
store error rolls back, and is a guard. `state` is the row's state and
`scope` the conversation the row names; `task`, `slot` and `checkpoint` are the
columns `status`, `active_request_id` and the checkpoint pointer of
`research_tasks`; `workflow`, `interaction`, `receipt` and `toolCall` are the
per-request rows of the other tables; `shown`, `answers` and `marked` describe
the display rows (`task_transcript_items`). `ToolCallsClosed`, `SlotsReleased`,
`InteractionsInterrupted` and `WorkflowSet` are the private helpers that every
terminal is built from. `RecoverIncomplete` is the start-up recovery, with its
three cases: a request with a Coordinator receipt was delivered and completes;
any other becomes interrupted; display rows are marked only for rows without a
workflow.

### RequestRouter

`line`, `pc` and `news` are the line handler: the request it works on, where it
is, and the terminals it is about to emit. `agent[r]` is the phase of the
asyncio task of submit `r`:

    streaming -> settling -> concluding -> answered -> completed -> closing -> none
        |            |                        |
        +------------+------------------------+--> failed -> closing
      (any running or announced phase) --cancel--> closing --cancel--> aborted

`graph` is the set of model graphs still running, which is not the set of
streaming agents: an agent that runs out of its tool budget leaves its stream
open behind it (`router.py:3739`). `cached` is `_agent_sessions`, `asking` is
`_pending_questions`. A phase other than `none` stands for membership in
`_agent_tasks` and `_agent_request_sessions`, `aborted` for an ended task that
never left them.

Steps interleave where the code awaits. Two stretches do not suspend although
they contain several transactions: from the check of a submit to the end of
`start_task_workflow`, and from the recording of the conclusion to the answer
row. `LoopHeld` marks them: nobody else moves, but the process may still crash
in between. `host` is `up`, `draining` (`shutdown_active_analysis` is running)
or `down`; `Crash` is possible at any point, `Restart` runs
`recover_incomplete`.

`seen[r]` is a history variable with the terminals the client was told of,
through emissions and through replays. It is what the journal is compared
with.

### RequestJournal

The abstract promise: a request is accepted once, may come to own its conversation,
and gets one outcome in the same step in which it gives the conversation back; only
an owner that completes becomes what the conversation remembers; a deleted task
takes its outcomes along. Mapping: `outcome` is `state` with `accepted` and
`in_progress` merged into `open`, `home` is `scope`, `owner` is `slot` and `memory`
is `checkpoint`. That every handler step is one of these four abstract steps or a
stutter is the property `JournalRefined`.

### TaskMemory

A turn stands for all messages of one submitted request. `thread` is the LangGraph
state in the task's workspace, `checkpoint` the stable checkpoint in the journal,
`current` whether it was written under the present runtime policy, and `messages`
and `seed` what the cached engine holds. A new runtime loads the checkpoint
(`Restored`), puts it in front of the first input of an empty thread (`Reads`), the
graph saves its input before it calls the model (`Records`), a model error is
resumed on the saved graph (`Pauses`, `Resumes`), and a finished turn refreshes the
engine's messages and makes them the checkpoint (`Answers`, `Commits`). That refresh
takes the whole thread, turns that failed after the graph saved their input
included. Turns fail, are cancelled, runtimes are evicted for other tasks and
processes crash between any two of these steps. That turns of one task do not
overlap is assumed here and is `OneAgentPerConversation` of `RequestRouter`.

### Conversation

One conversation that only grows, by one turn at a time and each turn once; a turn
that completes is its end, and what survives the program is the conversation as it
was when a turn completed. It is derived from the code: turns that failed or were
cancelled are part of the conversation, and the next completion makes them stable
with the rest, which is not what ADR 0015 says (`FailedTurnsStayOut`, section 5).
Mapping: `said` is `thread`, `stable` is `checkpoint`,
`fate` is `outcome`; engines, seeds, retries and evictions are stutters.
`ConversationRefined` is this specification as a property of `TaskMemory`.

### ArtifactCommit

Files and rows cannot change together, so `ArtifactService.commit` goes through
four places: a directory in staging (`Begins`, `Stages`), an intent row
(`Prepares`), the rename (`Finalizes`), and the transaction that inserts the
version, moves the workspace revision on and commits the request's terminal
(`Commits`). `op` and `pc` say where the one running operation is:

    idle -> staging -> staged -> prepared -> finalized -> idle
               |          |          |           |
               |          +----------+-----------+--> raised --> failing -> moved -> failed -> idle
               +-----------------------------------------------------------------> failed
    (raised -> failed where no intent is prepared; a recovery: moved -> idle)

`raised` is the `except` clause of `commit`, which reads the intent again and
quarantines only a prepared one. `recover_pending` (`Recovers`) joins this
picture at `prepared`, `finalized` or `failing`, depending on which directories
it finds, but its `except` clause goes to `failing` at once; an exception of the
quarantine itself ends the constructor of the host (`QuarantineFails`).
`FinalizeFails` may come after the rename and `CommitRaises` after the `COMMIT`,
since the code verifies checksums and refreshes file modes there.
`OtherCommit` is any other request that moves the workspace revision on. A crash
may come at any point; `RecoveryEnds` is the following `recover_incomplete`.

`commit` does not suspend, and the four requests that call it
(`router.py:1051`, `1196`, `1252`, `1296`) run in the line handler: one
operation at a time is what the code does, not a bound.

### ArtifactLibrary

A request publishes the next version of its artifact in the same step in which
the workspace moves on, on the revision it expects and after every published
version of the artifact, or is rejected and leaves no trace. Mapping: `new` and
`open` as in the request row, `completed` is `published`, `failed` and
`interrupted` are `rejected`. `LibraryRefined` is this specification as a
property of `ArtifactCommit`.

### TeamWork over ExpertWorkStore, and WorkBook

A foreground request awaits one delegate per dispatched order (`phase`,
`awaited`); a delegate goes

    waiting -> preparing -> running -> returned
       ^           |           |  \
       |           v           |   +--> backoff --> preparing
     idle        raised   cancelling --> raised

(`pc`), holding the lock of its Expert session (`lock`) from `preparing` on;
its participant (`part`) is `active`, `timing` after the wall-time limit, or
`stopping` after a cancellation, and may outlive the delegate. `Stops` is
`task.cancel()` on the agent: gather cancels every delegate, one that awaits its
participant cancels that and shields the wait; `StopsAgain` is the second
cancellation, which ends the shielded wait. `Settles` and `Settled` are
`settle_request` and `close_request`. `ExpertWorkStore` has one operator per
transaction on a work row: `Created` starts a round from the evidence and the
accepted results of the last, `Completed` refuses a row that has settled,
`FinishExecution` notes a success in the row of its order whatever the state of
that, `Salvaged` is the result the backend writes from what a row has saved.
After `Dies`, `Restart` and the recovery settle executions from their manifests
(`SettlesManifest`), fail the others, bind published results to active rows and
interrupt these.

`WorkBook` is the promise: a round is opened once, gets one result, and is
opened again only where the backend had to write that result after a transient
failure; what was computed and accepted is never taken back. `WorkBookRefined`
is this specification as a property of `TeamWork`.

### ExpertOutputs, WorkPlan, ExpertMemory, TaskAnswer

Pure parts of the same code, as functions of what is on record. `ExpertOutputs`
reads the save journal of a program, keeps the last declaration of each file,
lets an accepted one hide later ones, decides author and status of a result, and
publishes a list of paths from the front. `WorkPlan` is the admission of a wave:
one round per Expert, numbers, budgets, which interrupted round is taken up
again. `ExpertMemory` is what a later round sees: the bounded packet of earlier
rounds with its omitted counts, the last failures, the projection of a long
conversation, the saved history. `TaskAnswer` picks the text that counts as the
answer, the results that go with it, and the citations between them.
`ExpertOutputs!Delivered`, an abstraction of these outputs to sets of
executions, is what `TeamWork` uses; that the two agree is checked
(`OutputsAreDelivered`).

### CodeExecution

A call of `ocean_expert_run_code` goes

    idle -> context -> probing -> starting -> running -> term -> kill -> drain -> settling -> over
                 \-> unprobing

(`pc`): it waits for the analysis contexts of its sources, one probing call per
source (`lock`, `cache`), records an execution, starts a process group and
supervises it. The group is two processes (bwrap and what it runs) that write files,
close their pipes, ignore SIGTERM and end as they like; the supervisor stops it at
its wall time, at a limit, for orphans or for a cancellation (`why`): SIGTERM and a
grace period (`term`), then SIGKILL if anything is left and another grace period
(`kill`), after which only the leader is awaited (`Killed`). `group` holds the
processes that may still run code of the program, so SIGKILL empties it, while the
leader is reaped later (`Reaped`). The supervisor then reads the streams to their
end or gives them up, judges (`Judged`), and writes a manifest and then the row
without an await in between. A crash may come at any step, and a context that cannot
be saved fails the call (`ProbeUnsaved`). A call that finds a saved success of its
program returns that (`Spared`).

`ExecutionRecord` says what that is for: a call is `new`, `admitted` or `dropped`,
`running`, `proven` and then has a status; only what is proven succeeds, it does
nothing else, keeps its files, and admits no other call of its program. `Recorded(c)`
maps a call to it by its row, by its manifest while the row is running (`proven`),
and by its place where there is no row. `RecordRefined` is this specification as a
property: a death between manifest and row, with the recovery after it, is one
`Concludes`.

### ResearchExploration

The tree is one JSON document under a revision. `ocean_exploration` (`Starts`,
`Proposes`, `PlansTest`, `Records`, `Adjudicates`, `Pauses`, ...) acts on the
revision the Coordinator last read, `ocean_assign` (`AssignOpens`, `Assigns`,
`AssignReturns`) resumes the question and charges its budget with the Expert rounds
of a wave, and Experts record facts of their own. Every action of the tool on a tree
of the current version is an action of the module.

`ResearchQuestion` is the promise of it: what was found stays found, attempts are
paid for once each out of a budget, nobody judges a hypothesis or decides the
question without knowing all that was found, or decides it while a test is awaited.
Mapping: `found` and `awaited` are the facts and the running tests of the tree,
`verdict` the states of its hypotheses, `answer` a final stop, `spent` the charged
orders, `view` what the Coordinator has read. `QuestionRefined` is this
specification as a property of `ResearchExploration`.

### SkillCuration

Agents save notes while a task works; when it rests its notes become eligible. A
review takes a batch (`Begin`), reserves budget for each model call before it is
placed (`PlaceCall`), reads what the model asks for (`CallReads`), gives up on an
answer of no use (`CallUseless`) or a call that fails (`CallFails`), then applies
the decisions one transaction at a time (`Decision`), presents them in the results
of the tasks and ends. Meanwhile tasks resume, days pass, the user restores an
earlier version from another process, and the backend dies. `docs[s]` is the history
of a Skill with author, base and cited notes of every version. `spent` is the sum of
the reservations of the day, as `curator_calls` has it. `accounted` is a history
variable: each call of the day counts for the usage the provider reported, or for
its reservation where there is no report. What the provider really charges for a
call that reported nothing is not in the model (section 6).

`SkillHistory` has neither reviews nor tasks: a note is saved and decided on once, a
version is published in the step that decides on the notes it cites, and restoring
one appends it once more ("restoration creates a new revision, never rewrites
history"). `HistoryRefined` is this specification as a property of the Curator, the
user and the deletion of tasks over one store.

### SchemaScripts and SchemaMigration

`SchemaScripts` has all versions as sequences of statements (`CREATE`, `ALTER`,
`INSERT ... SELECT`, `RENAME`, `DROP`, with their `IF NOT EXISTS`) over a database
of tables with columns, rows and the versions recorded. `SchemaMigration` opens a
workspace of any release, with the backups that earlier upgrades left in it
(`Earlier`: made by any release and brought to this one by the backups of each
version between, `LeftBehind`): it takes a backup, runs the scripts in autocommit one
statement per step, may die between any two, and starts again. `disk` is what is
committed and `db` what the connection sees: they differ in versions 46 and 47,
whose script and record are one transaction. Everywhere else each statement is
committed by itself (`Execute`) and the row that records the version is one more
(`Records`), so a version whose script is done may be run again. The rows of a
workspace are followed by the name of the table they were written to: `RowsKept`
looks for them wherever a rename or a copy has brought them (`Origin` names the
table that one set aside stands for).

### ArtifactLineage, TaskSources, WorkspaceState

`ArtifactLineage`: the links a version of each type must and may not have, and
the impact of a superseded, invalidated or tombstoned version on all that rest on
it. `TaskSources`: the path a client names, what a snapshot takes along, when an
import uses an existing reference again, how an answer decides what a task
shows, what a viewer may open. `WorkspaceState`: the workspace record with its
revision, active versions and the versions of the disclosure policy.

## 3. The runs

Every module, run, mutant and mapped line is listed in `PROJECT.json`. A mutant
is a plausible slip in a mapped definition, which the run then reports.

| Run | Instance | Question | Result |
|---|---|---|---|
| `router_restart` | 2 submits, 1 command, 1 task and a conversation without one, 2 processes | Do ownership, what the client was told and what is remembered stay consistent through cancellations, crashes, drains and restarts, and is the abstract journal implemented? | holds |
| `router_liveness` | 2 submits over 2 tasks, 2 processes, fair | Does the line handler always return and every request settle, with runtimes that are evicted and followed up? | holds |
| `router_aborted_cleanup` | 2 submits, 1 command, 1 process | Is a follow-up ever misclassified as concurrent work? | violated, section 5 |
| `memory_turns` | 3 turns, an old checkpoint or none, 1 retry | Is a completed turn ever lost, and is `Conversation` implemented? | holds |
| `memory_failed_turns` | as `memory_turns` | Do failed turns stay out of memory? | violated, section 5 |
| `artifact_commits` | 2 requests, 2 artifacts, 3 processes, fair | Is a commit atomic, are its files kept, and does its request settle, whatever fails or crashes? | holds |
| `team_work` | an Expert asked twice by two requests, a discussion next to it, 1 program, 2 processes, up to 2 cancellations of each request, fair | Do rounds of one Expert overlap, is a round or a program left behind, is computed evidence ever lost, is the book of rounds implemented, and does every round end? | holds |
| `code_execution` | 2 concurrent calls of one program on one source, one cancelled up to twice, 2 processes, fair | Are successes whole and records final, does nothing of a stopped group run on, is a source probed once, does every execution end, and is `ExecutionRecord` implemented? | holds |
| `exploration` | 2 hypotheses, a Coordinator's and an Expert's test, 2 orders, budgets 1 and 2 | Is the budget kept, are facts final and decisions informed while Experts record, and is `ResearchQuestion` implemented? | holds |
| `curation` | 2 notes of a task with 2 rounds, a batch of 1, a shipped Skill and a new one, 1 decision a review, 1 rollback, fair | Do versions, notes, reservations and publication stay right around minutes of waiting, does every note come up, and is `SkillHistory` implemented? | holds |
| `schema_migration` | every release 0..47 with every set of backups of earlier upgrades, one crash between any two statements | Are rows kept, is the schema that of a new database, where does a start fail for good, and is the backup there but for the one case named? | holds |
| `schema_backups` | every release, every set of backups of earlier upgrades, no crash | Is the newest backup kept? | violated, section 5 |

**Checks of functions.** The function modules have no steps. Their properties are
named assumptions of the MC modules, which TLC evaluates over all inputs of small
sets before it starts:

- `team_work` (`MCTeamPlan`): on outputs `LastSaveCounts`, `OutputsAreDelivered`,
  `ComputedIsCited`, `NamesResolve`, `AcceptedInOrder`, `ChunksCover`; on waves
  `WavesAreSound`, `WaveMayExceedTheTeam`, `OrderedIsDoable`; on memory
  `NothingIsLostSilently`, `FailureIsRecalled`, `AnswerEndsTheRound`,
  `LatestFailureStaysInView`, `HistoryKeepsAll`; on answers `LatestRoundSpeaks`,
  `AnswerLeadsToResults`, `CitationsAreUnambiguous`, `ConclusionFollowsAssignments`.
- `artifact_commits` (`MCArtifactCommit`): `ImpactIsTheWorst` (against paths to a
  cause), `LineageIsSound`, `CorrectionMayBeStale`.
- `memory_turns` (`MCTaskMemory`): `SourceIsInside`, `StagedGoesAlone`,
  `ImportIsReused`, `AnswerDecidesForItself`, `ViewersAreBounded`,
  `DisclosureIsConfirmed`, `ConfirmationIsNotRestored`.

`WaveMayExceedTheTeam`, `CorrectionMayBeStale` and `ConfirmationIsNotRestored`
state what the code surprisingly allows, by an example.

**Bounds and why they are enough.**

- *Router.* Every conflict in the code is between a request and at most one other
  of its conversation (predecessor and follow-up, owner and refused, kept runtime
  and evicted one), hence two submits. The line handler takes one command at a
  time. Two processes give a crash, a full recovery and work afterwards. Two tasks
  where eviction matters.
- *Memory.* Three turns let a failed turn stand between two completed ones with an
  eviction or a crash on either side. `RETRY_DELAYS` has four delays; the steps
  only count.
- *Artifacts.* Two requests give a version that follows another, committed,
  quarantined or still reserved; `MaxRevision` and `MaxVersion` of 2 let one of
  them or another request move the workspace on under the other. Three processes
  let a recovery fail or crash and be recovered in turn.
- *Team.* Conflicts are between rounds of one session, so two rounds of it, of two
  requests, with a delegate of another session in the same wave, which is what
  makes gather leave one behind. One retry; two cancellations reach every place
  of a delegate (the third finds nothing left to cancel). One program, in whatever
  round starts it, is finished before or after the result, retried around, accepted,
  or met by the recovery. Two programs that save one file have been checked with two
  requests of the Expert and no discussion; the two dimensions together are beyond a
  short run.
- *Execution.* All sharing is by program or by source, so two calls share both.
  Two cancellations separate the one that is honoured from the one that gives up
  waiting. Allowance 2 admits both calls.
- *Exploration.* One test by each author and two orders: the second order is the
  replay, the late one or the one over budget.
- *Curation.* Two notes and a batch of one, so that one must wait while the other is
  reviewed, decided, deferred or missed; two rounds let the task move on under a review;
  one rollback falls between any two steps. Reviews of several notes with several
  decisions are left to the proofs, which bound neither: TLC has checked the same
  invariants and `HistoryRefined` with a batch of two and two decisions, where
  `EveryNoteComesUp` would have nothing to say about two notes.
- *Migrations.* Every release is an initial state and every pair of statements a
  place to die; a second crash of the same start repeats a first one. The backups of
  a release are those of an upgrade from each earlier one, or none.

**Symmetry** is declared for submits and commands in `router_restart`, turns, and
results and hypotheses of `exploration`, in runs without liveness properties.

**Deadlock** is not checked where the system may rest: a backend waits for its
next request, all requests, calls or notes may be settled, a failed start fails
for good.

**Fairness.**

- *Router* (`FairSpec`): `WF(LineStep)` and `WF(AgentStep(r))`, the event loop runs
  every coroutine that can go on, and an agent's stream ends: the provider answers
  or errs, and the limits on turns, tool calls and waiting end a stream that does
  not (`backend/router.py:3338-3460`). `WF(DrainEnds)`: a closing process ends once
  its agents have. `WF(Restart)`: the desktop starts the backend again. Nothing is
  assumed of clients, crashes and the end of input. Fairness is per agent and not
  per action, so it forces no particular way of ending.
- *Artifacts*: straight-line code goes on, and `WF(Restart)`. That a recovery fails
  only finitely often is the bound on processes: if every quarantine failed for
  ever, no start would succeed.
- *Team*: coroutines go on, participants have a wall-time limit and executions
  theirs, and the desktop starts the backend again (`Fairness` of `TeamWork`, per
  request, order and execution).
- *Execution*: the event loop and its timers (`CanGoOn`, with the wall time and the
  grace periods), that a process which got SIGKILL dies, and `WF(Restart)`. Nothing
  is assumed of the program.
- *Curation*: the review loop runs (`Begin`), model calls return or time out, tasks
  come to rest and are then counted as such. Users and crashes owe nothing.

There are finitely many processes in each instance, so the last one lives long
enough, without which nothing could be promised.

## 4. The proofs

Eight modules hold theorems, for all values of the constants. `PROJECT.json` lists
the results; the lemmas they rest on are in the same modules. TLC evaluates the
assumptions on constants (`IdentityAssumption`, `OrderAssumption`, ...) in every run
of the component. Two of them say more than types. `OrderAssumption`: the rounds of
one session are all of Experts or all of discussions, because the key of a session
holds the authority of the job (`backend/router.py:2254`). `ScriptsAreCareful`,
`WorkspacesAreWhole` and `BackupsOfUpgrades` are facts about the 47 given scripts,
not choices: a script drops a table only if its version retires it or after copying
it to the table of its origin, and a workspace of release r has recorded the
versions 1 to r, with the rows of each table in it; what upgrades to release r left
in `backups/` is three files at most, none of a later version. All are closed
computations, which TLC does for every version and every release there is.

| Module | Properties proved |
|---|---|
| `RequestRouterProofs` | `TypeOK`, `ActiveSlotOwner`, `RunningHoldsConversation`, `OneAgentPerConversation`, `OpenSubmitIsOwned`, `CheckpointSound`, `SeenIsDurable`, `TerminalIsFinal`, `MemoryFollowsCompletion`, `ReceiptSurvivesRestart`, `NoQuestionAfterStop`, and `JournalRefined`: the router over its store implements `RequestJournal` |
| `TaskMemoryProofs` | `CompletedTurnsKept`, `CheckpointIsConversation`, and `ConversationRefined`: the two memories implement `Conversation`; of the functions `TranscriptTellsEverySave`, `DisclosureNeedsConsent`, `StaleClientsChangeNothing`, `ImportsLinkOnce`, `SourcesAreInside`, `LatestRoundsSpeakAlone` |
| `ArtifactCommitProofs` | `TypeOK`, `FilesKept`, `ListedIfCompleted`, `TargetAccounted`, and `LibraryRefined` |
| `TeamWorkProofs` | `TypeOK`, `OneActivePerSession`, `NoExecutionOutlivesItsExpert`, `EvidenceKept`, `LeftoverSettled`, and `WorkBookRefined`: the orchestrator over its store implements `WorkBook`; of the functions `OrderedPlansCanBeDone`, `AcceptanceStopsAtTheFirst`, `ChunksAreTheText` |
| `CodeExecutionProofs` | `TypeOK`, `SuccessIsWhole`, `OutputsAsRecorded`, `StoppedRunsNoMore`, `ContextProbedOnce`, and `RecordRefined`: the service in its sandbox implements `ExecutionRecord`; of it also `ComputedOnce` (no program starts that a manifest has as a success) |
| `ResearchExplorationProofs` | `TypeOK`, `BudgetKept`, `AnsweredIsSettled`, `DecisionIsInformed`, `FactsAreFinal`, and `QuestionRefined`: the tree implements `ResearchQuestion` |
| `SkillCurationProofs` | `NoVersionOverwritten`, `UsageWithinBudget`, `PublishedAsReviewed`, and `HistoryRefined`: Curator, user and deletion implement `SkillHistory`; with it `Accounts` (notes and the versions that cite them agree) |
| `SchemaMigrationProofs` | `RowsKept`, `BackupAtHand` |

None of the properties is inductive; each module states the invariant that is, and
TLC has checked it on the instances before.

- **Router.** That a running agent holds its conversation is established at
  `SubmitLaunches`, whose guard says nothing of slots: it needs that the line
  handler, between the claim and the launch, owns the slot and that no other agent
  runs there (`PrepareOK`), and that rests on what `line` may be at each `pc`
  (`LineOK`). So `IInv` joins `TypeOK`; `CoreOK` (`LineOK`, `AgentOK`, `PrepareOK`,
  `TurnOK`, `DownOK` and the five properties on ownership and memory); `NewsOK`
  and `SeenOK` (what is about to be emitted is what the row says, what was emitted
  still is). Each part is preserved by clients, the line handler, an agent and the
  host in a lemma of its own, with one step per action; `AgentEffect` and
  `RecoverEffect` sum up what an agent and a recovery do to request rows. The
  refinement has a lemma per abstract step and one per actor. What a Stop and a
  restart leave behind is `StopOK`, on top of `IInv`: a graph at work and a question
  that waits belong to a request with a terminal or to an agent that still reads the
  stream (`GraphOK`). Neither `ReceiptSurvivesRestart` nor `NoQuestionAfterStop` is
  inductive without it: the recovery may write a row off only because every agent of
  a dead host is gone with its graph.
- **Memory.** The turn that runs is the last of what the graph is given, then the
  last of the thread, and the engine has the whole thread once there is an answer
  (`Flow`); the thread only grows at its end. That a checkpoint is the beginning of
  the thread is a part of the invariant. For `Conversation` no turn may enter the
  thread twice, although seeds, checkpoints and retries bring it there along several
  ways: `Novel` says that a turn that is launched or read is not in the thread, that a
  runtime starts on an empty thread with the checkpoint or nothing, and that what is
  read is that and the turn (`RecordsSays`).
- **Artifacts.** `PlaceOK` (what each `pc` says of directories and intent),
  `IntentOK` (a row goes with a committed intent, reserved versions are distinct)
  and `OpenOK` (at most one request is open, and its version is newer than every
  other reserved one of its artifact, which the refinement needs).
- **Team.** `Placed(w)`: whoever prepares, runs, backs off or is being cancelled
  holds the lock of the session, a participant that works has the delegate that
  runs, and one that is stopping belongs to a request that no longer dispatches, so
  that no round is started again next to it. `Recorded(w)`: a round that settles
  while one of its programs runs was stopped, so a later success cannot be missing
  from any other result; a success is noted in its row before it can be cited.
  `Requested(r)` and `Started` are the requests and the recovery. One lemma per
  part, one step per action; the operators of the store are used through lemmas
  about what they do to a row (`CompletedFacts`, `SalvagedFacts`, `FinishFacts`).
  The refinement of `WorkBook` needs `BookInv` besides. In the book what was accepted
  only grows and what is offered never competes with it. So a row may offer one
  candidate for each file and none for a file with an accepted one (`Sound`); a row
  opens only after its request has (`Opened`); a task result without its binding
  is of a round whose process died, and is still offered by it if the round is
  active (`Orphaned`); programs are of Experts (`Owned`). `RowStep` sums up the ways
  any action changes a row, so that `Sound` is proved once per way and not per
  action; then one lemma per step of the book, and each action is one of them or a
  stutter.
- **Execution.** `Sound(c)` of each call: what its place implies for its group and
  the reason it is stopped for (`PlaceSound`), what a manifest implies for the files
  and the judgement (`ManifestSound`), and how row and manifest go together
  (`RowSound`). A call's own steps change no other call, so each action is one leaf.
  For `ExecutionRecord` it matters that a call still waiting has no row
  (`PlaceSound`) and that with a manifest nothing of the group runs, because it
  ended by itself or got SIGKILL, so that nothing writes to what is proven
  (`FilesStay`). `CallAdvances` sums up the steps of one call, and a crash and a
  restart are each one step of the record for many calls.
- **Exploration.** The attempts used are the orders charged (`BudgetKept`), nothing
  is planned or charged without a tree (`NoTree`), a final decision has all its
  tests settled and its tree paused (`AnsweredIsSettled`), and a Coordinator that
  acts on the current revision has seen every result on it (`InView`), which is what
  makes its decision informed. For `ResearchQuestion` a result is of a test that is
  done and of no other (`Kept`), so the found tests are the done ones; `RecordsFind`
  and `PlansLook` sum up what recording and planning do to the question, and every
  other action is one leaf.
- **Curation.** `Shape` (types, and that a batch was pending), `Accounts` (notes and
  versions agree in the middle of a review, too), `NoVersionOverwritten`, and
  `Ledger`: what is accounted today and what the open call has reserved stay within
  what `curator_calls` adds up to, and that within `DailyBudget`, but for what the last
  report exceeds its reservation by. In the refinement an
  installation is a `Publishes` because nothing was installed under the review since it
  read the Skill and its batch is still pending; all else that moves notes is `Closes`.
- **Migrations.** *Rows.* What a start finds after a crash may be half a script,
  which it runs again from the top, so no invariant can list the tables there are.
  `Whole` says instead that every table has rows of its origin only (`Shaped`), that
  the rows of the workspace are in some table (`Found`), and that of the script that
  is left every drop is of a retired table, or has its copy still before it, or is
  of a table whose rows are all in that of its origin (`Covered`, `Prepared`). A
  careful script is prepared on any database (`CarefulIsPrepared`), and a statement
  leaves the rest prepared (`TailIsPrepared`). *Backups.* Only three are kept, the
  last by name. All versions before a backed-up one are recorded, and so are all
  before the one being migrated (`Kept`): a start that was cut off repeats its
  version and never an earlier one, so no file is of a later version than the one
  that is made. If it sorts first among four all the same, it is of two digits and
  the other three are of one (`NamesInOrder`), which is `Crowded`; and once the
  places are so taken they stay so, as every later backup goes too. Both use that
  the connection and the file differ only within a transaction (`Machine`), and hold
  for any number of crashes, where the run allows one.

- **Functions.** `TaskMemoryProofs` has in its second half, and `TeamWorkProofs` at its
  end, theorems about functions that the code calls again and again, for inputs and
  histories of any length. They take the history
  as a function on `Nat` in which each value follows from the one before, and go by
  induction on it. The induction is of sets, not of formulas: a set of numbers with 0
  and with the successor of each of its members has all of `Nat` (`Inductive`), because
  there would be a least number outside (`LeastNat`, from the well-ordering of `Nat`).
  `TranscriptTellsEverySave`: of two saves the later one is an extension of what the
  history told, or becomes a new end of it, and either way what was told stays so
  (`TellsOn`). `DisclosureNeedsConsent`: every policy in the record is a default or was
  confirmed by one client step (`AllConsented`), and a step only adds policies
  (`AddsPolicy`), so it is enough to know who added the one in force. The revision grows
  with each change by a client, hence `StaleClientsChangeNothing`. `ImportsLinkOnce`: a
  row is used again only for the same source, and then its link is (`LinkedOnce`).
  `LatestRoundsSpeakAlone`: among the rows of one Expert with results one has the
  greatest round (`GreatestNat`). `OrderedPlansCanBeDone` is an equivalence: what a todo
  reaches is closed after as many steps as there are todos, because each step before
  finds one more (`ReachesEnds`), and the number of todos reached is an order to do them
  in. In `ChunksAreTheText`, what is read before a chunk is what lies before its start.

**Only model-checked.** Liveness is outside the prover's reach: `HandlerReturns`,
`EveryRequestSettles`, `EveryArtifactRequestSettles`, `EveryOrderSettles`,
`EveryExecutionEnds` and `EveryNoteComesUp`. So are recursive definitions
(`ArtifactLineage`) and what a fold computes for every sequence, because the theorems
on folds take operators. The other functions of `ExpertOutputs`, `WorkPlan`,
`ExpertMemory`, `TaskAnswer`, `ArtifactLineage`, `TaskSources` and `WorkspaceState` are
checked over bounded inputs. Of the migrations,
`OpensAsInstalled` and `FailsOnlyWhereUnrepeatable` name what 47 given scripts make of
a database, statement by statement: that is computation, and TLC does it for every
release and every place to die.

## 5. What the code does not keep

Three statements of the repository are refuted by runs and listed under `findings`.

`FollowUpNotMisclassified`. *"A fast follow-up must wait for that bounded cleanup
instead of being misclassified as concurrent work."* (`backend/router.py:1752`). A
cancellation that reaches an agent inside its `finally` block, while it awaits
`close_request`, ends the task before it leaves the router's tables. The task is
done, so the follow-up does not wait, and the tables still name it, so the follow-up
is refused, until the process ends.

`FailedTurnsStayOut`. *"Failed, cancelled, and interrupted requests retain the
preceding checkpoint and mark their display rows interrupted instead of becoming
memory."* (`docs/adr/0015`, lines 22-24). The preceding checkpoint is retained, but the
turn stays in the thread of the graph. The next turn of the same workspace starts on
that thread, and when it completes `_refresh_messages` (`deep_runtime.py:348`) takes
all of it as the engine's messages, which become the checkpoint
(`backend/router.py:3708`). The run shows a turn that records its input and is stopped,
and one that completes. Nor are the display rows of failed requests marked. The rest
of the memory is checked with that: `ConversationRefined` says how turns become stable,
and `CompletedTurnsKept` that none that completed is lost.

`NewestBackupKept`. *"Before a schema migration, the store performs a SQLite online
backup into `backups/` and retains the three newest successful backups."*
(`docs/adr/0008`, lines 35-36). The three that are kept are the last by file name
(`backend/store.py:2763`), and `workspace-before-v10` sorts before
`workspace-before-v7`. A workspace that was made by release 6 or before and has passed
version 9 holds the backups of versions 7, 8 and 9, from that upgrade or an earlier
one; from then on every backup of a later version is removed when it is made, and the
migration runs without it. `BackupAtHand` is what is left of the promise: in every other
case the backup is there.

Observations made while translating. They are part of the models where these have
the code in question, so the properties hold with them.

*Requests, memory, artifacts*

- The old checkpoint is given up before the graph has saved its input
  (`deep_runtime.py:312`); a turn stopped in between loses it.
- An agent that exhausts its tool budget leaves its stream open; the graph may
  begin another tool call that stays in progress (`backend/store.py:8494`).
- After a crash between answer row and terminal, recovery appends the recovered
  answer a second time (`backend/router.py:3595`). The workflow row of a cancelled
  target stays as it was (`backend/store.py:7456`), and the question of a failed
  request stays pending (`:4956`).
- `_transaction` refreshes the modes of the database files after its `COMMIT`
  (`backend/store.py:2778`) and may raise there. `commit` then reads the intent again
  and leaves a committed one alone; the `except` clause of `recover_pending`
  (`artifacts/service.py:175`) does not, and moves the files of the committed version
  into quarantine (`artifacts/files.py:176`: "Move an uncommitted state-root directory
  aside"). The mark as quarantined is refused, the constructor of the host raises, and
  the next start finds nothing to recover: the version stays listed without its files
  in place. `FilesKept` holds with that, since in quarantine they are not lost.
- The staging directory of a process that dies before the intent is never removed
  (`artifacts/files.py:62`).
- The check for circles of a commit can never refuse, since a new version has no
  incoming links; a correction derived from the version it replaces is stale from
  the start; superseding a tombstoned version turns its dependents from invalidated
  to stale. `set_artifact_lifecycle`, `set_artifact_impact_input` and
  `replace_task_request_deliveries` have no caller.

*Sources and workspaces*

- A reference to a directory is taken as unchanged when files inside it changed; a
  staged import of level `local_reference`, the default, commits a reference to
  what it then discards; the link of a reused import is a transaction of its own
  before the terminal; a staged import stays behind a process that dies between
  commit and discard.
- Changing the provider starts an unconfirmed default policy without moving the
  revision, and changing back does not restore what was confirmed.

*Expert team*

- A delegate in backoff that gather has left behind resumes after its request has
  closed. A second cancellation of a delegate leaves the session lock while its
  participant is still stopping (`team/orchestrator.py:468`), so that a follow-up may
  start next to it, against the comment at `:261`; `OneActivePerSession` counts only
  participants that were not told to stop. A second one in `close_request` skips the
  salvage of later rows.
- A payload recovered from a manifest lacks `discovered_results`, so its outputs are
  cited and not offered. `task_results.py:69-73` promises that start-up recovery
  finishes a publication; `expert_recovery.py` looks at active rows, and rows with
  results to accept have settled.
- An accepted file hides a later correction under the same path; acceptance of
  several paths stops at the first failure with the earlier ones published, and a
  retry of the list then fails as already published; candidates of all Experts of a
  task share one table of paths.
- The team's token budget is no hard limit (docstring of
  `_participant_work_budget`): a continued round counts only its latest result, and
  the cutoff is checked only before a wave that opens a round. Continuing a
  recovered round that did not fail transiently returns its stale result.
- In the packet for a later round, one count stands for an older round whose header
  does not fit, and hides all of its issues; the history repeats messages when a
  shorter conversation is extended again.

*Execution*

- Nothing consumes `concurrency_key`, so the code calls of one order run
  concurrently: the allowance of attempts may be exceeded, attempt numbers repeat,
  and two calls of one program that are admitted together both compute. A failed
  probe is cached for good as "inspection unavailable". A second cancellation leaves
  the process group, one that does not die within the grace period after SIGKILL is
  not looked at again (`sandbox/execution.py:1048`), and on macOS a group survives
  the backend.

*Exploration and curation*

- What the Curator reserves for a call is an estimate, and nothing bounds what a call
  costs that ends without a report: one that fails or times out is never settled
  (`skill_curator.py:488-491`), and the client of the provider may repeat a request
  under one reservation (`model_config.py:263`).
- `begin_tests` stores ids of work orders as `execution_id`; rounds are charged
  before they are executed, so a charged order may never start; facts recorded
  before a tree exists are not in a later one.
- Notes asked for again are not deferred, so decisions on a full batch that stay
  invalid hide newer notes: `EveryNoteComesUp` assumes that this ends. Notes with
  the fallback id `agent_saved:{task}` never become eligible. A crash after an
  install or dismissal loses the task result that `docs/adr/0020` (line 71) promises.

*Migrations*

- A crash inside the unguarded scripts 17, 22, 23, 24, 27, 28, 32, 33, 40, 44 and 45,
  or of a first start among its marks of retired versions
  (`backend/store.py:706-724`), makes every later start raise. That is every fifth
  place to die of a first start. No rows are lost. The failures were reproduced with
  the scripts of the code and SQLite.

## 6. Abstractions

- One workflow, interaction and tool-call row per request: later rows repeat the
  same steps. Optimistic revisions are one more reason to refuse, and every refusal
  is possible. Clients mint a fresh id per request; a deleted identity is spent.
- Emitting an event counts as a suspension and `close_request` may suspend: both
  only add interleavings. `task.cancel()` is delivered in the step that calls it,
  because its target runs nothing before its next resumption.
- In `TaskMemory`, a turn stands for all its messages, and a summary remembers what
  it summarizes. An error before the graph recorded its input counts as a failed
  turn.
- In `ArtifactCommit`, a directory is known by the operation whose manifest it holds
  and is `partial` or `complete`; checksums decide. Links, schema and task ownership
  are one more reason to fail, which `ArtifactLineage` has in detail.
- In `TeamWork`, an execution is its program and the one file it may declare; the
  four terminal states of a row are one, since the code decides on author and
  failure class; an order has one delegate at a time; its programs may run next to each
  other, as the calls of an Expert do; the requests of a task run one
  after the other, which is `OneAgentPerConversation`; a Stop does not arrive during
  `settle_request`. `StopsAgain` is a second cancellation that reaches a delegate: the
  router cancels one task once, so it would come from the graph runtime or from the end
  of the process, which are external.
- In `CodeExecution`, a program is a name, a tree of files the way it would be
  judged; memory and output limits are one reason; a probe is one step that waits. The
  processes of a program stay in its group: on Linux the filter denies `setsid` and
  `setpgid` (`sandbox/linux.py:84`), on macOS nothing does. A process that got SIGKILL
  runs no code any more, even while the kernel takes it down; a write of it that the
  kernel is in the middle of is left out.
- In `ResearchExploration`, what a test is about is fixed with its identity, and
  only matters whether the Coordinator has read the latest revision. `Assigns`
  allows dispatches that the form of a plan would refuse.
- In `SkillCuration`, the text of a Skill is the version it was written from, and
  evidence is the round of the task last seen. The bill of the provider is not
  modelled: `curator_budget.py:43` calls its own estimate "NOT billing tokens", so
  `UsageWithinBudget` is about reservations and reports, as the code is.
- In `SchemaScripts`, column types, constraints and the rewriting of values are left
  out, and so is the error of version 4 on duplicate intents. In `SchemaMigration` a
  backup and the removal of older ones is one step, and the upgrades that lie behind a
  workspace are taken to have kept backups as today's code does, one for each version
  and without crashes.

## 7. Not modelled

Read-only requests of the router share the reservation and the terminal of the
commands that are modelled. The components are composed through what they
guarantee each other: an artifact request holds the line handler from its
reservation to its terminal and touches no task; an agent is one actor for the
router whatever its tools do. Token wind-down, streaming of deltas and projection
of events into display items are presentation. Notebooks, figures, the scientific
view library, workspace folders, exports, datasets and literature search are data
conversion and I/O. The Windows broker is a signed program of its own. The selection
of Skills for a prompt reads files and keeps no state. The protocol models validate
and keep no state. The desktop appears only as a client that mints ids, repeats
requests and starts the backend again. Three hazards have no property: of two no
code takes up the work they concern, and the third is the late error of a recovery in
section 5; `PROJECT.json` notes them.

## 8. Plan

Done: the request core, memory, artifact commits, Expert team with its recovery,
execution and sandbox, exploration, curation and migrations, each with an inductive
invariant proved; every state invariant and action property of the passing runs but
two of the migrations, and the seven refinements `JournalRefined`, `ConversationRefined`,
`LibraryRefined`, `WorkBookRefined`, `RecordRefined`, `QuestionRefined` and
`HistoryRefined`, are theorems.

Left, in this order:

1. Theorems about the remaining functions of `ExpertOutputs`, `WorkPlan` and
   `TaskAnswer`, which select from sequences and fold them.
2. A Stop during `settle_request`, and several delegates of one order.
3. The composition of `TeamWork` with `CodeExecution`, where an execution of the
   former is a call of the latter.

## 9. Running it

    tlc -workers 2 -config router_restart.cfg MCRequestRouter
    tlapm RequestRouterProofs.tla

A run takes from seconds to about two minutes, the proofs of a module from seconds
to about three minutes.
