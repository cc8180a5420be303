---------------------------- MODULE CodeExecution ---------------------------
(***************************************************************************)
(* Python programs that an Expert runs (src/oceanx/expert_execution.py) in *)
(* the supervised sandbox (src/oceanx/sandbox/execution.py).  The model's  *)
(* tool calls run concurrently on one event loop.  A call waits for the    *)
(* context of its sources, records an execution, starts a process group    *)
(* that closes its pipes, writes files, ignores signals and ends as it     *)
(* likes, stops the group at a limit or at a cancellation, and settles the *)
(* execution from what it left.  The backend may die at any step; the next *)
(* one settles what the manifests prove (expert_recovery.py).              *)
(*                                                                         *)
(* Abstractions: the calls are those of one running work order; a program  *)
(* is a name, a tree of output files the way it would be judged, a stream  *)
(* what the reader has of it, and a limit of memory or output one reason.  *)
(* The probe of a source is one step that waits; its process group is      *)
(* stopped like the one of an execution and is not modelled again.         *)
(* Bounds: MaxStops cancellations of a call, MaxRuns starts of the         *)
(* backend.                                                                *)
(***************************************************************************)
EXTENDS Naturals, FiniteSets

CONSTANTS
    Calls,          \* calls of ocean_expert_run_code
    Programs, Program,   \* [Calls -> Programs]
    Sources,        \* input references of the work order
    Allowance,      \* max_tool_calls of its budget
    MaxStops,       \* [Calls -> Nat]
    MaxRuns,
    None

Members  == {"leader", "inner"}       \* bwrap and what it runs
Trees    == {"good", "bad"}           \* bad: too large, or with links
Statuses == {"succeeded", "failed", "timed_out", "resource_limited", "cancelled"}

ASSUME ExecutionAssumption ==
    /\ Program \in [Calls -> Programs]
    /\ MaxStops \in [Calls -> Nat] /\ {Allowance, MaxRuns} \subseteq Nat
    /\ None \notin Calls \cup [status : Statuses, tree : Trees]

VARIABLES
    host, runs, \* the backend: "up" or "down", and its starts
    pc,         \* where the coroutine of a call is
    needs,      \* sources whose context a call still lacks
    lock,       \* _analysis_context_locks: the call that probes a source
    cache,      \* the file of a source's context: "none", "torn", "whole"
    group,      \* members of the process group that may run code
    exit,       \* how the leader ended: "none", "zero", "nonzero"
    stream,     \* "partial", or at its end: "whole", "over" the limit, "lost"
    tree,       \* the files below the output directory
    why,        \* what the supervisor stops the group for
    stops,      \* cancellations of a call
    row,        \* code_executions: "none", "running" or a status
    manifest,   \* result-bundles: [status, tree] or None
    noted       \* successful_execution_ids of the checkpoint

hostVars    == <<host, runs>>
contextVars == <<needs, lock, cache>>
processVars == <<group, exit, stream, tree>>
rowVars     == <<row, manifest, noted>>
vars == <<hostVars, pc, contextVars, processVars, why, stops, rowVars>>

Init ==
    /\ host = "up" /\ runs = 1
    /\ pc = [c \in Calls |-> "idle"]
    /\ needs = [c \in Calls |-> {}]
    /\ lock = [s \in Sources |-> None] /\ cache = [s \in Sources |-> "none"]
    /\ group = [c \in Calls |-> {}] /\ exit = [c \in Calls |-> "none"]
    /\ stream = [c \in Calls |-> "partial"] /\ tree = [c \in Calls |-> "good"]
    /\ why = [c \in Calls |-> "none"] /\ stops = [c \in Calls |-> 0]
    /\ row = [c \in Calls |-> "none"] /\ manifest = [c \in Calls |-> None]
    /\ noted = {}

\* Between the manifest and the row of an execution nothing is awaited.
LoopIsFree == host = "up" /\ \A c \in Calls : pc[c] # "settling"

Goes(c, from, to) ==
    /\ LoopIsFree /\ pc[c] = from
    /\ pc' = [pc EXCEPT ![c] = to]
    /\ UNCHANGED hostVars

-----------------------------------------------------------------------------
(* run_python, up to the process.                                          *)

\* _reusable_successful_execution: the same program, recorded as a success.
Reusable(c) ==
    \E d \in noted : row[d] = "succeeded" /\ Program[d] = Program[c]

\* _next_execution_attempt.  That the last two results were the same is data.
Refusable(c) == \/ Cardinality({d \in Calls : row[d] # "none"}) >= Allowance
                \/ Cardinality({d \in Calls : row[d] \in Statuses /\ manifest[d] # None}) >= 2

\* _execution_manifest_entry: the executions whose files a new one may read.
Readable == {d \in Calls : row[d] = "succeeded"}

\* The saved result is returned, or the call is refused.
Spared(c) ==
    /\ Goes(c, "idle", "over")
    /\ Reusable(c) \/ Refusable(c)
    /\ UNCHANGED <<contextVars, processVars, why, stops, rowVars>>

\* resolve_work_order_sources: an input that is not an immutable reference, or
\* whose artifact or file is not available.
Unmounted(c) ==
    /\ Goes(c, "idle", "over")
    /\ Sources # {} /\ ~Reusable(c)
    /\ UNCHANGED <<contextVars, processVars, why, stops, rowVars>>

Begin(c) ==
    /\ Goes(c, "idle", "context")
    /\ ~Reusable(c)
    /\ Cardinality({d \in Calls : row[d] # "none"}) < Allowance
    /\ needs' = [needs EXCEPT ![c] = Sources]
    /\ UNCHANGED <<lock, cache, processVars, why, stops, rowVars>>

\* A source with a readable file costs nothing but the wait for its lock.
ReadsContext(c, s) ==
    /\ Goes(c, "context", "context")
    /\ s \in needs[c] /\ lock[s] = None
    /\ cache[s] = "whole"
    /\ needs' = [needs EXCEPT ![c] = @ \ {s}]
    /\ UNCHANGED <<lock, cache, processVars, why, stops, rowVars>>

\* Mutant of Probes: the file is looked at before the wait for the lock.
ProbesUnread(c, s) ==
    /\ Goes(c, "context", "probing")
    /\ s \in needs[c] /\ lock[s] = None
    /\ lock' = [lock EXCEPT ![s] = c]
    /\ UNCHANGED <<needs, cache, processVars, why, stops, rowVars>>

Probes(c, s) ==
    /\ Goes(c, "context", "probing")
    /\ s \in needs[c] /\ lock[s] = None
    /\ cache[s] # "whole"
    /\ lock' = [lock EXCEPT ![s] = c]
    /\ UNCHANGED <<needs, cache, processVars, why, stops, rowVars>>

Unlocked(c) == [s \in Sources |-> IF lock[s] = c THEN None ELSE lock[s]]

\* The probe answers or fails: either way its source has a context for good.
Probed(c) ==
    /\ Goes(c, "probing", "context")
    /\ cache' = [s \in Sources |-> IF lock[s] = c THEN "whole" ELSE cache[s]]
    /\ needs' = [needs EXCEPT ![c] = {s \in @ : lock[s] # c}]
    /\ lock' = Unlocked(c)
    /\ UNCHANGED <<processVars, why, stops, rowVars>>

\* The context cannot be written: the error is that of the call, and half a file may
\* stay.
ProbeUnsaved(c) ==
    /\ Goes(c, "probing", "over")
    /\ cache' \in {cache, [s \in Sources |-> IF lock[s] = c THEN "torn" ELSE cache[s]]}
    /\ lock' = Unlocked(c)
    /\ UNCHANGED <<needs, processVars, why, stops, rowVars>>

\* The row is written and the process is being created.
Launch(c) ==
    /\ Goes(c, "context", "starting")
    /\ needs[c] = {}
    /\ row' = [row EXCEPT ![c] = "running"]
    /\ UNCHANGED <<contextVars, processVars, why, stops, manifest, noted>>

Started(c) ==
    /\ Goes(c, "starting", "running")
    /\ group' = [group EXCEPT ![c] = Members]
    /\ UNCHANGED <<contextVars, exit, stream, tree, why, stops, rowVars>>

-----------------------------------------------------------------------------
(* The process group: what the program and the system may do at any time.  *)

Alive(c) == group[c] # {}

Outside == UNCHANGED <<hostVars, pc, contextVars, why, stops, rowVars>>

\* Files below the output directory change while anything of the group lives.
Writes(c) ==
    /\ Alive(c)
    /\ \E t \in Trees \ {tree[c]} : tree' = [tree EXCEPT ![c] = t]
    /\ Outside /\ UNCHANGED <<group, exit, stream>>

\* A member ends by itself or by a signal it does not ignore.
Dies(c, m) ==
    /\ m \in group[c]
    /\ group' = [group EXCEPT ![c] = @ \ {m}]
    /\ IF m = "leader" THEN \E code \in {"zero", "nonzero"} : exit' = [exit EXCEPT ![c] = code]
       ELSE exit' = exit
    /\ Outside /\ UNCHANGED <<stream, tree>>

\* The kernel has taken down a leader that got SIGKILL.
Reaped(c) ==
    /\ pc[c] \in {"term", "kill"} /\ ~Alive(c) /\ exit[c] = "none"
    /\ exit' = [exit EXCEPT ![c] = "nonzero"]
    /\ Outside /\ UNCHANGED <<group, stream, tree>>

\* The reader comes to the end of the pipe, or to its limit: the pipe may hold what
\* a process wrote before it ended.
StreamEnds(c) ==
    /\ host = "up" /\ pc[c] \in {"running", "term", "kill", "drain"}
    /\ stream[c] = "partial"
    /\ \E read \in {"whole", "over"} : stream' = [stream EXCEPT ![c] = read]
    /\ Outside /\ UNCHANGED <<group, exit, tree>>

-----------------------------------------------------------------------------
(* run_sandboxed_command.                                                  *)

Stops(c, from, reason) ==
    /\ Goes(c, from, "term")
    /\ why' = [why EXCEPT ![c] = reason]
    /\ UNCHANGED <<contextVars, processVars, stops, rowVars>>

\* _wait_for_completion returns a limit.
LimitReached(c) ==
    \/ Stops(c, "running", "wall_time")
    \/ Stops(c, "running", "limit")   \* memory_bytes, and an output that is over

AllDone(c) == exit[c] # "none" /\ stream[c] = "whole"

\* The leader has ended and its pipes are closed; others of the group may live.
Orphaned(c) == AllDone(c) /\ Alive(c) /\ Stops(c, "running", "orphans")

\* Mutant of Drained: the group is not looked for after a normal end.
DrainedOrDone(c) ==
    \/ pc[c] = "running" /\ AllDone(c)
    \/ pc[c] = "drain" /\ why[c] # "cancel" /\ stream[c] # "partial"

\* What is summarised, judged, logged and hashed comes from a group that has ended
\* or that was stopped.
Drained(c) ==
    \/ pc[c] = "running" /\ AllDone(c) /\ ~Alive(c)
    \/ pc[c] = "drain" /\ why[c] # "cancel" /\ stream[c] # "partial"

Gone(c) == ~Alive(c) /\ exit[c] # "none"

\* Mutant of Terminates: no second signal.
TerminatesPolitely(c) ==
    /\ Gone(c) /\ Goes(c, "term", "drain")
    /\ UNCHANGED <<contextVars, processVars, why, stops, rowVars>>

\* SIGTERM and the wait of the grace period; then SIGKILL if anything is left.  From
\* then on nothing of the group runs code of the program, although the kernel may
\* take longer to take it down.
Terminates(c) ==
    /\ \/ Gone(c) /\ Goes(c, "term", "drain") /\ group' = group
       \/ ~Gone(c) /\ Goes(c, "term", "kill") /\ group' = [group EXCEPT ![c] = {}]
    /\ UNCHANGED <<contextVars, exit, stream, tree, why, stops, rowVars>>

\* The group is looked at for another grace period at most; only the leader is
\* waited for.
Killed(c) ==
    /\ exit[c] # "none" /\ Goes(c, "kill", "drain")
    /\ UNCHANGED <<contextVars, processVars, why, stops, rowVars>>

\* _finish_stream_tasks gives the readers a second, then cancels them.
StreamsLost(c) ==
    /\ Goes(c, "drain", "drain")
    /\ stream[c] = "partial"
    /\ stream' = [stream EXCEPT ![c] = "lost"]
    /\ UNCHANGED <<contextVars, group, exit, tree, why, stops, rowVars>>

\* Mutant of Judged: the exit status is looked at first.
JudgedByExit(c) ==
    IF exit[c] = "zero" THEN {"succeeded"}
    ELSE IF why[c] = "wall_time" THEN {"timed_out"} ELSE {"resource_limited", "failed"}

\* _classify_terminal_status, over summarize_output_tree.  What an unsuccessful
\* program prints, was killed with or leaves may also say that it met a limit.
Judged(c) ==
    IF why[c] = "wall_time" THEN {"timed_out"}
    ELSE IF why[c] = "limit" THEN {"resource_limited"}
    ELSE IF tree[c] # "bad" /\ exit[c] = "zero" THEN {"succeeded"}
    ELSE {"failed", "resource_limited"}

-----------------------------------------------------------------------------
(* Settling.                                                               *)

\* The logs, the hashes of the outputs and the manifest, in one breath.
Collects(c) ==
    /\ LoopIsFree /\ Drained(c)
    /\ pc' = [pc EXCEPT ![c] = "settling"]
    /\ \E status \in Judged(c) :
           manifest' = [manifest EXCEPT ![c] = [status |-> status, tree |-> tree[c]]]
    /\ UNCHANGED <<hostVars, contextVars, processVars, why, stops, row, noted>>

\* finish_code_execution
Finished(c, status) ==
    /\ row' = [row EXCEPT ![c] = status]
    /\ noted' = IF status = "succeeded" THEN noted \cup {c} ELSE noted

Settles(c) ==
    /\ host = "up" /\ pc[c] = "settling"
    /\ pc' = [pc EXCEPT ![c] = "over"]
    /\ Finished(c, manifest[c].status)
    /\ UNCHANGED <<hostVars, contextVars, processVars, why, stops, manifest>>

Ends(c, status) ==
    /\ pc' = [pc EXCEPT ![c] = "over"]
    /\ IF row[c] = "running" THEN Finished(c, status) ELSE UNCHANGED <<row, noted>>
    /\ UNCHANGED manifest

\* No process, or files that cannot be written or hashed.
Fails(c) ==
    /\ LoopIsFree /\ \/ pc[c] = "starting"
                     \/ Drained(c)
    /\ Ends(c, "failed")
    /\ UNCHANGED <<hostVars, contextVars, processVars, why, stops>>

-----------------------------------------------------------------------------
(* Cancellations: of the Expert, of its request or of the backend.         *)

Cancels(c) == LoopIsFree /\ stops[c] < MaxStops[c] /\ stops' = [stops EXCEPT ![c] = @ + 1]

\* Nothing is recorded yet; a probe is stopped first.
CancelWaiting(c) ==
    /\ Cancels(c)
    /\ \/ Goes(c, "context", "over") /\ lock' = lock
       \/ Goes(c, "probing", "unprobing") /\ lock' = lock
       \/ Goes(c, "unprobing", "over") /\ lock' = Unlocked(c)
    /\ UNCHANGED <<needs, cache, processVars, why, rowVars>>

\* The source stays without a context.
ProbeStopped(c) ==
    /\ Goes(c, "unprobing", "over")
    /\ lock' = Unlocked(c)
    /\ UNCHANGED <<needs, cache, processVars, why, stops, rowVars>>

\* asyncio closes a process that it is creating.
CancelStarting(c) ==
    /\ Cancels(c) /\ pc[c] = "starting"
    /\ Ends(c, "cancelled")
    /\ UNCHANGED <<hostVars, contextVars, processVars, why>>

Supervised == {"running", "term", "kill", "drain"}

\* Mutant of CancelRunning: the cancellation is passed on at once.
CancelAtOnce(c) ==
    /\ Cancels(c) /\ pc[c] \in Supervised
    /\ Ends(c, "cancelled")
    /\ UNCHANGED <<hostVars, contextVars, processVars, why>>

\* The group is terminated and its readers finished before the cancellation is
\* passed on.
CancelRunning(c) ==
    /\ Cancels(c) /\ pc[c] \in Supervised /\ why[c] # "cancel"
    /\ pc' = [pc EXCEPT ![c] = "term"]
    /\ why' = [why EXCEPT ![c] = "cancel"]
    /\ UNCHANGED <<hostVars, contextVars, processVars, rowVars>>

\* A second cancellation interrupts that, and leaves the group to itself.
CancelAgain(c) ==
    /\ Cancels(c) /\ pc[c] \in Supervised /\ why[c] = "cancel"
    /\ Ends(c, "cancelled")
    /\ UNCHANGED <<hostVars, contextVars, processVars, why>>

Cancelled(c) ==
    /\ LoopIsFree /\ pc[c] = "drain" /\ why[c] = "cancel" /\ stream[c] # "partial"
    /\ Ends(c, "cancelled")
    /\ UNCHANGED <<hostVars, contextVars, processVars, why, stops>>

-----------------------------------------------------------------------------
(* The backend.                                                            *)

Begun == {c \in Calls : pc[c] # "idle"}

\* The pipes and locks go with the process; a probe may leave half a file.  The
\* groups go on, or on Linux (--die-with-parent) die next.
Crash ==
    /\ host = "up" /\ runs < MaxRuns
    /\ host' = "down"
    /\ pc' = [c \in Calls |-> IF c \in Begun THEN "over" ELSE "idle"]
    /\ lock' = [s \in Sources |-> None]
    /\ \E torn \in SUBSET {s \in Sources : lock[s] # None} :
           cache' = [s \in Sources |-> IF s \in torn THEN "torn" ELSE cache[s]]
    /\ UNCHANGED <<runs, needs, processVars, why, stops, rowVars>>

\* _verified_execution_payload: a success whose files are still those it hashed.
Verified(c) ==
    /\ manifest[c] # None
    /\ manifest[c].status = "succeeded" /\ manifest[c].tree = tree[c]

\* Mutant of Proven: a row that runs is failed whatever its manifest says.
ProvenNever == {}

Proven == {c \in Calls : row[c] = "running" /\ Verified(c)}

\* _settle_execution_manifests, then fail_running_code_executions.
Restart ==
    /\ host = "down"
    /\ host' = "up" /\ runs' = runs + 1
    /\ row' = [c \in Calls |-> IF c \in Proven THEN "succeeded"
                               ELSE IF row[c] = "running" THEN "failed" ELSE row[c]]
    /\ noted' = noted \cup Proven
    /\ UNCHANGED <<pc, contextVars, processVars, why, stops, manifest>>

-----------------------------------------------------------------------------
Supervises(c) ==
    \/ Spared(c) \/ Unmounted(c) \/ Begin(c) \/ Launch(c) \/ Started(c) \/ Fails(c)
    \/ \E s \in Sources : ReadsContext(c, s) \/ Probes(c, s)
    \/ Probed(c) \/ ProbeUnsaved(c) \/ ProbeStopped(c)
    \/ LimitReached(c) \/ Orphaned(c) \/ Terminates(c) \/ Killed(c) \/ StreamsLost(c)
    \/ Collects(c) \/ Settles(c) \/ Cancelled(c)

Cancellation(c) ==
    CancelWaiting(c) \/ CancelStarting(c) \/ CancelRunning(c) \/ CancelAgain(c)

Runs(c) == Writes(c) \/ Reaped(c) \/ StreamEnds(c) \/ \E m \in Members : Dies(c, m)

Next ==
    \/ \E c \in Calls : Supervises(c) \/ Cancellation(c) \/ Runs(c)
    \/ Crash \/ Restart

Spec == Init /\ [][Next]_vars

\* What the event loop, its timers and the kernel bring about: a coroutine that
\* can go on does, the deadline comes, a killed process ends, and a pipe nobody
\* writes to is read to its end.  Nothing is assumed of the program.
CanGoOn(c) ==
    \/ Launch(c) \/ Started(c) \/ Probed(c) \/ ProbeStopped(c) \/ Terminates(c) \/ Killed(c)
    \/ StreamsLost(c) \/ Collects(c) \/ Settles(c) \/ Cancelled(c)
    \/ Stops(c, "running", "wall_time")
    \/ \E s \in Sources : ReadsContext(c, s) \/ Probes(c, s)

Fairness ==
    /\ \A c \in Calls : WF_vars(CanGoOn(c))
    /\ \A c \in Calls : WF_vars(Reaped(c))
    /\ WF_vars(Restart)

FairSpec == Spec /\ Fairness

-----------------------------------------------------------------------------
(* Properties.                                                             *)

TypeOK ==
    /\ host \in {"up", "down"} /\ runs \in 1..MaxRuns + 1
    /\ pc \in [Calls -> {"idle", "context", "probing", "unprobing", "starting"}
                          \cup Supervised \cup {"settling", "over"}]
    /\ needs \in [Calls -> SUBSET Sources]
    /\ lock \in [Sources -> Calls \cup {None}]
    /\ cache \in [Sources -> {"none", "torn", "whole"}]
    /\ group \in [Calls -> SUBSET Members]
    /\ exit \in [Calls -> {"none", "zero", "nonzero"}]
    /\ stream \in [Calls -> {"partial", "whole", "over", "lost"}]
    /\ tree \in [Calls -> Trees]
    /\ why \in [Calls -> {"none", "wall_time", "limit", "orphans", "cancel"}]
    /\ stops \in [Calls -> Nat] /\ \A c \in Calls : stops[c] <= MaxStops[c]
    /\ row \in [Calls -> {"none", "running"} \cup Statuses]
    /\ manifest \in [Calls -> [status : Statuses, tree : Trees] \cup {None}]
    /\ noted \subseteq Calls

\* A success is one: the program ended with status zero before any limit, all it
\* printed was read, and its files are within their bounds.
SuccessIsWhole ==
    \A c \in Calls :
        row[c] = "succeeded" =>
            /\ exit[c] = "zero" /\ stream[c] = "whole" /\ why[c] \in {"none", "orphans"}
            /\ tree[c] # "bad"

\* "Aggregate output bytes and file count are checked after the process group has
\* stopped": the files that a manifest records are never written again, through
\* crashes of the backend and cancellations, and other executions read no others.
OutputsAsRecorded ==
    /\ \A c \in Calls : manifest[c] # None => manifest[c].tree = tree[c] /\ ~Alive(c)
    /\ \A c \in Readable : manifest[c] # None

\* Cancelling or limiting a call stops its process group: when its result is there
\* nothing of the group runs on, even if the kernel has not taken down yet what got
\* SIGKILL.  (A second cancellation does not wait for that.)
StoppedRunsNoMore ==
    \A c \in Calls : pc[c] = "over" /\ row[c] \in Statuses /\ Alive(c)
        => stops[c] >= 2 \/ runs > 1 \/ host = "down"

\* A source of a task is probed once: nobody probes what another call probes, or
\* what has a context already.
ContextProbedOnce ==
    [][\A c \in Calls, s \in Sources :
          lock'[s] = c /\ lock[s] # c => lock[s] = None /\ cache[s] # "whole"]_vars

\* Where a call is for the Expert who made it.
Recorded(c) ==
    IF row[c] \in Statuses THEN row[c]
    ELSE IF row[c] = "running"
         THEN IF manifest[c] # None /\ manifest[c].status = "succeeded" THEN "proven" ELSE "running"
    ELSE IF pc[c] = "idle" THEN "new" ELSE IF pc[c] = "over" THEN "dropped" ELSE "admitted"

Record == INSTANCE ExecutionRecord WITH
    state <- [c \in Calls |-> Recorded(c)],
    files <- [c \in Calls |-> IF Recorded(c) \in {"proven", "succeeded"} THEN tree[c] ELSE None]

\* An execution ends once, and what a manifest proves is not lost by a death of the
\* backend, computed again or changed: the service, the sandbox and the recovery
\* together implement ExecutionRecord.
RecordRefined == Record!RecordSpec

\* Every execution that starts gets a result, whatever the program does.
EveryExecutionEnds == \A c \in Calls : row[c] = "running" ~> row[c] # "running"
=============================================================================
