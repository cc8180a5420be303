---------------------------- MODULE ArtifactCommit ----------------------------
(***************************************************************************)
(* Committing immutable artifact versions: src/oceanx/artifacts/service.py *)
(* and files.py over the intents of src/oceanx/backend/store.py.  Files    *)
(* and rows cannot change together, so a commit stages a directory, records*)
(* an intent, moves the directory into place and then writes the rows; the *)
(* next start finishes or quarantines what a crash left (host.py).         *)
(*                                                                         *)
(* ArtifactService.commit does not suspend, so one operation runs at a     *)
(* time and only crashes come in between.  An operation is one request of  *)
(* the router with its draft; the router names no operation id, so         *)
(* _resume_intent is not reached.  A directory is known by the operation   *)
(* whose manifest it holds.  Links, schema and ownership of a draft are    *)
(* one more reason for the commit to fail.                                 *)
(***************************************************************************)
EXTENDS Naturals

CONSTANTS
    Operations,   \* artifact requests, each with its staged directory
    Artifacts,
    None,
    MaxRevision,  \* bound on the workspace revision
    MaxVersion,   \* bound on the versions of an artifact
    MaxRuns       \* bound: number of backend processes

ASSUME ArtifactAssumption ==
    /\ None \notin Operations /\ None \notin Nat
    /\ MaxRevision \in Nat /\ MaxVersion \in Nat /\ MaxRuns \in Nat

VARIABLES
    request,     \* request_records.state of each operation's request
    draft,       \* artifact, version and expected workspace revision
    intent,      \* artifact_commit_intents.status, "none" without a row
    rows,        \* operations with a row in artifact_versions
    revision,    \* workspace_records.revision
    staging,     \* staging directory: "absent", "partial" or "complete"
    target,      \* operations whose directory is in its final place
    quarantine,  \* operations with a directory in quarantine
    host,        \* "up", "recovering" or "down"
    op,          \* operation the process works on, or None
    pc,          \* where it is
    runs         \* processes started so far

files    == <<staging, target, quarantine>>
database == <<request, draft, intent, rows, revision>>
process  == <<host, op, pc, runs>>
vars     == <<database, files, process>>

\* A client may leave out the revision it expects.
Draft == [artifact : Artifacts, version : 1..MaxVersion, expected : 0..MaxRevision \cup {None}]

Init ==
    /\ request = [o \in Operations |-> "new"]
    /\ draft = [o \in Operations |-> None]
    /\ intent = [o \in Operations |-> "none"]
    /\ rows = {} /\ revision = 0
    /\ staging = [o \in Operations |-> "absent"]
    /\ target = {} /\ quarantine = {}
    /\ host = "up" /\ op = None /\ pc = "idle" /\ runs = 1

SameSlot(o, q) == draft[o].artifact = draft[q].artifact /\ draft[o].version = draft[q].version

Goes(from, to) == pc = from /\ pc' = to /\ UNCHANGED <<op, host, runs>>

\* An exception: commit() looks at the intent first, recover_pending does not.
Raises(from) == Goes(from, IF host = "up" THEN "raised" ELSE "failing")

\* The operation is over; a recovery goes on with the next one.
Ends(from) == pc = from /\ pc' = "idle" /\ op' = None /\ UNCHANGED <<host, runs>>

-----------------------------------------------------------------------------
(* One commit.                                                             *)

Reserved(a) ==
    {q \in Operations : (intent[q] # "none" \/ q \in rows) /\ draft[q].artifact = a}

\* next_artifact_version: one more than the last committed or intended version.
NextVersion(a, v) ==
    /\ \A q \in Reserved(a) : draft[q].version < v
    /\ v = 1 \/ \E q \in Reserved(a) : draft[q].version = v - 1

Begins(o, d) ==
    /\ host = "up" /\ request[o] = "new"
    /\ NextVersion(d.artifact, d.version) /\ d.expected \in {None} \cup 0..revision
    /\ request' = [request EXCEPT ![o] = "open"]
    /\ draft' = [draft EXCEPT ![o] = d]
    /\ staging' = [staging EXCEPT ![o] = "partial"]
    /\ pc = "idle" /\ pc' = "staging" /\ op' = o
    /\ UNCHANGED <<intent, rows, revision, target, quarantine, host, runs>>

Stages ==
    /\ Goes("staging", "staged")
    /\ staging' = [staging EXCEPT ![op] = "complete"]
    /\ UNCHANGED <<database, target, quarantine>>

\* The directory is removed, as far as it can be.
StageFails ==
    /\ Goes("staging", "failed")
    /\ \E left \in {"absent", "partial"} : staging' = [staging EXCEPT ![op] = left]
    /\ UNCHANGED <<database, target, quarantine>>

\* Mutant of Prepares: the intent comes first.
PreparesUnstaged ==
    /\ pc \in {"staging", "staged"} /\ pc' = "prepared"
    /\ intent' = [intent EXCEPT ![op] = "prepared"]
    /\ UNCHANGED <<request, draft, rows, revision, files, op, host, runs>>

\* The unique index on intents refuses a reserved version.
Prepares ==
    /\ Goes("staged", "prepared")
    /\ \A q \in Operations : intent[q] # "none" => ~SameSlot(op, q)
    /\ intent' = [intent EXCEPT ![op] = "prepared"]
    /\ UNCHANGED <<request, draft, rows, revision, files>>

PrepareFails == Raises("staged") /\ UNCHANGED <<database, files>>

\* What is in staging is verified and renamed.
Moved ==
    /\ staging[op] = "complete" /\ \A q \in target : ~SameSlot(op, q)
    /\ staging' = [staging EXCEPT ![op] = "absent"]
    /\ target' = target \cup {op}
    /\ UNCHANGED quarantine

Finalizes == Goes("prepared", "finalized") /\ Moved /\ UNCHANGED database

\* The verification fails, before or after the rename.
FinalizeFails == Raises("prepared") /\ (Moved \/ UNCHANGED files) /\ UNCHANGED database

\* Mutant of Committed: the revision is not looked at.
CommittedStale ==
    /\ intent[op] = "prepared" /\ request[op] = "open"
    /\ rows' = rows \cup {op} /\ revision' = revision + 1
    /\ request' = [request EXCEPT ![op] = "completed"]
    /\ intent' = [intent EXCEPT ![op] = "committed"]
    /\ UNCHANGED draft

\* Mutant of Committed: a request that has its terminal is left alone.
CommittedAnyway ==
    /\ intent[op] = "prepared"
    /\ draft[op].expected \in {None, revision}
    /\ rows' = rows \cup {op} /\ revision' = revision + 1
    /\ request' = [request EXCEPT ![op] = IF @ = "open" THEN "completed" ELSE @]
    /\ intent' = [intent EXCEPT ![op] = "committed"]
    /\ UNCHANGED draft

\* commit_artifact_intent: version, revision and terminal in one transaction.
Committed ==
    /\ intent[op] = "prepared"
    /\ draft[op].expected \in {None, revision}
    /\ \A q \in rows : ~SameSlot(op, q)
    /\ request[op] = "open"
    /\ rows' = rows \cup {op} /\ revision' = revision + 1
    /\ request' = [request EXCEPT ![op] = "completed"]
    /\ intent' = [intent EXCEPT ![op] = "committed"]
    /\ UNCHANGED draft

Commits == Ends("finalized") /\ Committed /\ revision < MaxRevision /\ UNCHANGED files

CommitFails == Raises("finalized") /\ UNCHANGED <<database, files>>

\* The transaction ends with COMMIT and then refreshes file modes, which may
\* raise.
CommitRaises ==
    /\ Raises("finalized") /\ Committed /\ revision < MaxRevision
    /\ host = "recovering" => runs < MaxRuns
    /\ UNCHANGED files

-----------------------------------------------------------------------------
(* What did not succeed is moved aside.                                    *)

StagingMoved ==
    /\ staging[op] # "absent"
    /\ staging' = [staging EXCEPT ![op] = "absent"]
    /\ quarantine' = quarantine \cup {op}
    /\ UNCHANGED target

\* The except clause of commit().
Catches ==
    /\ pc = "raised" /\ UNCHANGED <<op, host, runs, database>>
    /\ \/ intent[op] = "prepared" /\ pc' = "failing" /\ UNCHANGED files
       \/ intent[op] # "prepared" /\ pc' = "failed" /\ (StagingMoved \/ UNCHANGED files)

\* _quarantine_intent: the first of the two directories that exists.
MovesAside ==
    /\ Goes("failing", "moved") /\ UNCHANGED database
    /\ \/ StagingMoved
       \/ /\ staging[op] = "absent"
          /\ target' = {q \in target : ~SameSlot(op, q)}
          /\ quarantine' = quarantine \cup {q \in target : SameSlot(op, q)}
          /\ UNCHANGED staging

\* A committed intent cannot be quarantined.
Quarantines ==
    /\ IF host = "up" THEN Goes("moved", "failed") ELSE Ends("moved")
    /\ intent[op] # "committed"
    /\ intent' = [intent EXCEPT ![op] = "quarantined"]
    /\ UNCHANGED <<request, draft, rows, revision, files>>

\* Nothing catches this error in recover_pending: the constructor of the host
\* raises.
QuarantineFails ==
    /\ pc \in {"failing", "moved"}
    /\ \/ host = "up" /\ pc' = "failed" /\ UNCHANGED <<op, host>>
       \/ /\ host = "recovering" /\ runs < MaxRuns
          /\ host' = "down" /\ pc' = "idle" /\ op' = None
    /\ UNCHANGED <<database, files, runs>>

\* Mutant of Fails: the router forgets the request.
FailsSilently == Ends("failed") /\ UNCHANGED <<database, files>>

\* _fail_request: a request that has its terminal keeps it.
Fails ==
    /\ Ends("failed")
    /\ request' = [request EXCEPT ![op] = IF @ = "open" THEN "failed" ELSE @]
    /\ UNCHANGED <<draft, intent, rows, revision, files>>

-----------------------------------------------------------------------------
(* The process.                                                            *)

\* Every other request that moves the workspace on.
OtherCommit ==
    /\ host = "up" /\ pc = "idle" /\ revision < MaxRevision
    /\ revision' = revision + 1
    /\ UNCHANGED <<request, draft, intent, rows, files, process>>

Crash ==
    /\ host # "down" /\ runs < MaxRuns
    /\ host' = "down" /\ op' = None /\ pc' = "idle"
    /\ UNCHANGED <<database, files, runs>>

Restart ==
    /\ host = "down"
    /\ host' = "recovering" /\ runs' = runs + 1
    /\ UNCHANGED <<database, files, op, pc>>

\* recover_pending takes up what it finds; the order is left open.
Recovers(o) ==
    /\ host = "recovering" /\ pc = "idle" /\ intent[o] = "prepared"
    /\ op' = o
    /\ pc' = IF o \in target THEN "finalized"
             ELSE IF staging[o] # "absent" THEN "prepared" ELSE "failing"
    /\ UNCHANGED <<database, files, host, runs>>

\* Then recover_incomplete settles the requests.
RecoveryEnds ==
    /\ host = "recovering" /\ pc = "idle" /\ \A o \in Operations : intent[o] # "prepared"
    /\ host' = "up"
    /\ request' = [o \in Operations |-> IF request[o] = "open" THEN "interrupted" ELSE request[o]]
    /\ UNCHANGED <<draft, intent, rows, revision, files, op, pc, runs>>

Step ==
    \/ Stages \/ StageFails \/ Prepares \/ PrepareFails
    \/ Finalizes \/ FinalizeFails \/ Commits \/ CommitFails \/ CommitRaises
    \/ Catches \/ MovesAside \/ Quarantines \/ QuarantineFails \/ Fails

Next ==
    \/ \E o \in Operations, d \in Draft : Begins(o, d)
    \/ Step
    \/ OtherCommit \/ Crash \/ Restart \/ RecoveryEnds
    \/ \E o \in Operations : Recovers(o)

\* Code that runs goes on, and the desktop starts the backend again.
Fairness ==
    /\ WF_vars(Step) /\ WF_vars(Restart) /\ WF_vars(RecoveryEnds)
    /\ WF_vars(\E o \in Operations : Recovers(o))

Spec     == Init /\ [][Next]_vars
FairSpec == Spec /\ Fairness

-----------------------------------------------------------------------------
(* Properties.                                                             *)

TypeOK ==
    /\ request \in [Operations -> {"new", "open", "completed", "failed", "interrupted"}]
    /\ draft \in [Operations -> Draft \cup {None}]
    /\ intent \in [Operations -> {"none", "prepared", "committed", "quarantined"}]
    /\ rows \subseteq Operations /\ revision \in Nat
    /\ staging \in [Operations -> {"absent", "partial", "complete"}]
    /\ target \subseteq Operations /\ quarantine \subseteq Operations
    /\ host \in {"up", "recovering", "down"} /\ op \in Operations \cup {None}
    /\ pc \in {"idle", "staging", "staged", "prepared", "finalized", "raised",
               "failing", "moved", "failed"}
    /\ runs \in Nat

\* From the intent on, a complete copy of the version is on disk, whatever
\* fails and wherever the process dies, if only in quarantine.
FilesKept ==
    \A o \in Operations : intent[o] # "none" =>
        staging[o] = "complete" \/ o \in target \/ o \in quarantine

\* The library and the request tell one story: a version is listed if and only
\* if its request was told that it completed.
ListedIfCompleted ==
    \A o \in Operations : (o \in rows) = (request[o] = "completed")

\* A directory in its final place is a listed version or will be taken up by the
\* next start: nothing unlisted stays behind under a settled intent.
TargetAccounted == \A o \in target : o \in rows \/ intent[o] = "prepared"

\* Every artifact request settles, through crashes and failing recoveries.
EveryArtifactRequestSettles ==
    \A o \in Operations : request[o] = "open" ~> request[o] # "open"

\* What the library knows of a request.
Told(s) ==
    IF s \in {"new", "open"} THEN s ELSE IF s = "completed" THEN "published" ELSE "rejected"

Library == INSTANCE ArtifactLibrary WITH status <- [o \in Operations |-> Told(request[o])]

\* A commit appears atomic: a version is published in the step that completes its
\* request, after all others of its artifact and on the revision it expects.
LibraryRefined == Library!LibrarySpec

=============================================================================
