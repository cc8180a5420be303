------------------------- MODULE ArtifactCommitProofs -------------------------
(***************************************************************************)
(* Proofs about ArtifactCommit, for any operations, artifacts and bounds.  *)
(*                                                                         *)
(* That a listed version has its files, its request and a number of its    *)
(* own depends on where the one running operation is (PlaceOK), on what an *)
(* intent promises (IntentOK), and on the fact that at most one request is *)
(* open, whose version is newer than every other reserved one of its       *)
(* artifact (OpenOK).                                                      *)
(***************************************************************************)
EXTENDS ArtifactCommit, TLAPS

-----------------------------------------------------------------------------
(* The inductive invariant.                                                *)

Working == {"staging", "staged", "prepared", "finalized", "raised", "failing",
            "moved", "failed"}

\* Where the process is, and what that says of its operation.
PlaceOK ==
    /\ pc = "idle" <=> op = None
    /\ host = "down" => pc = "idle"
    /\ host = "recovering" => pc \in {"idle", "prepared", "finalized", "failing", "moved"}
    /\ pc \in {"staging", "staged"} => intent[op] = "none"
    /\ pc = "staged" => staging[op] = "complete"
    /\ pc \in {"prepared", "finalized"} => intent[op] = "prepared"
    /\ pc = "finalized" => op \in target
    /\ pc \in {"failing", "moved"} =>
          /\ intent[op] # "none" /\ intent[op] # "quarantined"
          /\ intent[op] = "committed" => host = "recovering"
    /\ pc = "moved" => op \in quarantine /\ op \notin target

\* Where an intent has its files, and that its version is its own.
IntentOK ==
    /\ \A o \in Operations :
          /\ request[o] # "new" => draft[o] \in Draft
          /\ intent[o] # "none" => request[o] # "new" /\ staging[o] # "partial"
          /\ (o \in rows) <=> (intent[o] = "committed")
          /\ o \in target => staging[o] = "absent"
    /\ \A o, q \in Operations :
          intent[o] # "none" /\ intent[q] # "none" /\ SameSlot(o, q) => o = q

\* At most one request is open, and it is served while the process is up.
OpenOK ==
    /\ host = "up" => \A o \in Operations : request[o] = "open" => op = o
    /\ host = "up" /\ pc \in Working \ {"raised", "failing", "moved", "failed"} =>
          request[op] = "open"
    /\ \A o, q \in Operations : request[o] = "open" /\ request[q] = "open" => o = q
    /\ \A o, q \in Operations :
          /\ request[o] = "open" /\ o # q /\ intent[q] # "none"
          /\ draft[q].artifact = draft[o].artifact
          => draft[q].version < draft[o].version

IInv ==
    /\ TypeOK /\ PlaceOK /\ IntentOK /\ OpenOK
    /\ FilesKept /\ ListedIfCompleted /\ TargetAccounted

USE DEF files, database, process

\* The initial states satisfy the invariant.
LEMMA InitIInv == Init => IInv
<1> SUFFICES ASSUME Init PROVE IInv
  OBVIOUS
<1> USE ArtifactAssumption DEF Init
<1>1. TypeOK
  BY DEF TypeOK
<1>2. PlaceOK
  BY DEF PlaceOK
<1>3. IntentOK /\ OpenOK
  BY DEF IntentOK, OpenOK, Working
<1>4. FilesKept /\ ListedIfCompleted /\ TargetAccounted
  BY DEF FilesKept, ListedIfCompleted, TargetAccounted
<1> QED
  BY <1>1, <1>2, <1>3, <1>4 DEF IInv

\* A new request takes a version beyond every reserved one.
LEMMA BeginsIInv == ASSUME IInv, NEW o \in Operations, NEW d \in Draft, Begins(o, d) PROVE IInv'
  BY ArtifactAssumption DEF Begins, NextVersion, Reserved, SameSlot, Draft, IInv, TypeOK,
     PlaceOK, IntentOK, OpenOK, FilesKept, ListedIfCompleted, TargetAccounted, Working

\* The running operation keeps the invariant.
LEMMA StepIInv == ASSUME IInv, Step PROVE IInv'
<1> USE ArtifactAssumption DEF IInv, TypeOK, PlaceOK, IntentOK, OpenOK, FilesKept,
       ListedIfCompleted, TargetAccounted, Working, SameSlot
<1>1. CASE Stages
  BY <1>1 DEF Stages, Goes
<1>2. CASE StageFails
  BY <1>2 DEF StageFails, Goes
<1>3. CASE Prepares
  BY <1>3 DEF Prepares, Goes
<1>4. CASE PrepareFails
  BY <1>4 DEF PrepareFails, Raises, Goes
<1>5. CASE Finalizes
  BY <1>5 DEF Finalizes, Goes, Moved
<1>6. CASE FinalizeFails
  BY <1>6 DEF FinalizeFails, Raises, Goes, Moved
<1>7. CASE Commits
  BY <1>7 DEF Commits, Ends, Committed
<1>8. CASE CommitFails
  BY <1>8 DEF CommitFails, Raises, Goes
<1>9. CASE CommitRaises
  BY <1>9 DEF CommitRaises, Raises, Goes, Committed
<1>10. CASE Catches
  BY <1>10 DEF Catches, StagingMoved
<1>11. CASE MovesAside
  BY <1>11 DEF MovesAside, Goes, StagingMoved
<1>12. CASE Quarantines
  BY <1>12 DEF Quarantines, Goes, Ends
<1>13. CASE QuarantineFails
  BY <1>13 DEF QuarantineFails
<1>14. CASE Fails
  BY <1>14 DEF Fails, Ends
<1> QED
  BY <1>1, <1>2, <1>3, <1>4, <1>5, <1>6, <1>7, <1>8, <1>9, <1>10, <1>11, <1>12, <1>13, <1>14 DEF Step

\* So does everything around it.
LEMMA HostIInv ==
  ASSUME IInv, \/ OtherCommit \/ Crash \/ Restart \/ RecoveryEnds
               \/ \E o \in Operations : Recovers(o)
  PROVE  IInv'
<1> USE ArtifactAssumption DEF IInv, TypeOK, PlaceOK, IntentOK, OpenOK, FilesKept,
       ListedIfCompleted, TargetAccounted, Working, SameSlot
<1>1. CASE OtherCommit
  BY <1>1 DEF OtherCommit
<1>2. CASE Crash
  BY <1>2 DEF Crash
<1>3. CASE Restart
  BY <1>3 DEF Restart
<1>4. CASE RecoveryEnds
  BY <1>4 DEF RecoveryEnds
<1>5. ASSUME NEW o \in Operations, Recovers(o) PROVE IInv'
  BY <1>5 DEF Recovers
<1> QED
  BY <1>1, <1>2, <1>3, <1>4, <1>5

\* IInv is an invariant of the artifact service over its store.
THEOREM Invariance == Spec => []IInv
<1>1. IInv /\ [Next]_vars => IInv'
  <2> SUFFICES ASSUME IInv, [Next]_vars PROVE IInv'
    OBVIOUS
  <2>1. CASE UNCHANGED vars
    BY <2>1 DEF vars, IInv, TypeOK, PlaceOK, IntentOK, OpenOK, FilesKept, ListedIfCompleted,
       TargetAccounted, SameSlot
  <2> QED
    BY <2>1, BeginsIInv, StepIInv, HostIInv DEF Next
<1> QED
  BY <1>1, InitIInv, PTL DEF Spec

\* The intents, rows and directories keep their types.
THEOREM TypeCorrect == Spec => []TypeOK
  BY Invariance, PTL DEF IInv

\* A failing stage, rename, transaction or recovery of service.py, or the end of
\* the process between any two of them, never loses the files of an intent.
THEOREM FilesAreKept == Spec => []FilesKept
  BY Invariance, PTL DEF IInv

\* commit_artifact_intent lists a version exactly when it completes the request;
\* no recovery lists a version whose request was told otherwise.
THEOREM ListedMeansCompleted == Spec => []ListedIfCompleted
  BY Invariance, PTL DEF IInv

\* Whatever finalize moved into place is listed or found by the next
\* recover_pending.
THEOREM TargetsAreAccounted == Spec => []TargetAccounted
  BY Invariance, PTL DEF IInv

-----------------------------------------------------------------------------
(* The commit appears atomic.                                              *)

\* A step of the library, seen through the refinement mapping.
LibraryStep == Library!LibraryNext \/ UNCHANGED Library!library

\* Files, intents and the process are no part of the library.
LEMMA Stutters == ASSUME UNCHANGED <<request, draft, revision>> PROVE LibraryStep
  BY DEF LibraryStep, Library!library, Told

\* A beginning commit asks.
LEMMA BeginsAsks ==
  ASSUME IInv, NEW o \in Operations, NEW d \in Draft, Begins(o, d) PROVE LibraryStep
<1> DEFINE told == [q \in Operations |-> Told(request[q])]
<1>1. told' = [told EXCEPT ![o] = "open"] /\ told[o] = "new"
  BY DEF Begins, Told, IInv, TypeOK
<1>2. \A q \in Operations \ {o} : draft'[q] = draft[q]
  BY DEF Begins, IInv, TypeOK
<1>3. Library!Ask(o)
  BY <1>1, <1>2 DEF Library!Ask, Told, Begins
<1> QED
  BY <1>3 DEF LibraryStep, Library!LibraryNext

\* commit_artifact_intent publishes, whether or not the call returns: the version
\* is new because the request is open, and nothing else happened since.
LEMMA CommittedPublishes == ASSUME IInv, op \in Operations, Committed PROVE LibraryStep
<1> DEFINE told == [q \in Operations |-> Told(request[q])]
<1>0. PICK o \in Operations : o = op
  OBVIOUS
<1>1. told' = [told EXCEPT ![o] = "published"] /\ told[o] = "open"
  BY <1>0 DEF Committed, Told, IInv, TypeOK
<1>2. ASSUME NEW q \in Operations, told[q] = "published", draft[q].artifact = draft[o].artifact
      PROVE  draft[q].version < draft[o].version
  <2>1. q \in rows /\ q # o /\ intent[q] # "none"
    BY <1>0, <1>2 DEF Committed, Told, IInv, IntentOK, ListedIfCompleted, TypeOK
  <2> QED
    BY <1>0, <1>2, <2>1 DEF Committed, IInv, OpenOK
<1>3. Library!Publish(o)
  BY <1>0, <1>1, <1>2 DEF Library!Publish, Library!Published, Told, Committed
<1> QED
  BY <1>3 DEF LibraryStep, Library!LibraryNext

\* Requests that end without a version are rejected together.
LEMMA EndingRejects ==
  ASSUME UNCHANGED <<draft, revision>>,
         NEW R \in SUBSET Operations, \A o \in R : request[o] = "open",
         NEW s \in {"failed", "interrupted"},
         request' = [o \in Operations |-> IF o \in R THEN s ELSE request[o]]
  PROVE  LibraryStep
<1> DEFINE told == [q \in Operations |-> Told(request[q])]
<1>1. told' = [o \in Operations |-> IF o \in R THEN "rejected" ELSE told[o]]
  BY DEF Told
<1>2. Library!Reject(R)
  BY <1>1 DEF Library!Reject, Told
<1> QED
  BY <1>2 DEF LibraryStep, Library!LibraryNext

\* The running operation publishes, is rejected, or goes on unseen.
LEMMA StepSimulates == ASSUME IInv, Step PROVE LibraryStep
<1>1. op \in Operations
  BY DEF IInv, TypeOK, PlaceOK, Step, Stages, StageFails, Prepares, PrepareFails, Finalizes,
     FinalizeFails, Commits, CommitFails, CommitRaises, Catches, MovesAside, Quarantines,
     QuarantineFails, Fails, Goes, Raises, Ends
<1>2. CASE Commits \/ CommitRaises
  BY <1>1, <1>2, CommittedPublishes DEF Commits, CommitRaises
<1>3. CASE Fails
  <2> DEFINE R == {op} \cap {o \in Operations : request[o] = "open"}
  <2>1. request' = [o \in Operations |-> IF o \in R THEN "failed" ELSE request[o]]
    BY <1>1, <1>3 DEF Fails, IInv, TypeOK
  <2>2. R \in SUBSET Operations /\ \A o \in R : request[o] = "open"
    OBVIOUS
  <2>3. UNCHANGED <<draft, revision>>
    BY <1>3 DEF Fails
  <2> HIDE DEF R
  <2> QED
    BY <2>1, <2>2, <2>3, EndingRejects
<1>4. CASE ~(Commits \/ CommitRaises \/ Fails)
  BY <1>4, Stutters DEF Step, Goes, Raises, Ends, Stages, StageFails, Prepares, PrepareFails, Finalizes,
     FinalizeFails, CommitFails, Catches, MovesAside, Quarantines, QuarantineFails
<1> QED
  BY <1>2, <1>3, <1>4

\* The end of a recovery rejects what is still open.
LEMMA RecoveryRejects == ASSUME IInv, RecoveryEnds PROVE LibraryStep
<1> DEFINE R == {o \in Operations : request[o] = "open"}
<1>1. request' = [o \in Operations |-> IF o \in R THEN "interrupted" ELSE request[o]]
  BY DEF RecoveryEnds
<1>2. R \in SUBSET Operations /\ (\A o \in R : request[o] = "open") /\ UNCHANGED <<draft, revision>>
  BY DEF RecoveryEnds
<1> HIDE DEF R
<1> QED
  BY <1>1, <1>2, EndingRejects

\* Every step of the service is a step of the library or a stutter.
LEMMA NextSimulates == IInv /\ [Next]_vars => LibraryStep
<1> SUFFICES ASSUME IInv, [Next]_vars PROVE LibraryStep
  OBVIOUS
<1>1. CASE UNCHANGED vars
  BY <1>1, Stutters DEF vars
<1>2. CASE OtherCommit
  BY <1>2 DEF OtherCommit, LibraryStep, Library!LibraryNext, Library!Elsewhere
<1>3. CASE Crash \/ Restart \/ \E o \in Operations : Recovers(o)
  BY <1>3, Stutters DEF Crash, Restart, Recovers
<1> QED
  BY <1>1, <1>2, <1>3, BeginsAsks, StepSimulates, RecoveryRejects DEF Next

\* Staging, intents, renames, quarantine and recovery together are one atomic
\* commit (ArtifactService.commit and recover_pending): a version appears in the
\* step that completes its request, after all others and on the expected revision.
THEOREM CommitImplementsLibrary == Spec => LibraryRefined
<1>1. Init => Library!LibraryInit
  BY DEF Init, Library!LibraryInit, Told
<1> QED
  BY <1>1, NextSimulates, Invariance, PTL
  DEF Spec, LibraryRefined, Library!LibrarySpec, LibraryStep

=============================================================================
