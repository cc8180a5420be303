------------------------ MODULE CodeExecutionProofs ------------------------
(***************************************************************************)
(* For every number of calls, programs, sources, cancellations and         *)
(* crashes: a success is whole, what a manifest records stays, nothing of  *)
(* a stopped group runs on, and nothing is probed or computed twice.       *)
(*                                                                         *)
(* The invariant says of each call what its place in the code implies of   *)
(* its row, its manifest, its process group and the reason it is stopped   *)
(* for (Sound), as no property is inductive by itself.  It is also what    *)
(* makes every step one of ExecutionRecord, or a stutter there.            *)
(***************************************************************************)
EXTENDS CodeExecution, TLAPS

Waiting == {"idle", "context", "probing", "unprobing"}

\* The files and the judgement that a manifest records are those of a group of
\* which nothing runs.
ManifestSound(c) ==
    manifest[c] # None =>
        /\ pc[c] \in {"settling", "over"}
        /\ manifest[c].tree = tree[c] /\ group[c] = {}
        /\ manifest[c].status = "succeeded" =>
              /\ exit[c] = "zero" /\ stream[c] = "whole" /\ tree[c] # "bad"
              /\ why[c] \in {"none", "orphans"}

\* A success in the row has a manifest, and the other way round once it is settled.
RowSound(c) ==
    /\ row[c] = "succeeded" =>
          manifest[c] # None /\ manifest[c].status = "succeeded" /\ c \in noted
    /\ manifest[c] # None /\ manifest[c].status = "succeeded" =>
          /\ row[c] \in {"running", "succeeded"}
          /\ pc[c] = "over" /\ host = "up" => row[c] = "succeeded"

PlaceSound(c) ==
    /\ pc[c] \in Waiting \cup {"starting"} =>
          group[c] = {} /\ why[c] = "none"
    /\ pc[c] \in Waiting => row[c] = "none"
    /\ pc[c] \in Supervised \cup {"starting", "settling"} => row[c] = "running"
    /\ host = "down" => pc[c] \in {"idle", "over"}
    /\ pc[c] = "running" => why[c] = "none"
    /\ pc[c] \in {"term", "kill", "drain"} => why[c] # "none"
    /\ pc[c] \in {"kill", "drain"} => group[c] = {}
    /\ pc[c] = "settling" => manifest[c] # None
    /\ why[c] = "orphans" => stream[c] = "whole"
    /\ why[c] = "cancel" => stops[c] >= 1
    /\ pc[c] = "over" /\ group[c] # {} => stops[c] >= 2 \/ runs > 1 \/ host = "down"

Sound(c) == ManifestSound(c) /\ RowSound(c) /\ PlaceSound(c)

HostSound == host = "down" => runs < MaxRuns

IInv == TypeOK /\ HostSound /\ \A c \in Calls : Sound(c)

CallVars(c) ==
    <<pc[c], group[c], exit[c], stream[c], tree[c], why[c], stops[c], row[c], manifest[c],
      c \in noted>>

-----------------------------------------------------------------------------
LEMMA InitInv == Init => IInv
<1> SUFFICES ASSUME Init PROVE IInv
    OBVIOUS
<1>1. TypeOK
    BY ExecutionAssumption DEF Init, TypeOK, Supervised, Trees
<1>2. HostSound /\ \A c \in Calls : Sound(c)
    BY DEF Init, HostSound, Sound, ManifestSound, RowSound, PlaceSound, Waiting, Supervised
<1> QED BY <1>1, <1>2 DEF IInv

\* What does not touch a call leaves it sound.
LEMMA Untouched ==
    ASSUME NEW c \in Calls, Sound(c), UNCHANGED <<host, runs>>, UNCHANGED CallVars(c)
    PROVE  Sound(c)'
BY DEF Sound, ManifestSound, RowSound, PlaceSound, CallVars

-----------------------------------------------------------------------------
(* Steps.                                                                  *)

LEMMA TypeNext == IInv /\ [Next]_vars => TypeOK' /\ HostSound'
<1> SUFFICES ASSUME TypeOK, HostSound, \A c \in Calls : Sound(c), [Next]_vars PROVE TypeOK' /\ HostSound'
    BY DEF IInv
<1> USE ExecutionAssumption DEF TypeOK, HostSound, hostVars, contextVars, processVars, rowVars,
        Goes, Supervised, Statuses, Trees, Members
<1>1. CASE UNCHANGED vars
    BY <1>1 DEF vars
<1>2. ASSUME NEW c \in Calls, Spared(c) PROVE TypeOK' /\ HostSound'
    BY <1>2 DEF Spared
<1>3. ASSUME NEW c \in Calls, Unmounted(c) PROVE TypeOK' /\ HostSound'
    BY <1>3 DEF Unmounted
<1>4. ASSUME NEW c \in Calls, Begin(c) PROVE TypeOK' /\ HostSound'
    BY <1>4 DEF Begin
<1>5. ASSUME NEW c \in Calls, Launch(c) PROVE TypeOK' /\ HostSound'
    BY <1>5 DEF Launch
<1>6. ASSUME NEW c \in Calls, Started(c) PROVE TypeOK' /\ HostSound'
    BY <1>6 DEF Started
<1>7. ASSUME NEW c \in Calls, Fails(c) PROVE TypeOK' /\ HostSound'
    BY <1>7 DEF Fails, Ends, Finished, Drained, Alive, AllDone, LoopIsFree
<1>8. ASSUME NEW c \in Calls, \E s \in Sources : ReadsContext(c, s) PROVE TypeOK' /\ HostSound'
    BY <1>8 DEF ReadsContext
<1>9. ASSUME NEW c \in Calls, \E s \in Sources : Probes(c, s) PROVE TypeOK' /\ HostSound'
    BY <1>9 DEF Probes
<1>10. ASSUME NEW c \in Calls, Probed(c) PROVE TypeOK' /\ HostSound'
    BY <1>10 DEF Probed, Unlocked
<1>11. ASSUME NEW c \in Calls, ProbeUnsaved(c) PROVE TypeOK' /\ HostSound'
    BY <1>11 DEF ProbeUnsaved, Unlocked
<1>12. ASSUME NEW c \in Calls, ProbeStopped(c) PROVE TypeOK' /\ HostSound'
    BY <1>12 DEF ProbeStopped, Unlocked
<1>13. ASSUME NEW c \in Calls, LimitReached(c) PROVE TypeOK' /\ HostSound'
    BY <1>13 DEF LimitReached, Stops
<1>14. ASSUME NEW c \in Calls, Orphaned(c) PROVE TypeOK' /\ HostSound'
    BY <1>14 DEF Orphaned, Stops, AllDone, Alive
<1>15. ASSUME NEW c \in Calls, Terminates(c) PROVE TypeOK' /\ HostSound'
    BY <1>15 DEF Terminates
<1>16. ASSUME NEW c \in Calls, Killed(c) PROVE TypeOK' /\ HostSound'
    BY <1>16 DEF Killed
<1>17. ASSUME NEW c \in Calls, StreamsLost(c) PROVE TypeOK' /\ HostSound'
    BY <1>17 DEF StreamsLost
<1>18. ASSUME NEW c \in Calls, Collects(c) PROVE TypeOK' /\ HostSound'
    BY <1>18 DEF Collects, Judged, Drained, AllDone, Alive, LoopIsFree
<1>19. ASSUME NEW c \in Calls, Settles(c) PROVE TypeOK' /\ HostSound'
    <2>1. manifest[c] # None
        BY <1>19 DEF Settles, Sound, PlaceSound
    <2>2. manifest[c].status \in Statuses
        BY <2>1
    <2> QED BY <1>19, <2>2 DEF Settles, Finished
<1>20. ASSUME NEW c \in Calls, Cancelled(c) PROVE TypeOK' /\ HostSound'
    BY <1>20 DEF Cancelled, Ends, Finished, LoopIsFree
<1>21. ASSUME NEW c \in Calls, CancelWaiting(c) PROVE TypeOK' /\ HostSound'
    BY <1>21 DEF CancelWaiting, Cancels, Unlocked, LoopIsFree
<1>22. ASSUME NEW c \in Calls, CancelStarting(c) PROVE TypeOK' /\ HostSound'
    BY <1>22 DEF CancelStarting, Cancels, Ends, Finished, LoopIsFree
<1>23. ASSUME NEW c \in Calls, CancelRunning(c) PROVE TypeOK' /\ HostSound'
    BY <1>23 DEF CancelRunning, Cancels, LoopIsFree
<1>24. ASSUME NEW c \in Calls, CancelAgain(c) PROVE TypeOK' /\ HostSound'
    BY <1>24 DEF CancelAgain, Cancels, Ends, Finished, LoopIsFree
<1>25. ASSUME NEW c \in Calls, Writes(c) PROVE TypeOK' /\ HostSound'
    BY <1>25 DEF Writes, Outside, Alive
<1>26. ASSUME NEW c \in Calls, Reaped(c) PROVE TypeOK' /\ HostSound'
    BY <1>26 DEF Reaped, Outside
<1>27. ASSUME NEW c \in Calls, StreamEnds(c) PROVE TypeOK' /\ HostSound'
    BY <1>27 DEF StreamEnds, Outside
<1>28. ASSUME NEW c \in Calls, \E m \in Members : Dies(c, m) PROVE TypeOK' /\ HostSound'
    BY <1>28 DEF Dies, Outside
<1>29. CASE Crash
    BY <1>29 DEF Crash, Begun
<1>30. CASE Restart
    BY <1>30 DEF Restart, Proven
<1> QED BY <1>1, <1>2, <1>3, <1>4, <1>5, <1>6, <1>7, <1>8, <1>9, <1>10, <1>11, <1>12, <1>13, <1>14, <1>15, <1>16, <1>17, <1>18, <1>19, <1>20, <1>21, <1>22, <1>23, <1>24, <1>25, <1>26, <1>27, <1>28, <1>29, <1>30 DEF Next, Supervises, Cancellation, Runs

\* A step of one call keeps it sound, and touches no other.
LEMMA SoundStep ==
    ASSUME IInv, NEW c \in Calls, Supervises(c) \/ Cancellation(c) \/ Runs(c)
    PROVE  Sound(c)' /\ UNCHANGED <<host, runs>> /\ \A d \in Calls \ {c} : UNCHANGED CallVars(d)
<1> DEFINE Goal == Sound(c)' /\ UNCHANGED <<host, runs>> /\ \A d \in Calls \ {c} : UNCHANGED CallVars(d)
<1>0. TypeOK /\ Sound(c)
    BY DEF IInv
<1> USE <1>0, ExecutionAssumption DEF TypeOK, Sound, ManifestSound, RowSound, PlaceSound, Waiting, CallVars,
        hostVars, contextVars, processVars, rowVars, Goes, Supervised, Statuses, Trees, Members
<1>1. ASSUME Spared(c) PROVE Goal
    BY <1>1 DEF Spared
<1>2. ASSUME Unmounted(c) PROVE Goal
    BY <1>2 DEF Unmounted
<1>3. ASSUME Begin(c) PROVE Goal
    BY <1>3 DEF Begin, LoopIsFree
<1>4. ASSUME Launch(c) PROVE Goal
    BY <1>4 DEF Launch
<1>5. ASSUME Started(c) PROVE Goal
    BY <1>5 DEF Started
<1>6. ASSUME Fails(c) PROVE Goal
    BY <1>6 DEF Fails, Ends, Finished, Drained, Alive, AllDone, LoopIsFree
<1>7. ASSUME \E s \in Sources : ReadsContext(c, s) PROVE Goal
    BY <1>7 DEF ReadsContext
<1>8. ASSUME \E s \in Sources : Probes(c, s) PROVE Goal
    BY <1>8 DEF Probes
<1>9. ASSUME Probed(c) PROVE Goal
    BY <1>9 DEF Probed
<1>10. ASSUME ProbeUnsaved(c) PROVE Goal
    BY <1>10 DEF ProbeUnsaved
<1>11. ASSUME ProbeStopped(c) PROVE Goal
    BY <1>11 DEF ProbeStopped
<1>12. ASSUME LimitReached(c) PROVE Goal
    BY <1>12 DEF LimitReached, Stops
<1>13. ASSUME Orphaned(c) PROVE Goal
    BY <1>13 DEF Orphaned, Stops, AllDone
<1>14. ASSUME Terminates(c) PROVE Goal
    BY <1>14 DEF Terminates, Gone, Alive
<1>15. ASSUME Killed(c) PROVE Goal
    BY <1>15 DEF Killed
<1>16. ASSUME StreamsLost(c) PROVE Goal
    BY <1>16 DEF StreamsLost
<1>17. ASSUME Collects(c) PROVE Goal
    <2>1. PICK status \in Judged(c) :
              manifest' = [manifest EXCEPT ![c] = [status |-> status, tree |-> tree[c]]]
        BY <1>17 DEF Collects
    <2> DEFINE m == [status |-> status, tree |-> tree[c]]
    <2>2. status \in Statuses /\ m \in [status : Statuses, tree : Trees] /\ m # None
        BY DEF Judged
    <2>3. /\ pc[c] \in {"running", "drain"} /\ group[c] = {}
          /\ pc[c] = "running" => stream[c] = "whole" /\ why[c] = "none"
          /\ pc[c] = "drain" => why[c] \notin {"none", "cancel"}
        BY <1>17 DEF Collects, Drained, AllDone, Alive
    <2>6. status = "succeeded" => /\ exit[c] = "zero" /\ tree[c] # "bad"
                                  /\ why[c] \notin {"wall_time", "limit"}
        BY DEF Judged
    <2>7. status = "succeeded" => stream[c] = "whole" /\ why[c] \in {"none", "orphans"}
        BY <2>3, <2>6
    <2>4. m.status = status /\ m.tree = tree[c]
        OBVIOUS
    <2>5. manifest'[c] = m /\ \A d \in Calls \ {c} : manifest'[d] = manifest[d]
        BY <2>1
    <2> HIDE DEF m
    <2> QED BY <1>17, <2>2, <2>3, <2>4, <2>5, <2>6, <2>7 DEF Collects, LoopIsFree
<1>18. ASSUME Settles(c) PROVE Goal
    BY <1>18 DEF Settles, Finished
<1>19. ASSUME Cancelled(c) PROVE Goal
    BY <1>19 DEF Cancelled, Ends, Finished, LoopIsFree
<1>20. ASSUME CancelWaiting(c) PROVE Goal
    BY <1>20 DEF CancelWaiting, Cancels, LoopIsFree
<1>21. ASSUME CancelStarting(c) PROVE Goal
    BY <1>21 DEF CancelStarting, Cancels, Ends, Finished, LoopIsFree
<1>22. ASSUME CancelRunning(c) PROVE Goal
    BY <1>22 DEF CancelRunning, Cancels, LoopIsFree
<1>23. ASSUME CancelAgain(c) PROVE Goal
    BY <1>23 DEF CancelAgain, Cancels, Ends, Finished, LoopIsFree
<1>24. ASSUME Writes(c) PROVE Goal
    BY <1>24 DEF Writes, Outside, Alive
<1>25. ASSUME Reaped(c) PROVE Goal
    BY <1>25 DEF Reaped, Outside, Alive
<1>26. ASSUME StreamEnds(c) PROVE Goal
    BY <1>26 DEF StreamEnds, Outside
<1>27. ASSUME \E m \in Members : Dies(c, m) PROVE Goal
    BY <1>27 DEF Dies, Outside
<1> QED BY <1>1, <1>2, <1>3, <1>4, <1>5, <1>6, <1>7, <1>8, <1>9, <1>10, <1>11, <1>12, <1>13, <1>14, <1>15, <1>16, <1>17, <1>18, <1>19, <1>20, <1>21, <1>22, <1>23, <1>24, <1>25, <1>26, <1>27 DEF Supervises, Cancellation, Runs

\* The death of the backend leaves every call over or not begun.
LEMMA SoundCrash == ASSUME IInv, Crash PROVE \A c \in Calls : Sound(c)'
<1> SUFFICES ASSUME NEW c \in Calls PROVE Sound(c)'
    OBVIOUS
<1> USE DEF IInv, TypeOK, rowVars, processVars
<1>1. /\ host' = "down" /\ pc'[c] \in {"idle", "over"} /\ (pc'[c] = "idle" <=> pc[c] = "idle")
      /\ UNCHANGED <<group[c], exit[c], stream[c], tree[c], why[c], stops[c], row[c], manifest[c], noted, runs>>
    BY DEF Crash, Begun
<1> QED BY <1>1 DEF Sound, ManifestSound, RowSound, PlaceSound, Waiting, Supervised

\* The next backend settles every row that still runs.
LEMMA SoundRestart == ASSUME IInv, Restart PROVE \A c \in Calls : Sound(c)'
<1> SUFFICES ASSUME NEW c \in Calls PROVE Sound(c)'
    OBVIOUS
<1> USE DEF IInv, TypeOK, processVars, contextVars
<1>0. Sound(c)
    OBVIOUS
<1>1. /\ host' = "up" /\ runs' > 1 /\ noted \subseteq noted'
      /\ UNCHANGED <<pc[c], group[c], exit[c], stream[c], tree[c], why[c], stops[c], manifest[c]>>
    BY DEF Restart
<1>2. pc[c] \notin Supervised \cup {"starting", "settling"}
    BY <1>0 DEF Restart, Sound, PlaceSound, Supervised
<1>3. row'[c] = "succeeded" =>
          manifest[c] # None /\ manifest[c].status = "succeeded" /\ c \in noted'
    BY <1>0 DEF Restart, Proven, Verified, Sound, RowSound
<1>4. manifest[c] # None /\ manifest[c].status = "succeeded" => row'[c] = "succeeded"
    BY <1>0 DEF Restart, Proven, Verified, Sound, RowSound, ManifestSound
<1>5. pc[c] \in Waiting => row'[c] = "none"
    BY <1>0 DEF Restart, Proven, Sound, PlaceSound
<1> QED BY <1>0, <1>1, <1>2, <1>3, <1>4, <1>5 DEF Sound, ManifestSound, RowSound, PlaceSound, Waiting

LEMMA InductiveInvariant == Spec => []IInv
<1>1. IInv /\ [Next]_vars => IInv'
    <2> SUFFICES ASSUME IInv, [Next]_vars PROVE IInv'
        OBVIOUS
    <2>1. TypeOK' /\ HostSound'
        BY TypeNext
    <2>2. ASSUME NEW c \in Calls, Supervises(c) \/ Cancellation(c) \/ Runs(c)
          PROVE  \A d \in Calls : Sound(d)'
        <3>1. Sound(c)' /\ UNCHANGED <<host, runs>> /\ \A d \in Calls \ {c} : UNCHANGED CallVars(d)
            BY <2>2, SoundStep
        <3>2. \A d \in Calls : Sound(d)
            BY DEF IInv
        <3> QED BY <3>1, <3>2, Untouched
    <2>3. CASE UNCHANGED vars
        <3>1. UNCHANGED <<host, runs>> /\ \A d \in Calls : UNCHANGED CallVars(d)
            BY <2>3 DEF vars, hostVars, contextVars, processVars, rowVars, CallVars
        <3>2. \A d \in Calls : Sound(d)
            BY DEF IInv
        <3>3. \A d \in Calls : Sound(d)'
            BY <3>1, <3>2, Untouched
        <3> QED BY <2>1, <3>3 DEF IInv
    <2> QED BY <2>1, <2>2, <2>3, SoundCrash, SoundRestart DEF IInv, Next
<1> QED BY InitInv, <1>1, PTL DEF Spec

-----------------------------------------------------------------------------
(* Theorems.                                                               *)

\* Every variable keeps its type.
THEOREM TypeCorrect == Spec => []TypeOK
<1>1. IInv => TypeOK
    BY DEF IInv
<1> QED BY <1>1, InductiveInvariant, PTL

\* A row that says "succeeded" stands for a program that ended by itself with status
\* zero, was read to its end and left files within their bounds.
THEOREM SuccessesAreWhole == Spec => []SuccessIsWhole
<1>1. IInv => SuccessIsWhole
    BY DEF IInv, Sound, RowSound, ManifestSound, SuccessIsWhole
<1> QED BY <1>1, InductiveInvariant, PTL

\* What a manifest records of the files stays true, and a success that later
\* programs may read has a manifest.
THEOREM OutputsStayAsRecorded == Spec => []OutputsAsRecorded
<1>1. IInv => OutputsAsRecorded
    BY DEF IInv, Sound, RowSound, ManifestSound, OutputsAsRecorded, Alive, Readable
<1> QED BY <1>1, InductiveInvariant, PTL

\* A call that is over has left nothing behind that runs code of the program, unless
\* it was cancelled twice or the backend died: every way to an end leads through a
\* group that ended by itself, or through the second signal.
THEOREM StoppedGroupsRunNoMore == Spec => []StoppedRunsNoMore
<1>1. IInv => StoppedRunsNoMore
    BY DEF IInv, Sound, PlaceSound, StoppedRunsNoMore, Alive
<1> QED BY <1>1, InductiveInvariant, PTL

\* What was computed and recorded as a success is not computed again, whoever
\* asks and whatever died after the manifest.
ComputedOnce ==
    [][\A c, d \in Calls :
          /\ pc[c] = "idle" /\ pc'[c] = "context" /\ Program[c] = Program[d]
          /\ manifest[d] # None
          => manifest[d].status # "succeeded"]_vars

\* No call starts to compute what a settled manifest says is computed already.
THEOREM NothingIsComputedTwice == Spec => ComputedOnce
<1> DEFINE Once == \A c, d \in Calls :
                       /\ pc[c] = "idle" /\ pc'[c] = "context" /\ Program[c] = Program[d]
                       /\ manifest[d] # None
                       => manifest[d].status # "succeeded"
<1>1. IInv /\ [Next]_vars => [Once]_vars
    <2> SUFFICES ASSUME IInv, [Next]_vars, NEW c \in Calls, NEW d \in Calls,
                        pc[c] = "idle", pc'[c] = "context", Program[c] = Program[d], manifest[d] # None
                 PROVE  manifest[d].status # "succeeded"
        OBVIOUS
    <2>0. TypeOK /\ Sound(d)
        BY DEF IInv
    <2>1. ~(UNCHANGED vars \/ Crash \/ Restart)
        BY <2>0 DEF vars, Crash, Restart, TypeOK
    <2>2. PICK b \in Calls : Supervises(b) \/ Cancellation(b) \/ Runs(b)
        BY <2>1 DEF Next
    <2>3. Begin(c)
        <3>1. ~Runs(b)
            BY <2>0 DEF Runs, Writes, Reaped, StreamEnds, Dies, Outside, TypeOK
        <3>2. ~Cancellation(b)
            BY <2>0 DEF Cancellation, CancelWaiting, CancelStarting, CancelRunning, CancelAgain, Ends, Goes, TypeOK
        <3>3. Begin(b)
            BY <2>0, <2>2, <3>1, <3>2 DEF Supervises, Spared, Unmounted, Launch, Started, Fails, ReadsContext,
               Probes, Probed, ProbeUnsaved, ProbeStopped, LimitReached, Orphaned, Stops, Terminates, Killed,
               StreamsLost, Collects, Settles, Cancelled, Ends, Goes, TypeOK
        <3>4. b = c
            BY <2>0, <3>3 DEF Begin, Goes, TypeOK
        <3> QED BY <3>3, <3>4
    <2>4. host = "up" /\ pc[d] # "settling" /\ ~Reusable(c)
        BY <2>3 DEF Begin, Goes, LoopIsFree
    <2> QED BY <2>0, <2>4 DEF Sound, ManifestSound, RowSound, Reusable
<1>2. [][Once]_vars <=> ComputedOnce
    BY PTL DEF ComputedOnce
<1> QED BY <1>1, <1>2, InductiveInvariant, PTL DEF Spec

\* A source is probed by one call at a time, and by none once it has a context.
THEOREM ContextsAreProbedOnce == Spec => ContextProbedOnce
<1> DEFINE Once == \A c \in Calls, s \in Sources :
                       lock'[s] = c /\ lock[s] # c => lock[s] = None /\ cache[s] # "whole"
<1>1. IInv /\ [Next]_vars => [Once]_vars
    <2> SUFFICES ASSUME TypeOK, [Next]_vars, NEW c \in Calls, NEW s \in Sources,
                        lock'[s] = c, lock[s] # c
                 PROVE  lock[s] = None /\ cache[s] # "whole"
        BY DEF IInv
    <2> USE ExecutionAssumption DEF TypeOK
    <2>1. ~(UNCHANGED vars \/ Crash \/ Restart)
        BY DEF vars, contextVars, Crash, Restart
    <2>2. PICK b \in Calls : Supervises(b) \/ Cancellation(b) \/ Runs(b)
        BY <2>1 DEF Next
    <2>3. \E z \in Sources : Probes(b, z)
        BY <2>2 DEF Supervises, Cancellation, Runs, Writes, Reaped, StreamEnds, Dies, Outside, contextVars,
           CancelWaiting, CancelStarting, CancelRunning, CancelAgain, Unlocked, Spared, Unmounted, Begin,
           Launch, Started, Fails, ReadsContext, Probed, ProbeUnsaved, ProbeStopped, LimitReached, Orphaned, Stops,
           Terminates, Killed, StreamsLost, Collects, Settles, Cancelled
    <2> QED BY <2>3 DEF Probes
<1>2. [][Once]_vars <=> ContextProbedOnce
    BY PTL DEF ContextProbedOnce
<1> QED BY <1>1, <1>2, InductiveInvariant, PTL DEF Spec

-----------------------------------------------------------------------------
(* The record of an execution.                                             *)

RecordStep == Record!RecordNext \/ UNCHANGED Record!record

Kept(c) == IF Recorded(c) \in {"proven", "succeeded"} THEN tree[c] ELSE None

\* A call may only be where its row, manifest and place say.
LEMMA RecordedCases ==
    ASSUME TypeOK, NEW c \in Calls, Sound(c)
    PROVE  /\ Recorded(c) = "new" <=> row[c] = "none" /\ pc[c] = "idle"
           /\ Recorded(c) = "admitted" <=> row[c] = "none" /\ pc[c] \notin {"idle", "over"}
           /\ Recorded(c) = "running" <=>
                 row[c] = "running" /\ (manifest[c] = None \/ manifest[c].status # "succeeded")
           /\ Recorded(c) = "proven" <=>
                 row[c] = "running" /\ manifest[c] # None /\ manifest[c].status = "succeeded"
           /\ Recorded(c) \in Statuses <=> row[c] \in Statuses
           /\ row[c] \in Statuses => Recorded(c) = row[c]
BY DEF Recorded, TypeOK, Statuses

\* What changes neither a call's row nor its manifest, nor where it waits.
LEMMA RecordStutters ==
    ASSUME \A c \in Calls : Recorded(c)' = Recorded(c) /\ Kept(c)' = Kept(c)
    PROVE  RecordStep
<1>1. UNCHANGED Record!record
    BY DEF Record!record, Kept
<1> QED BY <1>1 DEF RecordStep

\* The files of a proven execution are not written: nothing of its group runs.
LEMMA FilesStay ==
    ASSUME IInv, [Next]_vars, NEW c \in Calls, Recorded(c) \in {"proven", "succeeded"}
    PROVE  tree'[c] = tree[c]
<1>1. Sound(c) /\ TypeOK
    BY DEF IInv
<1>2. manifest[c] # None
    BY <1>1, RecordedCases DEF Sound, RowSound, Statuses
<1>3. group[c] = {}
    BY <1>1, <1>2 DEF Sound, ManifestSound
<1>4. ASSUME NEW b \in Calls, Supervises(b) \/ Cancellation(b) PROVE tree' = tree
    BY <1>4 DEF Supervises, Cancellation, CancelWaiting, CancelStarting, CancelRunning, CancelAgain,
       Spared, Unmounted, Begin, Launch, Started, Fails, ReadsContext, Probes, Probed, ProbeUnsaved, ProbeStopped,
       LimitReached, Orphaned, Stops, Terminates, Killed, StreamsLost, Collects, Settles, Cancelled,
       processVars
<1>5. ASSUME NEW b \in Calls, Runs(b) PROVE tree'[c] = tree[c]
    BY <1>1, <1>3, <1>5 DEF Runs, Writes, Reaped, StreamEnds, Dies, Alive, TypeOK
<1>6. CASE Crash \/ Restart \/ UNCHANGED vars
    BY <1>6 DEF Crash, Restart, vars, processVars
<1> QED BY <1>4, <1>5, <1>6 DEF Next

\* How one call goes on.
Advances(c) ==
    LET old == Recorded(c)  new == Recorded(c)' IN
    \/ new = old
    \/ old = "new" /\ new = "admitted" /\ ~Reusable(c) /\ LoopIsFree
    \/ old \in {"new", "admitted"} /\ new = "dropped"
    \/ old = "admitted" /\ new = "running"
    \/ old = "running" /\ new = "proven"
    \/ old = "running" /\ new \in Statuses \ {"succeeded"}
    \/ old = "proven" /\ new = "succeeded"

LEMMA CallAdvances ==
    ASSUME IInv, NEW c \in Calls, Supervises(c) \/ Cancellation(c) \/ Runs(c)
    PROVE  Advances(c)
<1>0. TypeOK /\ Sound(c) /\ TypeOK'
    BY TypeNext DEF IInv, Next
<1> USE <1>0, ExecutionAssumption DEF TypeOK, Advances, Recorded, Statuses, Goes, rowVars, Supervised
<1>1. ASSUME Spared(c) \/ Unmounted(c) PROVE Advances(c)
    BY <1>1 DEF Spared, Unmounted
<1>2. ASSUME Begin(c) PROVE Advances(c)
    BY <1>2 DEF Begin, LoopIsFree
<1>3. ASSUME Launch(c) PROVE Advances(c)
    BY <1>3 DEF Launch, Sound, ManifestSound, PlaceSound, Waiting
<1>4. ASSUME Started(c) PROVE Advances(c)
    BY <1>4 DEF Started, Sound, PlaceSound
<1>5. ASSUME Ends(c, "failed") \/ Ends(c, "cancelled"), pc[c] \in {"starting"} \cup Supervised
      PROVE  Advances(c)
    BY <1>5 DEF Ends, Finished, Sound, ManifestSound, PlaceSound
<1>6. ASSUME Fails(c) \/ Cancelled(c) \/ CancelStarting(c) \/ CancelAgain(c) PROVE Advances(c)
    BY <1>5, <1>6 DEF Fails, Drained, Cancelled, CancelStarting, CancelAgain
<1>7. ASSUME (\E s \in Sources : ReadsContext(c, s) \/ Probes(c, s)) \/ Probed(c) PROVE Advances(c)
    BY <1>7 DEF ReadsContext, Probes, Probed
<1>8. ASSUME ProbeUnsaved(c) \/ ProbeStopped(c) \/ CancelWaiting(c) PROVE Advances(c)
    BY <1>8 DEF ProbeUnsaved, ProbeStopped, CancelWaiting, Cancels
<1>9. ASSUME LimitReached(c) \/ Orphaned(c) PROVE Advances(c)
    BY <1>9 DEF LimitReached, Orphaned, Stops, Sound, PlaceSound
<1>10. ASSUME Terminates(c) \/ Killed(c) \/ StreamsLost(c) \/ CancelRunning(c) PROVE Advances(c)
    BY <1>10 DEF Terminates, Killed, StreamsLost, CancelRunning, Cancels, Sound, PlaceSound
<1>11. ASSUME Collects(c) PROVE Advances(c)
    BY <1>11 DEF Collects, Drained, Sound, PlaceSound, ManifestSound
<1>12. ASSUME Settles(c) PROVE Advances(c)
    BY <1>12 DEF Settles, Finished, Sound, PlaceSound
<1>13. ASSUME Runs(c) PROVE Advances(c)
    BY <1>13 DEF Runs, Writes, Reaped, StreamEnds, Dies, Outside
<1> QED
    BY <1>1, <1>2, <1>3, <1>4, <1>6, <1>7, <1>8, <1>9, <1>10, <1>11, <1>12, <1>13
    DEF Supervises, Cancellation

\* One call's way on is a step of the record.
LEMMA AdvanceIsRecorded ==
    ASSUME IInv, TypeOK', [Next]_vars, NEW c \in Calls, Advances(c),
           \A d \in Calls \ {c} : UNCHANGED CallVars(d)
    PROVE  RecordStep
<1> DEFINE old == Recorded(c)
           new == Recorded(c)'
<1>1. \A d \in Calls \ {c} : Recorded(d)' = Recorded(d) /\ Kept(d)' = Kept(d)
    BY DEF Recorded, Kept, CallVars
<1>2. old \in {"proven", "succeeded"} => tree'[c] = tree[c]
    BY FilesStay
<1>3. tree'[c] \in Trees
    BY DEF TypeOK
<1> USE DEF Statuses
<1>4. CASE new = old
    <2>1. Kept(c)' = Kept(c)
        BY <1>2, <1>4 DEF Kept
    <2> QED BY <1>1, <1>4, <2>1, RecordStutters
<1>5. CASE new # old /\ new # "proven"
    <2>1. Kept(c)' = Kept(c)
        BY <1>2, <1>5 DEF Kept, Advances
    <2>2. \A d \in Calls : Recorded(d)' = IF d = c THEN new ELSE Recorded(d)
        BY <1>1
    <2>3. \A d \in Calls : Kept(d)' = Kept(d)
        BY <1>1, <2>1
    <2>4. CASE old = "new" /\ new = "admitted"
        <3>1. ~Reusable(c) /\ LoopIsFree
            BY <1>5, <2>4 DEF Advances
        <3>2. ~Record!Computed(c)
            <4> SUFFICES ASSUME NEW d \in Calls, Program[d] = Program[c],
                                Recorded(d) \in {"proven", "succeeded"}
                         PROVE  FALSE
                BY DEF Record!Computed
            <4>1. Sound(d) /\ TypeOK
                BY DEF IInv
            <4>2. manifest[d] # None /\ manifest[d].status = "succeeded"
                BY <4>1, RecordedCases DEF Sound, RowSound
            <4>3. pc[d] \in {"settling", "over"}
                BY <4>1, <4>2 DEF Sound, ManifestSound
            <4>4. row[d] = "succeeded" /\ d \in noted
                BY <3>1, <4>1, <4>2, <4>3 DEF Sound, RowSound, LoopIsFree
            <4> QED BY <3>1, <4>4 DEF Reusable
        <3>3. Record!Admits(c)
            BY <2>2, <2>3, <2>4, <3>2 DEF Record!Admits, Kept
        <3> QED BY <3>3 DEF RecordStep, Record!RecordNext
    <2>5. CASE old \in {"new", "admitted"} /\ new = "dropped"
        <3>1. Record!Drops({c})
            BY <2>2, <2>3, <2>5 DEF Record!Drops, Record!Moves, Kept
        <3> QED BY <3>1 DEF RecordStep, Record!RecordNext
    <2>6. CASE old = "admitted" /\ new = "running"
        <3>1. Record!Starts(c)
            BY <2>2, <2>3, <2>6 DEF Record!Starts, Kept
        <3> QED BY <3>1 DEF RecordStep, Record!RecordNext
    <2>7. CASE /\ old \in {"running", "proven"} /\ new \in Statuses
               /\ new = "succeeded" <=> old = "proven"
        <3> DEFINE status == [d \in {c} |-> new]
        <3>1. status \in [{c} -> Statuses] /\ status[c] = new
            BY <2>7
        <3> HIDE DEF status
        <3>2. Record!Moves({c}, status)
            BY <2>2, <3>1 DEF Record!Moves
        <3>3. Record!Concludes({c})
            BY <2>3, <2>7, <3>1, <3>2 DEF Record!Concludes, Kept
        <3> QED BY <3>3 DEF RecordStep, Record!RecordNext
    <2> QED BY <1>5, <2>4, <2>5, <2>6, <2>7 DEF Advances
<1>6. CASE new # old /\ new = "proven"
    <2>1. old = "running"
        BY <1>6 DEF Advances
    <2>2. Kept(c)' = tree'[c]
        BY <1>6 DEF Kept
    <2>3. Record!Proves(c)
        BY <1>1, <1>3, <1>6, <2>1, <2>2 DEF Record!Proves, Kept
    <2> QED BY <2>3 DEF RecordStep, Record!RecordNext
<1> QED BY <1>4, <1>5, <1>6

\* A death drops what was being prepared, all of it at once ...
LEMMA CrashIsRecorded == ASSUME IInv, Crash PROVE RecordStep
<1> DEFINE C == {c \in Calls : Recorded(c) = "admitted"}
<1>0. TypeOK
    BY DEF IInv
<1>1. /\ UNCHANGED <<row, manifest, tree>>
      /\ \A c \in Calls : pc'[c] = IF pc[c] = "idle" THEN "idle" ELSE "over"
    BY <1>0 DEF Crash, Begun, rowVars, processVars, TypeOK
<1>2. \A c \in Calls : Recorded(c)' = IF c \in C THEN "dropped" ELSE Recorded(c)
    BY <1>1 DEF Recorded, Statuses
<1>3. \A c \in Calls : Kept(c)' = Kept(c)
    BY <1>1, <1>2 DEF Kept
<1>4. \A c \in C : c \in Calls /\ Recorded(c) = "admitted"
    OBVIOUS
<1> HIDE DEF C
<1>5. Record!Drops(C)
    BY <1>2, <1>3, <1>4 DEF Record!Drops, Record!Moves, Kept
<1>6. C \in SUBSET Calls
    BY <1>4
<1> QED BY <1>5, <1>6 DEF RecordStep, Record!RecordNext

\* ... and the next backend concludes what ran: with success what is proven, as its
\* files are still those of the manifest.
LEMMA RestartIsRecorded == ASSUME IInv, Restart PROVE RecordStep
<1> DEFINE C == {c \in Calls : row[c] = "running"}
           status == [c \in C |-> row'[c]]
<1>0. TypeOK /\ \A c \in Calls : Sound(c)
    BY DEF IInv
<1>1. /\ UNCHANGED <<pc, manifest, tree>>
      /\ \A c \in Calls : row'[c] = IF c \in Proven THEN "succeeded"
                                    ELSE IF row[c] = "running" THEN "failed" ELSE row[c]
    BY DEF Restart, processVars
<1>2. \A c \in Calls : c \in Proven <=> Recorded(c) = "proven"
    BY <1>0 DEF Proven, Verified, Recorded, Sound, ManifestSound, Statuses
<1>3. \A c \in C : /\ c \in Calls /\ Recorded(c) \in {"running", "proven"}
                   /\ status[c] \in Statuses /\ Recorded(c)' = status[c]
                   /\ status[c] = "succeeded" <=> Recorded(c) = "proven"
    BY <1>1, <1>2 DEF Recorded, Statuses
<1>4. \A c \in Calls \ C : Recorded(c)' = Recorded(c)
    BY <1>1, <1>2 DEF Recorded, Statuses, Proven
<1>5. status \in [C -> Statuses]
    BY <1>3
<1> HIDE DEF C, status
<1>6. \A c \in Calls : Kept(c)' = Kept(c)
    BY <1>1, <1>3, <1>4 DEF Kept, Statuses
<1>7. Record!Moves(C, status)
    BY <1>3, <1>4 DEF Record!Moves
<1>8. Record!Concludes(C)
    BY <1>3, <1>5, <1>6, <1>7 DEF Record!Concludes, Kept
<1>9. C \in SUBSET Calls
    BY <1>3
<1> QED BY <1>8, <1>9 DEF RecordStep, Record!RecordNext

LEMMA NextIsRecorded == IInv /\ [Next]_vars => RecordStep
<1> SUFFICES ASSUME IInv, [Next]_vars PROVE RecordStep
    OBVIOUS
<1>1. ASSUME NEW c \in Calls, Supervises(c) \/ Cancellation(c) \/ Runs(c) PROVE RecordStep
    <2>1. Advances(c)
        BY <1>1, CallAdvances
    <2>2. \A d \in Calls \ {c} : UNCHANGED CallVars(d)
        BY <1>1, SoundStep
    <2> QED BY <2>1, <2>2, TypeNext, AdvanceIsRecorded
<1>2. CASE UNCHANGED vars
    <2>1. \A c \in Calls : Recorded(c)' = Recorded(c) /\ Kept(c)' = Kept(c)
        BY <1>2 DEF vars, processVars, rowVars, Recorded, Kept
    <2> QED BY <2>1, RecordStutters
<1> QED BY <1>1, <1>2, CrashIsRecorded, RestartIsRecorded DEF Next

\* run_python, the sandbox and the recovery together implement ExecutionRecord: what
\* a manifest proves is recorded as a success and nothing else, whatever is cancelled
\* or dies in between, and its program is not admitted again.
THEOREM ExecutionKeepsTheRecord == Spec => RecordRefined
<1>1. Init => Record!RecordInit
    <2> SUFFICES ASSUME Init PROVE Record!RecordInit
        OBVIOUS
    <2>1. \A c \in Calls : Recorded(c) = "new" /\ Kept(c) = None
        BY DEF Init, Recorded, Statuses, Kept
    <2> QED BY <2>1 DEF Record!RecordInit, Kept
<1>2. RecordStep <=> [Record!RecordNext]_(Record!record)
    BY DEF RecordStep
<1> QED
    BY <1>1, <1>2, NextIsRecorded, InductiveInvariant, PTL DEF Spec, RecordRefined, Record!RecordSpec
=============================================================================
