---------------------------- MODULE ExecutionRecord ----------------------------
(***************************************************************************)
(* What running code promises the Expert, without processes, contexts or   *)
(* restarts: a call is turned away or runs its program and ends once.  A   *)
(* success that is proven, by a manifest on disk, is never recorded as     *)
(* anything else, its files do not change, and its program is not computed *)
(* again.                                                                  *)
(***************************************************************************)
CONSTANTS Calls, Program, Trees, Statuses, None

VARIABLES
    state,   \* of each call: "new", "dropped", "admitted", "running", "proven" or a status
    files    \* what a proven execution has left, None for the others

record == <<state, files>>

Computed(c) == \E d \in Calls : Program[d] = Program[c] /\ state[d] \in {"proven", "succeeded"}

Moves(C, to) == state' = [c \in Calls |-> IF c \in C THEN to[c] ELSE state[c]]

RecordInit ==
    /\ state = [c \in Calls |-> "new"]
    /\ files = [c \in Calls |-> None]

Admits(c) ==
    /\ state[c] = "new" /\ ~Computed(c)
    /\ state' = [state EXCEPT ![c] = "admitted"]
    /\ UNCHANGED files

\* A saved result is returned instead, the call is refused or cancelled, or the
\* backend is gone.
Drops(C) ==
    /\ \A c \in C : state[c] \in {"new", "admitted"}
    /\ Moves(C, [c \in C |-> "dropped"])
    /\ UNCHANGED files

Starts(c) ==
    /\ state[c] = "admitted"
    /\ state' = [state EXCEPT ![c] = "running"]
    /\ UNCHANGED files

Proves(c) ==
    /\ state[c] = "running"
    /\ state' = [state EXCEPT ![c] = "proven"]
    /\ \E t \in Trees : files' = [files EXCEPT ![c] = t]

\* Only what is proven succeeds, and it does nothing else.
Concludes(C) ==
    /\ \A c \in C : state[c] \in {"running", "proven"}
    /\ \E status \in [C -> Statuses] :
           /\ \A c \in C : status[c] = "succeeded" <=> state[c] = "proven"
           /\ Moves(C, status)
    /\ UNCHANGED files

RecordNext ==
    \/ \E c \in Calls : Admits(c) \/ Starts(c) \/ Proves(c)
    \/ \E C \in SUBSET Calls : Drops(C) \/ Concludes(C)

RecordSpec == RecordInit /\ [][RecordNext]_record
=============================================================================
