--------------------------- MODULE ArtifactLibrary ---------------------------
(***************************************************************************)
(* What committing an artifact promises, without files, intents or         *)
(* restarts: a request either publishes the next version of its artifact,  *)
(* in one step that also moves the workspace on, or leaves no trace in the *)
(* library.                                                                *)
(***************************************************************************)
EXTENDS Naturals

CONSTANTS Operations, None

VARIABLES
    status,    \* of each request: "new", "open", "published" or "rejected"
    draft,     \* its artifact, its version and the revision it was composed at
    revision   \* of the workspace

library == <<status, draft, revision>>

Published(a) == {o \in Operations : status[o] = "published" /\ draft[o].artifact = a}

LibraryInit ==
    /\ status = [o \in Operations |-> "new"]
    /\ revision = 0

Ask(o) ==
    /\ status[o] = "new"
    /\ status' = [status EXCEPT ![o] = "open"]
    /\ \A q \in Operations \ {o} : draft'[q] = draft[q]
    /\ UNCHANGED revision

\* The new version comes after every published one of its artifact, and nothing
\* has happened in the workspace since the request was composed, if it says when.
Publish(o) ==
    /\ status[o] = "open"
    /\ \A q \in Published(draft[o].artifact) : draft[q].version < draft[o].version
    /\ draft[o].expected \in {None, revision}
    /\ status' = [status EXCEPT ![o] = "published"]
    /\ revision' = revision + 1
    /\ UNCHANGED draft

Reject(R) ==
    /\ \A o \in R : status[o] = "open"
    /\ status' = [o \in Operations |-> IF o \in R THEN "rejected" ELSE status[o]]
    /\ UNCHANGED <<draft, revision>>

Elsewhere == revision' = revision + 1 /\ UNCHANGED <<status, draft>>

LibraryNext ==
    \/ \E o \in Operations : Ask(o) \/ Publish(o)
    \/ \E R \in SUBSET Operations : Reject(R)
    \/ Elsewhere

LibrarySpec == LibraryInit /\ [][LibraryNext]_library

=============================================================================
