--------------------------- MODULE WorkspaceState ---------------------------
(***************************************************************************)
(* The record of a workspace: where it is, which versions are active, and  *)
(* what the user allows to be told to which provider                       *)
(* (src/oceanx/backend/store.py, commit_workspace_open, commit_active_ref, *)
(* commit_disclosure_policy; src/oceanx/context.py).  Each operation is    *)
(* one transaction and gives the next record; a refused one leaves it.     *)
(*                                                                         *)
(* A policy: [provider, allows, by], by the request that confirmed it.     *)
(***************************************************************************)
EXTENDS Naturals, Sequences, FiniteSets

CONSTANTS
    Default,  \* what a policy allows that nobody has set
    Nobody

\* policies are the versions in their order, current the policy in force.
Closed == [path |-> "", revision |-> 0, active |-> <<>>, policies |-> <<>>, current |-> 0]

\* A client names the revision it has seen, or none (Nobody).
Sees(w, expected) == expected \in {Nobody, w.revision}

\* commit_workspace_open: opening it where it is changes nothing.
Opened(w, path, expected) ==
    IF ~Sees(w, expected) \/ w.path = path THEN w
    ELSE [w EXCEPT !.path = path, !.revision = @ + 1]

\* commit_active_ref, set_active_ref: rows are the versions there are.
Activated(w, slot, ref, rows, expected) ==
    IF w.path = "" \/ ~Sees(w, expected) \/ ref \notin rows THEN w
    ELSE [w EXCEPT !.active = [s \in DOMAIN @ \cup {slot} |-> IF s = slot THEN ref ELSE @[s]],
                   !.revision = @ + 1]

\* commit_disclosure_policy.
Confirmed(w, provider, allows, request, expected) ==
    IF w.path = "" \/ ~Sees(w, expected) THEN w
    ELSE [w EXCEPT !.policies = Append(@, [provider |-> provider, allows |-> allows, by |-> request]),
                   !.current = Len(w.policies) + 1, !.revision = @ + 1]

\* policy_for, set_disclosure_policy: a model of another provider starts a version of
\* its own, which nobody confirms and which does not change the revision.
InForceFor(w, provider) ==
    IF w.path = "" \/ (w.current # 0 /\ w.policies[w.current].provider = provider) THEN w
    ELSE [w EXCEPT !.policies = Append(@, [provider |-> provider, allows |-> Default, by |-> Nobody]),
                   !.current = Len(w.policies) + 1]
=============================================================================
