--------------------------- MODULE RequestJournal ---------------------------
(***************************************************************************)
(* What the request journal promises to the desktop, without processes,    *)
(* handlers or rows: a submitted request is accepted once, may come to own *)
(* its conversation, and gets exactly one outcome, in the same instant in  *)
(* which it gives its conversation back.  Only a conversation's owner that *)
(* completes may become what the conversation remembers.                   *)
(***************************************************************************)
CONSTANTS Submits, Tasks, Conversations, Terminal, None

VARIABLES
    outcome,   \* "absent", "open", one of Terminal, or "deleted"
    home,      \* conversation of each accepted request
    owner,     \* request that owns each task, or None
    memory     \* request whose turn is the last each task remembers, or None

journal == <<outcome, home, owner, memory>>

JournalInit ==
    /\ outcome = [r \in Submits |-> "absent"]
    /\ home = [r \in Submits |-> None]
    /\ owner = [t \in Tasks |-> None]
    /\ memory = [t \in Tasks |-> None]

Accept(r, k) ==
    /\ outcome[r] = "absent"
    /\ outcome' = [outcome EXCEPT ![r] = "open"]
    /\ home' = [home EXCEPT ![r] = k]
    /\ UNCHANGED <<owner, memory>>

Claim(r) ==
    /\ outcome[r] = "open"
    /\ home[r] \in Tasks /\ owner[home[r]] = None
    /\ owner' = [owner EXCEPT ![home[r]] = r]
    /\ UNCHANGED <<outcome, home, memory>>

\* The requests of R get their outcomes together: one of them as a rule, every
\* open one after a restart.
Settle(R, final) ==
    /\ \A r \in R : outcome[r] = "open"
    /\ outcome' = [r \in Submits |-> IF r \in R THEN final[r] ELSE outcome[r]]
    /\ owner' = [t \in Tasks |-> IF owner[t] \in R THEN None ELSE owner[t]]
    /\ \E kept \in SUBSET {t \in Tasks : owner[t] \in R /\ final[owner[t]] = "completed"} :
          memory' = [t \in Tasks |-> IF t \in kept THEN owner[t] ELSE memory[t]]
    /\ UNCHANGED home

Forget(t) ==
    /\ owner[t] = None
    /\ outcome' = [r \in Submits |-> IF home[r] = t /\ outcome[r] # "absent"
                                     THEN "deleted" ELSE outcome[r]]
    /\ memory' = [memory EXCEPT ![t] = None]
    /\ UNCHANGED <<home, owner>>

JournalNext ==
    \/ \E r \in Submits : Claim(r) \/ \E k \in Conversations : Accept(r, k)
    \/ \E R \in SUBSET Submits : \E final \in [R -> Terminal] : Settle(R, final)
    \/ \E t \in Tasks : Forget(t)

JournalSpec == JournalInit /\ [][JournalNext]_journal

=============================================================================
