----------------------------- MODULE SkillHistory -----------------------------
(***************************************************************************)
(* What the learning of Skills promises, without reviews, models or tasks: *)
(* the history of a Skill is only added to, by the user and by the         *)
(* Curator, and every saved note is decided on once, in the very step that *)
(* publishes the version which cites it.                                   *)
(***************************************************************************)
EXTENDS Naturals, Sequences

CONSTANTS Notes, Skills, Bundled

VARIABLES
    history,  \* of each Skill its versions: who made it, from which version, of which notes
    fate      \* of each note: what has become of it, and in which version

book == <<history, fate>>

Undecided(N) == \A n \in N : fate[n].status = "pending"

Becomes(N, status) ==
    fate' = [n \in Notes |-> IF n \in N THEN [fate[n] EXCEPT !.status = status] ELSE fate[n]]

HistoryInit ==
    /\ history = [s \in Skills |-> <<>>]
    /\ fate = [n \in Notes |-> [status |-> "unsaved", by |-> <<>>]]

Saves(n) ==
    /\ fate[n].status = "unsaved"
    /\ Becomes({n}, "pending")
    /\ UNCHANGED history

\* The notes of a new version are decided on with it, and it continues the last one.
Publishes(s, N) ==
    /\ N # {} /\ Undecided(N)
    /\ history' = [history EXCEPT ![s] =
           Append(@, [by |-> "curator", base |-> Len(@), sources |-> N])]
    /\ fate' = [n \in Notes |->
           IF n \in N THEN [status |-> "absorbed", by |-> <<s, Len(history[s]) + 1>>] ELSE fate[n]]

\* "restoration creates a new revision, never rewrites history": version v again, 0
\* for the text that the program came with.
Restores(s, v) ==
    /\ v \in 1..Len(history[s]) \/ (v = 0 /\ s \in Bundled /\ history[s] # <<>>)
    /\ LET from == history[s][IF v = 0 THEN Len(history[s]) ELSE v]
       IN history' = [history EXCEPT ![s] =
              Append(@, [by |-> "user", base |-> v, sources |-> from.sources])]
    /\ UNCHANGED fate

\* Notes that no version cites.
Closes(N) ==
    /\ Undecided(N)
    /\ \E status \in {"dismissed", "deleted"} : Becomes(N, status)
    /\ UNCHANGED history

HistoryNext ==
    \/ \E n \in Notes : Saves(n)
    \/ \E s \in Skills, N \in SUBSET Notes : Publishes(s, N)
    \/ \E s \in Skills : \E v \in 0..Len(history[s]) : Restores(s, v)
    \/ \E N \in SUBSET Notes : Closes(N)

HistorySpec == HistoryInit /\ [][HistoryNext]_book
=============================================================================
