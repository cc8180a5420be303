----------------------------- MODULE Conversation -----------------------------
(***************************************************************************)
(* What the memory of a task keeps, without engines, caches or retries:    *)
(* there is one conversation, which only grows, by one turn at a time and  *)
(* each turn once; a turn that completes is its end; and what survives the *)
(* program is the conversation as it was when a turn completed.            *)
(*                                                                         *)
(* Turns that failed or were cancelled stay in the conversation, and the   *)
(* next completion keeps them with the rest: that is what the code does,   *)
(* and not what ADR 0015 says (FailedTurnsStayOut of TaskMemory).          *)
(***************************************************************************)
EXTENDS Naturals, Sequences

CONSTANTS Turns, Old

VARIABLES
    said,    \* the turns of the conversation
    stable,  \* what a new process is told of it, failed turns included
    fate     \* of each turn: "new", "open" or how it ended

talk == <<said, stable, fate>>

Heard(q) == \E i \in DOMAIN said : said[i] = q

ConversationInit ==
    /\ said = <<>> /\ stable \in {<<>>, Old}
    /\ fate = [q \in Turns |-> "new"]

Asks(q) ==
    /\ fate[q] = "new" /\ \A p \in Turns : fate[p] # "open"
    /\ fate' = [fate EXCEPT ![q] = "open"]
    /\ UNCHANGED <<said, stable>>

\* The first turn may bring along what was kept from before.
Says(q) ==
    /\ fate[q] = "open" /\ ~Heard(q)
    /\ \/ said' = Append(said, q)
       \/ said = <<>> /\ said' = Append(stable, q)
    /\ UNCHANGED <<stable, fate>>

\* The process may end before the conversation is kept, but not before the turn is.
Completes(q) ==
    /\ fate[q] = "open"
    /\ said # <<>> /\ said[Len(said)] = q
    /\ fate' = [fate EXCEPT ![q] = "completed"]
    /\ stable' \in {stable, said}
    /\ UNCHANGED said

Fails(q) ==
    /\ fate[q] = "open"
    /\ \E o \in {"failed", "cancelled", "interrupted"} : fate' = [fate EXCEPT ![q] = o]
    /\ UNCHANGED <<said, stable>>

ConversationNext == \E q \in Turns : Asks(q) \/ Says(q) \/ Completes(q) \/ Fails(q)

ConversationSpec == ConversationInit /\ [][ConversationNext]_talk
=============================================================================
