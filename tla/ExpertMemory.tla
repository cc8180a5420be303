---------------------------- MODULE ExpertMemory ----------------------------
(***************************************************************************)
(* What an Expert is told of its own past, and what is kept of what it     *)
(* says: the packet of its earlier rounds (router.py), the contract of its *)
(* executions and those of the Experts it depends on (orchestrator.py),    *)
(* the projection of its conversation before each call of the model        *)
(* (expert_context.py), and the history its transcript is read from        *)
(* (store.py).  All of them choose what fits, so the question is what may  *)
(* be lost without a trace.                                                *)
(*                                                                         *)
(* Texts are left out but for their lengths, fields but for their names.   *)
(***************************************************************************)
EXTENDS Naturals, Sequences, FiniteSets, SequencesExt

\* The last n members of s.
Latest(s, n) == SubSeq(s, IF Len(s) > n THEN Len(s) - n + 1 ELSE 1, Len(s))

-----------------------------------------------------------------------------
(* The packet of earlier rounds.  A round with a result: [id, said, open,   *)
(* rest], its answer, the issues it left open and the rest of its report,   *)
(* each a sequence of pieces [id, size, short].  A piece that does not fit  *)
(* is replaced by its excerpt of length short, if it has one.               *)

IndexRoom  == 3000
PacketRoom == 9800

\* add_item and pack_items: a piece that does not fit counts as omitted, also one
\* whose excerpt is shown.
Packed(packet, piece, room) ==
    LET Shows(n) == [packet EXCEPT !.size = @ + n, !.shown = @ \cup {piece.id}]
        Omits(p) == [p EXCEPT !.omitted = @ + 1]
    IN IF packet.size + piece.size <= room THEN Shows(piece.size)
       ELSE IF piece.short > 0 /\ packet.size + piece.short <= room THEN Omits(Shows(piece.short))
       ELSE Omits(packet)

PackedAll(packet, pieces, room) ==
    FoldLeft(LAMBDA so_far, p : Packed(so_far, p, room), packet, pieces)

\* An older round with open issues is named, and its issues follow, as long as the
\* index has room; if its name does not fit, they are not tried.
Indexed(packet, round, header) ==
    LET named == Packed(packet, [id |-> round.id, size |-> header, short |-> 0], IndexRoom)
    IN IF round.open = <<>> THEN packet
       ELSE IF named.omitted > packet.omitted THEN named
       ELSE PackedAll(named, round.open, IndexRoom)

\* _agent_session_capsule: the frames of the last three rounds are always there.
Capsule(rounds, header) ==
    LET recent == Reverse(Latest(rounds, 3))
        older  == SubSeq(rounds, 1, Len(rounds) - Len(recent))
        frame  == [size |-> header * Len(recent), shown |-> {r.id : r \in ToSet(recent)},
                   omitted |-> Len(older)]
        index  == FoldLeft(LAMBDA p, r : Indexed(p, r, header), frame, older)
    IN FoldLeft(LAMBDA p, r : PackedAll(p, r.said \o r.open \o r.rest, PacketRoom), index, recent)

-----------------------------------------------------------------------------
(* The contract of executions: [id, owner, state, result, names], names the *)
(* files of its candidates and of accepted ones; owner [todo, ready] is the *)
(* order that ran it.                                                       *)

\* The last three of the session, and the latest failure before them.
Recalled(xs) ==
    LET last     == Latest(xs, 3)
        failures == SelectSeq(xs, LAMBDA x : x.result /\ x.state \notin {"running", "succeeded"})
        chosen   == IF failures = <<>> \/ Last(failures) \in ToSet(last) THEN last
                    ELSE <<Last(failures)>> \o last
    IN SelectSeq(chosen, LAMBDA x : x.result)

OutputReady(x) == x.id \in x.owner.ready \/ x.names # {}

\* A program that failed is not believed about its files.
ToldFiles(x, listed) == IF x.state = "succeeded" THEN listed ELSE x.names

\* Executions of other Experts of the request, as far as the todo depends on them.
Shared(xs, own, todo, depends) ==
    Latest(SelectSeq(xs, LAMBDA x : /\ x.id \notin own /\ x.result /\ x.names # {}
                                    /\ todo # "none" => x.owner.todo \in depends), 8)

\* _participant_analysis_context keeps of a source, its members and its arrays
\* the fields that tell where and what it is; attributes are named "attrs.<name>".
ArrayFields  == {"name", "dims", "shape", "dtype", "chunks", "coordinate_role", "extent",
                 "attrs.units", "attrs.standard_name", "attrs.long_name", "attrs.positive"}
MemberFields == {"path", "format", "inspection", "error", "dimensions"}
SourceFields == MemberFields \cup {"handle", "kind", "title", "dataset_layout", "member_count",
                                   "spatial_context", "time_range"}

Compact(source) ==
    [fields  |-> source.fields \cap SourceFields,
     arrays  |-> {a \cap ArrayFields : a \in source.arrays},
     members |-> {[fields |-> m.fields \cap MemberFields,
                   arrays |-> {a \cap ArrayFields : a \in m.arrays}] : m \in source.members}]

-----------------------------------------------------------------------------
(* What a participant did: the events of its model, in order, each          *)
(* [kind, text, tools, error].                                              *)

\* Prose before a tool call is not an answer.
FinalText(events) ==
    FoldLeft(LAMBDA answer, e : IF e.kind = "turn" /\ e.text /\ ~e.tools THEN TRUE
                               ELSE IF e.kind = "tool started" THEN FALSE ELSE answer,
            FALSE, events)

Errors(events) == SelectSeq(events, LAMBDA e : e.kind = "error")

\* How it ended: by itself, at its wall-time limit, cancelled, or by an exception.
RunState(events, ended) ==
    IF ended = "cancelled" THEN "cancelled"
    ELSE IF ended = "itself" /\ FinalText(events) /\ Errors(events) = <<>> THEN "completed"
    ELSE "failed"

RunFailure(events, ended) ==
    CASE ended = "cancelled" -> "cancelled"
      [] ended = "timeout"   -> "participant_timeout"
      [] ended = "exception" -> "unknown"
      [] OTHER -> IF Errors(events) = <<>>
                  THEN IF FinalText(events) THEN "none" ELSE "unknown"
                  ELSE IF Last(Errors(events)).error = "exhausted" THEN "provider_unavailable"
                  ELSE Last(Errors(events)).error

-----------------------------------------------------------------------------
(* The conversation the model sees.  A message is a call or a result of a   *)
(* code execution, or anything else: [kind, call, state, recoverable, long].*)

\* The results of code executions that have ended.
Finished(messages) ==
    SelectSeq(messages, LAMBDA m : m.kind = "result" /\ m.state # "running"
        /\ \E i \in DOMAIN messages : messages[i].kind = "call" /\ messages[i].call = m.call)

\* Exchanges that may be cut: older than the last two, not the latest failure,
\* and with a saved program to read instead.
Older(messages) ==
    LET done     == Finished(messages)
        failures == SelectSeq(done, LAMBDA m : m.state # "succeeded")
    IN {done[i].call : i \in {j \in 1..(Len(done) - 2) :
            /\ failures # <<>> => done[j].call # Last(failures).call
            /\ done[j].recoverable}}

\* compact_expert_history: a copy; what is long is cut to where it can be read.
Projected(messages) ==
    [i \in DOMAIN messages |->
        [messages[i] EXCEPT !.long = @ /\ ~(/\ messages[i].kind \in {"call", "result"}
                                            /\ messages[i].call \in Older(messages))]]

-----------------------------------------------------------------------------
(* The transcript: the conversation last saved and the history of all.      *)

\* save_expert_session_checkpoint: what follows the part both have in common; a
\* conversation that was replaced altogether is kept after the former one.
Appended(saved, messages, history) ==
    LET common == {n \in 0..Len(saved) : n <= Len(messages)
                                         /\ SubSeq(saved, 1, n) = SubSeq(messages, 1, n)}
        prefix == CHOOSE n \in common : \A m \in common : m <= n
    IN history
       \o (IF history = <<>> THEN saved ELSE <<>>)
       \o SubSeq(messages, prefix + 1, Len(messages))

\* _task_agent_transcript: the history, or what older releases saved.
Transcript(saved, history) == IF history # <<>> THEN history ELSE saved

\* A round is shown to the request it belongs to, under the session it is part of.
MayShow(order, request, task, agent) ==
    order.task = task /\ order.request = request /\ order.job = agent

\* _renderer_agent_messages: blocks of a kind that is not known are dropped.
Rendered(messages) ==
    [i \in DOMAIN messages |->
        [role   |-> IF messages[i].role = "user" THEN "coordinator" ELSE "expert",
         blocks |-> SelectSeq(messages[i].blocks,
                              LAMBDA b : b \in {"text", "tool_use", "tool_result", "image"})]]
=============================================================================
