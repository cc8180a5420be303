----------------------------- MODULE TaskAnswer -----------------------------
(***************************************************************************)
(* How the answer of a request comes about once the Coordinator has        *)
(* stopped: the text that counts as its answer, the results of the Experts *)
(* that go with it, the report and the notebook the backend writes, and    *)
(* the form in which all of it is shown                                    *)
(* (src/oceanx/backend/router.py, _execute_agent_request;                  *)
(* src/oceanx/result_citations.py).                                        *)
(*                                                                         *)
(* A text is what it cites: [body, cites, bound], where bound tells whether *)
(* it contains a citation at all, also one that leads nowhere.  A result:  *)
(* [id, kind, created, names, features, data], the names it answers to and *)
(* whether it has a data file that can be drawn again.                     *)
(***************************************************************************)
EXTENDS Naturals, Sequences, FiniteSets, SequencesExt

-----------------------------------------------------------------------------
(* The stream of the Coordinator's model: events [kind, text, tools, tool]. *)

\* What was said before an assignment is not a conclusion.
LastText(events) ==
    FoldLeft(LAMBDA said, e : IF e.kind = "turn" /\ e.text # "" /\ ~e.tools THEN e.text
                             ELSE IF e.kind = "tool ended" /\ e.tool = "ocean_assign" THEN ""
                             ELSE said,
            "", events)

ToolCalls(events) == Len(SelectSeq(events, LAMBDA e : e.kind = "tool started"))

\* How a request ends when its stream has; the first that applies.
Ending(cancelling, events, limit, pending, recorded) ==
    IF ToolCalls(events) > limit THEN "budget exhausted"
    ELSE IF cancelling THEN "none"
    ELSE IF \E i \in DOMAIN events : events[i].kind = "error" THEN "model error"
    ELSE IF pending THEN "continuation pending"
    ELSE IF ~recorded /\ LastText(events) = "" THEN "no conclusion"
    ELSE "completed"

-----------------------------------------------------------------------------
(* Citations.                                                              *)

\* canonical_result_citations: a name that one result answers to, and a feature
\* that result has; anything else is shown as it is, or as unavailable.
Cited(name, feature, results) ==
    LET meant == {r \in results : name \in r.names}
    IN IF Cardinality(meant) = 1 /\ \A r \in meant : feature \in r.features \cup {"none"}
       THEN [to |-> {r.id : r \in meant}, unavailable |-> FALSE]
       ELSE [to |-> {}, unavailable |-> feature # "none"]

-----------------------------------------------------------------------------
(* The results that go with the answer.  A row: [job, round, expert, refs,  *)
(* intents], refs those of its accepted outputs.                            *)

\* _durable_team_result_refs: of each Expert session the latest round that has any.
Durable(rows) ==
    LET having  == {i \in DOMAIN rows : rows[i].expert /\ rows[i].refs # {}}
        latest  == {i \in having : \A j \in having : rows[j].job = rows[i].job =>
                        \/ rows[j].round < rows[i].round
                        \/ rows[j].round = rows[i].round /\ i <= j}
    IN UNION {rows[i].refs : i \in latest}

ReportRequested(rows) ==
    \E i \in DOMAIN rows : rows[i].expert /\ "report" \in rows[i].intents

Reports(results) == {r \in results : r.kind = "report"}

Newest(results) == CHOOSE r \in results : \A q \in results : q.created <= r.created

\* _materialize_coordinator_report: one that was accepted is not written again;
\* what the answer does not cite is listed at its end.
CoordinatorReport(answer, results, id, now) ==
    IF Reports(results) # {} THEN Newest(Reports(results))
    ELSE [id |-> id, kind |-> "report", created |-> now, names |-> {id}, features |-> {},
          data |-> FALSE,
          text |-> [answer EXCEPT !.cites = @ \cup {r.id : r \in results},
                                  !.bound = @ \/ results # {}]]

\* _materialize_figure_reproduction_notebook: of the views that can be drawn again.
Notebook(results, existing, id, now) ==
    LET views == {r \in results : r.kind = "interactive_view" /\ r.data}
    IN IF existing # {} THEN existing
       ELSE IF views = {} THEN {}
       ELSE {[id |-> id, kind |-> "file", created |-> now, names |-> {id}, features |-> {},
              data |-> FALSE, text |-> [body |-> "notebook", cites |-> {r.id : r \in views},
                                        bound |-> TRUE]]}

-----------------------------------------------------------------------------
(* The answer.                                                             *)

\* _explicit_research_outcome: the decision of this request, never an earlier one.
Outcome(tree, request) ==
    IF tree.stopped_by # request THEN "none"
    ELSE CASE tree.exit = "answered"         -> "answered"
           [] tree.exit = "unable_to_answer" -> "insufficient_evidence"
           [] OTHER                          -> "none"

\* _canonical_user_answer: a text that cites nothing gives way to the newest
\* report, if it can be read; and that report is linked in any case.
Canonical(candidate, results, readable) ==
    LET report == Newest(Reports(results))
        text   == IF Reports(results) # {} /\ ~candidate.bound /\ readable
                  THEN report.text ELSE candidate
        shown  == IF text.body = "" THEN [text EXCEPT !.body = "not presentable"] ELSE text
    IN IF Reports(results) = {} THEN shown
       ELSE [shown EXCEPT !.cites = @ \cup {report.id}, !.bound = TRUE]

\* The result that is recorded when no tool has recorded one.  Either file may
\* fail to be written, and is left out then.
Fallback(answer, rows, results, tree, request, written, now) ==
    LET given  == {r \in results : r.id \in Durable(rows)}
        report == IF ReportRequested(rows) /\ "report" \in written
                  THEN {CoordinatorReport(answer, given, "report of request", now)} ELSE {}
        drawn  == IF "notebook" \in written
                  THEN Notebook(given \cup report, {}, "notebook of request", now) ELSE {}
        all    == given \cup report \cup drawn
    IN [answer  |-> Canonical(answer, all, TRUE), results |-> all,
        outcome |-> Outcome(tree, request),
        basis   |-> IF rows = <<>> THEN "general knowledge" ELSE "expert evidence"]
=============================================================================
