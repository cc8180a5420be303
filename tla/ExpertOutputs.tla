----------------------------- MODULE ExpertOutputs -----------------------------
(***************************************************************************)
(* What an Expert hands over: how the save journal of its programs becomes *)
(* candidate outputs, how these and its answer become the result of a      *)
(* round, and how an accepted candidate becomes a task result              *)
(* (src/oceanx/expert_execution.py, tools.py, team/orchestrator.py,        *)
(* expert_deliverables.py).  These are functions of what is on record; the *)
(* steps in between are in TeamWork.                                       *)
(*                                                                         *)
(* A file name is a record: how many leading "outputs" directories it is   *)
(* spelled with, and the rest.  Contents, titles, hashes and the fields of *)
(* a figure are left out but for whether they are valid.                   *)
(***************************************************************************)
EXTENDS Naturals, Sequences, FiniteSets, SequencesExt

CONSTANT NoName

\* A dict filled in the order of s: each key keeps its first place and its last
\* value.
ByKey(s, Key(_)) ==
    LET last(k) == s[CHOOSE i \in DOMAIN s : /\ Key(s[i]) = k
                                             /\ \A j \in DOMAIN s : Key(s[j]) = k => j <= i]
        firsts  == {i \in DOMAIN s : \A j \in 1..(i - 1) : Key(s[j]) # Key(s[i])}
        places  == SetToSortSeq(firsts, <)
    IN [p \in DOMAIN places |-> last(Key(s[places[p]]))]

-----------------------------------------------------------------------------
(* The save journal of a program.                                          *)

Kinds == {"report", "map", "figure"}

\* An event: its kind ("other" is none of these), its main file under the present
\* and the former name of the field, its data and preview, its attachments, and
\* whether the remaining fields of the contract are in order.
Event(Names) ==
    [kind : Kinds \cup {"other"}, output : Names, former : Names, dataset : Names,
     preview : Names, attachments : Seq(Names), complete : BOOLEAN]

\* Only a map may use the former name.
Main(e) == IF e.kind = "map" /\ e.former # NoName THEN e.former ELSE e.output

Readable(e, files) ==
    /\ e.kind \in Kinds
    /\ e.kind = "map" /\ e.former # NoName => e.output \in {NoName, e.former}
    /\ Main(e) \in files
    /\ e.dataset \in files \cup {NoName}

\* What is optional and not there is dropped.
Normalized(e, files) ==
    [e EXCEPT !.output = Main(e), !.former = IF e.kind = "map" THEN NoName ELSE @,
              !.preview = IF @ \in files THEN @ ELSE NoName,
              !.attachments = SelectSeq(@, LAMBDA n : n \in files)]

\* The last declaration of a file describes it.
Discovered(journal, files) ==
    LET read == SelectSeq(journal, LAMBDA e : Readable(e, files))
    IN ByKey([i \in DOMAIN read |-> Normalized(read[i], files)], LAMBDA e : e.output)

Generated == [outputs : {0}, rest : {"analysis.py", "analysis.ipynb", "requirements.txt", "inputs.json"}]

\* validate_contract: what a report gets anyway cannot be attached.
Accords(e) ==
    /\ e.complete /\ Main(e) # NoName
    /\ e.kind = "report" => ToSet(e.attachments) \cap Generated = {}
    /\ e.kind = "map" => e.dataset = NoName

\* The files one result stands for, the main one first.
OutputNames(e) ==
    LET extra == CASE e.kind = "report" -> e.attachments
                   [] e.kind = "map"    -> <<>>
                   [] OTHER             -> SelectSeq(<<e.dataset, e.preview>>,
                                                     LAMBDA n : n # NoName)
    IN ByKey(<<Main(e)>> \o extra, LAMBDA n : n)

-----------------------------------------------------------------------------
(* Candidates.  An execution is a record of its id, state, files with sound *)
(* metadata, and the events found in it.                                   *)

CandidateOutputs(x) ==
    LET declared == SelectSeq(x.events, LAMBDA e : Accords(e) /\ Main(e) \in x.files)
        Item(e)  == [execution |-> x.id, name |-> Main(e), kind |-> e.kind,
                     supporting |-> SelectSeq(Tail(OutputNames(e)), LAMBDA n : n \in x.files)]
    IN ByKey([i \in DOMAIN declared |-> Item(declared[i])], LAMBDA c : c.name)

\* _candidate_outputs: of one name the last save counts, and what was accepted
\* counts more, also than a later save.
SessionOutputs(xs, accepted) ==
    ByKey(FlattenSeq([i \in DOMAIN xs |-> CandidateOutputs(xs[i])]) \o accepted,
          LAMBDA c : c.name)

\* The same for a set of executions that declare one file each: NameOf[e] is the
\* file, and a greater id is a later execution.
Delivered(declaring, accepted, NameOf) ==
    accepted \cup
    {e \in declaring :
        /\ \A f \in declaring : NameOf[f] = NameOf[e] => f <= e
        /\ \A f \in accepted : NameOf[f] # NameOf[e]}

\* A view that was asked for and not delivered; reports are the Coordinator's.
Missing(intents, outputs) ==
    {k \in intents \cap {"interactive_view"} :
        \A i \in DOMAIN outputs : outputs[i].kind \notin {"map", "figure"}}

\* A later failure does not take away what was computed.
Evidence(xs, outputs) ==
    {x \in ToSet(xs) : \/ x.state = "succeeded"
                          \/ \E i \in DOMAIN outputs : outputs[i].execution = x.id}

\* Each view that was saved speaks for itself.
Conclusions(outputs) == {i \in DOMAIN outputs : outputs[i].kind \in {"map", "figure"}}

\* _terminal_result: how the participant ended decides the author and the status.
TerminalStatus(ended, answered, intents, xs, accepted) ==
    LET outputs == SessionOutputs(xs, accepted)
        kept    == Evidence(xs, outputs)
    IN IF ended = "completed" /\ (answered \/ outputs # <<>>)
       THEN [origin |-> "agent",
             status |-> IF Missing(intents, outputs) = {} THEN "completed" ELSE "incomplete",
             outputs |-> outputs, evidence |-> kept]
       ELSE [origin |-> "recovered",
             status |-> IF ended = "cancelled" THEN "cancelled" ELSE "incomplete",
             outputs |-> outputs, evidence |-> kept]

-----------------------------------------------------------------------------
(* Publication.                                                            *)

\* A file asked for as "x" or "outputs/x", when only one saved file can be meant.
Resolves(name, files) ==
    IF name \in files THEN {name}
    ELSE LET meant == {f \in files : f.rest = name.rest}
         IN IF Cardinality(meant) = 1 THEN meant ELSE {}

\* _execution_output: an ended execution of the same task.
OutputFile(x, task, name) ==
    IF x.task = task /\ x.state # "running" THEN Resolves(name, x.files) ELSE {}

\* The data set a view cites: the one named, or the only one assigned.
CitedDataset(handle, assigned) ==
    IF handle # NoName THEN {handle} \cap assigned
    ELSE IF Cardinality(assigned) = 1 THEN assigned ELSE {}

\* What acceptance finds of each candidate it is asked for, one after the other:
\* the first that cannot be published ends it, and those before it stay.
Accepts(paths, offered, sound) ==
    IF ~(ToSet(paths) \subseteq offered) THEN <<>>
    ELSE SubSeq(paths, 1, Cardinality(
             {i \in DOMAIN paths : \A j \in 1..i : paths[j] \in sound}))

\* materialize_structured_view: the saved file is the result, and whether it
\* renders ("yes", "no" or "wrong objects") only decides how it opens.  Wrong
\* objects and a self-describing file that does not render are refused.
Structured(format, renders, preview) ==
    IF renders = "wrong objects" \/ (format = "nc" /\ renders = "no")
    THEN [stored |-> FALSE, status |-> "none"]
    ELSE [stored |-> TRUE,
          status |-> IF renders = "yes" THEN "interactive"
                     ELSE IF preview = "png" THEN "preview" ELSE "file"]

\* materialize_spatial_view: a file that describes itself is indexed, another one
\* is prepared; wrong objects or another kind of view are refused.
Spatial(describes, prepares) ==
    CASE describes = "map"     -> [stored |-> TRUE, files |-> {"data.nc"}]
      [] describes = "nothing" -> [stored |-> prepares,
                                   files |-> IF prepares
                                             THEN {"view.json", "data.nc", "preview.png"}
                                             ELSE {}]
      [] OTHER                 -> [stored |-> FALSE, files |-> {}]

\* materialize_report: Markdown, with sources, its program and every attachment.
Reported(markdown, sources, package, attachments, files) ==
    /\ markdown /\ sources # {}
    /\ {"analysis.py", "requirements.txt", "inputs.json"} \subseteq package
    /\ \A i \in DOMAIN attachments : Resolves(attachments[i], files) # {}

-----------------------------------------------------------------------------
(* Reading what was saved.                                                 *)

\* review_evidence: the last round of each step a review depends on, in the order
\* of the dependencies; a review of one's own work is refused.
ReviewedRounds(rounds, depends) ==
    [i \in DOMAIN depends |->
        LET of == SelectSeq(rounds, LAMBDA w : w.todo = depends[i])
        IN IF of = <<>> THEN NoName ELSE Last(of)]

Independent(reviewer, rounds, depends) ==
    \A i \in DOMAIN depends :
        LET w == ReviewedRounds(rounds, depends)[i] IN w # NoName => w.expert # reviewer

\* read_expert_file: its own session, and what it reviews.
MayRead(root, session, reviewed) == root = session \/ root \in reviewed

\* One chunk of a text of n characters, and where the next one starts.
Chunk(n, offset, limit) ==
    [from |-> offset, length |-> IF offset >= n THEN 0
                                 ELSE IF n - offset <= limit THEN n - offset ELSE limit,
     next |-> IF n - offset <= limit \/ offset >= n THEN NoName ELSE offset + limit]
=============================================================================
