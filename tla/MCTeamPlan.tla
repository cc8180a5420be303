----------------------------- MODULE MCTeamPlan -----------------------------
(* The instance of MCTeamWork, and on small inputs the functions that decide *)
(* what an Expert is given, what it hands over and what becomes of it.       *)
EXTENDS MCTeamWork, WorkPlan, ExpertMemory, TaskAnswer

-----------------------------------------------------------------------------
(* The functions of ExpertOutputs on small inputs: two spellings of a file   *)
(* and another file, journals of up to two events, two executions.           *)

View    == [outputs |-> 0, rest |-> "view"]
Spelled == [outputs |-> 1, rest |-> "view"]
Data    == [outputs |-> 0, rest |-> "data"]
Files   == SUBSET {View, Spelled, Data}

Events ==
    [kind : Kinds \cup {"other"}, output : {View, Data}, former : {NoName, Data},
     dataset : {NoName, Data}, preview : {NoName, Spelled},
     attachments : {<<>>, <<Data, View>>}, complete : {TRUE}]

\* The last readable declaration of a file is the one that is offered, once, with
\* nothing that is not on disk.
ASSUME LastSaveCounts ==
    \A f \in Events, g \in Events, files \in {{View, Data}, {View, Spelled}} :
        LET found == Discovered(<<f, g>>, files)
            cands == CandidateOutputs([id |-> 1, state |-> "failed", files |-> files,
                                       events |-> found])
            Declares(c, e) == Readable(e, files) /\ c.name = Main(e) /\ c.kind = e.kind
        IN /\ IsInjective([i \in DOMAIN cands |-> cands[i].name])
           /\ \A i \in DOMAIN cands :
                  /\ ToSet(<<cands[i].name>> \o cands[i].supporting) \subseteq files
                  /\ Declares(cands[i], g)
                     \/ (Declares(cands[i], f) /\ ~(Readable(g, files) /\ Main(g) = Main(f)))

Programs(id) == {[id |-> id, state |-> s, files |-> {View, Data}, events |-> es] :
                    s \in {"succeeded", "failed"},
                    es \in {<<>>} \cup {<<e>> : e \in {[kind |-> "figure", output |-> n,
                        former |-> NoName, dataset |-> NoName, preview |-> NoName,
                        attachments |-> <<>>, complete |-> TRUE] : n \in {View, Data}}}}

Accepted == {<<>>} \cup {<<[execution |-> i, name |-> n, kind |-> "figure", supporting |-> <<>>]>> :
                            i \in 0..2, n \in {View, Data}}

\* The outputs of a session are those of TeamWork, which keeps executions only.
ASSUME OutputsAreDelivered ==
    \A x \in Programs(1), y \in Programs(2), acc \in Accepted :
        LET xs == <<x, y>>
            declaring == {i \in 1..2 : xs[i].events # <<>>}
            taken == {acc[i].execution : i \in DOMAIN acc}
            name == [i \in 0..2 |-> IF i \in taken THEN acc[1].name
                                    ELSE IF i \in declaring THEN xs[i].events[1].output
                                    ELSE NoName]
        IN (\A i \in taken \cap declaring : name[i] = xs[i].events[1].output)
           => Delivered(declaring, taken, name)
              = {c.execution : c \in ToSet(SessionOutputs(xs, acc))}

\* Nothing computed is lost by the way a participant ends, and only an answer
\* completes a round.
ASSUME ComputedIsCited ==
    \A x \in Programs(1), y \in Programs(2), acc \in Accepted, answered \in BOOLEAN,
       ended \in {"completed", "failed", "cancelled"}, intents \in SUBSET {"interactive_view"} :
        LET r == TerminalStatus(ended, answered, intents, <<x, y>>, acc)
        IN /\ {x, y} \cap {p \in {x, y} : p.state = "succeeded"} \subseteq r.evidence
           /\ r.status = "completed" => ended = "completed" /\ (intents = {} \/ r.outputs # <<>>)
           /\ r.origin = "agent" <=> ended = "completed" /\ (answered \/ r.outputs # <<>>)

\* A name never means two files, and an exact name means itself.
ASSUME NamesResolve ==
    \A files \in Files, n \in {View, Spelled, Data} :
        /\ Cardinality(Resolves(n, files)) <= 1
        /\ \A f \in Resolves(n, files) : f \in files /\ f.rest = n.rest
        /\ n \in files => Resolves(n, files) = {n}

\* Acceptance publishes a part of what was asked for, from the front.
ASSUME AcceptedInOrder ==
    \A paths \in SeqOf({View, Data}, 2), offered \in SUBSET {View, Data},
       sound \in SUBSET {View, Data} :
        /\ IsPrefix(Accepts(paths, offered, sound), paths)
        /\ ToSet(Accepts(paths, offered, sound)) \subseteq offered \cap sound

\* A text that is read chunk by chunk is read once from end to end.
ASSUME ChunksCover ==
    \A n \in 0..7, limit \in 1..3 :
        LET reads[k \in 0..8] ==
                IF k = 0 THEN <<Chunk(n, 0, limit)>>
                ELSE IF Last(reads[k - 1]).next = NoName THEN reads[k - 1]
                ELSE Append(reads[k - 1], Chunk(n, Last(reads[k - 1]).next, limit))
            all == reads[8]
        IN /\ Last(all).next = NoName
           /\ FoldSeq(LAMBDA c, t : c.length + t, 0, all) = n

-----------------------------------------------------------------------------
(* WorkPlan on sessions of up to two rows and waves of up to two todos.      *)

Default == [profile |-> "P", key |-> NoKey]
Named   == [profile |-> "P", key |-> "k"]
Partner == [profile |-> "D", key |-> NoKey]
Old     == [profile |-> "P", key |-> "old"]   \* a job key of an older release
Id(i)   == <<"r0", Old, <<"first", "second">>[i]>>

Room(n) == [k \in Resources |-> n * Floor[k]]

Todo(id, expert, continues, report, handles) ==
    [id |-> id, expert |-> expert, depends |-> {}, review |-> FALSE, tier |-> "deep",
     handles |-> handles, selects |-> handles # <<>>, continues |-> continues,
     report |-> report, given |-> [f \in {"hints"} |-> id]]

Histories ==
    LET Rows(i) == {[id |-> Id(i), job |-> j, expert |-> x, todo |-> "t1", request |-> q,
                     round |-> i, state |-> s.state, result |-> s.result, origin |-> s.origin,
                     usage |-> Room(u), scope |-> [f \in {"hints", "target"} |-> i],
                     sources |-> <<"s1">>] :
                    j \in {Old, Named}, x \in {Default, Named}, q \in {"r1", "r2"}, u \in {1, 2},
                    s \in {[state |-> "running", result |-> FALSE, origin |-> "none"],
                           [state |-> "settled", result |-> TRUE, origin |-> "agent"],
                           [state |-> "settled", result |-> TRUE, origin |-> "recovered"]}}
        Kept(i) == {r \in Rows(i) : r.job = Old <=> r.expert = Default}
    IN {<<>>} \cup {<<a>> : a \in Kept(1)} \cup {<<a, b>> : a \in Kept(1), b \in Kept(2)}

Waves ==
    LET todos == {Todo(id, x, c, rep, h) :
                    id \in {"t1", "t2"}, x \in {Default, Named, Partner}, c \in BOOLEAN,
                    rep \in {NoKey, Id(1)}, h \in {<<>>, <<2, 1, 2>>}}
    IN {<<t>> : t \in todos}
       \cup {<<s, t>> : s \in {v \in todos : v.id = "t1"},
                        t \in {v \in todos : v.id = "t2" /\ v.handles = <<>>}}

\* A wave that is accepted gives every Expert one round: a new one with a number
\* of its own, or the latest one, which the backend had to end; and no round has
\* more than the request allows, nor less than a model call needs.
ASSUME WavesAreSound ==
    \A rows \in Histories, wave \in Waves, n \in {2, 3} :
        Refusals(wave, rows, "r1", <<"s1", "s2">>, Room(n), 100000, 60000) = {} =>
        LET orders == WorkOrders(wave, rows, "r1", "op", <<"s1", "s2">>, Room(n)) IN
        /\ \A i, j \in DOMAIN orders :
               orders[i].id = orders[j].id \/ orders[i].job = orders[j].job => i = j
        /\ \A i \in DOMAIN orders :
               LET mine == JobRows(rows, wave[i].expert)
                   same == {r \in ToSet(rows) : r.id = orders[i].id}
               IN /\ \A k \in Resources : orders[i].budget[k] \in Floor[k]..Room(n)[k]
                  /\ same # {} => /\ same = {Last(mine)} /\ Last(mine).origin = "recovered"
                                  /\ orders[i].sources = Last(mine).sources
                  /\ same = {} => orders[i].round > Len(Returned(mine))
                  /\ \A r \in ToSet(mine) : r.result /\ r.job = orders[i].job
                                              => r.round <= orders[i].round

\* The team budget is not a limit: a wave that is accepted may be given more
\* tokens than the request has left.
ASSUME WaveMayExceedTheTeam ==
    \E wave \in Waves :
        /\ Refusals(wave, <<>>, "r1", <<>>, Room(3), 40000, 10000) = {}
        /\ LET orders == WorkOrders(wave, <<>>, "r1", "op", <<>>, Room(3))
           IN FoldSeq(LAMBDA o, sum : sum + o.budget.input + o.budget.output, 0, orders) > 40000

\* A plan is in order when its todos can be done one after the other.
ASSUME OrderedIsDoable ==
    \A g \in [{"t1", "t2", "t3"} -> SUBSET {"t1", "t2", "t3"}] :
        LET todos == <<[id |-> "t1", depends |-> g["t1"]], [id |-> "t2", depends |-> g["t2"]],
                       [id |-> "t3", depends |-> g["t3"]]>>
        IN Ordered(todos) <=>
           \E place \in [{"t1", "t2", "t3"} -> 1..3] :
               \A t \in {"t1", "t2", "t3"} : \A u \in g[t] : place[u] < place[t]

-----------------------------------------------------------------------------
(* ExpertMemory.                                                             *)

Pieces(r) == {<<>>} \cup {<<[id |-> <<r, i>>, size |-> z, short |-> e]>> :
                             i \in {1}, z \in {500, 4000, 9000}, e \in {0, 300}}

Rounds ==
    LET Round1(r, said, open, rest) == [id |-> <<r, 0>>, said |-> said, open |-> open, rest |-> rest]
    IN {<<Round1(1, <<>>, o1, <<>>), Round1(2, <<>>, o2, <<>>)>> \o last :
            o1 \in Pieces(1), o2 \in {<<>>, <<[id |-> <<2, 1>>, size |-> 2900, short |-> 0]>>},
            last \in {<<Round1(3, <<>>, <<>>, r3), Round1(4, s4, o4, <<>>)>> :
                         r3 \in Pieces(3), s4 \in {<<>>, <<[id |-> <<4, 2>>, size |-> 1200, short |-> 0]>>},
                         o4 \in Pieces(4)}}

\* What a packet leaves out is counted, it never grows beyond its limit, and what
\* the latest round left open is in it before anything of the rounds before.
ASSUME NothingIsLostSilently ==
    \A rounds \in Rounds :
        LET packet == Capsule(rounds, 200)
            open   == UNION {ToSet(rounds[i].open) : i \in DOMAIN rounds}
            last   == Last(rounds)
            length == FoldSeq(LAMBDA p, sum : sum + p.size, 0, last.said \o last.open)
        IN /\ packet.size <= PacketRoom
           /\ {p.id : p \in open} \subseteq packet.shown \/ packet.omitted > 0
           /\ length <= PacketRoom - IndexRoom
              => {p.id : p \in ToSet(last.said \o last.open)} \subseteq packet.shown

\* The latest failure of a session is told to the next round, however many
\* programs succeeded after it, and no more than four executions are.
ASSUME FailureIsRecalled ==
    \A states \in SeqOf({"succeeded", "failed", "running"}, 6) :
        LET xs == [i \in DOMAIN states |-> [id |-> i, state |-> states[i],
                                            result |-> states[i] # "running"]]
            failed == {i \in DOMAIN states : states[i] = "failed"}
            told == {x.id : x \in ToSet(Recalled(xs))}
        IN /\ Cardinality(told) = Len(Recalled(xs)) /\ Len(Recalled(xs)) <= 4
           /\ \A i \in failed : (\A j \in failed : j <= i) => i \in told
           /\ \A x \in ToSet(Recalled(xs)) : x.state # "running"

\* A round is completed by prose that no tool call follows, and only then.
ASSUME AnswerEndsTheRound ==
    \A events \in SeqOf({[kind |-> "turn", text |-> t, tools |-> u, error |-> "none"] :
                             t \in BOOLEAN, u \in BOOLEAN}
                        \cup {[kind |-> k, text |-> FALSE, tools |-> FALSE, error |-> "unknown"] :
                             k \in {"tool started", "tool ended", "error"}}, 4),
       ended \in {"itself", "timeout", "exception", "cancelled"} :
        /\ RunState(events, ended) = "completed" <=>
               /\ ended = "itself" /\ \A i \in DOMAIN events : events[i].kind # "error"
               /\ \E i \in DOMAIN events :
                      /\ events[i].kind = "turn" /\ events[i].text /\ ~events[i].tools
                      /\ \A j \in (i + 1)..Len(events) : events[j].kind # "tool started"
        /\ RunFailure(events, ended) = "none" => RunState(events, ended) = "completed"

\* The model always sees the latest failure and the last two exchanges in full,
\* and what it no longer sees in full it can read.
ASSUME LatestFailureStaysInView ==
    \A states \in SeqOf({[state |-> s, recoverable |-> b] :
                            s \in {"succeeded", "failed", "running"}, b \in BOOLEAN}, 4) :
        LET messages == FlattenSeq([i \in DOMAIN states |->
                <<[kind |-> "call", call |-> i, state |-> "none", recoverable |-> FALSE, long |-> TRUE],
                  [kind |-> "result", call |-> i, state |-> states[i].state,
                   recoverable |-> states[i].recoverable, long |-> TRUE]>>])
            ended  == {i \in DOMAIN states : states[i].state # "running"}
            failed == {i \in DOMAIN states : states[i].state = "failed"}
            cut    == {i \in DOMAIN states : ~Projected(messages)[2 * i].long}
        IN /\ \A i \in cut : /\ states[i].recoverable /\ i \in ended
                             /\ Cardinality({j \in ended : j > i}) >= 2
                             /\ i \in failed => \E j \in failed : j > i
           /\ \A i \in DOMAIN states : Projected(messages)[2 * i - 1].long <=> i \notin cut

IsSubsequence(s, t) ==
    LET end[i \in 0..Len(s)] ==      \* the earliest place in t after which s[1..i] is found
            IF i = 0 THEN 0
            ELSE LET from == {j \in DOMAIN t : end[i - 1] >= 0 /\ j > end[i - 1] /\ t[j] = s[i]}
                 IN IF from = {} THEN Len(t) + 1 ELSE CHOOSE j \in from : \A k \in from : j <= k
    IN end[Len(s)] <= Len(t)

\* The history keeps every conversation that was ever saved, in order, also when
\* a later one replaced its beginning or is shorter.
ASSUME HistoryKeepsAll ==
    \A a, b, c \in SeqOf({1, 2}, 3) \ {<<>>} :
        LET first  == Appended(<<>>, a, <<>>)
            second == Appended(a, b, first)
            third  == Appended(b, c, second)
        IN /\ \A s \in {a, b, c} : IsSubsequence(s, third)
           /\ IsPrefix(first, second) /\ IsPrefix(second, third)
           /\ IsPrefix(a, b) /\ IsPrefix(b, c) => third = c
           /\ \* The history starts with what an older release saved without one.
              IsPrefix(a, Appended(a, b, <<>>))

-----------------------------------------------------------------------------
(* TaskAnswer.                                                               *)

Texts == [body : {"own", ""}, cites : SUBSET {"v1", "f1"}, bound : {TRUE}]
         \cup [body : {"own", ""}, cites : {{}}, bound : BOOLEAN]

View1   == [id |-> "v1", kind |-> "interactive_view", created |-> 1, names |-> {"v1", "view"},
            features |-> {"peak"}, data |-> TRUE]
View2   == [View1 EXCEPT !.id = "v2", !.names = {"v2", "view"}]
Report1 == [id |-> "f1", kind |-> "report", created |-> 2, names |-> {"f1"}, features |-> {},
            data |-> FALSE, text |-> [body |-> "report", cites |-> {"v1"}, bound |-> TRUE]]

RowsWithRefs ==
    SeqOf([job : {"a", "b"}, round : {1, 2}, expert : {TRUE}, refs : {{}, {"v1"}, {"v2", "f1"}},
           intents : {{"answer"}, {"report"}}], 2)

\* The latest round of each Expert that has results speaks for it, alone.
ASSUME LatestRoundSpeaks ==
    \A rows \in RowsWithRefs :
        /\ \A i \in DOMAIN rows : rows[i].refs # {} =>
               \E j \in DOMAIN rows : /\ rows[j].job = rows[i].job
                                      /\ rows[j].round >= rows[i].round
                                      /\ rows[j].refs # {} /\ rows[j].refs \subseteq Durable(rows)
        /\ \A r \in Durable(rows) : \E i \in DOMAIN rows :
               /\ r \in rows[i].refs
               /\ \A j \in DOMAIN rows : rows[j].job = rows[i].job /\ rows[j].refs # {}
                                         => rows[j].round <= rows[i].round

\* When a report is asked for and is written, everything that was accepted can be
\* reached from the answer, and the answer does not change by being put into its
\* form once more.
ASSUME AnswerLeadsToResults ==
    \A rows \in RowsWithRefs, text \in Texts, written \in SUBSET {"report", "notebook"} :
        LET tree == [stopped_by |-> "r0", exit |-> "answered"]
            f == Fallback(text, rows, {View1, View2, Report1}, tree, "r1", written, 3)
        IN /\ f.answer.body # "" /\ f.outcome = "none"
           /\ Canonical(f.answer, f.results, TRUE) = f.answer
           /\ Durable(rows) \subseteq {r.id : r \in f.results}
           /\ ReportRequested(rows) /\ "report" \in written =>
                  /\ Reports(f.results) # {}
                  /\ Newest(Reports(f.results)).id \in f.answer.cites
                  /\ Report1 \notin f.results => Durable(rows) \subseteq
                         f.answer.cites \cup Newest(Reports(f.results)).text.cites

\* A citation leads to one result or to none.
ASSUME CitationsAreUnambiguous ==
    \A name \in {"v1", "v2", "view", "f1", "x"}, feature \in {"none", "peak", "y"} :
        LET c == Cited(name, feature, {View1, View2, Report1})
        IN /\ Cardinality(c.to) <= 1 /\ (c.to # {} => ~c.unavailable)
           /\ c.to # {} <=> /\ name \in {"v1", "v2", "f1"}
                            /\ feature = "none" \/ (feature = "peak" /\ name # "f1")

\* A request that completes without a recorded result has a conclusion that is
\* younger than its last assignment.
ASSUME ConclusionFollowsAssignments ==
    \A events \in SeqOf({[kind |-> "turn", text |-> t, tools |-> u, tool |-> "none"] :
                             t \in {"", "said"}, u \in BOOLEAN}
                        \cup {[kind |-> k, text |-> "", tools |-> FALSE, tool |-> "ocean_assign"] :
                             k \in {"tool started", "tool ended", "error"}}, 3),
       limit \in {1, 2}, pending \in BOOLEAN :
        Ending(FALSE, events, limit, pending, FALSE) = "completed" <=>
            /\ ~pending /\ ToolCalls(events) <= limit
            /\ \A i \in DOMAIN events : events[i].kind # "error"
            /\ \E i \in DOMAIN events :
                   /\ events[i].kind = "turn" /\ events[i].text # "" /\ ~events[i].tools
                   /\ \A j \in (i + 1)..Len(events) : events[j].kind # "tool ended"

=============================================================================
