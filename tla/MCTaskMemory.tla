---------------------------- MODULE MCTaskMemory ----------------------------
(* Instances of TaskMemory for TLC: one old turn, interchangeable new ones.  *)
(* TLC evaluates the assumptions about TaskSources and WorkspaceState before *)
(* it starts.                                                                *)
EXTENDS TaskMemory, TaskSources, WorkspaceState, TLC

OldTurn  == <<0>>
Symmetry == Permutations(Turns)

-----------------------------------------------------------------------------
(* TaskSources on folders of two levels.                                     *)

Paths == {<<"a">>, <<"b">>, <<"a", "source">>, <<"a", "source", "f">>, <<"a", "source", "g">>,
          <<"a", "x">>}

\* What is in a folder, below a directory or where a link leads.
Folders ==
    {[p \in {q \in Paths : kind[q] # "absent"} |-> kind[p]] :
        kind \in {k \in [Paths -> {"absent", "file", "directory", "link", "special"}] :
                     \A p \in Paths : k[p] # "absent" =>
                         \A q \in Prefixes(p) \ {<<>>, p} : k[q] \in {"directory", "link"}}}

Asked == Paths \cup {<<>>, <<"a", "..">>, <<"..", "b">>}

\* What an import takes lies in the workspace whatever stands in it; a snapshot
\* has all files of a directory or there is none, and none from elsewhere.
ASSUME SourceIsInside ==
    \A folder \in Folders, path \in Asked :
        WorkspaceSource(folder, path) # "refused" =>
            LET files == SnapshotFiles(folder, path)
                all   == {p \in DOMAIN folder : IsPrefix(path, p) /\ folder[p] # "directory"}
            IN /\ \A p \in Prefixes(path) \ {<<>>, path} : folder[p] = "directory"
               /\ files \in {{}, all}
               /\ \A p \in files : folder[p] = "file"

\* A staged import that is done takes away all of itself and nothing of another;
\* one that asks for a reference only refers to what is taken away.
ASSUME StagedGoesAlone ==
    \A folder \in Folders, path \in Asked :
        WorkspaceSource(folder, path) # "refused" /\ Staged(path) =>
            LET left == Discarded(folder, path) IN
            /\ \A p \in DOMAIN folder : p \in DOMAIN left <=> p[1] # path[1]
            /\ WorkspaceSource(left, path) = "refused"

Import(id, task, level, print, names) ==
    [id |-> id, task |-> task, level |-> level, scope |-> "workspace", locator |-> "a",
     print |-> print, staged |-> FALSE, names |-> names]

Libraries ==
    LET requests(id) == {Import(id, t, l, p, n) :
                            t \in {"t1", "t2", NoTask}, n \in BOOLEAN, p \in {1, 2},
                            l \in {"local_reference", "materialized_snapshot"}}
    IN {LET one == Imported([rows |-> <<>>, links |-> <<>>], r)
            two == Imported(one, s)
        IN [before |-> two, r |-> q, after |-> Imported(two, q)] :
            r \in requests("i1"), s \in requests("i2"), q \in requests("i3")}

\* The task gets what the import found there, once; a source that did not change
\* is not registered again unless it is copied or named; and the numbers under
\* which a task knows its sources stay.
ASSUME ImportIsReused ==
    \A i \in Libraries :
        LET known == \E k \in DOMAIN i.before.rows :
                         i.before.rows[k].level = "local_reference" /\ i.before.rows[k].print = i.r.print
            plain == i.r.level = "local_reference" /\ ~i.r.names
            of(links) == SourcesOf(links, i.r.task)
        IN /\ Len(i.after.rows) = Len(i.before.rows) + (IF plain /\ known THEN 0 ELSE 1)
           /\ IsPrefix(of(i.before.links), of(i.after.links))
           /\ i.r.task # NoTask =>
                  \E k \in DOMAIN of(i.after.links) :
                      LET row == i.after.rows[of(i.after.links)[k]]
                      IN row.print = i.r.print /\ row.level = i.r.level
           /\ \A t \in {"t1", "t2"} \ {i.r.task} :
                  SourcesOf(i.after.links, t) = SourcesOf(i.before.links, t)
           /\ \A j, k \in DOMAIN i.after.links :
                  i.after.links[j].task = i.after.links[k].task
                  /\ i.after.links[j].row = i.after.links[k].row => j = k

Relations == {"primary", "output", "supporting", "internal", "evidence", "source"}

Linkings ==
    SeqOf([task : {"t1"}, row : {1, 2}, relation : Relations, origin : {"q1", "q2"}], 3)

\* An answer that names its results decides how they are shown for its own request,
\* and what another request gave the task stays as it was.
ASSUME AnswerDecidesForItself ==
    \A links \in Linkings, primary \in {{1}, {1, 2}}, more \in SUBSET {2} :
        LET now   == Delivered(links, "t1", "q1", primary, more \ primary)
            by(l, q) == SelectSeq(l, LAMBDA k : k.origin = q)
            shown == Shown(now, "t1")
        IN /\ by(now, "q2") = by(links, "q2")
           /\ \A s \in shown, t \in shown : s.row = t.row => s = t
           /\ \A s \in shown : s.row \in primary => s.rank = 3 /\ "q1" \in s.origins
           /\ \A s \in shown : s.row \notin primary => "q1" \notin s.origins \/ s.rank < 3
           /\ SourcesOf(now, "t1") = SourcesOf(links, "t1")

\* A viewer opens no data set and nothing beyond its limit; what a user may have
\* edited since is measured as it is now.
ASSUME ViewersAreBounded ==
    \A type \in {"paper", "report", "interactive_view", "dataset"},
       file \in [name : {"f"}, mime : {"pdf", "json", "png", "markdown"}, size : {1, 8192, 8193, 25601}],
       editable \in BOOLEAN :
        /\ \A purpose \in DOMAIN Viewers :
               ArtifactGrant(type, {file}, "f", purpose) # {} =>
                   /\ type # "dataset" /\ file.size <= 25600
                   /\ file.mime # "pdf" => file.size <= 8192
        /\ ResultGrant(file, [size |-> 30000, hash |-> 1], editable) # {} => ~editable

-----------------------------------------------------------------------------
(* WorkspaceState: five operations of two clients, which may name a revision  *)
(* they have seen, under two providers.                                       *)

Steps(w, n) ==
    {[by |-> "open", seen |-> s, next |-> Opened(w, p, s)] : p \in {"here", "there"}, s \in 0..1 \cup {Nobody}}
    \cup {[by |-> "activate", seen |-> s, next |-> Activated(w, "hypothesis", r, {1}, s)] :
             r \in {1, 2}, s \in {1, w.revision}}
    \cup {[by |-> "confirm", seen |-> s, next |-> Confirmed(w, p, "more", n, s)] :
             p \in {"p1", "p2"}, s \in {1, Nobody}}
    \cup {[by |-> "turn", seen |-> Nobody, next |-> InForceFor(w, p)] : p \in {"p1", "p2"}}

Workspaces[n \in 0..4] ==
    IF n = 0 THEN {Closed}
    ELSE UNION {{s.next : s \in Steps(w, n)} : w \in Workspaces[n - 1]}

Current(w) == w.policies[w.current]

\* A turn works under a policy of its own provider that allows more than the default
\* only if a request confirmed it for that provider; no version of a policy is ever
\* changed; and whoever names the revision seen overwrites nothing that came later.
ASSUME DisclosureIsConfirmed ==
    \A w \in UNION {Workspaces[n] : n \in 0..4} :
        /\ \A s \in Steps(w, 5) :
               /\ IsPrefix(w.policies, s.next.policies)
               /\ s.next # w => s.seen \in {Nobody, w.revision}
               /\ s.by # "turn" /\ s.next # w => s.next.revision = w.revision + 1
        /\ \A p \in {"p1", "p2"} :
               w.path # "" =>
                   LET now == InForceFor(w, p) IN
                   /\ Current(now).provider = p
                   /\ Current(now).allows # Default =>
                          \E i \in DOMAIN w.policies : w.policies[i] = Current(now)
                                                       /\ Current(now).by # Nobody
                   /\ now.current = Len(now.policies)

\* Leaving a provider and coming back forgets what the user confirmed for it, and no
\* revision tells.
ASSUME ConfirmationIsNotRestored ==
    \E w \in Workspaces[2] : w.current # 0 /\ Current(w).by # Nobody /\
        LET back == InForceFor(InForceFor(w, "p2"), "p1")
        IN Current(w).provider = "p1" /\ Current(back).by = Nobody /\ back.revision = w.revision
=============================================================================
