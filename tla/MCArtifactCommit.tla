--------------------------- MODULE MCArtifactCommit ---------------------------
(* Instances of ArtifactCommit for TLC: requests are interchangeable.  TLC     *)
(* evaluates the assumptions about ArtifactLineage before it starts.           *)
EXTENDS ArtifactCommit, ArtifactLineage, TLC

Symmetry == Permutations(Operations)

-----------------------------------------------------------------------------
(* ArtifactLineage: three versions with any links, also circular ones.       *)

Plain(r) == [ref |-> r, type |-> "dataset", replaces |-> NoRef, links |-> {}, content |-> <<>>]

\* Each version stands as it is or has met one of four causes.
Met == {"available", "superseded", "tombstoned", "source_unavailable", "decision_invalidated"}

Tangled(links, met) ==
    LET told == {r \in DOMAIN met : met[r] \in {"source_unavailable", "decision_invalidated"}}
    IN [versions |-> {Plain(r) : r \in DOMAIN met}, links |-> links,
        life   |-> [r \in DOMAIN met |-> IF r \in told THEN "available" ELSE met[r]],
        events |-> [i \in 1..Cardinality(told) |->
                       LET r == InOrder(told)[i]
                       IN [ref |-> r, kind |-> met[r], active |-> TRUE]]]

AnyLinks ==
    SUBSET ({[from |-> f, to |-> t, relation |-> "derived_from"] : f \in 1..3, t \in 1..3}
            \ {[from |-> r, to |-> r, relation |-> "derived_from"] : r \in 1..3})

Spreads(links) == {l \in links : l.relation \in Propagating}

\* A version is as bad as the worst of what it rests on, whatever the way and
\* however the links go round; its reason is a chain of links to a cause.
ASSUME ImpactIsTheWorst ==
    \A links \in AnyLinks, replaced \in {{}, {[from |-> 3, to |-> 1, relation |-> "supersedes"]}},
       met \in [1..3 -> Met] :
        LET library == Tangled(links \cup replaced, met)
            impact  == Impact(library)
            rank(r) == Priority[Direct(library, r)[1]]
        IN \A r \in 1..3 :
               LET below == Reached({r}, links)
                   worst == {c \in below : \A d \in below : rank(d) <= rank(c)}
                   chain == impact[r].chain
               IN /\ \A c \in worst : impact[r].state = Direct(library, c)[1]
                  /\ impact[r].state = "current" <=> chain = <<>>
                  /\ chain # <<>> =>
                         /\ chain[1] \in worst /\ impact[r].trigger = Direct(library, chain[1])[2]
                         /\ \A i \in 2..Len(chain) :
                                [from |-> IF i = Len(chain) THEN r ELSE chain[i + 1],
                                 to |-> chain[i], relation |-> "derived_from"] \in links
                         /\ r \in worst => chain = <<r>>

\* Three commits of data sets and views, well-formed or not.
Drafts(r) ==
    {[Plain(r) EXCEPT !.replaces = p, !.links = l] :
        p \in 0..2, l \in {{}, {[relation |-> "derived_from", to |-> 1]}}}
    \cup {[Plain(r) EXCEPT !.type = "interactive_view", !.replaces = p,
                           !.content = [datasets |-> used], !.links = l \cup more] :
             p \in {0, 2}, used \in SUBSET {1, 2}, more \in {{}, {[relation |-> "derived_from", to |-> 1]}},
             l \in {{}, {[relation |-> "uses_dataset", to |-> 1]},
                    {[relation |-> "uses_dataset", to |-> s] : s \in {1, 2}}}}

Lineages ==
    LET one == {WithVersion(Empty, v) : v \in Drafts(1)}
        two == one \cup {WithVersion(library, v) : library \in one, v \in Drafts(2)}
    IN two \cup {WithVersion(library, v) : library \in two, v \in Drafts(3)}

\* Whatever is committed: no link dangles or closes a circle, although the check for
\* circles never refuses anything, and a view cannot escape what befalls its data,
\* also when it only says in its content that it uses it; what is taken back leaves
\* no trace.
ASSUME LineageIsSound ==
    \A library \in Lineages :
        /\ \A l \in library.links : Known(library, l.to) # {} /\ Known(library, l.from) # {}
        /\ \A r \in Refs(library) :
               r \notin Reached({l.to : l \in {k \in Spreads(library.links) : k.from = r}},
                                Spreads(library.links))
        /\ \A v \in Drafts(4) :
               "cycle" \in LinkProblems(v, library) => "to itself" \in LinkProblems(v, library)
        /\ 1 \in Refs(library) =>
               LET lost == WithEvent(library, "e", 1, "source_unavailable", TRUE)
                   back == WithEvent(lost, "e", 1, "source_unavailable", FALSE)
               IN /\ \A v \in library.versions :
                         1 \in Reached({v.ref}, Spreads(library.links))
                         \/ (v.type = "interactive_view" /\ 1 \in v.content.datasets)
                         => Impact(lost)[v.ref].state = "source_unavailable"
                  /\ Impact(back) = Impact(library)

\* A correction that is derived from the version it replaces is stale from the
\* start.
ASSUME CorrectionMayBeStale ==
    \E library \in Lineages : \E v \in library.versions :
        v.replaces # NoRef /\ library.life[v.ref] = "available"
        /\ Impact(library)[v.ref].state = "stale"
=============================================================================
