-------------------------- MODULE ArtifactLineage --------------------------
(***************************************************************************)
(* What the versions of a workspace have to do with each other: the links  *)
(* a commit must name and those it may not, and the impact that a change   *)
(* of one version has on all that rest on it                               *)
(* (src/oceanx/artifacts/impact.py; src/oceanx/backend/store.py, the part  *)
(* of a commit's transaction that ArtifactCommit takes as one more reason  *)
(* to fail).                                                               *)
(*                                                                         *)
(* A version: [ref, type, replaces, links, content], links [relation, to], *)
(* content the references of each field.  References are numbers in the    *)
(* order of their keys.  A library: versions, links between them, where    *)
(* each stands in its life, and events about its sources and decisions,    *)
(* by their id.                                                            *)
(***************************************************************************)
EXTENDS Naturals, Sequences, FiniteSets, SequencesExt

Types == {"paper", "claim", "observation", "hypothesis", "dataset", "interactive_view",
          "experiment", "decision", "report", "project_context", "dataset_diagnosis"}

Propagating == {"derived_from", "uses_dataset", "supports_claim", "contradicts_claim",
                "tests_hypothesis", "motivates", "included_in_report"}

NoRef == 0
Empty == [versions |-> {}, links |-> {}, life |-> <<>>, events |-> <<>>]

Known(library, ref) == {v \in library.versions : v.ref = ref}

-----------------------------------------------------------------------------
(* The links of a version.                                                 *)

\* _links_for_artifact.
Links(v) ==
    v.links \cup {[relation |-> "supersedes", to |-> r] : r \in {v.replaces} \ {NoRef}}

\* Which of from can be reached over links.
Reached(from, links) ==
    LET next(S) == S \cup {l.to : l \in {k \in links : k.from \in S}}
        after[n \in 0..Cardinality(links)] == IF n = 0 THEN from ELSE next(after[n - 1])
    IN after[Cardinality(links)]

\* would_create_propagating_cycle.
Cycle(v, link, links) ==
    /\ link.relation \in Propagating
    /\ v.ref \in Reached({link.to}, {l \in links : l.relation \in Propagating})

\* _validate_artifact_links.
LinkProblems(v, library) ==
    UNION {{why \in {"to itself"} : l.to = v.ref}
           \cup {why \in {"dangling"} : Known(library, l.to) = {}}
           \cup {why \in {"another type"} : /\ l.relation = "supersedes"
                                            /\ \E t \in Known(library, l.to) : t.type # v.type}
           \cup {why \in {"cycle"} : Cycle(v, l, library.links)} : l \in Links(v)}

\* What the fields of a type refer to, and how the version must be linked to it.
Rules ==
    [claim            |-> [evidence   |-> [types |-> {"paper"}, relation |-> "derived_from"]],
     observation      |-> [sources    |-> [types |-> Types, relation |-> "derived_from"]],
     hypothesis       |-> [evidence   |-> [types |-> Types, relation |-> "motivates"]],
     experiment       |-> [hypothesis |-> [types |-> {"hypothesis"}, relation |-> "tests_hypothesis"],
                           inputs     |-> [types |-> {"dataset"}, relation |-> "uses_dataset"],
                           results    |-> [types |-> {"interactive_view", "observation", "report"},
                                           relation |-> "derived_from"]],
     decision         |-> [subjects   |-> [types |-> Types, relation |-> "none"]],
     interactive_view |-> [datasets   |-> [types |-> {"dataset"}, relation |-> "uses_dataset"]],
     report           |-> [artifacts  |-> [types |-> Types, relation |-> "included_in_report"]]]

\* _validate_domain_content_refs.
ContentProblems(v, library) ==
    IF v.type \notin DOMAIN Rules THEN {}
    ELSE UNION {LET rule == Rules[v.type][f] IN
                UNION {{why \in {"unknown reference"} : Known(library, r) = {}}
                       \cup {why \in {"wrong type"} : \E t \in Known(library, r) : t.type \notin rule.types}
                       \cup {why \in {"no link"} :
                                /\ rule.relation # "none"
                                /\ [relation |-> rule.relation, to |-> r] \notin v.links}
                       : r \in v.content[f]} : f \in DOMAIN Rules[v.type]}

-----------------------------------------------------------------------------
(* Impact.                                                                 *)

Priority == [current |-> 0, stale |-> 1, source_unavailable |-> 2, invalidated |-> 3]

Active(library, ref, kind) ==
    \E e \in ToSet(library.events) : e.ref = ref /\ e.kind = kind /\ e.active

\* _direct_impact, the state and what it comes from.
Direct(library, ref) ==
    IF library.life[ref] = "tombstoned" THEN <<"invalidated", "tombstoned">>
    ELSE IF Active(library, ref, "decision_invalidated")
         THEN <<"invalidated", "decision_invalidated">>
    ELSE IF Active(library, ref, "source_unavailable")
         THEN <<"source_unavailable", "source_unavailable">>
    ELSE IF library.life[ref] = "superseded" THEN <<"stale", "superseded">>
    ELSE <<"current", "none">>

Refs(library) == {v.ref : v \in library.versions}

InOrder(refs) == SetToSortSeq(refs, <)

\* Those that rest on ref, in the order the links are followed.
Dependents(library, ref) ==
    InOrder({l.from : l \in {k \in library.links : k.to = ref /\ k.relation \in Propagating}})

\* _offer: a graver state wins, then a shorter chain.
Offered(work, ref, state, chain, trigger) ==
    LET was == work.results[ref]
        no  == \/ Priority[state] < Priority[was.state]
               \/ /\ Priority[state] = Priority[was.state]
                  /\ was.chain # <<>> /\ Len(was.chain) <= Len(chain)
        new == [state |-> state, chain |-> chain, trigger |-> trigger]
    IN IF no THEN work
       ELSE [results |-> [work.results EXCEPT ![ref] = new],
             queue   |-> Append(work.queue, <<ref, new>>)]

RECURSIVE Spread(_, _)
Spread(library, work) ==
    IF work.queue = <<>> THEN work.results
    ELSE LET ref == Head(work.queue)[1]
             new == Head(work.queue)[2]
         IN Spread(library,
                   FoldLeft(LAMBDA w, r : Offered(w, r, new.state, Append(new.chain, ref), new.trigger),
                            [work EXCEPT !.queue = Tail(@)], Dependents(library, ref)))

\* rebuild_impact: chain names the versions from the cause on.
Impact(library) ==
    LET current == [results |-> [r \in Refs(library) |->
                                    [state |-> "current", chain |-> <<>>, trigger |-> "none"]],
                    queue   |-> <<>>]
        causes  == InOrder({r \in Refs(library) : Direct(library, r)[1] # "current"})
    IN Spread(library,
              FoldLeft(LAMBDA w, r : Offered(w, r, Direct(library, r)[1], <<r>>, Direct(library, r)[2]),
                       current, causes))

-----------------------------------------------------------------------------
(* Changes of a library; each is followed by rebuild_impact.               *)

\* The rows of a commit: version, links, and the end of the version it replaces.
WithVersion(library, v) ==
    IF LinkProblems(v, library) \cup ContentProblems(v, library) # {} THEN library
    ELSE [library EXCEPT
             !.versions = @ \cup {v},
             !.links = @ \cup {[from |-> v.ref, to |-> l.to, relation |-> l.relation] : l \in Links(v)},
             !.life = [r \in DOMAIN @ \cup {v.ref} |-> IF r = v.ref THEN "available"
                                                       ELSE IF r = v.replaces THEN "superseded"
                                                       ELSE @[r]]]

\* set_artifact_lifecycle.
WithLife(library, ref, state) == [library EXCEPT !.life[ref] = state]

\* set_artifact_impact_input: an event that is known keeps its version and kind.
WithEvent(library, id, ref, kind, active) ==
    LET was == IF id \in DOMAIN library.events THEN library.events[id]
               ELSE [ref |-> ref, kind |-> kind, active |-> active]
    IN [library EXCEPT !.events = [e \in DOMAIN @ \cup {id} |->
                                      IF e = id THEN [was EXCEPT !.active = active] ELSE @[e]]]
=============================================================================
