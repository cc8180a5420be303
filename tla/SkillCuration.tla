---------------------------- MODULE SkillCuration ---------------------------
(***************************************************************************)
(* The Skill Curator (src/oceanx/skill_curator.py): agents save notes of   *)
(* experience while they work, and a periodic review turns them into       *)
(* versioned Skills.  A review runs in the backend: it lists a batch of    *)
(* notes, waits for a model that reads Skills on the way, and applies the  *)
(* decisions one transaction at a time.  While it waits, the tasks of the  *)
(* notes go on, the user rolls a Skill back from the command line (another *)
(* process), and the backend may die.                                      *)
(*                                                                         *)
(* Abstractions: one workspace; a note's evidence is the round of its task *)
(* that was last seen; a Skill text is the version it was written from;    *)
(* tokens are small numbers; evidence reads only cost characters and are   *)
(* left out.  A review asks for at most MaxDecisions decisions, a task has *)
(* at most MaxRounds rounds and the user rolls back MaxRollbacks times.    *)
(***************************************************************************)
EXTENDS Naturals, SequencesExt

CONSTANTS
    NoteCount,    \* notes are numbered in the order they are saved
    Requests,     \* rounds of research
    RequestOf,    \* [Notes -> Requests]
    Tasks, TaskOf,      \* [Requests -> Tasks]
    Skills, Bundled,    \* Bundled: shipped with the program
    BatchSize,
    Estimates,    \* reservations a model call may need
    Overrun,      \* by how much a reported usage may exceed its reservation
    ReviewBudget, DailyBudget, MaxCalls,
    MaxDecisions, MaxRounds, MaxRollbacks,
    Unread        \* no version

Notes == 1..NoteCount

ASSUME CurationAssumption ==
    /\ {NoteCount, BatchSize, MaxDecisions, Overrun, ReviewBudget, DailyBudget, MaxCalls} \subseteq Nat
    /\ Estimates \subseteq Nat
    /\ {MaxRounds, MaxRollbacks} \subseteq Nat
    /\ RequestOf \in [Notes -> Requests] /\ TaskOf \in [Requests -> Tasks]
    /\ Bundled \subseteq Skills
    /\ Unread \notin Nat

VARIABLES
    task,      \* research_tasks: [present, busy, round]
    note,      \* saved_experiences: [status, seen, by]
    inbox,     \* pending notes in the order of a review
    docs,      \* evolved_skill_documents: the versions of a Skill; the last one is active
    results,   \* task results the Curator has written
    spent,     \* tokens the ledger of today holds
    accounted, \* tokens of today's calls: reported for them, or else reserved
    attempt,   \* the state recorded for the last review
    review     \* the review in progress, gone with the process

durable == <<task, note, inbox, docs, results, spent, accounted, attempt>>
ledger  == <<spent, accounted>>
vars    == <<durable, review>>

NoCall   == [amount |-> 0, today |-> FALSE, open |-> FALSE]
NoReview == [phase |-> "idle", batch |-> {}, saw |-> [n \in Notes |-> 0],
             catalog |-> [s \in Skills |-> Unread], read |-> [s \in Skills |-> Unread],
             call |-> NoCall, calls |-> 0, reserved |-> 0, index |-> 0,
             consumed |-> {}, retry |-> {}, changed |-> {}, put |-> {}]

Init ==
    /\ task = [t \in Tasks |-> [present |-> TRUE, busy |-> FALSE, round |-> 0]]
    /\ note = [n \in Notes |-> [status |-> "unsaved", seen |-> "never", by |-> <<>>]]
    /\ inbox = <<>>
    /\ docs = [s \in Skills |-> <<>>]
    /\ results = {}
    /\ spent = 0 /\ accounted = 0
    /\ attempt = "none"
    /\ review = NoReview

Home(n) == TaskOf[RequestOf[n]]
Phase(p) == review.phase = p

-----------------------------------------------------------------------------
(* Tasks and the notes their agents save.                                  *)

TaskStarts(t) ==
    /\ task[t].present /\ ~task[t].busy /\ task[t].round < MaxRounds
    /\ task' = [task EXCEPT ![t].busy = TRUE, ![t].round = @ + 1]
    /\ UNCHANGED <<note, inbox, docs, results, ledger, attempt, review>>

TaskEnds(t) ==
    /\ task[t].busy
    /\ task' = [task EXCEPT ![t].busy = FALSE]
    /\ UNCHANGED <<note, inbox, docs, results, ledger, attempt, review>>

\* Notes nobody has decided on go with their task.
TaskDeleted(t) ==
    /\ task[t].present /\ ~task[t].busy
    /\ task' = [task EXCEPT ![t].present = FALSE]
    /\ LET gone == {n \in Notes : note[n].status = "pending" /\ Home(n) = t} IN
       /\ note' = [n \in Notes |-> IF n \in gone THEN [note[n] EXCEPT !.status = "deleted"] ELSE note[n]]
       /\ inbox' = SelectSeq(inbox, LAMBDA n : n \notin gone)
    /\ UNCHANGED <<docs, results, ledger, attempt, review>>

\* A note that has never been reviewed comes before those that have.
Save(n) ==
    /\ note[n].status = "unsaved" /\ \A m \in 1..(n - 1) : note[m].status # "unsaved"
    /\ task[Home(n)].busy
    /\ note' = [note EXCEPT ![n].status = "pending"]
    /\ inbox' = SelectSeq(inbox, LAMBDA m : note[m].seen = "never") \o <<n>>
                \o SelectSeq(inbox, LAMBDA m : note[m].seen # "never")
    /\ UNCHANGED <<task, docs, results, ledger, attempt, review>>

\* A day after its review a note may be listed again; the oldest review first.
Rests(i) ==
    /\ note[inbox[i]].seen = "today"
    /\ \A j \in 1..(i - 1) : note[inbox[j]].seen # "today"
    /\ note' = [note EXCEPT ![inbox[i]].seen = "past"]
    /\ UNCHANGED <<task, inbox, docs, results, ledger, attempt, review>>

\* The ledger is kept by UTC day; an open call stays with the day it was placed.
Midnight ==
    /\ ledger # <<0, 0>> \/ review.call.today
    /\ spent' = 0 /\ accounted' = 0
    /\ review' = [review EXCEPT !.call.today = FALSE]
    /\ UNCHANGED <<task, note, inbox, docs, results, attempt>>

-----------------------------------------------------------------------------
(* Versions of a Skill.                                                    *)

Version(s) == Len(docs[s])
Installed(s) == s \in Bundled \/ Version(s) > 0

\* What the catalog says of a Skill: its version, 0 for the bundled text.
Listed(s) == IF Installed(s) THEN Version(s) ELSE Unread

Revision(author, base, N) == [by |-> author, base |-> base, sources |-> N]

Rollbacks(s) == Cardinality({v \in 1..Version(s) : docs[s][v].by = "user"})

\* Mutant of RollBack: the versions after it are taken back.
RollBackRewrites(s, v) ==
    /\ Version(s) > 0
    /\ v \in 1..Version(s)
    /\ docs' = [docs EXCEPT ![s] = SubSeq(@, 1, v)]
    /\ UNCHANGED <<task, note, inbox, results, ledger, attempt, review>>

\* skill-rollback: the user restores version v, 0 for the bundled text.
RollBack(s, v) ==
    /\ Version(s) > 0 /\ Rollbacks(s) < MaxRollbacks
    /\ v \in 1..Version(s) \/ (v = 0 /\ s \in Bundled)
    /\ docs' = [docs EXCEPT ![s] =
           Append(@, Revision("user", v, @[IF v = 0 THEN Version(s) ELSE v].sources))]
    /\ UNCHANGED <<task, note, inbox, results, ledger, attempt, review>>

-----------------------------------------------------------------------------
(* A review: the batch, and the rounds with the model.                     *)

Eligible(n) == task[Home(n)].present /\ ~task[Home(n)].busy

\* Mutant of Unchanged: only a task that runs now is left alone.
EligibleNow(n) == Eligible(n)

\* The round is over and is the one the review began with.
Unchanged(n) == Eligible(n) /\ task[Home(n)].round = review.saw[n]

Ready(n) == note[n].seen # "today" /\ Eligible(n)

Batch ==
    LET ready == SelectSeq(inbox, Ready) IN
    {n \in Notes : \E i \in 1..Len(ready) : i <= BatchSize /\ ready[i] = n}

Begin ==
    /\ Phase("idle") /\ Batch # {}
    /\ review' = [NoReview EXCEPT !.phase = "asking", !.batch = Batch,
                     !.saw = [n \in Notes |-> IF n \in Batch THEN task[Home(n)].round ELSE 0],
                     !.catalog = [s \in Skills |-> Listed(s)]]
    /\ attempt' = "running"
    /\ UNCHANGED <<task, note, inbox, docs, results, ledger>>

Affordable(a) ==
    /\ review.calls < MaxCalls
    /\ review.reserved + a <= ReviewBudget
    /\ spent + a <= DailyBudget

\* The reservation is durable before the model is called.
PlaceCall(a) ==
    /\ Phase("asking") /\ ~review.call.open /\ Affordable(a)
    /\ spent' = spent + a
    /\ review' = [review EXCEPT !.reserved = @ + a, !.calls = @ + 1,
                     !.call = [amount |-> a, today |-> TRUE, open |-> TRUE]]
    /\ UNCHANGED <<task, note, inbox, docs, results, accounted, attempt>>

\* The call that is open counts for u.  What a call without a report has cost is
\* known to the provider only: it counts for its reservation.
Counts(u) == accounted' = IF review.call.today THEN accounted + u ELSE accounted

Excess(u) == IF u > review.call.amount THEN u - review.call.amount ELSE 0

\* Mutant of Settled: the reservation is replaced by the usage, and none is free.
Refunded(u, reported) ==
    spent' = IF review.call.today
             THEN (spent - review.call.amount) + (IF reported THEN u ELSE 0) ELSE spent

\* A reservation is never refunded; only a larger usage is added.
Settled(u, reported) ==
    spent' = IF reported /\ review.call.today THEN spent + Excess(u) ELSE spent

\* The model has answered, and the provider reports the usage u or none.
Answered(u, reported) ==
    /\ Phase("asking") /\ review.call.open
    /\ u <= review.call.amount + Overrun /\ (~reported => u = 0)
    /\ Counts(IF reported THEN u ELSE review.call.amount) /\ Settled(u, reported)

\* A Skill is read only as the catalog of the review lists it.
Reads(R) ==
    [s \in Skills |-> IF s \in R /\ review.catalog[s] # Unread /\ Listed(s) = review.catalog[s]
                      THEN Version(s) ELSE review.read[s]]

\* The model asks for Skills ...
CallReads(u, reported, R) ==
    /\ Answered(u, reported)
    /\ review' = [review EXCEPT !.call = NoCall, !.read = Reads(R), !.reserved = @ + Excess(u)]
    /\ UNCHANGED <<task, note, inbox, docs, results, attempt>>

\* ... or submits its decisions.
CallDecides(u, reported) ==
    /\ Answered(u, reported)
    /\ review' = [review EXCEPT !.call = NoCall, !.phase = "deciding"]
    /\ attempt' = "reviewed"
    /\ UNCHANGED <<task, note, inbox, docs, results>>

\* ... or answers something of no use.
CallUseless(u, reported) ==
    /\ Answered(u, reported)
    /\ attempt' = "retry"
    /\ review' = NoReview
    /\ UNCHANGED <<task, note, inbox, docs, results>>

\* A timeout, an error of the provider, or the backend is closed: the call is never
\* settled.  Nothing is deferred.
CallFails(state) ==
    /\ Phase("asking") /\ review.call.open
    /\ Counts(review.call.amount)
    /\ attempt' = state
    /\ review' = NoReview
    /\ UNCHANGED <<task, note, inbox, docs, results, spent>>

\* The next round is not affordable, or one too many.
GivesUp(a) ==
    /\ Phase("asking") /\ ~review.call.open /\ ~Affordable(a)
    /\ attempt' = "retry"
    /\ review' = NoReview
    /\ UNCHANGED <<task, note, inbox, docs, results, ledger>>

-----------------------------------------------------------------------------
(* The decisions, in the order the model gave them.                        *)

\* The notes a decision may cite: of the batch, and not decided on before.
Citable(N) == N # {} /\ N \subseteq review.batch \ review.consumed

Next1 == review.index + 1

Decides(N) == Phase("deciding") /\ review.index < MaxDecisions /\ Citable(N)

Later(N) == review' = [review EXCEPT !.index = Next1, !.retry = @ \cup N]

\* A task that has moved since the review began takes its notes out of it.
DecideMoved(N) ==
    /\ Decides(N) /\ \E n \in N : ~Unchanged(n)
    /\ Later(N)
    /\ UNCHANGED durable

\* "pending", or a decision without effect.
Passes ==
    /\ Phase("deciding") /\ review.index < MaxDecisions
    /\ review' = [review EXCEPT !.index = Next1]
    /\ UNCHANGED durable

\* Only pending notes are listed.
Without(N) == inbox' = SelectSeq(inbox, LAMBDA n : n \notin N)

Dismissed(N) ==
    /\ note' = [n \in Notes |-> IF n \in N /\ note[n].status = "pending"
                                THEN [note[n] EXCEPT !.status = "dismissed"] ELSE note[n]]
    /\ Without(N)

Ignore(N) ==
    /\ Decides(N) /\ \A n \in N : Unchanged(n)
    /\ Dismissed(N)
    /\ review' = [review EXCEPT !.index = Next1, !.consumed = @ \cup N]
    /\ UNCHANGED <<task, docs, results, ledger, attempt>>

Owed(key, N) == {[key |-> key, notes |-> N]}

\* The result of a product issue is keyed by a round and the place of the decision.
ReportIssue(N, latest) ==
    /\ Decides(N) /\ \A n \in N : Unchanged(n)
    /\ latest \in N
    /\ Dismissed(N)
    /\ review' = [review EXCEPT !.index = Next1, !.consumed = @ \cup N, !.phase = "presenting",
                     !.put = Owed(<<"issue", RequestOf[latest], review.index>>, N)]
    /\ UNCHANGED <<task, docs, results, ledger, attempt>>

\* Mutant of Current: the version is not compared in the transaction.
AnyVersion(s) == TRUE

Current(s) == Version(s) = IF review.catalog[s] = Unread THEN 0 ELSE review.catalog[s]

\* A Skill that exists is changed by one decision of a review, and only if the
\* model has read it.
MayWrite(s) ==
    /\ s \notin review.changed
    /\ review.catalog[s] # Unread => review.read[s] = review.catalog[s]

Absorbed(s, N) ==
    note' = [n \in Notes |-> IF n \in N
                             THEN [note[n] EXCEPT !.status = "absorbed", !.by = <<s, Version(s) + 1>>]
                             ELSE note[n]]

\* create or update: one transaction for the version and its notes.
Install(s, N) ==
    /\ Decides(N) /\ \A n \in N : Unchanged(n) /\ note[n].status = "pending"
    /\ MayWrite(s) /\ Current(s)
    /\ docs' = [docs EXCEPT ![s] =
           Append(@, Revision("curator", IF review.catalog[s] = Unread THEN 0 ELSE review.read[s], N))]
    /\ Absorbed(s, N) /\ Without(N)
    /\ review' = [review EXCEPT !.index = Next1, !.consumed = @ \cup N, !.phase = "presenting",
                     !.changed = @ \cup {s}, !.put = Owed(<<"skill", s, Version(s) + 1>>, N)]
    /\ UNCHANGED <<task, results, ledger, attempt>>

\* A Skill that was not read, a stale version, or a document that is not valid.
Refused(s, N) ==
    /\ Decides(N) /\ \A n \in N : Unchanged(n)
    /\ s \notin review.changed
    /\ Later(N)
    /\ UNCHANGED durable

\* A result whose key is taken is not written again.
Present ==
    /\ Phase("presenting")
    /\ results' = results \cup {r \in review.put : \A q \in results : q.key # r.key}
    /\ review' = [review EXCEPT !.phase = "deciding", !.put = {}]
    /\ UNCHANGED <<task, note, inbox, docs, ledger, attempt>>

\* The result cannot be written: the rest of the decisions is dropped.
PresentFails ==
    /\ Phase("presenting")
    /\ review' = NoReview
    /\ UNCHANGED durable

\* Mutant of Deferred: a deferred note keeps its place.
InPlace(D) == UNCHANGED inbox

\* What was reviewed and is still pending goes behind everything else.
Deferred(D) ==
    inbox' = SelectSeq(inbox, LAMBDA n : n \notin D) \o SelectSeq([n \in Notes |-> n], LAMBDA n : n \in D)

Finish ==
    /\ Phase("deciding")
    /\ LET D == {n \in review.batch \ review.retry : note[n].status = "pending"} IN
       /\ note' = [n \in Notes |-> IF n \in D THEN [note[n] EXCEPT !.seen = "today"] ELSE note[n]]
       /\ Deferred(D)
    /\ review' = [NoReview EXCEPT !.phase = "telling"]
    /\ UNCHANGED <<task, docs, results, ledger, attempt>>

\* The Desktop is told of the results.
Tell ==
    /\ Phase("telling")
    /\ attempt' = "finished"
    /\ review' = NoReview
    /\ UNCHANGED <<task, note, inbox, docs, results, ledger>>

\* The process ends, with a call in flight or between two transactions.
Crash ==
    /\ ~Phase("idle")
    /\ Counts(review.call.amount)
    /\ review' = NoReview
    /\ UNCHANGED <<task, note, inbox, docs, results, spent, attempt>>

-----------------------------------------------------------------------------
Usages == UNION {0..a + Overrun : a \in Estimates \cup {0}}

TaskActs == \E t \in Tasks : TaskStarts(t) \/ TaskEnds(t) \/ TaskDeleted(t)

NoteActs == (\E n \in Notes : Save(n)) \/ (\E i \in 1..Len(inbox) : Rests(i))

UserActs == \E s \in Skills, v \in 0..NoteCount + MaxRollbacks : RollBack(s, v)

ModelAnswers ==
    \E u \in Usages, reported \in BOOLEAN :
        CallDecides(u, reported) \/ \E R \in SUBSET Skills : CallReads(u, reported, R)

Breaks ==
    \/ Crash \/ \E state \in {"retry", "interrupted"} : CallFails(state)
    \/ \E u \in Usages, reported \in BOOLEAN : CallUseless(u, reported)
    \/ \E a \in Estimates : GivesUp(a)
    \/ PresentFails

Decision ==
    \/ Passes
    \/ \E N \in SUBSET review.batch :
           \/ DecideMoved(N) \/ Ignore(N)
           \/ \E latest \in N : ReportIssue(N, latest)
           \/ \E s \in Skills : Install(s, N) \/ Refused(s, N)

Next ==
    \/ TaskActs \/ NoteActs \/ UserActs \/ Midnight
    \/ Begin \/ (\E a \in Estimates : PlaceCall(a)) \/ ModelAnswers \/ Breaks
    \/ Decision \/ Present \/ Finish \/ Tell

\* The review loop runs on, tasks end, calls return or time out, and days pass.
Fairness ==
    /\ \A t \in Tasks : WF_vars(TaskEnds(t))
    /\ WF_vars(\E i \in 1..Len(inbox) : Rests(i))
    /\ WF_vars(Begin)
    /\ WF_vars((\E a \in Estimates : PlaceCall(a) \/ GivesUp(a)) \/ ModelAnswers)
    /\ WF_vars(Present) /\ WF_vars(Finish) /\ WF_vars(Tell)

Spec == Init /\ [][Next]_vars /\ Fairness

-----------------------------------------------------------------------------
(* Properties.                                                             *)

TypeOK ==
    /\ task \in [Tasks -> [present : BOOLEAN, busy : BOOLEAN, round : 0..MaxRounds]]
    /\ \A n \in Notes :
          /\ note[n].status \in {"unsaved", "pending", "dismissed", "absorbed", "deleted"}
          /\ note[n].seen \in {"never", "today", "past"}
    /\ ToSet(inbox) = {n \in Notes : note[n].status = "pending"}
    /\ Len(inbox) = Cardinality(ToSet(inbox))
    /\ review.phase \in {"idle", "asking", "deciding", "presenting", "telling"}
    /\ review.batch \subseteq Notes /\ review.consumed \subseteq review.batch
    /\ spent \in Nat /\ accounted \in Nat

\* A version the Curator writes continues the very version it replaces: neither a
\* rollback of the user nor another version is overwritten unread, however long
\* the model has thought (install_evolved_skill_revision against rollback_skill).
NoVersionOverwritten ==
    \A s \in Skills : \A v \in 1..Version(s) :
        docs[s][v].by = "curator" => docs[s][v].base = v - 1

\* The calls of a day, each counted as the usage reported for it or else as what was
\* reserved for it, stay within the daily budget, but for what the last one exceeds
\* its reservation by; while a call is open there is room for all it reserves.  So
\* it is whatever times out, reports nothing or dies: "Reservations are not refunded
\* after missing usage, timeout, cancellation, or process exit" and the daily counter
\* "survives restarts" (docs/curator-evidence-review.md:70).
UsageWithinBudget ==
    /\ accounted <= DailyBudget + Overrun
    /\ review.call.today => accounted + review.call.amount <= DailyBudget

\* A version is published while the tasks of its notes rest, and are still in the
\* round they were in when the review gathered its evidence.
PublishedAsReviewed ==
    [][\A s \in Skills : \A n \in Notes :
         (Len(docs'[s]) > Version(s) /\ Last(docs'[s]).by = "curator" /\ n \in Last(docs'[s]).sources)
         => task[Home(n)].present /\ ~task[Home(n)].busy
            /\ task[Home(n)].round = review.saw[n]]_vars

History == INSTANCE SkillHistory WITH
    history <- docs,
    fate    <- [n \in Notes |-> [status |-> note[n].status, by |-> note[n].by]]

\* "restoration creates a new revision, never rewrites history", and "absorbed or
\* dismissed rows stay": the Curator, the user and the deletion of tasks over one
\* store implement SkillHistory (skill_history.py, delete_research_task).
HistoryRefined == History!HistorySpec

Fruitless == Breaks \/ (Finish /\ review.retry # {})

Waiting(n) == note[n].status = "pending" /\ n \notin review.batch

\* A backlog hides no note for ever: unless reviews keep failing or keep asking for
\* a retry, every note that is pending comes into a review, or goes with its task.
EveryNoteComesUp ==
    <>[][~Fruitless]_vars => \A n \in Notes : Waiting(n) ~> ~Waiting(n)
=============================================================================
