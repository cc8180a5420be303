------------------------ MODULE SkillCurationProofs ------------------------
(***************************************************************************)
(* For every number of notes, Skills, tasks, decisions and rollbacks, and  *)
(* every budget: no version of a Skill is overwritten unread, notes and    *)
(* versions agree, the calls of a day stay within the daily budget,        *)
(* and nothing is published from a review whose task has moved.            *)
(*                                                                         *)
(* Accounts and NoVersionOverwritten are inductive once the shape of       *)
(* notes, versions and the review is known (Shape).  UsageWithinBudget is  *)
(* not: it rests on the ledger, which covers the open call (Ledger).  With *)
(* them the component implements SkillHistory: every step adds to the      *)
(* history of Skills and notes or leaves it alone.                         *)
(***************************************************************************)
EXTENDS SkillCuration, TLAPS

Cites == {<<>>} \cup (Skills \X Nat)

NoteType ==
    [status : {"unsaved", "pending", "dismissed", "absorbed", "deleted"},
     seen : {"never", "today", "past"}, by : Cites]

RevisionType == [by : {"curator", "user"}, base : Nat, sources : SUBSET Notes]

Fields == {"phase", "batch", "saw", "catalog", "read", "call", "calls", "reserved", "index",
           "consumed", "retry", "changed", "put"}

Shape ==
    /\ note \in [Notes -> NoteType]
    /\ docs \in [Skills -> Seq(RevisionType)]
    /\ DOMAIN review = Fields
    /\ review.batch \subseteq Notes

\* An absorbed note is cited by the version that absorbed it, and a note the Curator
\* has cited is absorbed by that one version.
Accounts ==
    /\ \A n \in Notes : note[n].status = "absorbed" =>
          \E s \in Skills : \E v \in 1..Version(s) :
              note[n].by = <<s, v>> /\ n \in docs[s][v].sources
    /\ \A s \in Skills : \A v \in 1..Version(s) : docs[s][v].by = "curator" =>
          \A n \in docs[s][v].sources : note[n].status = "absorbed" /\ note[n].by = <<s, v>>

\* The steps that write neither a note's status nor a version.
Quiet == UNCHANGED <<note, docs>>

-----------------------------------------------------------------------------
LEMMA ShapeInit == Init => Shape
<1> SUFFICES ASSUME Init PROVE Shape
    OBVIOUS
<1>1. note \in [Notes -> NoteType]
    BY DEF Init, NoteType, Cites
<1>2. docs \in [Skills -> Seq(RevisionType)]
    BY DEF Init
<1>3. DOMAIN review = Fields /\ review.batch \subseteq Notes
    BY DEF Init, NoReview, Fields
<1> QED BY <1>1, <1>2, <1>3 DEF Shape

\* A version is added to one Skill.
LEMMA Appended ==
    ASSUME docs \in [Skills -> Seq(RevisionType)], NEW s \in Skills, NEW r \in RevisionType,
           docs' = [docs EXCEPT ![s] = Append(@, r)]
    PROVE  /\ docs' \in [Skills -> Seq(RevisionType)]
           /\ \A k \in Skills : Len(docs[k]) \in Nat /\ Len(docs'[k]) \in Nat
           /\ Len(docs'[s]) = Len(docs[s]) + 1
           /\ docs'[s][Len(docs[s]) + 1] = r
           /\ Last(docs'[s]) = r
           /\ \A k \in Skills \ {s} : docs'[k] = docs[k]
           /\ \A k \in Skills : \A v \in 1..Len(docs[k]) : docs'[k][v] = docs[k][v]
<1>1. docs[s] \in Seq(RevisionType) /\ docs'[s] = Append(docs[s], r)
    OBVIOUS
<1>2. Append(docs[s], r) \in Seq(RevisionType) /\ Len(Append(docs[s], r)) = Len(docs[s]) + 1
      /\ Append(docs[s], r)[Len(docs[s]) + 1] = r
      /\ \A v \in 1..Len(docs[s]) : Append(docs[s], r)[v] = docs[s][v]
    BY <1>1
<1>3. \A k \in Skills \ {s} : docs'[k] = docs[k]
    OBVIOUS
<1>4. \A k \in Skills : Len(docs[k]) \in Nat
    OBVIOUS
<1> QED BY <1>1, <1>2, <1>3, <1>4 DEF Last

\* How a step changes the review: it ends, or fields of it change and the batch only
\* grows from nothing.
LEMMA ReviewShape ==
    ASSUME DOMAIN review = Fields, review.batch \subseteq Notes, [Next]_vars
    PROVE  DOMAIN review' = Fields /\ review'.batch \subseteq Notes
<1> USE DEF Fields
<1>1. DOMAIN NoReview = Fields /\ NoReview.batch = {}
    BY DEF NoReview
<1>2. CASE UNCHANGED vars
    BY <1>2 DEF vars
<1>3. CASE TaskActs \/ NoteActs \/ UserActs
    BY <1>3 DEF TaskActs, NoteActs, UserActs, TaskStarts, TaskEnds, TaskDeleted, Save, Rests, RollBack
<1>4. CASE Midnight
    BY <1>4 DEF Midnight
<1>5. CASE Begin
    BY <1>5, <1>1 DEF Begin, Batch
<1>6. CASE \E a \in Estimates : PlaceCall(a)
    BY <1>6 DEF PlaceCall
<1>7. CASE ModelAnswers
    BY <1>7 DEF ModelAnswers, CallDecides, CallReads
<1>8. CASE Breaks
    BY <1>8, <1>1 DEF Breaks, Crash, CallFails, CallUseless, GivesUp, PresentFails
<1>9. CASE Decision
    <2>1. CASE Passes
        BY <2>1 DEF Passes
    <2>2. ASSUME NEW N \in SUBSET review.batch, DecideMoved(N) PROVE review' = [review EXCEPT !.index = Next1, !.retry = @ \cup N]
        BY <2>2 DEF DecideMoved, Later
    <2>3. ASSUME NEW N \in SUBSET review.batch, NEW s \in Skills, Refused(s, N)
          PROVE  review' = [review EXCEPT !.index = Next1, !.retry = @ \cup N]
        BY <2>3 DEF Refused, Later
    <2>4. CASE \E N \in SUBSET review.batch : DecideMoved(N) \/ \E s \in Skills : Refused(s, N)
        BY <2>2, <2>3, <2>4
    <2>5. CASE \E N \in SUBSET review.batch : Ignore(N)
        BY <2>5 DEF Ignore
    <2>6. CASE \E N \in SUBSET review.batch : \E latest \in N : ReportIssue(N, latest)
        BY <2>6 DEF ReportIssue
    <2>7. CASE \E N \in SUBSET review.batch : \E s \in Skills : Install(s, N)
        BY <2>7 DEF Install
    <2> QED BY <1>9, <2>1, <2>4, <2>5, <2>6, <2>7 DEF Decision
<1>10. CASE Present \/ Finish \/ Tell
    BY <1>10, <1>1 DEF Present, Finish, Tell
<1> QED BY <1>2, <1>3, <1>4, <1>5, <1>6, <1>7, <1>8, <1>9, <1>10 DEF Next

\* What is written of notes and versions, and by which steps.
LEMMA Writes ==
    ASSUME [Next]_vars
    PROVE  \/ Quiet
           \/ \E t \in Tasks : TaskDeleted(t)
           \/ \E n \in Notes : Save(n)
           \/ \E i \in 1..Len(inbox) : Rests(i)
           \/ \E s \in Skills, v \in 0..NoteCount + MaxRollbacks : RollBack(s, v)
           \/ \E N \in SUBSET review.batch :
                  \/ Dismissed(N) /\ UNCHANGED docs
                  \/ \E s \in Skills : Install(s, N)
           \/ Finish
<1> USE DEF Quiet, durable
<1>1. CASE UNCHANGED vars
    BY <1>1 DEF vars
<1>2. CASE TaskActs
    BY <1>2 DEF TaskActs, TaskStarts, TaskEnds
<1>3. CASE NoteActs \/ UserActs
    BY <1>3 DEF NoteActs, UserActs
<1>4. CASE Midnight \/ Begin \/ \E a \in Estimates : PlaceCall(a)
    BY <1>4 DEF Midnight, Begin, PlaceCall
<1>5. CASE ModelAnswers
    BY <1>5 DEF ModelAnswers, CallDecides, CallReads
<1>6. CASE Breaks
    BY <1>6 DEF Breaks, Crash, CallFails, CallUseless, GivesUp, PresentFails
<1>7. CASE Decision
    <2>1. CASE Passes \/ \E N \in SUBSET review.batch : DecideMoved(N) \/ \E s \in Skills : Refused(s, N)
        BY <2>1 DEF Passes, DecideMoved, Refused
    <2>2. CASE \E N \in SUBSET review.batch : Ignore(N) \/ \E latest \in N : ReportIssue(N, latest)
        BY <2>2 DEF Ignore, ReportIssue
    <2> QED BY <1>7, <2>1, <2>2 DEF Decision
<1>8. CASE Present \/ Finish \/ Tell
    BY <1>8 DEF Present, Tell
<1> QED BY <1>1, <1>2, <1>3, <1>4, <1>5, <1>6, <1>7, <1>8 DEF Next

\* The version an installation adds continues the last one.
LEMMA InstallContinues ==
    ASSUME Shape, NEW N \in SUBSET review.batch, NEW s \in Skills, Install(s, N)
    PROVE  LET r == Revision("curator", Version(s), N) IN
           /\ r \in RevisionType
           /\ docs' = [docs EXCEPT ![s] = Append(@, r)]
<1>1. Version(s) \in Nat /\ N \subseteq Notes
    BY DEF Shape, Version
<1>2. (IF review.catalog[s] = Unread THEN 0 ELSE review.read[s]) = Version(s)
    BY DEF Install, MayWrite, Current
<1> QED BY <1>1, <1>2 DEF Install, Revision, RevisionType

LEMMA RollBackAppends ==
    ASSUME Shape, NEW s \in Skills, NEW v \in 0..NoteCount + MaxRollbacks, RollBack(s, v)
    PROVE  \E r \in RevisionType : r.by = "user" /\ docs' = [docs EXCEPT ![s] = Append(@, r)]
<1> DEFINE i == IF v = 0 THEN Version(s) ELSE v
           r == Revision("user", v, docs[s][i].sources)
<1>1. v \in Nat
    BY CurationAssumption
<1>2. docs[s] \in Seq(RevisionType) /\ i \in 1..Len(docs[s])
    BY DEF RollBack, Shape, Version
<1>3. docs[s][i].sources \in SUBSET Notes
    <2> HIDE DEF i
    <2>1. docs[s][i] \in RevisionType
        BY <1>2
    <2> QED BY <2>1 DEF RevisionType
<1>4. r \in RevisionType /\ r.by = "user"
    BY <1>1, <1>3 DEF Revision, RevisionType
<1>5. docs' = [docs EXCEPT ![s] = Append(@, r)]
    BY DEF RollBack, Shape
<1> QED BY <1>4, <1>5

LEMMA ShapeNext == Shape /\ [Next]_vars => Shape'
<1> SUFFICES ASSUME Shape, [Next]_vars PROVE Shape'
    OBVIOUS
<1>1. (DOMAIN review = Fields)' /\ (review.batch \subseteq Notes)'
    BY ReviewShape DEF Shape
<1>2. (note \in [Notes -> NoteType])' /\ (docs \in [Skills -> Seq(RevisionType)])'
    <2>1. CASE Quiet
        BY <2>1 DEF Quiet, Shape
    <2>2. CASE \E t \in Tasks : TaskDeleted(t)
        BY <2>2 DEF TaskDeleted, Shape, NoteType
    <2>3. CASE \E n \in Notes : Save(n)
        BY <2>3 DEF Save, Shape, NoteType
    <2>4. CASE \E i \in 1..Len(inbox) : Rests(i)
        <3>1. PICK i \in 1..Len(inbox) : Rests(i)
            BY <2>4
        <3> DEFINE m == inbox[i]
        <3>2. note' = [note EXCEPT ![m] = [note[m] EXCEPT !.seen = "past"]] /\ UNCHANGED docs
            BY <3>1 DEF Rests
        <3> HIDE DEF m
        <3>3. note' \in [Notes -> NoteType]
            BY <3>2 DEF Shape, NoteType
        <3> QED BY <3>2, <3>3 DEF Shape
    <2>5. ASSUME NEW s \in Skills, NEW v \in 0..NoteCount + MaxRollbacks, RollBack(s, v)
          PROVE  (note \in [Notes -> NoteType])' /\ (docs \in [Skills -> Seq(RevisionType)])'
        <3>1. PICK r \in RevisionType : docs' = [docs EXCEPT ![s] = Append(@, r)]
            BY <2>5, RollBackAppends
        <3>2. docs \in [Skills -> Seq(RevisionType)]
            BY DEF Shape
        <3>3. docs' \in [Skills -> Seq(RevisionType)]
            BY <3>1, <3>2, Appended
        <3> QED BY <2>5, <3>3 DEF RollBack, Shape
    <2>6. ASSUME NEW N \in SUBSET review.batch, Dismissed(N), UNCHANGED docs
          PROVE  (note \in [Notes -> NoteType])' /\ (docs \in [Skills -> Seq(RevisionType)])'
        BY <2>6 DEF Dismissed, Shape, NoteType
    <2>7. ASSUME NEW N \in SUBSET review.batch, NEW s \in Skills, Install(s, N)
          PROVE  (note \in [Notes -> NoteType])' /\ (docs \in [Skills -> Seq(RevisionType)])'
        <3>1. PICK r \in RevisionType : docs' = [docs EXCEPT ![s] = Append(@, r)]
            BY <2>7, InstallContinues
        <3>2. docs \in [Skills -> Seq(RevisionType)]
            BY DEF Shape
        <3>3. docs' \in [Skills -> Seq(RevisionType)]
            BY <3>1, <3>2, Appended
        <3>4. <<s, Version(s) + 1>> \in Cites
            BY <3>2 DEF Version, Cites
        <3>5. (note \in [Notes -> NoteType])'
            BY <2>7, <3>4 DEF Install, Absorbed, Shape, NoteType
        <3> QED BY <3>3, <3>5
    <2>8. CASE Finish
        BY <2>8 DEF Finish, Shape, NoteType
    <2> QED BY <2>1, <2>2, <2>3, <2>4, <2>5, <2>6, <2>7, <2>8, Writes
<1> QED BY <1>1, <1>2 DEF Shape

-----------------------------------------------------------------------------
(* Versions and the notes they cite.                                       *)

LEMMA CitedAreNotes ==
    ASSUME Shape, NEW s \in Skills, NEW v \in 1..Version(s)
    PROVE  docs[s][v].sources \subseteq Notes
<1>1. docs[s][v] \in RevisionType
    BY DEF Shape, Version
<1> QED BY <1>1 DEF RevisionType

\* Notes that keep their status, unless they are pending and become no absorbed ones,
\* disturb nothing.
LEMMA AccountsKept ==
    ASSUME Shape, Accounts, UNCHANGED docs,
           \A n \in Notes : \/ note'[n].status = note[n].status /\ note'[n].by = note[n].by
                            \/ note[n].status # "absorbed" /\ note'[n].status # "absorbed"
    PROVE  Accounts'
<1>1. \A s \in Skills : \A v \in 1..Version(s) : docs[s][v].sources \subseteq Notes
    BY CitedAreNotes
<1> QED BY <1>1 DEF Accounts, Version

\* The user's version cites no note for the Curator.
LEMMA AccountsRolledBack ==
    ASSUME Shape, Accounts, NEW s \in Skills, NEW v \in 0..NoteCount + MaxRollbacks, RollBack(s, v)
    PROVE  Accounts'
<1>1. PICK r \in RevisionType : r.by = "user" /\ docs' = [docs EXCEPT ![s] = Append(@, r)]
    BY RollBackAppends
<1>2. docs \in [Skills -> Seq(RevisionType)]
    BY DEF Shape
<1>3. /\ \A k \in Skills : Len(docs[k]) \in Nat /\ Len(docs'[k]) \in Nat
      /\ Len(docs'[s]) = Len(docs[s]) + 1 /\ docs'[s][Len(docs[s]) + 1] = r
      /\ \A k \in Skills \ {s} : docs'[k] = docs[k]
      /\ \A k \in Skills : \A i \in 1..Len(docs[k]) : docs'[k][i] = docs[k][i]
    BY <1>1, <1>2, Appended
<1>4. note' = note
    BY DEF RollBack
<1>5. ASSUME NEW n \in Notes, note'[n].status = "absorbed"
      PROVE  \E k \in Skills : \E i \in 1..Len(docs'[k]) :
                 note'[n].by = <<k, i>> /\ n \in docs'[k][i].sources
    <2>1. PICK k \in Skills : \E i \in 1..Len(docs[k]) :
                                   note[n].by = <<k, i>> /\ n \in docs[k][i].sources
        BY <1>4, <1>5 DEF Accounts, Version
    <2>2. PICK i \in 1..Len(docs[k]) : note[n].by = <<k, i>> /\ n \in docs[k][i].sources
        BY <2>1
    <2>3. i \in 1..Len(docs'[k]) /\ docs'[k][i] = docs[k][i]
        BY <1>3
    <2> QED BY <1>4, <2>2, <2>3
<1>6. ASSUME NEW k \in Skills, NEW i \in 1..Len(docs'[k]), docs'[k][i].by = "curator"
      PROVE  i \in 1..Len(docs[k]) /\ docs'[k][i] = docs[k][i]
    BY <1>1, <1>3, <1>6
<1>7. ASSUME NEW k \in Skills, NEW i \in 1..Len(docs'[k]), docs'[k][i].by = "curator",
             NEW n \in docs'[k][i].sources
      PROVE  note'[n].status = "absorbed" /\ note'[n].by = <<k, i>>
    BY <1>4, <1>6, <1>7 DEF Accounts, Version
<1> QED BY <1>5, <1>7 DEF Accounts, Version

\* The notes of an installed version were cited by none before.
LEMMA AccountsInstalled ==
    ASSUME Shape, Accounts, NEW N \in SUBSET review.batch, NEW s \in Skills, Install(s, N)
    PROVE  Accounts'
<1> DEFINE r == Revision("curator", Version(s), N)
<1>1. r \in RevisionType /\ docs' = [docs EXCEPT ![s] = Append(@, r)]
    BY InstallContinues
<1>2. docs \in [Skills -> Seq(RevisionType)] /\ note \in [Notes -> NoteType]
    BY DEF Shape
<1>3. /\ \A k \in Skills : Len(docs[k]) \in Nat /\ Len(docs'[k]) \in Nat
      /\ Len(docs'[s]) = Len(docs[s]) + 1 /\ docs'[s][Len(docs[s]) + 1] = r
      /\ \A k \in Skills \ {s} : docs'[k] = docs[k]
      /\ \A k \in Skills : \A i \in 1..Len(docs[k]) : docs'[k][i] = docs[k][i]
    BY <1>1, <1>2, Appended
<1>4. \A n \in N : n \in Notes /\ note[n].status = "pending"
    BY DEF Install, Shape
<1>5. r.sources = N
    BY DEF Revision
<1> HIDE DEF r
<1>6. /\ \A n \in Notes \ N : note'[n] = note[n]
      /\ \A n \in N : note'[n].status = "absorbed" /\ note'[n].by = <<s, Len(docs[s]) + 1>>
    BY <1>2, <1>4 DEF Install, Absorbed, NoteType, Version
<1>7. ASSUME NEW n \in Notes, note'[n].status = "absorbed"
      PROVE  \E k \in Skills : \E i \in 1..Len(docs'[k]) :
                 note'[n].by = <<k, i>> /\ n \in docs'[k][i].sources
    <2>1. CASE n \in N
        <3>1. note'[n].by = <<s, Len(docs[s]) + 1>>
            BY <1>6, <2>1
        <3>2. Len(docs[s]) + 1 \in Nat /\ Len(docs[s]) + 1 \in 1..Len(docs'[s])
            BY <1>3
        <3>3. n \in docs'[s][Len(docs[s]) + 1].sources
            BY <1>3, <1>5, <2>1
        <3> QED BY <3>1, <3>2, <3>3
    <2>2. CASE n \notin N
        <3>1. PICK k \in Skills : \E i \in 1..Len(docs[k]) :
                                   note[n].by = <<k, i>> /\ n \in docs[k][i].sources
            BY <1>6, <1>7, <2>2 DEF Accounts, Version
        <3>2. PICK i \in 1..Len(docs[k]) : note[n].by = <<k, i>> /\ n \in docs[k][i].sources
            BY <3>1
        <3>3. i \in 1..Len(docs'[k]) /\ docs'[k][i] = docs[k][i]
            BY <1>3
        <3> QED BY <1>6, <2>2, <3>2, <3>3
    <2> QED BY <2>1, <2>2
<1>8. ASSUME NEW k \in Skills, NEW i \in 1..Len(docs'[k]), docs'[k][i].by = "curator",
             NEW n \in docs'[k][i].sources
      PROVE  note'[n].status = "absorbed" /\ note'[n].by = <<k, i>>
    <2>1. CASE i \in 1..Len(docs[k])
        <3>1. docs'[k][i] = docs[k][i]
            BY <1>3, <2>1
        <3>2. note[n].status = "absorbed" /\ note[n].by = <<k, i>>
            BY <1>8, <2>1, <3>1 DEF Accounts, Version
        <3>3. docs[k][i].sources \subseteq Notes
            BY <2>1, CitedAreNotes DEF Version
        <3>4. n \in Notes \ N
            BY <1>4, <1>8, <3>1, <3>2, <3>3
        <3> QED BY <1>6, <3>2, <3>4
    <2>2. CASE i \notin 1..Len(docs[k])
        <3>1. k = s /\ i = Len(docs[s]) + 1
            BY <1>3, <2>2
        <3>2. n \in N
            BY <1>3, <1>5, <1>8, <3>1
        <3> QED BY <1>6, <3>1, <3>2
    <2> QED BY <2>1, <2>2
<1> QED BY <1>7, <1>8 DEF Accounts, Version

LEMMA AccountsNext == Shape /\ Accounts /\ [Next]_vars => Accounts'
<1> SUFFICES ASSUME Shape, Accounts, [Next]_vars PROVE Accounts'
    OBVIOUS
<1> DEFINE Keeps == UNCHANGED docs /\ \A n \in Notes :
                       \/ note'[n].status = note[n].status /\ note'[n].by = note[n].by
                       \/ note[n].status # "absorbed" /\ note'[n].status # "absorbed"
<1>1. CASE Quiet
    BY <1>1, AccountsKept DEF Quiet
<1>2. CASE \E t \in Tasks : TaskDeleted(t)
    <2>1. Keeps
        BY <1>2 DEF TaskDeleted, Shape, NoteType
    <2> QED BY <2>1, AccountsKept
<1>3. CASE \E n \in Notes : Save(n)
    <2>1. Keeps
        BY <1>3 DEF Save, Shape, NoteType
    <2> QED BY <2>1, AccountsKept
<1>4. CASE \E i \in 1..Len(inbox) : Rests(i)
    <2>1. PICK i \in 1..Len(inbox) : Rests(i)
        BY <1>4
    <2> DEFINE m == inbox[i]
    <2>2. note' = [note EXCEPT ![m] = [note[m] EXCEPT !.seen = "past"]] /\ UNCHANGED docs
        BY <2>1 DEF Rests
    <2> HIDE DEF m
    <2>3. Keeps
        BY <2>2 DEF Shape, NoteType
    <2> QED BY <2>3, AccountsKept
<1>5. CASE \E s \in Skills, v \in 0..NoteCount + MaxRollbacks : RollBack(s, v)
    BY <1>5, AccountsRolledBack
<1>6. ASSUME NEW N \in SUBSET review.batch, Dismissed(N) /\ UNCHANGED docs PROVE Accounts'
    <2>1. Keeps
        BY <1>6 DEF Dismissed, Shape, NoteType
    <2> QED BY <2>1, AccountsKept
<1>7. CASE \E N \in SUBSET review.batch : \E s \in Skills : Install(s, N)
    BY <1>7, AccountsInstalled
<1>8. CASE Finish
    <2>1. Keeps
        BY <1>8 DEF Finish, Shape, NoteType
    <2> QED BY <2>1, AccountsKept
<1> QED BY <1>1, <1>2, <1>3, <1>4, <1>5, <1>6, <1>7, <1>8, Writes

-----------------------------------------------------------------------------
(* Versions continue what the Curator has read.                            *)

LEMMA ContinuesNext == Shape /\ NoVersionOverwritten /\ [Next]_vars => NoVersionOverwritten'
<1> SUFFICES ASSUME Shape, NoVersionOverwritten, [Next]_vars PROVE NoVersionOverwritten'
    OBVIOUS
<1>0. docs \in [Skills -> Seq(RevisionType)]
    BY DEF Shape
<1>1. ASSUME UNCHANGED docs PROVE NoVersionOverwritten'
    BY <1>1 DEF NoVersionOverwritten, Version
<1>2. ASSUME NEW s \in Skills, NEW r \in RevisionType, docs' = [docs EXCEPT ![s] = Append(@, r)],
             r.by = "curator" => r.base = Version(s)
      PROVE  NoVersionOverwritten'
    <2>1. /\ Len(docs[s]) \in Nat /\ Len(docs'[s]) = Len(docs[s]) + 1
          /\ docs'[s][Len(docs[s]) + 1] = r
          /\ \A k \in Skills \ {s} : docs'[k] = docs[k]
          /\ \A k \in Skills : \A v \in 1..Len(docs[k]) : docs'[k][v] = docs[k][v]
        BY <1>0, <1>2, Appended
    <2>2. ASSUME NEW k \in Skills, NEW v \in 1..Len(docs'[k]), docs'[k][v].by = "curator"
          PROVE  docs'[k][v].base = v - 1
        <3>1. CASE v \in 1..Len(docs[k])
            BY <2>1, <2>2, <3>1 DEF NoVersionOverwritten, Version
        <3>2. CASE v \notin 1..Len(docs[k])
            <4>1. k = s /\ v = Len(docs[s]) + 1
                BY <2>1, <3>2
            <4> QED BY <1>2, <2>1, <2>2, <4>1 DEF Version
        <3> QED BY <3>1, <3>2
    <2> QED BY <2>2 DEF NoVersionOverwritten, Version
<1>3. ASSUME NEW s \in Skills, NEW v \in 0..NoteCount + MaxRollbacks, RollBack(s, v)
      PROVE  NoVersionOverwritten'
    <2>1. PICK r \in RevisionType : r.by = "user" /\ docs' = [docs EXCEPT ![s] = Append(@, r)]
        BY <1>3, RollBackAppends
    <2> QED BY <1>2, <2>1
<1>4. ASSUME NEW N \in SUBSET review.batch, NEW s \in Skills, Install(s, N)
      PROVE  NoVersionOverwritten'
    <2> DEFINE r == Revision("curator", Version(s), N)
    <2>1. r \in RevisionType /\ docs' = [docs EXCEPT ![s] = Append(@, r)]
        BY <1>4, InstallContinues
    <2>2. r.base = Version(s)
        BY DEF Revision
    <2> HIDE DEF r
    <2> QED BY <1>2, <2>1, <2>2
<1>5. \/ UNCHANGED docs
      \/ \E s \in Skills, v \in 0..NoteCount + MaxRollbacks : RollBack(s, v)
      \/ \E N \in SUBSET review.batch : \E s \in Skills : Install(s, N)
    BY Writes DEF Quiet, TaskDeleted, Save, Rests, Finish
<1> QED BY <1>1, <1>3, <1>4, <1>5

-----------------------------------------------------------------------------
(* The ledger covers what is accounted, and what an open call reserves.    *)

CallType == [amount : Nat, today : BOOLEAN, open : BOOLEAN]

Committed == IF review.call.today THEN review.call.amount ELSE 0

Ledger ==
    /\ DOMAIN review = Fields
    /\ review.call \in CallType
    /\ spent \in Nat /\ accounted \in Nat
    /\ accounted + Committed <= spent
    /\ spent <= DailyBudget + Overrun
    /\ review.call.today => spent <= DailyBudget

LEMMA LedgerInit == Init => Ledger
<1> SUFFICES ASSUME Init PROVE Ledger
    OBVIOUS
<1>1. DOMAIN NoReview = Fields /\ NoReview.call = NoCall
    BY DEF NoReview, Fields
<1>2. NoCall \in CallType /\ NoCall.today = FALSE
    BY DEF NoCall, CallType
<1>3. DailyBudget + Overrun \in Nat
    BY CurationAssumption
<1> QED BY <1>1, <1>2, <1>3 DEF Init, Ledger, Committed

\* A step after which no call is open and the ledger covers its charge.
LEMMA CallEnds ==
    ASSUME Ledger, NEW u \in Nat, NEW more \in Nat,
           DOMAIN review' = Fields, review'.call = NoCall, Counts(u),
           spent' = (IF review.call.today THEN spent + more ELSE spent),
           u <= review.call.amount + more, more <= Overrun
    PROVE  Ledger'
<1>1. NoCall \in CallType /\ NoCall.today = FALSE
    BY DEF NoCall, CallType
<1>2. review.call.amount \in Nat /\ DailyBudget \in Nat /\ Overrun \in Nat
    BY CurationAssumption DEF Ledger, CallType
<1>3. Committed' = 0
    BY <1>1 DEF Committed
<1>4. CASE review.call.today
    BY <1>1, <1>2, <1>3, <1>4 DEF Ledger, Committed, Counts
<1>5. CASE ~review.call.today
    BY <1>1, <1>2, <1>3, <1>5 DEF Ledger, Committed, Counts
<1> QED BY <1>4, <1>5

LEMMA AnswerCovered ==
    ASSUME Ledger, NEW u \in Nat, NEW reported \in BOOLEAN, Answered(u, reported),
           DOMAIN review' = Fields, review'.call = NoCall
    PROVE  Ledger'
<1> DEFINE more == IF reported THEN Excess(u) ELSE 0
           counted == IF reported THEN u ELSE review.call.amount
<1>1. review.call.amount \in Nat /\ Overrun \in Nat
    BY CurationAssumption DEF Ledger, CallType
<1>2. /\ more \in Nat /\ counted \in Nat
      /\ counted <= review.call.amount + more /\ more <= Overrun
    BY <1>1 DEF Answered, Excess
<1>3. spent' = IF review.call.today THEN spent + more ELSE spent
    BY <1>1 DEF Answered, Settled, Ledger
<1>4. Counts(counted)
    BY DEF Answered
<1> HIDE DEF more, counted
<1> QED BY <1>2, <1>3, <1>4, CallEnds

LEMMA LedgerNext == Ledger /\ Shape /\ [Next]_vars => Ledger'
<1> SUFFICES ASSUME Ledger, Shape, [Next]_vars PROVE Ledger'
    OBVIOUS
<1> USE DEF ledger, durable
<1>0. DOMAIN review' = Fields
    BY ReviewShape DEF Shape
<1>a. DOMAIN review = Fields
    BY DEF Shape
<1>b. DOMAIN NoReview = Fields /\ NoReview.call = NoCall
    BY DEF NoReview, Fields
<1>c. \A u \in Usages : u \in Nat
    BY CurationAssumption DEF Usages
<1>1. ASSUME UNCHANGED <<spent, accounted>>, review'.call = review.call PROVE Ledger'
    BY <1>0, <1>1 DEF Ledger, Committed
<1>2. ASSUME UNCHANGED <<spent, accounted>>, review'.call = NoCall PROVE Ledger'
    <2>1. NoCall \in CallType /\ NoCall.today = FALSE
        BY DEF NoCall, CallType
    <2>2. accounted <= spent
        BY DEF Ledger, Committed, CallType
    <2> QED BY <1>0, <1>2, <2>1, <2>2 DEF Ledger, Committed
<1>3. CASE UNCHANGED vars
    BY <1>1, <1>3 DEF vars
<1>4. CASE TaskActs \/ NoteActs \/ UserActs
    BY <1>1, <1>4 DEF TaskActs, NoteActs, UserActs, TaskStarts, TaskEnds, TaskDeleted, Save, Rests, RollBack
<1>5. CASE Midnight
    <2>1. review'.call = [review.call EXCEPT !.today = FALSE] /\ spent' = 0 /\ accounted' = 0
        BY <1>5, <1>a DEF Midnight, Fields
    <2>2. review'.call \in CallType /\ review'.call.today = FALSE
        BY <2>1 DEF Ledger, CallType
    <2>3. DailyBudget + Overrun \in Nat
        BY CurationAssumption
    <2> QED BY <1>0, <2>1, <2>2, <2>3 DEF Ledger, Committed
<1>6. CASE Begin
    BY <1>2, <1>6, <1>b DEF Begin, Fields
<1>7. ASSUME NEW a \in Estimates, PlaceCall(a) PROVE Ledger'
    <2>1. review'.call = [amount |-> a, today |-> TRUE, open |-> TRUE]
          /\ spent' = spent + a /\ accounted' = accounted /\ spent + a <= DailyBudget
        BY <1>7, <1>a DEF PlaceCall, Affordable, Fields
    <2>2. a \in Nat /\ DailyBudget \in Nat /\ Overrun \in Nat
        BY CurationAssumption
    <2>3. accounted <= spent
        BY DEF Ledger, Committed, CallType
    <2>4. Committed' = a /\ review'.call \in CallType
        BY <2>1, <2>2 DEF Committed, CallType
    <2> QED BY <1>0, <2>1, <2>2, <2>3, <2>4 DEF Ledger
<1>8. ASSUME NEW u \in Usages, NEW reported \in BOOLEAN,
             \/ CallDecides(u, reported) \/ CallUseless(u, reported)
             \/ \E R \in SUBSET Skills : CallReads(u, reported, R)
      PROVE  Ledger'
    <2>1. Answered(u, reported) /\ review'.call = NoCall
        BY <1>8, <1>a, <1>b DEF CallDecides, CallReads, CallUseless, Fields
    <2> QED BY <1>0, <1>c, <2>1, AnswerCovered
<1>9. CASE Crash \/ \E state \in {"retry", "interrupted"} : CallFails(state)
    <2> DEFINE u == review.call.amount
    <2>1. u \in Nat /\ 0 \in Nat /\ u <= u + 0 /\ 0 <= Overrun
        BY CurationAssumption DEF Ledger, CallType
    <2>2. Counts(u) /\ spent' = IF review.call.today THEN spent + 0 ELSE spent
        BY <1>9 DEF Crash, CallFails, Ledger
    <2>3. review'.call = NoCall
        BY <1>9, <1>b DEF Crash, CallFails
    <2> HIDE DEF u
    <2> QED BY <1>0, <2>1, <2>2, <2>3, CallEnds DEF u
<1>10. CASE (\E a \in Estimates : GivesUp(a)) \/ PresentFails
    BY <1>2, <1>10, <1>b DEF GivesUp, PresentFails
<1>11. CASE Decision
    <2>1. CASE Passes \/ \E N \in SUBSET review.batch : DecideMoved(N) \/ \E s \in Skills : Refused(s, N)
        BY <1>1, <1>a, <2>1 DEF Passes, DecideMoved, Refused, Later, Fields
    <2>2. CASE \E N \in SUBSET review.batch : Ignore(N) \/ \E latest \in N : ReportIssue(N, latest)
        BY <1>1, <1>a, <2>2 DEF Ignore, ReportIssue, Fields
    <2>3. CASE \E N \in SUBSET review.batch : \E s \in Skills : Install(s, N)
        BY <1>1, <1>a, <2>3 DEF Install, Fields
    <2> QED BY <1>11, <2>1, <2>2, <2>3 DEF Decision
<1>12. CASE Present
    BY <1>1, <1>a, <1>12 DEF Present, Fields
<1>13. CASE Finish \/ Tell
    BY <1>2, <1>13, <1>b DEF Finish, Tell, Fields
<1> QED BY <1>3, <1>4, <1>5, <1>6, <1>7, <1>8, <1>9, <1>10, <1>11, <1>12, <1>13 DEF Next, ModelAnswers, Breaks

-----------------------------------------------------------------------------
(* Theorems.                                                               *)

IInv == Shape /\ Accounts /\ NoVersionOverwritten /\ Ledger

LEMMA InductiveInvariant == Spec => []IInv
<1>1. Init => IInv
    <2> SUFFICES ASSUME Init PROVE IInv
        OBVIOUS
    <2>1. \A s \in Skills : Version(s) = 0
        BY DEF Init, Version
    <2>2. Accounts /\ NoVersionOverwritten
        BY <2>1 DEF Init, Accounts, NoVersionOverwritten
    <2> QED BY <2>2, ShapeInit, LedgerInit DEF IInv
<1>2. IInv /\ [Next]_vars => IInv'
    BY ShapeNext, AccountsNext, ContinuesNext, LedgerNext DEF IInv
<1> QED BY <1>1, <1>2, PTL DEF Spec

\* No version the Curator installs takes the place of one it has not read, whoever
\* wrote that: install_evolved_skill_revision against rollback_skill.
THEOREM VersionsContinue == Spec => []NoVersionOverwritten
<1>1. IInv => NoVersionOverwritten
    BY DEF IInv
<1> QED BY <1>1, InductiveInvariant, PTL

\* Saved notes and the versions that cite them agree: no note counts as absorbed by
\* a version that does not name it, and none is cited by two of the Curator's.
THEOREM NotesAgree == Spec => []Accounts
<1>1. IInv => Accounts
    BY DEF IInv
<1> QED BY <1>1, InductiveInvariant, PTL

\* The calls of a day stay within the daily budget, but for what the last one exceeds
\* its reservation by, each counted as what the provider reported for it or else as
\* what was reserved: curator_budget writes a reservation before the call is placed,
\* and no answer, timeout or restart gives it back.
THEOREM CallsStayWithinBudget == Spec => []UsageWithinBudget
<1>1. IInv => UsageWithinBudget
    <2> SUFFICES ASSUME Ledger PROVE UsageWithinBudget
        BY DEF IInv
    <2>1. /\ DailyBudget \in Nat /\ Overrun \in Nat /\ review.call.amount \in Nat
          /\ spent \in Nat /\ accounted \in Nat
        BY CurationAssumption DEF Ledger, CallType
    <2> QED BY <2>1 DEF Ledger, Committed, UsageWithinBudget
<1> QED BY <1>1, InductiveInvariant, PTL

\* Only a review whose tasks are as it found them publishes a version of their notes.
THEOREM OnlyReviewedIsPublished == Spec => PublishedAsReviewed
<1> DEFINE Published ==
        \A s \in Skills : \A n \in Notes :
            (Len(docs'[s]) > Version(s) /\ Last(docs'[s]).by = "curator" /\ n \in Last(docs'[s]).sources)
            => task[Home(n)].present /\ ~task[Home(n)].busy /\ task[Home(n)].round = review.saw[n]
<1>1. IInv /\ [Next]_vars => [Published]_vars
    <2> SUFFICES ASSUME Shape, [Next]_vars PROVE Published
        BY DEF IInv
    <2>0. docs \in [Skills -> Seq(RevisionType)]
        BY DEF Shape
    <2>1. CASE UNCHANGED docs
        BY <2>0, <2>1 DEF Version
    <2>2. ASSUME NEW s \in Skills, NEW v \in 0..NoteCount + MaxRollbacks, RollBack(s, v)
          PROVE  Published
        <3>1. PICK r \in RevisionType : r.by = "user" /\ docs' = [docs EXCEPT ![s] = Append(@, r)]
            BY <2>2, RollBackAppends
        <3>2. Last(docs'[s]) = r /\ \A k \in Skills \ {s} : docs'[k] = docs[k]
            BY <2>0, <3>1, Appended
        <3>3. \A k \in Skills \ {s} : ~(Len(docs'[k]) > Version(k))
            BY <2>0, <3>2 DEF Version
        <3> QED BY <3>1, <3>2, <3>3
    <2>3. ASSUME NEW N \in SUBSET review.batch, NEW s \in Skills, Install(s, N)
          PROVE  Published
        <3> DEFINE r == Revision("curator", Version(s), N)
        <3>1. r \in RevisionType /\ docs' = [docs EXCEPT ![s] = Append(@, r)]
            BY <2>3, InstallContinues
        <3>2. r.sources = N
            BY DEF Revision
        <3> HIDE DEF r
        <3>3. Last(docs'[s]) = r /\ \A k \in Skills \ {s} : docs'[k] = docs[k]
            BY <2>0, <3>1, Appended
        <3>4. \A k \in Skills \ {s} : ~(Len(docs'[k]) > Version(k))
            BY <2>0, <3>3 DEF Version
        <3>5. \A n \in N : task[Home(n)].present /\ ~task[Home(n)].busy
                             /\ task[Home(n)].round = review.saw[n]
            BY <2>3 DEF Install, Unchanged, Eligible
        <3> QED BY <3>2, <3>3, <3>4, <3>5
    <2>4. \/ UNCHANGED docs
          \/ \E s \in Skills, v \in 0..NoteCount + MaxRollbacks : RollBack(s, v)
          \/ \E N \in SUBSET review.batch : \E s \in Skills : Install(s, N)
        BY Writes DEF Quiet, TaskDeleted, Save, Rests, Finish
    <2> QED BY <2>1, <2>2, <2>3, <2>4
<1>2. [][Published]_vars <=> PublishedAsReviewed
    BY PTL DEF PublishedAsReviewed
<1> QED BY <1>1, <1>2, InductiveInvariant, PTL DEF Spec

-----------------------------------------------------------------------------
(* The history of a Skill.                                                 *)

HistoryStep == History!HistoryNext \/ UNCHANGED History!book

\* A step that writes no status and no version is none of the history.
LEMMA HistoryStutters ==
    ASSUME UNCHANGED docs,
           \A n \in Notes : note'[n].status = note[n].status /\ note'[n].by = note[n].by
    PROVE  HistoryStep
BY DEF HistoryStep, History!book

\* Pending notes that are dismissed or deleted.
LEMMA HistoryCloses ==
    ASSUME Shape, UNCHANGED docs, NEW N \in SUBSET Notes, NEW status \in {"dismissed", "deleted"},
           \A n \in N : note[n].status = "pending",
           note' = [n \in Notes |-> IF n \in N THEN [note[n] EXCEPT !.status = status] ELSE note[n]]
    PROVE  HistoryStep
<1>1. \A n \in Notes : DOMAIN note[n] = {"status", "seen", "by"}
    BY DEF Shape, NoteType
<1>2. \A n \in Notes :
          /\ note'[n].status = IF n \in N THEN status ELSE note[n].status
          /\ note'[n].by = note[n].by
    BY <1>1
<1>3. History!Closes(N)
    BY <1>2 DEF History!Closes, History!Undecided, History!Becomes
<1> QED BY <1>3 DEF HistoryStep, History!HistoryNext

LEMMA SaveIsSaved == ASSUME Shape, NEW n \in Notes, Save(n) PROVE HistoryStep
<1>1. \A m \in Notes : DOMAIN note[m] = {"status", "seen", "by"}
    BY DEF Shape, NoteType
<1>2. /\ note[n].status = "unsaved" /\ UNCHANGED docs
      /\ \A m \in Notes :
             /\ note'[m].status = IF m = n THEN "pending" ELSE note[m].status
             /\ note'[m].by = note[m].by
    BY <1>1 DEF Save, Shape
<1>3. History!Saves(n)
    BY <1>2 DEF History!Saves, History!Becomes
<1> QED BY <1>3 DEF HistoryStep, History!HistoryNext

LEMMA InstallPublishes ==
    ASSUME Shape, NEW N \in SUBSET review.batch, NEW s \in Skills, Install(s, N)
    PROVE  HistoryStep
<1>1. docs' = [docs EXCEPT ![s] = Append(@, Revision("curator", Version(s), N))]
    BY InstallContinues
<1>2. N \in SUBSET Notes /\ N # {} /\ \A n \in N : note[n].status = "pending"
    BY DEF Install, Decides, Citable, Shape
<1>3. \A n \in Notes : DOMAIN note[n] = {"status", "seen", "by"}
    BY DEF Shape, NoteType
<1>4. \A n \in Notes :
          /\ note'[n].status = IF n \in N THEN "absorbed" ELSE note[n].status
          /\ note'[n].by = IF n \in N THEN <<s, Len(docs[s]) + 1>> ELSE note[n].by
    BY <1>3 DEF Install, Absorbed, Version
<1>5. History!Publishes(s, N)
    BY <1>1, <1>2, <1>4 DEF History!Publishes, History!Undecided, Revision, Version
<1> QED BY <1>2, <1>5 DEF HistoryStep, History!HistoryNext

LEMMA RollBackRestores ==
    ASSUME Shape, NEW s \in Skills, NEW v \in 0..NoteCount + MaxRollbacks, RollBack(s, v)
    PROVE  HistoryStep
<1>1. Len(docs[s]) \in Nat /\ Len(docs[s]) > 0 /\ docs[s] # <<>>
    BY DEF RollBack, Version, Shape
<1>2. v \in 0..Len(docs[s])
    BY <1>1, CurationAssumption DEF RollBack, Version
<1>3. History!Restores(s, v)
    BY <1>1 DEF History!Restores, RollBack, Revision, Version
<1> QED BY <1>2, <1>3 DEF HistoryStep, History!HistoryNext

LEMMA NextIsHistory == Shape /\ [Next]_vars => HistoryStep
<1> SUFFICES ASSUME Shape, [Next]_vars PROVE HistoryStep
    OBVIOUS
<1>0. \A n \in Notes : DOMAIN note[n] = {"status", "seen", "by"}
    BY DEF Shape, NoteType
<1>1. CASE Quiet
    BY <1>1, HistoryStutters DEF Quiet
<1>2. ASSUME NEW t \in Tasks, TaskDeleted(t) PROVE HistoryStep
    <2> DEFINE gone == {n \in Notes : note[n].status = "pending" /\ Home(n) = t}
    <2>1. /\ note' = [n \in Notes |-> IF n \in gone THEN [note[n] EXCEPT !.status = "deleted"]
                                      ELSE note[n]]
          /\ UNCHANGED docs
        BY <1>2 DEF TaskDeleted
    <2>2. gone \in SUBSET Notes /\ \A n \in gone : note[n].status = "pending"
        OBVIOUS
    <2> HIDE DEF gone
    <2> QED BY <2>1, <2>2, HistoryCloses
<1>3. CASE \E n \in Notes : Save(n)
    BY <1>3, SaveIsSaved
<1>4. CASE \E i \in 1..Len(inbox) : Rests(i)
    <2>1. PICK i \in 1..Len(inbox) : Rests(i)
        BY <1>4
    <2> DEFINE m == inbox[i]
    <2>2. note' = [note EXCEPT ![m] = [note[m] EXCEPT !.seen = "past"]] /\ UNCHANGED docs
        BY <2>1 DEF Rests
    <2> HIDE DEF m
    <2>3. \A n \in Notes : note'[n].status = note[n].status /\ note'[n].by = note[n].by
        BY <1>0, <2>2 DEF Shape
    <2> QED BY <2>2, <2>3, HistoryStutters
<1>5. CASE \E s \in Skills, v \in 0..NoteCount + MaxRollbacks : RollBack(s, v)
    BY <1>5, RollBackRestores
<1>6. ASSUME NEW N \in SUBSET review.batch, Dismissed(N), UNCHANGED docs PROVE HistoryStep
    <2> DEFINE D == {n \in Notes : n \in N /\ note[n].status = "pending"}
    <2>1. note' = [n \in Notes |-> IF n \in D THEN [note[n] EXCEPT !.status = "dismissed"]
                                  ELSE note[n]]
        BY <1>6 DEF Dismissed
    <2>2. D \in SUBSET Notes /\ \A n \in D : note[n].status = "pending"
        OBVIOUS
    <2> HIDE DEF D
    <2> QED BY <1>6, <2>1, <2>2, HistoryCloses
<1>7. CASE \E N \in SUBSET review.batch : \E s \in Skills : Install(s, N)
    BY <1>7, InstallPublishes
<1>8. CASE Finish
    <2>1. UNCHANGED docs /\ \A n \in Notes : note'[n].status = note[n].status /\ note'[n].by = note[n].by
        BY <1>0, <1>8 DEF Finish
    <2> QED BY <2>1, HistoryStutters
<1> QED BY <1>1, <1>2, <1>3, <1>4, <1>5, <1>6, <1>7, <1>8, Writes

\* Reviews, tasks and the user over one store implement SkillHistory: nothing is taken
\* back from the history of a Skill, and a note is decided on once, in the transaction
\* of install_evolved_skill_revision that publishes the version citing it.
THEOREM CurationKeepsTheHistory == Spec => HistoryRefined
<1>1. Init => History!HistoryInit
    BY DEF Init, History!HistoryInit
<1>2. IInv /\ [Next]_vars => HistoryStep
    BY NextIsHistory DEF IInv
<1>3. HistoryStep <=> [History!HistoryNext]_(History!book)
    BY DEF HistoryStep
<1> QED BY <1>1, <1>2, <1>3, InductiveInvariant, PTL DEF Spec, HistoryRefined, History!HistorySpec
=============================================================================
