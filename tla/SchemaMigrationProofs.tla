----------------------- MODULE SchemaMigrationProofs -----------------------
(***************************************************************************)
(* For any number of crashes: wherever the starts on a workspace died, its *)
(* rows are in some table of the file (Whole), and a version changes the   *)
(* database only while the backup from before it is at hand (Kept).        *)
(*                                                                         *)
(* Rows.  A script drops a table only when its version retires it, or      *)
(* after copying it to the table it was: TLC computes that of all scripts  *)
(* (ScriptsAreCareful).  A start may die anywhere and the next one run the *)
(* script from its beginning, on whatever is there: what matters then is   *)
(* only that a statement that fails stops the script, so that no drop is   *)
(* reached but behind its copy.  Of the script that is left, Prepared says *)
(* that every drop in it still has its copy before it or is covered.       *)
(*                                                                         *)
(* Backups.  Only three are kept, those last by name.  A start that was    *)
(* cut off repeats the version it was at, never an earlier one, so no      *)
(* backup is of a later version than the one that is made; if it sorts     *)
(* first all the same, it is of two digits and the other three of one.     *)
(***************************************************************************)
EXTENDS SchemaMigration, SequenceTheorems, TLAPS

Parts == {"tables", "indexes", "versions", "fails"}

\* The connection and the file differ inside a transaction only.
Machine ==
    /\ release \in Releases
    /\ DOMAIN db = Parts /\ DOMAIN disk = Parts
    /\ process \in {"down", "up", "ready", "failed"}
    /\ doing \in 0..Latest /\ (process = "down" => db = disk)
    /\ process # "down" => doing # 0
    /\ disk.versions \subseteq db.versions
    /\ \A v \in 1..Latest : v < doing => v \in disk.versions
    /\ doing \in Atomic /\ todo # <<>> => doing \notin disk.versions
    /\ db # disk => doing \in Atomic /\ doing \notin disk.versions

Files(s) == s \in Seq(Nat) /\ Len(s) <= 3 /\ \A i \in 1..Len(s) : s[i] \in 2..Latest

\* A version is backed up when all before it are recorded.
Kept ==
    /\ Files(backups)
    /\ \A i \in 1..Len(backups), v \in 1..Latest : v < backups[i] => v \in disk.versions
    /\ Changing /\ ~newDatabase => Contains(backups, doing) \/ Crowded

\* The rows of a table are those of its origin.
Shaped(d) ==
    /\ DOMAIN d = Parts
    /\ \A t \in DOMAIN d.tables :
          DOMAIN d.tables[t] = {"by", "columns", "rows"} /\ d.tables[t].rows \subseteq {Origin(t)}

Found(d, o) == \E u \in DOMAIN d.tables : o \in d.tables[u].rows

Covered(d, t) ==
    t \in DOMAIN d.tables =>
        Origin(t) \in DOMAIN d.tables /\ d.tables[t].rows \subseteq d.tables[Origin(t)].rows

\* What is left of a careful script: a copy it does not make again has been made.
Prepared(script, d, v) ==
    /\ script \in Seq(Statement)
    /\ \A i \in 1..Len(script) :
          /\ Moves(script[i])
          /\ Drops(script[i]) /\ ~Retires(script[i].on, v) =>
                LET t == script[i].on IN
                /\ Origin(t) # t
                /\ \/ \E j \in 1..(i - 1) :
                         /\ script[j] = Copy(t, Origin(t))
                         /\ \A k \in (j + 1)..(i - 1) : Spares(script[k], t)
                   \/ Covered(d, t) /\ \A k \in 1..(i - 1) : Spares(script[k], t)

Whole ==
    /\ Shaped(db) /\ Shaped(disk) /\ held \cap Forgotten = {}
    /\ \A o \in held : GivenUp(o) \/ (Found(db, o) /\ Found(disk, o))
    /\ process = "up" => Prepared(todo, db, doing)

IInv == Machine /\ Whole /\ Kept

-----------------------------------------------------------------------------
(* Statements.                                                             *)

\* No statement takes back what is recorded.
LEMMA ExecKeeps ==
    ASSUME NEW d, DOMAIN d = Parts, NEW s, NEW v
    PROVE  DOMAIN Exec(d, s, v) = Parts /\ d.versions \subseteq Exec(d, s, v).versions
<1>1. DOMAIN Done(d, s, v) = Parts /\ d.versions \subseteq Done(d, s, v).versions
    <2>1. CASE s.do \in {"create", "ensure"}
        BY <2>1 DEF Done, Parts
    <2>2. CASE s.do \in {"index", "ensure_index"}
        BY <2>2 DEF Done, Parts
    <2>3. CASE s.do = "drop_index"
        BY <2>3 DEF Done, Parts
    <2>4. CASE s.do \in {"drop", "discard"}
        BY <2>4 DEF Done, Dropped, Parts
    <2>5. CASE s.do = "rename"
        BY <2>5 DEF Done, Parts
    <2>6. CASE s.do \in {"add_column", "ensure_column"}
        BY <2>6 DEF Done, Parts
    <2>7. CASE s.do = "copy"
        BY <2>7 DEF Done, Copied, Parts
    <2>8. CASE s.do \in {"record", "mark"}
        BY <2>8 DEF Done, Parts
    <2>9. CASE s.do \notin {"create", "ensure", "index", "ensure_index", "drop_index", "drop",
                            "discard", "rename", "add_column", "ensure_column", "copy",
                            "record", "mark"}
        BY <2>9 DEF Done, Parts
    <2> QED
        BY <2>1, <2>2, <2>3, <2>4, <2>5, <2>6, <2>7, <2>8, <2>9
<1>2. /\ DOMAIN [d EXCEPT !.fails = TRUE] = Parts
      /\ [d EXCEPT !.fails = TRUE].versions = d.versions
    BY DEF Parts
<1> QED
    BY <1>1, <1>2 DEF Exec

LEMMA RecordedFacts ==
    ASSUME NEW d, DOMAIN d = Parts, NEW k
    PROVE  /\ DOMAIN Recorded(d, k) = Parts /\ Recorded(d, k).versions = d.versions \cup {k}
           /\ Recorded(d, k).tables = d.tables
BY DEF Recorded, Parts

\* What it makes of the tables.
LEMMA TablesAfter ==
    ASSUME NEW d, DOMAIN d = Parts, NEW s, NEW v, ~Exec(d, s, v).fails,
           NEW T, T = d.tables, NEW U, U = Exec(d, s, v).tables
    PROVE  \/ s.do # "copy" /\ U = T
           \/ /\ s.do \in {"create", "ensure"} /\ s.on \notin DOMAIN T
              /\ U = With(T, s.on, Made(s, v))
           \/ Drops(s) /\ s.on \in DOMAIN T /\ U = Without(T, s.on)
           \/ /\ s.do = "rename" /\ s.on \in DOMAIN T /\ s.to \notin DOMAIN T
              /\ U = With(Without(T, s.on), s.to, T[s.on])
           \/ /\ s.do \in {"add_column", "ensure_column"} /\ s.on \in DOMAIN T
              /\ U = [T EXCEPT ![s.on].columns = @ \cup {s.column}]
           \/ /\ s.do = "copy" /\ s.on \in DOMAIN T /\ s.from \in DOMAIN T
              /\ U = [T EXCEPT ![s.on].rows = @ \cup T[s.from].rows]
<1> DEFINE Passes == d.fails \/ PassedOver(d, s)
<1>1. CASE Passes
    <2>1. Exec(d, s, v) = d
        BY <1>1 DEF Exec
    <2>2. s.do # "copy"
        BY <1>1, <2>1 DEF PassedOver
    <2> QED
        BY <2>1, <2>2
<1>2. CASE ~Passes
    <2>1. ~Refused(d, s)
        BY <1>2 DEF Exec, Parts
    <2>2. U = Done(d, s, v).tables
        BY <1>2, <2>1 DEF Exec
    <2>3. CASE s.do \in {"create", "ensure"}
        BY <1>2, <2>1, <2>2, <2>3 DEF Done, Parts, Refused, PassedOver
    <2>4. CASE Drops(s)
        BY <1>2, <2>1, <2>2, <2>4 DEF Done, Dropped, Drops, Parts, Refused, PassedOver
    <2>5. CASE s.do = "rename"
        BY <2>1, <2>2, <2>5 DEF Done, Parts, Refused
    <2>6. CASE s.do \in {"add_column", "ensure_column"}
        BY <2>1, <2>2, <2>6 DEF Done, Parts, Refused
    <2>7. CASE s.do = "copy"
        BY <2>1, <2>2, <2>7 DEF Done, Copied, Parts, Refused
    <2>8. CASE /\ s.do \notin {"create", "ensure", "rename", "add_column", "ensure_column", "copy"}
               /\ ~Drops(s)
        <3>1. CASE s.do \in {"index", "ensure_index"}
            BY <2>2, <3>1 DEF Done, Parts
        <3>2. CASE s.do = "drop_index"
            BY <2>2, <3>2 DEF Done, Parts
        <3>3. CASE s.do \in {"record", "mark"}
            BY <2>2, <3>3 DEF Done, Parts
        <3>4. CASE s.do \notin {"index", "ensure_index", "drop_index", "record", "mark"}
            BY <2>2, <2>8, <3>4 DEF Done, Drops, Parts
        <3> QED
            BY <2>8, <3>1, <3>2, <3>3, <3>4
    <2> QED
        BY <2>3, <2>4, <2>5, <2>6, <2>7, <2>8
<1> QED
    BY <1>1, <1>2

\* Tables and rows by name: nothing is lost but in a table that goes, and what is
\* spared stays covered.
LEMMA RowsAfter ==
    ASSUME NEW d, Shaped(d), NEW s, Moves(s), NEW v, ~Exec(d, s, v).fails,
           NEW e, e = Exec(d, s, v)
    PROVE  /\ Shaped(e)
           /\ \A o : Found(d, o) /\ ~Drops(s) => Found(e, o)
           /\ Drops(s) => \A u \in DOMAIN d.tables \ {s.on} :
                             u \in DOMAIN e.tables /\ e.tables[u] = d.tables[u]
           /\ \A t : Covered(d, t) /\ Spares(s, t) => Covered(e, t)
           /\ \A t : s = Copy(t, Origin(t)) /\ Origin(t) # t => Covered(e, t)
<1> DEFINE T == d.tables
           U == e.tables
<1>1. DOMAIN e = Parts
    BY ExecKeeps DEF Shaped
<1>2. \A t \in DOMAIN T : DOMAIN T[t] = {"by", "columns", "rows"} /\ T[t].rows \subseteq {Origin(t)}
    BY DEF Shaped
<1>3. s.do # "copy" => \A t : ~(s = Copy(t, Origin(t)))
    BY DEF Copy
<1>4. CASE s.do # "copy" /\ U = T
    BY <1>1, <1>2, <1>3, <1>4 DEF Shaped, Found, Covered
<1>5. CASE /\ s.do \in {"create", "ensure"} /\ s.on \notin DOMAIN T
           /\ U = With(T, s.on, Made(s, v))
    <2>1. /\ DOMAIN U = DOMAIN T \cup {s.on}
          /\ \A t \in DOMAIN T : U[t] = T[t]
          /\ U[s.on] = Made(s, v)
        BY <1>5 DEF With
    <2>2. Made(s, v).rows = {} /\ DOMAIN Made(s, v) = {"by", "columns", "rows"}
        BY DEF Made
    <2>3. s.do # "copy" /\ ~Drops(s)
        BY <1>5 DEF Drops
    <2> HIDE DEF U
    <2>4. Shaped(e)
        BY <1>1, <1>2, <2>1, <2>2 DEF Shaped, U
    <2>5. \A o : Found(d, o) => Found(e, o)
        BY <2>1 DEF Found, U
    <2>6. \A t : Covered(d, t) /\ Spares(s, t) => Covered(e, t)
        BY <1>5, <2>1 DEF Covered, Spares, U
    <2> QED
        BY <1>3, <2>3, <2>4, <2>5, <2>6
<1>6. CASE Drops(s) /\ s.on \in DOMAIN T /\ U = Without(T, s.on)
    <2>1. /\ DOMAIN U = DOMAIN T \ {s.on}
          /\ \A t \in DOMAIN U : U[t] = T[t]
        BY <1>6 DEF Without
    <2>2. s.do # "copy"
        BY <1>6 DEF Drops
    <2> HIDE DEF U
    <2>3. Shaped(e)
        BY <1>1, <1>2, <2>1 DEF Shaped, U
    <2>4. \A t : Covered(d, t) /\ Spares(s, t) => Covered(e, t)
        BY <1>6, <2>1 DEF Covered, Spares, U
    <2> QED
        BY <1>3, <1>6, <2>1, <2>2, <2>3, <2>4 DEF U
<1>7. CASE /\ s.do = "rename" /\ s.on \in DOMAIN T /\ s.to \notin DOMAIN T
           /\ U = With(Without(T, s.on), s.to, T[s.on])
    <2>1. /\ DOMAIN U = (DOMAIN T \ {s.on}) \cup {s.to}
          /\ \A t \in DOMAIN T \ {s.on} : U[t] = T[t]
          /\ U[s.to] = T[s.on]
        BY <1>7 DEF With, Without
    <2>2. s.do # "copy" /\ ~Drops(s) /\ Origin(s.to) = Origin(s.on)
        BY <1>7 DEF Drops, Moves
    <2> HIDE DEF U
    <2>3. Shaped(e)
        BY <1>1, <1>2, <1>7, <2>1, <2>2 DEF Shaped, U
    <2>4. \A o : Found(d, o) => Found(e, o)
        BY <1>7, <2>1 DEF Found, U
    <2>5. \A t : Covered(d, t) /\ Spares(s, t) => Covered(e, t)
        BY <1>7, <2>1 DEF Covered, Spares, U
    <2> QED
        BY <1>3, <2>2, <2>3, <2>4, <2>5
<1>8. CASE /\ s.do \in {"add_column", "ensure_column"} /\ s.on \in DOMAIN T
           /\ U = [T EXCEPT ![s.on].columns = @ \cup {s.column}]
    <2>1. /\ DOMAIN U = DOMAIN T
          /\ \A t \in DOMAIN T : DOMAIN U[t] = DOMAIN T[t] /\ U[t].rows = T[t].rows
        BY <1>2, <1>8
    <2>2. s.do # "copy" /\ ~Drops(s)
        BY <1>8 DEF Drops
    <2> HIDE DEF U
    <2>3. Shaped(e)
        BY <1>1, <1>2, <2>1 DEF Shaped, U
    <2>4. \A o : Found(d, o) => Found(e, o)
        BY <2>1 DEF Found, U
    <2>5. \A t : Covered(d, t) => Covered(e, t)
        BY <2>1 DEF Covered, U
    <2> QED
        BY <1>3, <2>2, <2>3, <2>4, <2>5
<1>9. CASE /\ s.do = "copy" /\ s.on \in DOMAIN T /\ s.from \in DOMAIN T
           /\ U = [T EXCEPT ![s.on].rows = @ \cup T[s.from].rows]
    <2>1. /\ DOMAIN U = DOMAIN T
          /\ \A t \in DOMAIN T : DOMAIN U[t] = DOMAIN T[t]
          /\ \A t \in DOMAIN T : t # s.on => U[t] = T[t]
          /\ U[s.on].rows = T[s.on].rows \cup T[s.from].rows
        BY <1>2, <1>9
    <2>2. ~Drops(s) /\ Origin(s.from) = Origin(s.on)
        BY <1>9 DEF Drops, Moves
    <2> HIDE DEF U
    <2>3. Shaped(e)
        BY <1>1, <1>2, <1>9, <2>1, <2>2 DEF Shaped, U
    <2>4. \A o : Found(d, o) => Found(e, o)
        BY <1>9, <2>1 DEF Found, U
    <2>5. \A t : Covered(d, t) /\ Spares(s, t) => Covered(e, t)
        BY <1>9, <2>1 DEF Covered, Spares, U
    <2>6. ASSUME NEW t, s = Copy(t, Origin(t)), Origin(t) # t PROVE Covered(e, t)
        <3>1. s.from = t /\ s.on = Origin(t)
            BY <2>6 DEF Copy
        <3> QED
            BY <1>9, <2>1, <2>6, <3>1 DEF Covered, U
    <2> QED
        BY <2>2, <2>3, <2>4, <2>5, <2>6
<1>10. \/ s.do # "copy" /\ U = T
       \/ /\ s.do \in {"create", "ensure"} /\ s.on \notin DOMAIN T
          /\ U = With(T, s.on, Made(s, v))
       \/ Drops(s) /\ s.on \in DOMAIN T /\ U = Without(T, s.on)
       \/ /\ s.do = "rename" /\ s.on \in DOMAIN T /\ s.to \notin DOMAIN T
          /\ U = With(Without(T, s.on), s.to, T[s.on])
       \/ /\ s.do \in {"add_column", "ensure_column"} /\ s.on \in DOMAIN T
          /\ U = [T EXCEPT ![s.on].columns = @ \cup {s.column}]
       \/ /\ s.do = "copy" /\ s.on \in DOMAIN T /\ s.from \in DOMAIN T
          /\ U = [T EXCEPT ![s.on].rows = @ \cup T[s.from].rows]
    <2>1. DOMAIN d = Parts
        BY DEF Shaped
    <2> QED
        BY <2>1, TablesAfter
<1> HIDE DEF T, U
<1> QED
    BY <1>4, <1>5, <1>6, <1>7, <1>8, <1>9, <1>10

-----------------------------------------------------------------------------
(* Backups.                                                                *)

\* Only a version of two digits sorts before an earlier one, and that is of one.
LEMMA NamesInOrder ==
    ASSUME NEW v \in 2..Latest, NEW w \in 2..Latest, v <= w, NameOrder(w) < NameOrder(v)
    PROVE  v < 10 /\ w >= 10
BY DEF NameOrder, Latest

LEMMA NamesHaveAnOrder ==
    ASSUME NEW v \in 2..Latest
    PROVE  NameOrder(v) \in Nat
BY DEF NameOrder, Latest

LEMMA VersionsAreNumbers ==
    /\ \A v : v \in 2..Latest => v \in Nat /\ v \in 1..Latest
    /\ \A v : v \in 1..Latest => v \in Nat /\ v > 0
    /\ \A v : v \in 0..Latest => v \in Nat
BY DEF Latest

\* The new backup goes only when the other three are of one digit.
LEMMA BackedUpFacts ==
    ASSUME NEW files, Files(files), NEW v \in 2..Latest,
           \A i \in 1..Len(files) : files[i] <= v
    PROVE  /\ Files(BackedUp(files, v))
           /\ \A i \in 1..Len(BackedUp(files, v)) : BackedUp(files, v)[i] <= v
           /\ \/ Contains(BackedUp(files, v), v)
              \/ /\ v >= 10 /\ Len(BackedUp(files, v)) = 3
                 /\ \A i \in 1..3 : BackedUp(files, v)[i] < 10
<1> DEFINE all == Append(files, v)
<1>0. PICK n \in Nat : n = Len(files) /\ n <= 3
    <2>1. Len(files) \in Nat /\ Len(files) <= 3
        BY LenProperties DEF Files
    <2> QED
        BY <2>1
<1>1. files \in Seq(Nat) /\ v \in Nat /\ \A w \in 2..Latest : w \in Nat
    BY DEF Latest, Files
<1>2. /\ all \in Seq(Nat) /\ Len(all) = n + 1 /\ DOMAIN all = 1..(n + 1)
      /\ \A i \in 1..n : all[i] = files[i]
      /\ all[n + 1] = v
    BY <1>0, <1>1
<1> HIDE DEF all
<1>3. \A i \in 1..(n + 1) : all[i] \in 2..Latest /\ all[i] <= v
    <2> TAKE i \in 1..(n + 1)
    <2>1. CASE i \in 1..n
        BY <1>0, <1>2, <2>1 DEF Files
    <2>2. CASE i = n + 1
        BY <1>1, <1>2, <2>2
    <2> QED
        BY <2>1, <2>2
<1>4. CASE n # 3
    <2>1. n + 1 <= 3 /\ n + 1 \in 1..(n + 1)
        BY <1>0, <1>4
    <2>2. BackedUp(files, v) = all
        BY <1>2, <2>1 DEF BackedUp, all
    <2> QED
        BY <1>2, <1>3, <2>1, <2>2 DEF Files, Contains
<1>5. CASE n = 3
    <2>1. Len(all) = 4 /\ DOMAIN all = 1..4 /\ all[4] = v
          /\ \A i \in 1..4 : all[i] \in 2..Latest /\ all[i] <= v
        BY <1>2, <1>3, <1>5
    <2> DEFINE Goes(i) == \A j \in DOMAIN all :
                  \/ NameOrder(all[i]) < NameOrder(all[j])
                  \/ NameOrder(all[i]) = NameOrder(all[j]) /\ i <= j
               k == First(all)
    <2>2. \A i \in 1..4 : NameOrder(all[i]) \in Nat
        <3> TAKE i \in 1..4
        <3>1. all[i] \in 2..Latest
            BY <2>1
        <3> QED
            BY <3>1, NamesHaveAnOrder
    <2>3. k \in 1..4 /\ Goes(k)
        <3>1. \E i \in DOMAIN all : Goes(i)
            <4>1. \A a, b, c, d \in Nat : \E i \in 1..4 :
                     /\ i = 1 => a <= b /\ a <= c /\ a <= d
                     /\ i = 2 => b < a /\ b <= c /\ b <= d
                     /\ i = 3 => c < a /\ c < b /\ c <= d
                     /\ i = 4 => d < a /\ d < b /\ d < c
                <5> TAKE a, b, c, d \in Nat
                <5>1. CASE a <= b /\ a <= c /\ a <= d
                    BY <5>1
                <5>2. CASE b < a /\ b <= c /\ b <= d
                    BY <5>2
                <5>3. CASE c < a /\ c < b /\ c <= d
                    BY <5>3
                <5>4. CASE d < a /\ d < b /\ d < c
                    BY <5>4
                <5> QED
                    BY <5>1, <5>2, <5>3, <5>4
            <4>2. PICK i \in 1..4 :
                     /\ i = 1 => /\ NameOrder(all[1]) <= NameOrder(all[2])
                                /\ NameOrder(all[1]) <= NameOrder(all[3])
                                /\ NameOrder(all[1]) <= NameOrder(all[4])
                     /\ i = 2 => /\ NameOrder(all[2]) < NameOrder(all[1])
                                /\ NameOrder(all[2]) <= NameOrder(all[3])
                                /\ NameOrder(all[2]) <= NameOrder(all[4])
                     /\ i = 3 => /\ NameOrder(all[3]) < NameOrder(all[1])
                                /\ NameOrder(all[3]) < NameOrder(all[2])
                                /\ NameOrder(all[3]) <= NameOrder(all[4])
                     /\ i = 4 => /\ NameOrder(all[4]) < NameOrder(all[1])
                                /\ NameOrder(all[4]) < NameOrder(all[2])
                                /\ NameOrder(all[4]) < NameOrder(all[3])
                BY <2>2, <4>1
            <4>3. Goes(i)
                <5>1. i = 1 \/ i = 2 \/ i = 3 \/ i = 4
                    BY <4>2
                <5> QED
                    BY <2>1, <2>2, <4>2, <5>1
            <4> QED
                BY <2>1, <4>3
        <3>2. k = CHOOSE i \in DOMAIN all : Goes(i)
            BY DEF First
        <3> HIDE DEF Goes, k
        <3> QED
            BY <2>1, <3>1, <3>2
    <2> HIDE DEF k
    <2>4. BackedUp(files, v) = SubSeq(all, 1, k - 1) \o SubSeq(all, k + 1, 4)
        BY <2>1 DEF BackedUp, RemoveAt, all, k
    <2> DEFINE rest == BackedUp(files, v)
    <2>5. /\ rest \in Seq(Nat) /\ Len(rest) = 3
          /\ \A i \in 1..3 : rest[i] = IF i < k THEN all[i] ELSE all[i + 1]
        BY <1>2, <2>1, <2>3, <2>4
    <2> HIDE DEF rest
    <2>6. \A i \in 1..3 : rest[i] \in 2..Latest /\ rest[i] <= v
        <3> TAKE i \in 1..3
        <3>1. i \in 1..4 /\ i + 1 \in 1..4
            OBVIOUS
        <3> QED
            BY <2>1, <2>5, <3>1
    <2>7. CASE k # 4
        <3>1. rest[3] = v
            BY <2>1, <2>3, <2>5, <2>7
        <3> QED
            BY <2>5, <2>6, <3>1 DEF Files, Contains, rest
    <2>8. CASE k = 4
        <3>1. \A i \in 1..3 : all[i] < 10 /\ v >= 10
            <4> TAKE i \in 1..3
            <4>1. i \in DOMAIN all /\ i \in 1..4 /\ 4 \in 1..4 /\ ~(4 <= i)
                BY <2>1
            <4>2. NameOrder(v) < NameOrder(all[i])
                BY <2>1, <2>3, <2>8, <4>1
            <4> QED
                BY <2>1, <4>1, <4>2, NamesInOrder
        <3>2. \A i \in 1..3 : rest[i] = all[i]
            BY <2>5, <2>8
        <3>3. 1 \in 1..3
            OBVIOUS
        <3> QED
            BY <2>5, <2>6, <3>1, <3>2, <3>3 DEF Files, rest
    <2> QED
        BY <2>7, <2>8
<1> QED
    BY <1>4, <1>5

-----------------------------------------------------------------------------
(* The machine.                                                            *)

LEMMA InitMachine == Init => Machine
<1> SUFFICES ASSUME Init PROVE Machine
    OBVIOUS
<1>1. DOMAIN db = Parts /\ disk = db /\ release \in Releases
    BY WorkspacesAreWhole DEF Init, Parts
<1> QED
    BY <1>1 DEF Init, Machine, Latest

LEMMA ExecuteFacts ==
    ASSUME Machine, Execute
    PROVE  /\ DOMAIN db' = Parts /\ db.versions \subseteq db'.versions
           /\ disk' = (IF doing \in Atomic THEN disk ELSE db')
           /\ process = "up" /\ process' \in {"up", "failed"} /\ todo # <<>>
           /\ UNCHANGED <<exists, newDatabase, doing, backups, release, held>>
           /\ disk.versions \subseteq disk'.versions
<1>1. /\ DOMAIN db' = Parts /\ db.versions \subseteq db'.versions
      /\ UNCHANGED <<exists, newDatabase, doing, backups, release, held>>
    BY ExecKeeps DEF Execute, Machine
<1>2. /\ disk' = (IF doing \in Atomic THEN disk ELSE db')
      /\ process = "up" /\ process' \in {"up", "failed"} /\ todo # <<>>
    BY DEF Execute, Machine
<1>3. disk.versions \subseteq disk'.versions
    BY <1>1, <1>2 DEF Machine
<1> QED
    BY <1>1, <1>2, <1>3

LEMMA RecordsFacts ==
    ASSUME Machine, Records
    PROVE  /\ DOMAIN db' = Parts /\ disk' = db' /\ db'.versions = db.versions \cup {doing}
           /\ db'.tables = db.tables
BY RecordedFacts DEF Records, Machine

LEMMA AdvanceFacts ==
    ASSUME Machine, Advance
    PROVE  /\ db = disk /\ doing \in 1..(Latest - 1) /\ doing \in disk.versions
           /\ doing' = doing + 1 /\ doing + 1 \in 2..Latest
           /\ \A v \in 1..Latest : v < doing + 1 => v \in disk.versions
           /\ UNCHANGED <<db, disk, exists, newDatabase, process, release, held>>
<1>1. /\ db = disk /\ doing \in 1..(Latest - 1) /\ doing \in disk.versions
      /\ doing' = doing + 1
      /\ UNCHANGED <<db, disk, exists, newDatabase, process, release, held>>
    BY DEF Advance, Machine, Latest
<1>2. doing + 1 \in 2..Latest
    BY <1>1 DEF Latest
<1>3. ASSUME NEW v \in 1..Latest, v < doing + 1 PROVE v \in disk.versions
    <2>1. v \in Int /\ doing \in Int
        BY <1>1 DEF Latest
    <2>2. v < doing \/ v = doing
        BY <1>3, <2>1
    <2> QED
        BY <1>1, <2>2 DEF Machine
<1> QED
    BY <1>1, <1>2, <1>3

LEMMA MachineNext == Machine /\ [Next]_vars => Machine'
<1> SUFFICES ASSUME Machine, [Next]_vars PROVE Machine'
    OBVIOUS
<1>1. CASE Start
    BY <1>1 DEF Start, Machine, Latest, Atomic
<1>2. CASE Execute
    BY <1>2, ExecuteFacts DEF Machine
<1>3. CASE Records
    BY <1>3, RecordsFacts DEF Records, Machine
<1>4. CASE Advance
    <2>1. doing + 1 \in 0..Latest /\ doing + 1 # 0
        BY <1>4, AdvanceFacts DEF Latest
    <2>2. doing + 1 \in db.versions => todo' = <<>>
        BY <1>4 DEF Advance
    <2> QED
        BY <1>4, <2>1, <2>2, AdvanceFacts DEF Machine
<1>5. CASE Open
    BY <1>5 DEF Open, Machine
<1>6. CASE Crash
    BY <1>6 DEF Crash, Machine, Latest, Atomic
<1>7. CASE UNCHANGED vars
    BY <1>7 DEF vars, Machine
<1> QED
    BY <1>1, <1>2, <1>3, <1>4, <1>5, <1>6, <1>7 DEF Next

-----------------------------------------------------------------------------
(* The backups are kept.                                                   *)

LEMMA InitKept == Init => Kept
<1> SUFFICES ASSUME Init PROVE Kept
    OBVIOUS
<1>1. 1..release \subseteq disk.versions /\ release \in 0..Latest
    BY ReleasesAssumption, WorkspacesAreWhole DEF Init
<1>2. Files(backups) /\ \A i \in 1..Len(backups) : backups[i] <= release
    BY BackupsOfUpgrades DEF Init, Files
<1>3. ASSUME NEW i \in 1..Len(backups), NEW v \in 1..Latest, v < backups[i]
      PROVE  v \in disk.versions
    <2>1. backups[i] \in 2..Latest /\ backups[i] <= release
        BY <1>2, <1>3 DEF Files
    <2>2. v \in Nat /\ v > 0 /\ backups[i] \in Nat /\ release \in Nat
        <3>1. release \in Nat /\ v \in Nat /\ v > 0
            BY <1>1, VersionsAreNumbers
        <3>2. backups[i] \in Nat
            BY <2>1, VersionsAreNumbers
        <3> QED
            BY <3>1, <3>2
    <2>3. v \in 1..release
        BY <1>3, <2>1, <2>2
    <2> QED
        BY <1>1, <2>3
<1>4. ~Changing
    BY DEF Init, Changing
<1> QED
    BY <1>2, <1>3, <1>4 DEF Kept

LEMMA KeptNext == Machine /\ Kept /\ [Next]_vars => Kept'
<1> SUFFICES ASSUME Machine, Kept, [Next]_vars PROVE Kept'
    OBVIOUS
<1>1. CASE Start
    <2>1. doing' = 1 /\ disk' = disk /\ backups' = backups /\ ~Changing'
        BY <1>1 DEF Start, Changing
    <2> QED
        BY <2>1 DEF Kept
<1>2. CASE Execute
    <2>1. /\ UNCHANGED <<newDatabase, doing, backups>> /\ disk.versions \subseteq disk'.versions
          /\ process = "up"
        BY <1>2, ExecuteFacts
    <2>2. Changing' => Changing
        BY <2>1 DEF Changing
    <2> QED
        BY <2>1, <2>2 DEF Kept, Crowded
<1>3. CASE Records
    <2>1. /\ UNCHANGED <<newDatabase, doing, backups>> /\ process = "up"
          /\ disk'.versions = db.versions \cup {doing} /\ disk.versions \subseteq disk'.versions
        BY <1>3, RecordsFacts DEF Records, Machine
    <2>2. ~Changing'
        BY <2>1 DEF Changing
    <2> QED
        BY <2>1, <2>2 DEF Kept
<1>4. CASE Advance
    <2>1. /\ doing' = doing + 1 /\ doing + 1 \in 2..Latest
          /\ db = disk /\ UNCHANGED <<disk, newDatabase, process>>
          /\ \A v \in 1..Latest : v < doing + 1 => v \in disk.versions
        BY <1>4, AdvanceFacts
    <2>2. CASE doing + 1 \in db.versions
        <3>1. backups' = backups /\ ~Changing'
            BY <1>4, <2>1, <2>2 DEF Advance, Changing
        <3> QED
            BY <2>1, <3>1 DEF Kept
    <2>3. CASE doing + 1 \notin db.versions /\ newDatabase
        <3>1. backups' = backups /\ newDatabase'
            BY <1>4, <2>1, <2>3 DEF Advance
        <3> QED
            BY <2>1, <3>1 DEF Kept
    <2>4. CASE doing + 1 \notin db.versions /\ ~newDatabase
        <3>1. backups' = BackedUp(backups, doing + 1)
            BY <1>4, <2>4 DEF Advance
        <3>2. Files(backups)
            BY DEF Kept
        <3>3. \A i \in 1..Len(backups) : backups[i] <= doing + 1
            <4> TAKE i \in 1..Len(backups)
            <4>1. backups[i] \in 2..Latest
                BY <3>2 DEF Files
            <4>2. doing + 1 \in 1..Latest /\ doing + 1 \in Nat /\ backups[i] \in Nat
                <5>1. backups[i] \in Nat
                    BY <4>1, VersionsAreNumbers
                <5>2. doing + 1 \in 1..Latest /\ doing + 1 \in Nat
                    BY <2>1, VersionsAreNumbers
                <5> QED
                    BY <5>1, <5>2
            <4>3. ~(doing + 1 < backups[i])
                BY <2>1, <2>4, <4>2 DEF Kept
            <4> QED
                BY <4>2, <4>3
        <3>4. /\ Files(backups') /\ \A i \in 1..Len(backups') : backups'[i] <= doing + 1
              /\ \/ Contains(backups', doing + 1)
                 \/ doing + 1 >= 10 /\ Len(backups') = 3 /\ \A i \in 1..3 : backups'[i] < 10
            BY <2>1, <3>1, <3>2, <3>3, BackedUpFacts
        <3>5. ASSUME NEW i \in 1..Len(backups'), NEW v \in 1..Latest, v < backups'[i]
              PROVE  v \in disk.versions
            <4>1. backups'[i] \in 2..Latest /\ backups'[i] <= doing + 1
                BY <3>4 DEF Files
            <4>2. v \in Nat /\ doing + 1 \in Nat /\ backups'[i] \in Nat
                BY <2>1, <4>1, VersionsAreNumbers
            <4>3. v < doing + 1
                BY <3>5, <4>1, <4>2
            <4> QED
                BY <2>1, <4>3
        <3> QED
            BY <2>1, <3>4, <3>5 DEF Kept, Crowded
    <2> QED
        BY <2>2, <2>3, <2>4
<1>5. CASE Open
    BY <1>5 DEF Open, Kept, Changing
<1>6. CASE Crash
    BY <1>6 DEF Crash, Kept, Changing
<1>7. CASE UNCHANGED vars
    BY <1>7 DEF vars, Kept, Changing, Crowded
<1> QED
    BY <1>1, <1>2, <1>3, <1>4, <1>5, <1>6, <1>7 DEF Next

-----------------------------------------------------------------------------
(* The rows are kept.                                                      *)

LEMMA NothingPrepared ==
    ASSUME NEW d, NEW v
    PROVE  Prepared(<<>>, d, v)
BY EmptySeq DEF Prepared

LEMMA CarefulIsPrepared ==
    ASSUME NEW script, NEW d, NEW v, Careful(script, v)
    PROVE  Prepared(script, d, v)
BY DEF Careful, Prepared

\* Script 28 is the only one that depends on the database.
LEMMA ScriptIsPrepared ==
    ASSUME NEW v \in 2..Latest, NEW c, NEW d
    PROVE  Prepared(Script(v, c), d, v)
<1>1. CASE v = 28
    <2>1. Script(v, c) = Script28(c) /\ Script(v, Empty) = Script28(Empty)
        BY <1>1 DEF Script
    <2>2. DOMAIN Empty.tables = {}
        BY DEF Empty
    <2>3. Script28(c) = <<>> \/ Script28(c) = Script28(Empty)
        BY <2>2 DEF Script28
    <2> QED
        BY <2>1, <2>3, ScriptsAreCareful, CarefulIsPrepared, NothingPrepared
<1>2. CASE v # 28
    <2>1. Script(v, c) = Script(v, Empty)
        BY <1>2 DEF Script
    <2> QED
        BY <2>1, ScriptsAreCareful, CarefulIsPrepared
<1> QED
    BY <1>1, <1>2

\* What is left after a statement is prepared on what the statement made.
LEMMA TailIsPrepared ==
    ASSUME NEW script, NEW d, NEW v, Prepared(script, d, v), Shaped(d), script # <<>>,
           NEW e, e = Exec(d, Head(script), v), ~e.fails
    PROVE  Prepared(Tail(script), e, v)
<1> DEFINE s == Head(script)
           rest == Tail(script)
<1>1. /\ script \in Seq(Statement) /\ Len(script) \in Nat
      /\ rest \in Seq(Statement) /\ Len(rest) = Len(script) - 1
      /\ \A i \in 1..Len(rest) : rest[i] = script[i + 1]
    BY HeadTailProperties, LenProperties DEF Prepared
<1>2. s = script[1] /\ 1 \in 1..Len(script)
    <2>1. Len(script) # 0
        BY <1>1, EmptySeq
    <2> QED
        BY <1>1, <2>1
<1>3. Moves(s)
    BY <1>2 DEF Prepared
<1>4. /\ \A t : Covered(d, t) /\ Spares(s, t) => Covered(e, t)
      /\ \A t : s = Copy(t, Origin(t)) /\ Origin(t) # t => Covered(e, t)
    BY <1>3, RowsAfter
<1> HIDE DEF s, rest
<1>5. ASSUME NEW i \in 1..Len(rest) PROVE i + 1 \in 1..Len(script) /\ rest[i] = script[i + 1]
    BY <1>1
<1>6. ASSUME NEW i \in 1..Len(rest), Drops(rest[i]), ~Retires(rest[i].on, v), NEW t, t = rest[i].on
      PROVE  /\ Origin(t) # t
             /\ \/ \E j \in 1..(i - 1) :
                      /\ rest[j] = Copy(t, Origin(t))
                      /\ \A k \in (j + 1)..(i - 1) : Spares(rest[k], t)
                \/ Covered(e, t) /\ \A k \in 1..(i - 1) : Spares(rest[k], t)
    <2>1. i \in Nat /\ i <= Len(rest)
        BY <1>1
    <2>2. \A k \in 1..(i - 1) : rest[k] = script[k + 1]
        BY <1>1, <2>1
    <2>3. /\ Origin(t) # t
          /\ \/ \E j \in 1..((i + 1) - 1) :
                   /\ script[j] = Copy(t, Origin(t))
                   /\ \A k \in (j + 1)..((i + 1) - 1) : Spares(script[k], t)
             \/ Covered(d, t) /\ \A k \in 1..((i + 1) - 1) : Spares(script[k], t)
        BY <1>5, <1>6 DEF Prepared
    <2>4. (i + 1) - 1 = i
        BY <2>1
    <2>5. CASE Covered(d, t) /\ \A k \in 1..i : Spares(script[k], t)
        <3>1. Covered(e, t)
            BY <1>2, <1>4, <2>1, <2>5
        <3>2. \A k \in 1..(i - 1) : Spares(rest[k], t)
            BY <2>1, <2>2, <2>5
        <3> QED
            BY <2>3, <3>1, <3>2
    <2>6. ASSUME NEW j \in 1..i, script[j] = Copy(t, Origin(t)),
                 \A k \in (j + 1)..i : Spares(script[k], t)
          PROVE  \/ \E h \in 1..(i - 1) :
                      /\ rest[h] = Copy(t, Origin(t))
                      /\ \A k \in (h + 1)..(i - 1) : Spares(rest[k], t)
                 \/ Covered(e, t) /\ \A k \in 1..(i - 1) : Spares(rest[k], t)
        <3>1. CASE j = 1
            <4>1. Covered(e, t)
                BY <1>2, <1>4, <2>3, <2>6, <3>1
            <4>2. \A k \in 1..(i - 1) : Spares(rest[k], t)
                BY <2>1, <2>2, <2>6, <3>1
            <4> QED
                BY <4>1, <4>2
        <3>2. CASE j # 1
            <4>1. j - 1 \in 1..(i - 1) /\ rest[j - 1] = Copy(t, Origin(t))
                BY <2>1, <2>2, <2>6, <3>2
            <4>2. \A k \in ((j - 1) + 1)..(i - 1) : Spares(rest[k], t)
                BY <2>1, <2>2, <2>6, <3>2
            <4> QED
                BY <4>1, <4>2
        <3> QED
            BY <3>1, <3>2
    <2> QED
        BY <2>3, <2>4, <2>5, <2>6
<1>7. \A i \in 1..Len(rest) : Moves(rest[i])
    BY <1>5 DEF Prepared
<1> QED
    BY <1>1, <1>6, <1>7 DEF Prepared, rest

LEMMA InitWhole == Init => Whole
<1> SUFFICES ASSUME Init PROVE Whole
    OBVIOUS
<1>1. /\ DOMAIN db = Parts /\ disk = db /\ held = DOMAIN db.tables /\ process = "down"
      /\ \A t \in DOMAIN db.tables :
            /\ DOMAIN db.tables[t] = {"by", "columns", "rows"} /\ db.tables[t].rows = {t}
            /\ Origin(t) = t /\ t \notin Forgotten
    BY WorkspacesAreWhole DEF Init, Parts
<1>2. Shaped(db)
    BY <1>1 DEF Shaped
<1>3. \A o \in held : Found(db, o)
    BY <1>1 DEF Found
<1> QED
    BY <1>1, <1>2, <1>3 DEF Whole

\* A statement loses no rows but of a table that is retired.
LEMMA ExecuteWhole == ASSUME Machine, Whole, Execute PROVE Whole'
<1> DEFINE s == Head(todo)
<1>1. /\ process = "up" /\ todo # <<>> /\ Prepared(todo, db, doing)
      /\ Shaped(db) /\ Shaped(disk) /\ held \cap Forgotten = {}
    BY DEF Execute, Whole
<1>2. CASE Exec(db, s, doing).fails
    <2>1. process' = "failed" /\ UNCHANGED <<db, disk, held>>
        BY <1>2 DEF Execute
    <2> QED
        BY <2>1 DEF Whole, GivenUp
<1>3. CASE ~Exec(db, s, doing).fails
    <2>1. db' = Exec(db, s, doing) /\ todo' = Tail(todo) /\ doing' = doing /\ held' = held
        BY <1>3 DEF Execute
    <2>2. /\ Moves(s)
          /\ Drops(s) /\ ~Retires(s.on, doing) =>
                Origin(s.on) # s.on /\ Covered(db, s.on)
        <3>1. todo \in Seq(Statement) /\ Len(todo) \in Nat /\ Len(todo) # 0
            BY <1>1, EmptySeq, LenProperties DEF Prepared
        <3>2. s = todo[1] /\ 1 \in 1..Len(todo)
            BY <3>1
        <3>3. \A j : j \notin 1..(1 - 1)
            OBVIOUS
        <3> HIDE DEF s
        <3> QED
            BY <1>1, <3>2, <3>3 DEF Prepared
    <2> HIDE DEF s
    <2>3. Prepared(todo', db', doing')
        BY <1>1, <1>3, <2>1, TailIsPrepared DEF s
    <2>4. Shaped(db')
        BY <1>1, <1>3, <2>1, <2>2, RowsAfter
    <2>5. ASSUME NEW o \in held, GivenUp(o) PROVE GivenUp(o)'
        BY <2>5, ExecuteFacts DEF GivenUp
    <2>6. ASSUME NEW o \in held, Found(db, o) PROVE GivenUp(o)' \/ Found(db', o)
        <3>1. CASE ~Drops(s)
            BY <1>1, <1>3, <2>1, <2>2, <2>6, <3>1, RowsAfter
        <3>2. CASE Drops(s)
            <4>1. \A u \in DOMAIN db.tables \ {s.on} :
                      u \in DOMAIN db'.tables /\ db'.tables[u] = db.tables[u]
                BY <1>1, <1>3, <2>1, <2>2, <3>2, RowsAfter
            <4>2. PICK u \in DOMAIN db.tables : o \in db.tables[u].rows
                BY <2>6 DEF Found
            <4>3. CASE u # s.on
                BY <4>1, <4>2, <4>3 DEF Found
            <4>4. CASE u = s.on /\ ~Retires(s.on, doing)
                BY <2>2, <3>2, <4>1, <4>2, <4>4 DEF Found, Covered
            <4>5. CASE u = s.on /\ Retires(s.on, doing)
                <5>1. o = Origin(s.on) /\ o \notin Forgotten
                    BY <1>1, <4>2, <4>5 DEF Shaped
                <5>2. PICK w \in Retirements : w <= doing /\ o \in GoneBy(w)
                    BY <4>5, <5>1 DEF Retires
                <5>3. w - 1 \in disk.versions
                    <6>1. w - 1 \in 1..Latest /\ w - 1 < doing
                        BY <5>2 DEF Retirements, Latest, Machine
                    <6> QED
                        BY <6>1 DEF Machine
                <5> QED
                    BY <5>2, <5>3, ExecuteFacts DEF GivenUp
            <4> QED
                BY <4>3, <4>4, <4>5
        <3> QED
            BY <3>1, <3>2
    <2>7. disk' = disk \/ disk' = db'
        BY ExecuteFacts
    <2>8. Shaped(disk')
        BY <1>1, <2>4, <2>7
    <2>9. \A o \in held : GivenUp(o)' \/ (Found(db', o) /\ Found(disk', o))
        <3> TAKE o \in held
        <3>1. GivenUp(o) \/ (Found(db, o) /\ Found(disk, o))
            BY DEF Whole
        <3> QED
            BY <2>5, <2>6, <2>7, <3>1
    <2> QED
        BY <1>1, <2>1, <2>3, <2>4, <2>8, <2>9 DEF Whole
<1> QED
    BY <1>2, <1>3

LEMMA WholeNext == Machine /\ Whole /\ [Next]_vars => Whole'
<1> SUFFICES ASSUME Machine, Whole, [Next]_vars PROVE Whole'
    OBVIOUS
<1>1. CASE Start
    <2>1. Careful(todo', 1)
        BY <1>1, ScriptsAreCareful DEF Start
    <2>2. Prepared(todo', db', doing')
        BY <1>1, <2>1, CarefulIsPrepared DEF Start
    <2>3. UNCHANGED <<db, disk, held>>
        BY <1>1 DEF Start
    <2> QED
        BY <2>2, <2>3 DEF Whole, GivenUp
<1>2. CASE Execute
    BY <1>2, ExecuteWhole
<1>3. CASE Records
    <2>1. Shaped(db')
        BY <1>3, RecordsFacts DEF Whole, Shaped
    <2>2. \A o : Found(db, o) => Found(db', o)
        BY <1>3, RecordsFacts DEF Found
    <2>3. \A o : GivenUp(o) => GivenUp(o)'
        BY <1>3, RecordsFacts DEF GivenUp, Machine
    <2>4. Prepared(todo', db', doing')
        BY <1>3, NothingPrepared DEF Records
    <2>5. held' = held /\ disk' = db'
        BY <1>3 DEF Records
    <2> QED
        BY <2>1, <2>2, <2>3, <2>4, <2>5 DEF Whole
<1>4. CASE Advance
    <2>1. Prepared(todo', db', doing')
        <3>1. CASE doing + 1 \in db.versions
            BY <1>4, <3>1, NothingPrepared DEF Advance
        <3>2. CASE doing + 1 \notin db.versions
            BY <1>4, <3>2, ScriptIsPrepared, AdvanceFacts DEF Advance
        <3> QED
            BY <3>1, <3>2
    <2> QED
        BY <1>4, <2>1, AdvanceFacts DEF Whole, GivenUp
<1>5. CASE Open
    BY <1>5 DEF Open, Whole, GivenUp
<1>6. CASE Crash
    BY <1>6 DEF Crash, Whole, GivenUp
<1>7. CASE UNCHANGED vars
    BY <1>7 DEF vars, Whole, GivenUp
<1> QED
    BY <1>1, <1>2, <1>3, <1>4, <1>5, <1>6, <1>7 DEF Next

-----------------------------------------------------------------------------
(* Theorems.                                                               *)

\* The invariant holds of every workspace, however often its starts die.
THEOREM Invariance == Spec => []IInv
<1>1. Init => IInv
    BY InitMachine, InitWhole, InitKept DEF IInv
<1>2. IInv /\ [Next]_vars => IInv'
    BY MachineNext, WholeNext, KeptNext DEF IInv
<1> QED
    BY <1>1, <1>2, PTL DEF Spec

\* Wherever and however often starts die or fail, every row a workspace came with
\* is in some table of the committed database, unless its table is one that is
\* retired (store.py, _migrate).
THEOREM RowsStayKept == Spec => []RowsKept
<1>1. IInv => RowsKept
    BY DEF IInv, Whole, Found, RowsKept
<1> QED
    BY <1>1, Invariance, PTL

\* A version changes an existing database only with the backup from before it at
\* hand, and the backup stays until the version is recorded, whatever upgrades came
\* before and through any number of starts that die; unless three backups of one
\* digit are there, behind which a version of two sorts (store.py, _migrate and
\* _backup_before_migration).
THEOREM BackupStaysAtHand == Spec => []BackupAtHand
<1>1. IInv => BackupAtHand
    BY DEF IInv, Kept, BackupAtHand
<1> QED
    BY <1>1, Invariance, PTL
=============================================================================
