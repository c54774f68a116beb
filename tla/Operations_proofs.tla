--------------------------- MODULE Operations_proofs ---------------------------
(***************************************************************************)
(* Theorems about the operator's tools, for any number of processes, stops *)
(* and rows, any contents of models.yaml, any report and any combination   *)
(* of faults.                                                              *)
(***************************************************************************)
EXTENDS Operations, FiniteSetTheorems, SequenceTheorems, TLAPS

-----------------------------------------------------------------------------
(* Migrations: a process at a line of a script has what the lines before it *)
(* do, and while nothing has been disturbed the columns are exactly those of *)
(* the one process inside the third script.                                *)

\* The columns the third script has added before each of its lines.
ColumnsBefore ==
  << {}, {"error_type"}, {"error_type", "error_message"},
     {"error_type", "error_message", "configured_model"}, NewColumns >>

Placed == \A b \in Bootstraps :
            \/ at[b] \in {Ready, Done, DuplicateColumn}
            \/ at[b].file \in 1..3 /\ at[b].line \in 0..Len(Scripts[at[b].file])

\* What a process at its place relies on.
Passed == \A b \in Bootstraps :
            /\ at[b].file # 0 => tables
            /\ \A m \in 1..3 : m < at[b].file => m \in marks
            /\ InsideThird(at[b]) => ColumnsBefore[at[b].line] \subseteq columns

Undisturbed ==
  ~disturbed =>
    /\ \A b \in Bootstraps :
         InsideThird(at[b]) => /\ 3 \notin marks /\ columns = ColumnsBefore[at[b].line]
                           /\ \A c \in Bootstraps : InsideThird(at[c]) => c = b
    /\ 3 \notin marks /\ (\A b \in Bootstraps : ~InsideThird(at[b])) => columns = {}

MigrationsInv == MigrationsTypeOK /\ MigrationsWhole /\ Placed /\ Passed /\ Undisturbed

\* The scripts line by line.
LEMMA ScriptLines ==
  /\ Len(Scripts) = 3
  /\ Len(Scripts[1]) = 1 /\ Scripts[1][1] = "record"
  /\ Len(Scripts[2]) = 2 /\ Scripts[2][1] = "view" /\ Scripts[2][2] = "record"
  /\ Len(Scripts[3]) = 5
  /\ Scripts[3][1] = "error_type" /\ Scripts[3][2] = "error_message"
  /\ Scripts[3][3] = "configured_model" /\ Scripts[3][4] = "returned_model"
  /\ Scripts[3][5] = "record"
BY DEF Scripts

LEMMA ColumnsByLine ==
  /\ ColumnsBefore[1] = {} /\ ColumnsBefore[2] = {"error_type"}
  /\ ColumnsBefore[3] = {"error_type", "error_message"}
  /\ ColumnsBefore[4] = {"error_type", "error_message", "configured_model"}
  /\ ColumnsBefore[5] = NewColumns
BY DEF ColumnsBefore

\* A column is missing before its line and there after it; a statement that
\* adds none is no column.
LEMMA Statements ==
  ASSUME NEW f \in 1..3, NEW k \in 1..Len(Scripts[f])
  PROVE  /\ k = Len(Scripts[f]) <=> Scripts[f][k] = "record"
         /\ f # 3 => Scripts[f][k] \notin NewColumns
         /\ f = 3 /\ k < 5 =>
              /\ Scripts[f][k] \in NewColumns /\ Scripts[f][k] \notin ColumnsBefore[k]
              /\ ColumnsBefore[k + 1] = ColumnsBefore[k] \cup {Scripts[f][k]}
         /\ f = 3 /\ k = 5 => Scripts[f][k] = "record"
         /\ "record" \notin NewColumns
<1>1. CASE f = 1
  BY <1>1, ScriptLines DEF NewColumns
<1>2. CASE f = 2
  BY <1>2, ScriptLines DEF NewColumns
<1>3. CASE f = 3
  <2>1. k \in {1, 2, 3, 4, 5}
    BY <1>3, ScriptLines
  <2>2. CASE k = 1
    BY <1>3, <2>2, ScriptLines, ColumnsByLine DEF NewColumns
  <2>3. CASE k = 2
    BY <1>3, <2>3, ScriptLines, ColumnsByLine DEF NewColumns
  <2>4. CASE k = 3
    BY <1>3, <2>4, ScriptLines, ColumnsByLine DEF NewColumns
  <2>5. CASE k = 4
    BY <1>3, <2>5, ScriptLines, ColumnsByLine DEF NewColumns
  <2>6. CASE k = 5
    BY <1>3, <2>6, ScriptLines DEF NewColumns
  <2> QED
    BY <2>1, <2>2, <2>3, <2>4, <2>5, <2>6
<1> QED
  BY <1>1, <1>2, <1>3

\* Where a process is tells what it can do next.
LEMMA Places ==
  /\ Ready = Place(0, 0) /\ Done = Place(4, 0) /\ DuplicateColumn = Place(0, 1)
  /\ \A f, k : Place(f, k).file = f /\ Place(f, k).line = k
BY ScriptLines DEF Ready, Done, DuplicateColumn, Place

LEMMA MigrationStart == MigrationInit => MigrationsInv
<1> SUFFICES ASSUME MigrationInit PROVE MigrationsInv
  OBVIOUS
<1>1. stops \in 0..MaxStops
  BY MigrationsAssumption DEF MigrationInit
<1>2. MigrationsTypeOK
  <2>1. Ready \in [file : 0..4, line : 0..5]
    BY DEF Ready, Place
  <2> QED
    BY <1>1, <2>1 DEF MigrationInit, MigrationsTypeOK
<1> QED
  BY <1>2 DEF MigrationsInv, MigrationInit, MigrationsWhole, Placed, Passed, Undisturbed, Ready,
              Place, DuplicateColumn, InsideThird

LEMMA InsideLines ==
  ASSUME MigrationsTypeOK, Placed, NEW b \in Bootstraps, InsideThird(at[b])
  PROVE  at[b].line \in 1..5
BY Places, ScriptLines DEF Placed, InsideThird, MigrationsTypeOK

\* A process that comes to a new place and leaves the database alone.
LEMMA MoveInv ==
  ASSUME MigrationsInv, NEW b \in Bootstraps, NEW place,
         at' = [at EXCEPT ![b] = place], tables => tables', UNCHANGED <<columns, marks>>,
         place \in {Ready, Done} \/ (place.file \in 1..3 /\ place.line = 0),
         place \in [file : 0..4, line : 0..5],
         place.file # 0 => tables',
         \A m \in 1..3 : m < place.file => m \in marks,
         tables' \in BOOLEAN, stops' \in 0..MaxStops,
         disturbed' \in BOOLEAN, disturbed => disturbed',
         InsideThird(at[b]) => disturbed'
  PROVE  MigrationsInv'
<1> USE DEF MigrationsInv
<1>1. MigrationsTypeOK'
  BY DEF MigrationsTypeOK
<1>2. \A c \in Bootstraps : at'[c] = IF c = b THEN place ELSE at[c]
  BY DEF MigrationsTypeOK
<1>3. ~InsideThird(at'[b])
  BY <1>2, Places DEF InsideThird
<1>4. \A c \in Bootstraps : c # b => (InsideThird(at'[c]) <=> InsideThird(at[c]))
  BY <1>2 DEF InsideThird
<1>5. Placed'
  <2>1. place \in {Ready, Done, DuplicateColumn}
        \/ (place.file \in 1..3 /\ place.line \in 0..Len(Scripts[place.file]))
    BY ScriptLines
  <2> QED
    BY <1>2, <2>1 DEF Placed
<1>6. Passed'
  BY <1>2, <1>3, <1>4 DEF Passed, InsideThird
<1>7. Undisturbed'
  BY <1>2, <1>3, <1>4 DEF Undisturbed, InsideThird
<1>8. place # DuplicateColumn
  BY Places
<1>9. MigrationsWhole'
  BY <1>2, <1>8 DEF MigrationsWhole
<1> QED
  BY <1>1, <1>5, <1>6, <1>7, <1>9

LEMMA SelectInv ==
  ASSUME MigrationsInv, NEW b \in Bootstraps, SelectMigration(b)
  PROVE  MigrationsInv'
<1> USE DEF MigrationsInv
<1> DEFINE f == at[b].file
<1>1. f \in 1..3 /\ at[b].line = 0 /\ UNCHANGED <<tables, columns, marks, stops>>
  BY ScriptLines DEF SelectMigration
<1>2. at[b] \in [file : 0..4, line : 0..5] /\ tables
  BY <1>1 DEF MigrationsTypeOK, Passed
<1>3. CASE f \in marks
  <2> DEFINE place == [at[b] EXCEPT !.file = f + 1]
  <2>1. at' = [at EXCEPT ![b] = place] /\ UNCHANGED disturbed
    BY <1>3 DEF SelectMigration
  <2>2. place \in [file : 0..4, line : 0..5] /\ place.file = f + 1 /\ place.line = 0
    BY <1>1, <1>2
  <2>3. place = Done \/ place.file \in 1..3
    BY <1>1, <1>2, <2>2, Places DEF Place
  <2>4. \A m \in 1..3 : m < place.file => m \in marks
    BY <1>1, <1>3, <2>2 DEF Passed
  <2>5. ~InsideThird(at[b])
    BY <1>1 DEF InsideThird
  <2> HIDE DEF place
  <2> QED
    BY <1>1, <1>2, <2>1, <2>2, <2>3, <2>4, <2>5, MoveInv DEF MigrationsTypeOK
<1>4. CASE f \notin marks
  <2> DEFINE place == [at[b] EXCEPT !.line = 1]
  <2>1. /\ at' = [at EXCEPT ![b] = place]
        /\ disturbed' = (disturbed \/ (f = 3 /\ \E o \in Bootstraps : InsideThird(at[o])))
    BY <1>4 DEF SelectMigration
  <2>2. place \in [file : 0..4, line : 0..5] /\ place.file = f /\ place.line = 1
    BY <1>1, <1>2
  <2>3. \A c \in Bootstraps : at'[c] = IF c = b THEN place ELSE at[c]
    BY <2>1 DEF MigrationsTypeOK
  <2>4. MigrationsTypeOK'
    BY <1>1, <2>1, <2>2 DEF MigrationsTypeOK
  <2>5. Placed'
    BY <1>1, <2>2, <2>3, ScriptLines DEF Placed
  <2>6. \A c \in Bootstraps : InsideThird(at'[c]) <=> (IF c = b THEN f = 3 ELSE InsideThird(at[c]))
    BY <2>2, <2>3 DEF InsideThird
  <2>7. Passed'
    BY <1>1, <1>2, <2>2, <2>3, <2>6, ColumnsByLine DEF Passed
  <2>8. MigrationsWhole'
    <3>1. place # DuplicateColumn
      BY <1>1, <2>2, Places
    <3>2. disturbed => disturbed'
      BY <2>1
    <3> HIDE DEF place
    <3> QED
      BY <1>1, <2>3, <3>1, <3>2 DEF MigrationsWhole
  <2>9. Undisturbed'
    <3>1. CASE f = 3
      <4>1. SUFFICES ASSUME ~disturbed' PROVE Undisturbed'
        BY DEF Undisturbed
      <4>2. ~disturbed /\ \A c \in Bootstraps : ~InsideThird(at[c])
        BY <2>1, <3>1, <4>1 DEF MigrationsTypeOK
      <4>3. columns' = {} /\ 3 \notin marks'
        BY <1>1, <1>4, <3>1, <4>2 DEF Undisturbed
      <4>4. at'[b].line = 1 /\ InsideThird(at'[b])
        BY <2>2, <2>3, <3>1 DEF InsideThird
      <4>5. \A c \in Bootstraps : InsideThird(at'[c]) => c = b
        BY <2>3, <4>2
      <4> HIDE DEF place
      <4> QED
        BY <4>3, <4>4, <4>5, ColumnsByLine DEF Undisturbed
    <3>2. CASE f # 3
      <4>1. ~InsideThird(at[b]) /\ (disturbed => disturbed')
        BY <1>1, <2>1, <3>2 DEF InsideThird, MigrationsTypeOK
      <4>2. columns' = columns /\ (3 \in marks' <=> 3 \in marks)
        BY <1>1
      <4>3. \A c \in Bootstraps : InsideThird(at'[c]) => InsideThird(at[c]) /\ at'[c] = at[c]
        BY <2>2, <2>3, <3>2 DEF InsideThird
      <4>4. \A c \in Bootstraps : InsideThird(at[c]) => InsideThird(at'[c])
        BY <2>3, <4>1
      <4> HIDE DEF place
      <4> QED
        BY <4>1, <4>2, <4>3, <4>4 DEF Undisturbed
    <3> QED
      BY <3>1, <3>2
  <2> QED
    BY <2>4, <2>5, <2>7, <2>8, <2>9
<1> QED
  BY <1>3, <1>4

\* An added column that exists is met only after a disturbance.
LEMMA RaiseDuplicate ==
  ASSUME MigrationsInv, NEW b \in Bootstraps, Inside(at[b]),
         Scripts[at[b].file][at[b].line] \in columns,
         at' = [at EXCEPT ![b] = DuplicateColumn],
         UNCHANGED <<tables, columns, marks, stops, disturbed>>
  PROVE  MigrationsInv'
<1> USE DEF MigrationsInv
<1>1. at[b].file \in 1..3 /\ at[b].line \in 1..Len(Scripts[at[b].file])
  BY ScriptLines, Places DEF Inside, Placed, MigrationsTypeOK
<1>2. disturbed
  <2>1. SUFFICES ASSUME ~disturbed PROVE FALSE
    OBVIOUS
  <2>2. Scripts[at[b].file][at[b].line] \in NewColumns
    BY DEF MigrationsTypeOK
  <2>3. at[b].file = 3 /\ at[b].line < 5
    <3>1. /\ at[b].line = Len(Scripts[at[b].file])
               <=> Scripts[at[b].file][at[b].line] = "record"
          /\ at[b].file # 3 => Scripts[at[b].file][at[b].line] \notin NewColumns
          /\ "record" \notin NewColumns
      BY <1>1, Statements
    <3>2. at[b].file = 3 /\ at[b].line # Len(Scripts[at[b].file])
      BY <2>2, <3>1
    <3>3. Len(Scripts[3]) = 5
      BY ScriptLines
    <3> HIDE DEF MigrationsInv
    <3> QED
      BY <1>1, <3>2, <3>3
  <2>4. InsideThird(at[b]) /\ columns = ColumnsBefore[at[b].line]
    BY <1>1, <2>1, <2>3 DEF Undisturbed, InsideThird
  <2> QED
    BY <1>1, <2>3, <2>4, Statements
<1>3. \A c \in Bootstraps : at'[c] = IF c = b THEN DuplicateColumn ELSE at[c]
  BY DEF MigrationsTypeOK
<1>4. DuplicateColumn \in [file : 0..4, line : 0..5]
  BY DEF DuplicateColumn, Place
<1>5. MigrationsTypeOK'
  BY <1>4 DEF MigrationsTypeOK
<1>6. Placed'
  BY <1>3 DEF Placed
<1>7. Passed'
  BY <1>3, Places DEF Passed, InsideThird
<1>8. MigrationsWhole' /\ Undisturbed'
  BY <1>2 DEF MigrationsWhole, Undisturbed
<1> QED
  BY <1>5, <1>6, <1>7, <1>8

LEMMA ExecuteInv ==
  ASSUME MigrationsInv, NEW b \in Bootstraps, Execute(b)
  PROVE  MigrationsInv'
<1> USE DEF MigrationsInv
<1>1. /\ at[b].file \in 1..3 /\ at[b].line \in 1..Len(Scripts[at[b].file]) /\ Inside(at[b])
      /\ UNCHANGED <<tables, stops, disturbed>>
  BY ScriptLines, Places DEF Execute, Inside, Placed, MigrationsTypeOK
<1>2. PICK f \in 1..3 : f = at[b].file
  BY <1>1
<1>3. PICK n \in 1..5 : n = Len(Scripts[f]) /\ (f = 3 => n = 5)
  BY <1>2, ScriptLines
<1>4. PICK k \in 1..n : k = at[b].line
  BY <1>1, <1>2, <1>3
<1>7. (f = 3 => n = 5) /\ (n # 5 => f # 3)
  BY <1>3
<1> DEFINE s == Scripts[f][k]
<1>5. CASE s \in columns
  BY <1>1, <1>2, <1>3, <1>4, <1>5, RaiseDuplicate DEF Execute
<1>6. CASE s \notin columns
  <2> DEFINE place == IF k < n THEN Place(f, k + 1) ELSE Place(f + 1, 0)
  <2>1. /\ columns' = columns \cup ({s} \cap NewColumns)
        /\ marks' = IF s = "record" THEN marks \cup {f} ELSE marks
        /\ at' = [at EXCEPT ![b] = place]
    BY <1>2, <1>3, <1>4, <1>6 DEF Execute
  <2>2. k < n \/ k = n
    OBVIOUS
  <2>3. \/ k < n /\ place.file = f /\ place.line = k + 1 /\ place = Place(f, k + 1)
        \/ k = n /\ place.file = f + 1 /\ place.line = 0 /\ place = Place(f + 1, 0)
    BY <2>2, Places
  <2> HIDE DEF place
  <2>4. place \in [file : 0..4, line : 0..5]
    <3>1. f + 1 \in 0..4 /\ f \in 0..4 /\ (k < n => k + 1 \in 0..5) /\ 0 \in 0..5
      OBVIOUS
    <3> QED
      BY <2>3, <3>1 DEF Place
  <2>5. \A c \in Bootstraps : at'[c] = IF c = b THEN place ELSE at[c]
    BY <2>1 DEF MigrationsTypeOK
  <2>6. s = "record" <=> k = n
    BY <1>1, <1>2, <1>3, <1>4, Statements
  <2>7. \A m \in 1..3 : m < f => m \in marks
    BY <1>1, <1>2, <1>3, <1>4 DEF Passed
  <2>8. tables
    BY <1>1, <1>2, <1>3, <1>4 DEF Passed
  <2>9. Placed'
    <3>1. place \in {Ready, Done, DuplicateColumn}
          \/ (place.file \in 1..3 /\ place.line \in 0..Len(Scripts[place.file]))
      <4>1. CASE k < n
        BY <1>3, <2>3, <4>1
      <4>2. CASE k = n /\ f = 3
        BY <2>3, <4>2, Places, ScriptLines DEF Done
      <4>3. CASE k = n /\ f # 3
        <5>1. place.file \in 2..3 /\ place.line = 0
          BY <2>3, <4>3
        <5> QED
          BY <5>1, ScriptLines
      <4> QED
        BY <2>2, <4>1, <4>2, <4>3
    <3> QED
      BY <2>5, <3>1 DEF Placed
  <2>10. MigrationsTypeOK'
    <3>1. marks' \subseteq 1..Len(Scripts) /\ columns' \subseteq NewColumns
      BY <1>1, <1>2, <1>3, <1>4, <2>1, ScriptLines DEF MigrationsTypeOK
    <3> QED
      BY <1>1, <1>2, <1>3, <1>4, <2>1, <2>4, <3>1 DEF MigrationsTypeOK
  <2>11. f = 3 => InsideThird(at[b]) /\ ColumnsBefore[k] \subseteq columns
    <3>1. f = 3 => InsideThird(at[b])
      BY <1>2, <1>4 DEF InsideThird
    <3> QED
      BY <1>4, <3>1 DEF Passed
  <2>12. f = 3 /\ k < 5 => ColumnsBefore[k + 1] = ColumnsBefore[k] \cup {s} /\ s \in NewColumns
    BY <1>1, <1>2, <1>3, <1>4, Statements
  <2>13. InsideThird(at'[b]) <=> f = 3 /\ k < 5
    <3>1. at'[b] = place
      BY <2>5
    <3>2. k < 5 /\ f = 3 => place.file = 3 /\ place.line > 0
      BY <1>7, <2>3
    <3>3. place.file = 3 /\ place.line > 0 => k < 5 /\ f = 3
      BY <1>7, <2>3
    <3> QED
      BY <3>1, <3>2, <3>3 DEF InsideThird
  <2>14. \A c \in Bootstraps : c # b => (InsideThird(at'[c]) <=> InsideThird(at[c])) /\ at'[c] = at[c]
    BY <2>5 DEF InsideThird
  <2>15. Passed'
    <3>1. \A m \in 1..3 : m < place.file => m \in marks'
      BY <1>1, <1>2, <1>3, <1>4, <2>1, <2>3, <2>6, <2>7
    <3>2. InsideThird(at'[b]) => ColumnsBefore[at'[b].line] \subseteq columns'
      <4>1. CASE f = 3 /\ k < 5
        <5>1. at'[b].line = k + 1
          BY <1>7, <2>3, <2>5, <4>1
        <5>2. ColumnsBefore[k + 1] \subseteq columns'
          BY <2>1, <2>11, <2>12, <4>1
        <5> QED
          BY <5>1, <5>2
      <4> QED
        BY <2>13, <4>1
    <3>3. columns \subseteq columns' /\ marks \subseteq marks'
      BY <2>1
    <3> QED
      BY <1>1, <1>2, <1>3, <1>4, <2>5, <2>8, <2>14, <3>1, <3>2, <3>3 DEF Passed
  <2>16. MigrationsWhole'
    <3>1. 3 \in marks' => columns' = NewColumns
      <4>1. CASE 3 \in marks
        BY <2>1, <4>1 DEF MigrationsWhole
      <4>2. CASE 3 \notin marks
        BY <1>7, <2>1, <2>2, <2>6, <2>11, <4>2, ColumnsByLine DEF MigrationsTypeOK
      <4> QED
        BY <4>1, <4>2
    <3>2. \A m \in marks' : 1..m \subseteq marks'
      <4>1. marks \subseteq 1..3
        BY ScriptLines DEF MigrationsTypeOK
      <4>2. ASSUME NEW m \in marks', NEW l \in 1..m PROVE l \in marks'
        <5>1. CASE m \in marks
          BY <2>1, <4>2, <5>1 DEF MigrationsWhole
        <5>2. CASE m \notin marks
          BY <1>1, <1>2, <1>3, <1>4, <2>1, <2>7, <4>2, <5>2
        <5> QED
          BY <5>1, <5>2
      <4> QED
        BY <4>2
    <3>3. place # DuplicateColumn
      BY <1>1, <1>2, <1>3, <1>4, <2>3, Places
    <3> QED
      BY <1>1, <1>2, <1>3, <1>4, <2>5, <2>8, <3>1, <3>2, <3>3 DEF MigrationsWhole
  <2>17. Undisturbed'
    <3>1. SUFFICES ASSUME ~disturbed PROVE Undisturbed'
      BY <1>1, <1>2, <1>3, <1>4 DEF Undisturbed
    <3>2. CASE f # 3
      <4>1. columns' = columns /\ (3 \in marks' <=> 3 \in marks)
        BY <1>1, <1>2, <1>3, <1>4, <2>1, <3>2, Statements
      <4>2. \A c \in Bootstraps : InsideThird(at'[c]) => InsideThird(at[c]) /\ at'[c] = at[c]
        BY <2>13, <2>14, <3>2
      <4>3. \A c \in Bootstraps : InsideThird(at[c]) => InsideThird(at'[c])
        <5>1. ~InsideThird(at[b])
          BY <1>2, <3>2 DEF InsideThird
        <5> QED
          BY <2>14, <5>1
      <4> QED
        BY <3>1, <4>1, <4>2, <4>3 DEF Undisturbed
    <3>3. CASE f = 3
      <4>1. /\ 3 \notin marks /\ columns = ColumnsBefore[k]
            /\ \A c \in Bootstraps : InsideThird(at[c]) => c = b
        BY <1>4, <2>11, <3>1, <3>3 DEF Undisturbed
      <4>2. \A c \in Bootstraps : InsideThird(at'[c]) => c = b
        BY <2>14, <4>1
      <4>3. CASE k < 5
        <5>1. 3 \notin marks' /\ columns' = ColumnsBefore[k + 1] /\ at'[b].line = k + 1
          <6>1. at'[b].line = k + 1
            BY <1>7, <2>3, <2>5, <3>3, <4>3
          <6>2. s # "record"
            BY <1>7, <2>2, <2>6, <3>3, <4>3
          <6>3. columns' = ColumnsBefore[k] \cup {s} /\ s \in NewColumns
            BY <2>1, <2>12, <3>3, <4>1, <4>3
          <6> QED
            BY <2>1, <2>12, <3>3, <4>1, <4>3, <6>1, <6>2, <6>3
        <5> QED
          BY <2>13, <3>3, <4>2, <4>3, <5>1 DEF Undisturbed
      <4>4. CASE k = 5
        <5>1. 3 \in marks' /\ ~InsideThird(at'[b])
          BY <2>1, <2>2, <2>6, <2>13, <3>3, <4>4
        <5> QED
          BY <4>2, <5>1 DEF Undisturbed
      <4> QED
        <5>1. k < 5 \/ k = 5
          BY <2>2, <3>3
        <5> QED
          BY <4>3, <4>4, <5>1
    <3> QED
      BY <3>2, <3>3
  <2> QED
    BY <2>9, <2>10, <2>15, <2>16, <2>17
<1> QED
  BY <1>5, <1>6

LEMMA MigrateInv == ASSUME MigrationsInv, Migrate PROVE MigrationsInv'
<1>1. ASSUME NEW b \in Bootstraps, ApplySchema(b) PROVE MigrationsInv'
  <2> DEFINE place == Place(1, 0)
  <2>1. place \in [file : 0..4, line : 0..5] /\ place.file = 1 /\ place.line = 0
    BY DEF Place
  <2>2. ~InsideThird(at[b])
    BY <1>1, Places DEF ApplySchema, InsideThird
  <2>3. /\ at' = [at EXCEPT ![b] = place] /\ tables' = TRUE
        /\ UNCHANGED <<columns, marks, stops, disturbed>>
    BY <1>1 DEF ApplySchema
  <2>4. MigrationsInv /\ stops' \in 0..MaxStops /\ disturbed' \in BOOLEAN
    BY <2>3 DEF MigrationsInv, MigrationsTypeOK
  <2>5. /\ tables => tables' /\ tables' \in BOOLEAN /\ (disturbed => disturbed')
        /\ UNCHANGED <<columns, marks>>
    BY <2>3
  <2>6. /\ \A m \in 1..3 : m < place.file => m \in marks
        /\ place \in {Ready, Done} \/ (place.file \in 1..3 /\ place.line = 0)
        /\ InsideThird(at[b]) => disturbed'
    BY <2>1, <2>2
  <2> HIDE DEF place
  <2> QED
    BY <2>1, <2>3, <2>4, <2>5, <2>6, MoveInv
<1>2. ASSUME NEW b \in Bootstraps, Stop(b) \/ RunAgain(b) PROVE MigrationsInv'
  <2>1. /\ at' = [at EXCEPT ![b] = Ready] /\ UNCHANGED <<tables, columns, marks>>
        /\ (disturbed => disturbed') /\ disturbed' \in BOOLEAN
        /\ stops' \in 0..MaxStops
    <3>1. CASE Stop(b)
      BY <3>1, MigrationsAssumption DEF Stop, MigrationsInv, MigrationsTypeOK
    <3>2. CASE RunAgain(b)
      BY <3>2 DEF RunAgain, MigrationsInv, MigrationsTypeOK
    <3> QED
      BY <1>2, <3>1, <3>2
  <2>2. InsideThird(at[b]) => disturbed'
    <3>1. CASE Stop(b)
      BY <3>1 DEF Stop
    <3>2. CASE RunAgain(b)
      <4>1. at[b].file \in {0, 4}
        BY <3>2, Places DEF RunAgain
      <4> QED
        BY <4>1 DEF InsideThird
    <3> QED
      BY <1>2, <3>1, <3>2
  <2> DEFINE place == Ready
  <2>3. place \in [file : 0..4, line : 0..5] /\ place.file = 0 /\ place \in {Ready, Done}
    BY DEF Ready, Place
  <2>4. MigrationsInv /\ (tables => tables') /\ tables' \in BOOLEAN
    BY <2>1 DEF MigrationsInv, MigrationsTypeOK
  <2>5. place.file # 0 => tables'
    BY <2>3
  <2>6. \A m \in 1..3 : m < place.file => m \in marks
    BY <2>3
  <2>7. at' = [at EXCEPT ![b] = place] /\ UNCHANGED <<columns, marks>>
    BY <2>1
  <2>8. stops' \in 0..MaxStops /\ disturbed' \in BOOLEAN /\ (disturbed => disturbed')
    BY <2>1
  <2>9. place \in {Ready, Done} \/ (place.file \in 1..3 /\ place.line = 0)
    BY <2>3
  <2> HIDE DEF place
  <2> QED
    BY <2>2, <2>3, <2>4, <2>5, <2>6, <2>7, <2>8, <2>9, MoveInv
<1> QED
  BY <1>1, <1>2, SelectInv, ExecuteInv DEF Migrate

-----------------------------------------------------------------------------
(* Backfill: the rows one has read keep the costs it has read or have those *)
(* another has committed since, and then those it has written or another.  *)

AsRead == \A f \in Backfills : step[f] \in {"read", "priced"} =>
            \A r \in DOMAIN read[f] : \/ costs[r] = read[f][r]
                                     \/ \E l \in crossed[f] : costs[r] = l[r]

BackfillInv == BackfillTypeOK /\ BackfillStands /\ AsRead /\ DOMAIN read = Backfills

LEMMA BackfillStart == BackfillInit => BackfillInv
<1> SUFFICES ASSUME BackfillInit PROVE BackfillInv
  OBVIOUS
<1>1. DOMAIN costs \subseteq Rows
  BY DEF BackfillInit
<1>2. \A f \in Backfills : step[f] = "idle" /\ DOMAIN read[f] = {}
  BY DEF BackfillInit, NoRows
<1>3. BackfillTypeOK
  BY <1>1, <1>2 DEF BackfillInit, BackfillTypeOK
<1>4. DOMAIN read = Backfills
  BY DEF BackfillInit
<1> QED
  BY <1>2, <1>3, <1>4 DEF BackfillInv, BackfillStands, AsRead

\* Of a backfill only its own steps and the commits of others matter.
LEMMA ReadInv ==
  ASSUME BackfillInv, NEW f \in Backfills, Read(f) PROVE BackfillInv'
<1> USE DEF BackfillInv
<1>1. \A o \in Backfills : o # f => /\ step'[o] = step[o] /\ read'[o] = read[o]
                                    /\ crossed'[o] = crossed[o] /\ prices'[o] = prices[o]
  BY DEF Read, BackfillTypeOK
<1>2. read'[f] = costs /\ costs' = costs /\ step'[f] \in {"read", "done"}
  BY DEF Read, BackfillTypeOK
<1>3. BackfillTypeOK'
  <2>1. step' \in [Backfills -> {"idle", "read", "priced", "committed", "done"}]
    BY DEF Read, BackfillTypeOK
  <2>2. crossed' \in [Backfills -> SUBSET Lists] /\ UNCHANGED <<costs, yaml, prices>>
    BY DEF Read, BackfillTypeOK
  <2>3. \A o \in Backfills : DOMAIN read'[o] \subseteq DOMAIN costs'
    BY <1>1, <1>2 DEF BackfillTypeOK
  <2> QED
    BY <2>1, <2>2, <2>3 DEF BackfillTypeOK
<1>4. BackfillStands'
  BY <1>1, <1>2 DEF BackfillStands
<1>5. AsRead'
  BY <1>1, <1>2 DEF AsRead
<1>6. (DOMAIN read = Backfills)'
  BY DEF Read
<1> QED
  BY <1>3, <1>4, <1>5, <1>6

LEMMA CommitInv ==
  ASSUME BackfillInv, NEW f \in Backfills, Commit(f) PROVE BackfillInv'
<1> USE DEF BackfillInv
<1>1. /\ step[f] = "priced" /\ step'[f] = "committed" /\ prices[f] \in Lists
      /\ UNCHANGED <<yaml, read, prices>> /\ DOMAIN costs' = DOMAIN costs
      /\ \A r \in DOMAIN costs :
           costs'[r] = IF r \in Stale(f) THEN prices[f][r] ELSE costs[r]
  BY DEF Commit, BackfillTypeOK
<1>2. \A o \in Backfills :
        /\ o # f => step'[o] = step[o]
        /\ crossed'[o] = IF o # f /\ step[o] \in {"read", "priced", "committed"}
                         THEN crossed[o] \cup {prices[f]} ELSE crossed[o]
  BY DEF Commit, Cross, Crossing, BackfillTypeOK
<1>3. BackfillTypeOK'
  <2>1. step' \in [Backfills -> {"idle", "read", "priced", "committed", "done"}]
    BY DEF Commit, BackfillTypeOK
  <2>2. crossed' \in [Backfills -> SUBSET Lists]
    BY <1>1 DEF Commit, Cross, BackfillTypeOK
  <2> QED
    BY <1>1, <2>1, <2>2 DEF BackfillTypeOK
<1>4. ASSUME NEW r \in DOMAIN read[f]
      PROVE  \E l \in {prices[f]} \cup crossed[f] : costs'[r] = l[r]
  <2>1. r \in DOMAIN costs
    BY DEF BackfillTypeOK
  <2>2. CASE r \in Stale(f)
    BY <1>1, <2>1, <2>2
  <2>3. CASE r \notin Stale(f)
    <3>1. costs'[r] = costs[r] /\ read[f][r] = prices[f][r]
      BY <1>1, <2>1, <2>3 DEF Stale
    <3>2. costs[r] = read[f][r] \/ \E l \in crossed[f] : costs[r] = l[r]
      BY <1>1 DEF AsRead
    <3> QED
      BY <3>1, <3>2
  <2> QED
    BY <2>2, <2>3
\* What the commit writes into the rows of another is of a list it has crossed.
<1>5. ASSUME NEW o \in Backfills, o # f, step[o] \in {"read", "priced", "committed"},
             NEW r \in DOMAIN read[o]
      PROVE  /\ costs'[r] = costs[r] \/ costs'[r] = prices[f][r]
             /\ crossed'[o] = crossed[o] \cup {prices[f]}
  BY <1>1, <1>2, <1>5 DEF BackfillTypeOK
<1>6. BackfillStands'
  <2>1. SUFFICES ASSUME NEW o \in Backfills, step'[o] = "committed", NEW r \in DOMAIN read[o]
                 PROVE  \E l \in {prices[o]} \cup crossed'[o] : costs'[r] = l[r]
    BY <1>1 DEF BackfillStands
  <2>2. CASE o = f
    BY <1>2, <1>4, <2>1, <2>2
  <2>3. CASE o # f
    <3>1. step[o] = "committed"
      BY <1>2, <2>1, <2>3
    <3>2. \E l \in {prices[o]} \cup crossed[o] : costs[r] = l[r]
      BY <2>1, <3>1 DEF BackfillStands
    <3> QED
      BY <1>5, <2>1, <2>3, <3>1, <3>2
  <2> QED
    BY <2>2, <2>3
<1>7. AsRead'
  <2>1. SUFFICES ASSUME NEW o \in Backfills, step'[o] \in {"read", "priced"},
                        NEW r \in DOMAIN read[o]
                 PROVE  costs'[r] = read[o][r] \/ \E l \in crossed'[o] : costs'[r] = l[r]
    BY <1>1 DEF AsRead
  <2>2. o # f /\ step[o] \in {"read", "priced"}
    BY <1>1, <1>2, <2>1
  <2>3. costs[r] = read[o][r] \/ \E l \in crossed[o] : costs[r] = l[r]
    BY <2>1, <2>2 DEF AsRead
  <2> QED
    BY <1>5, <2>1, <2>2, <2>3
<1> QED
  BY <1>1, <1>3, <1>6, <1>7

\* A step of a backfill that leaves the database and what it read alone.
LEMMA PassInv ==
  ASSUME BackfillInv, NEW f \in Backfills, LoadPrices(f) \/ Leave(f) \/ RunBackfillAgain(f)
  PROVE  BackfillInv'
<1> USE DEF BackfillInv
<1>1. UNCHANGED <<costs, yaml, read, crossed>>
  BY DEF LoadPrices, Leave, RunBackfillAgain
<1>2. \A o \in Backfills : o # f => step'[o] = step[o] /\ prices'[o] = prices[o]
  BY DEF LoadPrices, Leave, RunBackfillAgain, BackfillTypeOK
<1>3. /\ step'[f] \in {"priced", "done", "idle"}
      /\ step'[f] = "priced" => step[f] = "read"
  BY DEF LoadPrices, Leave, RunBackfillAgain, BackfillTypeOK
<1>4. BackfillTypeOK'
  <2>1. step' \in [Backfills -> {"idle", "read", "priced", "committed", "done"}]
    BY DEF LoadPrices, Leave, RunBackfillAgain, BackfillTypeOK
  <2>2. prices' \in [Backfills -> Lists]
    BY DEF LoadPrices, Leave, RunBackfillAgain, BackfillTypeOK
  <2> QED
    BY <1>1, <2>1, <2>2 DEF BackfillTypeOK
<1>5. BackfillStands' /\ AsRead'
  BY <1>1, <1>2, <1>3 DEF BackfillStands, AsRead
<1> QED
  BY <1>1, <1>4, <1>5

LEMMA RecordInv ==
  ASSUME BackfillInv, NEW r \in Rows, NEW l \in Lists, Record(r, l) PROVE BackfillInv'
<1> USE DEF BackfillInv
<1>1. /\ UNCHANGED <<yaml, step, read, prices, crossed>> /\ DOMAIN costs' = DOMAIN costs \cup {r}
      /\ \A x \in DOMAIN costs : costs'[x] = costs[x]
  BY DEF Record
<1>2. BackfillTypeOK'
  BY <1>1 DEF BackfillTypeOK
<1>3. BackfillStands' /\ AsRead'
  BY <1>1 DEF BackfillStands, AsRead, BackfillTypeOK
<1> QED
  BY <1>1, <1>2, <1>3

LEMMA RepriceInv == ASSUME BackfillInv, Reprice PROVE BackfillInv'
<1>1. ASSUME NEW l \in Lists, Edit(l) PROVE BackfillInv'
  BY <1>1 DEF Edit, BackfillInv, BackfillTypeOK, BackfillStands, AsRead
<1>2. ASSUME NEW f \in Backfills, LoadPrices(f) \/ Leave(f) \/ RunBackfillAgain(f)
      PROVE  BackfillInv'
  BY <1>2, PassInv
<1> QED
  BY <1>1, <1>2, ReadInv, CommitInv, RecordInv DEF Reprice

-----------------------------------------------------------------------------
(* Release check: a check that is true says what it is about, every check of *)
(* a finished group is there, but for the one the validation may leave out. *)

GroupNames == {Groups[k] : k \in DOMAIN Groups}

\* The checks of a group, and the group of a check.
Names(g) == CASE g = "validation" -> {"validation", "benchmark_dsl"}
              [] g = "telemetry" -> TelemetryChecks
              [] g = "provenance" -> ProvenanceChecks \cup {"decision_provenance"}
              [] g = "isolation" -> IsolationChecks
              [] OTHER -> {g}
Owner(n) == CASE n = "benchmark_dsl" -> "validation"
              [] n \in TelemetryChecks -> "telemetry"
              [] n \in ProvenanceChecks \cup {"decision_provenance"} -> "provenance"
              [] n \in IsolationChecks -> "isolation"
              [] OTHER -> n

\* What a check is about, if it is true.
Meant(n) == /\ n \in Faulty => n \notin faults \/ (n = "unit_tests" /\ world.nested)
            /\ n = "validation" => "benchmark_dsl" \notin faults
            /\ n = "evaluation_integrity" => IntegrityHolds(world.report)

Watched == LET n == "evaluator_subprocess_isolation"
           IN  n \in DOMAIN checks /\ checks[n] => probed

ReleaseInv ==
  /\ faults \subseteq Faulty /\ raising \subseteq GroupNames
  /\ world.report \in Reports /\ (world.noDatabase => "database_integrity" \notin faults)
  /\ group \in 1..11 /\ outcome \in {"none", "ready", "strictly ready", "failed", "exception"}
  /\ DOMAIN checks \subseteq AllChecks
  /\ \A k \in 1..10 : k < group => Names(Groups[k]) \ {"benchmark_dsl"} \subseteq DOMAIN checks
  /\ \A n \in DOMAIN checks : checks[n] => Owner(n) \notin raising /\ Meant(n)
  /\ probed \in BOOLEAN /\ Watched
  /\ outcome \in {"ready", "strictly ready", "failed"} =>
       group = 11 /\ "benchmark_dsl" \in DOMAIN checks
  /\ outcome = "ready" => \A n \in Required : checks[n]
  /\ outcome = "strictly ready" => \A n \in DOMAIN checks : checks[n]

LEMMA GroupList ==
  /\ DOMAIN Groups = 1..10 /\ Len(Groups) = 10
  /\ Groups[1] = "compilation" /\ Groups[2] = "unit_tests" /\ Groups[3] = "validation"
  /\ Groups[4] = "database_integrity" /\ Groups[5] = "telemetry"
  /\ Groups[6] = "evaluation_integrity" /\ Groups[7] = "object_authorization"
  /\ Groups[8] = "provenance" /\ Groups[9] = "isolation" /\ Groups[10] = "git_clean"
BY DEF Groups

LEMMA GroupKinds ==
  \A g \in GroupNames :
    g \in {"compilation", "unit_tests", "validation", "database_integrity", "telemetry",
          "evaluation_integrity", "object_authorization", "provenance", "isolation", "git_clean"}
<1> TAKE g \in GroupNames
<1>1. PICK k \in 1..10 : g = Groups[k]
  BY GroupList DEF GroupNames
<1>2. k \in {1, 2, 3, 4, 5, 6, 7, 8, 9, 10}
  OBVIOUS
<1> QED
  BY <1>1, <1>2, GroupList

\* A check belongs to the group that makes it.
LEMMA Owners ==
  ASSUME NEW g \in GroupNames, NEW n \in Names(g)
  PROVE  Owner(n) = g /\ n \in AllChecks
<1>1. CASE g = "validation"
  BY <1>1 DEF Names, Owner, AllChecks, Required, TelemetryChecks, ProvenanceChecks, IsolationChecks
<1>2. CASE g = "telemetry"
  <2>1. n \in TelemetryChecks
    BY <1>2 DEF Names
  <2>2. n # "benchmark_dsl" /\ n \notin ProvenanceChecks \cup {"decision_provenance"}
        /\ n \notin IsolationChecks
    BY <2>1 DEF TelemetryChecks, ProvenanceChecks, IsolationChecks
  <2>3. Owner(n) = "telemetry"
    BY <2>1, <2>2 DEF Owner
  <2> QED
    BY <1>2, <2>1, <2>3 DEF AllChecks
<1>3. CASE g = "provenance"
  <2>1. n \in ProvenanceChecks \cup {"decision_provenance"}
    BY <1>3 DEF Names
  <2>2. n # "benchmark_dsl" /\ n \notin TelemetryChecks /\ n \notin IsolationChecks
    BY <2>1 DEF TelemetryChecks, ProvenanceChecks, IsolationChecks
  <2>3. Owner(n) = "provenance"
    BY <2>1, <2>2 DEF Owner
  <2> QED
    BY <1>3, <2>1, <2>3 DEF AllChecks
<1>4. CASE g = "isolation"
  BY <1>4 DEF Names, Owner, AllChecks, TelemetryChecks, ProvenanceChecks, IsolationChecks
<1>5. CASE g \in {"compilation", "unit_tests", "database_integrity", "evaluation_integrity",
                 "object_authorization", "git_clean"}
  <2>1. n = g
    BY <1>5 DEF Names
  <2> QED
    BY <1>5, <2>1
    DEF Owner, AllChecks, Required, TelemetryChecks, ProvenanceChecks, IsolationChecks
<1> QED
  BY <1>1, <1>2, <1>3, <1>4, <1>5, GroupKinds

\* Every check there can be is one of some group's.
LEMMA EveryCheck == \A n \in AllChecks : \E g \in GroupNames : n \in Names(g)
<1> TAKE n \in AllChecks
<1>1. \A k \in 1..10 : Groups[k] \in GroupNames
  BY GroupList DEF GroupNames
<1>2. CASE n \in TelemetryChecks
  BY <1>1, <1>2, GroupList DEF Names
<1>3. CASE n \in ProvenanceChecks \cup {"decision_provenance"}
  BY <1>1, <1>3, GroupList DEF Names
<1>4. CASE n \in IsolationChecks
  BY <1>1, <1>4, GroupList DEF Names
<1>5. CASE n \in {"validation", "benchmark_dsl"}
  BY <1>1, <1>5, GroupList DEF Names
<1>6. CASE n \in {"compilation", "unit_tests", "database_integrity", "git_clean",
                 "evaluation_integrity", "object_authorization"}
  <2>1. n \in GroupNames
    BY <1>1, <1>6, GroupList
  <2>2. Names(n) = {n}
    BY <1>6 DEF Names
  <2> QED
    BY <2>1, <2>2
<1> QED
  BY <1>2, <1>3, <1>4, <1>5, <1>6 DEF AllChecks, Required

LEMMA ReleaseStart == ReleaseInit => ReleaseInv
<1> SUFFICES ASSUME ReleaseInit PROVE ReleaseInv
  OBVIOUS
<1>1. ASSUME NEW n, NEW S PROVE \A T \in UpTo(n, S) : T \subseteq S
  BY DEF UpTo, kSubset
<1>2. faults \subseteq Faulty /\ raising \subseteq GroupNames
  BY <1>1 DEF ReleaseInit, GroupNames
<1>3. world.report \in Reports /\ (world.noDatabase => "database_integrity" \notin faults)
  BY DEF ReleaseInit
<1>4. group = 1 /\ DOMAIN checks = {} /\ outcome = "none"
  BY DEF ReleaseInit
<1>5. probed \in BOOLEAN
  BY DEF ReleaseInit
<1>6. Watched
  BY <1>4 DEF Watched
<1> QED
  BY <1>2, <1>3, <1>4, <1>5, <1>6 DEF ReleaseInv

\* What one group adds to the results.
LEMMA Added ==
  ASSUME ReleaseInv, NEW g \in GroupNames, NEW lateProbe \in BOOLEAN, NEW lateLeak \in BOOLEAN,
         NEW new,
         new = IF g \in raising THEN ResultsIfRaised(g) ELSE ResultsOf(g, lateProbe, lateLeak)
  PROVE  /\ DOMAIN new \subseteq Names(g) /\ Names(g) \ {"benchmark_dsl"} \subseteq DOMAIN new
         /\ \A n \in DOMAIN new : new[n] => g \notin raising /\ Meant(n)
<1>1. CASE g \in raising
  <2>1. PICK S : new = [n \in S |-> FALSE] /\ S \subseteq Names(g)
                 /\ Names(g) \ {"benchmark_dsl"} \subseteq S
    <3> DEFINE S == IF g = "validation" THEN {"validation"} ELSE Names(g)
    <3>1. new = [n \in S |-> FALSE]
      <4>1. CASE g = "validation"
        BY <1>1, <4>1 DEF ResultsIfRaised, FalseEach
      <4>2. CASE g = "telemetry"
        BY <1>1, <4>2 DEF ResultsIfRaised, FalseEach, Names
      <4>3. CASE g = "provenance"
        BY <1>1, <4>3 DEF ResultsIfRaised, FalseEach, Names
      <4>4. CASE g = "isolation"
        BY <1>1, <4>4 DEF ResultsIfRaised, FalseEach, Names
      <4>5. CASE g \notin {"validation", "telemetry", "provenance", "isolation"}
        BY <1>1, <4>5 DEF ResultsIfRaised, FalseEach, Names
      <4> QED
        BY <4>1, <4>2, <4>3, <4>4, <4>5
    <3>2. S \subseteq Names(g) /\ Names(g) \ {"benchmark_dsl"} \subseteq S
      BY DEF Names
    <3> HIDE DEF S
    <3> QED
      BY <3>1, <3>2
  <2> QED
    BY <2>1
<1>2. CASE g \notin raising
  <2>1. new = ResultsOf(g, lateProbe, lateLeak)
    BY <1>2
  <2>2. SUFFICES DOMAIN new = Names(g) /\ \A n \in Names(g) : new[n] => Meant(n)
    BY <1>2
  <2>3. CASE g = "validation"
    <3>1. new = [n \in {"validation", "benchmark_dsl"} |->
                   Sound("benchmark_dsl") /\ (n = "validation" => Sound("validation"))]
      BY <2>1, <2>3 DEF ResultsOf
    <3>2. Names(g) = {"validation", "benchmark_dsl"}
      BY <2>3 DEF Names
    <3> QED
      BY <3>1, <3>2 DEF Meant, Sound
  <2>4. CASE g = "telemetry"
    <3>1. new = [n \in TelemetryChecks |-> Sound(n)]
      BY <2>1, <2>4 DEF ResultsOf, SoundEach
    <3>2. Names(g) = TelemetryChecks /\ "evaluation_integrity" \notin TelemetryChecks
          /\ "validation" \notin TelemetryChecks
      BY <2>4 DEF Names, TelemetryChecks
    <3> QED
      BY <3>1, <3>2 DEF Meant, Sound
  <2>5. CASE g = "provenance"
    <3>1. new = [n \in ProvenanceChecks \cup {"decision_provenance"} |->
                   IF n = "decision_provenance" THEN \A m \in ProvenanceChecks : Sound(m)
                   ELSE Sound(n)]
      BY <2>1, <2>5 DEF ResultsOf
    <3>2. Names(g) = ProvenanceChecks \cup {"decision_provenance"}
      BY <2>5 DEF Names
    <3>3. "evaluation_integrity" \notin ProvenanceChecks \cup {"decision_provenance"}
          /\ "decision_provenance" \notin Faulty
          /\ "validation" \notin ProvenanceChecks \cup {"decision_provenance"}
      BY DEF ProvenanceChecks, Faulty, Required, TelemetryChecks
    <3> QED
      BY <3>1, <3>2, <3>3 DEF Meant, Sound
  <2>6. CASE g = "isolation"
    <3>1. DOMAIN new = IsolationChecks
      BY <2>1, <2>6 DEF ResultsOf, IsolationResults
    <3>2. Names(g) = IsolationChecks
      BY <2>6 DEF Names
    <3>3. \A n \in IsolationChecks : n \notin Faulty /\ n # "evaluation_integrity" /\ n # "validation"
      BY DEF IsolationChecks, Faulty, Required, TelemetryChecks, ProvenanceChecks
    <3> QED
      BY <3>1, <3>2, <3>3 DEF Meant
  <2>7. CASE g = "evaluation_integrity"
    <3>1. new = [n \in {g} |-> IntegrityHolds(world.report)]
      BY <2>1, <2>7 DEF ResultsOf, Only
    <3>2. Names(g) = {g} /\ g \notin Faulty
      BY <2>7 DEF Names, Faulty, Required, TelemetryChecks, ProvenanceChecks
    <3> QED
      BY <2>7, <3>1, <3>2 DEF Meant
  <2>8. CASE g = "object_authorization"
    <3>1. DOMAIN new = {g}
      BY <2>1, <2>8 DEF ResultsOf, Only
    <3>2. Names(g) = {g} /\ g \notin Faulty
      BY <2>8 DEF Names, Faulty, Required, TelemetryChecks, ProvenanceChecks
    <3> QED
      BY <2>8, <3>1, <3>2 DEF Meant
  <2>9. CASE g \in {"unit_tests", "database_integrity", "compilation", "git_clean"}
    <3>1. Names(g) = {g} /\ g # "evaluation_integrity" /\ g # "validation"
      BY <2>9 DEF Names
    <3>2. /\ DOMAIN new = {g}
          /\ new[g] => \/ g = "unit_tests" /\ world.nested
                       \/ g = "database_integrity" /\ world.noDatabase
                       \/ Sound(g)
      <4>1. CASE g = "unit_tests"
        BY <2>1, <4>1 DEF ResultsOf, Only
      <4>2. CASE g = "database_integrity"
        BY <2>1, <4>2 DEF ResultsOf, Only
      <4>3. CASE g \in {"compilation", "git_clean"}
        BY <2>1, <4>3 DEF ResultsOf, Only
      <4> QED
        BY <2>9, <4>1, <4>2, <4>3
    <3> QED
      BY <3>1, <3>2 DEF Meant, Sound, ReleaseInv
  <2> QED
    BY <2>3, <2>4, <2>5, <2>6, <2>7, <2>8, <2>9, GroupKinds
<1> QED
  BY <1>1, <1>2

LEMMA CheckInv ==
  ASSUME ReleaseInv, NEW lateProbe \in BOOLEAN, NEW lateLeak \in BOOLEAN,
         Check(lateProbe, lateLeak)
  PROVE  ReleaseInv'
<1> DEFINE g == Groups[group]
           new == IF g \in raising THEN ResultsIfRaised(g) ELSE ResultsOf(g, lateProbe, lateLeak)
<1>1. /\ group \in 1..10 /\ group' = group + 1 /\ UNCHANGED <<faults, raising, world, outcome>>
      /\ DOMAIN checks' = DOMAIN checks \cup DOMAIN new
      /\ \A n \in DOMAIN checks' : checks'[n] = IF n \in DOMAIN new THEN new[n] ELSE checks[n]
  <2>1. /\ group <= Len(Groups) /\ group' = group + 1
        /\ UNCHANGED <<faults, raising, world, outcome>>
        /\ checks' = [n \in DOMAIN checks \cup DOMAIN new |->
                        IF n \in DOMAIN new THEN new[n] ELSE checks[n]]
    BY DEF Check
  <2>2. group \in 1..10
    <3>1. group \in 1..11
      BY DEF ReleaseInv
    <3>2. group <= 10
      BY <2>1, GroupList
    <3> QED
      BY <3>1, <3>2
  <2> HIDE DEF new
  <2> QED
    BY <2>1, <2>2
<1>2. g \in GroupNames
  BY <1>1, GroupList DEF GroupNames
<1>3. /\ DOMAIN new \subseteq Names(g) /\ Names(g) \ {"benchmark_dsl"} \subseteq DOMAIN new
      /\ \A n \in DOMAIN new : new[n] => g \notin raising /\ Meant(n)
  BY <1>2, Added
<1>4. \A n \in DOMAIN new : Owner(n) = g /\ n \in AllChecks
  BY <1>2, <1>3, Owners
<1> HIDE DEF new
<1>5. outcome \notin {"ready", "strictly ready", "failed"}
  <2>1. group # 11
    BY <1>1
  <2> QED
    BY <2>1 DEF ReleaseInv
<1>6. \A k \in 1..10 : k < group' => Names(Groups[k]) \ {"benchmark_dsl"} \subseteq DOMAIN checks'
  <2> SUFFICES ASSUME NEW k \in 1..10, k < group'
               PROVE  Names(Groups[k]) \ {"benchmark_dsl"} \subseteq DOMAIN checks'
    OBVIOUS
  <2>1. CASE k < group
    <3>1. Names(Groups[k]) \ {"benchmark_dsl"} \subseteq DOMAIN checks
      BY <2>1 DEF ReleaseInv
    <3> QED
      BY <1>1, <3>1
  <2>2. CASE k = group
    BY <1>1, <1>3, <2>2
  <2> QED
    BY <1>1, <2>1, <2>2
<1>7. \A n \in DOMAIN checks' : checks'[n] => Owner(n) \notin raising /\ Meant(n)
  BY <1>1, <1>3, <1>4 DEF ReleaseInv
<1>8. DOMAIN checks' \subseteq AllChecks
  BY <1>1, <1>4 DEF ReleaseInv
<1>9. (\A n \in DOMAIN checks : checks[n] => Owner(n) \notin raising /\ Meant(n))'
  BY <1>1, <1>7 DEF Meant
<1>10. group' \in 1..11 /\ outcome' \in {"none", "exception"}
  <2>1. group' \in 1..11
    BY <1>1
  <2>2. outcome' = outcome
    BY <1>1
  <2> QED
    BY <1>5, <2>1, <2>2 DEF ReleaseInv
<1>11. /\ faults' \subseteq Faulty /\ raising' \subseteq GroupNames
       /\ world'.report \in Reports /\ (world'.noDatabase => "database_integrity" \notin faults')
  BY <1>1 DEF ReleaseInv
<1>12. probed' \in BOOLEAN /\ (probed => probed')
  BY DEF Check, ReleaseInv
<1>13. Watched'
  <2> DEFINE n == "evaluator_subprocess_isolation"
  <2>1. Owner(n) = "isolation"
    BY DEF Owner, TelemetryChecks, ProvenanceChecks, IsolationChecks
  <2>2. CASE n \notin DOMAIN new
    BY <1>1, <1>12, <2>2 DEF Watched, ReleaseInv
  <2>3. CASE n \in DOMAIN new
    <3>1. g = "isolation"
      BY <1>4, <2>1, <2>3
    <3>2. CASE g \in raising
      BY <1>1, <1>3, <2>3, <3>2 DEF Watched
    <3>3. CASE g \notin raising
      <4>1. new = IsolationResults(lateProbe, lateLeak)
        BY <3>1, <3>3 DEF ResultsOf, new
      <4>2. new[n] = (Probe(Scrub(world.env), lateProbe) = "result")
        BY <4>1 DEF IsolationResults, IsolationChecks
      <4>3. Probe(Scrub(world.env), lateProbe) = "result" => probed'
        BY <3>1, <3>3 DEF Check
      <4> QED
        BY <1>1, <2>3, <4>2, <4>3 DEF Watched
    <3> QED
      BY <3>2, <3>3
  <2> QED
    BY <2>2, <2>3
<1> QED
  BY <1>6, <1>8, <1>9, <1>10, <1>11, <1>12, <1>13 DEF ReleaseInv

LEMMA EndInv ==
  ASSUME ReleaseInv, GitRaises \/ \E strict \in BOOLEAN : Conclude(strict)
  PROVE  ReleaseInv'
<1>1. UNCHANGED <<faults, raising, world, group, checks, probed>> /\ outcome = "none"
  BY DEF GitRaises, Conclude
<1>2. \A n : Meant(n)' <=> Meant(n)
  BY <1>1 DEF Meant
<1>3. CASE GitRaises
  <2>1. outcome' = "exception"
    BY <1>3 DEF GitRaises
  <2>2. Watched' /\ probed' \in BOOLEAN
    BY <1>1 DEF ReleaseInv, Watched
  <2> QED
    BY <1>1, <1>2, <2>1, <2>2 DEF ReleaseInv
<1>4. ASSUME NEW strict \in BOOLEAN, Conclude(strict) PROVE ReleaseInv'
  <2>1. group = 11
    <3>1. group > 10 /\ group \in 1..11
      BY <1>4, GroupList DEF Conclude, ReleaseInv
    <3> QED
      BY <3>1
  <2>2. /\ outcome' \in {"ready", "strictly ready", "failed", "exception"}
        /\ outcome' # "exception" => "benchmark_dsl" \in DOMAIN checks
        /\ outcome' = "ready" => \A n \in Required : checks[n]
        /\ outcome' = "strictly ready" => \A n \in DOMAIN checks : checks[n]
    BY <1>4 DEF Conclude
  <2> QED
    BY <1>1, <1>2, <2>1, <2>2 DEF ReleaseInv, Watched
<1> QED
  BY <1>3, <1>4

LEMMA GroupNumbers == \A k \in 1..10 : k < 11
OBVIOUS

\* With all groups done and the outcome found every check there is is there.
LEMMA Complete ==
  ASSUME ReleaseInv, outcome \in {"ready", "strictly ready", "failed"}
  PROVE  DOMAIN checks = AllChecks
<1>1. group = 11 /\ "benchmark_dsl" \in DOMAIN checks
  BY DEF ReleaseInv
<1>2. ASSUME NEW n \in AllChecks PROVE n \in DOMAIN checks
  <2>1. PICK k \in 1..10 : n \in Names(Groups[k])
    BY EveryCheck, GroupList DEF GroupNames
  <2>2. Names(Groups[k]) \ {"benchmark_dsl"} \subseteq DOMAIN checks
    <3>1. group = 11
      BY <1>1
    <3>2. k < 11
      BY GroupNumbers
    <3>3. k < group
      BY <3>1, <3>2
    <3> QED
      BY <3>3 DEF ReleaseInv
  <2> QED
    BY <1>1, <2>1, <2>2
<1> QED
  BY <1>2 DEF ReleaseInv

\* The gate counts the failed cases, finds none, and meets no id twice.
LEMMA Resistance == ASSUME NEW r \in Reports, IntegrityHolds(r) PROVE Resisted(r)
<1> DEFINE lost == {k \in DOMAIN r.cases : r.cases[k].passed = FALSE}
<1>1. /\ r.cases \in Seq([id : STRING, passed : BOOLEAN]) /\ r.total \in Int
      /\ Len(r.cases) = r.total /\ r.total > 0
  BY ReleaseAssumption DEF IntegrityHolds, Countable
<1>2. /\ Len(r.cases) \in Nat /\ DOMAIN r.cases = 1..Len(r.cases)
      /\ \A k \in DOMAIN r.cases : r.cases[k].passed \in BOOLEAN
  <2>1. PICK cases \in Seq([id : STRING, passed : BOOLEAN]) : cases = r.cases
    BY <1>1
  <2>2. Len(cases) \in Nat /\ DOMAIN cases = 1..Len(cases)
    OBVIOUS
  <2>3. \A k \in 1..Len(cases) : cases[k] \in [id : STRING, passed : BOOLEAN]
    BY ElementOfSeq
  <2> QED
    BY <2>1, <2>2, <2>3
<1>3. IsFiniteSet(DOMAIN r.cases)
  BY <1>2, FS_Interval
<1>4. IsFiniteSet(lost)
  BY <1>3, FS_Subset
<1>5. Cardinality(lost) = 0
  BY DEF IntegrityHolds, Recounted, ScoreSuffices, Count
<1>6. lost = {}
  BY <1>4, <1>5, FS_EmptySet
<1>7. \A k \in DOMAIN r.cases : r.cases[k].passed
  BY <1>2, <1>6
<1>8. \A k, l \in DOMAIN r.cases : r.cases[k].id = r.cases[l].id => k = l
  BY <1>7 DEF IntegrityHolds, Distinct, NotAnObject
<1>9. r.cases # <<>>
  BY <1>1
<1> QED
  BY <1>7, <1>8, <1>9 DEF Resisted, IntegrityHolds

LEMMA Earned == ReleaseInv => ReadyIsEarned /\ ReleaseTypeOK
<1> SUFFICES ASSUME ReleaseInv PROVE ReadyIsEarned /\ ReleaseTypeOK
  OBVIOUS
<1>1. ReleaseTypeOK
  <2>1. group \in 1..Len(Groups) + 1
    <3>1. group \in 1..11
      BY DEF ReleaseInv
    <3>2. Len(Groups) + 1 = 11
      BY GroupList
    <3> QED
      BY <3>1, <3>2
  <2> QED
    BY <2>1, Complete DEF ReleaseTypeOK, ReleaseInv
<1>2. \A n \in DOMAIN checks : checks[n] => Owner(n) \notin raising /\ Meant(n)
  BY DEF ReleaseInv
<1>3. Required \cup {"benchmark_dsl"} \subseteq AllChecks /\ Faulty \subseteq AllChecks
      /\ "evaluation_integrity" \in AllChecks
  BY DEF AllChecks, Faulty, Required
<1>4. \A g \in Required : Owner(g) = g
  BY DEF Required, Owner, TelemetryChecks, ProvenanceChecks, IsolationChecks
<1>5. \A g \in GroupNames : \E n \in AllChecks : Owner(n) = g
  <2> SUFFICES ASSUME NEW g \in GroupNames PROVE \E n \in Names(g) : TRUE
    BY Owners
  <2> QED
    BY DEF Names, TelemetryChecks, IsolationChecks
<1>6. outcome = "ready" =>
        /\ faults \cap (Required \cup {"benchmark_dsl"})
             \subseteq IF world.nested THEN {"unit_tests"} ELSE {}
        /\ raising \cap Required = {}
  <2> SUFFICES ASSUME outcome = "ready"
               PROVE  /\ faults \cap (Required \cup {"benchmark_dsl"})
                           \subseteq IF world.nested THEN {"unit_tests"} ELSE {}
                      /\ raising \cap Required = {}
    OBVIOUS
  <2>1. DOMAIN checks = AllChecks /\ \A n \in Required : checks[n]
    BY Complete DEF ReleaseInv
  <2>2. \A n \in Required : n \notin raising /\ Meant(n)
    BY <1>2, <1>3, <1>4, <2>1
  <2>3. "validation" \in Required /\ Required \subseteq Faulty
    BY DEF Required, Faulty
  <2>4. "benchmark_dsl" \notin faults
    BY <2>2, <2>3 DEF Meant
  <2> QED
    BY <2>2, <2>3, <2>4 DEF Meant
<1>7. outcome = "strictly ready" =>
        /\ faults \subseteq IF world.nested THEN {"unit_tests"} ELSE {}
        /\ raising = {} /\ Resisted(world.report) /\ probed
  <2> SUFFICES ASSUME outcome = "strictly ready"
               PROVE  /\ faults \subseteq IF world.nested THEN {"unit_tests"} ELSE {}
                      /\ raising = {} /\ Resisted(world.report) /\ probed
    OBVIOUS
  <2>1. \A n \in AllChecks : checks[n] /\ Owner(n) \notin raising /\ Meant(n)
    BY <1>2, Complete DEF ReleaseInv
  <2>2. raising = {}
    BY <1>5, <2>1 DEF ReleaseInv
  <2>3. Resisted(world.report)
    BY <1>3, <2>1, Resistance DEF Meant, ReleaseInv
  <2>4. probed
    <3>1. "evaluator_subprocess_isolation" \in AllChecks
      BY DEF AllChecks, IsolationChecks
    <3> QED
      BY <2>1, <3>1, Complete DEF Watched, ReleaseInv
  <2>5. faults \subseteq IF world.nested THEN {"unit_tests"} ELSE {}
    BY <1>3, <2>1 DEF Meant, ReleaseInv
  <2> QED
    BY <2>2, <2>3, <2>4, <2>5
<1> QED
  BY <1>1, <1>6, <1>7 DEF ReadyIsEarned

-----------------------------------------------------------------------------
(* The three tools together *)

ToolsInv == /\ MigrationsInv /\ BackfillInv
            /\ tool \in {"bootstrap", "backfill", "release-check"}
            /\ IF tool = "release-check" THEN ReleaseInv ELSE ReleaseIdle

LEMMA Start == Init => ToolsInv
<1> SUFFICES ASSUME Init PROVE ToolsInv
  OBVIOUS
<1>1. MigrationsInv
  BY MigrationStart DEF Init
<1>2. BackfillInv
  BY BackfillStart DEF Init, BackfillIdle
<1>3. /\ tool \in {"bootstrap", "backfill", "release-check"}
      /\ IF tool = "release-check" THEN ReleaseInv ELSE ReleaseIdle
  BY ReleaseStart DEF Init
<1> QED
  BY <1>1, <1>2, <1>3 DEF ToolsInv

LEMMA Kept == ToolsInv /\ [Next]_vars => ToolsInv'
<1> SUFFICES ASSUME ToolsInv, [Next]_vars PROVE ToolsInv'
  OBVIOUS
<1>1. UNCHANGED migrationVars => MigrationsInv'
  BY DEF ToolsInv, migrationVars, MigrationsInv, MigrationsTypeOK, MigrationsWhole, Placed, Passed,
         Undisturbed
<1>2. UNCHANGED backfillVars => BackfillInv'
  BY DEF ToolsInv, backfillVars, BackfillInv, BackfillTypeOK, BackfillStands, AsRead
<1>3. UNCHANGED <<tool, releaseVars>> =>
        IF tool' = "release-check" THEN ReleaseInv' ELSE ReleaseIdle'
  <2> SUFFICES ASSUME UNCHANGED <<tool, releaseVars>>
               PROVE  IF tool' = "release-check" THEN ReleaseInv' ELSE ReleaseIdle'
    OBVIOUS
  <2>1. UNCHANGED <<faults, raising, world, group, checks, probed, outcome>> /\ tool' = tool
    BY DEF releaseVars
  <2>2. ReleaseIdle => ReleaseIdle'
    BY <2>1 DEF ReleaseIdle
  <2>3. ASSUME ReleaseInv PROVE ReleaseInv'
    <3>1. (\A n \in DOMAIN checks : checks[n] => Owner(n) \notin raising /\ Meant(n))'
      BY <2>1, <2>3 DEF ReleaseInv, Meant
    <3> QED
      BY <2>1, <2>3, <3>1 DEF ReleaseInv, Watched
  <2> QED
    BY <2>1, <2>2, <2>3 DEF ToolsInv
<1>4. CASE tool = "bootstrap" /\ Migrate /\ UNCHANGED <<tool, backfillVars, releaseVars>>
  BY <1>2, <1>3, <1>4, MigrateInv DEF ToolsInv
<1>5. CASE tool = "backfill" /\ Reprice /\ UNCHANGED <<tool, migrationVars, releaseVars>>
  BY <1>1, <1>3, <1>5, RepriceInv DEF ToolsInv
<1>6. CASE /\ tool = "release-check" /\ ReleaseStep
           /\ UNCHANGED <<tool, migrationVars, backfillVars>>
  <2>1. ReleaseInv'
    BY <1>6, CheckInv, EndInv DEF ReleaseStep, ToolsInv
  <2> QED
    BY <1>1, <1>2, <1>6, <2>1 DEF ToolsInv
<1>7. CASE UNCHANGED vars
  BY <1>1, <1>2, <1>3, <1>7 DEF ToolsInv, vars
<1> QED
  BY <1>4, <1>5, <1>6, <1>7 DEF Next, Over

LEMMA Invariance == Spec => []ToolsInv
<1> QED
  BY Start, Kept, PTL DEF Spec

\* However many processes there are, rows and faults, every variable of the
\* three tools holds a value of its type.
THEOREM ToolTypes == Spec => []TypeOK
<1>1. ReleaseIdle => ReleaseTypeOK
  <2> SUFFICES ASSUME ReleaseIdle PROVE ReleaseTypeOK
    OBVIOUS
  <2>1. probed \in BOOLEAN
    BY DEF ReleaseIdle
  <2>2. group \in 1..Len(Groups) + 1 /\ DOMAIN checks = {} /\ outcome = "none"
    BY GroupList DEF ReleaseIdle
  <2> QED
    BY <2>1, <2>2 DEF ReleaseTypeOK
<1>2. ToolsInv => TypeOK
  BY <1>1, Earned DEF ToolsInv, TypeOK, MigrationsInv, BackfillInv
<1> QED
  BY <1>2, Invariance, PTL

\* Bootstraps by any number of processes, stopped any number of times, record
\* only migrations that are there as a whole (apply_migrations of bootstrap.py).
THEOREM MigrationsStayWhole == Spec => []MigrationsWhole
<1>1. ToolsInv => MigrationsWhole
  BY DEF ToolsInv, MigrationsInv
<1> QED
  BY <1>1, Invariance, PTL

\* Rows a backfill has committed have its costs or those of another one that
\* has committed since its SELECT (backfill-costs of main.py), for any number of
\* backfills, whatever runs add and whoever edits models.yaml.
THEOREM BackfillsStand == Spec => []BackfillStands
<1>1. ToolsInv => BackfillStands
  BY DEF ToolsInv, BackfillInv
<1> QED
  BY <1>1, Invariance, PTL

\* Whatever is unsound, whichever groups raise and whatever the report holds,
\* release-check declares nothing ready that it has not found so.
THEOREM NothingReadyUnchecked == Spec => []ReadyIsEarned
<1>1. ReleaseIdle => ReadyIsEarned
  BY DEF ReleaseIdle, ReadyIsEarned
<1>2. ToolsInv => ReadyIsEarned
  BY <1>1, Earned DEF ToolsInv
<1> QED
  BY <1>2, Invariance, PTL
=============================================================================
