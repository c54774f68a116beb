----------------------- MODULE RunPersistence_proofs -----------------------
(***************************************************************************)
(* Theorems about RunPersistence, for any number of runs, results and ids. *)
(*                                                                         *)
(* The properties of the database follow from what holds of each row when  *)
(* it is committed: it is due, whatever precedes it is there, the keys     *)
(* admit it.  Since the statement checked that before the commit, the      *)
(* invariant must carry it across the lock (Pending): while a transaction  *)
(* is open no other commits.                                               *)
(***************************************************************************)
EXTENDS RunPersistence, FiniteSetTheorems, SumTheorems, TLAPS

Both == {"fixture", "manifest"}

\* Each committed row is due, and so is what precedes it in the database; its
\* run has left the export behind.
Placed == \A x \in db : /\ x.run \in Runs
                        /\ x \in Due(x.run)
                        /\ pc[x.run] \notin {"preparing", "exporting"}
                        /\ files[x.run] = Both
                        /\ \A y \in Due(x.run) : Precedes(y, x) => y \in db

\* The constraints of the schema.
Keyed == /\ \A x, y \in db :
              /\ x.kind = "execution" /\ y.kind = "execution"
              /\ x.id = y.id
              => x = y
         /\ \A x \in db : x.kind \in {"score", "verdict"} => Stored(x.id)

\* The only open transaction has a row the database may take at any moment.
Pending == \A r \in Runs : open[r] # None =>
             /\ open[r] \in Due(r)
             /\ \A y \in Due(r) : Precedes(y, open[r]) => y \in db
             /\ ~Violates(open[r])
             /\ \A q \in Runs : open[q] # None => q = r

\* What a run has told its caller, and what it has written before it persists.
Told == \A r \in Runs :
          /\ pc[r] = "persisting" => files[r] = Both
          /\ pc[r] = "returned" =>
               \A x \in db : x.run = r => reported[r] = FinalStatus(r)

\* A run that has not dispatched has no answers.
Blank == \A r \in Runs : pc[r] = "preparing" =>
           results[r] = [i \in Items |-> NoOutcome]

DbInv == TypeOK /\ Placed /\ Keyed /\ Pending /\ Told /\ Blank

-----------------------------------------------------------------------------
(* Rows *)

\* Stages are in the order the code writes them.
LEMMA StageOrder ==
  /\ Stage("run") = 1
  /\ Stage("execution") = 2
  /\ Stage("score") = 3
  /\ Stage("verdict") = 4
  /\ Stage("status") = 5
BY DEF Stage

\* The kinds and the runs of the rows a run is due to write.
LEMMA DueShape ==
  ASSUME NEW r \in Runs, NEW x \in Due(r)
  PROVE  /\ x.run = r
         /\ \/ x = RunRow(r)
            \/ x = StatusRow(r)
            \/ \E i \in WithId(r) : x = ExecutionRow(r, i)
            \/ \E i \in Scored(r) : x = ScoreRow(r, i)
            \/ \E i \in Answered(r) : x = VerdictRow(r, i)
BY DEF Due, RunRow, StatusRow, ExecutionRow, ScoreRow, VerdictRow, Row

\* Rows are of the type of rows.
LEMMA DueRows ==
  ASSUME results \in [Runs -> [Items -> Outcomes]], NEW r \in Runs
  PROVE  Due(r) \subseteq Rows
<1>1. \A i \in Items : results[r][i].id \in Ids \cup {NoId}
  BY DEF Outcomes
<1>2. 0 \in 0..PlanLength /\ Items \subseteq 0..PlanLength
  BY PersistenceAssumption DEF Items
<1>3. SUFFICES ASSUME NEW x \in Due(r) PROVE x \in Rows
  OBVIOUS
<1>4. CASE x = RunRow(r) \/ x = StatusRow(r)
  BY <1>2, <1>4 DEF RunRow, StatusRow, Row, Rows, Kinds
<1>5. CASE \E i \in WithId(r) : x = ExecutionRow(r, i)
  BY <1>1, <1>2, <1>5 DEF ExecutionRow, Row, Rows, Kinds, WithId, Answered
<1>6. CASE \E i \in Scored(r) : x = ScoreRow(r, i)
  BY <1>1, <1>2, <1>6 DEF ScoreRow, Row, Rows, Kinds, Scored, Answered
<1>7. CASE \E i \in Answered(r) : x = VerdictRow(r, i)
  BY <1>1, <1>2, <1>7 DEF VerdictRow, Row, Rows, Kinds, Answered
<1> QED
  BY <1>4, <1>5, <1>6, <1>7, DueShape

\* The members of the rows.
LEMMA RowMembers ==
  ASSUME NEW r, NEW i
  PROVE  /\ RunRow(r).kind = "run" /\ StatusRow(r).kind = "status"
         /\ ExecutionRow(r, i).kind = "execution"
         /\ ScoreRow(r, i).kind = "score"
         /\ VerdictRow(r, i).kind = "verdict"
         /\ ExecutionRow(r, i).id = results[r][i].id
         /\ ScoreRow(r, i).id = results[r][i].id
         /\ i \in Scored(r) => VerdictRow(r, i).id = results[r][i].id
         /\ i \notin Scored(r) => VerdictRow(r, i).id = NoId
         /\ ExecutionRow(r, i).item = i
         /\ ScoreRow(r, i).item = i
         /\ VerdictRow(r, i).item = i
BY DEF RunRow, StatusRow, ExecutionRow, ScoreRow, VerdictRow, Row

\* A due execution, score or verdict is that of its item.
LEMMA DueByKind ==
  ASSUME NEW r \in Runs, NEW x \in Due(r)
  PROVE  /\ x.kind = "execution" => x.item \in WithId(r) /\ x = ExecutionRow(r, x.item)
         /\ x.kind = "score" => x.item \in Scored(r) /\ x = ScoreRow(r, x.item)
         /\ x.kind = "verdict" => x.item \in Answered(r) /\ x = VerdictRow(r, x.item)
         /\ x.kind = "status" => x = StatusRow(r)
BY DueShape, RowMembers

\* An earlier stage precedes a later one, row by row.
LEMMA Stages ==
  ASSUME NEW x, NEW y,
         \/ x.kind = "run" /\ y.kind \in {"execution", "score", "verdict", "status"}
         \/ x.kind = "execution" /\ y.kind \in {"score", "verdict", "status"}
         \/ x.kind = "score" /\ y.kind \in {"verdict", "status"}
         \/ x.kind = "verdict" /\ y.kind = "status"
  PROVE  Precedes(x, y)
BY StageOrder DEF Precedes

\* A stored id is the id of an answer, and not empty.
LEMMA StoredIds ==
  ASSUME Placed, NEW id, Stored(id)
  PROVE  id # NoId
<1>1. PICK x \in db : x.kind = "execution" /\ x.id = id
  BY DEF Stored
<1>2. x.run \in Runs /\ x \in Due(x.run)
  BY DEF Placed
<1>3. x.item \in WithId(x.run) /\ x = ExecutionRow(x.run, x.item)
  BY <1>1, <1>2, DueByKind
<1> QED
  BY <1>1, <1>3, RowMembers DEF WithId

-----------------------------------------------------------------------------
(* What the invariant implies *)

LEMMA InvWhole == ASSUME DbInv PROVE CompletedRunIsWhole
<1> USE DEF DbInv
<1> SUFFICES ASSUME NEW r \in Runs, StatusRow(r) \in db
             PROVE  /\ files[r] = Both
                    /\ \A i \in Answered(r) :
                         /\ results[r][i].id # NoId
                         /\ {ExecutionRow(r, i), ScoreRow(r, i), VerdictRow(r, i)}
                              \subseteq db
  BY DEF CompletedRunIsWhole, Both
<1>1. StatusRow(r).run = r
  BY DEF StatusRow, Row
<1>2. files[r] = Both /\ \A y \in Due(r) : Precedes(y, StatusRow(r)) => y \in db
  BY <1>1 DEF Placed
<1>3. ASSUME NEW i \in Answered(r)
      PROVE  /\ results[r][i].id # NoId
             /\ {ExecutionRow(r, i), ScoreRow(r, i), VerdictRow(r, i)} \subseteq db
  <2>1. VerdictRow(r, i) \in Due(r)
    BY DEF Due
  <2>2. VerdictRow(r, i) \in db
    BY <1>2, <2>1, Stages, RowMembers
  <2>3. Stored(VerdictRow(r, i).id)
    BY <2>2, RowMembers DEF Keyed
  <2>4. VerdictRow(r, i).id # NoId
    BY <2>3, StoredIds
  <2>5. i \in Scored(r) /\ results[r][i].id # NoId
    BY <2>4, RowMembers
  <2>6. ScoreRow(r, i) \in Due(r) /\ ExecutionRow(r, i) \in Due(r)
    BY <2>5 DEF Due, WithId
  <2>7. ScoreRow(r, i) \in db /\ ExecutionRow(r, i) \in db
    BY <1>2, <2>6, Stages, RowMembers
  <2> QED
    BY <2>2, <2>5, <2>7
<1> QED
  BY <1>2, <1>3

LEMMA InvStages == ASSUME DbInv PROVE StagesVisible
<1> USE DEF DbInv
<1> SUFFICES ASSUME NEW x \in db
             PROVE  /\ RunRow(x.run) \in db
                    /\ x.kind \in {"score", "verdict"} =>
                         \A i \in WithId(x.run) : ExecutionRow(x.run, i) \in db
                    /\ x.kind = "verdict" =>
                         \A i \in Scored(x.run) : ScoreRow(x.run, i) \in db
  BY DEF StagesVisible
<1>1. /\ x.run \in Runs /\ x \in Due(x.run)
      /\ \A y \in Due(x.run) : Precedes(y, x) => y \in db
  BY DEF Placed
<1>2. RunRow(x.run) \in db
  <2>1. x = RunRow(x.run) \/ x.kind \in {"execution", "score", "verdict", "status"}
    BY <1>1, DueShape, RowMembers
  <2>2. RunRow(x.run) \in Due(x.run)
    BY DEF Due
  <2> QED
    BY <1>1, <2>1, <2>2, Stages, RowMembers
<1>3. ASSUME x.kind \in {"score", "verdict"}, NEW i \in WithId(x.run)
      PROVE  ExecutionRow(x.run, i) \in db
  <2>1. ExecutionRow(x.run, i) \in Due(x.run)
    BY DEF Due
  <2> QED
    BY <1>1, <1>3, <2>1, Stages, RowMembers
<1>4. ASSUME x.kind = "verdict", NEW i \in Scored(x.run)
      PROVE  ScoreRow(x.run, i) \in db
  <2>1. ScoreRow(x.run, i) \in Due(x.run)
    BY DEF Due
  <2> QED
    BY <1>1, <1>4, <2>1, Stages, RowMembers
<1> QED
  BY <1>2, <1>3, <1>4

LEMMA InvFiled == ASSUME DbInv PROVE FiledUnderOwnAnswer
<1> USE DEF DbInv
<1> SUFFICES ASSUME NEW x \in db, x.kind \in {"score", "verdict"}
             PROVE  {y \in db : y.kind = "execution" /\ y.id = x.id}
                      = {Row(x.run, "execution", x.item, x.id)}
  BY DEF FiledUnderOwnAnswer
<1> DEFINE own == ExecutionRow(x.run, x.item)
<1>1. /\ x.run \in Runs /\ x \in Due(x.run)
      /\ \A y \in Due(x.run) : Precedes(y, x) => y \in db
  BY DEF Placed
<1>2. Stored(x.id) /\ x.id # NoId
  BY StoredIds DEF Keyed
<1>3. x.id = results[x.run][x.item].id /\ x.item \in WithId(x.run)
  BY <1>1, <1>2, DueByKind, RowMembers DEF WithId, Scored
<1>4. own \in Due(x.run) /\ own = Row(x.run, "execution", x.item, x.id)
  BY <1>3 DEF Due, ExecutionRow
<1>5. own.kind = "execution" /\ own.id = x.id
  BY <1>3, RowMembers
<1>6. own \in db
  BY <1>1, <1>4, <1>5, Stages
<1> HIDE DEF own
<1>7. \A y \in db : y.kind = "execution" /\ y.id = x.id => y = own
  BY <1>5, <1>6 DEF Keyed
<1> QED
  BY <1>4, <1>5, <1>6, <1>7

LEMMA InvReport == ASSUME DbInv PROVE ReportAgrees
<1>1. \A r \in Runs : FinalStatus(r) # "failed"
  BY DEF FinalStatus
<1>2. \A r \in Runs : StatusRow(r).run = r
  BY DEF StatusRow, Row
<1> QED
  BY <1>1, <1>2 DEF ReportAgrees, DbInv, Told

-----------------------------------------------------------------------------
(* Steps *)

LEMMA InitInv == ASSUME Init PROVE DbInv
<1>1. TypeOK
  BY PersistenceAssumption DEF Init, TypeOK, NoOutcome, Outcomes
<1>2. Placed /\ Keyed /\ Pending /\ Told /\ Blank
  BY DEF Init, Placed, Keyed, Pending, Told, Blank
<1> QED
  BY <1>1, <1>2 DEF DbInv

LEMMA TypeStep == ASSUME TypeOK, [Next]_vars PROVE TypeOK'
<1> USE DEF TypeOK
<1>1. CASE UNCHANGED vars
  BY <1>1 DEF vars
<1>2. CASE AllOver
  BY <1>2 DEF AllOver, vars
<1>3. ASSUME NEW r \in Runs, Work(r) \/ DatabaseFails(r) \/ Crash(r)
      PROVE  TypeOK'
  <2>1. FinalStatus(r) \in Statuses
    BY DEF FinalStatus, Statuses
  <2>2. CASE Reject(r)
    BY <2>2 DEF Reject, Return, Goto, Statuses
  <2>3. CASE DryRun(r)
    BY <2>3 DEF DryRun, Return, Goto, Statuses
  <2>4. CASE DispatchAndScore(r)
    BY <2>4, PersistenceAssumption DEF DispatchAndScore, Goto
  <2>5. CASE WriteFixture(r)
    BY <2>5 DEF WriteFixture
  <2>6. CASE WriteManifest(r)
    BY <2>6 DEF WriteManifest, Goto
  <2>7. CASE ExportFails(r)
    BY <2>7 DEF ExportFails, Return, Goto, Statuses
  <2>8. CASE Execute(r)
    <3>1. Due(r) \subseteq Rows
      BY DueRows
    <3> QED
      BY <2>8, <3>1 DEF Execute, IsNext, Unwritten
  <2>9. CASE Commit(r)
    BY <2>9 DEF Commit
  <2>10. CASE Conflict(r)
    BY <2>1, <2>10 DEF Conflict, Abandon, Return, Goto
  <2>11. CASE DatabaseFails(r)
    BY <2>1, <2>11 DEF DatabaseFails, Abandon, Return, Goto
  <2>12. CASE Finish(r)
    BY <2>1, <2>12 DEF Finish, Return, Goto
  <2>13. CASE Crash(r)
    BY <2>13 DEF Crash
  <2> QED
    BY <1>3, <2>2, <2>3, <2>4, <2>5, <2>6, <2>7, <2>8, <2>9, <2>10, <2>11,
       <2>12, <2>13 DEF Work
<1> QED
  BY <1>1, <1>2, <1>3 DEF Next

\* As long as the results stand, so does what a run is due to write.
LEMMA SameDue ==
  ASSUME NEW r \in Runs, results'[r] = results[r]
  PROVE  Due(r)' = Due(r) /\ FinalStatus(r)' = FinalStatus(r)
<1>1. /\ Answered(r)' = Answered(r)
      /\ Scored(r)' = Scored(r)
      /\ WithId(r)' = WithId(r)
  BY DEF Answered, Scored, WithId
<1>2. Due(r)' = Due(r)
  BY <1>1 DEF Due, RunRow, StatusRow, ExecutionRow, ScoreRow, VerdictRow
<1> QED
  BY <1>1, <1>2 DEF FinalStatus, Errored

\* A run moves on, or stops, without a statement or a commit.
LEMMA QuietStep ==
  ASSUME DbInv, NEW r \in Runs,
         UNCHANGED <<results, db>>,
         pc' \in [Runs -> {"preparing", "exporting", "persisting", "returned", "dead"}],
         \A q \in Runs \ {r} : /\ pc'[q] = pc[q]
                               /\ files'[q] = files[q]
                               /\ reported'[q] = reported[q],
         open' = open \/ open' = [open EXCEPT ![r] = None],
         pc'[r] = "preparing" => pc[r] = "preparing",
         pc'[r] \in {"preparing", "exporting"} => pc[r] \in {"preparing", "exporting"},
         pc[r] \notin {"preparing", "exporting"} => files'[r] = files[r],
         pc'[r] = "persisting" => files'[r] = Both,
         pc'[r] = "returned" => \/ pc[r] \in {"preparing", "exporting"}
                                \/ reported'[r] = FinalStatus(r)
  PROVE  Placed' /\ Keyed' /\ Pending' /\ Told' /\ Blank'
<1>1. \A q \in Runs : Due(q)' = Due(q) /\ FinalStatus(q)' = FinalStatus(q)
  BY SameDue
<1>2. Placed'
  <2> SUFFICES ASSUME NEW x \in db
               PROVE  /\ x.run \in Runs
                      /\ x \in Due(x.run)
                      /\ pc'[x.run] \notin {"preparing", "exporting"}
                      /\ files'[x.run] = Both
                      /\ \A y \in Due(x.run) : Precedes(y, x) => y \in db
    BY <1>1 DEF Placed, DbInv
  <2> QED
    BY DEF Placed, DbInv
<1>3. Keyed'
  BY DEF Keyed, Stored, DbInv
<1>4. Pending'
  <2>1. \A q \in Runs : open'[q] # None => open'[q] = open[q]
    BY DEF DbInv, TypeOK
  <2>2. \A x : Violates(x)' <=> Violates(x)
    BY DEF Violates, Stored
  <2> QED
    BY <1>1, <2>1, <2>2 DEF Pending, DbInv
<1>5. Told'
  <2> SUFFICES ASSUME NEW q \in Runs
               PROVE  /\ pc'[q] = "persisting" => files'[q] = Both
                      /\ pc'[q] = "returned" =>
                           \A x \in db : x.run = q => reported'[q] = FinalStatus(q)
    BY <1>1 DEF Told
  <2> QED
    BY DEF Told, Placed, DbInv
<1>6. Blank'
  BY DEF Blank, DbInv
<1> QED
  BY <1>2, <1>3, <1>4, <1>5, <1>6

\* The dispatch gives a run results; it has no rows yet.
LEMMA DispatchStep ==
  ASSUME DbInv, NEW r \in Runs, DispatchAndScore(r)
  PROVE  Placed' /\ Keyed' /\ Pending' /\ Told' /\ Blank'
<1>1. /\ pc[r] = "preparing" /\ pc' = [pc EXCEPT ![r] = "exporting"]
      /\ UNCHANGED <<files, open, db, dbExc, reported>>
      /\ \A q \in Runs \ {r} : results'[q] = results[q]
  BY DEF DispatchAndScore, Goto, DbInv, TypeOK
<1>2. \A q \in Runs \ {r} : Due(q)' = Due(q) /\ FinalStatus(q)' = FinalStatus(q)
  BY <1>1, SameDue
<1>3. \A q \in Runs \ {r} : pc'[q] = pc[q]
  BY <1>1 DEF DbInv, TypeOK
<1>4. \A x \in db : x.run \in Runs \ {r}
  BY <1>1 DEF Placed, DbInv
<1>5. Placed'
  BY <1>1, <1>2, <1>3, <1>4 DEF Placed, DbInv
<1>6. Keyed'
  BY <1>1 DEF Keyed, Stored, DbInv
<1>7. Pending'
  <2>1. \A q \in Runs : open[q] # None => q # r
    BY <1>1 DEF DbInv, TypeOK
  <2>2. \A x : Violates(x)' <=> Violates(x)
    BY <1>1 DEF Violates, Stored
  <2> QED
    BY <1>1, <1>2, <2>1, <2>2 DEF Pending, DbInv
<1>8. Told'
  <2>1. pc'[r] = "exporting"
    BY <1>1 DEF DbInv, TypeOK
  <2> QED
    BY <1>1, <1>2, <1>3, <2>1 DEF Told, DbInv
<1>9. Blank'
  <2>1. pc'[r] = "exporting"
    BY <1>1 DEF DbInv, TypeOK
  <2> QED
    BY <1>1, <1>3, <2>1 DEF Blank, DbInv
<1> QED
  BY <1>5, <1>6, <1>7, <1>8, <1>9

\* A statement: what the database checked holds of the pending row.
LEMMA ExecuteStep ==
  ASSUME DbInv, NEW r \in Runs, Execute(r)
  PROVE  Placed' /\ Keyed' /\ Pending' /\ Told' /\ Blank'
<1>1. /\ ~Locked
      /\ UNCHANGED <<pc, results, files, db, dbExc, reported>>
  BY DEF Execute
<1>2. PICK x \in Unwritten(r) : /\ IsNext(r, x) /\ ~Violates(x)
                                /\ open' = [open EXCEPT ![r] = x]
  BY DEF Execute
<1>3. \A q \in Runs : Due(q)' = Due(q) /\ FinalStatus(q)' = FinalStatus(q)
  BY <1>1, SameDue
<1>4. \A q \in Runs : open'[q] # None => q = r
  BY <1>1, <1>2 DEF Locked, DbInv, TypeOK
<1>5. open'[r] = x
  BY <1>2 DEF DbInv, TypeOK
<1>6. \A y : Violates(y)' <=> Violates(y)
  BY <1>1 DEF Violates, Stored
<1>7. Pending'
  <2>1. x \in Due(r) /\ \A y \in Due(r) : Precedes(y, x) => y \in db
    BY <1>2 DEF IsNext, Unwritten
  <2> QED
    BY <1>1, <1>2, <1>3, <1>4, <1>5, <1>6, <2>1 DEF Pending
<1>8. Placed' /\ Told'
  BY <1>1, <1>3 DEF Placed, Told, DbInv
<1>9. Keyed' /\ Blank'
  BY <1>1 DEF Keyed, Stored, Blank, DbInv
<1> QED
  BY <1>7, <1>8, <1>9

\* A commit: the pending row joins rows that no other run has added to.
LEMMA CommitStep ==
  ASSUME DbInv, NEW r \in Runs, Commit(r)
  PROVE  Placed' /\ Keyed' /\ Pending' /\ Told' /\ Blank'
<1> DEFINE o == open[r]
<1>1. /\ pc[r] = "persisting" /\ o # None
      /\ db' = db \cup {o}
      /\ open' = [open EXCEPT ![r] = None]
      /\ UNCHANGED <<pc, results, files, dbExc, reported>>
  BY DEF Commit
<1>2. /\ o \in Due(r) /\ ~Violates(o)
      /\ \A y \in Due(r) : Precedes(y, o) => y \in db
      /\ \A q \in Runs : open[q] # None => q = r
  BY <1>1 DEF Pending, DbInv
<1>3. o.run = r
  BY <1>2, DueShape
<1>4. open'[r] = None
  BY <1>1 DEF DbInv, TypeOK
<1>5. \A q \in Runs \ {r} : open'[q] = None
  BY <1>1, <1>2 DEF DbInv, TypeOK
<1> HIDE DEF o
<1>6. \A q \in Runs : Due(q)' = Due(q) /\ FinalStatus(q)' = FinalStatus(q)
  BY <1>1, SameDue
<1>7. Placed'
  <2> SUFFICES ASSUME NEW x \in db'
               PROVE  /\ x.run \in Runs
                      /\ x \in Due(x.run)
                      /\ pc[x.run] \notin {"preparing", "exporting"}
                      /\ files[x.run] = Both
                      /\ \A y \in Due(x.run) : Precedes(y, x) => y \in db'
    BY <1>1, <1>6 DEF Placed
  <2>1. CASE x \in db
    BY <1>1, <2>1 DEF Placed, DbInv
  <2>2. CASE x = o
    BY <1>1, <1>2, <1>3, <2>2 DEF Told, DbInv
  <2> QED
    BY <1>1, <2>1, <2>2
<1>8. Keyed'
  <2>1. \A x \in db : x.kind = "execution" /\ o.kind = "execution" => x.id # o.id
    BY <1>2 DEF Violates, Stored
  <2>2. ASSUME NEW x \in db', NEW y \in db', x.kind = "execution",
               y.kind = "execution", x.id = y.id
        PROVE  x = y
    BY <1>1, <2>1, <2>2 DEF Keyed, DbInv
  <2>3. \A x \in db' : x.kind \in {"score", "verdict"} => Stored(x.id)
    BY <1>1, <1>2 DEF Keyed, DbInv, Violates
  <2>4. \A id : Stored(id) => Stored(id)'
    BY <1>1 DEF Stored
  <2> QED
    BY <2>2, <2>3, <2>4 DEF Keyed
<1>9. Pending'
  BY <1>4, <1>5 DEF Pending
<1>10. Told'
  BY <1>1, <1>3, <1>6 DEF Told, DbInv
<1>11. Blank'
  BY <1>1 DEF Blank, DbInv
<1> QED
  BY <1>7, <1>8, <1>9, <1>10, <1>11

LEMMA StepInv == ASSUME DbInv, [Next]_vars PROVE DbInv'
<1>1. TypeOK'
  BY TypeStep DEF DbInv
<1>2. ASSUME UNCHANGED vars
      PROVE  Placed' /\ Keyed' /\ Pending' /\ Told' /\ Blank'
  <2>1. UNCHANGED <<pc, results, files, open, db, reported>>
    BY <1>2 DEF vars
  <2>2. \A q \in Runs : Due(q)' = Due(q) /\ FinalStatus(q)' = FinalStatus(q)
    BY <2>1, SameDue
  <2>3. \A x : Violates(x)' <=> Violates(x)
    BY <2>1 DEF Violates, Stored
  <2>4. Placed' /\ Told' /\ Pending'
    BY <2>1, <2>2, <2>3 DEF Placed, Told, Pending, DbInv
  <2>5. Keyed' /\ Blank'
    BY <2>1 DEF Keyed, Stored, Blank, DbInv
  <2> QED
    BY <2>4, <2>5
<1>3. ASSUME NEW r \in Runs, Work(r) \/ DatabaseFails(r) \/ Crash(r)
      PROVE  Placed' /\ Keyed' /\ Pending' /\ Told' /\ Blank'
  <2>0. /\ pc \in [Runs -> {"preparing", "exporting", "persisting", "returned", "dead"}]
        /\ pc' \in [Runs -> {"preparing", "exporting", "persisting", "returned", "dead"}]
        /\ files \in [Runs -> SUBSET Both]
        /\ reported \in [Runs -> Statuses \cup {None}]
    BY <1>1 DEF DbInv, TypeOK, Both
  <2>1. CASE Reject(r) \/ DryRun(r) \/ ExportFails(r)
    <3>1. /\ pc[r] \in {"preparing", "exporting"} /\ pc'[r] = "returned"
          /\ \A q \in Runs \ {r} : pc'[q] = pc[q] /\ reported'[q] = reported[q]
          /\ UNCHANGED <<results, files, open, db, dbExc>>
      BY <2>0, <2>1 DEF Reject, DryRun, ExportFails, Return, Goto
    <3> QED
      BY <2>0, <3>1, QuietStep
  <2>2. CASE DispatchAndScore(r)
    BY <2>2, DispatchStep
  <2>3. CASE WriteFixture(r)
    <3>1. /\ pc[r] = "exporting" /\ pc' = pc
          /\ \A q \in Runs \ {r} : files'[q] = files[q]
          /\ UNCHANGED <<results, open, db, dbExc, reported>>
      BY <2>0, <2>3 DEF WriteFixture
    <3> QED
      BY <2>0, <3>1, QuietStep
  <2>4. CASE WriteManifest(r)
    <3>1. /\ pc[r] = "exporting" /\ pc'[r] = "persisting" /\ files'[r] = Both
          /\ \A q \in Runs \ {r} : pc'[q] = pc[q] /\ files'[q] = files[q]
          /\ UNCHANGED <<results, open, db, dbExc, reported>>
      BY <2>0, <2>4 DEF WriteManifest, Goto, Both
    <3> QED
      BY <2>0, <3>1, QuietStep
  <2>5. CASE Execute(r)
    BY <2>5, ExecuteStep
  <2>6. CASE Commit(r)
    BY <2>6, CommitStep
  <2>7. CASE Conflict(r) \/ DatabaseFails(r)
    <3>1. /\ pc[r] = "persisting" /\ pc'[r] = "returned"
          /\ reported'[r] = FinalStatus(r)
          /\ \A q \in Runs \ {r} : pc'[q] = pc[q] /\ reported'[q] = reported[q]
          /\ open' = [open EXCEPT ![r] = None]
          /\ UNCHANGED <<results, files, db>>
      BY <2>0, <2>7 DEF Conflict, DatabaseFails, Abandon, Return, Goto
    <3> QED
      BY <2>0, <3>1, QuietStep
  <2>8. CASE Finish(r)
    <3>1. /\ pc[r] = "persisting" /\ pc'[r] = "returned"
          /\ reported'[r] = FinalStatus(r)
          /\ \A q \in Runs \ {r} : pc'[q] = pc[q] /\ reported'[q] = reported[q]
          /\ UNCHANGED <<results, files, open, db>>
      BY <2>0, <2>8 DEF Finish, Return, Goto
    <3> QED
      BY <2>0, <3>1, QuietStep
  <2>9. CASE Crash(r)
    <3>1. /\ pc'[r] = "dead"
          /\ \A q \in Runs \ {r} : pc'[q] = pc[q]
          /\ open' = [open EXCEPT ![r] = None]
          /\ UNCHANGED <<results, files, db, reported>>
      BY <2>0, <2>9 DEF Crash
    <3> QED
      BY <2>0, <3>1, QuietStep
  <2> QED
    BY <1>3, <2>1, <2>2, <2>3, <2>4, <2>5, <2>6, <2>7, <2>8, <2>9 DEF Work
<1> QED
  BY <1>1, <1>2, <1>3 DEF Next, AllOver, DbInv

-----------------------------------------------------------------------------
(* What the database rejects *)

\* A due row that the constraints reject has an answer to blame.
LEMMA Blame ==
  ASSUME DbInv, NEW r \in Runs, NEW x \in Unwritten(r), IsNext(r, x), Violates(x)
  PROVE  \E i \in Answered(r) : \/ results[r][i].id = NoId
                                \/ ~results[r][i].scored
                                \/ SharesId(r, i)
<1> DEFINE i == x.item
<1>1. /\ x \in Due(r) /\ x \notin db
      /\ \A y \in Due(r) : Precedes(y, x) => y \in db
  BY DEF IsNext, Unwritten
<1>2. CASE x.kind = "execution"
  <2>1. i \in Answered(r) /\ x = ExecutionRow(r, i) /\ x.id = results[r][i].id
    BY <1>1, <1>2, DueByKind, RowMembers DEF WithId
  <2>2. PICK e \in db : e.kind = "execution" /\ e.id = x.id
    BY <1>2 DEF Violates, Stored
  <2>3. e.run \in Runs /\ e \in Due(e.run)
    BY DEF Placed, DbInv
  <2>4. /\ e.item \in Answered(e.run) /\ e = ExecutionRow(e.run, e.item)
        /\ e.id = results[e.run][e.item].id
    BY <2>2, <2>3, DueByKind, RowMembers DEF WithId
  <2>5. <<e.run, e.item>> # <<r, i>>
    BY <1>1, <2>1, <2>2, <2>4
  <2>6. SharesId(r, i)
    BY <2>1, <2>2, <2>3, <2>4, <2>5 DEF SharesId
  <2> QED
    BY <2>1, <2>6
<1>3. CASE x.kind \in {"score", "verdict"} /\ ~Stored(x.id)
  <2>1. i \in Answered(r)
    BY <1>1, <1>3, DueByKind DEF Scored
  <2>2. CASE results[r][i].id # NoId /\ results[r][i].scored
    <3>1. i \in Scored(r) /\ i \in WithId(r)
      BY <2>1, <2>2 DEF Scored, WithId
    <3>2. x.id = results[r][i].id
      BY <1>1, <1>3, <3>1, DueByKind, RowMembers
    <3>3. ExecutionRow(r, i) \in Due(r)
      BY <3>1 DEF Due
    <3>4. ExecutionRow(r, i) \in db
      BY <1>1, <1>3, <3>3, Stages, RowMembers
    <3>5. Stored(x.id)
      BY <3>2, <3>4, RowMembers DEF Stored
    <3> QED
      BY <1>3, <3>5
  <2> QED
    BY <2>1, <2>2
<1> QED
  BY <1>2, <1>3 DEF Violates

LEMMA CauseStep ==
  ASSUME DbInv, RejectedForCause, [Next]_vars
  PROVE  RejectedForCause'
<1>1. ASSUME UNCHANGED <<results, dbExc>>
      PROVE  RejectedForCause'
  BY <1>1 DEF RejectedForCause, SharesId, Answered
<1>2. ASSUME NEW r \in Runs, DispatchAndScore(r)
      PROVE  RejectedForCause'
  <2>1. /\ results[r] = [i \in Items |-> NoOutcome]
        /\ \A q \in Runs \ {r} : results'[q] = results[q]
        /\ dbExc' = dbExc
    BY <1>2 DEF DispatchAndScore, Goto, DbInv, TypeOK, Blank
  <2>2. Answered(r) = {}
    BY <2>1 DEF Answered, NoOutcome
  <2>3. \A q \in Runs : Answered(q) \subseteq Answered(q)'
    BY <2>1, <2>2 DEF Answered
  <2>4. \A q \in Runs : \A i \in Answered(q) : results'[q] = results[q]
    BY <2>1, <2>2
  <2>5. \A q \in Runs : \A i \in Answered(q) : SharesId(q, i) => SharesId(q, i)'
    BY <2>3, <2>4 DEF SharesId
  <2> QED
    BY <2>1, <2>3, <2>4, <2>5 DEF RejectedForCause
<1>3. ASSUME NEW r \in Runs, Conflict(r) \/ DatabaseFails(r)
      PROVE  RejectedForCause'
  <2>1. /\ results' = results
        /\ \A q \in Runs \ {r} : dbExc'[q] = dbExc[q]
    BY <1>3 DEF Conflict, DatabaseFails, Abandon, DbInv, TypeOK
  <2>2. dbExc'[r] = "IntegrityError" =>
          \E i \in Answered(r) : \/ results[r][i].id = NoId
                                 \/ ~results[r][i].scored
                                 \/ SharesId(r, i)
    <3>1. CASE Conflict(r)
      BY <3>1, Blame DEF Conflict
    <3>2. CASE DatabaseFails(r)
      BY <3>2 DEF DatabaseFails, Abandon, DbInv, TypeOK
    <3> QED
      BY <1>3, <3>1, <3>2
  <2>3. \A q \in Runs : /\ Answered(q)' = Answered(q)
                        /\ \A i : SharesId(q, i)' <=> SharesId(q, i)
    BY <2>1 DEF Answered, SharesId
  <2> QED
    BY <2>1, <2>2, <2>3 DEF RejectedForCause
<1> QED
  BY <1>1, <1>2, <1>3 DEF Next, Work, AllOver, vars, Reject, DryRun, WriteFixture,
     WriteManifest, ExportFails, Execute, Commit, Finish, Crash

-----------------------------------------------------------------------------
(* Theorems *)

\* The invariant all the others rest on holds throughout (runner.py 104-367).
THEOREM Invariance == Spec => []DbInv
<1>1. Init => DbInv
  BY InitInv
<1>2. DbInv /\ [Next]_vars => DbInv'
  BY StepInv
<1> QED
  BY <1>1, <1>2, PTL DEF Spec

\* The types, and no transaction outlives the persistence of its run.
THEOREM PersistenceTypes == Spec => []TypeOK
<1>1. DbInv => TypeOK
  BY DEF DbInv
<1> QED
  BY <1>1, Invariance, PTL

\* runner.py 324: the final status is written over a whole run only.
THEOREM CompletedRunsAreWhole == Spec => []CompletedRunIsWhole
<1>1. DbInv => CompletedRunIsWhole
  BY InvWhole
<1> QED
  BY <1>1, Invariance, PTL

\* runner.py 274-324: an interrupted run is cut between its stages.
THEOREM StagesAreVisible == Spec => []StagesVisible
<1>1. DbInv => StagesVisible
  BY InvStages
<1> QED
  BY <1>1, Invariance, PTL

\* Scores and verdicts find the execution of their own answer, and no other.
THEOREM NothingMisfiled == Spec => []FiledUnderOwnAnswer
<1>1. DbInv => FiledUnderOwnAnswer
  BY InvFiled
<1> QED
  BY <1>1, Invariance, PTL

\* What run returns does not contradict what it has stored.
THEOREM ReportsAgree == Spec => []ReportAgrees
<1>1. DbInv => ReportAgrees
  BY InvReport
<1> QED
  BY <1>1, Invariance, PTL

\* The constraints stop a run only over an answer that breaks them.
THEOREM RejectionsHaveACause == Spec => []RejectedForCause
<1>1. Init => RejectedForCause
  BY PersistenceAssumption DEF Init, RejectedForCause
<1>2. DbInv /\ RejectedForCause /\ [Next]_vars => RejectedForCause'
  BY CauseStep
<1> QED
  BY <1>1, <1>2, Invariance, PTL DEF Spec

-----------------------------------------------------------------------------
(***************************************************************************)
(* Why every run that persists comes to an end.  That it does needs        *)
(* fairness and is left to TLC; that there is always a step to take, and   *)
(* only so many rows to write, is proved.                                  *)
(***************************************************************************)

\* The run has neither returned nor died.
Live(r) == pc[r] \in {"preparing", "exporting", "persisting"}

\* The guards of Work(r): a run that neither holds the lock nor finds it held
\* executes its next row, meets a conflict or is through.
CanWork(r) ==
  \/ pc[r] \in {"preparing", "exporting"}
  \/ /\ pc[r] = "persisting"
     /\ \/ open[r] # None
        \/ open[r] = None /\ Unwritten(r) = {}
        \/ ~Locked /\ \E x \in Unwritten(r) : IsNext(r, x)

\* While a run is under way, one has a step to take.
SomeRunGoesOn == (\E r \in Runs : Live(r)) => \E r \in Runs : CanWork(r)

\* A run that persists has finitely many rows to write, never more than
\* before, and fewer with every commit.
RowsRunOut ==
  \A r \in Runs : pc[r] = "persisting" =>
    /\ IsFiniteSet(Unwritten(r))
    /\ Unwritten(r)' \subseteq Unwritten(r)
    /\ Commit(r) => Unwritten(r)' # Unwritten(r)

\* The row of an open transaction is not in the database yet.
Fresh == \A r \in Runs : open[r] # None => open[r] \notin db

LEMMA FiniteDue ==
  ASSUME NEW r \in Runs
  PROVE  IsFiniteSet(Due(r))
<1>1. IsFiniteSet(Items)
  BY FS_Interval, PersistenceAssumption DEF Items
<1>2. IsFiniteSet(WithId(r)) /\ IsFiniteSet(Scored(r)) /\ IsFiniteSet(Answered(r))
  <2>1. WithId(r) \subseteq Items /\ Scored(r) \subseteq Items /\ Answered(r) \subseteq Items
    BY DEF WithId, Scored, Answered
  <2> QED
    BY <1>1, <2>1, FS_Subset
<1> DEFINE E == [i \in WithId(r) |-> ExecutionRow(r, i)]
           S == [i \in Scored(r) |-> ScoreRow(r, i)]
           V == [i \in Answered(r) |-> VerdictRow(r, i)]
<1>3. /\ IsFiniteSet({E[i] : i \in WithId(r)})
      /\ IsFiniteSet({S[i] : i \in Scored(r)})
      /\ IsFiniteSet({V[i] : i \in Answered(r)})
  <2> HIDE DEF E, S, V
  <2> QED
    BY <1>2, ImageFinite
<1>4. /\ {E[i] : i \in WithId(r)} = {ExecutionRow(r, i) : i \in WithId(r)}
      /\ {S[i] : i \in Scored(r)} = {ScoreRow(r, i) : i \in Scored(r)}
      /\ {V[i] : i \in Answered(r)} = {VerdictRow(r, i) : i \in Answered(r)}
  OBVIOUS
<1>5. IsFiniteSet({RunRow(r), StatusRow(r)})
  <2>1. IsFiniteSet({RunRow(r)} \cup {StatusRow(r)})
    BY FS_Singleton, FS_AddElement
  <2>2. {RunRow(r)} \cup {StatusRow(r)} = {RunRow(r), StatusRow(r)}
    OBVIOUS
  <2> QED
    BY <2>1, <2>2, Zenon
<1> QED
  BY <1>3, <1>4, <1>5, FS_Union DEF Due

\* While rows are left there is a next one: the first by stage and item.
LEMMA NextRowExists ==
  ASSUME TypeOK, NEW r \in Runs, Unwritten(r) # {}
  PROVE  \E x \in Unwritten(r) : IsNext(r, x)
<1> DEFINE left == Unwritten(r)
           stage == [x \in left |-> Stage(x.kind)]
           item == [x \in left |-> x.item]
<1>1. IsFiniteSet(left)
  BY FiniteDue, FS_Subset DEF Unwritten
<1>2. \A x \in left : x \in Due(r) /\ x.item \in Int /\ Stage(x.kind) \in Int
  <2>1. \A x \in left : x \in Rows
    BY DueRows DEF Unwritten, TypeOK
  <2>2. \A k \in Kinds : Stage(k) \in Int
    BY StageOrder DEF Kinds
  <2> QED
    BY <2>1, <2>2, PersistenceAssumption DEF Rows, Unwritten
<1>3. PICK k \in {stage[x] : x \in left} : \A l \in {stage[x] : x \in left} : k <= l
  <2>1. {stage[x] : x \in left} \subseteq Int /\ {stage[x] : x \in left} # {}
    BY <1>2
  <2>2. IsFiniteSet({stage[x] : x \in left})
    <3> HIDE DEF stage, left
    <3> QED
      BY <1>1, ImageFinite
  <2> HIDE DEF stage, left
  <2> QED
    BY <2>1, <2>2, LeastMember
<1> DEFINE first == {x \in left : Stage(x.kind) = k}
<1>4. PICK i \in {item[x] : x \in first} : \A j \in {item[x] : x \in first} : i <= j
  <2>1. {item[x] : x \in first} \subseteq Int /\ {item[x] : x \in first} # {}
    BY <1>2, <1>3
  <2>2. IsFiniteSet({item[x] : x \in first})
    <3>1. IsFiniteSet(first)
      BY <1>1, FS_Subset
    <3> HIDE DEF item, first
    <3> QED
      BY <3>1, ImageFinite
  <2> HIDE DEF item, first
  <2> QED
    BY <2>1, <2>2, LeastMember
<1>5. PICK x \in first : x.item = i
  BY <1>4
<1>6. \A y \in left : Stage(x.kind) <= Stage(y.kind) /\ Stage(x.kind) \in Int /\ Stage(y.kind) \in Int
  BY <1>2, <1>3, <1>5
<1>7. \A y \in left : Stage(y.kind) = Stage(x.kind) => x.item <= y.item
  BY <1>4, <1>5
<1>8. \A y \in left : ~Precedes(y, x)
  BY <1>2, <1>5, <1>6, <1>7 DEF Precedes
<1>9. \A y \in Due(r) : Precedes(y, x) => y \in db
  BY <1>8 DEF Unwritten
<1> QED
  BY <1>5, <1>9 DEF IsNext

\* While any run is under way some run goes on: whoever waits for the lock
\* waits for a run that needs nothing more to commit.
THEOREM RunsNeverLockUp == Spec => []SomeRunGoesOn
<1>1. TypeOK => SomeRunGoesOn
  <2> SUFFICES ASSUME TypeOK, NEW r \in Runs, Live(r)
               PROVE  \E q \in Runs : CanWork(q)
    BY DEF SomeRunGoesOn
  <2>1. CASE Locked
    BY <2>1 DEF Locked, CanWork, TypeOK
  <2>2. CASE ~Locked
    BY <2>2, NextRowExists DEF Locked, CanWork, Live
  <2> QED
    BY <2>1, <2>2
<1> QED
  BY <1>1, PersistenceTypes, PTL

LEMMA NextFresh == DbInv /\ Fresh /\ [Next]_vars => Fresh'
<1> SUFFICES ASSUME DbInv, Fresh, [Next]_vars PROVE Fresh'
  OBVIOUS
<1>t. open \in [Runs -> Rows \cup {None}]
  BY DEF DbInv, TypeOK
<1>1. ASSUME NEW r \in Runs, Execute(r) PROVE Fresh'
  BY <1>t, <1>1 DEF Execute, IsNext, Unwritten, Fresh
<1>2. ASSUME NEW r \in Runs, Commit(r) PROVE Fresh'
  <2>1. \A q \in Runs \ {r} : open[q] = None
    BY <1>2 DEF Commit, DbInv, Pending
  <2> QED
    BY <1>t, <1>2, <2>1 DEF Commit, Fresh
<1>3. ASSUME UNCHANGED db, \A q \in Runs : open'[q] \in {open[q], None} PROVE Fresh'
  BY <1>3 DEF Fresh
<1>4. ASSUME NEW r \in Runs, Work(r) \/ DatabaseFails(r) \/ Crash(r), ~Execute(r), ~Commit(r)
      PROVE  UNCHANGED db /\ \A q \in Runs : open'[q] \in {open[q], None}
  BY <1>t, <1>4 DEF Work, Reject, DryRun, DispatchAndScore, WriteFixture, WriteManifest,
     ExportFails, Conflict, DatabaseFails, Abandon, Finish, Crash
<1>5. CASE AllOver \/ UNCHANGED vars
  BY <1>3, <1>5 DEF AllOver, vars
<1> QED
  BY <1>1, <1>2, <1>3, <1>4, <1>5 DEF Next

LEMMA StepRunsOut == DbInv /\ Fresh /\ [Next]_vars => RowsRunOut
<1> SUFFICES ASSUME DbInv, Fresh, [Next]_vars, NEW r \in Runs, pc[r] = "persisting"
             PROVE  /\ IsFiniteSet(Unwritten(r))
                    /\ Unwritten(r)' \subseteq Unwritten(r)
                    /\ Commit(r) => Unwritten(r)' # Unwritten(r)
  BY DEF RowsRunOut
<1>1. IsFiniteSet(Unwritten(r))
  BY FiniteDue, FS_Subset DEF Unwritten
<1>2. db \subseteq db' /\ results'[r] = results[r]
  <2>1. ASSUME NEW q \in Runs, DispatchAndScore(q)
        PROVE  db' = db /\ results'[r] = results[r]
    BY <2>1 DEF DispatchAndScore, Goto, DbInv, TypeOK
  <2>2. ASSUME NEW q \in Runs, Work(q) \/ DatabaseFails(q) \/ Crash(q), ~DispatchAndScore(q)
        PROVE  db \subseteq db' /\ results' = results
    BY <2>2 DEF Work, Reject, DryRun, WriteFixture, WriteManifest, ExportFails, Execute,
       Commit, Conflict, DatabaseFails, Abandon, Finish, Crash
  <2>3. CASE AllOver \/ UNCHANGED vars
    BY <2>3 DEF AllOver, vars
  <2> QED
    BY <2>1, <2>2, <2>3 DEF Next
<1>3. Due(r)' = Due(r)
  BY <1>2, SameDue
<1>4. Commit(r) => open[r] \in Unwritten(r) /\ open[r] \in db'
  BY DEF Commit, Unwritten, DbInv, Pending, Fresh
<1> QED
  BY <1>1, <1>2, <1>3, <1>4 DEF Unwritten

\* A run that persists is through after finitely many commits of its own: no
\* step of another run, no conflict and no crash gives it a row back.
THEOREM PersistenceRunsDown == Spec => [][RowsRunOut]_vars
<1>1. Init => Fresh
  BY DEF Init, Fresh
<1> QED
  BY <1>1, NextFresh, StepRunsOut, Invariance, PTL DEF Spec
=============================================================================
