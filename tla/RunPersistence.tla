--------------------------- MODULE RunPersistence ---------------------------
(***************************************************************************)
(* What Runner.run does around its dispatch, and what it leaves behind: a  *)
(* fixture and a manifest per run, and rows in harness.db, shared by all   *)
(* runs of the harness.  Each run is a process of its own; module Dispatch *)
(* models the dispatch between Prepare and Score.                          *)
(*                                                                         *)
(* The database (external: SQLite in WAL mode, foreign keys on).  Every    *)
(* row is a transaction: the statement takes the only write lock, checks   *)
(* the constraints and holds the lock to the commit.  A statement that     *)
(* meets the lock waits for it, at most five seconds.  A statement or a    *)
(* commit may fail for reasons of its own (disk full, I/O error).          *)
(*                                                                         *)
(* Rows the runner inserts OR IGNORE with an execution (test case,         *)
(* provider, model) share its transaction and are part of its row.  One    *)
(* score stands for all the scores of an answer.                           *)
(***************************************************************************)
EXTENDS Naturals

CONSTANTS Runs,        \* run ids, fresh for every process
          PlanLength,  \* results a dispatched run has, in completion order
          Ids,         \* "id" members of raw responses
          NoId,        \* the empty string: a raw response without an id
          None,        \* no row, no exception, nothing reported
          ResultLists  \* result lists a dispatch may end with

VARIABLES pc,        \* where each run's process stands
          results,   \* its result list
          files,     \* the artifacts it has written
          open,      \* the row of its open transaction, or None
          db,        \* the committed rows of all runs
          dbExc,     \* what the handler around the persistence caught
          reported   \* the status of the RunResult it returned

vars == <<pc, results, files, open, db, dbExc, reported>>

Items == 1..PlanLength

\* What one item of the plan came to: an answer with its id and whether the
\* scorer made scores of it, or an exception (neither id nor scores).
Outcomes ==
  [answered : {TRUE}, id : Ids \cup {NoId}, scored : BOOLEAN]
    \cup [answered : {FALSE}, id : {NoId}, scored : {FALSE}]
NoOutcome == [answered |-> FALSE, id |-> NoId, scored |-> FALSE]

ASSUME PersistenceAssumption ==
  /\ PlanLength \in Nat
  /\ NoId \notin Ids
  /\ None # "IntegrityError"
  /\ ResultLists \subseteq [Items -> Outcomes]

-----------------------------------------------------------------------------
(* The rows a run writes *)

Kinds == {"run", "execution", "score", "verdict", "status"}
Row(r, kind, i, id) == [run |-> r, kind |-> kind, item |-> i, id |-> id]
Rows == [run : Runs, kind : Kinds, item : 0..PlanLength, id : Ids \cup {NoId}]

Answered(r) == {i \in Items : results[r][i].answered}
Scored(r) == {i \in Answered(r) : results[r][i].scored}
WithId(r) == {i \in Answered(r) : results[r][i].id # NoId}

\* A score and a verdict name the execution by the answer's id; the verdict
\* of an answer without scores names none.
ScoreRow(r, i) == Row(r, "score", i, results[r][i].id)
VerdictRow(r, i) ==
  Row(r, "verdict", i, IF i \in Scored(r) THEN results[r][i].id ELSE NoId)
ExecutionRow(r, i) == Row(r, "execution", i, results[r][i].id)
RunRow(r) == Row(r, "run", 0, NoId)
StatusRow(r) == Row(r, "status", 0, NoId)

\* Everything the run will write, unless a statement fails.
Due(r) == {RunRow(r), StatusRow(r)}
            \cup {ExecutionRow(r, i) : i \in WithId(r)}
            \cup {ScoreRow(r, i) : i \in Scored(r)}
            \cup {VerdictRow(r, i) : i \in Answered(r)}

Stage(kind) == CASE kind = "run" -> 1
                 [] kind = "execution" -> 2
                 [] kind = "score" -> 3
                 [] kind = "verdict" -> 4
                 [] kind = "status" -> 5

\* The order of the statements: by stage, within a stage by result.
Precedes_ByItem(x, y) == \/ x.kind = "run" /\ y.kind # "run"
                         \/ x.kind # "status" /\ y.kind = "status"
                         \/ /\ "status" \notin {x.kind, y.kind}
                            /\ \/ x.item < y.item
                               \/ x.item = y.item /\ Stage(x.kind) < Stage(y.kind)
Precedes_ScoresFirst(x, y) ==
  \/ x.kind = "run" /\ y.kind # "run"
  \/ x.kind = "score" /\ y.kind = "execution"
  \/ Stage(x.kind) < Stage(y.kind) /\ x.kind # "execution"
  \/ Stage(x.kind) = Stage(y.kind) /\ x.item < y.item
Precedes(x, y) == \/ Stage(x.kind) < Stage(y.kind)
                  \/ Stage(x.kind) = Stage(y.kind) /\ x.item < y.item

Unwritten(r) == Due(r) \ db
\* The row of the next statement.
IsNext(r, x) == /\ x \in Unwritten(r)
                /\ \A y \in Due(r) : Precedes(y, x) => y \in db

\* PRIMARY KEY of executions, FOREIGN KEY of scores and verdicts.
Stored(id) == \E x \in db : x.kind = "execution" /\ x.id = id
Violates_NoForeignKeys(x) == x.kind = "execution" /\ Stored(x.id)
Violates_NoPrimaryKey(x) == x.kind \in {"score", "verdict"} /\ ~Stored(x.id)
Violates(x) == \/ x.kind = "execution" /\ Stored(x.id)
               \/ x.kind \in {"score", "verdict"} /\ ~Stored(x.id)

-----------------------------------------------------------------------------
(* The run's process *)

Errored(r) == Items \ Answered(r)
FinalStatus(r) == IF Errored(r) # {} THEN "completed_with_errors"
                  ELSE "completed"

Goto(r, from, to) == /\ pc[r] = from
                     /\ pc' = [pc EXCEPT ![r] = to]

\* run returns a RunResult, from wherever it is.
Return(r, from, status) ==
  /\ Goto(r, from, "returned")
  /\ reported' = [reported EXCEPT ![r] = status]

\* Keys missing, cases that do not load, a pre-flight estimate over budget.
Reject(r) ==
  /\ Return(r, "preparing", "failed")
  /\ UNCHANGED <<results, files, open, db, dbExc>>

DryRun(r) ==
  /\ Return(r, "preparing", "completed")
  /\ UNCHANGED <<results, files, open, db, dbExc>>

\* The plan is dispatched, the answers are scored and judged.
DispatchAndScore(r) ==
  /\ Goto(r, "preparing", "exporting")
  /\ \E list \in ResultLists : results' = [results EXCEPT ![r] = list]
  /\ UNCHANGED <<files, open, db, dbExc, reported>>

WriteFixture(r) ==
  /\ pc[r] = "exporting" /\ files[r] = {}
  /\ files' = [files EXCEPT ![r] = {"fixture"}]
  /\ UNCHANGED <<pc, results, open, db, dbExc, reported>>

WriteManifest(r) ==
  /\ files[r] = {"fixture"}
  /\ Goto(r, "exporting", "persisting")
  /\ files' = [files EXCEPT ![r] = {"fixture", "manifest"}]
  /\ UNCHANGED <<results, open, db, dbExc, reported>>

\* Either file cannot be written: the outer handler reports a failed run.
ExportFails(r) ==
  /\ Return(r, "exporting", "failed")
  /\ UNCHANGED <<results, files, open, db, dbExc>>

Locked == \E r \in Runs : open[r] # None

\* A statement passes the constraints; its row is not committed yet.
Execute(r) ==
  /\ pc[r] = "persisting"
  /\ ~Locked
  /\ \E x \in Unwritten(r) :
       /\ IsNext(r, x)
       /\ ~Violates(x)
       /\ open' = [open EXCEPT ![r] = x]
  /\ UNCHANGED <<pc, results, files, db, dbExc, reported>>

Commit(r) ==
  /\ pc[r] = "persisting"
  /\ open[r] # None
  /\ db' = db \cup {open[r]}
  /\ open' = [open EXCEPT ![r] = None]
  /\ UNCHANGED <<pc, results, files, dbExc, reported>>

\* The transaction is rolled back, the exception is logged as a warning, and
\* the run reports the status of its results.
Abandon_ReportsFailure(r, exc) ==
  /\ open' = [open EXCEPT ![r] = None]
  /\ dbExc' = [dbExc EXCEPT ![r] = exc]
  /\ Return(r, "persisting", "failed")
  /\ UNCHANGED <<results, files, db>>
Abandon(r, exc) ==
  /\ open' = [open EXCEPT ![r] = None]
  /\ dbExc' = [dbExc EXCEPT ![r] = exc]
  /\ Return(r, "persisting", FinalStatus(r))
  /\ UNCHANGED <<results, files, db>>

Conflict_Retries(r) ==
  /\ pc[r] = "persisting"
  /\ ~Locked
  /\ \E x \in Unwritten(r) : IsNext(r, x) /\ Violates(x)
  /\ UNCHANGED vars
Conflict(r) ==
  /\ ~Locked
  /\ \E x \in Unwritten(r) : IsNext(r, x) /\ Violates(x)
  /\ Abandon(r, "IntegrityError")

\* Before any row (schema, connection), in a statement or in a commit; a
\* statement that waited five seconds for the lock is one of these.
DatabaseFails(r) == Abandon(r, "OperationalError")

Finish(r) ==
  /\ Unwritten(r) = {}
  /\ open[r] = None
  /\ Return(r, "persisting", FinalStatus(r))
  /\ UNCHANGED <<results, files, open, db, dbExc>>

Crash_KeepsTransaction(r) ==
  /\ pc[r] \in {"preparing", "exporting", "persisting"}
  /\ pc' = [pc EXCEPT ![r] = "dead"]
  /\ UNCHANGED <<results, files, open, db, dbExc, reported>>
\* The process dies; SQLite drops its open transaction.
Crash(r) ==
  /\ pc[r] \in {"preparing", "exporting", "persisting"}
  /\ pc' = [pc EXCEPT ![r] = "dead"]
  /\ open' = [open EXCEPT ![r] = None]
  /\ UNCHANGED <<results, files, db, dbExc, reported>>

-----------------------------------------------------------------------------
Init == /\ pc = [r \in Runs |-> "preparing"]
        /\ results = [r \in Runs |-> [i \in Items |-> NoOutcome]]
        /\ files = [r \in Runs |-> {}]
        /\ open = [r \in Runs |-> None]
        /\ db = {}
        /\ dbExc = [r \in Runs |-> None]
        /\ reported = [r \in Runs |-> None]

Work(r) == \/ Reject(r) \/ DryRun(r) \/ DispatchAndScore(r)
           \/ WriteFixture(r) \/ WriteManifest(r) \/ ExportFails(r)
           \/ Execute(r) \/ Commit(r) \/ Conflict(r) \/ Finish(r)

AllOver == /\ \A r \in Runs : pc[r] \in {"returned", "dead"}
           /\ UNCHANGED vars

Next == AllOver \/ \E r \in Runs : Work(r) \/ DatabaseFails(r) \/ Crash(r)

\* A process runs on unless it dies.  The database need not fail, and no
\* statement needs its five seconds to run out.
Fairness == \A r \in Runs : WF_vars(Work(r))

Spec == Init /\ [][Next]_vars /\ Fairness
-----------------------------------------------------------------------------
(* Properties *)

Statuses == {"completed", "completed_with_errors", "failed"}

\* Every variable holds a value of its type, and a transaction is open only
\* while its run persists.
TypeOK ==
  /\ pc \in [Runs -> {"preparing", "exporting", "persisting", "returned", "dead"}]
  /\ results \in [Runs -> [Items -> Outcomes]]
  /\ files \in [Runs -> SUBSET {"fixture", "manifest"}]
  /\ open \in [Runs -> Rows \cup {None}]
  /\ db \subseteq Rows
  /\ dbExc \in [Runs -> {None, "IntegrityError", "OperationalError"}]
  /\ reported \in [Runs -> Statuses \cup {None}]
  /\ \A r \in Runs : open[r] # None => pc[r] = "persisting"

\* A run whose row says it is complete is complete: its artifacts are written,
\* and every answer it was given has its execution, its score and its verdict
\* in the database, wherever statements failed and processes died.
CompletedRunIsWhole ==
  \A r \in Runs :
    StatusRow(r) \in db =>
      /\ files[r] = {"fixture", "manifest"}
      /\ \A i \in Answered(r) :
           /\ results[r][i].id # NoId
           /\ {ExecutionRow(r, i), ScoreRow(r, i), VerdictRow(r, i)} \subseteq db

\* A reader of the database who finds a verdict of a run finds all the scores
\* of the run, and who finds a score finds all its executions: an interrupted
\* run is cut between these, never across.
StagesVisible ==
  \A x \in db :
    /\ RunRow(x.run) \in db
    /\ x.kind \in {"score", "verdict"} =>
         \A i \in WithId(x.run) : ExecutionRow(x.run, i) \in db
    /\ x.kind = "verdict" =>
         \A i \in Scored(x.run) : ScoreRow(x.run, i) \in db

\* No score or verdict is filed under the answer of another item or another
\* run, though answers may share an id.
FiledUnderOwnAnswer ==
  \A x \in db : x.kind \in {"score", "verdict"} =>
    {y \in db : y.kind = "execution" /\ y.id = x.id}
      = {Row(x.run, "execution", x.item, x.id)}

\* The status the caller is told and the run's row agree: a run reported as
\* failed has left no row, and a row that is complete is so reported.
ReportAgrees ==
  \A r \in Runs : pc[r] = "returned" =>
    /\ reported[r] = "failed" => \A x \in db : x.run # r
    /\ StatusRow(r) \in db => reported[r] = FinalStatus(r)

\* The database rejects a run only for its answers: one without an id or
\* without scores, or one whose id another answer has as well.
SharesId(r, i) == \E q \in Runs : \E j \in Answered(q) :
                    /\ <<q, j>> # <<r, i>>
                    /\ results[q][j].id = results[r][i].id
RejectedForCause ==
  \A r \in Runs : dbExc[r] = "IntegrityError" =>
    \E i \in Answered(r) : \/ results[r][i].id = NoId
                           \/ ~results[r][i].scored
                           \/ SharesId(r, i)

\* A run that starts to persist completes its row, catches an exception or
\* dies: it waits for no other run for good.
RecordSettles ==
  \A r \in Runs :
    (pc[r] = "persisting") ~> \/ StatusRow(r) \in db
                              \/ dbExc[r] # None
                              \/ pc[r] = "dead"

-----------------------------------------------------------------------------
(* What the repository's text says and the code does not do *)

\* runner.py:267: a run is persisted "if database connection is available".
PersistedIfAvailable ==
  \A r \in Runs :
    /\ pc[r] = "returned"
    /\ files[r] = {"fixture", "manifest"}
    /\ dbExc[r] # "OperationalError"
    => StatusRow(r) \in db
=============================================================================
