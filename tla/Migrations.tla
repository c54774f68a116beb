----------------------------- MODULE Migrations -----------------------------
(***************************************************************************)
(* scripts/bootstrap.py: apply_schema and apply_migrations, run by several *)
(* processes on one database file.  executescript commits every statement  *)
(* by itself, so a statement is a step, another process may come between   *)
(* any two of them, and a process may stop before any: it is killed, or    *)
(* the statement fails because the file is locked or cannot be written.    *)
(***************************************************************************)
EXTENDS Integers, Sequences, FiniteSets

CONSTANTS Bootstraps,  \* processes that run the script, again and again
          MaxStops     \* bounds the number of processes that stop half-way

VARIABLES tables,    \* schema.sql has been applied
          columns,   \* columns the third migration has added to executions
          marks,     \* migrations recorded in _migrations
          at,        \* where each process is: file and line of its script
          stops,     \* processes that have stopped half-way so far
          disturbed  \* history: a process stopped inside the third script,
                     \* or two of them were inside it at once

ASSUME MigrationsAssumption == MaxStops \in Nat

migrationVars == <<tables, columns, marks, at, stops, disturbed>>

NewColumns == {"error_type", "error_message", "configured_model", "returned_model"}

\* The statements of the migration files.  CREATE ... IF NOT EXISTS and INSERT
\* OR IGNORE do nothing the second time; ADD COLUMN has no such form.
Scripts == << <<"record">>,
              <<"view", "record">>,
              <<"error_type", "error_message", "configured_model",
                "returned_model", "record">> >>

Place(file, line) == [file |-> file, line |-> line]
Ready == Place(0, 0)
Done == Place(Len(Scripts) + 1, 0)
DuplicateColumn == Place(0, 1)

\* Between the SELECT of a migration and the end of its script.
Inside(place) == place.file \in 1..Len(Scripts) /\ place.line > 0
InsideThird(place) == place.file = 3 /\ place.line > 0

MigrationInit == /\ tables = FALSE /\ columns = {} /\ marks = {}
                 /\ at = [b \in Bootstraps |-> Ready]
                 /\ stops = 0 /\ disturbed = FALSE

-----------------------------------------------------------------------------
\* Idempotent statement by statement, the tracking table's included.
ApplySchema(b) ==
  /\ at[b] = Ready
  /\ tables' = TRUE
  /\ at' = [at EXCEPT ![b] = Place(1, 0)]
  /\ UNCHANGED <<columns, marks, stops, disturbed>>

\* SELECT id FROM _migrations: an applied migration is skipped.
SelectMigration_Reapplies(b) ==
  /\ at[b].file \in 1..Len(Scripts) /\ at[b].line = 0
  /\ at' = [at EXCEPT ![b].line = 1]
  /\ disturbed' = (disturbed \/ (at[b].file = 3 /\ \E o \in Bootstraps : InsideThird(at[o])))
  /\ UNCHANGED <<tables, columns, marks, stops>>
SelectMigration(b) ==
  /\ at[b].file \in 1..Len(Scripts) /\ at[b].line = 0
  /\ IF at[b].file \in marks
     THEN /\ at' = [at EXCEPT ![b].file = @ + 1]
          /\ UNCHANGED disturbed
     ELSE /\ at' = [at EXCEPT ![b].line = 1]
          /\ disturbed' = (disturbed \/ (at[b].file = 3 /\ \E o \in Bootstraps : InsideThird(at[o])))
  /\ UNCHANGED <<tables, columns, marks, stops>>

\* One statement of the script; an added column that exists raises.
Execute(b) ==
  LET script == Scripts[at[b].file]
      statement == script[at[b].line]
  IN  /\ Inside(at[b])
      /\ IF statement \in columns
         THEN /\ at' = [at EXCEPT ![b] = DuplicateColumn]
              /\ UNCHANGED <<columns, marks>>
         ELSE /\ columns' = columns \cup ({statement} \cap NewColumns)
              /\ marks' = IF statement = "record" THEN marks \cup {at[b].file} ELSE marks
              /\ at' = [at EXCEPT ![b] = IF at[b].line < Len(script)
                                         THEN Place(at[b].file, at[b].line + 1)
                                         ELSE Place(at[b].file + 1, 0)]
      /\ UNCHANGED <<tables, stops, disturbed>>

\* Killed, or a statement raises for a reason that is not in the script: nothing
\* is undone, for nothing is open.
Stop(b) == /\ stops < MaxStops /\ at[b] \notin {Ready, Done, DuplicateColumn}
           /\ stops' = stops + 1
           /\ at' = [at EXCEPT ![b] = Ready]
           /\ disturbed' = (disturbed \/ InsideThird(at[b]))
           /\ UNCHANGED <<tables, columns, marks>>

\* Somebody runs the script once more.
RunAgain(b) == /\ at[b] \in {Done, DuplicateColumn}
               /\ at' = [at EXCEPT ![b] = Ready]
               /\ UNCHANGED <<tables, columns, marks, stops, disturbed>>

Migrate == \E b \in Bootstraps : \/ ApplySchema(b) \/ SelectMigration(b) \/ Execute(b)
                                 \/ Stop(b) \/ RunAgain(b)

-----------------------------------------------------------------------------
(* Properties *)

MigrationsTypeOK ==
  /\ tables \in BOOLEAN /\ disturbed \in BOOLEAN
  /\ columns \subseteq NewColumns /\ marks \subseteq 1..Len(Scripts)
  /\ at \in [Bootstraps -> [file : 0..4, line : 0..5]]
  /\ stops \in 0..MaxStops

\* A migration on record is there as a whole, on a database with its schema, in
\* the order of the files; and the script fails on its own columns only where
\* one stopped inside it (killed, or refused a lock or a write) or two were inside
\* it at once, however often and by however many processes it is run.
MigrationsWhole ==
  /\ 3 \in marks => columns = NewColumns
  /\ marks # {} => tables
  /\ \A m \in marks : 1..m \subseteq marks
  /\ ~disturbed => \A b \in Bootstraps : at[b] # DuplicateColumn
=============================================================================
