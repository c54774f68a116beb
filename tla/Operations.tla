----------------------------- MODULE Operations -----------------------------
(***************************************************************************)
(* The operator's tools beside a run.  They have no state in common: the   *)
(* bootstrap adds tables and columns, the backfill changes costs of rows   *)
(* and the release check changes nothing, so any order of their steps is   *)
(* an order of the steps of each, and a behaviour is that of one of them.  *)
(***************************************************************************)
EXTENDS Migrations, Backfill, ReleaseCheck

VARIABLE tool

vars == <<tool, migrationVars, backfillVars, releaseVars>>

BackfillIdle == /\ BackfillInit
                /\ costs = NoRows /\ yaml = CHOOSE l \in Lists : TRUE
ReleaseIdle == /\ faults = {} /\ raising = {} /\ world = {}
               /\ group = 1 /\ checks = [n \in {} |-> FALSE] /\ probed = FALSE
               /\ outcome = "none"

\* A tool that does not run keeps one of its initial states.
Init == /\ MigrationInit
        /\ \/ tool = "bootstrap" /\ BackfillIdle /\ ReleaseIdle
           \/ tool = "backfill" /\ BackfillInit /\ ReleaseIdle
           \/ tool = "release-check" /\ BackfillIdle /\ ReleaseInit

Over == tool = "release-check" /\ outcome # "none" /\ UNCHANGED vars

Next == \/ tool = "bootstrap" /\ Migrate /\ UNCHANGED <<tool, backfillVars, releaseVars>>
        \/ tool = "backfill" /\ Reprice /\ UNCHANGED <<tool, migrationVars, releaseVars>>
        \/ /\ tool = "release-check" /\ ReleaseStep
           /\ UNCHANGED <<tool, migrationVars, backfillVars>>
        \/ Over

Spec == Init /\ [][Next]_vars

\* Every variable of every tool holds a value of its type.
TypeOK == /\ tool \in {"bootstrap", "backfill", "release-check"}
          /\ MigrationsTypeOK /\ BackfillTypeOK /\ ReleaseTypeOK
=============================================================================
