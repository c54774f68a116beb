------------------------------ MODULE Backfill ------------------------------
(***************************************************************************)
(* The CLI command backfill-costs: it reads all completed executions, and  *)
(* then, in one transaction, updates those whose cost is not the one of    *)
(* models.yaml.  Meanwhile runs add executions, another backfill may be    *)
(* under way, and models.yaml may be edited.  A process loads its prices   *)
(* once; a model without a price costs nothing.                            *)
(***************************************************************************)
EXTENDS Integers

CONSTANTS Rows,       \* ids of executions
          Backfills,  \* processes that run the command
          Lists       \* contents of models.yaml: what each row's tokens cost

ASSUME BackfillAssumption == Lists # {}

VARIABLES costs,    \* estimated_cost_usd of the completed executions
          yaml,     \* models.yaml now
          step,     \* where each backfill is
          read,     \* what its SELECT returned
          prices,   \* the prices it has loaded
          crossed   \* history: the prices others have committed since it read

backfillVars == <<costs, yaml, step, read, prices, crossed>>

NoRows == [r \in {} |-> 0]

\* A database with the costs of some earlier models.yaml.
BackfillInit == /\ yaml \in Lists
                /\ \E l \in Lists, rs \in SUBSET Rows : costs = [r \in rs |-> l[r]]
                /\ step = [f \in Backfills |-> "idle"]
                /\ read = [f \in Backfills |-> NoRows]
                /\ prices = [f \in Backfills |-> yaml]
                /\ crossed = [f \in Backfills |-> {}]

\* SELECT and fetchall; no transaction stays open.  Nothing to do without rows.
Read(f) ==
  /\ step[f] = "idle"
  /\ read' = [read EXCEPT ![f] = costs]
  /\ crossed' = [crossed EXCEPT ![f] = {}]
  /\ step' = [step EXCEPT ![f] = IF costs = NoRows THEN "done" ELSE "read"]
  /\ UNCHANGED <<costs, yaml, prices>>

\* The first estimate loads models.yaml: the cache was cleared before.
LoadPrices(f) ==
  /\ step[f] = "read"
  /\ prices' = [prices EXCEPT ![f] = yaml]
  /\ step' = [step EXCEPT ![f] = "priced"]
  /\ UNCHANGED <<costs, yaml, read, crossed>>

\* The rows to update are found by what was read, not by what is there now.
Stale(f) == {r \in DOMAIN read[f] : read[f][r] # prices[f][r]}
Crossing(f) == {o \in Backfills \ {f} : step[o] \in {"read", "priced", "committed"}}
Cross(f) == crossed' = [o \in Backfills |-> IF o \in Crossing(f)
                                             THEN crossed[o] \cup {prices[f]} ELSE crossed[o]]
Commit_RaisesOnly(f) ==
  /\ step[f] = "priced"
  /\ costs' = [r \in DOMAIN costs |-> IF r \in Stale(f) /\ prices[f][r] > read[f][r]
                                      THEN prices[f][r] ELSE costs[r]]
  /\ Cross(f)
  /\ step' = [step EXCEPT ![f] = "committed"]
  /\ UNCHANGED <<yaml, read, prices>>
Commit(f) ==
  /\ step[f] = "priced"
  /\ costs' = [r \in DOMAIN costs |-> IF r \in Stale(f) THEN prices[f][r] ELSE costs[r]]
  /\ Cross(f)
  /\ step' = [step EXCEPT ![f] = "committed"]
  /\ UNCHANGED <<yaml, read, prices>>

\* --dry-run, a locked database, a row without a cost or a kill: the updates so
\* far are rolled back with the connection.
Leave(f) ==
  /\ step[f] \in {"read", "priced"}
  /\ step' = [step EXCEPT ![f] = "done"]
  /\ UNCHANGED <<costs, yaml, read, prices, crossed>>

RunBackfillAgain(f) ==
  /\ step[f] \in {"committed", "done"}
  /\ step' = [step EXCEPT ![f] = "idle"]
  /\ UNCHANGED <<costs, yaml, read, prices, crossed>>

\* A run stores an execution, priced by what models.yaml was at its start.
Record(r, l) ==
  /\ r \notin DOMAIN costs
  /\ costs' = [x \in DOMAIN costs \cup {r} |-> IF x = r THEN l[r] ELSE costs[x]]
  /\ UNCHANGED <<yaml, step, read, prices, crossed>>

Edit(l) == yaml' = l /\ UNCHANGED <<costs, step, read, prices, crossed>>

Reprice == \/ \E f \in Backfills : \/ Read(f) \/ LoadPrices(f) \/ Commit(f)
                                   \/ Leave(f) \/ RunBackfillAgain(f)
           \/ \E l \in Lists : Edit(l) \/ \E r \in Rows : Record(r, l)

-----------------------------------------------------------------------------
(* Properties *)

BackfillTypeOK ==
  /\ yaml \in Lists /\ prices \in [Backfills -> Lists]
  /\ DOMAIN costs \subseteq Rows
  /\ step \in [Backfills -> {"idle", "read", "priced", "committed", "done"}]
  /\ \A f \in Backfills : DOMAIN read[f] \subseteq DOMAIN costs
  /\ crossed \in [Backfills -> SUBSET Lists]

\* Once a backfill has committed, the rows it read cost what its models.yaml
\* says or what that of another one says which has committed since its SELECT,
\* and nothing older, although it decided by stale costs which rows to update.
\* So backfills that cross under one models.yaml do each other no harm; under
\* an edit of it they may leave rows by the prices of either.
BackfillStands ==
  \A f \in Backfills : step[f] = "committed" =>
    \A r \in DOMAIN read[f] : \E l \in {prices[f]} \cup crossed[f] : costs[r] = l[r]
=============================================================================
