------------------------------ MODULE Dispatch ------------------------------
(***************************************************************************)
(* The dispatch step of Runner.run: one asyncio task per plan item, all    *)
(* created in plan order by asyncio.gather, sharing a FIFO semaphore, the  *)
(* CostGuard, the result list and the run metrics.  An action is what a    *)
(* task does between two awaits that suspend, so the check of the budget   *)
(* and the sending of the request are one step, and so are the recording   *)
(* of the spend, of the result and of the metrics and the release of the   *)
(* slot.  The awaits that interleave tasks are the semaphore, the rate     *)
(* limiter, the provider call and the backoff sleep of BaseAdapter.        *)
(*                                                                         *)
(* Amounts are integers.  The rate limiter may delay a task for any time   *)
(* (module TokenBucket models it); a provider answers at some cost, fails  *)
(* for good, or fails or times out in a way BaseAdapter retries.           *)
(***************************************************************************)
EXTENDS Integers, Sequences, FiniteSets, FiniteSetsExt

CONSTANTS Providers,      \* provider names with a key and an adapter
          PlanLength,     \* number of items build_plan returned
          ProviderOf,     \* provider of each item
          Est,            \* estimate for one case, one attempt, 500 tokens in
          MinEst,         \* a lower bound of Est
          ActualCosts,    \* what an answered request may cost; can exceed Est
          MaxCost,        \* an upper bound of ActualCosts
          ProviderCap,    \* budgets.yaml maximum_usd
          GlobalCap,      \* budgets.yaml maximum_total_usd
          Reserve,        \* budgets.yaml reserve_usd
          MaxConcurrent,  \* RunConfig.max_concurrent
          MaxAttempts     \* retry.yaml max_attempts

Items == 1..PlanLength

ASSUME PlanAssumption ==
  /\ PlanLength \in Nat
  /\ ProviderOf \in [Items -> Providers]
  /\ Est \in [Items -> Nat]
  /\ MinEst \in Nat
  /\ \A i \in Items : MinEst <= Est[i]

ASSUME CostAssumption ==
  /\ MaxCost \in Nat
  /\ ActualCosts \subseteq 0..MaxCost
  /\ MinEst <= MaxCost  \* an answer may use all the tokens the estimate grants

ASSUME ConfigAssumption ==
  /\ ProviderCap \in [Providers -> Nat]
  /\ GlobalCap \in Nat
  /\ Reserve \in 0..GlobalCap
  /\ MaxConcurrent \in Nat \ {0}
  /\ MaxAttempts \in Nat \ {0}

VARIABLES pc,             \* where the task of each item stands
          attempt,        \* attempts BaseAdapter.generate has made for it
          slots,          \* free slots of the semaphore
          providerSpend,  \* CostGuard._provider_spend
          globalSpend,    \* CostGuard._global_spend
          results,        \* the list the run is scored and persisted from
          metrics         \* the counters of RunMetrics

guardVars == <<providerSpend, globalSpend>>
bookVars == <<guardVars, results, metrics>>
vars == <<pc, attempt, slots, bookVars>>

OutcomeKinds == {"ok", "provider_cap", "global_cap", "error"}
Refusals == {"provider_cap", "global_cap"}

-----------------------------------------------------------------------------
(* CostGuard *)

EffectiveGlobalCap == GlobalCap - Reserve

ExceedsProvider_NoEstimate(p, est) == providerSpend[p] > ProviderCap[p]
ExceedsProvider(p, est) == providerSpend[p] + est > ProviderCap[p]

ExceedsGlobal_NoReserve(est) == globalSpend + est > GlobalCap
ExceedsGlobal(est) == globalSpend + est > EffectiveGlobalCap

RecordSpend_Overwrites(p, c) ==
  /\ providerSpend' = [providerSpend EXCEPT ![p] = c]
  /\ globalSpend' = globalSpend + c
RecordSpend(p, c) == /\ providerSpend' = [providerSpend EXCEPT ![p] = @ + c]
                     /\ globalSpend' = globalSpend + c

-----------------------------------------------------------------------------
(* RunMetrics *)

RecordSuccess(c) ==
  metrics' = [successes |-> metrics.successes + 1,
              errors |-> metrics.errors,
              cost |-> metrics.cost + c]

RecordError == metrics' = [metrics EXCEPT !.errors = @ + 1]

-----------------------------------------------------------------------------
(* The task of one plan item *)

Goto(i, from, to) == /\ pc[i] = from
                     /\ pc' = [pc EXCEPT ![i] = to]

\* The task appends its result and leaves the semaphore, all in one step.
Settle_LeaksOnError(i, from, kind, c) ==
  /\ Goto(i, from, "done")
  /\ results' = Append(results, [item |-> i, kind |-> kind, cost |-> c])
  /\ slots' = IF kind = "error" THEN slots ELSE slots + 1
Settle(i, from, kind, c) ==
  /\ Goto(i, from, "done")
  /\ results' = Append(results, [item |-> i, kind |-> kind, cost |-> c])
  /\ slots' = slots + 1

\* Tasks start, and are woken by the semaphore, in plan order.
Enter(i) ==
  /\ slots > 0
  /\ \A j \in Items : j < i => pc[j] # "queued"
  /\ Goto(i, "queued", "acquiring")
  /\ slots' = slots - 1
  /\ UNCHANGED <<attempt, bookVars>>

Affordable_ProviderOnly(i) == ~ExceedsProvider(ProviderOf[i], Est[i])
Affordable(i) == /\ ~ExceedsProvider(ProviderOf[i], Est[i])
                 /\ ~ExceedsGlobal(Est[i])

\* The limiter returned, check_provider raised: a result, no request.
Refuse(i) ==
  /\ \/ /\ ExceedsProvider(ProviderOf[i], Est[i])
        /\ Settle(i, "acquiring", "provider_cap", 0)
     \/ /\ ~ExceedsProvider(ProviderOf[i], Est[i])
        /\ ExceedsGlobal(Est[i])
        /\ Settle(i, "acquiring", "global_cap", 0)
  /\ RecordError
  /\ UNCHANGED <<attempt, guardVars>>

\* The limiter returned, check_provider passed: the first attempt goes out.
Send(i) ==
  /\ Affordable(i)
  /\ Goto(i, "acquiring", "calling")
  /\ attempt' = [attempt EXCEPT ![i] = 1]
  /\ UNCHANGED <<slots, bookVars>>

Succeed(i, c) ==
  /\ Settle(i, "calling", "ok", c)
  /\ RecordSpend(ProviderOf[i], c)
  /\ RecordSuccess(c)
  /\ UNCHANGED attempt

\* A non-retryable or unknown error leaves generate at once.
FailForGood(i) ==
  /\ Settle(i, "calling", "error", 0)
  /\ RecordError
  /\ UNCHANGED <<attempt, guardVars>>

AttemptsLeft_OffByOne(i) == attempt[i] <= MaxAttempts
AttemptsLeft(i) == attempt[i] < MaxAttempts

\* A timeout or a retryable error, with attempts left: sleep, slot held.
BackOff_Reports(i) ==
  /\ AttemptsLeft(i)
  /\ Goto(i, "calling", "backoff")
  /\ results' = Append(results, [item |-> i, kind |-> "error", cost |-> 0])
  /\ UNCHANGED <<attempt, slots, guardVars, metrics>>
BackOff(i) ==
  /\ AttemptsLeft(i)
  /\ Goto(i, "calling", "backoff")
  /\ UNCHANGED <<attempt, slots, bookVars>>

\* The next attempt: neither the limiter nor the guard is asked again.
Resend(i) ==
  /\ Goto(i, "backoff", "calling")
  /\ attempt' = [attempt EXCEPT ![i] = @ + 1]
  /\ UNCHANGED <<slots, bookVars>>

\* A timeout or a retryable error on the last attempt: generate raises it.
GiveUp(i) ==
  /\ ~AttemptsLeft(i)
  /\ Settle(i, "calling", "error", 0)
  /\ RecordError
  /\ UNCHANGED <<attempt, guardVars>>

-----------------------------------------------------------------------------
Init == /\ pc = [i \in Items |-> "queued"]
        /\ attempt = [i \in Items |-> 0]
        /\ slots = MaxConcurrent
        /\ providerSpend = [p \in Providers |-> 0]
        /\ globalSpend = 0
        /\ results = <<>>
        /\ metrics = [successes |-> 0, errors |-> 0, cost |-> 0]

Task(i) == \/ Enter(i)
           \/ Refuse(i)
           \/ Send(i)
           \/ \E c \in ActualCosts : Succeed(i, c)
           \/ FailForGood(i)
           \/ BackOff(i)
           \/ Resend(i)
           \/ GiveUp(i)

\* gather has returned: the component has nothing left to do.
Gathered == /\ \A i \in Items : pc[i] = "done"
            /\ UNCHANGED vars

Next == Gathered \/ \E i \in Items : Task(i)

\* The event loop runs every ready task, and every await ends: the limiter
\* refills, wait_for bounds a provider call, the backoff sleep is finite.
Fairness == \A i \in Items : WF_vars(Task(i))

Spec == Init /\ [][Next]_vars /\ Fairness
-----------------------------------------------------------------------------
(* Properties *)

Holding == {i \in Items : pc[i] \in {"acquiring", "calling", "backoff"}}
InFlight == {i \in Items : pc[i] \in {"calling", "backoff"}}
InFlightOf(p) == {i \in InFlight : ProviderOf[i] = p}
Answers == {k \in DOMAIN results : results[k].kind = "ok"}
AnswersOf(p) == {k \in Answers : ProviderOf[results[k].item] = p}
CostOf(ks) == SumFunctionOnSet([k \in ks |-> results[k].cost], ks)

\* Every variable holds a value of its type; no item exceeds max_attempts.
TypeOK ==
  /\ pc \in [Items -> {"queued", "acquiring", "calling", "backoff", "done"}]
  /\ attempt \in [Items -> 0..MaxAttempts]
  /\ slots \in 0..MaxConcurrent
  /\ providerSpend \in [Providers -> Nat]
  /\ globalSpend \in Nat
  /\ results \in Seq([item : Items, kind : OutcomeKinds, cost : Nat])
  /\ metrics \in [successes : Nat, errors : Nat, cost : Nat]

\* No exit of a task, neither answer, refusal nor error, leaks or doubles a
\* slot of the semaphore (_dispatch's async with).
SlotsConserved == slots + Cardinality(Holding) = MaxConcurrent

\* The result list names every finished item once and no other, whatever the
\* number of attempts it took (the list is what is scored and persisted).
OneResultPerItem ==
  /\ \A k, l \in DOMAIN results :
       results[k].item = results[l].item => k = l
  /\ {results[k].item : k \in DOMAIN results} = {i \in Items : pc[i] = "done"}

\* The cost the guard tracks per provider, its global total, the total in the
\* metrics and the answers in the result list agree at every await.
SpendAccounted ==
  /\ \A p \in Providers : providerSpend[p] = CostOf(AnswersOf(p))
  /\ globalSpend = CostOf(Answers)
  /\ metrics.cost = globalSpend
  /\ metrics.successes = Cardinality(Answers)
  /\ metrics.errors = Len(results) - metrics.successes

\* The worst a cap can meet: what is spent, n items with a provider at their
\* dearest, against the cap, the last estimate it admitted and a full semaphore.
Bounded(spend, cap, n) ==
  spend + MaxCost * n <= cap - MinEst + MaxConcurrent * MaxCost

\* How far concurrent tasks that all passed check_provider before any of them
\* recorded its spend can carry a provider beyond its cap.
ProviderOvershootBounded ==
  \A p \in Providers :
    Bounded(providerSpend[p], ProviderCap[p], Cardinality(InFlightOf(p)))

\* The same for the global cap less the reserve.
GlobalOvershootBounded ==
  Bounded(globalSpend, EffectiveGlobalCap, Cardinality(InFlight))

\* A refusal is never overtaken by events: the cap that refused an item would
\* refuse it at any later time of the run, so refusing instead of waiting
\* loses nothing.
RefusalStands ==
  \A k \in DOMAIN results :
    LET i == results[k].item
    IN  /\ results[k].kind = "provider_cap" =>
             ExceedsProvider(ProviderOf[i], Est[i])
        /\ results[k].kind = "global_cap" => ExceedsGlobal(Est[i])

\* gather returns: no slot, retry or limiter wait strands an item.
EveryItemSettles == \A i \in Items : <>(pc[i] = "done")

\* The task of an item, seen as what the caller is promised of it.
HasResult(i, kinds) == \E k \in DOMAIN results : /\ results[k].item = i
                                                 /\ results[k].kind \in kinds
Status(i) == IF pc[i] \in {"queued", "acquiring"} THEN "pending"
             ELSE IF pc[i] \in {"calling", "backoff"} THEN "inflight"
             ELSE IF HasResult(i, {"ok"}) THEN "ok"
             ELSE IF HasResult(i, Refusals) THEN "refused"
             ELSE "failed"

Promise == INSTANCE BudgetedDispatch
  WITH status <- [i \in Items |-> Status(i)],
       spend <- providerSpend,
       total <- globalSpend,
       SpendLimit <- EffectiveGlobalCap

\* Dispatch implements its promise.
ImplementsPromise == Promise!Spec

-----------------------------------------------------------------------------
(* What the repository's text says and the code does not do *)

\* cost_guard.py:4-5: no request that would exceed a cap is sent, "so there
\* is no overspend".
NoOverspend == /\ \A p \in Providers : providerSpend[p] <= ProviderCap[p]
               /\ globalSpend <= EffectiveGlobalCap

\* rate_limiter.py:5: the limiter "is consulted before every request
\* dispatch".  A task consults it once, on its way out of "acquiring".
ConsultedFor(p) ==
  {i \in Items : ProviderOf[i] = p /\ pc[i] \notin {"queued", "acquiring"}}
LimiterSeesEveryRequest ==
  \A p \in Providers :
    MapThenSumSet(LAMBDA i : attempt[i], {i \in Items : ProviderOf[i] = p})
      <= Cardinality(ConsultedFor(p))
=============================================================================
