-------------------------- MODULE BudgetedDispatch --------------------------
(***************************************************************************)
(* What the dispatch step of a run promises its caller, without semaphore, *)
(* rate limiter, retries or result list: every plan item is settled once,  *)
(* an item is handed to a provider only while the budget it sees can       *)
(* absorb its estimate and fewer than MaxConcurrent items are with a       *)
(* provider, and only an answered item adds to the recorded spend.         *)
(***************************************************************************)
EXTENDS Integers, FiniteSets

CONSTANTS Items,          \* the plan items
          Providers,      \* the model providers
          ProviderOf,     \* the provider each item is sent to
          Est,            \* the pre-flight estimate of each item
          ProviderCap,    \* cap on the recorded spend of each provider
          SpendLimit,     \* global cap less the reserve
          MaxConcurrent,  \* items that may be with a provider at once
          ActualCosts     \* what an answer may turn out to cost

VARIABLES status,  \* per item: pending, inflight, ok, refused or failed
          spend,   \* per provider: what its answers have cost
          total    \* what all answers have cost

vars == <<status, spend, total>>

InFlight == {i \in Items : status[i] = "inflight"}

Affordable(i) == /\ spend[ProviderOf[i]] + Est[i] <= ProviderCap[ProviderOf[i]]
                 /\ total + Est[i] <= SpendLimit

Become(i, from, to) == /\ status[i] = from
                       /\ status' = [status EXCEPT ![i] = to]

Init == /\ status = [i \in Items |-> "pending"]
        /\ spend = [p \in Providers |-> 0]
        /\ total = 0

HandOver(i) == /\ Affordable(i)
               /\ Cardinality(InFlight) < MaxConcurrent
               /\ Become(i, "pending", "inflight")
               /\ UNCHANGED <<spend, total>>

Refuse(i) == /\ ~Affordable(i)
             /\ Become(i, "pending", "refused")
             /\ UNCHANGED <<spend, total>>

Answer(i, c) == /\ Become(i, "inflight", "ok")
                /\ spend' = [spend EXCEPT ![ProviderOf[i]] = @ + c]
                /\ total' = total + c

Fail(i) == /\ Become(i, "inflight", "failed")
           /\ UNCHANGED <<spend, total>>

Next == \E i \in Items : \/ HandOver(i)
                         \/ Refuse(i)
                         \/ Fail(i)
                         \/ \E c \in ActualCosts : Answer(i, c)

Spec == Init /\ [][Next]_vars
=============================================================================
