--------------------------- MODULE Dispatch_proofs ---------------------------
(***************************************************************************)
(* What Dispatch guarantees for every plan, cost table and configuration.  *)
(*                                                                         *)
(* Types and slots are proved together: the number of free slots stays in  *)
(* range because it complements the tasks that hold one, and the attempt   *)
(* counter stays in range because a task in backoff has attempts left.     *)
(* Everything else builds on that invariant, SlotInv.                      *)
(***************************************************************************)
EXTENDS Dispatch, FiniteSetTheorems, SumTheorems, TLAPS

USE DEF Items

BackOffHasAttempts == \A i \in Items : pc[i] = "backoff" => attempt[i] < MaxAttempts

SlotInv == TypeOK /\ SlotsConserved /\ BackOffHasAttempts

LEMMA SubsetsFinite ==
  ASSUME NEW S \in SUBSET Items
  PROVE  IsFiniteSet(S) /\ Cardinality(S) \in Nat
<1>1. IsFiniteSet(1..PlanLength)
  BY PlanAssumption, FS_Interval
<1>2. IsFiniteSet(S)
  BY <1>1, FS_Subset
<1> QED BY <1>2, FS_CardinalityType

-----------------------------------------------------------------------------
(* What a step does to the sets the invariants count *)

LEMMA EnterGrowsHolding ==
  ASSUME TypeOK, NEW i \in Items, Enter(i)
  PROVE  /\ i \notin Holding
         /\ Holding' = Holding \cup {i}
         /\ Cardinality(Holding') = Cardinality(Holding) + 1
<1>1. i \notin Holding /\ Holding' = Holding \cup {i}
  BY DEF TypeOK, Enter, Goto, Holding
<1>2. IsFiniteSet(Holding)
  BY SubsetsFinite DEF Holding
<1> QED BY <1>1, <1>2, FS_AddElement

LEMMA SettleShrinksHolding ==
  ASSUME TypeOK, NEW i \in Items, NEW from \in {"acquiring", "calling"},
         NEW kind, NEW c, Settle(i, from, kind, c)
  PROVE  /\ i \in Holding
         /\ Holding' = Holding \ {i}
         /\ Cardinality(Holding') = Cardinality(Holding) - 1
<1>1. i \in Holding /\ Holding' = Holding \ {i}
  BY DEF TypeOK, Settle, Goto, Holding
<1>2. IsFiniteSet(Holding)
  BY SubsetsFinite DEF Holding
<1> QED BY <1>1, <1>2, FS_RemoveElement

\* A step that settles the task of one item.
Settling(i) == \/ Refuse(i)
               \/ \E c \in ActualCosts : Succeed(i, c)
               \/ FailForGood(i)
               \/ GiveUp(i)

\* A step that moves a task between states in which it holds its slot.
Working(i) == Send(i) \/ BackOff(i) \/ Resend(i)

LEMMA TaskCases ==
  ASSUME NEW i \in Items, Task(i)
  PROVE  Enter(i) \/ Settling(i) \/ Working(i)
BY DEF Task, Settling, Working

LEMMA SettlingSettles ==
  ASSUME NEW i \in Items, Settling(i)
  PROVE  \E from \in {"acquiring", "calling"}, kind \in OutcomeKinds, c \in Nat :
           Settle(i, from, kind, c)
BY CostAssumption
   DEF Settling, Refuse, Succeed, FailForGood, GiveUp, OutcomeKinds

LEMMA SettlingBooks ==
  ASSUME TypeOK, NEW i \in Items, Settling(i)
  PROVE  /\ providerSpend' \in [Providers -> Nat]
         /\ globalSpend' \in Nat
         /\ metrics' \in [successes : Nat, errors : Nat, cost : Nat]
<1>t. /\ providerSpend \in [Providers -> Nat]
      /\ globalSpend \in Nat
      /\ metrics \in [successes : Nat, errors : Nat, cost : Nat]
  BY DEF TypeOK
<1>1. ASSUME NEW c \in ActualCosts, Succeed(i, c)
      PROVE  /\ providerSpend' \in [Providers -> Nat]
             /\ globalSpend' \in Nat
             /\ metrics' \in [successes : Nat, errors : Nat, cost : Nat]
  <2>1. c \in Nat /\ ProviderOf[i] \in Providers
    BY PlanAssumption, CostAssumption
  <2>2. providerSpend' \in [Providers -> Nat] /\ globalSpend' \in Nat
    BY <1>1, <1>t, <2>1 DEF Succeed, RecordSpend
  <2>3. metrics' \in [successes : Nat, errors : Nat, cost : Nat]
    BY <1>1, <1>t, <2>1 DEF Succeed, RecordSuccess
  <2> QED BY <2>2, <2>3
<1>2. CASE Refuse(i) \/ FailForGood(i) \/ GiveUp(i)
  <2>1. UNCHANGED <<providerSpend, globalSpend>>
    BY <1>2 DEF Refuse, FailForGood, GiveUp, guardVars
  <2>2. metrics' = [metrics EXCEPT !.errors = @ + 1]
    BY <1>2 DEF Refuse, FailForGood, GiveUp, RecordError
  <2> QED BY <2>1, <2>2, <1>t
<1> QED BY <1>1, <1>2 DEF Settling

-----------------------------------------------------------------------------
LEMMA InitSlotInv == Init => SlotInv
<1> SUFFICES ASSUME Init PROVE SlotInv
  OBVIOUS
<1> USE PlanAssumption, ConfigAssumption
<1>1. Holding = {}
  BY DEF Init, Holding
<1>2. SlotsConserved
  BY <1>1, FS_EmptySet DEF Init, SlotsConserved
<1>3. TypeOK
  BY DEF Init, TypeOK
<1>4. BackOffHasAttempts
  BY DEF Init, BackOffHasAttempts
<1> QED BY <1>2, <1>3, <1>4 DEF SlotInv

LEMMA NextSlotInv == SlotInv /\ [Next]_vars => SlotInv'
<1> SUFFICES ASSUME SlotInv, [Next]_vars PROVE SlotInv'
  OBVIOUS
<1> USE PlanAssumption, CostAssumption, ConfigAssumption
<1>t. TypeOK /\ SlotsConserved /\ BackOffHasAttempts
  BY DEF SlotInv
<1>f. Cardinality(Holding) \in Nat /\ Cardinality(Holding') \in Nat
  BY SubsetsFinite DEF Holding
<1>1. ASSUME NEW i \in Items, Enter(i) PROVE SlotInv'
  <2>1. SlotsConserved'
    <3>1. Cardinality(Holding') = Cardinality(Holding) + 1
      BY <1>1, <1>t, EnterGrowsHolding
    <3>2. slots' = slots - 1 /\ slots \in Nat
      BY <1>1, <1>t DEF Enter, TypeOK
    <3> QED BY <3>1, <3>2, <1>t, <1>f DEF SlotsConserved
  <2>2. TypeOK'
    BY <1>1, <1>t DEF TypeOK, Enter, Goto, bookVars, guardVars
  <2>3. BackOffHasAttempts'
    BY <1>1, <1>t DEF TypeOK, BackOffHasAttempts, Enter, Goto
  <2> QED BY <2>1, <2>2, <2>3 DEF SlotInv
<1>2. ASSUME NEW i \in Items, Settling(i) PROVE SlotInv'
  <2>1. PICK from \in {"acquiring", "calling"}, kind \in OutcomeKinds, c \in Nat :
          Settle(i, from, kind, c)
    BY <1>2, SettlingSettles
  <2>2. SlotsConserved'
    <3>1. Cardinality(Holding') = Cardinality(Holding) - 1
      BY <2>1, <1>t, SettleShrinksHolding
    <3>2. slots' = slots + 1 /\ slots \in Nat
      BY <2>1, <1>t DEF Settle, TypeOK
    <3> QED BY <3>1, <3>2, <1>t, <1>f DEF SlotsConserved
  <2>3. attempt' = attempt
    BY <1>2 DEF Settling, Refuse, Succeed, FailForGood, GiveUp
  <2>4. /\ pc' = [pc EXCEPT ![i] = "done"]
        /\ results' = Append(results, [item |-> i, kind |-> kind, cost |-> c])
        /\ slots' = slots + 1
    BY <2>1 DEF Settle, Goto
  <2>5. /\ providerSpend' \in [Providers -> Nat]
        /\ globalSpend' \in Nat
        /\ metrics' \in [successes : Nat, errors : Nat, cost : Nat]
    BY <1>2, <1>t, SettlingBooks
  <2>6. slots' \in 0..MaxConcurrent
    BY <2>2, <2>4, <1>t, <1>f DEF TypeOK, SlotsConserved
  <2>7. TypeOK'
    <3>1. results' \in Seq([item : Items, kind : OutcomeKinds, cost : Nat])
      BY <2>1, <2>4, <1>t DEF TypeOK
    <3> QED BY <3>1, <2>3, <2>4, <2>5, <2>6, <1>t DEF TypeOK
  <2>8. BackOffHasAttempts'
    BY <2>3, <2>4, <1>t DEF TypeOK, BackOffHasAttempts
  <2> QED BY <2>2, <2>7, <2>8 DEF SlotInv
<1>3. ASSUME NEW i \in Items, Working(i) PROVE SlotInv'
  <2>1. Holding' = Holding /\ slots' = slots
    BY <1>3, <1>t DEF TypeOK, Working, Send, BackOff, Resend, Goto, Holding
  <2>2. SlotsConserved'
    BY <2>1, <1>t DEF SlotsConserved
  <2>3. /\ pc' \in [Items -> {"queued", "acquiring", "calling", "backoff", "done"}]
        /\ UNCHANGED <<slots, providerSpend, globalSpend, results, metrics>>
    BY <1>3, <1>t
       DEF TypeOK, Working, Send, BackOff, Resend, Goto, bookVars, guardVars
  <2>4. attempt' \in [Items -> 0..MaxAttempts] /\ BackOffHasAttempts'
    <3>1. CASE Send(i)
      <4>1. attempt' = [attempt EXCEPT ![i] = 1] /\ pc' = [pc EXCEPT ![i] = "calling"]
        BY <3>1 DEF Send, Goto
      <4> QED BY <4>1, <1>t DEF TypeOK, BackOffHasAttempts
    <3>2. CASE BackOff(i)
      BY <3>2, <1>t DEF TypeOK, BackOffHasAttempts, BackOff, AttemptsLeft, Goto
    <3>3. CASE Resend(i)
      <4>1. /\ attempt' = [attempt EXCEPT ![i] = attempt[i] + 1]
            /\ pc' = [pc EXCEPT ![i] = "calling"]
            /\ attempt[i] + 1 \in 0..MaxAttempts
        BY <3>3, <1>t DEF Resend, Goto, TypeOK, BackOffHasAttempts
      <4> QED BY <4>1, <1>t DEF TypeOK, BackOffHasAttempts
    <3> QED BY <3>1, <3>2, <3>3, <1>3 DEF Working
  <2>5. TypeOK'
    BY <2>3, <2>4, <1>t DEF TypeOK
  <2> QED BY <2>2, <2>4, <2>5 DEF SlotInv
<1>4. CASE UNCHANGED vars
  <2>1. Holding' = Holding
    BY <1>4 DEF vars, Holding
  <2> QED BY <1>4, <2>1, <1>t
        DEF SlotInv, TypeOK, SlotsConserved, BackOffHasAttempts, vars, bookVars, guardVars
<1> QED BY <1>1, <1>2, <1>3, <1>4, TaskCases DEF Next, Gathered

LEMMA SlotSafety == Spec => []SlotInv
BY InitSlotInv, NextSlotInv, PTL DEF Spec

\* Every variable keeps its type, whatever the plan and the answers: in
\* particular no item makes more than max_attempts attempts (generate) and the
\* semaphore counter never leaves its range.
THEOREM TypeCorrect == Spec => []TypeOK
BY SlotSafety, PTL DEF SlotInv

\* No path out of _dispatch leaks or doubles a slot of the semaphore.
THEOREM SlotsAreConserved == Spec => []SlotsConserved
BY SlotSafety, PTL DEF SlotInv

-----------------------------------------------------------------------------
(***************************************************************************)
(* How far concurrency can carry a run beyond a cap.  An item with its     *)
(* provider is counted at MaxCost: sending it is where the bound is        *)
(* established, since the guard saw room for its estimate and the          *)
(* semaphore admits MaxConcurrent - 1 others; its answer moves at most     *)
(* MaxCost from the count to the spend.                                    *)
(***************************************************************************)

LEMMA ProductMonotone ==
  ASSUME NEW m \in Nat, NEW k \in Nat, NEW n \in Nat, k <= n
  PROVE  m * k <= n * m
OBVIOUS

LEMMA ProductPredecessor ==
  ASSUME NEW m \in Nat, NEW k \in Nat
  PROVE  m * (k - 1) = m * k - m
OBVIOUS

LEMMA RoomInFlight ==
  ASSUME SlotInv, NEW i \in Items, pc[i] = "acquiring", NEW S \in SUBSET InFlight
  PROVE  Cardinality(S) + 1 <= MaxConcurrent
<1>1. S \cup {i} \subseteq Holding /\ i \notin S
  BY DEF InFlight, Holding
<1>2. IsFiniteSet(S) /\ IsFiniteSet(Holding) /\ Cardinality(S) \in Nat
      /\ Cardinality(Holding) \in Nat
  BY SubsetsFinite DEF InFlight, Holding
<1>3. Cardinality(S \cup {i}) = Cardinality(S) + 1
  BY <1>1, <1>2, FS_AddElement
<1>4. Cardinality(S \cup {i}) <= Cardinality(Holding)
  BY <1>1, <1>2, FS_Subset
<1>5. slots \in Nat /\ slots + Cardinality(Holding) = MaxConcurrent
  BY DEF SlotInv, TypeOK, SlotsConserved
<1> QED BY <1>2, <1>3, <1>4, <1>5, ConfigAssumption

LEMMA SendGrowsInFlight ==
  ASSUME TypeOK, NEW i \in Items, Send(i)
  PROVE  /\ i \notin InFlight
         /\ InFlight' = InFlight \cup {i}
         /\ \A p \in Providers :
              InFlightOf(p)' = IF p = ProviderOf[i] THEN InFlightOf(p) \cup {i}
                                                   ELSE InFlightOf(p)
<1>1. i \notin InFlight /\ InFlight' = InFlight \cup {i}
  BY DEF TypeOK, Send, Goto, InFlight
<1> QED BY <1>1 DEF InFlightOf

LEMMA ReturnShrinksInFlight ==
  ASSUME TypeOK, NEW i \in Items, Goto(i, "calling", "done")
  PROVE  /\ i \in InFlight
         /\ InFlight' = InFlight \ {i}
         /\ \A p \in Providers :
              InFlightOf(p)' = IF p = ProviderOf[i] THEN InFlightOf(p) \ {i}
                                                   ELSE InFlightOf(p)
<1>1. i \in InFlight /\ InFlight' = InFlight \ {i}
  BY DEF TypeOK, Goto, InFlight
<1> QED BY <1>1 DEF InFlightOf

\* Steps that move no item into or out of a provider's hands.
LEMMA OthersKeepInFlight ==
  ASSUME TypeOK, NEW i \in Items, Enter(i) \/ Refuse(i) \/ BackOff(i) \/ Resend(i)
  PROVE  /\ InFlight' = InFlight
         /\ \A p \in Providers : InFlightOf(p)' = InFlightOf(p)
         /\ UNCHANGED guardVars
<1>1. InFlight' = InFlight
  BY DEF TypeOK, Enter, Refuse, BackOff, Resend, Settle, Goto, InFlight
<1>2. UNCHANGED guardVars
  BY DEF Enter, Refuse, BackOff, Resend, bookVars
<1> QED BY <1>1, <1>2 DEF InFlightOf

BudgetInv == ProviderOvershootBounded /\ GlobalOvershootBounded

LEMMA BoundOnSend ==
  ASSUME NEW spend \in Nat, NEW cap \in Nat, NEW n \in Nat, NEW est \in Nat,
         MinEst <= est, spend + est <= cap, n + 1 <= MaxConcurrent
  PROVE  Bounded(spend, cap, n + 1)
<1>1. MaxCost * (n + 1) <= MaxConcurrent * MaxCost
  BY ProductMonotone, CostAssumption, ConfigAssumption
<1>2. MaxCost * (n + 1) \in Nat /\ MaxConcurrent * MaxCost \in Nat /\ MinEst \in Nat
  BY CostAssumption, ConfigAssumption, PlanAssumption
<1> DEFINE held == MaxCost * (n + 1)
           all == MaxConcurrent * MaxCost
<1>3. held \in Nat /\ all \in Nat /\ held <= all
  BY <1>1, <1>2
<1> HIDE DEF held, all
<1>4. spend + held <= cap - MinEst + all
  BY <1>2, <1>3
<1> QED BY <1>4 DEF Bounded, held, all

LEMMA BoundOnReturn ==
  ASSUME NEW spend \in Nat, NEW cap \in Nat, NEW n \in Nat, NEW c \in 0..MaxCost,
         Bounded(spend, cap, n)
  PROVE  Bounded(spend + c, cap, n - 1)
<1>1. MaxCost * (n - 1) = MaxCost * n - MaxCost
  BY ProductPredecessor, CostAssumption
<1>2. MaxCost * n \in Nat /\ MaxConcurrent * MaxCost \in Nat
      /\ MinEst \in Nat /\ MaxCost \in Nat
  BY CostAssumption, ConfigAssumption, PlanAssumption
<1> DEFINE held == MaxCost * n
           all == MaxConcurrent * MaxCost
<1>3. held \in Nat /\ all \in Nat /\ spend + held <= cap - MinEst + all
  BY <1>2 DEF Bounded
<1> HIDE DEF held, all
<1>4. (spend + c) + (held - MaxCost) <= cap - MinEst + all
  BY <1>2, <1>3
<1> QED BY <1>1, <1>4 DEF Bounded, held, all

LEMMA InitBudgetInv == Init => BudgetInv
<1> SUFFICES ASSUME Init PROVE BudgetInv
  OBVIOUS
<1>1. InFlight = {} /\ \A p \in Providers : InFlightOf(p) = {}
  BY DEF Init, InFlight, InFlightOf
<1>2. /\ globalSpend = 0 /\ Cardinality(InFlight) = 0
      /\ \A p \in Providers : providerSpend[p] = 0 /\ Cardinality(InFlightOf(p)) = 0
  BY <1>1, FS_EmptySet DEF Init
<1>3. ASSUME NEW cap \in Nat PROVE Bounded(0, cap, 0)
  <2>1. MaxCost * 1 <= MaxConcurrent * MaxCost
    BY ProductMonotone, CostAssumption, ConfigAssumption
  <2>2. MaxConcurrent * MaxCost \in Nat /\ MaxCost \in Nat /\ MinEst \in Nat
    BY CostAssumption, ConfigAssumption, PlanAssumption
  <2> QED BY <2>1, <2>2, CostAssumption DEF Bounded
<1>4. EffectiveGlobalCap \in Nat /\ \A p \in Providers : ProviderCap[p] \in Nat
  BY ConfigAssumption DEF EffectiveGlobalCap
<1> QED BY <1>2, <1>3, <1>4
      DEF BudgetInv, ProviderOvershootBounded, GlobalOvershootBounded

LEMMA SendBudgetInv ==
  ASSUME SlotInv, BudgetInv, NEW i \in Items, Send(i)
  PROVE  BudgetInv'
<1>1. TypeOK /\ pc[i] = "acquiring" /\ UNCHANGED guardVars
  BY DEF SlotInv, Send, Goto, bookVars
<1>2. /\ providerSpend[ProviderOf[i]] + Est[i] <= ProviderCap[ProviderOf[i]]
      /\ globalSpend + Est[i] <= EffectiveGlobalCap
      /\ ProviderOf[i] \in Providers /\ Est[i] \in Nat /\ MinEst <= Est[i]
      /\ EffectiveGlobalCap \in Nat
      /\ \A p \in Providers : ProviderCap[p] \in Nat /\ providerSpend[p] \in Nat
      /\ globalSpend \in Nat
  <2>1. /\ ProviderOf[i] \in Providers /\ Est[i] \in Nat /\ MinEst <= Est[i]
    BY PlanAssumption
  <2>2. /\ EffectiveGlobalCap \in Nat
        /\ \A p \in Providers : ProviderCap[p] \in Nat
    BY ConfigAssumption DEF EffectiveGlobalCap
  <2>3. globalSpend \in Nat /\ \A p \in Providers : providerSpend[p] \in Nat
    BY <1>1 DEF TypeOK
  <2>4. /\ ~ (providerSpend[ProviderOf[i]] + Est[i] > ProviderCap[ProviderOf[i]])
        /\ ~ (globalSpend + Est[i] > EffectiveGlobalCap)
    BY DEF Send, Affordable, ExceedsProvider, ExceedsGlobal
  <2> QED BY <2>1, <2>2, <2>3, <2>4
<1>3. ASSUME NEW S \in SUBSET InFlight
      PROVE  /\ Cardinality(S) \in Nat /\ Cardinality(S) + 1 <= MaxConcurrent
             /\ i \notin S => Cardinality(S \cup {i}) = Cardinality(S) + 1
  BY <1>1, RoomInFlight, SubsetsFinite, FS_AddElement DEF InFlight
<1>4. ASSUME NEW p \in Providers
      PROVE  Bounded(providerSpend[p], ProviderCap[p], Cardinality(InFlightOf(p)))'
  <2>1. CASE p = ProviderOf[i]
    <3>1. InFlightOf(p) \in SUBSET InFlight /\ i \notin InFlightOf(p)
          /\ InFlightOf(p)' = InFlightOf(p) \cup {i}
      BY <1>1, <2>1, SendGrowsInFlight DEF InFlightOf
    <3>2. Bounded(providerSpend[p], ProviderCap[p], Cardinality(InFlightOf(p)) + 1)
      BY <1>2, <1>3, <2>1, <3>1, BoundOnSend
    <3> QED BY <1>1, <1>3, <3>1, <3>2 DEF Bounded, guardVars
  <2>2. CASE p # ProviderOf[i]
    <3>1. InFlightOf(p)' = InFlightOf(p) /\ providerSpend' = providerSpend
      BY <1>1, <2>2, SendGrowsInFlight DEF guardVars
    <3> QED BY <3>1 DEF BudgetInv, ProviderOvershootBounded, Bounded
  <2> QED BY <2>1, <2>2
<1>5. Bounded(globalSpend, EffectiveGlobalCap, Cardinality(InFlight))'
  <2>1. i \notin InFlight /\ InFlight' = InFlight \cup {i} /\ globalSpend' = globalSpend
    BY <1>1, SendGrowsInFlight DEF guardVars
  <2>2. Bounded(globalSpend, EffectiveGlobalCap, Cardinality(InFlight) + 1)
    BY <1>2, <1>3, BoundOnSend
  <2> QED BY <1>3, <2>1, <2>2 DEF Bounded, EffectiveGlobalCap
<1> QED BY <1>4, <1>5 DEF BudgetInv, ProviderOvershootBounded, GlobalOvershootBounded

LEMMA ReturnBudgetInv ==
  ASSUME SlotInv, BudgetInv, NEW i \in Items, Goto(i, "calling", "done"),
         NEW c \in 0..MaxCost,
         RecordSpend(ProviderOf[i], c) \/ (c = 0 /\ UNCHANGED guardVars)
  PROVE  BudgetInv'
<1>1. /\ providerSpend \in [Providers -> Nat] /\ globalSpend \in Nat /\ TypeOK
      /\ ProviderOf[i] \in Providers /\ c \in Nat /\ EffectiveGlobalCap \in Nat
      /\ \A p \in Providers : ProviderCap[p] \in Nat
  <2>1. providerSpend \in [Providers -> Nat] /\ globalSpend \in Nat /\ TypeOK
    BY DEF SlotInv, TypeOK
  <2>2. ProviderOf[i] \in Providers /\ c \in Nat
    BY PlanAssumption, CostAssumption
  <2>3. EffectiveGlobalCap \in Nat /\ \A p \in Providers : ProviderCap[p] \in Nat
    BY ConfigAssumption DEF EffectiveGlobalCap
  <2> QED BY <2>1, <2>2, <2>3
<1>2. /\ providerSpend' = [providerSpend EXCEPT ![ProviderOf[i]] = @ + c]
      /\ globalSpend' = globalSpend + c
  <2>1. CASE RecordSpend(ProviderOf[i], c)
    BY <2>1 DEF RecordSpend
  <2>2. CASE c = 0 /\ UNCHANGED guardVars
    BY <2>2, <1>1 DEF guardVars
  <2> QED BY <2>1, <2>2
<1>3. ASSUME NEW S \in SUBSET InFlight
      PROVE  /\ Cardinality(S) \in Nat
             /\ i \in S => Cardinality(S \ {i}) = Cardinality(S) - 1
  BY SubsetsFinite, FS_RemoveElement DEF InFlight
<1>4. ASSUME NEW p \in Providers
      PROVE  Bounded(providerSpend[p], ProviderCap[p], Cardinality(InFlightOf(p)))'
  <2>1. /\ Bounded(providerSpend[p], ProviderCap[p], Cardinality(InFlightOf(p)))
        /\ providerSpend[p] \in Nat /\ ProviderCap[p] \in Nat
        /\ Cardinality(InFlightOf(p)) \in Nat
    BY <1>1, <1>3 DEF BudgetInv, ProviderOvershootBounded, InFlightOf
  <2>2. CASE p = ProviderOf[i]
    <3>1. i \in InFlightOf(p) /\ InFlightOf(p)' = InFlightOf(p) \ {i}
          /\ InFlightOf(p) \in SUBSET InFlight
      BY <1>1, <2>2, ReturnShrinksInFlight DEF InFlightOf
    <3>2. Bounded(providerSpend[p] + c, ProviderCap[p], Cardinality(InFlightOf(p)) - 1)
      BY <2>1, BoundOnReturn
    <3>3. providerSpend'[p] = providerSpend[p] + c
      BY <1>1, <1>2, <2>2
    <3> QED BY <1>3, <3>1, <3>2, <3>3 DEF Bounded
  <2>3. CASE p # ProviderOf[i]
    <3>1. InFlightOf(p)' = InFlightOf(p) /\ providerSpend'[p] = providerSpend[p]
      BY <1>1, <1>2, <2>3, ReturnShrinksInFlight
    <3> QED BY <2>1, <3>1 DEF Bounded
  <2> QED BY <2>2, <2>3
<1>5. Bounded(globalSpend, EffectiveGlobalCap, Cardinality(InFlight))'
  <2>1. i \in InFlight /\ InFlight' = InFlight \ {i}
    BY <1>1, ReturnShrinksInFlight
  <2>2. Bounded(globalSpend + c, EffectiveGlobalCap, Cardinality(InFlight) - 1)
    BY <1>1, <1>3, BoundOnReturn DEF BudgetInv, GlobalOvershootBounded
  <2> QED BY <1>2, <1>3, <2>1, <2>2 DEF Bounded, EffectiveGlobalCap
<1> QED BY <1>4, <1>5 DEF BudgetInv, ProviderOvershootBounded, GlobalOvershootBounded

LEMMA NextBudgetInv == SlotInv /\ BudgetInv /\ [Next]_vars => BudgetInv'
<1> SUFFICES ASSUME SlotInv, BudgetInv, [Next]_vars PROVE BudgetInv'
  OBVIOUS
<1>1. ASSUME NEW i \in Items, Send(i) PROVE BudgetInv'
  BY <1>1, SendBudgetInv
<1>2. ASSUME NEW i \in Items, NEW c \in ActualCosts, Succeed(i, c) PROVE BudgetInv'
  <2>1. c \in 0..MaxCost /\ Goto(i, "calling", "done") /\ RecordSpend(ProviderOf[i], c)
    BY <1>2, CostAssumption DEF Succeed, Settle
  <2> QED BY <2>1, ReturnBudgetInv
<1>3. ASSUME NEW i \in Items, FailForGood(i) \/ GiveUp(i) PROVE BudgetInv'
  <2>1. Goto(i, "calling", "done") /\ UNCHANGED guardVars /\ 0 \in 0..MaxCost
    BY <1>3, CostAssumption DEF FailForGood, GiveUp, Settle
  <2> QED BY <2>1, ReturnBudgetInv
<1>4. ASSUME NEW i \in Items, Enter(i) \/ Refuse(i) \/ BackOff(i) \/ Resend(i)
      PROVE  BudgetInv'
  <2>1. /\ InFlight' = InFlight /\ UNCHANGED <<providerSpend, globalSpend>>
        /\ \A p \in Providers : InFlightOf(p)' = InFlightOf(p)
    BY <1>4, OthersKeepInFlight DEF SlotInv, guardVars
  <2> QED BY <2>1 DEF BudgetInv, ProviderOvershootBounded, GlobalOvershootBounded,
                      Bounded, EffectiveGlobalCap
<1>5. CASE UNCHANGED vars
  BY <1>5 DEF vars, bookVars, guardVars, BudgetInv, ProviderOvershootBounded,
              GlobalOvershootBounded, Bounded, EffectiveGlobalCap, InFlight, InFlightOf
<1> QED BY <1>1, <1>2, <1>3, <1>4, <1>5 DEF Next, Task, Gathered

\* However the tasks interleave, a provider's recorded spend passes its cap by
\* at most MaxConcurrent dearest answers less the cheapest estimate (CostGuard.check_provider reads
\* the spend before the await, record_spend adds to it after).
THEOREM ProviderOvershoot == Spec => []ProviderOvershootBounded
BY InitBudgetInv, NextBudgetInv, SlotSafety, PTL DEF Spec, BudgetInv

\* The same for the cap over all providers less the reserve.
THEOREM GlobalOvershoot == Spec => []GlobalOvershootBounded
BY InitBudgetInv, NextBudgetInv, SlotSafety, PTL DEF Spec, BudgetInv

-----------------------------------------------------------------------------
(***************************************************************************)
(* Results.  A step appends at most one result, that of a task that ends   *)
(* with it; spends only grow, so a refusal once justified stays so.        *)
(***************************************************************************)

Result(i, kind, c) == [item |-> i, kind |-> kind, cost |-> c]

LEMMA ResultsStep ==
  ASSUME TypeOK, [Next]_vars
  PROVE  \/ /\ results' = results
            /\ \A j \in Items : pc'[j] = "done" <=> pc[j] = "done"
         \/ \E i \in Items, kind \in OutcomeKinds, c \in Nat :
              /\ Settling(i)
              /\ pc[i] # "done"
              /\ pc' = [pc EXCEPT ![i] = "done"]
              /\ results' = Append(results, Result(i, kind, c))
<1>1. ASSUME NEW i \in Items, Enter(i) \/ Working(i)
      PROVE  /\ results' = results
             /\ \A j \in Items : pc'[j] = "done" <=> pc[j] = "done"
  <2>1. results' = results
    BY <1>1 DEF Enter, Working, Send, BackOff, Resend, bookVars
  <2>2. PICK from, to \in {"queued", "acquiring", "calling", "backoff"} : Goto(i, from, to)
    BY <1>1 DEF Enter, Working, Send, BackOff, Resend
  <2>3. \A j \in Items : pc'[j] = "done" <=> pc[j] = "done"
    BY <2>2 DEF Goto, TypeOK
  <2> QED BY <2>1, <2>3
<1>2. ASSUME NEW i \in Items, Settling(i)
      PROVE  \E kind \in OutcomeKinds, c \in Nat :
               /\ pc[i] # "done"
               /\ pc' = [pc EXCEPT ![i] = "done"]
               /\ results' = Append(results, Result(i, kind, c))
  <2>1. PICK from \in {"acquiring", "calling"}, kind \in OutcomeKinds, c \in Nat :
          Settle(i, from, kind, c)
    BY <1>2, SettlingSettles
  <2> QED BY <2>1 DEF Settle, Goto, Result
<1>3. CASE UNCHANGED vars
  BY <1>3 DEF vars, bookVars
<1> QED BY <1>1, <1>2, <1>3, TaskCases DEF Next, Gathered

LEMMA NextOneResult == TypeOK /\ OneResultPerItem /\ [Next]_vars => OneResultPerItem'
<1> SUFFICES ASSUME TypeOK, OneResultPerItem, [Next]_vars PROVE OneResultPerItem'
  OBVIOUS
<1>1. CASE /\ results' = results
           /\ \A j \in Items : pc'[j] = "done" <=> pc[j] = "done"
  BY <1>1 DEF OneResultPerItem
<1>2. ASSUME NEW i \in Items, NEW kind, NEW c,
             pc[i] # "done", pc' = [pc EXCEPT ![i] = "done"],
             results' = Append(results, Result(i, kind, c))
      PROVE  OneResultPerItem'
  <2> DEFINE n == Len(results) + 1
  <2>1. results \in Seq([item : Items, kind : OutcomeKinds, cost : Nat])
    BY DEF TypeOK
  <2>2. /\ Len(results) \in Nat /\ DOMAIN results = 1..Len(results)
        /\ DOMAIN results' = 1..n
        /\ results'[n] = Result(i, kind, c)
        /\ \A k \in DOMAIN results : results'[k] = results[k]
    BY <1>2, <2>1
  <2>3. \A k \in DOMAIN results : results[k].item # i
    BY <1>2 DEF OneResultPerItem
  <2>4. results'[n].item = i
    BY <2>2 DEF Result
  <2>5. \A k, l \in DOMAIN results' : results'[k].item = results'[l].item => k = l
    BY <2>2, <2>3, <2>4 DEF OneResultPerItem
  <2>6. {results'[k].item : k \in DOMAIN results'}
          = {results[k].item : k \in DOMAIN results} \cup {i}
    BY <2>2, <2>4
  <2>7. {j \in Items : pc'[j] = "done"} = {j \in Items : pc[j] = "done"} \cup {i}
    BY <1>2 DEF TypeOK
  <2> QED BY <2>5, <2>6, <2>7 DEF OneResultPerItem
<1> QED BY <1>1, <1>2, ResultsStep

\* Every finished item is in the list that is scored and persisted, exactly
\* once however many attempts it took; no unfinished item is.
THEOREM OneResult == Spec => []OneResultPerItem
<1>1. Init => OneResultPerItem
  BY DEF Init, OneResultPerItem
<1> QED BY <1>1, NextOneResult, TypeCorrect, PTL DEF Spec

LEMMA SpendsOnlyGrow ==
  ASSUME TypeOK, [Next]_vars
  PROVE  /\ globalSpend \in Nat /\ globalSpend' \in Nat /\ globalSpend <= globalSpend'
         /\ \A p \in Providers : /\ providerSpend[p] \in Nat
                                 /\ providerSpend'[p] \in Nat
                                 /\ providerSpend[p] <= providerSpend'[p]
<1>t. providerSpend \in [Providers -> Nat] /\ globalSpend \in Nat
  BY DEF TypeOK
<1>1. ASSUME NEW i \in Items, NEW c \in ActualCosts, Succeed(i, c)
      PROVE  /\ globalSpend' = globalSpend + c
             /\ providerSpend' = [providerSpend EXCEPT ![ProviderOf[i]] = @ + c]
             /\ c \in Nat /\ ProviderOf[i] \in Providers
  BY <1>1, PlanAssumption, CostAssumption DEF Succeed, RecordSpend
<1>2. ASSUME NEW i \in Items,
             \/ Enter(i) \/ Refuse(i) \/ Send(i) \/ FailForGood(i)
             \/ BackOff(i) \/ Resend(i) \/ GiveUp(i)
      PROVE  UNCHANGED <<globalSpend, providerSpend>>
  BY <1>2 DEF Enter, Refuse, Send, FailForGood, BackOff, Resend, GiveUp, bookVars, guardVars
<1>3. CASE UNCHANGED <<globalSpend, providerSpend>>
  BY <1>3, <1>t
<1>4. CASE \E i \in Items, c \in Nat :
             /\ globalSpend' = globalSpend + c
             /\ providerSpend' = [providerSpend EXCEPT ![ProviderOf[i]] = @ + c]
             /\ ProviderOf[i] \in Providers
  BY <1>4, <1>t
<1>5. CASE UNCHANGED vars
  BY <1>3, <1>5 DEF vars, bookVars, guardVars
<1> QED BY <1>1, <1>2, <1>3, <1>4, <1>5 DEF Next, Task, Gathered

\* A result that, if it is a refusal, these spends would still refuse.
Justified(r, spend, total) ==
  /\ r.kind = "provider_cap" =>
       spend[ProviderOf[r.item]] + Est[r.item] > ProviderCap[ProviderOf[r.item]]
  /\ r.kind = "global_cap" => total + Est[r.item] > EffectiveGlobalCap

LEMMA RefusalStandsJustified ==
  RefusalStands <=>
    \A k \in DOMAIN results : Justified(results[k], providerSpend, globalSpend)
BY DEF RefusalStands, Justified, ExceedsProvider, ExceedsGlobal

LEMMA JustifiedStays ==
  ASSUME TypeOK, [Next]_vars, NEW r \in [item : Items, kind : OutcomeKinds, cost : Nat],
         Justified(r, providerSpend, globalSpend)
  PROVE  Justified(r, providerSpend', globalSpend')
<1>1. /\ ProviderOf[r.item] \in Providers /\ Est[r.item] \in Nat
  BY PlanAssumption
<1>2. EffectiveGlobalCap \in Nat /\ \A p \in Providers : ProviderCap[p] \in Nat
  BY ConfigAssumption DEF EffectiveGlobalCap
<1> QED BY <1>1, <1>2, SpendsOnlyGrow DEF Justified

\* The result a step appends is a refusal only if check_provider raised.
LEMMA NewResultJustified ==
  ASSUME NEW i \in Items, Settling(i), NEW kind, NEW c,
         TypeOK, results' = Append(results, Result(i, kind, c))
  PROVE  Justified(Result(i, kind, c), providerSpend', globalSpend')
<1> DEFINE last == results'[Len(results) + 1]
<1>0. \A r : results' = Append(results, r) => last = r
  BY DEF TypeOK
<1>1. last = Result(i, kind, c)
  BY <1>0
<1>2. CASE Refuse(i)
  <2>1. /\ UNCHANGED <<providerSpend, globalSpend>>
        /\ \/ /\ ExceedsProvider(ProviderOf[i], Est[i])
              /\ results' = Append(results, Result(i, "provider_cap", 0))
           \/ /\ ExceedsGlobal(Est[i])
              /\ results' = Append(results, Result(i, "global_cap", 0))
    BY <1>2 DEF Refuse, Settle, Result, guardVars
  <2>2. CASE ExceedsProvider(ProviderOf[i], Est[i]) /\ kind = "provider_cap"
    BY <2>1, <2>2 DEF Justified, Result, ExceedsProvider
  <2>3. CASE ExceedsGlobal(Est[i]) /\ kind = "global_cap"
    BY <2>1, <2>3 DEF Justified, Result, ExceedsGlobal
  <2>4. \/ ExceedsProvider(ProviderOf[i], Est[i]) /\ kind = "provider_cap"
        \/ ExceedsGlobal(Est[i]) /\ kind = "global_cap"
    BY <1>0, <1>1, <2>1 DEF Result
  <2> QED BY <2>2, <2>3, <2>4
<1>3. CASE FailForGood(i) \/ GiveUp(i) \/ \E d \in ActualCosts : Succeed(i, d)
  <2>1. \E d : \/ results' = Append(results, Result(i, "ok", d))
               \/ results' = Append(results, Result(i, "error", d))
    BY <1>3 DEF FailForGood, GiveUp, Succeed, Settle, Result
  <2>2. kind \in {"ok", "error"}
    BY <1>0, <1>1, <2>1 DEF Result
  <2> QED BY <2>2 DEF Justified, Result
<1> QED BY <1>2, <1>3 DEF Settling

LEMMA SeqElement ==
  ASSUME NEW S, NEW seq \in Seq(S), NEW k \in DOMAIN seq
  PROVE  seq[k] \in S
OBVIOUS

LEMMA NextRefusalStands == TypeOK /\ RefusalStands /\ [Next]_vars => RefusalStands'
<1> SUFFICES ASSUME TypeOK, RefusalStands, [Next]_vars PROVE RefusalStands'
  OBVIOUS
<1>1. results \in Seq([item : Items, kind : OutcomeKinds, cost : Nat])
  BY DEF TypeOK
<1>2. \A k \in DOMAIN results : Justified(results[k], providerSpend', globalSpend')
  <2> SUFFICES ASSUME NEW k \in DOMAIN results
               PROVE  Justified(results[k], providerSpend', globalSpend')
    OBVIOUS
  <2>1. results[k] \in [item : Items, kind : OutcomeKinds, cost : Nat]
    BY <1>1, SeqElement
  <2>2. Justified(results[k], providerSpend, globalSpend)
    BY RefusalStandsJustified
  <2> QED BY <2>1, <2>2, JustifiedStays
<1>3. \A k \in DOMAIN results' : Justified(results'[k], providerSpend', globalSpend')
  <2>1. CASE results' = results
    BY <1>2, <2>1
  <2>2. ASSUME NEW i \in Items, NEW kind, NEW c, Settling(i),
               results' = Append(results, Result(i, kind, c))
        PROVE  \A k \in DOMAIN results' : Justified(results'[k], providerSpend', globalSpend')
    <3>1. Justified(Result(i, kind, c), providerSpend', globalSpend')
      BY <2>2, NewResultJustified
    <3>2. \A k \in DOMAIN results' :
             \/ k \in DOMAIN results /\ results'[k] = results[k]
             \/ results'[k] = Result(i, kind, c)
      BY <1>1, <2>2
    <3> QED BY <1>2, <3>1, <3>2
  <2> QED BY <2>1, <2>2, ResultsStep
<1> QED BY <1>3 DEF RefusalStands, Justified, ExceedsProvider, ExceedsGlobal, EffectiveGlobalCap

\* An item refused for want of budget would be refused again at any later time
\* of the run: spends are never given back (CostGuard has no release).
THEOREM RefusalsStand == Spec => []RefusalStands
<1>1. Init => RefusalStands
  BY DEF Init, RefusalStands
<1> QED BY <1>1, NextRefusalStands, TypeCorrect, PTL DEF Spec

-----------------------------------------------------------------------------
(***************************************************************************)
(* Refinement.  The semaphore, the limiter, the attempts and the list map  *)
(* to nothing; a task's status is read off its program counter and, once   *)
(* it is done, off its one result.                                         *)
(***************************************************************************)

RefInv == SlotInv /\ OneResultPerItem

LEMMA AppendElements ==
  ASSUME NEW S, NEW seq \in Seq(S), NEW e
  PROVE  /\ \A k \in DOMAIN seq : /\ k \in DOMAIN Append(seq, e)
                                /\ Append(seq, e)[k] = seq[k]
         /\ Len(seq) + 1 \in DOMAIN Append(seq, e)
         /\ Append(seq, e)[Len(seq) + 1] = e
         /\ \A k \in DOMAIN Append(seq, e) :
              k \in DOMAIN seq \/ Append(seq, e)[k] = e
OBVIOUS

\* Other tasks' status does not depend on what this step changes.
LEMMA StatusElsewhere ==
  ASSUME TypeOK, NEW i \in Items, NEW j \in Items, j # i, pc'[j] = pc[j],
         \/ results' = results
         \/ \E kind, c : results' = Append(results, Result(i, kind, c))
  PROVE  Status(j)' = Status(j)
<1>1. ASSUME NEW kind
      PROVE  (\E k \in DOMAIN results' : results'[k].item = j /\ results'[k].kind = kind)
         <=> (\E k \in DOMAIN results : results[k].item = j /\ results[k].kind = kind)
  <2>1. CASE results' = results
    BY <2>1
  <2>2. ASSUME NEW kd, NEW c, results' = Append(results, Result(i, kd, c))
        PROVE  (\E k \in DOMAIN results' : results'[k].item = j /\ results'[k].kind = kind)
           <=> (\E k \in DOMAIN results : results[k].item = j /\ results[k].kind = kind)
    <3>1. /\ \A k \in DOMAIN results : k \in DOMAIN results' /\ results'[k] = results[k]
          /\ \A k \in DOMAIN results' :
               \/ k \in DOMAIN results
               \/ results'[k] = Result(i, kd, c)
      <4>1. results \in Seq([item : Items, kind : OutcomeKinds, cost : Nat])
        BY DEF TypeOK
      <4> QED BY <2>2, <4>1, AppendElements
    <3>2. Result(i, kd, c).item = i
      BY DEF Result
    <3> QED BY <3>1, <3>2
  <2> QED BY <2>1, <2>2
<1>2. (\E k \in DOMAIN results' : results'[k].item = j /\ results'[k].kind \in Refusals)
  <=> (\E k \in DOMAIN results : results[k].item = j /\ results[k].kind \in Refusals)
  BY <1>1 DEF Refusals
<1> QED BY <1>1, <1>2 DEF Status, HasResult

\* The status of a task that settles is read off the result it appends: it
\* had none before.
LEMMA StatusSettled ==
  ASSUME TypeOK, OneResultPerItem, NEW i \in Items, NEW c,
         NEW kind \in OutcomeKinds, pc[i] # "done", pc'[i] = "done",
         results' = Append(results, Result(i, kind, c))
  PROVE  /\ kind = "ok" => Status(i)' = "ok"
         /\ kind \in Refusals => Status(i)' = "refused"
         /\ kind = "error" => Status(i)' = "failed"
<1>1. results \in Seq([item : Items, kind : OutcomeKinds, cost : Nat])
  BY DEF TypeOK
<1>2. \A k \in DOMAIN results : results[k].item # i
  BY DEF OneResultPerItem
<1>3. /\ Result(i, kind, c).item = i
      /\ Result(i, kind, c).kind = kind
  BY DEF Result
<1>4. /\ \E k \in DOMAIN results' : results'[k] = Result(i, kind, c)
      /\ \A k \in DOMAIN results' :
           results'[k].item = i => results'[k] = Result(i, kind, c)
  BY <1>1, <1>2, AppendElements
<1>5. \A K : (\E k \in DOMAIN results' : results'[k].item = i /\ results'[k].kind \in K)
               <=> kind \in K
  BY <1>3, <1>4
<1>6. (\E k \in DOMAIN results' : results'[k].item = i /\ results'[k].kind \in Refusals)
         <=> kind \in Refusals
  BY <1>5
<1>7. (\E k \in DOMAIN results' : results'[k].item = i /\ results'[k].kind = "ok")
         <=> kind = "ok"
  BY <1>3, <1>4
<1> QED BY <1>6, <1>7 DEF Status, HasResult, Refusals

\* So a step of one task moves the status of its item and of no other.
LEMMA StatusStep ==
  ASSUME TypeOK, NEW i \in Items, NEW to, pc' = [pc EXCEPT ![i] = to],
         \/ results' = results
         \/ \E kind, c : results' = Append(results, Result(i, kind, c))
  PROVE  [j \in Items |-> Status(j)]' =
           [[j \in Items |-> Status(j)] EXCEPT ![i] = Status(i)']
<1>1. \A j \in Items : j # i => pc'[j] = pc[j]
  BY DEF TypeOK
<1>2. \A j \in Items : j # i => Status(j)' = Status(j)
  BY <1>1, StatusElsewhere
<1> QED BY <1>2

MappedStatus == [i \in Items |-> Status(i)]

LEMMA MappedInFlight ==
  TypeOK => Promise!InFlight = InFlight
<1> SUFFICES ASSUME TypeOK PROVE Promise!InFlight = InFlight
  OBVIOUS
<1>1. \A i \in Items : Status(i) = "inflight" <=> pc[i] \in {"calling", "backoff"}
  BY DEF TypeOK, Status
<1> QED BY <1>1 DEF Promise!InFlight, InFlight

LEMMA SameCardinality == \A S : Promise!Cardinality(S) = Cardinality(S)
BY DEF Promise!Cardinality, Cardinality

LEMMA MappedAffordable ==
  ASSUME TypeOK, NEW i \in Items
  PROVE  Promise!Affordable(i) <=> Affordable(i)
<1>1. /\ providerSpend[ProviderOf[i]] \in Nat /\ globalSpend \in Nat
      /\ Est[i] \in Nat /\ ProviderCap[ProviderOf[i]] \in Nat
      /\ EffectiveGlobalCap \in Int
  BY PlanAssumption, ConfigAssumption DEF TypeOK, EffectiveGlobalCap
<1> QED BY <1>1 DEF Promise!Affordable, Affordable, ExceedsProvider, ExceedsGlobal

LEMMA InitImplements == Init => Promise!Init
<1> SUFFICES ASSUME Init PROVE Promise!Init
  OBVIOUS
<1>1. \A i \in Items : Status(i) = "pending"
  BY DEF Init, Status
<1> QED BY <1>1 DEF Init, Promise!Init

\* A settling step of item i, seen from the promise: i leaves the status it
\* had for the one its result says.
LEMMA SettleMoves ==
  ASSUME TypeOK, OneResultPerItem, NEW i \in Items, NEW c,
         NEW from \in {"acquiring", "calling"}, NEW kind \in OutcomeKinds,
         Settle(i, from, kind, c)
  PROVE  LET to == CASE kind = "ok" -> "ok"
                     [] kind \in Refusals -> "refused"
                     [] kind = "error" -> "failed"
         IN  MappedStatus' = [MappedStatus EXCEPT ![i] = to]
<1>1. /\ pc[i] = from /\ pc' = [pc EXCEPT ![i] = "done"] /\ pc'[i] = "done"
      /\ results' = Append(results, Result(i, kind, c))
  BY DEF TypeOK, Settle, Goto, Result
<1>2. MappedStatus' = [MappedStatus EXCEPT ![i] = Status(i)']
  BY <1>1, StatusStep DEF MappedStatus
<1>3. /\ kind = "ok" => Status(i)' = "ok"
      /\ kind \in Refusals => Status(i)' = "refused"
      /\ kind = "error" => Status(i)' = "failed"
  BY <1>1, StatusSettled
<1>4. CASE kind = "ok"
  BY <1>2, <1>3, <1>4
<1>5. CASE kind \in Refusals
  BY <1>2, <1>3, <1>5 DEF Refusals
<1>6. CASE kind = "error"
  BY <1>2, <1>3, <1>6 DEF Refusals
<1> QED BY <1>4, <1>5, <1>6 DEF OutcomeKinds, Refusals

\* A step within the semaphore, seen from the promise.
LEMMA WorkMoves ==
  ASSUME TypeOK, NEW i \in Items, NEW from \in {"queued", "acquiring", "calling", "backoff"},
         NEW to \in {"acquiring", "calling", "backoff"},
         Goto(i, from, to), results' = results
  PROVE  MappedStatus' = [MappedStatus EXCEPT ![i] =
                            IF to = "acquiring" THEN "pending" ELSE "inflight"]
<1>1. pc' = [pc EXCEPT ![i] = to] /\ pc'[i] = to
  BY DEF TypeOK, Goto
<1>2. MappedStatus' = [MappedStatus EXCEPT ![i] = Status(i)']
  BY <1>1, StatusStep DEF MappedStatus
<1>3. Status(i)' = IF to = "acquiring" THEN "pending" ELSE "inflight"
  BY <1>1 DEF Status
<1> QED BY <1>2, <1>3

\* A step that leaves a task's status where it was changes nothing else the
\* promise speaks of.
LEMMA SameStatus ==
  ASSUME NEW i \in Items, NEW st, MappedStatus[i] = st,
         MappedStatus' = [MappedStatus EXCEPT ![i] = st],
         UNCHANGED guardVars
  PROVE  UNCHANGED Promise!vars
<1>1. MappedStatus' = MappedStatus
  BY DEF MappedStatus
<1> QED BY <1>1 DEF MappedStatus, guardVars, Promise!vars

LEMMA SendImplements ==
  ASSUME SlotInv, NEW i \in Items, Send(i)
  PROVE  Promise!HandOver(i)
<1>1. TypeOK /\ pc[i] = "acquiring" /\ results' = results
      /\ Goto(i, "acquiring", "calling") /\ Affordable(i)
      /\ UNCHANGED guardVars
  BY DEF SlotInv, Send, Goto, bookVars
<1>2. Promise!Affordable(i)
  BY <1>1, MappedAffordable
<1>3. Cardinality(InFlight) + 1 <= MaxConcurrent /\ Cardinality(InFlight) \in Nat
  BY <1>1, RoomInFlight, SubsetsFinite DEF InFlight
<1>4. Promise!Cardinality(Promise!InFlight) < MaxConcurrent
  BY <1>1, <1>3, MappedInFlight, SameCardinality, ConfigAssumption
<1>5. Status(i) = "pending"
  BY <1>1 DEF Status
<1>6. MappedStatus' = [MappedStatus EXCEPT ![i] = "inflight"]
  BY <1>1, WorkMoves
<1>7. Promise!Become(i, "pending", "inflight")
  BY <1>5, <1>6 DEF Promise!Become, MappedStatus
<1> QED BY <1>1, <1>2, <1>4, <1>7 DEF Promise!HandOver, guardVars

LEMMA RefuseImplements ==
  ASSUME TypeOK, OneResultPerItem, NEW i \in Items, Refuse(i)
  PROVE  Promise!Refuse(i)
<1>1. /\ pc[i] = "acquiring" /\ ~Affordable(i) /\ UNCHANGED guardVars
      /\ \E kind \in Refusals : Settle(i, "acquiring", kind, 0)
  BY DEF Refuse, Settle, Goto, Refusals, Affordable
<1>2. MappedStatus' = [MappedStatus EXCEPT ![i] = "refused"]
  BY <1>1, SettleMoves DEF OutcomeKinds, Refusals
<1>3. Status(i) = "pending" /\ ~Promise!Affordable(i)
  BY <1>1, MappedAffordable DEF Status
<1> QED BY <1>1, <1>2, <1>3
        DEF Promise!Refuse, Promise!Become, MappedStatus, guardVars

LEMMA SucceedImplements ==
  ASSUME TypeOK, OneResultPerItem, NEW i \in Items, NEW c \in ActualCosts, Succeed(i, c)
  PROVE  Promise!Answer(i, c)
<1>1. pc[i] = "calling" /\ Settle(i, "calling", "ok", c) /\ RecordSpend(ProviderOf[i], c)
  BY DEF Succeed, Settle, Goto
<1>2. MappedStatus' = [MappedStatus EXCEPT ![i] = "ok"]
  <2>1. "ok" \in OutcomeKinds /\ "calling" \in {"acquiring", "calling"}
    BY DEF OutcomeKinds
  <2> QED BY <1>1, <2>1, SettleMoves DEF Refusals
<1>3. Status(i) = "inflight"
  BY <1>1 DEF Status
<1> QED BY <1>1, <1>2, <1>3
        DEF Promise!Answer, Promise!Become, MappedStatus, RecordSpend

LEMMA FailureImplements ==
  ASSUME TypeOK, OneResultPerItem, NEW i \in Items, FailForGood(i) \/ GiveUp(i)
  PROVE  Promise!Fail(i)
<1>1. pc[i] = "calling" /\ Settle(i, "calling", "error", 0) /\ UNCHANGED guardVars
  BY DEF FailForGood, GiveUp, Settle, Goto
<1>2. MappedStatus' = [MappedStatus EXCEPT ![i] = "failed"]
  BY <1>1, SettleMoves DEF OutcomeKinds, Refusals
<1>3. Status(i) = "inflight"
  BY <1>1 DEF Status
<1> QED BY <1>1, <1>2, <1>3
        DEF Promise!Fail, Promise!Become, MappedStatus, guardVars

\* Entering the semaphore, backing off and sending again: nothing the promise
\* speaks of.
LEMMA OthersStutter ==
  ASSUME TypeOK, NEW i \in Items, Enter(i) \/ BackOff(i) \/ Resend(i)
  PROVE  UNCHANGED Promise!vars
<1>1. CASE Enter(i)
  <2>1. Goto(i, "queued", "acquiring") /\ results' = results /\ UNCHANGED guardVars
    BY <1>1 DEF Enter, bookVars
  <2>2. MappedStatus[i] = "pending"
    BY <2>1 DEF Goto, MappedStatus, Status
  <2>3. MappedStatus' = [MappedStatus EXCEPT ![i] = "pending"]
    BY <2>1, WorkMoves
  <2> QED BY <2>1, <2>2, <2>3, SameStatus
<1>2. CASE BackOff(i) \/ Resend(i)
  <2>1. /\ Goto(i, "calling", "backoff") \/ Goto(i, "backoff", "calling")
        /\ results' = results
        /\ UNCHANGED guardVars
    BY <1>2 DEF BackOff, Resend, bookVars
  <2>2. MappedStatus[i] = "inflight"
    BY <2>1 DEF Goto, MappedStatus, Status
  <2>3. MappedStatus' = [MappedStatus EXCEPT ![i] = "inflight"]
    BY <2>1, WorkMoves
  <2> QED BY <2>1, <2>2, <2>3, SameStatus
<1> QED BY <1>1, <1>2

LEMMA StepImplements ==
  SlotInv /\ OneResultPerItem /\ [Next]_vars => [Promise!Next]_(Promise!vars)
<1> SUFFICES ASSUME SlotInv, OneResultPerItem, [Next]_vars
             PROVE  Promise!Next \/ UNCHANGED Promise!vars
  OBVIOUS
<1>t. TypeOK
  BY DEF SlotInv
<1>1. CASE UNCHANGED vars
  BY <1>1 DEF vars, bookVars, guardVars, Promise!vars, Status, HasResult
<1>2. ASSUME NEW i \in Items, Task(i)
      PROVE  Promise!Next \/ UNCHANGED Promise!vars
  <2>1. CASE Send(i)
    BY <2>1, SendImplements DEF Promise!Next
  <2>2. CASE Refuse(i)
    BY <1>t, <2>2, RefuseImplements DEF Promise!Next
  <2>3. ASSUME NEW c \in ActualCosts, Succeed(i, c)
        PROVE  Promise!Next
    BY <1>t, <2>3, SucceedImplements DEF Promise!Next
  <2>4. CASE FailForGood(i) \/ GiveUp(i)
    BY <1>t, <2>4, FailureImplements DEF Promise!Next
  <2>5. CASE Enter(i) \/ BackOff(i) \/ Resend(i)
    BY <1>t, <2>5, OthersStutter
  <2> QED BY <1>2, <2>1, <2>2, <2>3, <2>4, <2>5 DEF Task
<1> QED BY <1>1, <1>2 DEF Next, Gathered

\* Dispatch, with its semaphore, limiter waits, retries and result list, does
\* what its caller is promised: each item is settled once, only an affordable
\* one is handed over, and only an answer is charged.
THEOREM DispatchImplementsPromise == Spec => ImplementsPromise
<1>1. Init => Promise!Init
  BY InitImplements
<1>2. SlotInv /\ OneResultPerItem /\ [Next]_vars => [Promise!Next]_(Promise!vars)
  BY StepImplements
<1> QED BY <1>1, <1>2, SlotSafety, OneResult, PTL DEF Spec, ImplementsPromise, Promise!Spec
-----------------------------------------------------------------------------
(***************************************************************************)
(* The books.  A step either leaves the answers in the result list as they *)
(* are or appends one; then its cost is the difference of both sums.       *)
(***************************************************************************)

ResultRecords == [item : Items, kind : OutcomeKinds, cost : Nat]

\* CostOf of any result list: what is said of it here holds of the list before
\* and after a step.
CostIn(rs, ks) == SumFunctionOnSet([k \in ks |-> rs[k].cost], ks)

LEMMA AppendedElements ==
  ASSUME NEW rs \in Seq(ResultRecords), NEW r \in ResultRecords
  PROVE  /\ Len(rs) \in Nat /\ DOMAIN rs = 1..Len(rs)
         /\ DOMAIN Append(rs, r) = DOMAIN rs \cup {Len(rs) + 1}
         /\ Len(rs) + 1 \notin DOMAIN rs
         /\ Append(rs, r)[Len(rs) + 1] = r
         /\ \A k \in DOMAIN rs : rs[k] \in ResultRecords /\ Append(rs, r)[k] = rs[k]
<1>1. Len(rs) \in Nat /\ DOMAIN rs = 1..Len(rs) /\ Len(Append(rs, r)) = Len(rs) + 1
  OBVIOUS
<1>2. DOMAIN Append(rs, r) = 1..(Len(rs) + 1)
  BY <1>1
<1> QED
  BY <1>1, <1>2

\* Costs of results that a step leaves alone add up to what they did.
LEMMA CostsStay ==
  ASSUME NEW rs \in Seq(ResultRecords), NEW r \in ResultRecords,
         NEW ks \in SUBSET DOMAIN rs
  PROVE  /\ IsFiniteSet(ks)
         /\ CostIn(Append(rs, r), ks) = CostIn(rs, ks)
         /\ CostIn(rs, ks) \in Int
<1>1. IsFiniteSet(ks)
  <2>1. IsFiniteSet(1..Len(rs))
    BY AppendedElements, FS_Interval
  <2> QED
    BY <2>1, AppendedElements, FS_Subset
<1>2. \A k \in ks : Append(rs, r)[k] = rs[k] /\ rs[k].cost \in Int
  <2>1. \A k \in ks : Append(rs, r)[k] = rs[k] /\ rs[k] \in ResultRecords
    BY AppendedElements
  <2> QED
    BY <2>1 DEF ResultRecords
<1> DEFINE f == [k \in ks |-> rs[k].cost]
           g == [k \in ks |-> Append(rs, r)[k].cost]
<1>3. f = g /\ \A k \in ks : f[k] \in Int
  BY <1>2
<1> HIDE DEF f, g
<1>4. SumFunctionOnSet(f, ks) \in Int /\ SumFunctionOnSet(g, ks) = SumFunctionOnSet(f, ks)
  BY <1>1, <1>3, SumType
<1> QED
  BY <1>1, <1>4 DEF CostIn, f, g

\* The result that a step appends adds its cost to theirs.
LEMMA CostsGrow ==
  ASSUME NEW rs \in Seq(ResultRecords), NEW r \in ResultRecords,
         NEW ks \in SUBSET DOMAIN rs
  PROVE  CostIn(Append(rs, r), ks \cup {Len(rs) + 1}) = CostIn(rs, ks) + r.cost
<1> DEFINE n == Len(rs) + 1
           all == ks \cup {n}
           g == [k \in all |-> Append(rs, r)[k].cost]
           h == [k \in ks |-> Append(rs, r)[k].cost]
<1>1. n \notin ks /\ r.cost \in Int
  BY AppendedElements DEF ResultRecords
<1>2. IsFiniteSet(ks) /\ CostIn(Append(rs, r), ks) = CostIn(rs, ks)
  BY CostsStay
<1>3. g[n] = r.cost /\ \A k \in ks : g[k] \in Int /\ h[k] = g[k]
  <2>1. Append(rs, r)[n] = r
    BY AppendedElements
  <2>2. \A k \in ks : Append(rs, r)[k] = rs[k] /\ rs[k] \in ResultRecords
    BY AppendedElements
  <2>3. \A k \in ks : Append(rs, r)[k].cost \in Int
    BY <2>2 DEF ResultRecords
  <2> HIDE DEF n
  <2> QED
    BY <2>1, <2>3
<1>4. \A k \in all : g[k] \in Int
  BY <1>1, <1>3
<1> HIDE DEF n, g, h
<1>5. SumFunctionOnSet(g, all) = g[n] + SumFunctionOnSet(g, ks)
  BY <1>1, <1>2, <1>4, SumAdd
<1>6. SumFunctionOnSet(g, ks) = SumFunctionOnSet(h, ks)
  BY <1>2, <1>3, SumSame
<1>7. SumFunctionOnSet(h, ks) = CostIn(rs, ks) /\ CostIn(rs, ks) \in Int
  BY <1>2, CostsStay DEF h, CostIn
<1>8. SumFunctionOnSet(g, all) = CostIn(rs, ks) + r.cost
  BY <1>1, <1>3, <1>5, <1>6, <1>7
<1> QED
  BY <1>8 DEF CostIn, g, n

\* A result that is no answer changes no sum over answers, and an answer only
\* those it belongs to.
LEMMA AnswersStep ==
  ASSUME results \in Seq(ResultRecords), NEW r \in ResultRecords,
         results' = Append(results, r)
  PROVE  /\ Answers' = IF r.kind = "ok" THEN Answers \cup {Len(results) + 1} ELSE Answers
         /\ \A p : AnswersOf(p)' = IF r.kind = "ok" /\ ProviderOf[r.item] = p
                                   THEN AnswersOf(p) \cup {Len(results) + 1}
                                   ELSE AnswersOf(p)
<1>1. /\ DOMAIN results' = DOMAIN results \cup {Len(results) + 1}
      /\ Len(results) + 1 \notin DOMAIN results
      /\ \A k \in DOMAIN results : results'[k] = results[k]
      /\ results'[Len(results) + 1] = r
  BY AppendedElements
<1>2. Answers' = IF r.kind = "ok" THEN Answers \cup {Len(results) + 1} ELSE Answers
  BY <1>1 DEF Answers
<1>3. ASSUME NEW p
      PROVE  AnswersOf(p)' = IF r.kind = "ok" /\ ProviderOf[r.item] = p
                             THEN AnswersOf(p) \cup {Len(results) + 1}
                             ELSE AnswersOf(p)
  BY <1>1, <1>2 DEF Answers, AnswersOf
<1> QED
  BY <1>2, <1>3

LEMMA AnswersFinite ==
  ASSUME results \in Seq(ResultRecords)
  PROVE  /\ Answers \in SUBSET DOMAIN results /\ IsFiniteSet(Answers)
         /\ \A p : AnswersOf(p) \in SUBSET DOMAIN results
         /\ Len(results) + 1 \notin DOMAIN results
<1>1. Len(results) \in Nat /\ DOMAIN results = 1..Len(results)
  OBVIOUS
<1>2. IsFiniteSet(1..Len(results))
  BY <1>1, FS_Interval
<1>3. Answers \in SUBSET DOMAIN results /\ IsFiniteSet(Answers)
  BY <1>1, <1>2, FS_Subset DEF Answers
<1> QED
  BY <1>1, <1>3 DEF AnswersOf, Answers

\* What the books record of a step that appends a result: an answer's cost in
\* three places and its count, or an error.
Booked(r) ==
  \/ /\ r.kind = "ok"
     /\ providerSpend' = [providerSpend EXCEPT ![ProviderOf[r.item]] = @ + r.cost]
     /\ globalSpend' = globalSpend + r.cost
     /\ metrics' = [successes |-> metrics.successes + 1,
                    errors |-> metrics.errors,
                    cost |-> metrics.cost + r.cost]
  \/ /\ r.kind # "ok"
     /\ UNCHANGED guardVars
     /\ metrics' = [metrics EXCEPT !.errors = @ + 1]

LEMMA SettlingIsBooked ==
  ASSUME NEW i \in Items, Settling(i)
  PROVE  \E r \in ResultRecords : results' = Append(results, r) /\ Booked(r)
<1>1. ASSUME NEW c \in ActualCosts, Succeed(i, c)
      PROVE  \E r \in ResultRecords : results' = Append(results, r) /\ Booked(r)
  <2> DEFINE r == Result(i, "ok", c)
  <2>1. r \in ResultRecords /\ r.kind = "ok" /\ r.item = i /\ r.cost = c
    BY CostAssumption DEF Result, ResultRecords, OutcomeKinds
  <2>2. results' = Append(results, r)
    BY <1>1 DEF Succeed, Settle, Result
  <2>3. Booked(r)
    BY <1>1, <2>1 DEF Booked, Succeed, RecordSpend, RecordSuccess
  <2> QED
    BY <2>1, <2>2, <2>3
<1>2. CASE Refuse(i) \/ FailForGood(i) \/ GiveUp(i)
  <2>1. PICK kind \in OutcomeKinds \ {"ok"} : results' = Append(results, Result(i, kind, 0))
    BY <1>2 DEF Refuse, FailForGood, GiveUp, Settle, Result, OutcomeKinds
  <2> DEFINE r == Result(i, kind, 0)
  <2>2. r \in ResultRecords /\ r.kind # "ok"
    BY DEF Result, ResultRecords
  <2>3. UNCHANGED guardVars /\ metrics' = [metrics EXCEPT !.errors = @ + 1]
    BY <1>2 DEF Refuse, FailForGood, GiveUp, RecordError
  <2> QED
    BY <2>1, <2>2, <2>3 DEF Booked
<1> QED
  BY <1>1, <1>2 DEF Settling

LEMMA AnswerAccounted ==
  ASSUME TypeOK, SpendAccounted, NEW r \in ResultRecords,
         results' = Append(results, r), r.kind = "ok", Booked(r)
  PROVE  SpendAccounted'
<1> DEFINE n == Len(results) + 1
<1>t. /\ results \in Seq(ResultRecords) /\ providerSpend \in [Providers -> Nat]
      /\ globalSpend \in Nat /\ metrics \in [successes : Nat, errors : Nat, cost : Nat]
      /\ r.cost \in Nat
  BY DEF TypeOK, ResultRecords
<1>1. /\ Answers' = Answers \cup {n}
      /\ \A p : AnswersOf(p)' = IF ProviderOf[r.item] = p THEN AnswersOf(p) \cup {n}
                                ELSE AnswersOf(p)
  BY <1>t, AnswersStep
<1>2. /\ providerSpend' = [providerSpend EXCEPT ![ProviderOf[r.item]] = @ + r.cost]
      /\ globalSpend' = globalSpend + r.cost
      /\ metrics' = [successes |-> metrics.successes + 1,
                     errors |-> metrics.errors,
                     cost |-> metrics.cost + r.cost]
  BY DEF Booked
<1>3. ASSUME NEW p \in Providers
      PROVE  providerSpend'[p] = CostOf(AnswersOf(p))'
  <2>1. AnswersOf(p) \in SUBSET DOMAIN results /\ providerSpend[p] = CostOf(AnswersOf(p))
    BY <1>t, AnswersFinite DEF SpendAccounted
  <2>2. CASE ProviderOf[r.item] = p
    <3>1. providerSpend'[p] = providerSpend[p] + r.cost
      BY <1>t, <1>2, <2>2
    <3>2. CostIn(Append(results, r), AnswersOf(p) \cup {n}) = CostOf(AnswersOf(p)) + r.cost
      BY <1>t, <2>1, CostsGrow DEF CostIn, CostOf
    <3>3. CostOf(AnswersOf(p))' = CostOf(AnswersOf(p)) + r.cost
      BY <1>1, <2>2, <3>2 DEF CostIn, CostOf
    <3> QED
      BY <2>1, <3>1, <3>3
  <2>3. CASE ProviderOf[r.item] # p
    <3>1. providerSpend'[p] = providerSpend[p]
      BY <1>t, <1>2, <2>3
    <3>2. CostIn(Append(results, r), AnswersOf(p)) = CostOf(AnswersOf(p))
      BY <1>t, <2>1, CostsStay DEF CostIn, CostOf
    <3>3. CostOf(AnswersOf(p))' = CostOf(AnswersOf(p))
      BY <1>1, <2>3, <3>2 DEF CostIn, CostOf
    <3> QED
      BY <2>1, <3>1, <3>3
  <2> QED
    BY <2>2, <2>3
<1>4. globalSpend' = CostOf(Answers)'
  <2>1. CostIn(Append(results, r), Answers \cup {n}) = CostOf(Answers) + r.cost
    BY <1>t, AnswersFinite, CostsGrow DEF CostIn, CostOf
  <2>2. CostOf(Answers)' = CostOf(Answers) + r.cost
    BY <1>1, <2>1 DEF CostIn, CostOf
  <2> QED
    BY <1>2, <2>2 DEF SpendAccounted
<1>5. metrics'.successes = Cardinality(Answers')
  <2>1. Cardinality(Answers') = Cardinality(Answers) + 1
    BY <1>t, <1>1, AnswersFinite, FS_AddElement
  <2> QED
    BY <1>2, <2>1 DEF SpendAccounted
<1>6. metrics'.errors = Len(results') - metrics'.successes /\ metrics'.cost = globalSpend'
  BY <1>t, <1>2 DEF SpendAccounted
<1> QED
  BY <1>3, <1>4, <1>5, <1>6 DEF SpendAccounted

LEMMA ErrorAccounted ==
  ASSUME TypeOK, SpendAccounted, NEW r \in ResultRecords,
         results' = Append(results, r), r.kind # "ok", Booked(r)
  PROVE  SpendAccounted'
<1>t. /\ results \in Seq(ResultRecords)
      /\ metrics \in [successes : Nat, errors : Nat, cost : Nat]
  BY DEF TypeOK, ResultRecords
<1>1. Answers' = Answers /\ \A p : AnswersOf(p)' = AnswersOf(p)
  BY <1>t, AnswersStep
<1>2. /\ UNCHANGED <<providerSpend, globalSpend>>
      /\ metrics' = [metrics EXCEPT !.errors = @ + 1]
  BY DEF Booked, guardVars
<1>3. ASSUME NEW p \in Providers
      PROVE  providerSpend'[p] = CostOf(AnswersOf(p))'
  <2>1. CostIn(Append(results, r), AnswersOf(p)) = CostOf(AnswersOf(p))
    BY <1>t, AnswersFinite, CostsStay DEF CostIn, CostOf
  <2>2. CostOf(AnswersOf(p))' = CostOf(AnswersOf(p))
    BY <1>1, <2>1 DEF CostIn, CostOf
  <2> QED
    BY <1>2, <2>2 DEF SpendAccounted
<1>4. globalSpend' = CostOf(Answers)'
  <2>1. CostIn(Append(results, r), Answers) = CostOf(Answers)
    BY <1>t, AnswersFinite, CostsStay DEF CostIn, CostOf
  <2>2. CostOf(Answers)' = CostOf(Answers)
    BY <1>1, <2>1 DEF CostIn, CostOf
  <2> QED
    BY <1>2, <2>2 DEF SpendAccounted
<1>5. /\ metrics'.successes = Cardinality(Answers')
      /\ metrics'.cost = globalSpend'
      /\ metrics'.errors = Len(results') - metrics'.successes
  BY <1>t, <1>1, <1>2 DEF SpendAccounted
<1> QED
  BY <1>3, <1>4, <1>5 DEF SpendAccounted

LEMMA InitAccounted == Init => SpendAccounted
<1> SUFFICES ASSUME Init PROVE SpendAccounted
  OBVIOUS
<1>1. Answers = {} /\ \A p : AnswersOf(p) = {}
  BY DEF Init, Answers, AnswersOf
<1>2. CostOf({}) = 0
  BY SumOfNone DEF CostOf
<1>3. Cardinality(Answers) = 0 /\ Len(results) = 0
  BY <1>1, FS_EmptySet DEF Init
<1>4. \A p \in Providers : providerSpend[p] = 0
  BY DEF Init
<1>5. globalSpend = 0 /\ metrics.cost = 0 /\ metrics.successes = 0 /\ metrics.errors = 0
  BY DEF Init
<1>6. \A p \in Providers : providerSpend[p] = CostOf(AnswersOf(p))
  BY <1>1, <1>2, <1>4
<1>7. globalSpend = CostOf(Answers)
  BY <1>1, <1>2, <1>5
<1> QED
  BY <1>3, <1>5, <1>6, <1>7 DEF SpendAccounted

LEMMA NextAccounted == TypeOK /\ SpendAccounted /\ [Next]_vars => SpendAccounted'
<1> SUFFICES ASSUME TypeOK, SpendAccounted, [Next]_vars PROVE SpendAccounted'
  OBVIOUS
<1>1. ASSUME NEW i \in Items, Settling(i) PROVE SpendAccounted'
  <2>1. PICK r \in ResultRecords : results' = Append(results, r) /\ Booked(r)
    BY <1>1, SettlingIsBooked
  <2> QED
    BY <2>1, AnswerAccounted, ErrorAccounted
<1>2. ASSUME UNCHANGED bookVars PROVE SpendAccounted'
  <2>1. UNCHANGED <<providerSpend, globalSpend, results, metrics>>
    BY <1>2 DEF bookVars, guardVars
  <2> QED
    BY <2>1 DEF SpendAccounted, CostOf, AnswersOf, Answers
<1>3. ASSUME NEW i \in Items, Enter(i) \/ Working(i) PROVE UNCHANGED bookVars
  BY <1>3 DEF Enter, Working, Send, BackOff, Resend
<1>4. CASE UNCHANGED vars
  BY <1>2, <1>4 DEF vars
<1> QED
  BY <1>1, <1>2, <1>3, <1>4, TaskCases DEF Next, Gathered

\* The guard's spend per provider and in total, the cost, the answers and the
\* errors of the metrics and the result list agree at every await, whatever the
\* interleaving: no answer is charged twice, to another provider, or not at all.
THEOREM SpendIsAccounted == Spec => []SpendAccounted
BY TypeCorrect, InitAccounted, NextAccounted, PTL DEF Spec

-----------------------------------------------------------------------------
(***************************************************************************)
(* Why every item settles.  That it does is a matter of fairness and left  *)
(* to TLC; what fairness needs is proved: there are only so many steps to  *)
(* take, and until all are done some task has one to take.                 *)
(***************************************************************************)

\* The most steps the task of an item can still take.
StepsLeft(i) == CASE pc[i] = "queued" -> 2 * MaxAttempts + 1
                  [] pc[i] = "acquiring" -> 2 * MaxAttempts
                  [] pc[i] = "calling" -> 2 * (MaxAttempts - attempt[i]) + 1
                  [] pc[i] = "backoff" -> 2 * (MaxAttempts - attempt[i])
                  [] OTHER -> 0

\* The most steps the whole dispatch can still take.
AllStepsLeft == SumFunctionOnSet([i \in Items |-> StepsLeft(i)], Items)

\* The guards of Task(i): an item in line has its turn and a slot, one that
\* waits for the limiter is refused or sent, one that is called or sleeps goes
\* on or gives up.
HasStep(i) == \/ /\ pc[i] = "queued" /\ slots > 0
                 /\ \A j \in Items : j < i => pc[j] # "queued"
              \/ pc[i] \in {"acquiring", "calling", "backoff"}

\* Until every item is settled, some task has a step to take.
SomeoneHasStep == (\E i \in Items : pc[i] # "done") => \E i \in Items : HasStep(i)

LEMMA StepsLeftType ==
  /\ TypeOK => \A i \in Items : StepsLeft(i) \in Nat
  /\ TypeOK' => \A i \in Items : StepsLeft(i)' \in Nat
<1>1. TypeOK => \A i \in Items : StepsLeft(i) \in Nat
  <2> SUFFICES ASSUME TypeOK, NEW i \in Items PROVE StepsLeft(i) \in Nat
    OBVIOUS
  <2>1. /\ pc[i] \in {"queued", "acquiring", "calling", "backoff", "done"}
        /\ attempt[i] \in 0..MaxAttempts /\ MaxAttempts \in Nat
    BY ConfigAssumption DEF TypeOK
  <2> QED
    BY <2>1 DEF StepsLeft
<1>2. TypeOK' => \A i \in Items : StepsLeft(i)' \in Nat
  <2> SUFFICES ASSUME TypeOK', NEW i \in Items PROVE StepsLeft(i)' \in Nat
    OBVIOUS
  <2>1. /\ pc'[i] \in {"queued", "acquiring", "calling", "backoff", "done"}
        /\ attempt'[i] \in 0..MaxAttempts /\ MaxAttempts \in Nat
    BY ConfigAssumption DEF TypeOK
  <2> QED
    BY <2>1 DEF StepsLeft
<1> QED
  BY <1>1, <1>2

\* A step takes one from its task's and leaves the others'.
LEMMA TaskFalls ==
  ASSUME SlotInv, NEW i \in Items, Task(i)
  PROVE  /\ StepsLeft(i)' < StepsLeft(i)
         /\ \A j \in Items \ {i} : StepsLeft(j)' = StepsLeft(j)
<1>t. /\ TypeOK /\ BackOffHasAttempts /\ MaxAttempts \in Nat \ {0}
      /\ pc \in [Items -> {"queued", "acquiring", "calling", "backoff", "done"}]
      /\ attempt \in [Items -> 0..MaxAttempts]
  BY ConfigAssumption DEF SlotInv, TypeOK
<1>1. CASE Enter(i)
  <2>1. pc[i] = "queued" /\ pc' = [pc EXCEPT ![i] = "acquiring"] /\ attempt' = attempt
    BY <1>1 DEF Enter, Goto
  <2> QED
    BY <1>t, <2>1 DEF StepsLeft
<1>2. CASE Send(i)
  <2>1. /\ pc[i] = "acquiring" /\ pc' = [pc EXCEPT ![i] = "calling"]
        /\ attempt' = [attempt EXCEPT ![i] = 1]
    BY <1>2 DEF Send, Goto
  <2> QED
    BY <1>t, <2>1 DEF StepsLeft
<1>3. CASE BackOff(i)
  <2>1. pc[i] = "calling" /\ pc' = [pc EXCEPT ![i] = "backoff"] /\ attempt' = attempt
    BY <1>3 DEF BackOff, Goto
  <2> QED
    BY <1>t, <2>1 DEF StepsLeft
<1>4. CASE Resend(i)
  <2>1. /\ pc[i] = "backoff" /\ pc' = [pc EXCEPT ![i] = "calling"]
        /\ attempt' = [attempt EXCEPT ![i] = attempt[i] + 1]
    BY <1>4 DEF Resend, Goto
  <2> QED
    BY <1>t, <2>1 DEF StepsLeft
<1>5. CASE Settling(i)
  <2>1. /\ pc[i] \in {"acquiring", "calling"} /\ pc' = [pc EXCEPT ![i] = "done"]
        /\ attempt' = attempt
    BY <1>5 DEF Settling, Refuse, Succeed, FailForGood, GiveUp, Settle, Goto
  <2> QED
    BY <1>t, <2>1 DEF StepsLeft
<1> QED
  BY <1>1, <1>2, <1>3, <1>4, <1>5, TaskCases DEF Working

\* Every step of the dispatch but the idling of a finished one brings it
\* nearer to its end, whatever the interleaving, the answers and the retries:
\* it takes at most 2 * max_attempts + 1 steps per item.
THEOREM DispatchRunsDown == Spec => [][AllStepsLeft' < AllStepsLeft]_vars
<1>1. SlotInv /\ SlotInv' /\ [Next]_vars => [AllStepsLeft' < AllStepsLeft]_vars
  <2> SUFFICES ASSUME SlotInv, SlotInv', NEW i \in Items, Task(i)
               PROVE  AllStepsLeft' < AllStepsLeft
    BY DEF Next, Gathered
  <2> DEFINE f == [j \in Items |-> StepsLeft(j)]
             g == [j \in Items |-> StepsLeft(j)']
  <2>1. IsFiniteSet(Items)
    BY SubsetsFinite
  <2>2. \A j \in Items : StepsLeft(j) \in Nat /\ StepsLeft(j)' \in Nat
    BY StepsLeftType DEF SlotInv
  <2>3. g[i] < f[i] /\ \A j \in Items \ {i} : g[j] = f[j]
    BY TaskFalls
  <2>4. \A j \in Items : f[j] \in Int /\ g[j] \in Int
    BY <2>2
  <2> HIDE DEF f, g
  <2>5. SumFunctionOnSet(g, Items) < SumFunctionOnSet(f, Items)
    BY <2>1, <2>3, <2>4, SumFalls
  <2> QED
    BY <2>5 DEF AllStepsLeft, f, g
<1> QED
  BY <1>1, SlotSafety, PTL DEF Spec

\* Until every item is settled some task can go on: no slot, turn or cap leaves
\* all of them waiting for one another.
THEOREM DispatchNeverStuck == Spec => []SomeoneHasStep
<1>1. SlotInv => SomeoneHasStep
  <2> SUFFICES ASSUME SlotInv, NEW i \in Items, pc[i] # "done"
               PROVE  \E j \in Items : HasStep(j)
    BY DEF SomeoneHasStep
  <2> DEFINE line == {j \in Items : pc[j] = "queued"}
  <2>1. \A j \in Items : pc[j] \in {"queued", "acquiring", "calling", "backoff", "done"}
    BY DEF SlotInv, TypeOK
  <2>2. CASE Holding # {}
    BY <2>2 DEF Holding, HasStep
  <2>3. CASE Holding = {}
    <3>1. slots = MaxConcurrent /\ slots > 0
      BY <2>3, FS_EmptySet, ConfigAssumption DEF SlotInv, SlotsConserved, TypeOK
    <3>2. IsFiniteSet(line) /\ line \subseteq Int /\ line # {}
      <4>1. IsFiniteSet(line)
        BY SubsetsFinite
      <4> QED
        BY <2>1, <2>3, <4>1 DEF Holding
    <3> HIDE DEF line
    <3>3. PICK j \in line : \A k \in line : j <= k
      BY <3>2, LeastMember
    <3>4. j \in Items /\ pc[j] = "queued"
      BY <3>3 DEF line
    <3>5. \A k \in Items : k < j => pc[k] # "queued"
      BY <3>3, <3>4 DEF line
    <3> QED
      BY <3>1, <3>4, <3>5 DEF HasStep
  <2> QED
    BY <2>2, <2>3
<1> QED
  BY <1>1, SlotSafety, PTL
=============================================================================
