--------------------------- MODULE PreFlight_proofs ---------------------------
(***************************************************************************)
(* Theorems about PreFlight, for any models, prices, caps, requests, keys  *)
(* and test suites.                                                        *)
(*                                                                         *)
(* That an item is refused for no other reason than an estimate that was   *)
(* too low is an argument about amounts: as long as no answer cost more    *)
(* than its request was taken to cost, what is spent is at most what the   *)
(* answered requests are worth (Accounted), so that an item which would    *)
(* carry the spend over the cap carries their worth over it as well, and   *)
(* the check before the run had found less (Admitted).                     *)
(***************************************************************************)
EXTENDS PreFlight, SequenceTheorems, SumTheorems, TLAPS

\* There is no plan before the dispatch.
Quiet == phase \notin {"dispatching", "done"} => plan = {}

Credited == phase \notin {"start", "failed"} =>
              asked.providers \subseteq Available \/ asked.partial
Equipped == Started => adapters = Built(asked.providers \cap Available)
Admitted == phase \in {"planning", "dispatching", "done"} =>
              \A p \in adapters : Models[p] # <<>> =>
                RunEstimate(p) <= ProviderCap[p] /\ RunEstimate(p) <= GlobalCap

\* No answer of these providers cost more than its request was taken to.
Fair(ps) == \A j \in AnswersOf(ps) : Cost(j) <= ItemEstimate(j)
Accounted == /\ IsFiniteSet(DOMAIN settled)
             /\ \A p \in Providers : Fair({p}) => spent[p] <= Worth(AnswersOf({p}))
             /\ Fair(Providers) => GlobalSpend <= Worth(AnswersOf(Providers))

FlightInv == /\ TypeOK /\ Quiet /\ Credited /\ Equipped /\ Admitted /\ Accounted
             /\ RefusalsForeseen

-----------------------------------------------------------------------------
(* Amounts *)

\* An estimate of whole prices is whole.
LEMMA EstimateType ==
  ASSUME NEW m \in ModelRecords, NEW n \in Nat
  PROVE  Estimate(m, n) \in Nat
<1>1. m.input \in Nat /\ m.output \in Nat
  BY DEF ModelRecords
<1>2. n * m.output \in Nat
  BY <1>1
<1> QED
  BY <1>1, <1>2 DEF Estimate

\* The members of an item.
LEMMA ItemMembers ==
  ASSUME NEW i \in Items, adapters \subseteq Providers
  PROVE  /\ i[1] \in adapters /\ i[1] \in Providers
         /\ i[2] \in DOMAIN Models[i[1]] /\ i[3] \in DOMAIN cases
         /\ i = <<i[1], i[2], i[3]>>
BY DEF Items

\* What an item is taken to cost is whole.
LEMMA ItemEstimateType ==
  ASSUME NEW i \in Items, adapters \subseteq Providers
  PROVE  ItemEstimate(i) \in Nat
<1>1. ModelOf(i) \in ModelRecords
  <2>1. Models[i[1]] \in Seq(ModelRecords)
    BY ItemMembers, PreFlightAssumption
  <2> QED
    BY <2>1, ItemMembers DEF ModelOf
<1>2. ModelOf(i).limit \in Nat
  BY <1>1 DEF ModelRecords
<1> QED
  BY <1>1, <1>2, EstimateType DEF ItemEstimate

\* What finitely many items are worth, with one more and with many more.
LEMMA WorthType ==
  ASSUME adapters \subseteq Providers, NEW S \in SUBSET Items, IsFiniteSet(S)
  PROVE  Worth(S) \in Nat
<1> DEFINE f == [i \in S |-> ItemEstimate(i)]
<1>1. \A i \in S : f[i] \in Nat
  BY ItemEstimateType
<1> HIDE DEF f
<1>2. SumFunctionOnSet(f, S) \in Nat
  BY <1>1, SumNat
<1> QED
  BY <1>2 DEF Worth, f

LEMMA WorthAdd ==
  ASSUME adapters \subseteq Providers, NEW S \in SUBSET Items, IsFiniteSet(S),
         NEW x \in Items, x \notin S
  PROVE  Worth(S \cup {x}) = ItemEstimate(x) + Worth(S)
<1> DEFINE T == S \cup {x}
           f == [i \in T |-> ItemEstimate(i)]
           g == [i \in S |-> ItemEstimate(i)]
<1>1. /\ \A i \in S \cup {x} : f[i] \in Int
      /\ \A i \in S : f[i] \in Int /\ g[i] = f[i]
      /\ f[x] = ItemEstimate(x)
  BY ItemEstimateType
<1>2. Worth(S \cup {x}) = SumFunctionOnSet(f, S \cup {x}) /\ Worth(S) = SumFunctionOnSet(g, S)
  BY DEF Worth
<1> HIDE DEF f, g, T
<1>3. SumFunctionOnSet(f, S \cup {x}) = f[x] + SumFunctionOnSet(f, S)
  BY <1>1, SumAdd
<1>4. SumFunctionOnSet(f, S) = SumFunctionOnSet(g, S)
  BY <1>1, SumSame
<1> QED
  BY <1>1, <1>2, <1>3, <1>4

LEMMA WorthGrows ==
  ASSUME adapters \subseteq Providers, NEW S \in SUBSET Items, IsFiniteSet(S),
         NEW R \in SUBSET S
  PROVE  Worth(R) <= Worth(S)
<1> DEFINE f == [i \in S |-> ItemEstimate(i)]
           g == [i \in R |-> ItemEstimate(i)]
<1>1. /\ \A i \in S : f[i] \in Nat
      /\ \A i \in R : f[i] \in Int /\ g[i] = f[i]
  BY ItemEstimateType
<1>2. Worth(S) = SumFunctionOnSet(f, S) /\ Worth(R) = SumFunctionOnSet(g, R)
  BY DEF Worth
<1> HIDE DEF f, g
<1>3. SumFunctionOnSet(f, R) <= SumFunctionOnSet(f, S)
  BY <1>1, SumSubset
<1>4. IsFiniteSet(R)
  BY FS_Subset
<1>5. SumFunctionOnSet(f, R) = SumFunctionOnSet(g, R)
  BY <1>1, <1>4, SumSame
<1> QED
  BY <1>2, <1>3, <1>5

-----------------------------------------------------------------------------
(* Types *)

LEMMA RequestTypes ==
  ASSUME NEW r \in Requests
  PROVE  [r EXCEPT !.providers = Aliased(@)] \in RunConfigs
<1>1. r \in RunConfigs
  BY PreFlightAssumption
<1>2. Aliased(r.providers) \in SUBSET Names
  BY <1>1 DEF Aliased, RunConfigs, Names, Providers
<1> QED
  BY <1>1, <1>2 DEF RunConfigs

\* A cut list of cases is a list of cases.
LEMMA UptoType ==
  ASSUME NEW s \in Seq(CaseRecords), NEW n \in Int
  PROVE  Upto(s, n) \in Seq(CaseRecords)
<1>1. ASSUME NEW k \in Int, k <= Len(s) PROVE SubSeq(s, 1, k) \in Seq(CaseRecords)
  <2>1. \A j \in 1..k : s[j] \in CaseRecords
    BY <1>1
  <2> QED
    BY <1>1, <2>1, SubSeqProperties
<1>2. CASE n >= 0
  BY <1>1, <1>2 DEF Upto
<1>3. CASE ~(n >= 0)
  <2>1. Len(s) + n \in Int /\ Len(s) + n <= Len(s)
    BY <1>3
  <2> QED
    BY <1>1, <1>3, <2>1 DEF Upto
<1> QED
  BY <1>2, <1>3

\* The bill of an answer is whole.
LEMMA BillTypes ==
  ASSUME TypeOK, NEW i \in plan, NEW c \in Bills(i)
  PROVE  c \in Nat /\ i \in Items /\ i[1] \in Providers
<1>1. i \in Items
  BY DEF TypeOK
<1>2. ItemEstimate(i) \in Nat /\ i[1] \in Providers
  BY <1>1, ItemEstimateType, ItemMembers DEF TypeOK
<1> QED
  BY <1>1, <1>2 DEF Bills

LEMMA SpendType == TypeOK => GlobalSpend \in Nat
<1> SUFFICES ASSUME TypeOK PROVE GlobalSpend \in Nat
  OBVIOUS
<1>1. /\ spent["openai"] \in Nat /\ spent["anthropic"] \in Nat
      /\ spent["google"] \in Nat /\ spent["xai"] \in Nat
  BY DEF TypeOK, Providers
<1> QED
  BY <1>1 DEF GlobalSpend

LEMMA InitTypes == Init => FlightInv
<1> SUFFICES ASSUME Init PROVE FlightInv
  OBVIOUS
<1>1. asked \in RunConfigs
  BY RequestTypes DEF Init
<1>2. <<>> \in Seq(CaseRecords)
  OBVIOUS
<1>3. Len(asked.categories) \in Nat
  BY <1>1 DEF RunConfigs
<1>4. TypeOK
  BY <1>1, <1>2, <1>3 DEF Init, TypeOK, Phases
<1>5. Accounted
  <2>1. DOMAIN settled = {} /\ spent = [p \in Providers |-> 0]
    BY DEF Init
  <2>2. AnswersOf(Providers) = {} /\ \A p \in Providers : AnswersOf({p}) = {}
    BY <2>1 DEF AnswersOf
  <2>3. Worth({}) = 0 /\ IsFiniteSet({})
    BY SumOfNone, FS_EmptySet DEF Worth
  <2>4. GlobalSpend = 0
    BY <2>1 DEF GlobalSpend, Providers
  <2>5. \A p \in Providers : spent[p] <= Worth(AnswersOf({p}))
    <3>1. ASSUME NEW p \in Providers PROVE spent[p] <= Worth(AnswersOf({p}))
      <4>1. Worth(AnswersOf({p})) = 0 /\ spent[p] = 0
        BY <2>1, <2>2, <2>3
      <4> QED
        BY <4>1
    <3> QED
      BY <3>1
  <2>6. GlobalSpend <= Worth(AnswersOf(Providers))
    BY <2>2, <2>3, <2>4
  <2> QED
    BY <2>1, <2>3, <2>5, <2>6 DEF Accounted
<1> QED
  BY <1>4, <1>5
     DEF Init, FlightInv, Quiet, Credited, Equipped, Admitted, Started, RefusalsForeseen

\* The steps before the dispatch leave its variables alone.
Early == CheckCredentials \/ LoadCategory \/ BuildAdapters \/ Admit

LEMMA EarlyTypes == FlightInv /\ Early => TypeOK'
<1> SUFFICES ASSUME FlightInv, Early PROVE TypeOK'
  OBVIOUS
<1> USE DEF FlightInv, TypeOK, Phases
<1>1. phase \in {"start", "loading", "admitting"} /\ plan = {}
  BY DEF Early, CheckCredentials, LoadCategory, BuildAdapters, Admit, Quiet
<1>2. UNCHANGED <<asked, plan, sent, settled, spent>>
  BY DEF Early, CheckCredentials, LoadCategory, BuildAdapters, Admit, configured, dispatched
<1>3. phase' \in Phases
  BY DEF Early, CheckCredentials, LoadCategory, BuildAdapters, Admit
<1>4. adapters' \subseteq Providers
  BY DEF Early, CheckCredentials, LoadCategory, BuildAdapters, Admit, Built, Available
<1>5. cases' \in Seq(CaseRecords) /\ loaded' \in 0..Len(asked.categories)
  <2>1. CASE LoadCategory
    <3> DEFINE c == asked.categories[loaded + 1]
    <3>1. CASE c \in DOMAIN Suite
      <4>1. asked.cap \in Int /\ Len(asked.categories) \in Nat
        BY DEF RunConfigs
      <4>2. Suite[c] \in Seq(CaseRecords)
        BY <3>1, PreFlightAssumption
      <4>3. Upto(Suite[c], asked.cap) \in Seq(CaseRecords)
        BY <4>1, <4>2, UptoType
      <4>4. cases' = cases \o Upto(Suite[c], asked.cap) /\ loaded' = loaded + 1
            /\ loaded < Len(asked.categories)
        BY <2>1, <3>1 DEF LoadCategory
      <4> QED
        BY <4>1, <4>3, <4>4, ConcatProperties
    <3>2. CASE c \notin DOMAIN Suite
      BY <2>1, <3>2 DEF LoadCategory
    <3> QED
      BY <3>1, <3>2
  <2>2. CASE ~LoadCategory
    BY <2>2 DEF Early, CheckCredentials, BuildAdapters, Admit
  <2> QED
    BY <2>1, <2>2
<1> QED
  BY <1>1, <1>2, <1>3, <1>4, <1>5

\* Until the dispatch is over its items are those of the adapters.
LEMMA LateTypes ==
  ASSUME FlightInv, \/ BuildPlan \/ Finish \/ UNCHANGED vars
                    \/ \E i \in plan : \/ CheckItem(i) \/ FailItem(i)
                                       \/ \E c \in Bills(i) : AnswerItem(i, c)
  PROVE  TypeOK'
<1> USE DEF FlightInv, TypeOK, Phases
<1>1. CASE BuildPlan
  BY <1>1 DEF BuildPlan, configured, Items, ModelOf, Quiet
<1>2. CASE Finish \/ UNCHANGED vars
  BY <1>2 DEF Finish, vars, configured, dispatched, Items, ModelOf, Outcomes
<1>3. ASSUME NEW i \in plan, CheckItem(i) PROVE TypeOK'
  <2>1. UNCHANGED <<asked, phase, loaded, cases, adapters, plan, spent>> /\ Items' = Items
    BY <1>3 DEF CheckItem, configured, Items, ModelOf
  <2>2. Refused \in Outcomes /\ GloballyRefused \in Outcomes
    BY DEF Refused, GloballyRefused, Outcomes
  <2>3. i \notin sent /\ i \notin DOMAIN settled
    BY <1>3 DEF CheckItem, Open
  <2>4. \/ sent' = sent \cup {i} /\ UNCHANGED settled
        \/ UNCHANGED sent /\ \E o \in Outcomes : SettleAs(i, o)
    BY <1>3, <2>2 DEF CheckItem
  <2> QED
    BY <2>1, <2>3, <2>4 DEF SettleAs
<1>4. ASSUME NEW i \in plan, FailItem(i) PROVE TypeOK'
  <2>1. UNCHANGED <<asked, phase, loaded, cases, adapters, plan, spent>> /\ Items' = Items
    BY <1>4 DEF FailItem, configured, Items, ModelOf
  <2>2. Failed \in Outcomes
    BY DEF Failed, Outcomes
  <2> QED
    BY <1>4, <2>1, <2>2 DEF FailItem, SettleAs
<1>5. ASSUME NEW i \in plan, NEW c \in Bills(i), AnswerItem(i, c) PROVE TypeOK'
  <2>1. UNCHANGED <<asked, phase, loaded, cases, adapters, plan>> /\ Items' = Items
    BY <1>5 DEF AnswerItem, configured, Items, ModelOf
  <2>2. c \in Nat /\ i[1] \in Providers
    BY <1>5, BillTypes
  <2>3. Answered(c) \in Outcomes
    BY <2>2 DEF Answered, Outcomes
  <2>4. spent' \in [Providers -> Nat]
    BY <1>5, <2>2 DEF AnswerItem
  <2> QED
    BY <1>5, <2>1, <2>3, <2>4 DEF AnswerItem, SettleAs
<1> QED
  BY <1>1, <1>2, <1>3, <1>4, <1>5

-----------------------------------------------------------------------------
(* The invariant *)

\* Where nothing is settled or spent the books stay as they are.
LEMMA Settling ==
  ASSUME FlightInv, UNCHANGED <<settled, spent>>
  PROVE  Accounted'
BY DEF FlightInv, Accounted, Fair, AnswersOf, Cost, Worth, GlobalSpend, ItemEstimate, ModelOf

\* Nor is a refusal forgotten or its reasons.
LEMMA RefusalsKept ==
  ASSUME FlightInv, UNCHANGED <<settled, cases, adapters>>
  PROVE  RefusalsForeseen'
BY DEF FlightInv, RefusalsForeseen, Outgrown, AnswersOf, Cost, Worth, ItemEstimate, ModelOf,
       RunEstimate

LEMMA EarlyInv ==
  ASSUME FlightInv, Early
  PROVE  FlightInv'
<1>1. TypeOK'
  BY EarlyTypes
<1>2. UNCHANGED <<plan, settled, spent, keys, asked>> /\ plan = {}
  BY DEF Early, CheckCredentials, LoadCategory, BuildAdapters, Admit, configured, dispatched,
         FlightInv, Quiet
<1>3. Quiet'
  BY <1>2 DEF Quiet
<1>4. Accounted' /\ RefusalsForeseen'
  <2>1. DOMAIN settled' = {}
    BY <1>2 DEF FlightInv, TypeOK
  <2> QED
    BY <1>2, <2>1, Settling DEF RefusalsForeseen
<1>5. Available' = Available
  BY <1>2 DEF Available, HasKey
<1>6. Credited'
  BY <1>2, <1>5 DEF Early, CheckCredentials, LoadCategory, BuildAdapters, Admit, FlightInv,
                    Credited, configured
<1>7. Equipped'
  <2>1. Built(asked.providers \cap Available)' = Built(asked.providers \cap Available)
    BY <1>2, <1>5 DEF Built, Constructs, HasKey
  <2> QED
    BY <1>2, <1>5, <2>1 DEF Early, CheckCredentials, LoadCategory, BuildAdapters, Admit,
                            FlightInv, Equipped, Started
<1>8. Admitted'
  <2>1. CASE Admit
    <3>1. SUFFICES ASSUME NEW p \in adapters, Models[p] # <<>>,
                          ~OverBudget(p, RunEstimate(p))
                   PROVE  RunEstimate(p) <= ProviderCap[p] /\ RunEstimate(p) <= GlobalCap
      BY <2>1 DEF Admit, Admitted, RunEstimate
    <3>2. p \in Providers /\ spent[p] \in Nat /\ cases \in Seq(CaseRecords)
      BY DEF FlightInv, TypeOK
    <3>3. Models[p][1] \in ModelRecords
      <4>1. Models[p] \in Seq(ModelRecords)
        BY <3>2, PreFlightAssumption
      <4> QED
        BY <3>1, <4>1
    <3>4. Estimate(Models[p][1], OutputCap) \in Nat
      BY <3>3, EstimateType, PreFlightAssumption
    <3>5. RunEstimate(p) \in Nat
      <4>1. 2 * Len(cases) \in Nat
        BY <3>2
      <4> QED
        BY <3>4, <4>1 DEF RunEstimate
    <3>6. ProviderCap[p] \in Nat /\ GlobalCap \in Nat /\ GlobalSpend \in Nat
      BY <3>2, SpendType, PreFlightAssumption DEF FlightInv
    <3> QED
      BY <3>1, <3>2, <3>5, <3>6 DEF OverBudget, OverCap, OverGlobal
  <2>2. CASE ~Admit
    BY <2>2 DEF Early, CheckCredentials, LoadCategory, BuildAdapters, FlightInv, Admitted
  <2> QED
    BY <2>1, <2>2
<1> QED
  BY <1>1, <1>3, <1>4, <1>6, <1>7, <1>8 DEF FlightInv

\* What does not depend on the outcomes.
LEMMA LateFrame ==
  ASSUME FlightInv, UNCHANGED <<keys, asked, cases, adapters>>,
         \/ phase' = phase
         \/ phase = "planning" /\ phase' = "dispatching"
         \/ phase = "dispatching" /\ phase' = "done"
  PROVE  Credited' /\ Equipped' /\ Admitted'
BY DEF FlightInv, Credited, Equipped, Admitted, Started, Available, HasKey, Built, Constructs,
       RunEstimate

\* A further item settled adds itself to the answers, if it is one, and no more.
LEMMA AnswersGrow ==
  ASSUME FlightInv, NEW i, NEW o, i \notin DOMAIN settled, SettleAs(i, o), NEW ps
  PROVE  /\ AnswersOf(ps)' = IF i[1] \in ps /\ o.kind = "answer"
                             THEN AnswersOf(ps) \cup {i} ELSE AnswersOf(ps)
         /\ \A j \in DOMAIN settled : j \in DOMAIN settled' /\ settled'[j] = settled[j]
         /\ settled'[i] = o /\ DOMAIN settled' = DOMAIN settled \cup {i}
<1>1. /\ DOMAIN settled' = DOMAIN settled \cup {i} /\ settled'[i] = o
      /\ \A j \in DOMAIN settled : settled'[j] = settled[j]
  BY DEF SettleAs
<1> QED
  BY <1>1 DEF AnswersOf

\* The answers are finitely many items.
LEMMA AnswersAreItems ==
  ASSUME FlightInv, NEW ps
  PROVE  /\ AnswersOf(ps) \in SUBSET Items /\ IsFiniteSet(AnswersOf(ps))
         /\ adapters \subseteq Providers
<1>1. AnswersOf(ps) \subseteq DOMAIN settled
  BY DEF AnswersOf
<1> QED
  BY <1>1, FS_Subset DEF FlightInv, Accounted, TypeOK

\* An amount that grows with the answers to some providers by what they cost
\* stays within what their requests are worth.
LEMMA SettleCovered ==
  ASSUME FlightInv, NEW i \in plan, NEW o \in Outcomes, i \notin DOMAIN settled,
         SettleAs(i, o), o.kind # "answer" => o.cost = 0,
         NEW ps, NEW m \in Nat, NEW n \in Nat,
         n = IF i[1] \in ps THEN m + o.cost ELSE m,
         Fair(ps) => m <= Worth(AnswersOf(ps)),
         Fair(ps)'
  PROVE  n <= Worth(AnswersOf(ps)')
<1> DEFINE A == AnswersOf(ps)
<1>1. /\ i \in Items /\ i \notin A /\ A \in SUBSET Items /\ IsFiniteSet(A)
      /\ adapters \subseteq Providers
  BY AnswersAreItems DEF AnswersOf, FlightInv, TypeOK
<1>2. ItemEstimate(i) \in Nat /\ Worth(A) \in Nat /\ o.cost \in Nat
  BY <1>1, ItemEstimateType, WorthType DEF Outcomes
<1>3. m <= Worth(A)
  <2>1. ASSUME NEW j \in A PROVE Cost(j) <= ItemEstimate(j)
    <3>1. j \in AnswersOf(ps)' /\ settled'[j] = settled[j]
      BY <2>1, AnswersGrow DEF AnswersOf
    <3> QED
      BY <3>1 DEF Fair, Cost, ItemEstimate, ModelOf
  <2> QED
    BY <2>1 DEF Fair
<1>4. CASE i[1] \in ps /\ o.kind = "answer"
  <2>1. AnswersOf(ps)' = A \cup {i} /\ settled'[i] = o
    BY <1>4, AnswersGrow
  <2>2. o.cost <= ItemEstimate(i)
    BY <2>1 DEF Fair, Cost, ItemEstimate, ModelOf
  <2>3. Worth(A \cup {i}) = ItemEstimate(i) + Worth(A)
    BY <1>1, WorthAdd
  <2> QED
    BY <1>2, <1>3, <1>4, <2>1, <2>2, <2>3
<1>5. CASE ~(i[1] \in ps /\ o.kind = "answer")
  <2>1. AnswersOf(ps)' = A
    BY <1>5, AnswersGrow
  <2>2. n = m
    BY <1>2, <1>5
  <2> QED
    BY <1>3, <2>1, <2>2
<1> QED
  BY <1>4, <1>5

LEMMA SettleAccounted ==
  ASSUME FlightInv, NEW i \in plan, NEW o \in Outcomes, i \notin DOMAIN settled,
         SettleAs(i, o), o.kind # "answer" => o.cost = 0,
         spent' = [spent EXCEPT ![i[1]] = @ + o.cost]
  PROVE  Accounted'
<1>1. spent \in [Providers -> Nat] /\ i[1] \in Providers /\ o.cost \in Nat
  BY ItemMembers DEF FlightInv, TypeOK, Outcomes
<1>2. IsFiniteSet(DOMAIN settled')
  <2>1. IsFiniteSet(DOMAIN settled)
    BY DEF FlightInv, Accounted
  <2>2. DOMAIN settled' = DOMAIN settled \cup {i}
    BY AnswersGrow
  <2> QED
    BY <2>1, <2>2, FS_AddElement
<1>3. ASSUME NEW p \in Providers, Fair({p})'
      PROVE  spent'[p] <= Worth(AnswersOf({p})')
  <2> DEFINE n == spent'[p]
  <2>1. n = IF i[1] \in {p} THEN spent[p] + o.cost ELSE spent[p]
    BY <1>1
  <2>2. n \in Nat /\ spent[p] \in Nat
    BY <1>1, <2>1
  <2>3. Fair({p}) => spent[p] <= Worth(AnswersOf({p}))
    BY DEF FlightInv, Accounted
  <2> HIDE DEF n
  <2>4. n <= Worth(AnswersOf({p})')
    BY <1>3, <2>1, <2>2, <2>3, SettleCovered
  <2> QED
    BY <2>4 DEF n
<1>4. ASSUME Fair(Providers)'
      PROVE  GlobalSpend' <= Worth(AnswersOf(Providers)')
  <2> DEFINE n == GlobalSpend'
  <2>1. n = GlobalSpend + o.cost /\ GlobalSpend \in Nat
    BY <1>1 DEF GlobalSpend, Providers
  <2>2. n = (IF i[1] \in Providers THEN GlobalSpend + o.cost ELSE GlobalSpend) /\ n \in Nat
    BY <1>1, <2>1
  <2>3. Fair(Providers) => GlobalSpend <= Worth(AnswersOf(Providers))
    BY DEF FlightInv, Accounted
  <2> HIDE DEF n
  <2>4. n <= Worth(AnswersOf(Providers)')
    BY <1>4, <2>1, <2>2, <2>3, SettleCovered
  <2> QED
    BY <2>4 DEF n
<1>5. \A ps : Worth(AnswersOf(ps))' = Worth(AnswersOf(ps)')
  BY DEF Worth, ItemEstimate, ModelOf
<1> QED
  BY <1>2, <1>3, <1>4, <1>5 DEF Accounted

\* The heart of the matter: what does not fit a cap has outgrown it.
LEMMA OverIsOutgrown ==
  ASSUME FlightInv, NEW i \in plan, i \notin DOMAIN settled,
         NEW ps, NEW m \in Nat, NEW cap \in Nat,
         Fair(ps) => m <= Worth(AnswersOf(ps)),
         \A p \in ps \cap adapters : Models[p] # <<>> => RunEstimate(p) <= cap,
         m + ItemEstimate(i) > cap
  PROVE  Outgrown(ps, i, cap)
<1> DEFINE A == AnswersOf(ps)
<1>1. /\ i \in Items /\ i \notin A /\ A \in SUBSET Items /\ IsFiniteSet(A)
      /\ adapters \subseteq Providers
  BY AnswersAreItems DEF AnswersOf, FlightInv, TypeOK
<1>2. ItemEstimate(i) \in Nat /\ Worth(A) \in Nat
  BY <1>1, ItemEstimateType, WorthType
<1>3. CASE Fair(ps)
  <2>1. Worth(A \cup {i}) = ItemEstimate(i) + Worth(A)
    BY <1>1, WorthAdd
  <2>2. Worth(A \cup {i}) > cap
    BY <1>2, <1>3, <2>1
  <2> QED
    BY <2>2 DEF Outgrown
<1>4. CASE ~Fair(ps)
  <2>1. PICK j \in A : ~(Cost(j) <= ItemEstimate(j))
    BY <1>4 DEF Fair
  <2>2. Cost(j) \in Nat /\ ItemEstimate(j) \in Nat
    BY <1>1, ItemEstimateType DEF AnswersOf, Cost, FlightInv, TypeOK, Outcomes
  <2>3. Cost(j) > ItemEstimate(j)
    BY <2>1, <2>2
  <2> QED
    BY <2>3 DEF Outgrown
<1> QED
  BY <1>3, <1>4

\* A cap that is outgrown stays so, whatever is settled afterwards.
LEMMA OutgrownStays ==
  ASSUME FlightInv, TypeOK', NEW i, NEW o, i \notin DOMAIN settled, SettleAs(i, o),
         UNCHANGED <<cases, adapters>>,
         NEW ps, NEW j \in Items, NEW cap \in Nat, Outgrown(ps, j, cap)
  PROVE  Outgrown(ps, j, cap)'
<1> DEFINE A == AnswersOf(ps)
           B == AnswersOf(ps)'
<1>1. A \subseteq B /\ \A k \in A : settled'[k] = settled[k]
  BY AnswersGrow DEF AnswersOf
<1>2. CASE \E k \in A : Cost(k) > ItemEstimate(k)
  BY <1>1, <1>2 DEF Outgrown, Cost, ItemEstimate, ModelOf
<1>3. CASE /\ \A p \in ps \cap adapters : Models[p] # <<>> => RunEstimate(p) <= cap
           /\ Worth(A \cup {j}) > cap
  <2>1. \A p \in ps \cap adapters' : Models[p] # <<>> => RunEstimate(p)' <= cap
    BY <1>3 DEF RunEstimate
  <2>2. IsFiniteSet(B) /\ B \in SUBSET Items /\ adapters \subseteq Providers
    <3>1. IsFiniteSet(A) /\ A \in SUBSET Items /\ adapters \subseteq Providers
      BY AnswersAreItems
    <3>2. B \subseteq A \cup {i}
      BY AnswersGrow
    <3>3. IsFiniteSet(B)
      BY <3>1, <3>2, FS_AddElement, FS_Subset
    <3>4. DOMAIN settled' \subseteq Items'
      BY DEF TypeOK
    <3>5. Items' = Items
      BY DEF Items, ModelOf
    <3> QED
      BY <3>1, <3>3, <3>4, <3>5 DEF AnswersOf
  <2>3. B \cup {j} \in SUBSET Items /\ IsFiniteSet(B \cup {j}) /\ A \cup {j} \in SUBSET (B \cup {j})
    BY <1>1, <2>2, FS_AddElement
  <2>4. A \cup {j} \in SUBSET Items /\ IsFiniteSet(A \cup {j})
    BY <2>3, FS_Subset
  <2>5. Worth(A \cup {j}) <= Worth(B \cup {j})
    BY <2>2, <2>3, WorthGrows
  <2>6. Worth(A \cup {j}) \in Nat /\ Worth(B \cup {j}) \in Nat
    BY <2>2, <2>3, <2>4, WorthType
  <2>7. Worth(B \cup {j}) > cap
    BY <1>3, <2>5, <2>6
  <2>8. Worth(AnswersOf(ps) \cup {j})' = Worth(B \cup {j})
    BY DEF Worth, ItemEstimate, ModelOf
  <2> QED
    BY <2>1, <2>7, <2>8 DEF Outgrown
<1> QED
  BY <1>2, <1>3 DEF Outgrown

LEMMA LateInv ==
  ASSUME FlightInv, \/ BuildPlan \/ Finish \/ UNCHANGED vars
                    \/ \E i \in plan : \/ CheckItem(i) \/ FailItem(i)
                                       \/ \E c \in Bills(i) : AnswerItem(i, c)
  PROVE  FlightInv'
<1>1. TypeOK'
  BY LateTypes
<1>2. CASE BuildPlan
  <2>1. UNCHANGED <<keys, asked, cases, adapters>> /\ DOMAIN settled = {}
    BY <1>2 DEF BuildPlan, configured, FlightInv, Quiet, TypeOK
  <2>2. Quiet' /\ Credited' /\ Equipped' /\ Admitted'
    BY <1>2, <2>1, LateFrame DEF BuildPlan, Quiet
  <2>3. RefusalsForeseen'
    BY <1>2, <2>1 DEF BuildPlan, RefusalsForeseen
  <2>4. Accounted'
    BY <1>2, Settling DEF BuildPlan
  <2> QED
    BY <1>1, <2>2, <2>3, <2>4 DEF FlightInv
<1>3. CASE Finish \/ UNCHANGED vars
  <2>1. UNCHANGED <<keys, asked, cases, adapters, plan, settled, spent>>
    BY <1>3 DEF Finish, vars, configured, dispatched
  <2>2. Quiet' /\ Credited' /\ Equipped' /\ Admitted'
    BY <1>3, <2>1, LateFrame DEF Finish, vars, Quiet, FlightInv
  <2> QED
    BY <1>1, <2>1, <2>2, Settling, RefusalsKept DEF FlightInv
<1>4. ASSUME NEW i \in plan, CheckItem(i) \/ FailItem(i) \/ \E c \in Bills(i) : AnswerItem(i, c)
      PROVE  FlightInv'
  <2>1. UNCHANGED <<keys, asked, phase, cases, adapters, plan>>
    BY <1>4 DEF CheckItem, FailItem, AnswerItem, configured
  <2>2. Quiet' /\ Credited' /\ Equipped' /\ Admitted'
    BY <2>1, LateFrame DEF Quiet, FlightInv
  <2>3. i \notin DOMAIN settled
    BY <1>4 DEF CheckItem, FailItem, AnswerItem, Open, FlightInv, TypeOK
  <2>4. i[1] \in Providers /\ spent \in [Providers -> Nat] /\ DOMAIN settled \subseteq Items
    BY ItemMembers DEF FlightInv, TypeOK
  <2>5. CASE UNCHANGED settled
    <3>1. UNCHANGED spent
      BY <1>4, <2>3, <2>5 DEF CheckItem, FailItem, AnswerItem, SettleAs
    <3> QED
      BY <1>1, <2>1, <2>2, <2>5, <3>1, Settling, RefusalsKept DEF FlightInv
  <2>6. ASSUME NEW o \in Outcomes, SettleAs(i, o), o.kind # "answer" => o.cost = 0,
               spent' = [spent EXCEPT ![i[1]] = @ + o.cost],
               o = Refused => Outgrown({i[1]}, i, ProviderCap[i[1]]),
               o = GloballyRefused => Outgrown(Providers, i, GlobalCap)
        PROVE  FlightInv'
    <3>1. Accounted'
      BY <2>3, <2>6, SettleAccounted
    <3>2. RefusalsForeseen'
      <4>0. /\ DOMAIN settled' = DOMAIN settled \cup {i} /\ settled'[i] = o
            /\ \A j \in DOMAIN settled : settled'[j] = settled[j]
        BY <2>3, <2>6, AnswersGrow
      <4>1. \A j \in DOMAIN settled' : j \in Items /\ j[1] \in Providers
        <5>1. i \in Items /\ adapters \subseteq Providers
          BY DEF FlightInv, TypeOK
        <5>2. \A j \in DOMAIN settled' : j \in Items
          BY <2>4, <4>0, <5>1
        <5> QED
          BY <5>1, <5>2, ItemMembers
      <4>2. \A j \in DOMAIN settled' :
              /\ settled'[j] = Refused => Outgrown({j[1]}, j, ProviderCap[j[1]])
              /\ settled'[j] = GloballyRefused => Outgrown(Providers, j, GlobalCap)
        BY <2>6, <4>0 DEF FlightInv, RefusalsForeseen
      <4>3. \A p \in Providers : ProviderCap[p] \in Nat /\ GlobalCap \in Nat
        BY PreFlightAssumption
      <4>4. ASSUME NEW j \in DOMAIN settled', settled'[j] = Refused
            PROVE  Outgrown({j[1]}, j, ProviderCap[j[1]])'
        BY <1>1, <2>1, <2>3, <2>6, <4>1, <4>2, <4>3, <4>4, OutgrownStays
      <4>5. ASSUME NEW j \in DOMAIN settled', settled'[j] = GloballyRefused
            PROVE  Outgrown(Providers, j, GlobalCap)'
        BY <1>1, <2>1, <2>3, <2>6, <4>1, <4>2, <4>3, <4>5, OutgrownStays
      <4> QED
        BY <4>4, <4>5 DEF RefusalsForeseen, Refused, GloballyRefused
    <3> QED
      BY <1>1, <2>2, <3>1, <3>2 DEF FlightInv
  <2>7. CASE CheckItem(i) /\ ~UNCHANGED settled
    <3>1. PICK o \in {Refused, GloballyRefused} :
            /\ SettleAs(i, o)
            /\ o = Refused => OverCap(i[1], ItemEstimate(i))
            /\ o = GloballyRefused => OverGlobal(ItemEstimate(i))
      BY <2>7 DEF CheckItem, Refused, GloballyRefused
    <3>2. o \in Outcomes /\ o.cost = 0
      BY DEF Refused, GloballyRefused, Outcomes
    <3>3. spent' = [spent EXCEPT ![i[1]] = @ + o.cost]
      BY <2>4, <2>7, <3>2 DEF CheckItem
    <3>4. \A p \in adapters : Models[p] # <<>> =>
            RunEstimate(p) <= ProviderCap[p] /\ RunEstimate(p) <= GlobalCap
      BY DEF FlightInv, Quiet, Admitted
    <3>5. spent[i[1]] \in Nat /\ GlobalSpend \in Nat /\ ProviderCap[i[1]] \in Nat
          /\ GlobalCap \in Nat
      BY <2>4, SpendType, PreFlightAssumption DEF FlightInv
    <3>6. /\ Fair({i[1]}) => spent[i[1]] <= Worth(AnswersOf({i[1]}))
          /\ Fair(Providers) => GlobalSpend <= Worth(AnswersOf(Providers))
      BY <2>4 DEF FlightInv, Accounted
    <3>7. o = Refused => Outgrown({i[1]}, i, ProviderCap[i[1]])
      BY <2>3, <3>1, <3>4, <3>5, <3>6, OverIsOutgrown DEF OverCap
    <3>8. o = GloballyRefused => Outgrown(Providers, i, GlobalCap)
      BY <2>3, <3>1, <3>4, <3>5, <3>6, OverIsOutgrown DEF OverGlobal
    <3> QED
      BY <2>6, <3>1, <3>2, <3>3, <3>7, <3>8
  <2>8. CASE FailItem(i)
    <3>1. /\ Failed \in Outcomes /\ Failed.cost = 0
          /\ Failed # Refused /\ Failed # GloballyRefused
      BY DEF Failed, Refused, GloballyRefused, Outcomes
    <3>2. spent' = [spent EXCEPT ![i[1]] = @ + Failed.cost]
      BY <2>4, <2>8, <3>1 DEF FailItem
    <3> QED
      BY <2>6, <2>8, <3>1, <3>2 DEF FailItem
  <2>9. ASSUME NEW c \in Bills(i), AnswerItem(i, c) PROVE FlightInv'
    <3>1. c \in Nat
      BY BillTypes DEF FlightInv
    <3>2. /\ Answered(c) \in Outcomes /\ Answered(c).cost = c /\ Answered(c).kind = "answer"
          /\ Answered(c) # Refused /\ Answered(c) # GloballyRefused
      BY <3>1 DEF Answered, Refused, GloballyRefused, Outcomes
    <3> QED
      BY <2>6, <2>9, <3>2 DEF AnswerItem
  <2> QED
    BY <1>4, <2>5, <2>7, <2>8, <2>9
<1> QED
  BY <1>2, <1>3, <1>4

LEMMA StepInv == FlightInv /\ [Next]_vars => FlightInv'
BY EarlyInv, LateInv DEF Next, Early, Over

-----------------------------------------------------------------------------
(* Theorems *)

THEOREM Invariance == Spec => []FlightInv
<1> QED
  BY InitTypes, StepInv, PTL DEF Spec

\* Nothing is sent or settled but the items of the adapters, and none of them
\* is both.
THEOREM FlightTypes == Spec => []TypeOK
<1>1. FlightInv => TypeOK
  BY DEF FlightInv
<1> QED
  BY <1>1, Invariance, PTL

\* A provider that is left out of a run has no key, or one in another place,
\* whatever keys are set and whatever was asked for.
THEOREM EveryDropExplained == Spec => []DropsExplained
<1>1. FlightInv => DropsExplained
  <2>1. SUFFICES ASSUME FlightInv, Started
                 PROVE  /\ adapters \subseteq asked.providers
                        /\ \A p \in asked.providers \ adapters :
                             KeyElsewhere(p)
                             \/ (asked.partial /\ (p \in Providers => ~HasKey(p)))
    BY DEF DropsExplained
  <2>2. adapters = Built(asked.providers \cap Available)
    BY <2>1 DEF FlightInv, Equipped
  <2>3. adapters \subseteq asked.providers
    BY <2>2 DEF Built
  <2>4. ASSUME NEW p \in asked.providers \ adapters
        PROVE  KeyElsewhere(p) \/ (asked.partial /\ (p \in Providers => ~HasKey(p)))
    <3>1. CASE p \in Available
      <4>1. p \in Providers /\ HasKey(p) /\ (EnvKey(p) \notin keys \/ ~Constructs(p))
        BY <2>2, <2>4, <3>1 DEF Available, Built
      <4>2. CASE p = "google"
        BY <4>1, <4>2 DEF HasKey, Alternatives, EnvKey, Constructs, KeyElsewhere
      <4>3. CASE p = "xai"
        BY <4>1, <4>3 DEF HasKey, Alternatives, EnvKey, Constructs, KeyElsewhere
      <4>4. CASE p \in {"openai", "anthropic"}
        BY <4>1, <4>4 DEF HasKey, Alternatives, EnvKey, Constructs
      <4> QED
        BY <4>1, <4>2, <4>3, <4>4 DEF Providers
    <3>2. CASE p \notin Available
      <4>1. asked.partial
        BY <2>1, <2>4, <3>2 DEF FlightInv, Credited, Started
      <4> QED
        BY <3>2, <4>1 DEF Available
    <3> QED
      BY <3>1, <3>2
  <2> QED
    BY <2>3, <2>4
<1> QED
  BY <1>1, Invariance, PTL

\* Whatever the models, prices, caps and cases and in any order of checks and
\* answers, a run that was admitted loses an item to a cap only if an answer
\* cost more than its request was taken to, or the requests are worth more than
\* the check before the run reckoned with.
THEOREM EveryRefusalForeseen == Spec => []RefusalsForeseen
<1>1. FlightInv => RefusalsForeseen
  BY DEF FlightInv
<1> QED
  BY <1>1, Invariance, PTL
=============================================================================
