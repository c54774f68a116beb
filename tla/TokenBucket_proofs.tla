------------------------- MODULE TokenBucket_proofs -------------------------
(***************************************************************************)
(* What a bucket guarantees for every rate, minute, set of tasks and       *)
(* lateness of the event loop.                                             *)
(*                                                                         *)
(* RateBounded speaks of two past grants.  What is inductive is its        *)
(* version for a past grant and the present, Headroom, which also charges  *)
(* what the bucket could hand out now.  NoOversleep is inductive once it   *)
(* speaks of the last tick of a sleep, at which the bucket is fullest.     *)
(***************************************************************************)
EXTENDS TokenBucket, FiniteSetTheorems, SumTheorems, TLAPS

\* The bucket at time t without its capacity.
Uncapped(t) == tokens + RequestsPerMinute * (t - lastRefill)

LEMMA RateProducts ==
  /\ \A a, b \in Int : /\ RequestsPerMinute * (a + b) = RequestsPerMinute * a + RequestsPerMinute * b
                       /\ RequestsPerMinute * a \in Int
                       /\ a <= b => RequestsPerMinute * a <= RequestsPerMinute * b
  /\ \A a \in Int : /\ Minute * (a + 1) = Minute * a + Minute
                    /\ Minute * a \in Int
  /\ RequestsPerMinute * 0 = 0
  /\ RequestsPerMinute * 1 = RequestsPerMinute
  /\ Minute * 1 = Minute
BY BucketAssumption

LEMMA CapacityHoldsARequest == Capacity \in Nat /\ Minute <= Capacity
<1>1. Minute \in Nat \ {0} /\ RequestsPerMinute \in Nat \ {0}
  BY BucketAssumption
<1> QED BY <1>1 DEF Capacity

LEMMA RefilledBounds ==
  ASSUME TypeOK, NEW t \in Int, lastRefill <= t
  PROVE  /\ Uncapped(t) \in Nat /\ Uncapped(t) >= tokens
         /\ Refilled(t) \in 0..Capacity
         /\ Refilled(t) <= Uncapped(t)
         /\ Refilled(t) < Minute => Refilled(t) = Uncapped(t)
<1>1. tokens \in Nat /\ tokens <= Capacity /\ lastRefill \in Nat
  BY CapacityHoldsARequest DEF TypeOK
<1>2. RequestsPerMinute * (t - lastRefill) \in Nat
  <2>1. t - lastRefill \in Nat /\ RequestsPerMinute \in Nat
    BY <1>1, BucketAssumption
  <2> QED BY <2>1
<1> DEFINE gain == RequestsPerMinute * (t - lastRefill)
<1>3. gain \in Nat /\ Capacity \in Nat /\ Minute <= Capacity /\ Minute \in Nat
  BY <1>2, CapacityHoldsARequest, BucketAssumption
<1>4. /\ Uncapped(t) = tokens + gain
      /\ Refilled(t) = IF tokens + gain < Capacity THEN tokens + gain ELSE Capacity
  BY DEF Uncapped, Refilled
<1> HIDE DEF gain
<1> QED BY <1>1, <1>3, <1>4

\* What the three kinds of step do to the bucket.
LEMMA GrantStep ==
  ASSUME TypeOK, NEW t \in Tasks, Grant(t)
  PROVE  /\ Refilled(now) \in Minute..Capacity
         /\ tokens' = Refilled(now) - Minute
         /\ Refilled(now)' = Refilled(now) - Minute
         /\ lastRefill' = now /\ now' = now
         /\ grants' = Append(grants, now)
<1>1. now \in Nat /\ lastRefill <= now /\ lastRefill \in Nat
  BY DEF TypeOK
<1>2. /\ Refilled(now) \in 0..Capacity /\ Refilled(now) >= Minute
      /\ tokens' = Refilled(now) - Minute
      /\ lastRefill' = now /\ now' = now
      /\ grants' = Append(grants, now)
  BY <1>1, RefilledBounds DEF Grant
<1>3. Minute \in Nat \ {0} /\ Capacity \in Nat
  BY BucketAssumption, CapacityHoldsARequest
<1>4. Refilled(now)' = LET sum == tokens' + RequestsPerMinute * (now' - lastRefill')
                       IN IF sum < Capacity THEN sum ELSE Capacity
  BY DEF Refilled, Capacity
<1>5. RequestsPerMinute * (now' - lastRefill') = 0
  BY <1>1, <1>2, RateProducts
<1>6. tokens' \in 0..Capacity /\ tokens' < Capacity
  BY <1>2, <1>3
<1>7. Refilled(now)' = tokens'
  BY <1>3, <1>4, <1>5, <1>6
<1> QED BY <1>2, <1>3, <1>7

LEMMA WaitStep ==
  ASSUME TypeOK, NEW t \in Tasks, Wait(t)
  PROVE  /\ Refilled(now) \in 0..Capacity /\ Refilled(now) < Minute
         /\ tokens' = Refilled(now)
         /\ Refilled(now)' = Refilled(now)
         /\ lastRefill' = now /\ now' = now
         /\ grants' = grants
<1>1. now \in Nat /\ lastRefill <= now /\ lastRefill \in Nat
  BY DEF TypeOK
<1>2. /\ Refilled(now) \in 0..Capacity /\ Refilled(now) < Minute
      /\ tokens' = Refilled(now)
      /\ lastRefill' = now /\ now' = now /\ grants' = grants
  BY <1>1, RefilledBounds DEF Wait
<1>3. Minute \in Nat \ {0} /\ Capacity \in Nat /\ Minute <= Capacity
  BY BucketAssumption, CapacityHoldsARequest
<1>4. Refilled(now)' = LET sum == tokens' + RequestsPerMinute * (now' - lastRefill')
                       IN IF sum < Capacity THEN sum ELSE Capacity
  BY DEF Refilled, Capacity
<1>5. RequestsPerMinute * (now' - lastRefill') = 0
  BY <1>1, <1>2, RateProducts
<1>6. Refilled(now)' = tokens'
  BY <1>2, <1>3, <1>4, <1>5
<1> QED BY <1>2, <1>6

-----------------------------------------------------------------------------
LEMMA InitTypeOK == Init => TypeOK
<1> SUFFICES ASSUME Init PROVE TypeOK
  OBVIOUS
<1> QED BY CapacityHoldsARequest DEF Init, TypeOK

LEMMA NextTypeOK == TypeOK /\ [Next]_vars => TypeOK'
<1> SUFFICES ASSUME TypeOK, [Next]_vars PROVE TypeOK'
  OBVIOUS
<1>c. Capacity' = Capacity /\ Capacity \in Nat /\ Minute \in Nat \ {0}
  BY CapacityHoldsARequest, BucketAssumption DEF Capacity
<1>1. CASE Tick
  <2>1. grants' \in Seq(0..now')
    <3>1. now' = now + 1 /\ now \in Nat /\ grants' = grants /\ grants \in Seq(0..now)
      BY <1>1 DEF Tick, TypeOK
    <3>2. 0..now \subseteq 0..now'
      BY <3>1
    <3> QED BY <3>1, <3>2
  <2> QED BY <1>1, <1>c, <2>1 DEF Tick, TypeOK
<1>2. ASSUME NEW t \in Tasks, Grant(t) PROVE TypeOK'
  <2>1. tokens' \in 0..Capacity /\ lastRefill' = now /\ now' = now
        /\ grants' = Append(grants, now)
    BY <1>2, <1>c, GrantStep
  <2>2. now \in Nat /\ grants \in Seq(0..now)
    BY DEF TypeOK
  <2>3. grants' \in Seq(0..now')
    BY <2>1, <2>2
  <2> QED BY <1>2, <1>c, <2>1, <2>2, <2>3 DEF Grant, TypeOK
<1>3. ASSUME NEW t \in Tasks, Wait(t) PROVE TypeOK'
  <2>1. tokens' \in 0..Capacity /\ lastRefill' = now /\ now' = now /\ grants' = grants
    BY <1>3, <1>c, WaitStep
  <2>2. wake' \in [Tasks -> Nat]
    BY <1>3, <1>c DEF Wait, Sleep, TypeOK
  <2>3. state' \in [Tasks -> {"idle", "waiting", "granted"}]
    BY <1>3 DEF Wait, TypeOK
  <2>4. now \in Nat /\ grants \in Seq(0..now)
    BY DEF TypeOK
  <2> QED BY <1>c, <2>1, <2>2, <2>3, <2>4 DEF TypeOK
<1>4. CASE UNCHANGED vars
  BY <1>4, <1>c DEF vars, TypeOK
<1> QED BY <1>1, <1>2, <1>3, <1>4 DEF Next, Served

\* The bucket's variables keep their types: no debt, no token above capacity.
THEOREM BucketTypes == Spec => []TypeOK
BY InitTypeOK, NextTypeOK, PTL DEF Spec

-----------------------------------------------------------------------------
(* Rate *)

\* Grants since a past one, and what the bucket could hand out at once now.
Headroom ==
  \A k \in DOMAIN grants :
    Minute * (Len(grants) + 1 - k) + Refilled(now)
      <= Capacity + RequestsPerMinute * (now - grants[k])

LEMMA TickKeepsHeadroom ==
  ASSUME TypeOK, Headroom, Tick
  PROVE  Headroom'
<1>1. /\ now \in Nat /\ now' = now + 1 /\ grants' = grants /\ Capacity' = Capacity
      /\ tokens' = tokens /\ lastRefill' = lastRefill /\ lastRefill \in Nat
      /\ lastRefill <= now /\ tokens \in Nat
      /\ grants \in Seq(0..now)
  BY CapacityHoldsARequest DEF Tick, TypeOK, Capacity
<1>2. Refilled(now)' <= Refilled(now) + RequestsPerMinute
  <2> DEFINE gain == RequestsPerMinute * (now - lastRefill)
             gain2 == RequestsPerMinute * (now' - lastRefill)
  <2>1. gain2 = gain + RequestsPerMinute
    <3>1. now' - lastRefill = (now - lastRefill) + 1
      BY <1>1
    <3> QED BY <1>1, <3>1, RateProducts
  <2>2. gain \in Int /\ RequestsPerMinute \in Nat /\ Capacity \in Nat
    BY <1>1, RateProducts, BucketAssumption, CapacityHoldsARequest
  <2>3. /\ Refilled(now) = IF tokens + gain < Capacity THEN tokens + gain ELSE Capacity
        /\ Refilled(now)' = IF tokens + gain2 < Capacity THEN tokens + gain2 ELSE Capacity
    BY <1>1 DEF Refilled, Capacity
  <2> HIDE DEF gain, gain2
  <2> QED BY <1>1, <2>1, <2>2, <2>3
<1>3. Refilled(now) \in Int /\ Refilled(now)' \in Int
  <2>1. Refilled(now) \in Int
    BY <1>1, RefilledBounds, CapacityHoldsARequest
  <2>2. tokens' \in Int /\ RequestsPerMinute * (now' - lastRefill') \in Int /\ Capacity \in Int
    BY <1>1, RateProducts, CapacityHoldsARequest
  <2>3. Refilled(now)' \in Int
    BY <1>1, <2>2 DEF Refilled, Capacity
  <2> QED BY <2>1, <2>3
<1>4. ASSUME NEW k \in DOMAIN grants
      PROVE  Minute * (Len(grants) + 1 - k) + Refilled(now)'
               <= Capacity + RequestsPerMinute * (now' - grants[k])
  <2>1. k \in Int /\ Len(grants) \in Int /\ grants[k] \in Int
    BY <1>1
  <2> DEFINE span == RequestsPerMinute * (now - grants[k])
             used == Minute * (Len(grants) + 1 - k)
  <2>2. RequestsPerMinute * (now' - grants[k]) = span + RequestsPerMinute
    <3>1. now' - grants[k] = (now - grants[k]) + 1
      BY <1>1, <2>1
    <3> QED BY <1>1, <2>1, <3>1, RateProducts
  <2>3. span \in Int /\ used \in Int /\ Capacity \in Nat /\ RequestsPerMinute \in Nat
    BY <1>1, <2>1, RateProducts, CapacityHoldsARequest, BucketAssumption
  <2>4. used + Refilled(now) <= Capacity + span
    BY DEF Headroom
  <2> HIDE DEF span, used
  <2>5. used + Refilled(now)' <= Capacity + (span + RequestsPerMinute)
    BY <1>2, <1>3, <2>3, <2>4
  <2> QED BY <2>2, <2>5 DEF used
<1> QED BY <1>1, <1>4 DEF Headroom

LEMMA WaitKeepsHeadroom ==
  ASSUME TypeOK, Headroom, NEW t \in Tasks, Wait(t)
  PROVE  Headroom'
<1>1. /\ Refilled(now)' = Refilled(now) /\ now' = now /\ grants' = grants
      /\ Capacity' = Capacity
  BY WaitStep DEF Capacity
<1> QED BY <1>1 DEF Headroom

LEMMA GrantKeepsHeadroom ==
  ASSUME TypeOK, Headroom, NEW t \in Tasks, Grant(t)
  PROVE  Headroom'
<1>1. /\ Refilled(now) \in Minute..Capacity
      /\ Refilled(now)' = Refilled(now) - Minute
      /\ now' = now /\ grants' = Append(grants, now)
      /\ Capacity' = Capacity
  BY GrantStep DEF Capacity
<1>2. /\ now \in Nat /\ grants \in Seq(0..now)
      /\ Minute \in Nat \ {0} /\ Capacity \in Nat
  BY CapacityHoldsARequest, BucketAssumption DEF TypeOK
<1>3. /\ Len(grants) \in Nat /\ DOMAIN grants = 1..Len(grants)
      /\ Len(grants') = Len(grants) + 1 /\ DOMAIN grants' = 1..(Len(grants) + 1)
      /\ grants'[Len(grants) + 1] = now
      /\ \A k \in 1..Len(grants) : grants'[k] = grants[k] /\ grants[k] \in 0..now
  BY <1>1, <1>2
<1>4. ASSUME NEW k \in 1..Len(grants)
      PROVE  Minute * (Len(grants') + 1 - k) + Refilled(now)'
               <= Capacity + RequestsPerMinute * (now - grants'[k])
  <2> DEFINE span == RequestsPerMinute * (now - grants[k])
             used == Minute * (Len(grants) + 1 - k)
  <2>1. Minute * (Len(grants') + 1 - k) = used + Minute
    <3>1. Len(grants') + 1 - k = (Len(grants) + 1 - k) + 1
      BY <1>3
    <3>2. Len(grants) + 1 - k \in Int
      BY <1>3
    <3> QED BY <3>1, <3>2, RateProducts
  <2>2. used \in Int /\ span \in Int
    <3>1. Len(grants) + 1 - k \in Int
      BY <1>3
    <3>2. now - grants[k] \in Int
      BY <1>2, <1>3
    <3>3. used \in Int
      BY <3>1, RateProducts
    <3>4. span \in Int
      BY <3>2, RateProducts
    <3> QED BY <3>3, <3>4
  <2>3. used + Refilled(now) <= Capacity + span
    BY <1>3 DEF Headroom
  <2>4. grants'[k] = grants[k]
    BY <1>3
  <2> HIDE DEF used, span
  <2>5. (used + Minute) + (Refilled(now) - Minute) <= Capacity + span
    BY <1>1, <1>2, <2>2, <2>3
  <2> QED BY <1>1, <2>1, <2>4, <2>5 DEF span
<1>5. Minute * 1 + Refilled(now)' <= Capacity + RequestsPerMinute * (now - now)
  <2>1. Minute * 1 = Minute /\ RequestsPerMinute * (now - now) = 0
    BY <1>2, RateProducts
  <2> QED BY <1>1, <1>2, <2>1
<1>6. Len(grants') + 1 - (Len(grants) + 1) = 1
  BY <1>3
<1> QED BY <1>1, <1>3, <1>4, <1>5, <1>6 DEF Headroom

LEMMA NextRateBounded ==
  TypeOK /\ Headroom /\ RateBounded /\ [Next]_vars => Headroom' /\ RateBounded'
<1> SUFFICES ASSUME TypeOK, Headroom, RateBounded, [Next]_vars
             PROVE  Headroom' /\ RateBounded'
  OBVIOUS
<1>c. Capacity' = Capacity
  BY DEF Capacity
<1>1. CASE Tick
  BY <1>1, <1>c, TickKeepsHeadroom DEF Tick, RateBounded
<1>2. ASSUME NEW t \in Tasks, Wait(t) PROVE Headroom' /\ RateBounded'
  BY <1>2, <1>c, WaitKeepsHeadroom DEF Wait, RateBounded
<1>3. ASSUME NEW t \in Tasks, Grant(t) PROVE Headroom' /\ RateBounded'
  <2>1. Headroom'
    BY <1>3, GrantKeepsHeadroom
  <2>2. /\ Refilled(now)' \in Nat /\ now' = now /\ now \in Nat
        /\ grants' = Append(grants, now) /\ grants \in Seq(0..now)
        /\ Capacity \in Nat
    <3>1. /\ Refilled(now) \in Minute..Capacity
          /\ Refilled(now)' = Refilled(now) - Minute
      BY <1>3, GrantStep
    <3>2. Minute \in Nat /\ Capacity \in Nat
      BY BucketAssumption, CapacityHoldsARequest
    <3>3. Refilled(now)' \in Nat
      BY <3>1, <3>2
    <3> QED BY <1>3, <3>2, <3>3, GrantStep DEF TypeOK
  <2>3. /\ Len(grants) \in Nat /\ DOMAIN grants = 1..Len(grants)
        /\ Len(grants') = Len(grants) + 1 /\ DOMAIN grants' = 1..(Len(grants) + 1)
        /\ grants'[Len(grants) + 1] = now
        /\ \A k \in 1..Len(grants) : grants'[k] = grants[k]
        /\ \A k \in DOMAIN grants' : grants'[k] \in Int
    BY <2>2
  <2>4. ASSUME NEW k \in DOMAIN grants'
        PROVE  Minute * (Len(grants') - k + 1) <=
                 Capacity + RequestsPerMinute * (grants'[Len(grants')] - grants'[k])
    <3>1. Minute * (Len(grants') + 1 - k) + Refilled(now)'
            <= Capacity + RequestsPerMinute * (now - grants'[k])
      BY <2>1, <2>2, <1>c DEF Headroom
    <3>2. Len(grants') + 1 - k = Len(grants') - k + 1 /\ Len(grants') + 1 - k \in Int
      BY <2>3
    <3> DEFINE used == Minute * (Len(grants') + 1 - k)
               span == RequestsPerMinute * (now - grants'[k])
    <3>3. used \in Int
      BY <3>2, RateProducts
    <3>4. span \in Int
      <4>1. now - grants'[k] \in Int
        BY <2>2, <2>3
      <4> QED BY <4>1, RateProducts
    <3>5. used + Refilled(now)' <= Capacity + span
      BY <3>1
    <3> HIDE DEF used, span
    <3>6. used <= Capacity + span
      BY <2>2, <3>3, <3>4, <3>5
    <3> QED BY <2>3, <3>2, <3>6 DEF used, span
  <2>5. ASSUME NEW k \in 1..Len(grants), NEW l \in 1..Len(grants), k <= l
        PROVE  Minute * (l - k + 1) <= Capacity + RequestsPerMinute * (grants'[l] - grants'[k])
    <3>1. Minute * (l - k + 1) <= Capacity + RequestsPerMinute * (grants[l] - grants[k])
      BY <2>3, <2>5 DEF RateBounded
    <3> QED BY <2>3, <3>1
  <2>6. ASSUME NEW k \in DOMAIN grants', NEW l \in DOMAIN grants', k <= l
        PROVE  Minute * (l - k + 1) <= Capacity + RequestsPerMinute * (grants'[l] - grants'[k])
    <3>1. CASE l = Len(grants')
      BY <2>4, <3>1
    <3>2. CASE l # Len(grants')
      <4>1. k \in 1..Len(grants) /\ l \in 1..Len(grants)
        BY <2>3, <2>6, <3>2
      <4> QED BY <2>5, <2>6, <4>1
    <3> QED BY <3>1, <3>2
  <2>7. RateBounded'
    BY <1>c, <2>6 DEF RateBounded
  <2> QED BY <2>1, <2>7
<1>4. CASE UNCHANGED vars
  BY <1>4, <1>c DEF vars, Headroom, RateBounded, Refilled
<1> QED BY <1>1, <1>2, <1>3, <1>4 DEF Next, Served

\* No stretch of time sees more requests than a full bucket and its refill,
\* whatever tasks do and however late they wake.
THEOREM RateIsBounded == Spec => []RateBounded
<1>1. Init => Headroom /\ RateBounded
  BY DEF Init, Headroom, RateBounded
<1> QED BY <1>1, NextRateBounded, BucketTypes, PTL DEF Spec

-----------------------------------------------------------------------------
(* Sleep *)

\* The bucket is still short of a request at the last tick of every sleep.
ShortUntilWake ==
  \A t \in Tasks : state[t] = "waiting" /\ lastRefill < wake[t] =>
                    Uncapped(wake[t] - 1) < Minute

LEMMA ShortUntilWakeSuffices == TypeOK /\ ShortUntilWake => NoOversleep
<1> SUFFICES ASSUME TypeOK, ShortUntilWake, NEW t \in Tasks,
                    state[t] = "waiting", now < wake[t]
             PROVE  Refilled(now) < Minute
  BY DEF NoOversleep
<1>1. /\ now \in Nat /\ lastRefill \in Nat /\ lastRefill <= now /\ tokens \in Int
      /\ wake[t] \in Nat
  BY CapacityHoldsARequest DEF TypeOK
<1>2. Uncapped(wake[t] - 1) < Minute
  BY <1>1 DEF ShortUntilWake
<1>3. Uncapped(now) <= Uncapped(wake[t] - 1)
  <2>1. now - lastRefill <= wake[t] - 1 - lastRefill
    BY <1>1
  <2> DEFINE gain == RequestsPerMinute * (now - lastRefill)
             gain2 == RequestsPerMinute * (wake[t] - 1 - lastRefill)
  <2>2. gain \in Int /\ gain2 \in Int /\ gain <= gain2
    <3>1. now - lastRefill \in Int /\ wake[t] - 1 - lastRefill \in Int
      BY <1>1
    <3> QED BY <2>1, <3>1, RateProducts
  <2>3. Uncapped(now) = tokens + gain /\ Uncapped(wake[t] - 1) = tokens + gain2
    BY DEF Uncapped
  <2> HIDE DEF gain, gain2
  <2> QED BY <1>1, <2>2, <2>3
<1>4. Uncapped(wake[t] - 1) \in Int
  <2>1. RequestsPerMinute * (wake[t] - 1 - lastRefill) \in Int
    <3>1. wake[t] - 1 - lastRefill \in Int
      BY <1>1
    <3> QED BY <3>1, RateProducts
  <2> QED BY <1>1, <2>1 DEF Uncapped
<1>5. Refilled(now) <= Uncapped(now) /\ Refilled(now) \in Int /\ Uncapped(now) \in Int
  BY <1>1, RefilledBounds, CapacityHoldsARequest
<1> QED BY <1>2, <1>3, <1>4, <1>5, BucketAssumption

LEMMA NextShortUntilWake == TypeOK /\ ShortUntilWake /\ [Next]_vars => ShortUntilWake'
<1> SUFFICES ASSUME TypeOK, ShortUntilWake, [Next]_vars,
                    NEW t \in Tasks, state'[t] = "waiting", lastRefill' < wake'[t]
             PROVE  Uncapped(wake[t] - 1)' < Minute
  BY DEF ShortUntilWake
<1>t. /\ now \in Nat /\ lastRefill \in Nat /\ lastRefill <= now /\ tokens \in Int
      /\ wake[t] \in Nat /\ state \in [Tasks -> {"idle", "waiting", "granted"}]
      /\ wake \in [Tasks -> Nat]
  BY CapacityHoldsARequest DEF TypeOK
<1>1. CASE Tick \/ UNCHANGED vars
  BY <1>1 DEF Tick, vars, ShortUntilWake, Uncapped
<1>2. ASSUME NEW s \in Tasks, Grant(s) PROVE FALSE
  \* A grant means the bucket held a request, so no sleep can outlast it.
  <2>1. state[t] = "waiting" /\ wake'[t] = wake[t] /\ lastRefill' = now
    BY <1>2, <1>t DEF Grant
  <2>2. now < wake[t]
    BY <2>1
  <2>3. Refilled(now) < Minute
    BY <2>1, <2>2, ShortUntilWakeSuffices DEF NoOversleep
  <2> QED BY <1>2, <2>3, GrantStep, CapacityHoldsARequest, BucketAssumption
<1>3. ASSUME NEW s \in Tasks, Wait(s) PROVE Uncapped(wake[t] - 1)' < Minute
  <2>1. /\ Refilled(now) < Minute /\ tokens' = Refilled(now) /\ lastRefill' = now
        /\ Refilled(now) = Uncapped(now) /\ Refilled(now) \in Int
    BY <1>3, <1>t, WaitStep, RefilledBounds, CapacityHoldsARequest
  <2>2. Uncapped(wake[t] - 1)' = Refilled(now) + RequestsPerMinute * (wake'[t] - 1 - now)
    BY <2>1 DEF Uncapped
  <2>3. CASE s = t
    <3>1. PICK d \in 1..Minute :
             /\ Refilled(now) + RequestsPerMinute * (d - 1) < Minute
             /\ wake' = [wake EXCEPT ![t] = now + d]
      BY <1>3, <2>3 DEF Wait, Sleep
    <3>2. wake'[t] - 1 - now = d - 1
      BY <1>t, <3>1, BucketAssumption
    <3> QED BY <2>2, <3>1, <3>2
  <2>4. CASE s # t
    <3>1. state[t] = "waiting" /\ wake'[t] = wake[t]
      BY <1>3, <1>t, <2>4 DEF Wait, Sleep
    <3>2. Uncapped(wake[t] - 1) < Minute
      BY <1>t, <2>1, <3>1 DEF ShortUntilWake
    <3>3. RequestsPerMinute * (wake[t] - 1 - lastRefill)
             = RequestsPerMinute * (wake[t] - 1 - now) + RequestsPerMinute * (now - lastRefill)
      <4>1. /\ wake[t] - 1 - now \in Int /\ now - lastRefill \in Int
            /\ wake[t] - 1 - lastRefill = (wake[t] - 1 - now) + (now - lastRefill)
        BY <1>t
      <4> QED BY <4>1, RateProducts
    <3> DEFINE before == RequestsPerMinute * (now - lastRefill)
               after == RequestsPerMinute * (wake[t] - 1 - now)
    <3>4. before \in Int /\ after \in Int
      <4>1. wake[t] - 1 - now \in Int /\ now - lastRefill \in Int
        BY <1>t
      <4> QED BY <4>1, RateProducts
    <3>5. /\ Uncapped(wake[t] - 1) = tokens + (after + before)
          /\ Refilled(now) = tokens + before
          /\ Uncapped(wake[t] - 1)' = Refilled(now) + after
      BY <2>1, <2>2, <3>1, <3>3 DEF Uncapped
    <3> HIDE DEF before, after
    <3> QED BY <1>t, <3>2, <3>4, <3>5
  <2> QED BY <2>3, <2>4
<1> QED BY <1>1, <1>2, <1>3 DEF Next, Served

\* No task sleeps while the bucket holds a request it could have.
THEOREM NeverOversleeps == Spec => []NoOversleep
<1>1. Init => ShortUntilWake
  BY DEF Init, ShortUntilWake
<1> QED BY <1>1, NextShortUntilWake, ShortUntilWakeSuffices, BucketTypes, PTL DEF Spec

-----------------------------------------------------------------------------
(***************************************************************************)
(* Why every waiter tries again.  That it is served in the end needs       *)
(* fairness and is left to TLC; that no pass of the critical section is    *)
(* without an outcome, and no sleep without an end, is proved.             *)
(***************************************************************************)

\* The wait computed for a task that finds no token is one of 1 to Minute ticks.
SleepIsComputed ==
  \A t \in Tasks : AtLock(t) /\ Refilled(now) < Minute =>
    \E d \in 1..Minute : /\ Refilled(now) + RequestsPerMinute * d >= Minute
                         /\ Refilled(now) + RequestsPerMinute * (d - 1) < Minute

\* A task sleeps a minute at most, and is run within the lateness of the loop.
SleepsAreShort ==
  \A t \in Tasks : state[t] = "waiting" => /\ wake[t] <= now + Minute
                                           /\ now <= wake[t] + MaxLate

\* The first of the ticks at which the bucket holds a request.
LEMMA FirstTickExists ==
  ASSUME NEW have \in Nat, have < Minute
  PROVE  \E d \in 1..Minute : /\ have + RequestsPerMinute * d >= Minute
                              /\ have + RequestsPerMinute * (d - 1) < Minute
<1> DEFINE enough == {d \in 1..Minute : have + RequestsPerMinute * d >= Minute}
<1>1. Minute \in Nat \ {0} /\ RequestsPerMinute \in Nat \ {0}
  BY BucketAssumption
<1>2. RequestsPerMinute * Minute >= Minute /\ RequestsPerMinute * Minute \in Nat
  BY <1>1
<1>3. Minute \in enough
  BY <1>1, <1>2
<1>4. IsFiniteSet(enough) /\ enough \subseteq Int
  <2>1. enough \subseteq 1..Minute /\ IsFiniteSet(1..Minute) /\ 1..Minute \subseteq Int
    BY <1>1, FS_Interval
  <2> HIDE DEF enough
  <2> QED
    BY <2>1, FS_Subset
<1>5. PICK d \in enough : \A e \in enough : d <= e
  <2> HIDE DEF enough
  <2> QED
    BY <1>3, <1>4, LeastMember
<1>6. CASE d = 1
  BY <1>5, <1>6, RateProducts
<1>7. CASE d # 1
  <2>1. d - 1 \in 1..Minute /\ d - 1 \notin enough
    BY <1>1, <1>5, <1>7
  <2>2. RequestsPerMinute * (d - 1) \in Int
    BY <2>1, RateProducts
  <2>3. have + RequestsPerMinute * (d - 1) < Minute
    BY <1>1, <2>1, <2>2
  <2> QED
    BY <1>5, <2>3
<1> QED
  BY <1>6, <1>7

LEMMA NextSleepsAreShort == TypeOK /\ SleepsAreShort /\ [Next]_vars => SleepsAreShort'
<1> SUFFICES ASSUME TypeOK, SleepsAreShort, [Next]_vars, NEW t \in Tasks, state'[t] = "waiting"
             PROVE  wake'[t] <= now' + Minute /\ now' <= wake'[t] + MaxLate
  BY DEF SleepsAreShort
<1>t. /\ now \in Nat /\ Minute \in Nat /\ MaxLate \in Nat
      /\ state \in [Tasks -> {"idle", "waiting", "granted"}] /\ wake \in [Tasks -> Nat]
  BY BucketAssumption DEF TypeOK
<1>1. CASE Tick \/ UNCHANGED vars
  BY <1>1, <1>t DEF Tick, vars, SleepsAreShort
<1>2. ASSUME NEW s \in Tasks, Grant(s)
      PROVE  wake'[t] <= now' + Minute /\ now' <= wake'[t] + MaxLate
  BY <1>2, <1>t DEF Grant, SleepsAreShort
<1>3. ASSUME NEW s \in Tasks, Wait(s)
      PROVE  wake'[t] <= now' + Minute /\ now' <= wake'[t] + MaxLate
  <2>1. PICK d \in 1..Minute : wake' = [wake EXCEPT ![s] = now + d]
    BY <1>3 DEF Wait, Sleep
  <2>2. state' = [state EXCEPT ![s] = "waiting"] /\ now' = now
    BY <1>3 DEF Wait
  <2> QED
    BY <1>t, <2>1, <2>2 DEF SleepsAreShort
<1> QED
  BY <1>1, <1>2, <1>3 DEF Next, Served

\* A task at the lock takes a token or has a sleep to go into, of a minute at
\* most, and tries again within the lateness of the event loop: whatever the
\* rate, nothing is left waiting without an alarm set.
THEOREM EveryWaiterTriesAgain == Spec => [](SleepIsComputed /\ SleepsAreShort)
<1>1. TypeOK => SleepIsComputed
  <2> SUFFICES ASSUME TypeOK, Refilled(now) < Minute
               PROVE  \E d \in 1..Minute :
                        /\ Refilled(now) + RequestsPerMinute * d >= Minute
                        /\ Refilled(now) + RequestsPerMinute * (d - 1) < Minute
    BY DEF SleepIsComputed
  <2>1. Refilled(now) \in Nat
    BY RefilledBounds, CapacityHoldsARequest DEF TypeOK
  <2> QED
    BY <2>1, FirstTickExists
<1>2. Init => SleepsAreShort
  BY DEF Init, SleepsAreShort
<1> QED
  BY <1>1, <1>2, NextSleepsAreShort, BucketTypes, PTL DEF Spec
=============================================================================
