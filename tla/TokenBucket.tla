---------------------------- MODULE TokenBucket ----------------------------
(***************************************************************************)
(* adapters/rate_limiter.py: the token bucket of one provider and the      *)
(* tasks that acquire from it.  Buckets share nothing, so one is enough;   *)
(* a provider without a bucket (0 requests per minute) is never delayed.   *)
(*                                                                         *)
(* The critical section under the bucket's lock has no await, so a pass    *)
(* through it (refill, then take a token or compute the wait) is one       *)
(* action.  The sleep is outside: a woken task competes again with every   *)
(* other task, in no particular order.                                     *)
(*                                                                         *)
(* Time is counted in ticks, Minute of them to the minute.  The bucket's   *)
(* float tokens become integers by counting in 1/Minute of a request:      *)
(* a request costs Minute units and a tick refills RequestsPerMinute.      *)
(***************************************************************************)
EXTENDS Integers, Sequences

CONSTANTS Tasks,              \* tasks that call acquire, once each
          RequestsPerMinute,  \* providers.yaml requests_per_minute
          Minute,             \* ticks in a minute
          MaxLate,            \* how late the event loop may run a woken task
          Horizon             \* bound: the clock stops here when none waits

ASSUME BucketAssumption == /\ RequestsPerMinute \in Nat \ {0}
                           /\ Minute \in Nat \ {0}
                           /\ MaxLate \in Nat
                           /\ Horizon \in Nat

VARIABLES now,         \* time.monotonic
          tokens,      \* _Bucket.tokens as of lastRefill
          lastRefill,  \* _Bucket.last_refill
          state,       \* per task: idle, waiting or granted
          wake,        \* per task: when its sleep ends
          grants       \* history: when each acquire returned, in order

vars == <<now, tokens, lastRefill, state, wake, grants>>

Capacity == RequestsPerMinute * Minute

\* What a refill at time t leaves in the bucket, if nobody takes meanwhile.
Refilled_Uncapped(t) == tokens + RequestsPerMinute * (t - lastRefill)
Refilled(t) ==
  LET sum == tokens + RequestsPerMinute * (t - lastRefill)
  IN  IF sum < Capacity THEN sum ELSE Capacity

\* The sleep ends at the first tick at which the bucket would hold a request.
Sleep_PastTheToken(t, available) ==
  \E d \in 1..Minute :
    /\ available + RequestsPerMinute * d >= Minute
    /\ available + RequestsPerMinute * (d - 1) < Minute
    /\ wake' = [wake EXCEPT ![t] = now + d + 1]
Sleep(t, available) ==
  \E d \in 1..Minute :
    /\ available + RequestsPerMinute * d >= Minute
    /\ available + RequestsPerMinute * (d - 1) < Minute
    /\ wake' = [wake EXCEPT ![t] = now + d]

\* The task is at the lock: it just called acquire, or its sleep is over.
AtLock_Once(t) == state[t] = "idle"
AtLock(t) == \/ state[t] = "idle"
             \/ state[t] = "waiting" /\ now >= wake[t]

Grant_WithoutRefillTime(t) ==
  /\ AtLock(t)
  /\ Refilled(now) >= Minute
  /\ tokens' = Refilled(now) - Minute
  /\ UNCHANGED lastRefill
  /\ state' = [state EXCEPT ![t] = "granted"]
  /\ grants' = Append(grants, now)
  /\ UNCHANGED <<now, wake>>
Grant(t) ==
  /\ AtLock(t)
  /\ Refilled(now) >= Minute
  /\ tokens' = Refilled(now) - Minute
  /\ lastRefill' = now
  /\ state' = [state EXCEPT ![t] = "granted"]
  /\ grants' = Append(grants, now)
  /\ UNCHANGED <<now, wake>>

Wait(t) ==
  /\ AtLock(t)
  /\ Refilled(now) < Minute
  /\ Sleep(t, Refilled(now))
  /\ tokens' = Refilled(now)
  /\ lastRefill' = now
  /\ state' = [state EXCEPT ![t] = "waiting"]
  /\ UNCHANGED <<now, grants>>

\* The loop runs a woken task at most MaxLate ticks after its sleep ended.
Tick ==
  /\ \/ now < Horizon
     \/ \E t \in Tasks : state[t] = "waiting"
  /\ \A t \in Tasks : state[t] = "waiting" => now < wake[t] + MaxLate
  /\ now' = now + 1
  /\ UNCHANGED <<tokens, lastRefill, state, wake, grants>>

\* Every task has been served and the clock has stopped.
Served == /\ now >= Horizon
          /\ \A t \in Tasks : state[t] = "granted"
          /\ UNCHANGED vars

Init == /\ now = 0
        /\ tokens = Capacity
        /\ lastRefill = 0
        /\ state = [t \in Tasks |-> "idle"]
        /\ wake = [t \in Tasks |-> 0]
        /\ grants = <<>>

Next == \/ Tick
        \/ Served
        \/ \E t \in Tasks : Grant(t) \/ Wait(t)

\* Time passes and the event loop runs every woken task; no task must call.
Fairness == /\ WF_vars(Tick)
            /\ \A t \in Tasks : WF_vars(state[t] = "waiting" /\ (Grant(t) \/ Wait(t)))

Spec == Init /\ [][Next]_vars /\ Fairness
-----------------------------------------------------------------------------
(* Properties *)

\* Every variable holds a value of its type; the bucket holds neither debt nor
\* more than its capacity, and was refilled in the past.
TypeOK == /\ now \in Nat
          /\ tokens \in 0..Capacity
          /\ lastRefill \in 0..now
          /\ state \in [Tasks -> {"idle", "waiting", "granted"}]
          /\ wake \in [Tasks -> Nat]
          /\ grants \in Seq(0..now)

\* Whatever the order in which tasks arrive, sleep and wake, and however late
\* they wake, no stretch of time sees more requests than a full bucket and its
\* refill over that stretch (_Bucket.acquire).
RateBounded ==
  \A k, l \in DOMAIN grants :
    k <= l => Minute * (l - k + 1) <=
                Capacity + RequestsPerMinute * (grants[l] - grants[k])

\* The limiter never holds a task back needlessly: while a task's sleep lasts,
\* there is no token it could have.
NoOversleep ==
  \A t \in Tasks : state[t] = "waiting" /\ now < wake[t] => Refilled(now) < Minute

\* A task that waits is served in the end, though tasks that call later may
\* take the token it slept for.
WaitersServed == \A t \in Tasks : (state[t] = "waiting") ~> (state[t] = "granted")

-----------------------------------------------------------------------------
(* What the repository's text says and the code does not do *)

\* providers.yaml:9 calls the number a "Rate limit (requests per minute)": less
\* than a minute would then never see more requests than that.
PerMinuteLimit ==
  \A k, l \in DOMAIN grants :
    k <= l /\ grants[l] - grants[k] < Minute => l - k + 1 <= RequestsPerMinute
=============================================================================
