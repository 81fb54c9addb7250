---------------------------- MODULE TokenBucket ----------------------------
(***************************************************************************)
(* The lock-free token bucket symphony uses in two places: per source IP   *)
(* (protection.rs, refill_and_consume) and per route (router.rs,           *)
(* RouteTokenBucket::try_acquire).  Both are the same pair of relaxed CAS  *)
(* loops over two separate atomics, `tokens` and `last_refill_ns`, and     *)
(* this module takes every load and every compare_exchange as one step, so *)
(* that the calls of several worker threads interleave between them.       *)
(*                                                                         *)
(* Tokens are fixed-point: one connection costs OneToken units (1000 in    *)
(* the code).  A refill over e ticks of the clock is the truncated         *)
(* fraction e * RateNum / RateDen (the code's `as u32` cast of an f64).    *)
(* The u32 saturation of the sum is left out: the result is capped by      *)
(* burst_fp, itself a u32.                                                 *)
(***************************************************************************)
EXTENDS Integers, FiniteSets

CONSTANTS
  Workers,      \* threads that may run a check at the same time
  OneToken,     \* fixed-point units per connection
  RateNum,      \* refill rate: RateNum units every RateDen ticks
  RateDen,
  Bursts,       \* burst ceilings: several when a reload changes burst_fp
  InitBurst,    \* the ceiling the bucket was created under
  MaxTime,      \* bound on the clock
  MaxCalls      \* bound on the number of calls

ASSUME BucketConstants ==
  /\ OneToken \in Nat \ {0}
  /\ RateNum \in Nat
  /\ RateDen \in Nat \ {0}
  /\ Bursts \subseteq Nat
  /\ InitBurst \in Bursts
  /\ MaxTime \in Nat
  /\ MaxCalls \in Nat

VARIABLES
  tokens,       \* the `tokens` atomic
  lastRefill,   \* the `last_refill_ns` atomic
  clock,        \* monotonic time (protection::now_ns)
  pc,           \* where each worker is inside refill_and_consume
  loc,          \* the locals of each worker's call
  calls,        \* calls made so far
  consumed,     \* history: calls that returned true
  credited      \* history: units the refill CASes added, net of the cap

bucketVars == <<tokens, lastRefill, clock, pc, loc, calls, consumed, credited>>

Locs == [now : Nat, burst : Bursts, last : Nat, old : Nat, refill : Nat]

\* The locals of a call: its clock and ceiling, and what its refill loop read.
CallAt(now, burst, last, refill) ==
  [now |-> now, burst |-> burst, last |-> last, old |-> 0, refill |-> refill]

NoCall == CallAt(0, InitBurst, 0, 0)

Smaller(a, b) == IF a < b THEN a ELSE b

\* now.saturating_sub(last)
Elapsed(now, last) == IF now > last THEN now - last ELSE 0

\* ((elapsed as f64) * rate_per_ns * 1000.0) as u32
RefillUnits(elapsed) == (elapsed * RateNum) \div RateDen

\* old_tokens.saturating_add(refill).min(burst_fp)
Capped(old, refill, burst) == Smaller(old + refill, burst)

BucketInit ==
  /\ tokens = InitBurst
  /\ lastRefill = 0
  /\ clock = 0
  /\ pc = [w \in Workers |-> "idle"]
  /\ loc = [w \in Workers |-> NoCall]
  /\ calls = 0
  /\ consumed = 0
  /\ credited = 0

\* Mutant of CasWins: a plain store.
CasWinsAlways(w) == TRUE

\* The compare half of a compare_exchange on `tokens`.
CasWins(w) == tokens = loc[w].old

\* Mutant of Retry: the loser tries the same stale pair again.
RetryStale == "casRefill"

\* Where the loser of the refill CAS goes on.
Retry == "loadLast"

\* last_refill_ns.compare_exchange(last, now), its result ignored.
AdvancedRefill(w) == IF lastRefill = loc[w].last THEN loc[w].now ELSE lastRefill

\* Enough for one connection.
CanPay(units) == units >= OneToken

Goto(w, label) == pc' = [pc EXCEPT ![w] = label]

\* A connection reaches the bucket: the caller read the clock and the burst of
\* its configuration snapshot before the call, so both may be stale later on.
Call(w) ==
  /\ pc[w] = "idle"
  /\ calls < MaxCalls
  /\ \E b \in Bursts : loc' = [loc EXCEPT ![w] = CallAt(clock, b, 0, 0)]
  /\ calls' = calls + 1
  /\ Goto(w, "loadLast")
  /\ UNCHANGED <<tokens, lastRefill, clock, consumed, credited>>

\* last_refill_ns.load(), and the break out of the loop when nothing accrued.
LoadLast(w) ==
  LET units == RefillUnits(Elapsed(loc[w].now, lastRefill))
  IN  /\ pc[w] = "loadLast"
      /\ loc' = [loc EXCEPT ![w] = CallAt(loc[w].now, loc[w].burst, lastRefill, units)]
      /\ Goto(w, IF units = 0 THEN "loadConsume" ELSE "loadRefill")
      /\ UNCHANGED <<tokens, lastRefill, clock, calls, consumed, credited>>

LoadRefill(w) ==
  /\ pc[w] = "loadRefill"
  /\ loc' = [loc EXCEPT ![w].old = tokens]
  /\ Goto(w, "casRefill")
  /\ UNCHANGED <<tokens, lastRefill, clock, calls, consumed, credited>>

\* tokens.compare_exchange(old_tokens, new_tokens); a loser starts over.
CasRefill(w) ==
  LET new == Capped(loc[w].old, loc[w].refill, loc[w].burst)
  IN  /\ pc[w] = "casRefill"
      /\ \/ /\ CasWins(w)
            /\ tokens' = new
            /\ credited' = credited + (new - tokens)
            /\ Goto(w, "casLast")
         \/ /\ ~ CasWins(w)
            /\ Goto(w, Retry)
            /\ UNCHANGED <<tokens, credited>>
      /\ UNCHANGED <<lastRefill, clock, loc, calls, consumed>>

CasLast(w) ==
  /\ pc[w] = "casLast"
  /\ lastRefill' = AdvancedRefill(w)
  /\ Goto(w, "loadConsume")
  /\ UNCHANGED <<tokens, clock, loc, calls, consumed, credited>>

\* The consume loop's load: fewer units than one connection costs refuses it.
LoadConsume(w) ==
  /\ pc[w] = "loadConsume"
  /\ \/ /\ ~ CanPay(tokens)
        /\ Goto(w, "idle")
        /\ loc' = [loc EXCEPT ![w] = NoCall]
     \/ /\ CanPay(tokens)
        /\ Goto(w, "casConsume")
        /\ loc' = [loc EXCEPT ![w].old = tokens]
  /\ UNCHANGED <<tokens, lastRefill, clock, calls, consumed, credited>>

CasConsume(w) ==
  /\ pc[w] = "casConsume"
  /\ \/ /\ CasWins(w)
        /\ tokens' = loc[w].old - OneToken
        /\ consumed' = consumed + 1
        /\ Goto(w, "idle")
        /\ loc' = [loc EXCEPT ![w] = NoCall]
     \/ /\ ~ CasWins(w)
        /\ Goto(w, "loadConsume")
        /\ UNCHANGED <<tokens, consumed, loc>>
  /\ UNCHANGED <<lastRefill, clock, calls, credited>>

Tick ==
  /\ clock < MaxTime
  /\ clock' = clock + 1
  /\ UNCHANGED <<tokens, lastRefill, pc, loc, calls, consumed, credited>>

Step(w) ==
  \/ LoadLast(w)
  \/ LoadRefill(w)
  \/ CasRefill(w)
  \/ CasLast(w)
  \/ LoadConsume(w)
  \/ CasConsume(w)

BucketNext ==
  \/ \E w \in Workers : Call(w) \/ Step(w)
  \/ Tick

\* A worker inside a call keeps running (it never blocks); nothing obliges a
\* connection to arrive.
Fairness == \A w \in Workers : WF_bucketVars(Step(w))

BucketSpec == BucketInit /\ [][BucketNext]_bucketVars

FairBucket == BucketSpec /\ Fairness

----------------------------------------------------------------------------

Labels == {"idle", "loadLast", "loadRefill", "casRefill", "casLast",
           "loadConsume", "casConsume"}

\* The shape of the state; tokens is a natural, so no consume ever underflows
\* the u32.
BucketTypeOK ==
  /\ tokens \in Nat
  /\ lastRefill \in Nat
  /\ clock \in Nat
  /\ pc \in [Workers -> Labels]
  /\ loc \in [Workers -> Locs]
  /\ calls \in Nat
  /\ consumed \in Nat
  /\ credited \in Int

\* No update of `tokens` is lost and no token is handed out twice: whatever
\* the interleaving of the two CAS loops, the units left and the units the
\* admitted connections paid account exactly for the initial burst and the
\* refills (protection.rs:148-182).
BucketLedger == tokens + OneToken * consumed = InitBurst + credited

\* The bucket never holds more than the largest ceiling any call ran under,
\* also while a reload lowers burst_fp under calls in flight ("caps at
\* burst_fp to handle burst decreases", protection.rs:147).
TokensWithinBurst == \E b \in Bursts : tokens <= b

\* Both together: no update is lost, and none lifts the bucket above its ceiling.  What is
\* credited is what a refill added, so an interval that two refills both credit is not
\* caught here: AdmittedWithinRate, below, is what it breaks.
BucketSound == BucketLedger /\ TokensWithinBurst

\* The refill timestamp never moves back, although each call writes a `now` it
\* read before its loop: an older call cannot make an interval count again once
\* a newer one has advanced it (protection.rs:161-164).
RefillClockMonotone == [][lastRefill' >= lastRefill]_bucketVars

\* The rate cap itself: connections admitted so far cost at most the burst
\* plus what the rate allows over the elapsed time.  It holds for one worker;
\* with two, a second worker can credit the same interval between the first
\* one's two CASes, whose comment says "Only the first CAS winner advances the
\* refill timestamp; losers retry from above" (protection.rs:161).
AdmittedWithinRate == OneToken * consumed <= InitBurst + RefillUnits(clock)

\* The CAS loops always finish: a worker only retries because another one
\* succeeded, and there are finitely many calls.
CallsReturn == \A w \in Workers : pc[w] # "idle" ~> pc[w] = "idle"

============================================================================
