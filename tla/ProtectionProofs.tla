-------------------------- MODULE ProtectionProofs --------------------------
(***************************************************************************)
(* Theorems about Protection, for any number of connections, addresses,    *)
(* configurations and heap locations: the counts are exact and found, the  *)
(* limits hold across evictions and interleaved checks, a penalty is never *)
(* shortened, and the report agrees with the checks.                       *)
(***************************************************************************)
EXTENDS Protection, FiniteSetTheorems, TLAPS

----------------------------------------------------------------------------
(* The inductive invariant                                                 *)

\* Where a connection holds a reference, and where it has read a snapshot.
Holding == Checking \cup {"open"}
Admitting == Holding \cup {"get", "insert"}

\* A connection holds a reference exactly from its lookup to its end.
RefsOK == \A c \in Conns : pc[c] \in Holding <=> ref[c] # NoRef

\* A reference serves one address, in the table and in every holder.
TableInjective == \A i, j \in IPs : table[i] = table[j] /\ table[i] # NoRef => i = j

HeldForTable ==
  \A c \in Conns, i \in IPs : table[i] = ref[c] /\ table[i] # NoRef => req[c].ip = i

HeldForOne ==
  \A c, d \in Conns : ref[c] = ref[d] /\ ref[c] # NoRef => req[c].ip = req[d].ip

OneHome == TableInjective /\ HeldForTable /\ HeldForOne

\* Without a raced eviction, every holder holds what the table has.
Found ==
  \A c \in Conns : pc[c] \in Holding /\ ~ raced[req[c].ip] => table[req[c].ip] = ref[c]

\* Nothing was read of a clock that is still to come.
TimesOK ==
  /\ \A c \in Conns : req[c].now <= clock
  /\ sweep.now <= clock
  /\ \A r \in Refs, k \in Kinds : bucket[r][k].last <= clock

\* Who is about to credit an interval found that something accrued.
StageOK ==
  \A c \in Conns : pc[c] \in Kinds /\ op[c].stage = "credit" => op[c].last < req[c].now

ShapeInv ==
  /\ TypeOK /\ reloaded \in BOOLEAN
  /\ RefsOK /\ OneHome /\ Found /\ TimesOK /\ StageOK
  /\ ActiveMatchesHolders

\* Until a reload, every check and every sweep runs under the live snapshot.
OneConfig ==
  ~ reloaded =>
    /\ \A c \in Conns : pc[c] \in Admitting => req[c].cfg = config
    /\ sweep.todo # {} => sweep.cfg = config

CapOK == ~ reloaded /\ config.max > 0 => \A r \in Refs : active[r] <= config.max

\* n charges and what the bucket still holds are paid for by the burst and the
\* refills up to the time t.
Paid(n, tokens, lim, t) == OneToken * n + tokens <= lim.burst + lim.rate * t

\* The checks that have credited an interval and not moved the timestamp yet.
Pending(r, k) == {d \in Conns : ref[d] = r /\ At(d, k, "advance")}

\* The charges of an entry are paid for up to its timestamp, or up to the clock of
\* the one check that is about to move it there.
EntryLedger(n, r, k) ==
  LET b == bucket[r][k]
      lim == config.limit[k]
  IN  \/ Pending(r, k) = {} /\ Paid(n, b.tokens, lim, b.last)
      \/ \E d \in Conns : /\ Pending(r, k) = {d} /\ op[d].last = b.last
                          /\ Paid(n, b.tokens, lim, req[d].now)

\* The charges of an address without an entry are paid for by the refills alone:
\* the next entry starts with a whole burst again.
PaidByRefills(n, rate) == OneToken * n <= rate * clock

Ledger(ip, k) ==
  config.limit[k].rate > 0 =>
    IF table[ip] = NoRef THEN PaidByRefills(charged[ip][k], config.limit[k].rate)
    ELSE EntryLedger(charged[ip][k], table[ip], k)

LedgerOK ==
  ~ reloaded => \A ip \in IPs, k \in Kinds : ~ raced[ip] /\ ~ doubled[ip] => Ledger(ip, k)

\* A connection that found its address boxed still does, until the deadline, or has
\* been told so and goes on only to debit the buckets.
StillBoxed(c) ==
  \/ /\ pc[c] \in {"get", "insert", "penalty"}
     /\ table[req[c].ip] # NoRef
     /\ deadline[table[req[c].ip]] >= req[c].boxedUntil
     /\ req[c].now < req[c].boxedUntil
     /\ req[c].cfg.penalty > 0
  \/ pc[c] \in Kinds \cup {"extend"} /\ op[c].boxed

BoxOK ==
  ~ reloaded => \A c \in Conns :
    pc[c] \in Admitting /\ ~ raced[req[c].ip] =>
      clock >= req[c].boxedUntil \/ StillBoxed(c)

IInv == ShapeInv /\ OneConfig /\ CapOK /\ LedgerOK /\ BoxOK

----------------------------------------------------------------------------
(* Buckets                                                                 *)

Bucket == [tokens : Nat, last : Nat]

\* The fields of a snapshot.
LEMMA ConfigFields ==
  ASSUME NEW cfg \in Configs
  PROVE  /\ cfg.limit \in [Kinds -> [rate : Nat, burst : Nat]]
         /\ \A k \in Kinds : cfg.limit[k].rate \in Nat /\ cfg.limit[k].burst \in Nat
         /\ cfg.penalty \in Nat /\ cfg.max \in Nat
<1>1. cfg.limit \in [Kinds -> [rate : Nat, burst : Nat]] /\ cfg.penalty \in Nat /\ cfg.max \in Nat
  BY ProtectionConstants
<1> QED BY <1>1

\* A credit is paid for by the interval it credits.
LEMMA CreditPays ==
  ASSUME NEW n \in Nat, NEW tokens \in Nat, NEW last \in Nat, NEW now \in Nat, last < now,
         NEW lim \in [rate : Nat, burst : Nat], Paid(n, tokens, lim, last)
  PROVE  Paid(n, Smaller(tokens + (now - last) * lim.rate, lim.burst), lim, now)
<1>1. lim.rate \in Nat /\ lim.burst \in Nat
  OBVIOUS
<1>2. PICK m \in Nat : m = OneToken * n
  BY ProtectionConstants
<1>3. PICK p \in Nat : p = lim.rate * last
  BY <1>1
<1>4. PICK q \in Nat : q = lim.rate * now
  BY <1>1
<1>5. (now - last) * lim.rate = q - p
  BY <1>1, <1>3, <1>4
<1>6. m + tokens <= lim.burst + p
  BY <1>2, <1>3 DEF Paid
<1>7. /\ Smaller(tokens + (q - p), lim.burst) <= tokens + (q - p)
      /\ Smaller(tokens + (q - p), lim.burst) \in Int
  BY <1>1, <1>3, <1>4 DEF Smaller
<1>8. m + Smaller(tokens + (q - p), lim.burst) <= lim.burst + q
  BY <1>1, <1>6, <1>7
<1> QED BY <1>2, <1>4, <1>5, <1>8 DEF Paid

\* What is taken from the bucket is one charge.
LEMMA ConsumePays ==
  ASSUME NEW n \in Nat, NEW m \in Nat, m <= n + 1, NEW tokens \in Nat, tokens >= OneToken,
         NEW t \in Nat, NEW lim \in [rate : Nat, burst : Nat], Paid(n, tokens, lim, t)
  PROVE  Paid(m, tokens - OneToken, lim, t)
<1>1. lim.rate \in Nat /\ lim.burst \in Nat /\ OneToken \in Nat
  BY ProtectionConstants
<1>2. PICK q \in Nat : q = lim.rate * t
  BY <1>1
<1>3. OneToken * m <= OneToken * (n + 1)
  BY <1>1
<1>4. OneToken * (n + 1) = OneToken * n + OneToken
  BY <1>1
<1>5. PICK x \in Nat : x = OneToken * n
  BY <1>1
<1>6. PICK y \in Nat : y = OneToken * m
  BY <1>1
<1>7. x + tokens <= lim.burst + q
  BY <1>2, <1>5 DEF Paid
<1>8. y + (tokens - OneToken) <= lim.burst + q
  BY <1>1, <1>3, <1>4, <1>5, <1>6, <1>7
<1> QED BY <1>2, <1>6, <1>8 DEF Paid

\* A bucket that would be full at some earlier time was paid for by refills.
LEMMA FullIsPaidByRefills ==
  ASSUME NEW b \in Bucket, NEW now \in Nat, NEW lim \in [rate : Nat, burst : Nat],
         NEW n \in Nat, Paid(n, b.tokens, lim, b.last),
         clock \in Nat, now <= clock, b.last <= clock,
         ~ (Projected(b, now, lim) < lim.burst)
  PROVE  PaidByRefills(n, lim.rate)
<1>1. b.tokens \in Nat /\ b.last \in Nat /\ lim.rate \in Nat /\ lim.burst \in Nat
  BY DEF Bucket
<1>2. PICK m \in Nat : m = OneToken * n
  BY ProtectionConstants
<1>3. PICK p \in Nat : p = lim.rate * b.last
  BY <1>1
<1>4. PICK q \in Nat : q = lim.rate * now
  BY <1>1
<1>5. PICK k \in Nat : k = lim.rate * clock
  BY <1>1
<1>6. m + b.tokens <= lim.burst + p
  BY <1>2, <1>3 DEF Paid
<1>7. q <= k /\ p <= k
  BY <1>1, <1>3, <1>4, <1>5
<1>8. (now - b.last) * lim.rate = q - p
  BY <1>1, <1>3, <1>4
<1>9. m <= k
  <2>1. CASE now > b.last
    <3>1. b.tokens + (q - p) >= lim.burst
      BY <1>1, <1>3, <1>4, <1>8, <2>1 DEF Projected, Smaller
    <3> QED BY <1>1, <1>6, <1>7, <3>1
  <2>2. CASE ~ (now > b.last)
    <3>1. b.tokens >= lim.burst
      BY <1>1, <2>2 DEF Projected, Smaller
    <3> QED BY <1>1, <1>6, <1>7, <3>1
  <2> QED BY <2>1, <2>2
<1> QED BY <1>2, <1>5, <1>9 DEF PaidByRefills

----------------------------------------------------------------------------
(* The steps of a check                                                    *)

\* The buckets of a freed IpState.
LEMMA NoBucketsType == NoBuckets \in Buckets /\ \A k \in Kinds : NoBuckets[k].last = 0
BY DEF NoBuckets, Buckets

\* The locals before a bucket is touched.
LEMMA FreshLocals ==
  ASSUME NEW b \in BOOLEAN, NEW e \in BOOLEAN
  PROVE  /\ Fresh(b) \in Ops /\ Fresh(b).stage = "load" /\ Fresh(b).boxed = b
         /\ [Fresh(b) EXCEPT !.exceeded = e] \in Ops
         /\ [Fresh(b) EXCEPT !.exceeded = e].stage = "load"
         /\ [Fresh(b) EXCEPT !.exceeded = e].boxed = b
BY DEF Fresh, Ops

\* Where a step of c leaves the buckets b and the deadline d in the state it holds.
Leaves(c, b, d) ==
  /\ bucket' = [bucket EXCEPT ![ref[c]] = b]
  /\ deadline' = [deadline EXCEPT ![ref[c]] = d]

\* Settle leaves what it is given, or nothing where nothing is left.
LEMMA SettleLeaves ==
  ASSUME NEW c \in Conns, NEW b, NEW d, ref[c] # NoRef, Settle(c, b, d)
  PROVE  \/ Leaves(c, b, d)
         \/ /\ Leaves(c, NoBuckets, 0)
            /\ ~ InUse(ref[c], table, [ref EXCEPT ![c] = NoRef])
BY DEF Settle, Leaves, Freed

\* What every step of a holder has in common.
HolderStep(c) ==
  /\ pc[c] \in Holding
  /\ UNCHANGED <<config, table, clock, sweep, raced, reloaded>>
  /\ \/ Refuse(c)
     \/ /\ pc'[c] \in Holding
        /\ pc' = [pc EXCEPT ![c] = pc'[c]]
        /\ UNCHANGED <<req, ref>>

\* What it does to its locals, and to the histories.
LocalsStep(c) ==
  /\ op' \in [Conns -> Ops]
  /\ \A d \in Conns \ {c} : op'[d] = op[d]
  /\ pc'[c] \in Kinds /\ op'[c].stage = "credit" => op'[c].last < req'[c].now
  /\ charged' \in [IPs -> [Kinds -> Nat]]
  /\ doubled' \in [IPs -> BOOLEAN]

\* What a step may leave in the state it holds: buckets and a deadline that are
\* well formed, with timestamps from the state or from the check.
Plausible(c, b, d) ==
  /\ b \in Buckets /\ d \in Nat
  /\ \A k \in Kinds : b[k].last \in {bucket[ref[c]][k].last, req[c].now}
  /\ d >= deadline[ref[c]]

\* Either that is left, or the state is gone.
LeavesPlausible(c) ==
  \E b, d : /\ Plausible(c, b, d)
            /\ \/ Leaves(c, b, d)
               \/ /\ Refuse(c)
                  /\ Leaves(c, NoBuckets, 0)
                  /\ ~ InUse(ref[c], table, [ref EXCEPT ![c] = NoRef])

CheckStep(c) == HolderStep(c) /\ LocalsStep(c) /\ LeavesPlausible(c)

Held(c) == ref[c] \in Refs /\ req[c].cfg \in Configs /\ req[c].now \in Nat

\* What the fields of a held IpState are.
LEMMA HeldType ==
  ASSUME TypeOK, RefsOK, NEW c \in Conns, pc[c] \in Holding
  PROVE  /\ Held(c) /\ ref[c] # NoRef /\ req[c].ip \in IPs
         /\ bucket[ref[c]] \in Buckets /\ deadline[ref[c]] \in Nat /\ active[ref[c]] \in Nat
<1>1. ref[c] \in Refs /\ ref[c] # NoRef
  BY DEF TypeOK, RefsOK
<1>2. req[c] \in [ip : IPs, cfg : Configs, now : Nat, boxedUntil : Nat]
  BY DEF TypeOK
<1> QED BY <1>1, <1>2 DEF TypeOK, Held

\* An extended penalty is a time no earlier than the one it replaces.
LEMMA ExtendedType ==
  ASSUME TypeOK, NEW c \in Conns, Held(c)
  PROVE  /\ Extended(ref[c], req[c].now, req[c].cfg) \in Nat
         /\ Extended(ref[c], req[c].now, req[c].cfg) >= deadline[ref[c]]
<1>1. deadline[ref[c]] \in Nat /\ req[c].cfg.penalty \in Nat /\ req[c].now \in Nat
  BY ConfigFields DEF TypeOK, Held
<1> QED BY <1>1 DEF Extended, Larger

\* The state as it is.
LEMMA SamePlausible ==
  ASSUME TypeOK, NEW c \in Conns, Held(c)
  PROVE  /\ Plausible(c, bucket[ref[c]], deadline[ref[c]])
         /\ bucket' = bucket /\ deadline' = deadline => LeavesPlausible(c)
<1>1. bucket[ref[c]] \in Buckets /\ deadline[ref[c]] \in Nat
  BY DEF TypeOK, Held
<1>2. Plausible(c, bucket[ref[c]], deadline[ref[c]])
  BY <1>1 DEF Plausible
<1>3. bucket' = bucket /\ deadline' = deadline => Leaves(c, bucket[ref[c]], deadline[ref[c]])
  BY DEF Leaves, TypeOK, Held
<1> QED BY <1>2, <1>3 DEF LeavesPlausible

\* The steps a check takes on a bucket, and all steps of who holds a reference.
BucketAction(c) ==
  \E k \in Kinds : \/ SkipBucket(c, k) \/ LoadLast(c, k) \/ Credit(c, k)
                   \/ Advance(c, k) \/ Consume(c, k) \/ Exhausted(c, k)

HolderAction(c) ==
  Penalty(c) \/ BucketAction(c) \/ Extend(c) \/ Concurrency(c) \/ Close(c)

\* What a bucket is replaced by in the buckets of a state.
LEMMA OneBucket ==
  ASSUME TypeOK, NEW c \in Conns, Held(c), NEW k \in Kinds, NEW b \in Bucket,
         b.last \in {bucket[ref[c]][k].last, req[c].now},
         bucket' = [bucket EXCEPT ![ref[c]] = [@ EXCEPT ![k] = b]], deadline' = deadline
  PROVE  LeavesPlausible(c)
<1> DEFINE old == bucket[ref[c]]
           new == [old EXCEPT ![k] = b]
<1>1. old \in Buckets /\ deadline[ref[c]] \in Nat
  BY DEF TypeOK, Held
<1>2. new \in Buckets /\ new[k] = b /\ \A j \in Kinds \ {k} : new[j] = old[j]
  BY <1>1 DEF Buckets, Bucket
<1>3. bucket' = [bucket EXCEPT ![ref[c]] = new]
  BY DEF TypeOK, Held
<1> HIDE DEF new
<1>4. \A j \in Kinds : new[j].last \in {old[j].last, req[c].now}
  BY <1>2
<1>5. Plausible(c, new, deadline[ref[c]])
  BY <1>1, <1>2, <1>4 DEF Plausible
<1>6. Leaves(c, new, deadline[ref[c]])
  BY <1>3 DEF Leaves, TypeOK, Held
<1> QED BY <1>5, <1>6 DEF LeavesPlausible

\* Moving on behind a bucket.
LEMMA MoveOnLocals ==
  ASSUME TypeOK, NEW c \in Conns, NEW k \in Kinds, NEW e \in BOOLEAN, MoveOn(c, k, e)
  PROVE  /\ op' \in [Conns -> Ops] /\ \A d \in Conns \ {c} : op'[d] = op[d]
         /\ op'[c].stage = "load" /\ op'[c].boxed = op[c].boxed
         /\ pc'[c] \in Checking /\ pc' = [pc EXCEPT ![c] = pc'[c]]
         /\ op[c].boxed => pc'[c] \in Kinds \cup {"extend"}
<1>1. op[c].boxed \in BOOLEAN
  BY DEF TypeOK, Ops
<1> DEFINE o == [Fresh(op[c].boxed) EXCEPT !.exceeded = e]
<1>2. o \in Ops /\ o.stage = "load" /\ o.boxed = op[c].boxed
  BY <1>1, FreshLocals
<1>3. op' = [op EXCEPT ![c] = o]
  BY DEF MoveOn
<1> HIDE DEF o
<1>4. op' \in [Conns -> Ops] /\ op'[c] = o /\ \A d \in Conns \ {c} : op'[d] = op[d]
  BY <1>2, <1>3 DEF TypeOK
<1>5. Behind(c, k) \in Checking /\ (op[c].boxed => Behind(c, k) \in Kinds \cup {"extend"})
  BY DEF Behind, Kinds, Checking
<1>6. pc' = [pc EXCEPT ![c] = Behind(c, k)]
  BY DEF MoveOn
<1>7. pc'[c] = Behind(c, k) /\ pc' = [pc EXCEPT ![c] = pc'[c]]
  BY <1>6 DEF TypeOK
<1> QED BY <1>2, <1>4, <1>5, <1>7

\* The steps on a bucket touch that bucket, the locals and the histories.
LEMMA BucketStep ==
  ASSUME TypeOK, RefsOK, StageOK, NEW c \in Conns, BucketAction(c)
  PROVE  /\ CheckStep(c) /\ active' = active /\ deadline' = deadline
         /\ pc[c] \in Kinds /\ pc'[c] \in Checking
         /\ op[c].boxed => op'[c].boxed /\ pc'[c] \in Kinds \cup {"extend"}
<1>1. PICK k \in Kinds : \/ SkipBucket(c, k) \/ LoadLast(c, k) \/ Credit(c, k)
                         \/ Advance(c, k) \/ Consume(c, k) \/ Exhausted(c, k)
  BY DEF BucketAction
<1> DEFINE r == ref[c]  bk == bucket[r][k]  ip == req[c].ip
<1>2. pc[c] = k /\ pc[c] \in Kinds /\ pc[c] \in Checking /\ pc[c] \in Holding
  BY <1>1 DEF SkipBucket, LoadLast, Credit, Advance, Consume, Exhausted, At, Checking, Holding
<1>3. /\ Held(c) /\ r \in Refs /\ ip \in IPs /\ bucket[r] \in Buckets
      /\ req[c].now \in Nat /\ req[c].cfg \in Configs
  BY <1>2, HeldType DEF Held
<1>4. bk \in Bucket /\ bk.tokens \in Nat /\ bk.last \in Nat
  BY <1>3 DEF Buckets, Bucket
<1>5. /\ active' = active /\ deadline' = deadline /\ UNCHANGED <<req, ref>>
      /\ UNCHANGED <<config, table, clock, sweep, raced, reloaded>>
  BY <1>1 DEF SkipBucket, LoadLast, Credit, Advance, Consume, Exhausted
<1>6. /\ op[c] \in Ops /\ op[c].boxed \in BOOLEAN /\ op[c].exceeded \in BOOLEAN
      /\ op[c].last \in Nat /\ op \in [Conns -> Ops]
  BY DEF TypeOK, Ops
<1>7. Limit(c, k).rate \in Nat /\ Limit(c, k).burst \in Nat /\ OneToken \in Nat
  BY <1>3, ConfigFields, ProtectionConstants DEF Limit
<1>8. /\ charged \in [IPs -> [Kinds -> Nat]] /\ doubled \in [IPs -> BOOLEAN]
      /\ bucket \in [Refs -> Buckets]
  BY DEF TypeOK
<1>9. CASE SkipBucket(c, k)
  <2>1. MoveOn(c, k, op[c].exceeded) /\ UNCHANGED <<bucket, charged, doubled>>
    BY <1>9 DEF SkipBucket
  <2>2. /\ op' \in [Conns -> Ops] /\ \A d \in Conns \ {c} : op'[d] = op[d]
        /\ op'[c].stage = "load" /\ op'[c].boxed = op[c].boxed
        /\ pc'[c] \in Checking /\ pc' = [pc EXCEPT ![c] = pc'[c]]
        /\ op[c].boxed => pc'[c] \in Kinds \cup {"extend"}
    BY <1>6, <2>1, MoveOnLocals
  <2>3. LeavesPlausible(c)
    BY <1>3, <1>5, <2>1, SamePlausible
  <2>4. LocalsStep(c)
    BY <1>8, <2>1, <2>2 DEF LocalsStep
  <2>5. HolderStep(c)
    BY <1>2, <1>5, <2>2 DEF HolderStep, Holding
  <2> QED BY <1>2, <1>5, <2>2, <2>3, <2>4, <2>5 DEF CheckStep
<1>10. CASE LoadLast(c, k)
  <2> DEFINE s == IF req[c].now > bk.last THEN "credit" ELSE "consume"
             o == [op[c] EXCEPT !.stage = s, !.last = bk.last]
  <2>1. op' = [op EXCEPT ![c] = o] /\ UNCHANGED <<pc, bucket, charged, doubled>>
    BY <1>6, <1>10 DEF LoadLast
  <2>2. /\ o \in Ops /\ o.boxed = op[c].boxed
        /\ o.stage = "credit" => o.last < req[c].now
    BY <1>3, <1>4, <1>6 DEF Ops
  <2> HIDE DEF o
  <2>3. op' \in [Conns -> Ops] /\ op'[c] = o /\ \A d \in Conns \ {c} : op'[d] = op[d]
    BY <1>6, <2>1, <2>2
  <2>4. LocalsStep(c)
    BY <1>5, <1>8, <2>1, <2>2, <2>3 DEF LocalsStep
  <2>5. LeavesPlausible(c)
    BY <1>3, <1>5, <2>1, SamePlausible
  <2>6. pc'[c] = pc[c] /\ pc' = [pc EXCEPT ![c] = pc'[c]]
    BY <2>1 DEF TypeOK
  <2>7. HolderStep(c)
    BY <1>2, <1>5, <2>6 DEF HolderStep
  <2> QED BY <1>2, <1>5, <2>2, <2>3, <2>4, <2>5, <2>6, <2>7 DEF CheckStep
<1>11. CASE Credit(c, k)
  <2> DEFINE t == Smaller(bk.tokens + (req[c].now - op[c].last) * Limit(c, k).rate,
                          Limit(c, k).burst)
             b == [bk EXCEPT !.tokens = t]
             o == [op[c] EXCEPT !.stage = "advance"]
  <2>1. op[c].last < req[c].now
    BY <1>2, <1>11 DEF Credit, At, StageOK
  <2>2. t \in Nat
    <3>1. req[c].now - op[c].last \in Nat
      BY <1>3, <1>6, <2>1
    <3>2. PICK m \in Nat : m = (req[c].now - op[c].last) * Limit(c, k).rate
      BY <1>7, <3>1
    <3> QED BY <1>4, <1>7, <3>2 DEF Smaller
  <2>3. b \in Bucket /\ b.last = bk.last
    BY <1>4, <2>2 DEF Bucket
  <2>4. bucket' = [bucket EXCEPT ![r] = [@ EXCEPT ![k] = b]]
    BY <1>3, <1>8, <1>11 DEF Credit
  <2>5. LeavesPlausible(c)
    <3> HIDE DEF b
    <3> QED BY <1>3, <1>5, <2>3, <2>4, OneBucket
  <2>6. op' = [op EXCEPT ![c] = o] /\ pc' = pc
    BY <1>6, <1>11 DEF Credit
  <2>7. o \in Ops /\ o.boxed = op[c].boxed /\ o.stage = "advance"
    BY <1>6 DEF Ops
  <2> HIDE DEF o
  <2>8. op' \in [Conns -> Ops] /\ op'[c] = o /\ \A d \in Conns \ {c} : op'[d] = op[d]
    BY <1>6, <2>6, <2>7
  <2>9. charged' \in [IPs -> [Kinds -> Nat]]
    <3>1. NoCharges \in [Kinds -> Nat]
      BY DEF NoCharges
    <3>2. charged' = [charged EXCEPT ![ip] = NoCharges] \/ charged' = charged
      BY <1>3, <1>8, <1>11 DEF Credit
    <3> QED BY <1>3, <1>8, <3>1, <3>2
  <2>10. doubled' \in [IPs -> BOOLEAN]
    BY <1>3, <1>8, <1>11 DEF Credit
  <2>11. LocalsStep(c)
    BY <2>7, <2>8, <2>9, <2>10 DEF LocalsStep
  <2>12. pc'[c] = pc[c] /\ pc' = [pc EXCEPT ![c] = pc'[c]]
    BY <2>6 DEF TypeOK
  <2>13. HolderStep(c)
    BY <1>2, <1>5, <2>12 DEF HolderStep
  <2> QED BY <1>2, <1>5, <2>5, <2>7, <2>8, <2>11, <2>12, <2>13 DEF CheckStep
<1>12. CASE Advance(c, k)
  <2> DEFINE l == IF bk.last = op[c].last THEN req[c].now ELSE bk.last
             b == [bk EXCEPT !.last = l]
             o == [op[c] EXCEPT !.stage = "consume"]
  <2>1. b \in Bucket /\ b.last \in {bk.last, req[c].now}
    BY <1>3, <1>4 DEF Bucket
  <2>2. bucket' = [bucket EXCEPT ![r] = [@ EXCEPT ![k] = b]]
    BY <1>3, <1>8, <1>12 DEF Advance
  <2>3. LeavesPlausible(c)
    <3> HIDE DEF b
    <3> QED BY <1>3, <1>5, <2>1, <2>2, OneBucket
  <2>4. op' = [op EXCEPT ![c] = o] /\ UNCHANGED <<pc, charged, doubled>>
    BY <1>6, <1>12 DEF Advance
  <2>5. o \in Ops /\ o.boxed = op[c].boxed /\ o.stage = "consume"
    BY <1>6 DEF Ops
  <2> HIDE DEF o
  <2>6. op' \in [Conns -> Ops] /\ op'[c] = o /\ \A d \in Conns \ {c} : op'[d] = op[d]
    BY <1>6, <2>4, <2>5
  <2>7. LocalsStep(c)
    BY <1>8, <2>4, <2>5, <2>6 DEF LocalsStep
  <2>8. pc'[c] = pc[c] /\ pc' = [pc EXCEPT ![c] = pc'[c]]
    BY <2>4 DEF TypeOK
  <2>9. HolderStep(c)
    BY <1>2, <1>5, <2>8 DEF HolderStep
  <2> QED BY <1>2, <1>5, <2>3, <2>5, <2>6, <2>7, <2>8, <2>9 DEF CheckStep
<1>13. CASE Consume(c, k)
  <2> DEFINE b == [bk EXCEPT !.tokens = bk.tokens - OneToken]
  <2>1. bk.tokens - OneToken \in Nat
    BY <1>4, <1>7, <1>13 DEF Consume
  <2>2. b \in Bucket /\ b.last = bk.last
    BY <1>4, <2>1 DEF Bucket
  <2>3. bucket' = [bucket EXCEPT ![r] = [@ EXCEPT ![k] = b]]
    BY <1>3, <1>8, <1>13 DEF Consume
  <2>4. LeavesPlausible(c)
    <3> HIDE DEF b
    <3> QED BY <1>3, <1>5, <2>2, <2>3, OneBucket
  <2>5. MoveOn(c, k, op[c].exceeded) /\ Charge(c, k) /\ doubled' = doubled
    BY <1>13 DEF Consume
  <2>6. /\ op' \in [Conns -> Ops] /\ \A d \in Conns \ {c} : op'[d] = op[d]
        /\ op'[c].stage = "load" /\ op'[c].boxed = op[c].boxed
        /\ pc'[c] \in Checking /\ pc' = [pc EXCEPT ![c] = pc'[c]]
        /\ op[c].boxed => pc'[c] \in Kinds \cup {"extend"}
    BY <1>6, <2>5, MoveOnLocals
  <2>7. charged' \in [IPs -> [Kinds -> Nat]]
    <3>1. MaxCharged[config] \in Nat
      BY ProtectionConstants DEF TypeOK
    <3>2. charged[ip][k] \in Nat
      BY <1>3, <1>8
    <3>3. Smaller(charged[ip][k] + 1, MaxCharged[config]) \in Nat
      BY <3>1, <3>2 DEF Smaller
    <3> DEFINE n == Smaller(charged[ip][k] + 1, MaxCharged[config])
    <3>4. charged' = charged \/ charged' = [charged EXCEPT ![ip] = [@ EXCEPT ![k] = n]]
      BY <1>3, <1>8, <2>5 DEF Charge
    <3> HIDE DEF n
    <3>5. [charged[ip] EXCEPT ![k] = n] \in [Kinds -> Nat]
      BY <1>3, <1>8, <3>3 DEF n
    <3> QED BY <1>3, <1>8, <3>4, <3>5
  <2>8. LocalsStep(c)
    BY <1>8, <2>5, <2>6, <2>7 DEF LocalsStep
  <2>9. HolderStep(c)
    BY <1>2, <1>5, <2>6 DEF HolderStep, Holding
  <2> QED BY <1>2, <1>5, <2>4, <2>6, <2>8, <2>9 DEF CheckStep
<1>14. CASE Exhausted(c, k)
  <2>1. UNCHANGED <<bucket, charged, doubled>>
    BY <1>14 DEF Exhausted
  <2>2. /\ op' \in [Conns -> Ops] /\ \A d \in Conns \ {c} : op'[d] = op[d]
        /\ op'[c].stage # "credit" /\ op'[c].boxed = op[c].boxed
        /\ pc'[c] \in Checking /\ pc' = [pc EXCEPT ![c] = pc'[c]]
        /\ op[c].boxed => pc'[c] \in Kinds \cup {"extend"}
    <3>1. CASE op[c].boxed
      <4>1. MoveOn(c, k, TRUE)
        BY <1>14, <3>1 DEF Exhausted
      <4> QED BY <4>1, MoveOnLocals
    <3>2. CASE ~ op[c].boxed
      <4> DEFINE o == [op[c] EXCEPT !.exceeded = TRUE]
      <4>1. pc' = [pc EXCEPT ![c] = "extend"] /\ op' = [op EXCEPT ![c] = o]
        BY <1>6, <1>14, <3>2 DEF Exhausted
      <4>2. o \in Ops /\ o.stage = "consume" /\ o.boxed = op[c].boxed
        BY <1>6, <1>14 DEF Exhausted, At, Ops
      <4> HIDE DEF o
      <4>3. pc'[c] = "extend" /\ pc' = [pc EXCEPT ![c] = pc'[c]]
        BY <4>1 DEF TypeOK
      <4>4. op' \in [Conns -> Ops] /\ op'[c] = o /\ \A d \in Conns \ {c} : op'[d] = op[d]
        BY <1>6, <4>1, <4>2
      <4> QED BY <3>2, <4>2, <4>3, <4>4 DEF Checking
    <3> QED BY <3>1, <3>2
  <2>3. LeavesPlausible(c)
    BY <1>3, <1>5, <2>1, SamePlausible
  <2>4. LocalsStep(c)
    BY <1>8, <2>1, <2>2 DEF LocalsStep
  <2>5. HolderStep(c)
    BY <1>2, <1>5, <2>2 DEF HolderStep, Holding
  <2> QED BY <1>2, <1>5, <2>2, <2>3, <2>4, <2>5 DEF CheckStep
<1> QED BY <1>1, <1>9, <1>10, <1>11, <1>12, <1>13, <1>14

\* A refused connection is back where it came from.
LEMMA RefusedLocals ==
  ASSUME TypeOK, NEW c \in Conns, Refuse(c), UNCHANGED <<charged, doubled>>
  PROVE  LocalsStep(c)
<1>1. Fresh(FALSE) \in Ops /\ Fresh(FALSE).stage = "load"
  BY FreshLocals
<1>2. op' = [op EXCEPT ![c] = Fresh(FALSE)]
  BY DEF Refuse
<1>3. op' \in [Conns -> Ops] /\ op'[c] = Fresh(FALSE) /\ \A d \in Conns \ {c} : op'[d] = op[d]
  BY <1>1, <1>2 DEF TypeOK
<1> QED BY <1>1, <1>3 DEF LocalsStep, TypeOK

\* The other steps of a holder: the penalty test, the end of a check that is
\* refused, the count, and release.
LEMMA PenaltyStep ==
  ASSUME TypeOK, RefsOK, NEW c \in Conns, Penalty(c)
  PROVE  /\ CheckStep(c) /\ active' = active /\ deadline' = deadline
         /\ pc[c] = "penalty" /\ pc'[c] = "rate"
         /\ op'[c].boxed = Boxed(ref[c], req[c].now, req[c].cfg)
<1>1. pc[c] = "penalty" /\ pc[c] \in Holding
  BY DEF Penalty, Holding, Checking
<1>2. Held(c)
  BY <1>1, HeldType
<1>3. UNCHANGED <<config, table, bucket, active, deadline, clock, req, ref, sweep,
                  charged, doubled, raced, reloaded>>
  BY DEF Penalty
<1>4. pc'[c] = "rate" /\ pc' = [pc EXCEPT ![c] = pc'[c]]
  BY DEF Penalty, TypeOK
<1> DEFINE x == Boxed(ref[c], req[c].now, req[c].cfg)
<1>5. x \in BOOLEAN
  BY DEF Boxed
<1>6. op' = [op EXCEPT ![c] = Fresh(x)]
  BY DEF Penalty
<1> HIDE DEF x
<1>7. Fresh(x) \in Ops /\ Fresh(x).stage = "load" /\ Fresh(x).boxed = x
  BY <1>5, FreshLocals
<1>8. op' \in [Conns -> Ops] /\ op'[c] = Fresh(x) /\ \A d \in Conns \ {c} : op'[d] = op[d]
  BY <1>6, <1>7 DEF TypeOK
<1>9. LocalsStep(c)
  BY <1>3, <1>7, <1>8 DEF LocalsStep, TypeOK
<1>10. LeavesPlausible(c)
  BY <1>2, <1>3, SamePlausible
<1>11. HolderStep(c)
  BY <1>1, <1>3, <1>4 DEF HolderStep, Holding, Checking, Kinds
<1> QED BY <1>1, <1>3, <1>4, <1>7, <1>8, <1>9, <1>10, <1>11 DEF CheckStep, x

LEMMA ExtendStep ==
  ASSUME TypeOK, RefsOK, NEW c \in Conns, Extend(c)
  PROVE  CheckStep(c) /\ active' = active /\ pc[c] = "extend" /\ pc'[c] = "idle"
<1> DEFINE r == ref[c]  cfg == req[c].cfg
           d == IF op[c].exceeded /\ cfg.penalty > 0 THEN Extended(r, req[c].now, cfg)
                ELSE deadline[r]
<1>1. pc[c] = "extend" /\ pc[c] \in Holding
  BY DEF Extend, Holding, Checking
<1>2. Held(c) /\ r # NoRef /\ bucket[r] \in Buckets /\ deadline[r] \in Nat
  BY <1>1, HeldType
<1>3. d \in Nat /\ d >= deadline[r]
  BY <1>2, ExtendedType
<1>4. Plausible(c, bucket[r], d)
  BY <1>2, <1>3 DEF Plausible
<1>5. /\ UNCHANGED <<config, table, clock, sweep, raced, reloaded, active, charged, doubled>>
      /\ Settle(c, bucket[r], d) /\ Refuse(c)
  BY DEF Extend
<1> HIDE DEF d
<1>6. \/ Leaves(c, bucket[r], d)
      \/ Leaves(c, NoBuckets, 0) /\ ~ InUse(ref[c], table, [ref EXCEPT ![c] = NoRef])
  BY <1>2, <1>5, SettleLeaves
<1>7. LeavesPlausible(c)
  BY <1>4, <1>5, <1>6 DEF LeavesPlausible
<1>8. LocalsStep(c)
  BY <1>5, RefusedLocals
<1>9. pc'[c] = "idle"
  BY <1>5 DEF Refuse, TypeOK
<1> QED BY <1>1, <1>5, <1>7, <1>8, <1>9 DEF CheckStep, HolderStep

LEMMA ConcurrencyStep ==
  ASSUME TypeOK, RefsOK, NEW c \in Conns, Concurrency(c)
  PROVE  CheckStep(c)
<1> DEFINE r == ref[c]
<1>1. pc[c] \in Holding /\ pc[c] = "concurrency"
  BY DEF Concurrency, Holding, Checking
<1>2. Held(c) /\ r # NoRef
  BY <1>1, HeldType
<1>3. Plausible(c, bucket[r], deadline[r])
  BY <1>2, SamePlausible
<1>4. UNCHANGED <<config, table, clock, sweep, raced, reloaded, charged, doubled>>
  BY DEF Concurrency
<1>5. CASE ~ SlotFree(r, req[c].cfg.max)
  <2>1. Settle(c, bucket[r], deadline[r]) /\ Refuse(c)
    BY <1>5 DEF Concurrency
  <2>2. \/ Leaves(c, bucket[r], deadline[r])
        \/ Leaves(c, NoBuckets, 0) /\ ~ InUse(ref[c], table, [ref EXCEPT ![c] = NoRef])
    BY <1>2, <2>1, SettleLeaves
  <2>3. LocalsStep(c)
    BY <1>4, <2>1, RefusedLocals
  <2> QED BY <1>1, <1>3, <1>4, <2>1, <2>2, <2>3 DEF CheckStep, HolderStep, LeavesPlausible
<1>6. CASE SlotFree(r, req[c].cfg.max)
  <2>1. pc' = [pc EXCEPT ![c] = "open"] /\ UNCHANGED <<bucket, deadline, req, ref, op>>
    BY <1>6 DEF Concurrency
  <2>2. pc'[c] = "open" /\ pc' = [pc EXCEPT ![c] = pc'[c]]
    BY <2>1 DEF TypeOK
  <2>3. LeavesPlausible(c)
    BY <1>2, <2>1, SamePlausible
  <2>4. "open" \notin Kinds
    BY DEF Kinds
  <2>5. LocalsStep(c)
    BY <1>4, <2>1, <2>2, <2>4 DEF LocalsStep, TypeOK
  <2> QED BY <1>1, <1>4, <2>1, <2>2, <2>3, <2>5 DEF CheckStep, HolderStep, Holding
<1> QED BY <1>5, <1>6

LEMMA CloseStep ==
  ASSUME TypeOK, RefsOK, NEW c \in Conns, Close(c), pc[c] = "open"
  PROVE  CheckStep(c)
<1> DEFINE r == ref[c]
<1>1. pc[c] \in Holding
  BY DEF Holding
<1>2. Held(c) /\ r # NoRef
  BY <1>1, HeldType
<1>3. Plausible(c, bucket[r], deadline[r])
  BY <1>2, SamePlausible
<1>4. UNCHANGED <<config, table, clock, sweep, raced, reloaded, charged, doubled>>
  BY DEF Close
<1>5. Settle(c, bucket[r], deadline[r]) /\ Refuse(c)
  BY DEF Close
<1>6. \/ Leaves(c, bucket[r], deadline[r])
      \/ Leaves(c, NoBuckets, 0) /\ ~ InUse(ref[c], table, [ref EXCEPT ![c] = NoRef])
  BY <1>2, <1>5, SettleLeaves
<1>7. LocalsStep(c)
  BY <1>4, <1>5, RefusedLocals
<1> QED BY <1>1, <1>3, <1>4, <1>5, <1>6, <1>7 DEF CheckStep, HolderStep, LeavesPlausible

----------------------------------------------------------------------------
(* The shape of the state is kept                                          *)

\* The values that stand for no request and no sweep.
LEMMA Defaults ==
  /\ AnyConfig \in Configs
  /\ NoReq \in [ip : IPs, cfg : Configs, now : Nat, boxedUntil : Nat]
  /\ NoSweep \in [cfg : Configs, now : Nat, todo : SUBSET IPs]
  /\ NoReq.now = 0 /\ NoSweep.now = 0 /\ NoSweep.todo = {} /\ NoReq.boxedUntil = 0
<1>1. AnyConfig \in Configs
  BY ProtectionConstants DEF AnyConfig
<1>2. (CHOOSE i \in IPs : TRUE) \in IPs
  BY ProtectionConstants
<1> QED BY <1>1, <1>2 DEF NoReq, NoSweep

\* A refused connection is back where it came from.
LEMMA Refused ==
  ASSUME TypeOK, NEW c \in Conns, Refuse(c)
  PROVE  /\ pc' \in [Conns -> Labels] /\ ref' \in [Conns -> Refs \cup {NoRef}]
         /\ req' \in [Conns -> [ip : IPs, cfg : Configs, now : Nat, boxedUntil : Nat]]
         /\ pc'[c] = "idle" /\ ref'[c] = NoRef /\ req'[c] = NoReq
         /\ \A d \in Conns \ {c} : pc'[d] = pc[d] /\ ref'[d] = ref[d] /\ req'[d] = req[d]
<1>1. "idle" \in Labels
  BY DEF Labels
<1> QED BY <1>1, Defaults DEF Refuse, TypeOK

\* The connections after a step of a holder.
LEMMA HolderConns ==
  ASSUME TypeOK, NEW c \in Conns, HolderStep(c)
  PROVE  /\ pc' \in [Conns -> Labels] /\ ref' \in [Conns -> Refs \cup {NoRef}]
         /\ req' \in [Conns -> [ip : IPs, cfg : Configs, now : Nat, boxedUntil : Nat]]
         /\ \A d \in Conns \ {c} : pc'[d] = pc[d] /\ ref'[d] = ref[d] /\ req'[d] = req[d]
         /\ \/ pc'[c] = "idle" /\ ref'[c] = NoRef /\ req'[c] = NoReq
            \/ pc'[c] \in Holding /\ ref'[c] = ref[c] /\ req'[c] = req[c]
<1>1. CASE Refuse(c)
  BY <1>1, Refused
<1>2. CASE /\ pc'[c] \in Holding /\ pc' = [pc EXCEPT ![c] = pc'[c]]
           /\ UNCHANGED <<req, ref>>
  <2>1. pc'[c] \in Labels
    BY <1>2 DEF Holding, Labels
  <2> QED BY <1>2, <2>1 DEF TypeOK
<1> QED BY <1>1, <1>2 DEF HolderStep

\* The heap after a step of a holder.
LEMMA HolderHeap ==
  ASSUME TypeOK, RefsOK, TimesOK, NEW c \in Conns, pc[c] \in Holding, LeavesPlausible(c)
  PROVE  /\ bucket' \in [Refs -> Buckets] /\ deadline' \in [Refs -> Nat]
         /\ \A r \in Refs, k \in Kinds : bucket'[r][k].last <= clock
         /\ \A r \in Refs \ {ref[c]} : bucket'[r] = bucket[r] /\ deadline'[r] = deadline[r]
<1>1. ref[c] \in Refs /\ req[c].now \in Nat
  BY HeldType DEF Held
<1>2. PICK b, d : /\ Plausible(c, b, d)
                  /\ Leaves(c, b, d) \/ Leaves(c, NoBuckets, 0)
  BY DEF LeavesPlausible
<1>3. clock \in Nat /\ req[c].now <= clock
  BY DEF TypeOK, TimesOK
<1>4. b \in Buckets /\ d \in Nat /\ \A k \in Kinds : b[k].last <= clock
  BY <1>1, <1>2, <1>3 DEF Plausible, TimesOK
<1>5. \A k \in Kinds : NoBuckets[k].last <= clock
  BY <1>3, NoBucketsType
<1>6. PICK nb \in Buckets, nd \in Nat :
        Leaves(c, nb, nd) /\ \A k \in Kinds : nb[k].last <= clock
  BY <1>2, <1>4, <1>5, NoBucketsType
<1> QED BY <1>1, <1>6 DEF Leaves, TypeOK, TimesOK

\* A step of a holder keeps the references where they were.
LEMMA HolderShape ==
  ASSUME TypeOK, reloaded \in BOOLEAN, RefsOK, OneHome, Found, TimesOK, StageOK,
         NEW c \in Conns, CheckStep(c), active' \in [Refs -> Nat]
  PROVE  /\ TypeOK' /\ reloaded' \in BOOLEAN
         /\ RefsOK' /\ OneHome' /\ Found' /\ TimesOK' /\ StageOK'
<1> USE DEF CheckStep
<1>1. pc[c] \in Holding /\ UNCHANGED <<config, table, clock, sweep, raced, reloaded>>
  BY DEF HolderStep
<1>2. /\ bucket' \in [Refs -> Buckets] /\ deadline' \in [Refs -> Nat]
      /\ \A r \in Refs, k \in Kinds : bucket'[r][k].last <= clock
  BY <1>1, HolderHeap
<1>3. /\ pc' \in [Conns -> Labels] /\ ref' \in [Conns -> Refs \cup {NoRef}]
      /\ req' \in [Conns -> [ip : IPs, cfg : Configs, now : Nat, boxedUntil : Nat]]
  BY HolderConns
<1>4. \A d \in Conns \ {c} : pc'[d] = pc[d] /\ ref'[d] = ref[d] /\ req'[d] = req[d]
  BY HolderConns
<1>5. \/ pc'[c] = "idle" /\ ref'[c] = NoRef /\ req'[c] = NoReq
      \/ pc'[c] \in Holding /\ ref'[c] = ref[c] /\ req'[c] = req[c]
  BY HolderConns
<1>6. TypeOK' /\ reloaded' \in BOOLEAN
  <2>1. /\ op' \in [Conns -> Ops] /\ charged' \in [IPs -> [Kinds -> Nat]]
        /\ doubled' \in [IPs -> BOOLEAN]
    BY DEF LocalsStep
  <2> QED BY <1>1, <1>2, <1>3, <2>1 DEF TypeOK
<1>7. "idle" \notin Holding
  BY DEF Holding, Checking, Kinds
<1>8. RefsOK'
  BY <1>1, <1>4, <1>5, <1>7 DEF RefsOK
<1>9. OneHome'
  <2>1. \A d \in Conns : ref'[d] # NoRef => ref'[d] = ref[d] /\ req'[d] = req[d]
    BY <1>4, <1>5
  <2>2. TableInjective'
    BY <1>1 DEF OneHome, TableInjective
  <2>3. HeldForTable'
    BY <1>1, <2>1 DEF OneHome, HeldForTable
  <2>4. HeldForOne'
    BY <2>1 DEF OneHome, HeldForOne
  <2> QED BY <2>2, <2>3, <2>4 DEF OneHome
<1>10. Found'
  <2>1. \A d \in Conns :
          pc'[d] \in Holding => pc[d] \in Holding /\ ref'[d] = ref[d] /\ req'[d] = req[d]
    BY <1>1, <1>4, <1>5, <1>7
  <2> QED BY <1>1, <2>1 DEF Found
<1>11. TimesOK'
  <2>1. \A d \in Conns : req'[d] = req[d] \/ req'[d] = NoReq
    BY <1>4, <1>5
  <2>2. clock \in Nat
    BY DEF TypeOK
  <2>3. \A d \in Conns : req'[d].now <= clock
    BY <2>1, <2>2, Defaults DEF TimesOK
  <2> QED BY <1>1, <1>2, <2>3 DEF TimesOK
<1>12. StageOK'
  <2>1. \A d \in Conns \ {c} : op'[d] = op[d]
    BY DEF LocalsStep
  <2>2. pc'[c] \in Kinds /\ op'[c].stage = "credit" => op'[c].last < req'[c].now
    BY DEF LocalsStep
  <2> QED BY <1>4, <2>1, <2>2 DEF StageOK
<1> QED BY <1>6, <1>8, <1>9, <1>10, <1>11, <1>12

\* The number of holders changes only where a connection opens or closes.
LEMMA SameHolders ==
  ASSUME ActiveMatchesHolders, active' = active,
         \A d \in Conns : /\ pc'[d] = "open" <=> pc[d] = "open"
                          /\ pc[d] = "open" => ref'[d] = ref[d]
  PROVE  ActiveMatchesHolders'
<1>1. ASSUME NEW r \in Refs PROVE Holders(r)' = Holders(r)
  BY DEF Holders
<1> QED BY <1>1 DEF ActiveMatchesHolders

\* The holders of an IpState can be counted.
LEMMA FiniteHolders ==
  ASSUME NEW r PROVE IsFiniteSet(Holders(r)) /\ Cardinality(Holders(r)) \in Nat
<1>1. IsFiniteSet(Conns)
  BY ProtectionConstants
<1>2. Holders(r) \subseteq Conns
  BY DEF Holders
<1> QED BY <1>1, <1>2, FS_Subset, FS_CardinalityType

\* The shape is preserved by the checks and by release: a count moves with
\* the connection that is admitted or closes.
LEMMA ShapeUncounted ==
  ASSUME ShapeInv, NEW c \in Conns, Penalty(c) \/ BucketAction(c) \/ Extend(c)
  PROVE  ShapeInv'
<1>1. CheckStep(c) /\ active' = active /\ pc[c] \in Checking /\ pc'[c] # "open"
  <2>1. CASE Penalty(c)
    BY <2>1, PenaltyStep DEF ShapeInv, Checking
  <2>2. CASE BucketAction(c)
    BY <2>2, BucketStep DEF ShapeInv, Checking, Kinds
  <2>3. CASE Extend(c)
    BY <2>3, ExtendStep DEF ShapeInv, Checking
  <2> QED BY <2>1, <2>2, <2>3
<1>2. active' \in [Refs -> Nat]
  BY <1>1 DEF ShapeInv, TypeOK
<1>3. \A d \in Conns \ {c} : pc'[d] = pc[d] /\ ref'[d] = ref[d]
  BY <1>1, HolderConns DEF ShapeInv, CheckStep
<1>4. pc[c] # "open"
  BY <1>1 DEF Checking, Kinds
<1>5. ActiveMatchesHolders'
  BY <1>1, <1>3, <1>4, SameHolders DEF ShapeInv
<1> QED BY <1>1, <1>2, <1>5, HolderShape DEF ShapeInv

LEMMA ShapeConcurrency ==
  ASSUME ShapeInv, NEW c \in Conns, Concurrency(c)
  PROVE  ShapeInv'
<1>1. CheckStep(c) /\ HolderStep(c) /\ pc[c] = "concurrency"
  BY ConcurrencyStep DEF ShapeInv, Concurrency, CheckStep
<1>3. ref[c] \in Refs /\ active[ref[c]] \in Nat
  BY <1>1, HeldType DEF ShapeInv, Held, HolderStep
<1>4. active' \in [Refs -> Nat]
  BY <1>3 DEF ShapeInv, TypeOK, Concurrency
<1>5. \A d \in Conns \ {c} : pc'[d] = pc[d] /\ ref'[d] = ref[d]
  BY <1>1, HolderConns DEF ShapeInv
<1>6. ActiveMatchesHolders'
  <2>1. CASE SlotFree(ref[c], req[c].cfg.max)
    <3>1. /\ active' = [active EXCEPT ![ref[c]] = @ + 1] /\ ref' = ref
          /\ pc'[c] = "open"
      BY <2>1 DEF Concurrency, ShapeInv, TypeOK
    <3>2. ASSUME NEW r \in Refs PROVE active'[r] = Cardinality(Holders(r)')
      <4>1. CASE r = ref[c]
        <5>1. Holders(r)' = Holders(r) \cup {c} /\ c \notin Holders(r)
          BY <1>1, <1>5, <3>1, <4>1 DEF Holders
        <5>2. Cardinality(Holders(r)') = Cardinality(Holders(r)) + 1
          BY <5>1, FiniteHolders, FS_AddElement
        <5> QED BY <3>1, <4>1, <5>2 DEF ShapeInv, ActiveMatchesHolders, TypeOK
      <4>2. CASE r # ref[c]
        <5>1. Holders(r)' = Holders(r)
          BY <1>1, <1>5, <3>1, <4>2 DEF Holders
        <5> QED BY <3>1, <4>2, <5>1 DEF ShapeInv, ActiveMatchesHolders, TypeOK
      <4> QED BY <4>1, <4>2
    <3> QED BY <3>2 DEF ActiveMatchesHolders
  <2>2. CASE ~ SlotFree(ref[c], req[c].cfg.max)
    <3>1. active' = active /\ pc'[c] = "idle"
      BY <2>2 DEF Concurrency, Refuse, ShapeInv, TypeOK
    <3> QED BY <1>1, <1>5, <3>1, SameHolders DEF ShapeInv
  <2> QED BY <2>1, <2>2
<1> QED BY <1>1, <1>4, <1>6, HolderShape DEF ShapeInv

LEMMA ShapeClose ==
  ASSUME ShapeInv, NEW c \in Conns, Close(c)
  PROVE  ShapeInv'
<1>1. CASE pc[c] = "open"
  <2>1. CheckStep(c) /\ HolderStep(c)
    BY <1>1, CloseStep DEF ShapeInv, CheckStep
  <2>3. ref[c] \in Refs /\ active[ref[c]] \in Nat
    BY <2>1, HeldType DEF ShapeInv, Held, HolderStep
  <2>4. active' = [active EXCEPT ![ref[c]] = IF @ > 0 THEN @ - 1 ELSE 0]
    BY <1>1 DEF Close, Released
  <2>5. active' \in [Refs -> Nat]
    BY <2>3, <2>4 DEF ShapeInv, TypeOK
  <2>6. \A d \in Conns \ {c} : pc'[d] = pc[d] /\ ref'[d] = ref[d]
    BY <2>1, HolderConns DEF ShapeInv
  <2>7. pc'[c] = "idle"
    BY DEF Close, Refuse, ShapeInv, TypeOK
  <2>8. ASSUME NEW r \in Refs PROVE active'[r] = Cardinality(Holders(r)')
    <3>1. CASE r = ref[c]
      <4>1. Holders(r)' = Holders(r) \ {c} /\ c \in Holders(r)
        BY <1>1, <2>6, <2>7, <3>1 DEF Holders
      <4>2. Cardinality(Holders(r)') = Cardinality(Holders(r)) - 1
        BY <4>1, FiniteHolders, FS_RemoveElement
      <4>3. Cardinality(Holders(r)) > 0
        BY <4>1, FiniteHolders, FS_EmptySet
      <4> QED BY <2>3, <2>4, <3>1, <4>2, <4>3 DEF ShapeInv, ActiveMatchesHolders, TypeOK
    <3>2. CASE r # ref[c]
      <4>1. Holders(r)' = Holders(r)
        BY <1>1, <2>6, <2>7, <3>2 DEF Holders
      <4> QED BY <2>4, <3>2, <4>1 DEF ShapeInv, ActiveMatchesHolders, TypeOK
    <3> QED BY <3>1, <3>2
  <2>9. ActiveMatchesHolders'
    BY <2>8 DEF ActiveMatchesHolders
  <2> QED BY <2>1, <2>5, <2>9, HolderShape DEF ShapeInv
<1>2. CASE pc[c] = "bypassed"
  <2>1. /\ UNCHANGED <<config, table, clock, sweep, charged, doubled, raced, reloaded>>
        /\ UNCHANGED <<active, bucket, deadline>> /\ Refuse(c) /\ LocalsStep(c)
    BY <1>2, RefusedLocals DEF Close, ShapeInv
  <2>2. /\ pc' \in [Conns -> Labels] /\ ref' \in [Conns -> Refs \cup {NoRef}]
        /\ req' \in [Conns -> [ip : IPs, cfg : Configs, now : Nat, boxedUntil : Nat]]
        /\ pc'[c] = "idle" /\ ref'[c] = NoRef /\ req'[c] = NoReq
        /\ \A d \in Conns \ {c} : pc'[d] = pc[d] /\ ref'[d] = ref[d] /\ req'[d] = req[d]
    BY <2>1, Refused DEF ShapeInv
  <2>3. TypeOK' /\ reloaded' \in BOOLEAN
    <3>1. op' \in [Conns -> Ops]
      BY <2>1 DEF LocalsStep
    <3> QED BY <2>1, <2>2, <3>1 DEF ShapeInv, TypeOK
  <2>4. "idle" \notin Holding /\ "idle" \notin Kinds
    BY DEF Holding, Checking, Kinds
  <2>5. RefsOK'
    BY <2>2, <2>4 DEF ShapeInv, RefsOK
  <2>6. OneHome'
    BY <2>1, <2>2 DEF ShapeInv, OneHome, TableInjective, HeldForTable, HeldForOne
  <2>7. Found'
    BY <2>1, <2>2, <2>4 DEF ShapeInv, Found
  <2>8. TimesOK'
    <3>1. clock \in Nat
      BY DEF ShapeInv, TypeOK
    <3> QED BY <2>1, <2>2, <3>1, Defaults DEF ShapeInv, TimesOK
  <2>9. ActiveMatchesHolders'
    BY <1>2, <2>1, <2>2, SameHolders DEF ShapeInv
  <2>10. StageOK'
    BY <2>1, <2>2, <2>4 DEF ShapeInv, StageOK, LocalsStep
  <2> QED BY <2>3, <2>5, <2>6, <2>7, <2>8, <2>9, <2>10 DEF ShapeInv
<1> QED BY <1>1, <1>2 DEF Close

\* It is preserved by the lookup of an address and the insertion of an entry.
LEMMA ShapeBegin ==
  ASSUME ShapeInv, NEW c \in Conns, Begin(c)
  PROVE  ShapeInv'
<1>1. PICK l \in {"bypassed", "get"} : pc' = [pc EXCEPT ![c] = l]
  BY DEF Begin
<1>2. pc[c] = "idle"
  BY DEF Begin
<1>3. UNCHANGED <<config, table, bucket, active, deadline, clock, ref, op, sweep,
                  charged, doubled, raced, reloaded>>
  BY DEF Begin
<1>4. clock \in Nat /\ config \in Configs
  BY DEF ShapeInv, TypeOK
<1>5. PICK q \in [ip : IPs, cfg : Configs, now : Nat, boxedUntil : Nat] :
        q.now <= clock /\ req' = [req EXCEPT ![c] = q]
  <2>1. NoReq.now <= clock
    BY <1>4, Defaults
  <2>2. ASSUME NEW p \in Peers
        PROVE  LET q == [ip |-> Canonical[p], cfg |-> config, now |-> clock,
                         boxedUntil |-> BoxedUntil(Canonical[p])]
               IN  /\ q \in [ip : IPs, cfg : Configs, now : Nat, boxedUntil : Nat]
                   /\ q.now <= clock
    <3>1. Canonical[p] \in IPs
      BY ProtectionConstants
    <3>2. BoxedUntil(Canonical[p]) \in Nat
      BY <3>1 DEF BoxedUntil, ShapeInv, TypeOK
    <3> QED BY <1>4, <3>1, <3>2
  <2> QED BY <2>1, <2>2, Defaults DEF Begin
<1>6. /\ pc'[c] = l /\ req'[c] = q
      /\ \A d \in Conns \ {c} : pc'[d] = pc[d] /\ req'[d] = req[d]
  BY <1>1, <1>5 DEF ShapeInv, TypeOK
<1>7. TypeOK' /\ reloaded' \in BOOLEAN
  <2>1. l \in Labels
    BY DEF Labels
  <2> QED BY <1>1, <1>3, <1>5, <2>1 DEF ShapeInv, TypeOK
<1>8. l \notin Holding /\ pc[c] \notin Holding /\ ref[c] = NoRef /\ l \notin Kinds
  BY <1>2 DEF Holding, Checking, Kinds, ShapeInv, RefsOK
<1>9. RefsOK'
  BY <1>3, <1>6, <1>8 DEF ShapeInv, RefsOK
<1>10. OneHome'
  BY <1>3, <1>6, <1>8 DEF ShapeInv, OneHome, TableInjective, HeldForTable, HeldForOne
<1>11. Found'
  BY <1>3, <1>6, <1>8 DEF ShapeInv, Found
<1>12. TimesOK'
  BY <1>3, <1>5, <1>6 DEF ShapeInv, TimesOK
<1>13. ActiveMatchesHolders'
  BY <1>2, <1>3, <1>6, SameHolders DEF ShapeInv
<1>14. StageOK'
  BY <1>3, <1>6, <1>8 DEF ShapeInv, StageOK
<1> QED BY <1>7, <1>9, <1>10, <1>11, <1>12, <1>13, <1>14 DEF ShapeInv

LEMMA ShapeGet ==
  ASSUME ShapeInv, NEW c \in Conns, Get(c)
  PROVE  ShapeInv'
<1> DEFINE ip == req[c].ip
<1>1. /\ pc[c] = "get" /\ ip \in IPs /\ table[ip] \in Refs \cup {NoRef}
      /\ UNCHANGED <<config, table, bucket, active, deadline, clock, req, op, sweep,
                     charged, doubled, raced, reloaded>>
  BY DEF Get, ShapeInv, TypeOK
<1>2. /\ ref' = [ref EXCEPT ![c] = table[ip]]
      /\ pc' = [pc EXCEPT ![c] = IF table[ip] = NoRef THEN "insert" ELSE "penalty"]
  BY DEF Get
<1>3. /\ ref'[c] = table[ip]
      /\ pc'[c] = IF table[ip] = NoRef THEN "insert" ELSE "penalty"
      /\ \A d \in Conns \ {c} : pc'[d] = pc[d] /\ ref'[d] = ref[d]
  BY <1>2 DEF ShapeInv, TypeOK
<1>4. TypeOK' /\ reloaded' \in BOOLEAN
  <2>1. "insert" \in Labels /\ "penalty" \in Labels
    BY DEF Labels, Checking
  <2> QED BY <1>1, <1>2, <2>1 DEF ShapeInv, TypeOK
<1>5. /\ "insert" \notin Holding /\ "penalty" \in Holding /\ pc[c] \notin Holding
      /\ "insert" \notin Kinds /\ "penalty" \notin Kinds
  BY <1>1 DEF Holding, Checking, Kinds
<1>6. RefsOK'
  BY <1>3, <1>5 DEF ShapeInv, RefsOK
<1>7. OneHome'
  <2>1. TableInjective'
    BY <1>1 DEF ShapeInv, OneHome, TableInjective
  <2>2. HeldForTable'
    BY <1>1, <1>3 DEF ShapeInv, OneHome, HeldForTable, TableInjective
  <2>3. HeldForOne'
    BY <1>1, <1>3 DEF ShapeInv, OneHome, HeldForOne, HeldForTable
  <2> QED BY <2>1, <2>2, <2>3 DEF OneHome
<1>8. Found'
  BY <1>1, <1>3 DEF ShapeInv, Found
<1>9. TimesOK'
  BY <1>1 DEF ShapeInv, TimesOK
<1>10. ActiveMatchesHolders'
  BY <1>1, <1>3, SameHolders DEF ShapeInv
<1>11. StageOK'
  BY <1>1, <1>3, <1>5 DEF ShapeInv, StageOK
<1> QED BY <1>4, <1>6, <1>7, <1>8, <1>9, <1>10, <1>11 DEF ShapeInv

\* An insert uses the state that is there, or a fresh one that nothing holds.
LEMMA InsertStep ==
  ASSUME TypeOK, NEW c \in Conns, Insert(c)
  PROVE  /\ pc[c] = "insert" /\ pc' = [pc EXCEPT ![c] = "penalty"]
         /\ UNCHANGED <<config, active, deadline, clock, req, op, sweep, charged, doubled, raced,
                        reloaded>>
         /\ req[c].ip \in IPs
         /\ \/ /\ table[req[c].ip] # NoRef
               /\ ref' = [ref EXCEPT ![c] = table[req[c].ip]]
               /\ UNCHANGED <<table, bucket>>
            \/ /\ table[req[c].ip] = NoRef
               /\ \E r \in FreeRefs :
                    /\ table' = [table EXCEPT ![req[c].ip] = r]
                    /\ ref' = [ref EXCEPT ![c] = r]
                    /\ bucket' = [bucket EXCEPT ![r] = FreshBuckets(req[c].cfg)]
<1>1. req[c].ip \in IPs
  BY DEF TypeOK
<1>2. CASE table[req[c].ip] # NoRef
  BY <1>1, <1>2 DEF Insert
<1>3. CASE table[req[c].ip] = NoRef
  <2>1. FreeRefs # {}
    BY <1>3 DEF Insert
  <2>2. (CHOOSE x \in FreeRefs : TRUE) \in FreeRefs
    BY <2>1
  <2> QED BY <1>1, <1>3, <2>2 DEF Insert
<1> QED BY <1>2, <1>3

\* The buckets of a new entry are full, as of now.
LEMMA FreshType ==
  ASSUME TypeOK, NEW cfg \in Configs
  PROVE  /\ FreshBuckets(cfg) \in Buckets
         /\ \A k \in Kinds : /\ FreshBuckets(cfg)[k].tokens = cfg.limit[k].burst
                            /\ FreshBuckets(cfg)[k].last = clock
<1>1. clock \in Nat /\ \A k \in Kinds : cfg.limit[k].burst \in Nat
  BY ConfigFields DEF TypeOK
<1> QED BY <1>1 DEF FreshBuckets, Buckets

LEMMA ShapeInsert ==
  ASSUME ShapeInv, NEW c \in Conns, Insert(c)
  PROVE  ShapeInv'
<1> DEFINE ip == req[c].ip
<1>1. /\ pc[c] = "insert" /\ pc' = [pc EXCEPT ![c] = "penalty"] /\ ip \in IPs
      /\ UNCHANGED <<config, active, deadline, clock, req, op, sweep, charged, doubled, raced,
                        reloaded>>
  BY InsertStep DEF ShapeInv
<1>2. /\ pc'[c] = "penalty" /\ pc' \in [Conns -> Labels]
      /\ \A d \in Conns \ {c} : pc'[d] = pc[d]
  BY <1>1 DEF ShapeInv, TypeOK, Labels, Checking
<1>3. "penalty" \in Holding /\ pc[c] \notin Holding /\ ref[c] = NoRef /\ "penalty" \notin Kinds
  BY <1>1 DEF Holding, Checking, Kinds, ShapeInv, RefsOK
<1>4. NoRef \notin Refs
  BY ProtectionConstants
<1>5. req[c].cfg \in Configs /\ clock \in Nat
  BY DEF ShapeInv, TypeOK
<1>stage. StageOK'
  BY <1>1, <1>2, <1>3 DEF ShapeInv, StageOK
<1>6. CASE /\ table[ip] # NoRef /\ ref' = [ref EXCEPT ![c] = table[ip]]
           /\ UNCHANGED <<table, bucket>>
  <2>1. ref'[c] = table[ip] /\ \A d \in Conns \ {c} : ref'[d] = ref[d]
    BY <1>6 DEF ShapeInv, TypeOK
  <2>2. TypeOK' /\ reloaded' \in BOOLEAN
    BY <1>1, <1>2, <1>6 DEF ShapeInv, TypeOK
  <2>3. RefsOK'
    BY <1>2, <1>3, <1>6, <2>1 DEF ShapeInv, RefsOK
  <2>4. TableInjective'
    BY <1>6 DEF ShapeInv, OneHome, TableInjective
  <2>5. HeldForTable'
    BY <1>1, <1>6, <2>1 DEF ShapeInv, OneHome, HeldForTable, TableInjective
  <2>6. HeldForOne'
    BY <1>1, <1>6, <2>1 DEF ShapeInv, OneHome, HeldForOne, HeldForTable
  <2>7. Found'
    BY <1>1, <1>2, <1>6, <2>1 DEF ShapeInv, Found
  <2>8. TimesOK'
    BY <1>1, <1>6 DEF ShapeInv, TimesOK
  <2>9. ActiveMatchesHolders'
    BY <1>1, <1>2, <2>1, SameHolders DEF ShapeInv
  <2> QED BY <1>stage, <2>2, <2>3, <2>4, <2>5, <2>6, <2>7, <2>8, <2>9 DEF ShapeInv, OneHome
<1>7. ASSUME NEW r \in FreeRefs, table[ip] = NoRef,
             table' = [table EXCEPT ![ip] = r], ref' = [ref EXCEPT ![c] = r],
             bucket' = [bucket EXCEPT ![r] = FreshBuckets(req[c].cfg)]
      PROVE  ShapeInv'
  <2>1. /\ r \in Refs /\ r # NoRef
        /\ \A i \in IPs : table[i] # r
        /\ \A d \in Conns : ref[d] # r
    BY <1>4 DEF FreeRefs, InUse
  <2>2. ref'[c] = r /\ \A d \in Conns \ {c} : ref'[d] = ref[d]
    BY <1>7 DEF ShapeInv, TypeOK
  <2>3. table'[ip] = r /\ \A i \in IPs \ {ip} : table'[i] = table[i]
    BY <1>1, <1>7 DEF ShapeInv, TypeOK
  <2>4. FreshBuckets(req[c].cfg) \in Buckets
    BY <1>5, FreshType DEF ShapeInv
  <2>5. \A k \in Kinds : FreshBuckets(req[c].cfg)[k].last = clock
    BY <1>5, FreshType DEF ShapeInv
  <2> DEFINE fb == FreshBuckets(req[c].cfg)
  <2> HIDE DEF fb
  <2>6. bucket' = [bucket EXCEPT ![r] = fb] /\ fb \in Buckets
        /\ \A k \in Kinds : fb[k].last = clock
    BY <1>7, <2>4, <2>5 DEF fb
  <2>7. TypeOK' /\ reloaded' \in BOOLEAN
    BY <1>1, <1>2, <1>7, <2>1, <2>6 DEF ShapeInv, TypeOK
  <2>8. RefsOK'
    BY <1>2, <1>3, <2>1, <2>2 DEF ShapeInv, RefsOK
  <2>9. TableInjective'
    BY <1>1, <2>1, <2>3 DEF ShapeInv, OneHome, TableInjective
  <2>10. HeldForTable'
    BY <1>1, <2>1, <2>2, <2>3 DEF ShapeInv, OneHome, HeldForTable
  <2>11. HeldForOne'
    BY <1>1, <2>1, <2>2 DEF ShapeInv, OneHome, HeldForOne
  <2>12. Found'
    <3> SUFFICES ASSUME NEW d \in Conns, pc'[d] \in Holding, ~ raced[req[d].ip]
                 PROVE  table'[req[d].ip] = ref'[d]
      BY <1>1 DEF Found
    <3>1. CASE d = c
      BY <2>2, <2>3, <3>1
    <3>2. CASE d # c
      <4>1. table[req[d].ip] = ref[d] /\ ref[d] # NoRef /\ req[d].ip \in IPs
        BY <1>2, <3>2 DEF ShapeInv, Found, RefsOK, TypeOK
      <4>2. req[d].ip # ip
        BY <1>7, <4>1
      <4> QED BY <2>2, <2>3, <3>2, <4>1, <4>2
    <3> QED BY <3>1, <3>2
  <2>13. TimesOK'
    <3>1. bucket'[r] = fb /\ \A x \in Refs \ {r} : bucket'[x] = bucket[x]
      BY <2>1, <2>6 DEF ShapeInv, TypeOK
    <3>2. \A x \in Refs, k \in Kinds : bucket'[x][k].last <= clock
      BY <1>5, <2>6, <3>1 DEF ShapeInv, TimesOK
    <3> QED BY <1>1, <3>2 DEF ShapeInv, TimesOK
  <2>14. ActiveMatchesHolders'
    BY <1>1, <1>2, <2>2, SameHolders DEF ShapeInv
  <2> QED BY <1>stage, <2>7, <2>8, <2>9, <2>10, <2>11, <2>12, <2>13, <2>14 DEF ShapeInv, OneHome
<1> QED BY <1>6, <1>7, InsertStep DEF ShapeInv

\* An entry that only open connections hold is kept, so an eviction leaves no
\* holder behind, unless a check had looked the entry up.
LEMMA EvictedUnheld ==
  ASSUME ShapeInv, NEW ip \in IPs, table[ip] # NoRef,
         ~ Kept(table[ip], sweep.now, sweep.cfg),
         ~ \E c \in Conns : pc[c] \in Checking /\ ref[c] = table[ip]
  PROVE  \A c \in Conns : ref[c] # table[ip]
<1> DEFINE r == table[ip]
<1>1. r \in Refs
  BY DEF ShapeInv, TypeOK
<1>2. ~ (active[r] > 0) /\ active[r] \in Nat
  BY <1>1 DEF Kept, ShapeInv, TypeOK
<1>3. Cardinality(Holders(r)) = 0
  BY <1>1, <1>2 DEF ShapeInv, ActiveMatchesHolders
<1>4. Holders(r) = {}
  BY <1>3, FiniteHolders, FS_EmptySet
<1>5. SUFFICES ASSUME NEW c \in Conns, ref[c] = r PROVE FALSE
  OBVIOUS
<1>6. pc[c] \in Holding
  BY <1>5 DEF ShapeInv, RefsOK
<1>7. pc[c] = "open"
  BY <1>5, <1>6 DEF Holding
<1> QED BY <1>4, <1>5, <1>7 DEF Holders

\* What a visit of an entry does: nothing to the entry, or its eviction.
EvictsEntry(ip) ==
  LET r == table[ip]
      held == \E c \in Conns : pc[c] \in Checking /\ ref[c] = r
  IN  /\ r # NoRef /\ ~ Kept(r, sweep.now, sweep.cfg)
      /\ table' = [table EXCEPT ![ip] = NoRef]
      /\ raced' \in [IPs -> BOOLEAN] /\ charged' \in [IPs -> [Kinds -> Nat]]
      /\ held => raced'[ip]
      /\ ~ held => charged' = charged
      /\ \A i \in IPs : raced[i] => raced'[i]
      /\ \A i \in IPs \ {ip} : charged'[i] = charged[i]
      /\ \/ UNCHANGED <<bucket, deadline>>
         \/ /\ bucket' = [bucket EXCEPT ![r] = NoBuckets]
            /\ deadline' = [deadline EXCEPT ![r] = 0]
            /\ ~ InUse(r, table', ref')

\* A sweep changes at most the entry it looks at.
LEMMA EvictEntryStep ==
  ASSUME TypeOK, TimesOK, NEW ip \in IPs, EvictEntry(ip)
  PROVE  /\ ip \in sweep.todo
         /\ UNCHANGED <<config, active, clock, pc, req, ref, op, doubled, reloaded>>
         /\ sweep' \in [cfg : Configs, now : Nat, todo : SUBSET IPs]
         /\ sweep'.now <= clock
         /\ sweep'.todo # {} => sweep'.cfg = sweep.cfg
         /\ EvictsEntry(ip) \/ UNCHANGED <<table, raced, charged, bucket, deadline>>
<1>1. /\ ip \in sweep.todo
      /\ UNCHANGED <<config, active, clock, pc, req, ref, op, doubled, reloaded>>
  BY DEF EvictEntry
<1>2. sweep \in [cfg : Configs, now : Nat, todo : SUBSET IPs] /\ clock \in Nat
      /\ sweep.now <= clock
  BY DEF TypeOK, TimesOK
<1>3. /\ sweep' \in [cfg : Configs, now : Nat, todo : SUBSET IPs]
      /\ sweep'.now <= clock
      /\ sweep'.todo # {} => sweep'.cfg = sweep.cfg
  <2> DEFINE left == sweep.todo \ {ip}
  <2>1. sweep' = IF left = {} THEN NoSweep ELSE [sweep EXCEPT !.todo = left]
    BY DEF EvictEntry
  <2>2. left \in SUBSET IPs
    BY <1>2
  <2> HIDE DEF left
  <2>3. CASE left = {}
    BY <1>2, <2>1, <2>3, Defaults
  <2>4. CASE left # {}
    BY <1>2, <2>1, <2>2, <2>4
  <2> QED BY <2>3, <2>4
<1>4. EvictsEntry(ip) \/ UNCHANGED <<table, raced, charged, bucket, deadline>>
  <2> DEFINE held == \E c \in Conns : pc[c] \in Checking /\ ref[c] = table[ip]
  <2>3. /\ raced \in [IPs -> BOOLEAN] /\ charged \in [IPs -> [Kinds -> Nat]]
        /\ NoCharges \in [Kinds -> Nat]
    BY DEF TypeOK, NoCharges
  <2>1. CASE table[ip] # NoRef /\ ~ Kept(table[ip], sweep.now, sweep.cfg)
    <3>4. /\ table' = [table EXCEPT ![ip] = NoRef]
          /\ raced' = [raced EXCEPT ![ip] = @ \/ held]
          /\ charged' = [charged EXCEPT ![ip] = IF held THEN NoCharges ELSE @]
      BY <2>1 DEF EvictEntry
    <3> HIDE DEF held
    <3>5. /\ raced' \in [IPs -> BOOLEAN] /\ (held => raced'[ip])
          /\ \A i \in IPs : raced[i] => raced'[i]
      BY <2>3, <3>4, Zenon
    <3>6. /\ charged' \in [IPs -> [Kinds -> Nat]] /\ (~ held => charged' = charged)
          /\ \A i \in IPs \ {ip} : charged'[i] = charged[i]
      BY <2>3, <3>4
    <3> USE DEF held
    <3>1. /\ table' = [table EXCEPT ![ip] = NoRef]
          /\ raced' \in [IPs -> BOOLEAN] /\ charged' \in [IPs -> [Kinds -> Nat]]
          /\ held => raced'[ip]
          /\ ~ held => charged' = charged
          /\ \A i \in IPs : raced[i] => raced'[i]
          /\ \A i \in IPs \ {ip} : charged'[i] = charged[i]
      BY <3>4, <3>5, <3>6
    <3>2. CASE Freed(table[ip], [table EXCEPT ![ip] = NoRef], ref)
      <4>1. /\ bucket' = [bucket EXCEPT ![table[ip]] = NoBuckets]
            /\ deadline' = [deadline EXCEPT ![table[ip]] = 0]
        BY <2>1, <3>2 DEF EvictEntry
      <4>2. ~ InUse(table[ip], [table EXCEPT ![ip] = NoRef], ref)
        BY <3>2 DEF Freed
      <4> QED BY <1>1, <2>1, <3>1, <4>1, <4>2 DEF EvictsEntry
    <3>3. CASE ~ Freed(table[ip], [table EXCEPT ![ip] = NoRef], ref)
      <4>1. UNCHANGED <<bucket, deadline>>
        BY <2>1, <3>3 DEF EvictEntry
      <4> QED BY <2>1, <3>1, <4>1 DEF EvictsEntry
    <3> QED BY <3>2, <3>3
  <2>2. CASE ~ (table[ip] # NoRef /\ ~ Kept(table[ip], sweep.now, sweep.cfg))
    <3>1. /\ UNCHANGED <<table, bucket, deadline>>
          /\ raced' = [raced EXCEPT ![ip] = @ \/ FALSE]
          /\ charged' = [charged EXCEPT ![ip] = @]
      BY <2>2 DEF EvictEntry
    <3>2. raced' = raced
      BY <2>3, <3>1, Zenon
    <3>3. charged' = charged
      BY <2>3, <3>1
    <3> QED BY <3>1, <3>2, <3>3
  <2> QED BY <2>1, <2>2
<1> QED BY <1>1, <1>3, <1>4

\* The shape is preserved by the eviction of an entry that nobody holds.
LEMMA ShapeEvictEntry ==
  ASSUME ShapeInv, NEW ip \in IPs, EvictEntry(ip)
  PROVE  ShapeInv'
<1>1. /\ UNCHANGED <<config, active, clock, pc, req, ref, op, doubled, reloaded>>
      /\ sweep' \in [cfg : Configs, now : Nat, todo : SUBSET IPs]
      /\ sweep'.now <= clock
      /\ EvictsEntry(ip) \/ UNCHANGED <<table, raced, charged, bucket, deadline>>
  BY EvictEntryStep DEF ShapeInv
<1>2. ActiveMatchesHolders' /\ RefsOK' /\ StageOK' /\ reloaded' \in BOOLEAN
  BY <1>1, SameHolders DEF ShapeInv, RefsOK, StageOK
<1>3. CASE UNCHANGED <<table, raced, charged, bucket, deadline>>
  <2>1. TypeOK'
    BY <1>1, <1>3 DEF ShapeInv, TypeOK
  <2>2. OneHome' /\ Found'
    BY <1>1, <1>3 DEF ShapeInv, OneHome, TableInjective, HeldForTable, HeldForOne, Found
  <2>3. TimesOK'
    BY <1>1, <1>3 DEF ShapeInv, TimesOK
  <2> QED BY <1>2, <2>1, <2>2, <2>3 DEF ShapeInv
<1>4. CASE EvictsEntry(ip)
  <2> DEFINE r == table[ip]
             busy == \E c \in Conns : pc[c] \in Checking /\ ref[c] = r
  <2>1. r \in Refs /\ r # NoRef /\ ~ Kept(r, sweep.now, sweep.cfg)
    BY <1>4 DEF EvictsEntry, ShapeInv, TypeOK
  <2>2. /\ table' \in [IPs -> Refs \cup {NoRef}]
        /\ table'[ip] = NoRef /\ \A i \in IPs \ {ip} : table'[i] = table[i]
    BY <1>4 DEF EvictsEntry, ShapeInv, TypeOK
  <2>3. /\ raced' \in [IPs -> BOOLEAN] /\ charged' \in [IPs -> [Kinds -> Nat]]
        /\ busy => raced'[ip]
        /\ \A i \in IPs : ~ raced'[i] => ~ raced[i]
    BY <1>4 DEF EvictsEntry
  <2>4. /\ bucket' \in [Refs -> Buckets] /\ deadline' \in [Refs -> Nat]
        /\ \A x \in Refs : bucket'[x] = bucket[x] \/ bucket'[x] = NoBuckets
    <3>1. CASE UNCHANGED <<bucket, deadline>>
      BY <3>1 DEF ShapeInv, TypeOK
    <3>2. CASE /\ bucket' = [bucket EXCEPT ![r] = NoBuckets]
               /\ deadline' = [deadline EXCEPT ![r] = 0]
      BY <2>1, <3>2, NoBucketsType DEF ShapeInv, TypeOK
    <3> QED BY <1>4, <3>1, <3>2 DEF EvictsEntry
  <2>5. TypeOK'
    BY <1>1, <2>2, <2>3, <2>4 DEF ShapeInv, TypeOK
  <2>6. OneHome'
    BY <1>1, <2>2 DEF ShapeInv, OneHome, TableInjective, HeldForTable, HeldForOne
  <2>7. Found'
    <3> SUFFICES ASSUME NEW c \in Conns, pc[c] \in Holding, ~ raced'[req[c].ip]
                 PROVE  table'[req[c].ip] = ref[c]
      BY <1>1 DEF Found
    <3>1. req[c].ip \in IPs
      BY DEF ShapeInv, TypeOK
    <3>2. table[req[c].ip] = ref[c]
      BY <2>3, <3>1 DEF ShapeInv, Found
    <3>3. req[c].ip # ip
      <4> SUFFICES ASSUME req[c].ip = ip PROVE FALSE
        OBVIOUS
      <4>1. ~ busy
        BY <2>3
      <4>2. \A d \in Conns : ref[d] # r
        BY <2>1, <4>1, EvictedUnheld
      <4> QED BY <3>2, <4>2
    <3> QED BY <2>2, <3>1, <3>2, <3>3
  <2>8. TimesOK'
    <3>1. clock \in Nat
      BY DEF ShapeInv, TypeOK
    <3>2. \A x \in Refs, k \in Kinds : bucket'[x][k].last <= clock
      BY <2>4, <3>1, NoBucketsType DEF ShapeInv, TimesOK
    <3> QED BY <1>1, <3>2 DEF ShapeInv, TimesOK
  <2> QED BY <1>2, <2>5, <2>6, <2>7, <2>8 DEF ShapeInv
<1> QED BY <1>1, <1>3, <1>4

\* It is preserved by the start of a sweep, a reload and the clock.
LEMMA ShapeOthers ==
  ASSUME ShapeInv, EvictBegin \/ UpdateConfig \/ Tick
  PROVE  ShapeInv'
<1>1. CASE EvictBegin
  <2>1. /\ sweep' = [cfg |-> config, now |-> clock, todo |-> IPs]
        /\ UNCHANGED <<config, table, bucket, active, deadline, clock, pc, req, ref, op,
                       charged, doubled, raced, reloaded>>
    BY <1>1 DEF EvictBegin
  <2>2. clock \in Nat /\ config \in Configs
    BY DEF ShapeInv, TypeOK
  <2>3. /\ sweep' \in [cfg : Configs, now : Nat, todo : SUBSET IPs]
        /\ sweep'.now = clock
    BY <2>1, <2>2
  <2>4. TypeOK'
    BY <2>1, <2>3 DEF ShapeInv, TypeOK
  <2>5. RefsOK' /\ OneHome' /\ Found' /\ StageOK'
    BY <2>1 DEF ShapeInv, RefsOK, OneHome, TableInjective, HeldForTable, HeldForOne, Found,
               StageOK
  <2>6. TimesOK'
    BY <2>1, <2>2, <2>3 DEF ShapeInv, TimesOK
  <2>7. ActiveMatchesHolders'
    BY <2>1, SameHolders DEF ShapeInv
  <2> QED BY <2>1, <2>4, <2>5, <2>6, <2>7 DEF ShapeInv
<1>2. CASE UpdateConfig
  <2>1. /\ config' \in Configs /\ reloaded' = TRUE
        /\ UNCHANGED <<table, bucket, active, deadline, clock, pc, req, ref, op, sweep,
                       charged, doubled, raced>>
    BY <1>2, ProtectionConstants DEF UpdateConfig, ShapeInv, TypeOK
  <2>2. TypeOK'
    BY <2>1 DEF ShapeInv, TypeOK
  <2>3. RefsOK' /\ OneHome' /\ Found' /\ StageOK'
    BY <2>1 DEF ShapeInv, RefsOK, OneHome, TableInjective, HeldForTable, HeldForOne, Found,
               StageOK
  <2>4. TimesOK'
    BY <2>1 DEF ShapeInv, TimesOK
  <2>5. ActiveMatchesHolders'
    BY <2>1, SameHolders DEF ShapeInv
  <2> QED BY <2>1, <2>2, <2>3, <2>4, <2>5 DEF ShapeInv
<1>3. CASE Tick
  <2>1. /\ clock \in Nat /\ clock' = clock + 1
        /\ UNCHANGED <<config, table, bucket, active, deadline, pc, req, ref, op, sweep,
                       charged, doubled, raced, reloaded>>
    BY <1>3 DEF Tick, ShapeInv, TypeOK
  <2>2. TypeOK'
    BY <2>1 DEF ShapeInv, TypeOK
  <2>3. RefsOK' /\ OneHome' /\ Found' /\ StageOK'
    BY <2>1 DEF ShapeInv, RefsOK, OneHome, TableInjective, HeldForTable, HeldForOne, Found,
               StageOK
  <2>4. TimesOK'
    <3>1. /\ \A c \in Conns : req[c].now \in Nat
          /\ sweep.now \in Nat
          /\ \A r \in Refs, k \in Kinds : bucket[r][k].last \in Nat
      BY DEF ShapeInv, TypeOK, Buckets
    <3>2. \A x \in Nat : x <= clock => x <= clock'
      BY <2>1
    <3> QED BY <2>1, <3>1, <3>2 DEF ShapeInv, TimesOK
  <2>5. ActiveMatchesHolders'
    BY <2>1, SameHolders DEF ShapeInv
  <2> QED BY <2>1, <2>2, <2>3, <2>4, <2>5 DEF ShapeInv
<1> QED BY <1>1, <1>2, <1>3

LEMMA ShapeStutter ==
  ASSUME ShapeInv, UNCHANGED vars
  PROVE  ShapeInv'
<1>1. TypeOK' /\ reloaded' \in BOOLEAN
  BY DEF ShapeInv, TypeOK, vars
<1>2. RefsOK' /\ OneHome' /\ Found' /\ StageOK'
  BY DEF ShapeInv, RefsOK, OneHome, TableInjective, HeldForTable, HeldForOne, Found, StageOK,
         vars
<1>3. TimesOK'
  BY DEF ShapeInv, TimesOK, vars
<1>4. ActiveMatchesHolders'
  BY SameHolders DEF ShapeInv, vars
<1> QED BY <1>1, <1>2, <1>3, <1>4 DEF ShapeInv

\* The shape holds initially and always.
LEMMA ShapeInit == Init => ShapeInv
<1> SUFFICES ASSUME Init PROVE ShapeInv
  OBVIOUS
<1>1. NoRef \notin Refs /\ InitConfigs \subseteq Configs
  BY ProtectionConstants
<1>2. "idle" \in Labels /\ "idle" \notin Holding /\ "idle" \notin Kinds
  BY DEF Labels, Holding, Checking, Kinds
<1>3. TypeOK /\ reloaded \in BOOLEAN
  <2>1. Fresh(FALSE) \in Ops /\ NoCharges \in [Kinds -> Nat]
    BY FreshLocals DEF NoCharges
  <2> QED BY <1>1, <1>2, <2>1, Defaults, NoBucketsType DEF Init, TypeOK
<1>4. RefsOK /\ OneHome /\ Found /\ StageOK
  BY <1>2 DEF Init, RefsOK, OneHome, TableInjective, HeldForTable, HeldForOne, Found, StageOK
<1>5. TimesOK
  BY Defaults, NoBucketsType DEF Init, TimesOK
<1>6. ActiveMatchesHolders
  <2>1. \A r \in Refs : Holders(r) = {}
    BY DEF Init, Holders
  <2>2. Cardinality({}) = 0
    BY FS_EmptySet
  <2> QED BY <2>1, <2>2 DEF Init, ActiveMatchesHolders
<1> QED BY <1>3, <1>4, <1>5, <1>6 DEF ShapeInv

\* The shape is inductive by itself.
LEMMA ShapeNext == ShapeInv /\ [Next]_vars => ShapeInv'
<1> SUFFICES ASSUME ShapeInv, [Next]_vars PROVE ShapeInv'
  OBVIOUS
<1>1. ASSUME NEW c \in Conns,
             Begin(c) \/ Get(c) \/ Insert(c) \/ HolderAction(c)
      PROVE  ShapeInv'
  BY <1>1, ShapeBegin, ShapeGet, ShapeInsert, ShapeUncounted, ShapeConcurrency, ShapeClose
     DEF HolderAction
<1>2. ASSUME NEW ip \in IPs, EvictEntry(ip) PROVE ShapeInv'
  BY <1>2, ShapeEvictEntry
<1> QED BY <1>1, <1>2, ShapeOthers, ShapeStutter DEF Next, HolderAction, BucketAction

LEMMA ShapeAlways == Spec => []ShapeInv
BY ShapeInit, ShapeNext, PTL DEF Spec

----------------------------------------------------------------------------
(* Counts and penalties                                                    *)

\* Every IpState is well formed, counts exactly the connections admitted
\* through it, and stays where the next check of its address looks: for any
\* number of connections, addresses, limits, evictions and reloads
\* (protection.rs release, evict_at).
THEOREM CountsExactAlways == Spec => []CountsExact
<1>1. ShapeInv => CountsExact
  <2> SUFFICES ASSUME ShapeInv PROVE CountsExact
    OBVIOUS
  <2>1. HolderKeepsEntry
    BY DEF ShapeInv, Found, HolderKeepsEntry, Holding
  <2> QED BY <2>1 DEF ShapeInv, CountsExact
<1> QED BY <1>1, ShapeAlways, PTL

\* Every step of who holds a reference has that form.
LEMMA HolderIsCheck ==
  ASSUME ShapeInv, NEW c \in Conns, HolderAction(c), ~ (Close(c) /\ pc[c] # "open")
  PROVE  CheckStep(c)
BY PenaltyStep, BucketStep, ExtendStep, ConcurrencyStep, CloseStep DEF HolderAction, ShapeInv

\* A step of a holder does not shorten the penalty of a state that stays.
LEMMA HolderKeepsPenalty ==
  ASSUME ShapeInv, NEW c \in Conns, CheckStep(c),
         NEW r \in Refs, InUse(r, table', ref')
  PROVE  deadline'[r] >= deadline[r]
<1> USE DEF CheckStep
<1>1. pc[c] \in Holding /\ table' = table
  BY DEF HolderStep
<1>2. ref[c] \in Refs /\ \A x \in Refs : deadline[x] \in Nat
  BY <1>1, HeldType DEF ShapeInv, Held, TypeOK
<1>3. PICK b, d : /\ Plausible(c, b, d)
                  /\ \/ Leaves(c, b, d)
                     \/ /\ Refuse(c)
                        /\ Leaves(c, NoBuckets, 0)
                        /\ ~ InUse(ref[c], table, [ref EXCEPT ![c] = NoRef])
  BY DEF LeavesPlausible
<1>4. CASE r # ref[c]
  <2>1. deadline'[r] = deadline[r]
    BY <1>1, <1>4, HolderHeap DEF ShapeInv
  <2> QED BY <1>2, <2>1
<1>5. CASE r = ref[c]
  <2>1. CASE Leaves(c, b, d)
    BY <1>2, <1>3, <1>5, <2>1 DEF Leaves, Plausible, ShapeInv, TypeOK
  <2>2. CASE Refuse(c) /\ ~ InUse(ref[c], table, [ref EXCEPT ![c] = NoRef])
    BY <1>1, <1>5, <2>2 DEF Refuse
  <2> QED BY <1>3, <2>1, <2>2
<1> QED BY <1>4, <1>5

\* No step shortens the penalty of a state that something refers to after it.
LEMMA PenaltyGrows ==
  ASSUME ShapeInv, [Next]_vars, NEW r \in Refs, InUse(r, table', ref')
  PROVE  deadline'[r] >= deadline[r]
<1>1. \A x \in Refs : deadline[x] \in Nat
  BY DEF ShapeInv, TypeOK
<1>2. CASE deadline' = deadline
  BY <1>1, <1>2
<1>3. ASSUME NEW c \in Conns, HolderAction(c)
      PROVE  deadline'[r] >= deadline[r]
  <2>1. CASE Close(c) /\ pc[c] # "open"
    BY <1>2, <2>1 DEF Close
  <2>2. CASE ~ (Close(c) /\ pc[c] # "open")
    <3>1. CheckStep(c)
      BY <1>3, <2>2, HolderIsCheck
    <3> QED BY <3>1, HolderKeepsPenalty
  <2> QED BY <2>1, <2>2
<1>4. ASSUME NEW c \in Conns, Begin(c) \/ Get(c) \/ Insert(c) PROVE deadline' = deadline
  BY <1>4 DEF Begin, Get, Insert
<1>5. ASSUME NEW ip \in IPs, EvictEntry(ip) PROVE deadline'[r] >= deadline[r]
  <2>1. EvictsEntry(ip) \/ UNCHANGED <<table, raced, charged, bucket, deadline>>
    BY <1>5, EvictEntryStep DEF ShapeInv
  <2>2. CASE EvictsEntry(ip)
    <3>1. \/ deadline' = deadline
          \/ deadline' = [deadline EXCEPT ![table[ip]] = 0]
             /\ ~ InUse(table[ip], table', ref')
      BY <2>2 DEF EvictsEntry
    <3>2. deadline \in [Refs -> Nat]
      BY DEF ShapeInv, TypeOK
    <3>3. CASE r # table[ip]
      <4>1. deadline'[r] = deadline[r]
        BY <3>1, <3>2, <3>3
      <4> QED BY <1>1, <4>1
    <3>4. CASE r = table[ip]
      BY <1>2, <3>1, <3>4
    <3> QED BY <3>3, <3>4
  <2> QED BY <1>2, <2>1, <2>2
<1>6. CASE EvictBegin \/ UpdateConfig \/ Tick \/ UNCHANGED vars
  BY <1>2, <1>6 DEF EvictBegin, UpdateConfig, Tick, vars
<1> QED BY <1>2, <1>3, <1>4, <1>5, <1>6 DEF Next, HolderAction, BucketAction

\* A penalty only grows while anything refers to the state, whatever clocks the
\* checks that extend it have read (protection.rs fetch_max).
THEOREM PenaltyNeverShortenedAlways == Spec => PenaltyNeverShortened
<1>1. ASSUME ShapeInv, [Next]_vars
      PROVE  [\A r \in Refs : InUse(r, table, ref) /\ InUse(r, table', ref')
                                => deadline'[r] >= deadline[r]]_vars
  BY <1>1, PenaltyGrows
<1> QED BY <1>1, ShapeAlways, PTL DEF Spec, PenaltyNeverShortened

----------------------------------------------------------------------------
(* One snapshot, the cap and the penalty box                               *)

\* Which steps are a holder's.
LEMMA StepKinds ==
  ASSUME ShapeInv, [Next]_vars
  PROVE  \/ \E c \in Conns : Begin(c) \/ Get(c) \/ Insert(c)
         \/ \E c \in Conns : CheckStep(c) /\ HolderAction(c)
         \/ \E c \in Conns : Close(c) /\ pc[c] = "bypassed"
         \/ EvictBegin
         \/ \E ip \in IPs : EvictEntry(ip)
         \/ UpdateConfig \/ Tick \/ UNCHANGED vars
<1>1. ASSUME NEW c \in Conns, HolderAction(c)
      PROVE  CheckStep(c) \/ (Close(c) /\ pc[c] = "bypassed")
  <2>1. CASE Close(c) /\ pc[c] # "open"
    BY <2>1 DEF Close
  <2>2. CASE ~ (Close(c) /\ pc[c] # "open")
    BY <1>1, <2>2, HolderIsCheck
  <2> QED BY <2>1, <2>2
<1> QED BY <1>1 DEF Next, HolderAction, BucketAction

\* What a step without a reload leaves of the snapshot and the race marks.
LEMMA NotReloaded ==
  ASSUME ShapeInv, [Next]_vars, ~ reloaded'
  PROVE  /\ ~ reloaded /\ config' = config /\ clock' >= clock
         /\ \A ip \in IPs : ~ raced'[ip] => ~ raced[ip]
<1>1. clock \in Nat
  BY DEF ShapeInv, TypeOK
<1>2. CASE \E c \in Conns : Begin(c) \/ Get(c) \/ Insert(c)
  BY <1>1, <1>2 DEF Begin, Get, Insert
<1>3. CASE \E c \in Conns : CheckStep(c) \/ (Close(c) /\ pc[c] = "bypassed")
  BY <1>1, <1>3 DEF CheckStep, HolderStep, Close
<1>4. CASE EvictBegin \/ UpdateConfig \/ Tick \/ UNCHANGED vars
  BY <1>1, <1>4 DEF EvictBegin, UpdateConfig, Tick, vars
<1>5. CASE \E ip \in IPs : EvictEntry(ip)
  <2>1. PICK ip \in IPs : EvictEntry(ip)
    BY <1>5
  <2>2. /\ UNCHANGED <<config, clock, reloaded>>
        /\ EvictsEntry(ip) \/ UNCHANGED <<table, raced, charged, bucket, deadline>>
    BY <2>1, EvictEntryStep DEF ShapeInv
  <2>3. \A i \in IPs : ~ raced'[i] => ~ raced[i]
    BY <2>2 DEF EvictsEntry
  <2> QED BY <1>1, <2>2, <2>3
<1> QED BY <1>2, <1>3, <1>4, <1>5, StepKinds

\* Until a reload everyone works under the one configuration.
LEMMA OneConfigNext ==
  ASSUME ShapeInv, OneConfig, [Next]_vars
  PROVE  OneConfig'
<1> SUFFICES ASSUME ~ reloaded'
             PROVE  /\ \A c \in Conns : pc'[c] \in Admitting => req'[c].cfg = config
                    /\ sweep'.todo # {} => sweep'.cfg = config
  BY NotReloaded DEF OneConfig
<1>1. /\ \A c \in Conns : pc[c] \in Admitting => req[c].cfg = config
      /\ sweep.todo # {} => sweep.cfg = config
  BY NotReloaded DEF OneConfig
<1>2. "idle" \notin Admitting /\ "bypassed" \notin Admitting /\ Holding \subseteq Admitting
      /\ "get" \in Admitting /\ "insert" \in Admitting
  BY DEF Admitting, Holding, Checking, Kinds
<1>3. ASSUME NEW c \in Conns, Begin(c)
      PROVE  \A d \in Conns : pc'[d] \in Admitting => req'[d].cfg = config
  <2>1. \A d \in Conns \ {c} : pc'[d] = pc[d] /\ req'[d] = req[d]
    BY <1>3 DEF Begin, ShapeInv, TypeOK
  <2>2. pc'[c] = "bypassed" \/ req'[c].cfg = config
    BY <1>3 DEF Begin, ShapeInv, TypeOK
  <2> QED BY <1>1, <1>2, <2>1, <2>2
<1>4. ASSUME NEW c \in Conns, Get(c) \/ Insert(c)
      PROVE  \A d \in Conns : pc'[d] \in Admitting => req'[d].cfg = config
  <2>1. req' = req /\ pc[c] \in Admitting /\ \A d \in Conns \ {c} : pc'[d] = pc[d]
    BY <1>2, <1>4 DEF Get, Insert, ShapeInv, TypeOK
  <2> QED BY <1>1, <2>1
<1>5. ASSUME NEW c \in Conns, HolderStep(c)
      PROVE  \A d \in Conns : pc'[d] \in Admitting => req'[d].cfg = config
  <2>1. /\ pc[c] \in Admitting
        /\ \A d \in Conns \ {c} : pc'[d] = pc[d] /\ req'[d] = req[d]
        /\ pc'[c] = "idle" \/ req'[c] = req[c]
    BY <1>2, <1>5, HolderConns DEF HolderStep, ShapeInv
  <2> QED BY <1>1, <1>2, <2>1
<1>6. ASSUME NEW c \in Conns, Close(c)
      PROVE  \A d \in Conns : pc'[d] \in Admitting => req'[d].cfg = config
  <2>1. /\ pc'[c] = "idle"
        /\ \A d \in Conns \ {c} : pc'[d] = pc[d] /\ req'[d] = req[d]
    BY <1>6, Refused DEF Close, ShapeInv
  <2> QED BY <1>1, <1>2, <2>1
<1>7. ASSUME \E c \in Conns : Begin(c) \/ Get(c) \/ Insert(c) \/ HolderStep(c) \/ Close(c)
      PROVE  sweep' = sweep
  BY <1>7 DEF Begin, Get, Insert, HolderStep, Close
<1>8. CASE EvictBegin
  <2>1. UNCHANGED <<pc, req>> /\ sweep' = [cfg |-> config, now |-> clock, todo |-> IPs]
    BY <1>8 DEF EvictBegin
  <2> QED BY <1>1, <2>1
<1>9. ASSUME NEW ip \in IPs, EvictEntry(ip)
      PROVE  /\ \A c \in Conns : pc'[c] \in Admitting => req'[c].cfg = config
             /\ sweep'.todo # {} => sweep'.cfg = config
  <2>1. /\ UNCHANGED <<pc, req>> /\ ip \in sweep.todo
        /\ sweep'.todo # {} => sweep'.cfg = sweep.cfg
    BY <1>9, EvictEntryStep DEF ShapeInv
  <2> QED BY <1>1, <2>1
<1>10. CASE UpdateConfig \/ Tick \/ UNCHANGED vars
  BY <1>1, <1>10 DEF UpdateConfig, Tick, vars
<1> QED BY <1>1, <1>3, <1>4, <1>5, <1>6, <1>7, <1>8, <1>9, <1>10, StepKinds DEF CheckStep

\* Until a reload no IpState counts more than the cap.
LEMMA CapNext ==
  ASSUME ShapeInv, OneConfig, CapOK, [Next]_vars
  PROVE  CapOK'
<1> SUFFICES ASSUME ~ reloaded', config.max > 0, NEW r \in Refs
             PROVE  active'[r] <= config.max
  BY NotReloaded DEF CapOK
<1>1. /\ active[r] <= config.max /\ active[r] \in Nat /\ config.max \in Nat
      /\ \A c \in Conns : pc[c] \in Admitting => req[c].cfg = config
  BY NotReloaded, ConfigFields DEF CapOK, OneConfig, ShapeInv, TypeOK
<1>2. CASE active' = active
  BY <1>1, <1>2
<1>3. ASSUME NEW c \in Conns, Concurrency(c) PROVE active'[r] <= config.max
  <2>1. pc[c] = "concurrency"
    BY <1>3 DEF Concurrency
  <2>2. req[c].cfg = config
    BY <1>1, <2>1 DEF Admitting, Holding, Checking
  <2>3. CASE SlotFree(ref[c], req[c].cfg.max)
    <3>1. active[ref[c]] < config.max
      BY <2>2, <2>3 DEF SlotFree
    <3>2. active' = [active EXCEPT ![ref[c]] = @ + 1]
      BY <1>3, <2>3 DEF Concurrency
    <3> QED BY <1>1, <3>1, <3>2 DEF ShapeInv, TypeOK
  <2>4. CASE ~ SlotFree(ref[c], req[c].cfg.max)
    BY <1>2, <1>3, <2>4 DEF Concurrency
  <2> QED BY <2>3, <2>4
<1>4. ASSUME NEW c \in Conns, Close(c) PROVE active'[r] <= config.max
  <2>1. CASE active' = [active EXCEPT ![ref[c]] = IF @ > 0 THEN @ - 1 ELSE 0]
    BY <1>1, <2>1 DEF ShapeInv, TypeOK
  <2> QED BY <1>2, <1>4, <2>1 DEF Close, Released
<1>5. ASSUME NEW c \in Conns,
             \/ Begin(c) \/ Get(c) \/ Insert(c)
             \/ Penalty(c) \/ BucketAction(c) \/ Extend(c)
      PROVE  active' = active
  BY <1>5, PenaltyStep, BucketStep, ExtendStep DEF Begin, Get, Insert, ShapeInv
<1>6. ASSUME NEW ip \in IPs, EvictEntry(ip) PROVE active' = active
  BY <1>6 DEF EvictEntry
<1>7. CASE EvictBegin \/ UpdateConfig \/ Tick \/ UNCHANGED vars
  BY <1>2, <1>7 DEF EvictBegin, UpdateConfig, Tick, vars
<1> QED BY <1>2, <1>3, <1>4, <1>5, <1>6, <1>7 DEF Next, BucketAction

\* What a step does to the entry of an address.
LEMMA EntryKept ==
  ASSUME ShapeInv, [Next]_vars, NEW ip \in IPs, table[ip] # NoRef
  PROVE  table'[ip] = table[ip] \/ (EvictEntry(ip) /\ EvictsEntry(ip))
<1>1. CASE \E c \in Conns : Begin(c) \/ Get(c) \/ HolderStep(c) \/ Close(c)
  BY <1>1 DEF Begin, Get, HolderStep, Close
<1>2. ASSUME NEW c \in Conns, Insert(c) PROVE table'[ip] = table[ip]
  BY <1>2, InsertStep DEF ShapeInv, TypeOK
<1>3. ASSUME NEW i \in IPs, EvictEntry(i)
      PROVE  table'[ip] = table[ip] \/ (EvictEntry(ip) /\ EvictsEntry(ip))
  <2>1. EvictsEntry(i) \/ UNCHANGED <<table, raced, charged, bucket, deadline>>
    BY <1>3, EvictEntryStep DEF ShapeInv
  <2>2. CASE i # ip
    BY <2>1, <2>2 DEF EvictsEntry, ShapeInv, TypeOK
  <2>3. CASE i = ip
    BY <1>3, <2>1, <2>3
  <2> QED BY <2>2, <2>3
<1>4. CASE EvictBegin \/ UpdateConfig \/ Tick \/ UNCHANGED vars
  BY <1>4 DEF EvictBegin, UpdateConfig, Tick, vars
<1> QED BY <1>1, <1>2, <1>3, <1>4, StepKinds DEF CheckStep

\* What BoxOK says of one connection.
BoxOKFor(c) == clock >= req[c].boxedUntil \/ StillBoxed(c)

\* A connection that does not move, or only to the next place before its
\* penalty check, or that goes on debiting: the sweep removes the entry only when
\* the deadline is over.
LEMMA BoxWaits ==
  ASSUME ShapeInv, ShapeInv', OneConfig, [Next]_vars, ~ reloaded',
         NEW c \in Conns, pc[c] \in Admitting, BoxOKFor(c),
         req'[c] = req[c],
         StillBoxed(c) => \/ pc'[c] \in {"get", "insert", "penalty"}
                             /\ pc[c] \notin Kinds \cup {"extend"}
                          \/ pc'[c] \in Kinds \cup {"extend"} /\ op'[c].boxed
  PROVE  BoxOKFor(c)'
<1> DEFINE ip == req[c].ip  until == req[c].boxedUntil  r == table[ip]
<1>1. clock \in Nat /\ clock' \in Nat /\ clock' >= clock /\ until \in Nat
      /\ req[c].now \in Nat /\ ip \in IPs
  BY NotReloaded DEF ShapeInv, TypeOK
<1>2. CASE clock >= until
  <2>1. clock' >= until
    BY <1>1, <1>2
  <2> QED BY <2>1 DEF BoxOKFor
<1>4. CASE StillBoxed(c) /\ pc'[c] \in Kinds \cup {"extend"} /\ op'[c].boxed
  BY <1>4 DEF BoxOKFor, StillBoxed
<1>3. CASE /\ StillBoxed(c) /\ pc'[c] \in {"get", "insert", "penalty"}
           /\ pc[c] \notin Kinds \cup {"extend"}
  <2>1. /\ r \in Refs /\ deadline[r] >= until /\ req[c].now < until
        /\ req[c].cfg.penalty > 0 /\ deadline[r] \in Nat /\ r # NoRef
    BY <1>1, <1>3 DEF StillBoxed, ShapeInv, TypeOK
  <2>2. CASE table'[ip] = r
    <3>1. InUse(r, table', ref')
      BY <1>1, <2>2 DEF InUse
    <3>2. deadline'[r] >= deadline[r] /\ deadline'[r] \in Nat
      BY <2>1, <3>1, PenaltyGrows DEF ShapeInv, TypeOK
    <3>3. deadline'[r] >= until
      BY <1>1, <2>1, <3>2
    <3> QED BY <1>3, <2>1, <2>2, <3>3 DEF BoxOKFor, StillBoxed
  <2>3. CASE EvictEntry(ip) /\ EvictsEntry(ip)
    <3>1. ip \in sweep.todo /\ sweep.now \in Nat /\ sweep.now <= clock
      BY <1>1, <2>3, EvictEntryStep DEF ShapeInv, TypeOK, TimesOK
    <3>2. sweep.cfg = config /\ req[c].cfg = config
      BY <3>1, NotReloaded DEF OneConfig
    <3>3. ~ Boxed(r, sweep.now, sweep.cfg)
      BY <2>3 DEF EvictsEntry, Kept
    <3>4. sweep.now >= deadline[r]
      BY <1>1, <2>1, <3>1, <3>2, <3>3 DEF Boxed
    <3>5. clock' >= until
      BY <1>1, <2>1, <3>1, <3>4
    <3> QED BY <3>5 DEF BoxOKFor
  <2> QED BY <1>1, <2>1, <2>2, <2>3, EntryKept
<1> QED BY <1>2, <1>3, <1>4 DEF BoxOKFor

\* Until a reload a boxed address gets past no check.
LEMMA BoxNext ==
  ASSUME ShapeInv, ShapeInv', OneConfig, BoxOK, [Next]_vars
  PROVE  BoxOK'
<1> SUFFICES ASSUME ~ reloaded', NEW c \in Conns, pc'[c] \in Admitting, ~ raced'[req'[c].ip]
             PROVE  BoxOKFor(c)'
  BY DEF BoxOK, BoxOKFor
<1>1. ~ reloaded /\ \A i \in IPs : ~ raced'[i] => ~ raced[i]
  BY NotReloaded
<1>2. req'[c].ip \in IPs /\ req[c].ip \in IPs
  BY DEF ShapeInv, TypeOK
<1>3. ASSUME pc[c] \in Admitting, req'[c] = req[c] PROVE BoxOKFor(c)
  BY <1>1, <1>2, <1>3 DEF BoxOK, BoxOKFor
<1>4. CASE pc'[c] = pc[c] /\ req'[c] = req[c] /\ op'[c] = op[c]
  <2>1. StillBoxed(c) => \/ pc[c] \in {"get", "insert", "penalty"}
                            /\ pc[c] \notin Kinds \cup {"extend"}
                         \/ pc[c] \in Kinds \cup {"extend"} /\ op[c].boxed
    BY DEF StillBoxed, Kinds
  <2> QED BY <1>3, <1>4, <2>1, BoxWaits
<1>5. CASE Begin(c)
  <2>1. PICK peer \in Peers :
          \/ pc' = [pc EXCEPT ![c] = "bypassed"]
          \/ req' = [req EXCEPT ![c] =
               [ip |-> Canonical[peer], cfg |-> config, now |-> clock,
                boxedUntil |-> BoxedUntil(Canonical[peer])]]
             /\ pc' = [pc EXCEPT ![c] = "get"]
    BY <1>5 DEF Begin
  <2>2. pc'[c] # "bypassed"
    BY DEF Admitting, Holding, Checking, Kinds
  <2> DEFINE ip == Canonical[peer]
  <2>3. ip \in IPs
    BY ProtectionConstants
  <2>4. /\ pc'[c] = "get"
        /\ req'[c] = [ip |-> ip, cfg |-> config, now |-> clock, boxedUntil |-> BoxedUntil(ip)]
    BY <2>1, <2>2 DEF ShapeInv, TypeOK
  <2>5. /\ req'[c].ip = ip /\ req'[c].cfg = config /\ req'[c].now = clock
        /\ req'[c].boxedUntil = BoxedUntil(ip)
    BY <2>4
  <2>6. UNCHANGED <<config, table, deadline, clock>> /\ clock \in Nat
    BY <1>5 DEF Begin, ShapeInv, TypeOK
  <2>7. CASE BoxedUntil(ip) = 0
    BY <2>5, <2>6, <2>7 DEF BoxOKFor
  <2>8. CASE /\ table[ip] # NoRef /\ Boxed(table[ip], clock, config)
             /\ BoxedUntil(ip) = deadline[table[ip]]
    <3>1. deadline[table[ip]] \in Nat /\ clock < deadline[table[ip]] /\ config.penalty > 0
      BY <2>3, <2>8 DEF Boxed, ShapeInv, TypeOK
    <3>2. StillBoxed(c)'
      BY <2>4, <2>5, <2>6, <2>8, <3>1 DEF StillBoxed
    <3> QED BY <3>2 DEF BoxOKFor
  <2> QED BY <2>7, <2>8 DEF BoxedUntil
<1>6. CASE Get(c) \/ Insert(c)
  <2>1. /\ req' = req /\ pc[c] \in {"get", "insert"} /\ pc'[c] \in {"insert", "penalty"}
    BY <1>6 DEF Get, Insert, ShapeInv, TypeOK
  <2>2. pc[c] \in Admitting /\ pc[c] \notin Kinds \cup {"extend"}
    BY <2>1 DEF Admitting, Kinds
  <2> QED BY <1>3, <2>1, <2>2, BoxWaits
<1>7. CASE CheckStep(c) /\ HolderAction(c)
  <2>1. pc'[c] # "idle"
    BY DEF Admitting, Holding, Checking, Kinds
  <2>2. req'[c] = req[c] /\ pc[c] \in Holding /\ pc[c] \in Admitting
    BY <1>7, <2>1, HolderConns DEF CheckStep, HolderStep, ShapeInv, Admitting
  <2>3. CASE Penalty(c)
    <3>1. /\ pc[c] = "penalty" /\ pc'[c] = "rate"
          /\ op'[c].boxed = Boxed(ref[c], req[c].now, req[c].cfg)
      BY <2>3, PenaltyStep DEF ShapeInv
    <3>2. ASSUME StillBoxed(c) PROVE Boxed(ref[c], req[c].now, req[c].cfg)
      <4>1. table[req[c].ip] = ref[c]
        BY <1>1, <1>2, <2>2 DEF ShapeInv, Found
      <4>2. /\ deadline[ref[c]] >= req[c].boxedUntil
            /\ req[c].now < req[c].boxedUntil /\ req[c].cfg.penalty > 0
        BY <3>1, <3>2, <4>1 DEF StillBoxed, Kinds
      <4>3. deadline[ref[c]] \in Nat /\ req[c].boxedUntil \in Nat /\ req[c].now \in Nat
        BY <2>2, HeldType DEF ShapeInv, TypeOK
      <4>4. deadline[ref[c]] > 0 /\ req[c].now < deadline[ref[c]]
        BY <4>2, <4>3
      <4> QED BY <4>2, <4>4 DEF Boxed
    <3>3. StillBoxed(c) => pc'[c] \in Kinds \cup {"extend"} /\ op'[c].boxed
      BY <3>1, <3>2 DEF Kinds
    <3> QED BY <1>3, <2>2, <3>3, BoxWaits
  <2>4. CASE BucketAction(c)
    <3>1. /\ pc[c] \in Kinds
          /\ op[c].boxed => op'[c].boxed /\ pc'[c] \in Kinds \cup {"extend"}
      BY <2>4, BucketStep DEF ShapeInv
    <3>2. StillBoxed(c) => op[c].boxed
      BY <3>1 DEF StillBoxed, Kinds
    <3> QED BY <1>3, <2>2, <3>1, <3>2, BoxWaits
  <2>5. CASE Extend(c)
    BY <2>1, <2>5, ExtendStep DEF ShapeInv
  <2>6. CASE Concurrency(c) \/ Close(c)
    <3>1. pc[c] \notin {"get", "insert", "penalty", "extend"} \cup Kinds
      BY <2>6 DEF Concurrency, Close, Kinds
    <3>2. ~ StillBoxed(c)
      BY <3>1 DEF StillBoxed
    <3> QED BY <1>3, <2>2, <3>2, BoxWaits
  <2> QED BY <1>7, <2>3, <2>4, <2>5, <2>6 DEF HolderAction
<1>8. CASE Close(c)
  <2>1. pc'[c] = "idle"
    BY <1>8 DEF Close, Refuse, ShapeInv, TypeOK
  <2> QED BY <2>1 DEF Admitting, Holding, Checking, Kinds
<1>9. ASSUME NEW d \in Conns, d # c, Begin(d) \/ Get(d) \/ Insert(d) \/ CheckStep(d) \/ Close(d)
      PROVE  pc'[c] = pc[c] /\ req'[c] = req[c] /\ op'[c] = op[c]
  <2>1. CASE Begin(d) \/ Get(d) \/ Insert(d)
    BY <1>9, <2>1 DEF Begin, Get, Insert, ShapeInv, TypeOK
  <2>2. CASE CheckStep(d)
    BY <1>9, <2>2, HolderConns DEF ShapeInv, CheckStep, LocalsStep
  <2>3. CASE Close(d)
    <3>1. Refuse(d) /\ UNCHANGED <<charged, doubled>>
      BY <2>3 DEF Close
    <3> QED BY <1>9, <3>1, Refused, RefusedLocals DEF ShapeInv, LocalsStep
  <2> QED BY <1>9, <2>1, <2>2, <2>3
<1>10. ASSUME \/ EvictBegin \/ UpdateConfig \/ Tick \/ UNCHANGED vars
              \/ \E ip \in IPs : EvictEntry(ip)
       PROVE  pc' = pc /\ req' = req /\ op' = op
  BY <1>10 DEF EvictBegin, UpdateConfig, Tick, vars, EvictEntry
<1> QED BY <1>4, <1>5, <1>6, <1>7, <1>8, <1>9, <1>10, StepKinds

----------------------------------------------------------------------------
(* The ledger of charges                                                   *)

\* d has credited an interval of bucket k of r and not moved the timestamp yet.
Advancing(d, r, k) == ref[d] = r /\ At(d, k, "advance")

\* An entry that no step touches, as seen by those who are about to move its
\* timestamp.
LEMMA EntrySame ==
  ASSUME NEW n, NEW r, NEW k \in Kinds, EntryLedger(n, r, k), config' = config,
         bucket'[r][k] = bucket[r][k],
         \A d \in Conns : /\ Advancing(d, r, k)' <=> Advancing(d, r, k)
                          /\ Advancing(d, r, k) =>
                               op'[d].last = op[d].last /\ req'[d].now = req[d].now
  PROVE  EntryLedger(n, r, k)'
<1>1. Pending(r, k)' = Pending(r, k)
  BY DEF Pending, Advancing
<1>2. CASE Pending(r, k) = {} /\ Paid(n, bucket[r][k].tokens, config.limit[k], bucket[r][k].last)
  BY <1>1, <1>2 DEF EntryLedger, Paid
<1>3. ASSUME NEW d \in Conns, Pending(r, k) = {d}, op[d].last = bucket[r][k].last,
             Paid(n, bucket[r][k].tokens, config.limit[k], req[d].now)
      PROVE  EntryLedger(n, r, k)'
  <2>1. Advancing(d, r, k)
    BY <1>3 DEF Pending, Advancing
  <2>2. op'[d].last = op[d].last /\ req'[d].now = req[d].now
    BY <2>1
  <2> QED BY <1>1, <1>3, <2>2 DEF EntryLedger, Paid
<1> QED BY <1>2, <1>3 DEF EntryLedger

\* The ledger of an address with an entry is the entry's.
LEMMA LedgerOfEntry ==
  ASSUME NEW ip \in IPs, NEW k \in Kinds, NEW n, NEW r, r # NoRef
  PROVE  /\ table[ip] = r /\ charged[ip][k] = n /\ config.limit[k].rate > 0 =>
              (Ledger(ip, k) <=> EntryLedger(n, r, k))
         /\ table'[ip] = r /\ charged'[ip][k] = n /\ EntryLedger(n, r, k)' => Ledger(ip, k)'
<1>1. table[ip] = r /\ charged[ip][k] = n /\ config.limit[k].rate > 0 =>
        (Ledger(ip, k) <=> EntryLedger(n, r, k))
  BY DEF Ledger
<1>2. ASSUME table'[ip] = r, charged'[ip][k] = n, EntryLedger(n, r, k)'
      PROVE  Ledger(ip, k)'
  BY <1>2 DEF Ledger, EntryLedger, Pending, At, Paid
<1> QED BY <1>1, <1>2

\* Refills go on paying while time passes.
LEMMA RefillsGrow ==
  ASSUME NEW n \in Nat, NEW rate \in Nat, NEW now \in Nat, NEW later \in Nat, later >= now,
         OneToken * n <= rate * now
  PROVE  OneToken * n <= rate * later
<1>1. PICK m \in Nat : m = OneToken * n
  BY ProtectionConstants
<1>2. PICK p \in Nat : p = rate * now
  OBVIOUS
<1>3. PICK q \in Nat : q = rate * later
  OBVIOUS
<1>4. p <= q
  BY <1>2, <1>3
<1> QED BY <1>1, <1>2, <1>3, <1>4

\* An address whose entry, bucket and charges stay.
LEMMA LedgerSame ==
  ASSUME ShapeInv, ShapeInv', NEW ip \in IPs, NEW k \in Kinds, Ledger(ip, k),
         config' = config, clock' >= clock, table'[ip] = table[ip],
         charged'[ip][k] = charged[ip][k],
         NEW r, r = table[ip],
         r # NoRef =>
           /\ bucket'[r][k] = bucket[r][k]
           /\ \A d \in Conns : /\ Advancing(d, r, k)' <=> Advancing(d, r, k)
                               /\ Advancing(d, r, k) =>
                                    op'[d].last = op[d].last /\ req'[d].now = req[d].now
  PROVE  Ledger(ip, k)'
<1>1. clock \in Nat /\ clock' \in Nat /\ config \in Configs /\ charged[ip][k] \in Nat
  BY DEF ShapeInv, TypeOK
<1>2. config.limit[k].rate \in Nat
  BY <1>1, ConfigFields
<1>3. CASE r = NoRef
  <2>1. config.limit[k].rate > 0 => OneToken * charged[ip][k] <= config.limit[k].rate * clock'
    BY <1>1, <1>2, <1>3, RefillsGrow DEF Ledger, PaidByRefills
  <2> QED BY <1>3, <2>1 DEF Ledger, PaidByRefills
<1>4. CASE r # NoRef /\ config.limit[k].rate > 0
  <2>1. PICK n : n = charged[ip][k]
    OBVIOUS
  <2>2. EntryLedger(n, r, k)
    BY <1>4, <2>1, LedgerOfEntry
  <2>3. EntryLedger(n, r, k)'
    BY <1>4, <2>2, EntrySame
  <2> QED BY <1>4, <2>1, <2>3, LedgerOfEntry
<1>5. CASE ~ (config.limit[k].rate > 0)
  BY <1>5 DEF Ledger
<1> QED BY <1>3, <1>4, <1>5

\* A step of c that leaves the bucket k of r and its charges alone.
Quiet(c, r, k) ==
  /\ charged' = charged /\ bucket'[r][k] = bucket[r][k]
  /\ ~ Advancing(c, r, k) /\ ~ Advancing(c, r, k)'

\* A state the table has is not freed.
LEMMA SettleInTable ==
  ASSUME NEW c \in Conns, NEW d, Settle(c, bucket[ref[c]], d), bucket \in [Refs -> Buckets],
         \E i \in IPs : table[i] = ref[c]
  PROVE  bucket' = bucket
BY DEF Settle, Freed, InUse

\* The steps that are not quiet are the three CASes that win.
LEMMA QuietSteps ==
  ASSUME ShapeInv, NEW c \in Conns, NEW k \in Kinds, NEW r, r = ref[c],
         \E i \in IPs : table[i] = r, HolderAction(c), ~ (Close(c) /\ pc[c] # "open"),
         ~ \E j \in Kinds : Credit(c, j) \/ Advance(c, j) \/ Consume(c, j)
  PROVE  Quiet(c, r, k)
<1>1. /\ op \in [Conns -> Ops] /\ bucket \in [Refs -> Buckets] /\ pc \in [Conns -> Labels]
      /\ op[c].boxed \in BOOLEAN
  BY DEF ShapeInv, TypeOK, Ops
<1>2. CASE Penalty(c)
  <2>1. charged' = charged /\ bucket' = bucket /\ pc[c] = "penalty"
    BY <1>2 DEF Penalty
  <2>2. pc[c] # k
    BY <2>1 DEF Kinds
  <2>3. op' = [op EXCEPT ![c] = Fresh(Boxed(ref[c], req[c].now, req[c].cfg))]
    BY <1>2 DEF Penalty
  <2>4. op'[c].stage = "load"
    BY <1>1, <2>3 DEF Fresh
  <2> QED BY <2>1, <2>2, <2>4 DEF Quiet, Advancing, At
<1>3. ASSUME NEW j \in Kinds, SkipBucket(c, j) PROVE Quiet(c, r, k)
  <2>1. charged' = charged /\ bucket' = bucket /\ op[c].stage = "load"
    BY <1>3 DEF SkipBucket, At
  <2>2. op' = [op EXCEPT ![c] = [Fresh(op[c].boxed) EXCEPT !.exceeded = op[c].exceeded]]
    BY <1>3 DEF SkipBucket, MoveOn
  <2>3. op'[c].stage = "load"
    BY <1>1, <2>2 DEF Fresh
  <2> QED BY <2>1, <2>3 DEF Quiet, Advancing, At
<1>4. ASSUME NEW j \in Kinds, LoadLast(c, j) PROVE Quiet(c, r, k)
  <2>1. charged' = charged /\ bucket' = bucket /\ op[c].stage = "load"
    BY <1>4 DEF LoadLast, At
  <2>2. op'[c].stage \in {"credit", "consume"}
    BY <1>1, <1>4 DEF LoadLast, Ops
  <2> QED BY <2>1, <2>2 DEF Quiet, Advancing, At
<1>5. ASSUME NEW j \in Kinds, Exhausted(c, j) PROVE Quiet(c, r, k)
  <2>1. charged' = charged /\ bucket' = bucket /\ op[c].stage = "consume"
    BY <1>5 DEF Exhausted, At
  <2>2. CASE op[c].boxed
    <3>1. op' = [op EXCEPT ![c] = [Fresh(op[c].boxed) EXCEPT !.exceeded = TRUE]]
      BY <1>5, <2>2 DEF Exhausted, MoveOn
    <3>2. op'[c].stage = "load"
      BY <1>1, <3>1 DEF Fresh
    <3> QED BY <2>1, <3>2 DEF Quiet, Advancing, At
  <2>3. CASE ~ op[c].boxed
    <3>1. pc'[c] = "extend"
      BY <1>1, <1>5, <2>3 DEF Exhausted
    <3>2. pc'[c] # k
      BY <3>1 DEF Kinds
    <3> QED BY <2>1, <3>2 DEF Quiet, Advancing, At
  <2> QED BY <2>2, <2>3
<1>6. CASE Extend(c) \/ Concurrency(c) \/ Close(c)
  <2>1. charged' = charged
    BY <1>6 DEF Extend, Concurrency, Close
  <2>2. pc[c] \in {"extend", "concurrency", "open"} /\ pc'[c] \in {"idle", "open"}
    BY <1>1, <1>6 DEF Extend, Concurrency, Close, Refuse
  <2>3. bucket' = bucket \/ \E d : Settle(c, bucket[ref[c]], d)
    BY <1>6 DEF Extend, Concurrency, Close
  <2>4. bucket' = bucket
    BY <1>1, <2>3, SettleInTable
  <2>5. pc[c] # k /\ pc'[c] # k
    BY <2>2 DEF Kinds
  <2> QED BY <2>1, <2>4, <2>5 DEF Quiet, Advancing, At
<1> QED BY <1>2, <1>3, <1>4, <1>5, <1>6 DEF HolderAction, BucketAction

\* Only the charges of the connection's own address change, and its double credits
\* are never forgotten.
LEMMA OwnCharges ==
  ASSUME ShapeInv, NEW c \in Conns, HolderAction(c), ~ (Close(c) /\ pc[c] # "open")
  PROVE  \A i \in IPs : /\ i # req[c].ip => charged'[i] = charged[i]
                        /\ doubled[i] => doubled'[i]
<1>1. /\ charged \in [IPs -> [Kinds -> Nat]] /\ doubled \in [IPs -> BOOLEAN]
      /\ req[c].ip \in IPs
  BY DEF ShapeInv, TypeOK
<1>2. CASE UNCHANGED <<charged, doubled>>
  BY <1>1, <1>2
<1>3. ASSUME NEW k \in Kinds, Credit(c, k)
      PROVE  \A i \in IPs : /\ i # req[c].ip => charged'[i] = charged[i]
                            /\ doubled[i] => doubled'[i]
  <2>1. /\ doubled' = [doubled EXCEPT ![req[c].ip] = @ \/ CreditedBefore(c, k)]
        /\ charged' = [charged EXCEPT ![req[c].ip] =
                         IF CreditedBefore(c, k) THEN NoCharges ELSE @]
    BY <1>3 DEF Credit
  <2>2. \A i \in IPs : i # req[c].ip => charged'[i] = charged[i]
    BY <1>1, <2>1
  <2>3. \A i \in IPs : doubled[i] => doubled'[i]
    BY <1>1, <2>1, Zenon
  <2> QED BY <2>2, <2>3
<1>4. ASSUME NEW k \in Kinds, Consume(c, k)
      PROVE  \A i \in IPs : /\ i # req[c].ip => charged'[i] = charged[i]
                            /\ doubled[i] => doubled'[i]
  <2>1. doubled' = doubled /\ Charge(c, k)
    BY <1>4 DEF Consume
  <2> QED BY <1>1, <2>1 DEF Charge
<1>5. ASSUME NEW k \in Kinds,
             SkipBucket(c, k) \/ LoadLast(c, k) \/ Advance(c, k) \/ Exhausted(c, k)
      PROVE  UNCHANGED <<charged, doubled>>
  BY <1>5 DEF SkipBucket, LoadLast, Advance, Exhausted
<1>6. ASSUME Penalty(c) \/ Extend(c) \/ Concurrency(c) \/ Close(c)
      PROVE  UNCHANGED <<charged, doubled>>
  BY <1>6 DEF Penalty, Extend, Concurrency, Close
<1> QED BY <1>2, <1>3, <1>4, <1>5, <1>6 DEF HolderAction, BucketAction

\* The other connections of a state do not move with c.
LEMMA OthersAdvance ==
  ASSUME ShapeInv, NEW c \in Conns, CheckStep(c), NEW r, NEW k \in Kinds
  PROVE  \A d \in Conns \ {c} :
           /\ Advancing(d, r, k)' <=> Advancing(d, r, k)
           /\ op'[d].last = op[d].last /\ req'[d].now = req[d].now
<1>1. \A d \in Conns \ {c} : /\ pc'[d] = pc[d] /\ ref'[d] = ref[d] /\ req'[d] = req[d]
                             /\ op'[d] = op[d]
  BY HolderConns DEF CheckStep, LocalsStep, ShapeInv
<1> QED BY <1>1 DEF Advancing, At

\* What is known of a check at a bucket of an address without a race.
AtEntry(c, r, ip, k) ==
  /\ r = ref[c] /\ r \in Refs /\ r # NoRef /\ table[ip] = r /\ ip = req[c].ip
  /\ pc[c] = k /\ Limit(c, k) = config.limit[k]
  /\ bucket[r][k] \in Bucket /\ req[c].now \in Nat /\ op[c] \in Ops
  /\ config.limit[k] \in [rate : Nat, burst : Nat] /\ charged[ip][k] \in Nat

\* A credit that nobody made before is the only pending one, and pays.
LEMMA CreditLedger ==
  ASSUME ShapeInv, NEW c \in Conns, CheckStep(c), NEW r, NEW ip \in IPs, NEW k \in Kinds,
         AtEntry(c, r, ip, k), Credit(c, k), ~ doubled'[ip],
         NEW n \in Nat, n = charged[ip][k], EntryLedger(n, r, k)
  PROVE  charged'[ip][k] = n /\ EntryLedger(n, r, k)'
<1> DEFINE bk == bucket[r][k]  lim == config.limit[k]
           t == Smaller(bk.tokens + (req[c].now - op[c].last) * lim.rate, lim.burst)
<1>1. /\ bucket \in [Refs -> Buckets] /\ op \in [Conns -> Ops] /\ doubled \in [IPs -> BOOLEAN]
      /\ charged \in [IPs -> [Kinds -> Nat]]
  BY DEF ShapeInv, TypeOK
<1>2. /\ bk \in Bucket /\ bk.tokens \in Nat /\ bk.last \in Nat /\ req[c].now \in Nat
      /\ op[c] \in Ops /\ op[c].last \in Nat /\ lim \in [rate : Nat, burst : Nat]
  BY DEF AtEntry, Bucket, Ops
<1>3. op[c].last < req[c].now
  BY DEF ShapeInv, StageOK, Credit, At
<1>4. ~ CreditedBefore(c, k)
  <2>1. doubled' = [doubled EXCEPT ![ip] = @ \/ CreditedBefore(c, k)]
    BY DEF Credit, AtEntry
  <2> QED BY <1>1, <2>1, Zenon
<1>5. bk.last = op[c].last /\ Pending(r, k) = {}
  BY <1>4 DEF CreditedBefore, AtEntry, Pending
<1>6. Paid(n, bk.tokens, lim, bk.last)
  BY <1>5 DEF EntryLedger
<1>7. Paid(n, t, lim, req[c].now)
  BY <1>2, <1>3, <1>5, <1>6, CreditPays
<1>8. charged' = charged
  <2>1. charged' = [charged EXCEPT ![ip] = IF CreditedBefore(c, k) THEN NoCharges ELSE @]
    BY DEF Credit, AtEntry
  <2> QED BY <1>1, <1>4, <2>1
<1>9. bucket'[r][k] = [bk EXCEPT !.tokens = t]
  BY <1>1 DEF Credit, AtEntry, Buckets
<1>10. bucket'[r][k].tokens = t /\ bucket'[r][k].last = bk.last
  BY <1>2, <1>9 DEF Bucket
<1>11. op'[c].stage = "advance" /\ op'[c].last = op[c].last
  BY <1>1, <1>2 DEF Credit, Ops
<1>12. /\ pc' = pc /\ ref' = ref /\ req' = req /\ config' = config
  BY DEF Credit
<1>13. Pending(r, k)' = {c}
  <2>1. Advancing(c, r, k)'
    BY <1>11, <1>12 DEF Advancing, At, AtEntry
  <2>2. \A d \in Conns \ {c} : ~ Advancing(d, r, k)'
    BY <1>5, OthersAdvance DEF Pending, Advancing
  <2> QED BY <2>1, <2>2 DEF Pending, Advancing
<1> HIDE DEF t
<1>14. Paid(n, bucket'[r][k].tokens, config'.limit[k], req'[c].now)
  BY <1>7, <1>10, <1>12 DEF Paid
<1>15. Paid(n, bucket[r][k].tokens, config.limit[k], req[c].now)'
  BY <1>14 DEF Paid
<1> QED BY <1>5, <1>8, <1>10, <1>11, <1>13, <1>15 DEF EntryLedger

\* Who moves the timestamp was the one pending credit.
LEMMA AdvanceLedger ==
  ASSUME ShapeInv, NEW c \in Conns, CheckStep(c), NEW r, NEW ip \in IPs, NEW k \in Kinds,
         AtEntry(c, r, ip, k), Advance(c, k),
         NEW n \in Nat, n = charged[ip][k], EntryLedger(n, r, k)
  PROVE  charged'[ip][k] = n /\ EntryLedger(n, r, k)'
<1> DEFINE bk == bucket[r][k]  lim == config.limit[k]
<1>1. bucket \in [Refs -> Buckets] /\ op \in [Conns -> Ops]
  BY DEF ShapeInv, TypeOK
<1>2. bk \in Bucket /\ req[c].now \in Nat /\ op[c] \in Ops
  BY DEF AtEntry
<1>3. Advancing(c, r, k)
  BY DEF Advance, Advancing, AtEntry
<1>4. c \in Pending(r, k)
  BY <1>3 DEF Pending, Advancing
<1>5. Pending(r, k) = {c} /\ op[c].last = bk.last /\ Paid(n, bk.tokens, lim, req[c].now)
  BY <1>4 DEF EntryLedger
<1>6. bucket'[r][k] = [bk EXCEPT !.last = IF bk.last = op[c].last THEN req[c].now ELSE bk.last]
  BY <1>1 DEF Advance, AtEntry, Buckets
<1>7. bucket'[r][k].tokens = bk.tokens /\ bucket'[r][k].last = req[c].now
  BY <1>2, <1>5, <1>6 DEF Bucket
<1>8. op'[c].stage = "consume"
  BY <1>1, <1>2 DEF Advance, Ops
<1>9. charged' = charged /\ config' = config
  BY DEF Advance
<1>10. Pending(r, k)' = {}
  <2>1. ~ Advancing(c, r, k)'
    BY <1>8 DEF Advancing, At
  <2>2. \A d \in Conns \ {c} : ~ Advancing(d, r, k)'
    BY <1>5, OthersAdvance DEF Pending, Advancing
  <2> QED BY <2>1, <2>2 DEF Pending, Advancing
<1>11. Paid(n, bucket[r][k].tokens, config.limit[k], bucket[r][k].last)'
  BY <1>5, <1>7, <1>9 DEF Paid
<1> QED BY <1>9, <1>10, <1>11 DEF EntryLedger

\* What is taken is charged.
LEMMA ConsumeLedger ==
  ASSUME ShapeInv, NEW c \in Conns, CheckStep(c), NEW r, NEW ip \in IPs, NEW k \in Kinds,
         AtEntry(c, r, ip, k), Consume(c, k),
         NEW n \in Nat, n = charged[ip][k], EntryLedger(n, r, k)
  PROVE  \E m \in Nat : charged'[ip][k] = m /\ EntryLedger(m, r, k)'
<1> DEFINE bk == bucket[r][k]  lim == config.limit[k]
<1>1. /\ bucket \in [Refs -> Buckets] /\ op \in [Conns -> Ops]
      /\ charged \in [IPs -> [Kinds -> Nat]] /\ MaxCharged[config] \in Nat
  BY ProtectionConstants DEF ShapeInv, TypeOK
<1>2. /\ bk \in Bucket /\ bk.tokens \in Nat /\ bk.last \in Nat /\ req[c].now \in Nat
      /\ lim \in [rate : Nat, burst : Nat] /\ bk.tokens >= OneToken
  BY DEF AtEntry, Bucket, Consume
<1>3. PICK m \in Nat : charged'[ip][k] = m /\ m <= n + 1
  <2>1. n + 1 \in Nat /\ n <= n + 1
    OBVIOUS
  <2>2. /\ Smaller(n + 1, MaxCharged[config]) \in Nat
        /\ Smaller(n + 1, MaxCharged[config]) <= n + 1
    BY <1>1, <2>1 DEF Smaller
  <2>3. CASE charged' = charged
    BY <2>1, <2>3
  <2>4. CASE charged' = [charged EXCEPT ![ip][k] = Smaller(@ + 1, MaxCharged[config])]
    BY <1>1, <2>2, <2>4
  <2> QED BY <2>3, <2>4 DEF Consume, Charge, AtEntry
<1>4. bucket'[r][k] = [bk EXCEPT !.tokens = bk.tokens - OneToken]
  BY <1>1 DEF Consume, AtEntry, Buckets
<1>5. bucket'[r][k].tokens = bk.tokens - OneToken /\ bucket'[r][k].last = bk.last
  BY <1>2, <1>4 DEF Bucket
<1>6. /\ config' = config /\ req' = req /\ op[c].stage = "consume"
      /\ op' = [op EXCEPT ![c] = [Fresh(op[c].boxed) EXCEPT !.exceeded = op[c].exceeded]]
  BY DEF Consume, MoveOn, At
<1>7. op'[c].stage = "load"
  BY <1>1, <1>6 DEF Fresh
<1>8. ~ Advancing(c, r, k) /\ ~ Advancing(c, r, k)'
  BY <1>6, <1>7 DEF Advancing, At
<1>9. Pending(r, k)' = Pending(r, k) /\ c \notin Pending(r, k)
  <2>1. \A d \in Conns : Advancing(d, r, k)' <=> Advancing(d, r, k)
    BY <1>8, OthersAdvance
  <2> QED BY <1>8, <2>1 DEF Pending, Advancing
<1>10. CASE Pending(r, k) = {} /\ Paid(n, bk.tokens, lim, bk.last)
  <2>1. Paid(m, bk.tokens - OneToken, lim, bk.last)
    BY <1>2, <1>3, <1>10, ConsumePays
  <2>2. Paid(m, bucket[r][k].tokens, config.limit[k], bucket[r][k].last)'
    BY <1>5, <1>6, <2>1 DEF Paid
  <2> QED BY <1>3, <1>9, <1>10, <2>2 DEF EntryLedger
<1>11. ASSUME NEW d \in Conns, Pending(r, k) = {d}, op[d].last = bk.last,
              Paid(n, bk.tokens, lim, req[d].now)
       PROVE  EntryLedger(m, r, k)'
  <2>1. d # c /\ req[d].now \in Nat
    BY <1>9, <1>11 DEF ShapeInv, TypeOK
  <2>2. op'[d].last = op[d].last
    BY <2>1, OthersAdvance
  <2>3. Paid(m, bk.tokens - OneToken, lim, req[d].now)
    BY <1>2, <1>3, <1>11, <2>1, ConsumePays
  <2>4. Paid(m, bucket[r][k].tokens, config.limit[k], req[d].now)'
    BY <1>5, <1>6, <2>3 DEF Paid
  <2> QED BY <1>5, <1>9, <1>11, <2>2, <2>4 DEF EntryLedger
<1> QED BY <1>3, <1>10, <1>11 DEF EntryLedger

\* The ledger of an address survives a step of a connection that holds its entry.
LEMMA LedgerHolder ==
  ASSUME ShapeInv, ShapeInv', OneConfig, ~ reloaded, NEW ip \in IPs, NEW k \in Kinds,
         Ledger(ip, k), ~ raced[ip], ~ doubled'[ip],
         NEW c \in Conns, CheckStep(c), HolderAction(c), ~ (Close(c) /\ pc[c] # "open")
  PROVE  Ledger(ip, k)'
<1>1. pc[c] \in Holding /\ UNCHANGED <<config, table, clock>>
  BY DEF CheckStep, HolderStep
<1>2. /\ ref[c] \in Refs /\ ref[c] # NoRef /\ req[c].ip \in IPs /\ clock \in Nat
      /\ req[c].now \in Nat /\ req[c].cfg = config /\ config \in Configs /\ clock' >= clock
  BY <1>1, HeldType DEF ShapeInv, Held, TypeOK, OneConfig, Admitting
<1>3. PICK r : r = table[ip]
  OBVIOUS
<1>4. CASE r # ref[c]
  <2>1. req[c].ip # ip
    BY <1>1, <1>3, <1>4 DEF ShapeInv, Found
  <2>2. charged'[ip][k] = charged[ip][k]
    BY <2>1, OwnCharges
  <2>3. r # NoRef => bucket'[r] = bucket[r]
    BY <1>1, <1>3, <1>4, HolderHeap DEF ShapeInv, TypeOK, CheckStep
  <2>4. ref'[c] = NoRef \/ ref'[c] = ref[c]
    BY HolderConns DEF ShapeInv, CheckStep
  <2>5. r # NoRef => ~ Advancing(c, r, k) /\ ~ Advancing(c, r, k)'
    BY <1>4, <2>4 DEF Advancing
  <2> QED BY <1>1, <1>2, <1>3, <2>2, <2>3, <2>5, LedgerSame, OthersAdvance
<1>5. CASE r = ref[c]
  <2>1. ip = req[c].ip /\ \E i \in IPs : table[i] = r
    BY <1>2, <1>3, <1>5 DEF ShapeInv, OneHome, HeldForTable
  <2>2. ASSUME Quiet(c, r, k) PROVE Ledger(ip, k)'
    BY <1>1, <1>2, <1>3, <2>2, LedgerSame, OthersAdvance DEF Quiet
  <2>3. CASE ~ \E j \in Kinds : Credit(c, j) \/ Advance(c, j) \/ Consume(c, j)
    BY <1>5, <2>1, <2>2, <2>3, QuietSteps
  <2>4. ASSUME NEW j \in Kinds, j # k, Credit(c, j) \/ Advance(c, j) \/ Consume(c, j)
        PROVE  Ledger(ip, k)'
    <3>1. /\ bucket \in [Refs -> Buckets] /\ charged \in [IPs -> [Kinds -> Nat]]
          /\ doubled \in [IPs -> BOOLEAN] /\ pc \in [Conns -> Labels]
      BY DEF ShapeInv, TypeOK
    <3>2. bucket'[r][k] = bucket[r][k]
      BY <1>2, <1>5, <2>4, <3>1 DEF Credit, Advance, Consume, Buckets
    <3>3. charged'[ip][k] = charged[ip][k]
      <4>1. CASE Credit(c, j)
        <5>1. /\ doubled' = [doubled EXCEPT ![ip] = @ \/ CreditedBefore(c, j)]
              /\ charged' = [charged EXCEPT ![ip] =
                               IF CreditedBefore(c, j) THEN NoCharges ELSE @]
          BY <2>1, <4>1 DEF Credit
        <5>2. ~ CreditedBefore(c, j)
          BY <3>1, <5>1, Zenon
        <5> QED BY <3>1, <5>1, <5>2
      <4>2. CASE Advance(c, j)
        BY <4>2 DEF Advance
      <4>3. CASE Consume(c, j)
        BY <2>1, <2>4, <3>1, <4>3 DEF Consume, Charge
      <4> QED BY <2>4, <4>1, <4>2, <4>3
    <3>4. pc[c] = j /\ pc[c] # k
      BY <2>4 DEF Credit, Advance, Consume, At
    <3>5. ~ Advancing(c, r, k)'
      <4>1. CASE Credit(c, j) \/ Advance(c, j)
        BY <3>4, <4>1 DEF Credit, Advance, Advancing, At
      <4>2. CASE Consume(c, j)
        <5>1. op' = [op EXCEPT ![c] = [Fresh(op[c].boxed) EXCEPT !.exceeded = op[c].exceeded]]
          BY <4>2 DEF Consume, MoveOn
        <5>2. op'[c].stage = "load"
          BY <5>1 DEF Fresh, ShapeInv, TypeOK
        <5> QED BY <5>2 DEF Advancing, At
      <4> QED BY <2>4, <4>1, <4>2
    <3>6. ~ Advancing(c, r, k)
      BY <3>4 DEF Advancing, At
    <3> QED BY <1>1, <1>2, <1>3, <3>2, <3>3, <3>5, <3>6, LedgerSame, OthersAdvance
  <2>5. ASSUME Credit(c, k) \/ Advance(c, k) \/ Consume(c, k) PROVE Ledger(ip, k)'
    <3>1. AtEntry(c, r, ip, k)
      <4>1. pc[c] = k /\ Limit(c, k) = config.limit[k]
        BY <1>2, <2>5 DEF Credit, Advance, Consume, At, Limit
      <4>2. config.limit[k] \in [rate : Nat, burst : Nat]
        BY <1>2, ConfigFields
      <4>3. bucket[r][k] \in Bucket /\ op[c] \in Ops /\ charged[ip][k] \in Nat
        BY <1>2, <1>5 DEF ShapeInv, TypeOK, Buckets, Bucket
      <4> QED BY <1>2, <1>3, <1>5, <2>1, <4>1, <4>2, <4>3 DEF AtEntry
    <3>2. PICK n \in Nat : n = charged[ip][k]
      BY <3>1 DEF AtEntry
    <3>3. CASE config.limit[k].rate > 0
      <4>1. EntryLedger(n, r, k)
        BY <1>2, <1>3, <1>5, <3>2, <3>3, LedgerOfEntry
      <4>2. \E m \in Nat : charged'[ip][k] = m /\ EntryLedger(m, r, k)'
        BY <2>5, <3>1, <3>2, <4>1, CreditLedger, AdvanceLedger, ConsumeLedger
      <4>3. PICK m \in Nat : charged'[ip][k] = m /\ EntryLedger(m, r, k)'
        BY <4>2
      <4>4. table'[ip] = r /\ r # NoRef
        BY <1>1, <1>2, <1>3, <1>5
      <4> QED BY <4>3, <4>4, LedgerOfEntry
    <3>4. CASE ~ (config.limit[k].rate > 0)
      BY <1>1, <3>4 DEF Ledger
    <3> QED BY <3>3, <3>4
  <2> QED BY <2>3, <2>4, <2>5
<1> QED BY <1>4, <1>5

\* It survives the insertion of an entry: the refills have paid for all before it,
\* and nobody is at its buckets.
LEMMA LedgerInsert ==
  ASSUME ShapeInv, ShapeInv', OneConfig, NEW ip \in IPs, NEW k \in Kinds, Ledger(ip, k),
         ~ reloaded, NEW c \in Conns, Insert(c)
  PROVE  Ledger(ip, k)'
<1> DEFINE own == req[c].ip
<1>1. /\ UNCHANGED <<config, clock, charged, req, op>> /\ pc[c] = "insert" /\ own \in IPs
      /\ clock \in Nat /\ pc' = [pc EXCEPT ![c] = "penalty"]
  BY InsertStep DEF ShapeInv, TypeOK
<1>2. req[c].cfg = config /\ config \in Configs
  BY <1>1 DEF OneConfig, Admitting, ShapeInv, TypeOK
<1>3. clock' >= clock
  BY <1>1
<1>4. /\ pc[c] \notin Kinds /\ pc'[c] \notin Kinds
      /\ \A d \in Conns \ {c} : pc'[d] = pc[d] /\ ref'[d] = ref[d]
  <2>1. ref \in [Conns -> Refs \cup {NoRef}] /\ pc \in [Conns -> Labels]
    BY DEF ShapeInv, TypeOK
  <2>2. \E x : ref' = [ref EXCEPT ![c] = x]
    BY InsertStep DEF ShapeInv
  <2> QED BY <1>1, <2>1, <2>2 DEF Kinds
<1>5. ASSUME NEW r PROVE \A d \in Conns : Advancing(d, r, k)' <=> Advancing(d, r, k)
  BY <1>1, <1>4 DEF Advancing, At
<1>6. PICK old : old = table[ip]
  OBVIOUS
<1>7. ASSUME table'[ip] = table[ip], old # NoRef => bucket'[old][k] = bucket[old][k]
      PROVE  Ledger(ip, k)'
  BY <1>1, <1>3, <1>5, <1>6, <1>7, LedgerSame
<1>8. CASE UNCHANGED <<table, bucket>>
  BY <1>7, <1>8
<1>9. ASSUME NEW r \in FreeRefs, table[own] = NoRef,
             table' = [table EXCEPT ![own] = r],
             bucket' = [bucket EXCEPT ![r] = FreshBuckets(req[c].cfg)]
      PROVE  Ledger(ip, k)'
  <2>1. /\ r \in Refs /\ r # NoRef
        /\ \A i \in IPs : table[i] # r
        /\ \A d \in Conns : ref[d] # r
    BY ProtectionConstants DEF FreeRefs, InUse
  <2>2. CASE ip # own
    <3>1. table'[ip] = table[ip]
      BY <1>1, <1>9, <2>2 DEF ShapeInv, TypeOK
    <3>2. old # NoRef => bucket'[old][k] = bucket[old][k]
      BY <1>6, <1>9, <2>1 DEF ShapeInv, TypeOK
    <3> QED BY <1>7, <3>1, <3>2
  <2>3. CASE ip = own
    <3>1. table'[ip] = r /\ bucket'[r] = FreshBuckets(config)
      BY <1>1, <1>2, <1>9, <2>1, <2>3 DEF ShapeInv, TypeOK
    <3>2. bucket'[r][k].tokens = config.limit[k].burst /\ bucket'[r][k].last = clock
      BY <1>2, <3>1, FreshType DEF ShapeInv
    <3>3. Pending(r, k)' = {}
      <4>1. \A d \in Conns : ~ Advancing(d, r, k)
        BY <2>1 DEF Advancing
      <4> QED BY <1>5, <4>1 DEF Pending, Advancing
    <3>4. PICK n \in Nat : n = charged[ip][k]
      BY DEF ShapeInv, TypeOK
    <3>5. config.limit[k].rate \in Nat /\ config.limit[k].burst \in Nat /\ OneToken \in Nat
      BY <1>2, ConfigFields, ProtectionConstants
    <3>6. CASE config.limit[k].rate > 0
      <4>1. OneToken * n <= config.limit[k].rate * clock
        BY <1>9, <2>3, <3>4, <3>6 DEF Ledger, PaidByRefills
      <4>2. OneToken * n \in Int /\ config.limit[k].rate * clock \in Int
        BY <1>1, <3>5
      <4>3. Paid(n, bucket'[r][k].tokens, config.limit[k], bucket'[r][k].last)
        BY <3>2, <3>5, <4>1, <4>2 DEF Paid
      <4>4. Paid(n, bucket[r][k].tokens, config.limit[k], bucket[r][k].last)'
        BY <1>1, <4>3 DEF Paid
      <4>5. EntryLedger(n, r, k)'
        BY <3>3, <4>4 DEF EntryLedger
      <4> QED BY <1>1, <2>1, <3>1, <3>4, <4>5, LedgerOfEntry
    <3>7. CASE ~ (config.limit[k].rate > 0)
      BY <1>1, <3>7 DEF Ledger
    <3> QED BY <3>6, <3>7
  <2> QED BY <2>2, <2>3
<1> QED BY <1>8, <1>9, InsertStep DEF ShapeInv

\* An eviction happens only when both buckets would be full, and without a race
\* under nobody who is about to move a timestamp.
LEMMA LedgerEvict ==
  ASSUME ShapeInv, ShapeInv', OneConfig, NEW ip \in IPs, NEW k \in Kinds, Ledger(ip, k),
         ~ reloaded, ~ raced'[ip], NEW i \in IPs, EvictEntry(i)
  PROVE  Ledger(ip, k)'
<1>1. /\ i \in sweep.todo /\ UNCHANGED <<config, clock, pc, req, ref, op>>
      /\ EvictsEntry(i) \/ UNCHANGED <<table, raced, charged, bucket, deadline>>
  BY EvictEntryStep DEF ShapeInv
<1>2. /\ sweep.cfg = config /\ config \in Configs /\ clock \in Nat
      /\ sweep.now \in Nat /\ sweep.now <= clock
  BY <1>1 DEF OneConfig, ShapeInv, TypeOK, TimesOK
<1>3. clock' >= clock
  BY <1>1, <1>2
<1>4. PICK r : r = table[ip]
  OBVIOUS
<1>5. ASSUME table'[ip] = table[ip], charged'[ip] = charged[ip],
             r # NoRef => bucket'[r][k] = bucket[r][k]
      PROVE  Ledger(ip, k)'
  <2>1. \A d \in Conns : Advancing(d, r, k)' <=> Advancing(d, r, k)
    BY <1>1 DEF Advancing, At
  <2> QED BY <1>1, <1>3, <1>4, <1>5, <2>1, LedgerSame
<1>6. CASE UNCHANGED <<table, raced, charged, bucket, deadline>>
  BY <1>5, <1>6
<1>7. CASE EvictsEntry(i) /\ i # ip
  <2>1. table'[ip] = table[ip] /\ charged'[ip] = charged[ip]
    BY <1>7 DEF EvictsEntry, ShapeInv, TypeOK
  <2>2. r # NoRef => r # table[i]
    BY <1>4, <1>7 DEF ShapeInv, OneHome, TableInjective
  <2>3. r # NoRef => bucket'[r] = bucket[r]
    BY <1>4, <1>7, <2>2 DEF EvictsEntry, ShapeInv, TypeOK
  <2> QED BY <1>5, <2>1, <2>3
<1>8. CASE EvictsEntry(i) /\ i = ip
  <2>1. r \in Refs /\ r # NoRef /\ ~ Kept(r, sweep.now, config) /\ table'[ip] = NoRef
    BY <1>2, <1>4, <1>8 DEF EvictsEntry, ShapeInv, TypeOK
  <2>2. /\ ~ \E c \in Conns : pc[c] \in Checking /\ ref[c] = r
        /\ charged' = charged
    BY <1>4, <1>8 DEF EvictsEntry
  <2>3. Pending(r, k) = {}
    BY <2>2 DEF Pending, At, Checking
  <2>4. bucket[r][k] \in Bucket /\ bucket[r][k].last <= clock
    BY <2>1 DEF ShapeInv, TypeOK, TimesOK, Buckets, Bucket
  <2>5. PICK n \in Nat : n = charged[ip][k]
    BY DEF ShapeInv, TypeOK
  <2>6. config.limit[k] \in [rate : Nat, burst : Nat]
    BY <1>2, ConfigFields
  <2>7. CASE config.limit[k].rate > 0
    <3>1. ~ (Projected(bucket[r][k], sweep.now, config.limit[k]) < config.limit[k].burst)
      BY <2>1, <2>7 DEF Kept, Refilling
    <3>2. EntryLedger(n, r, k)
      BY <1>4, <2>1, <2>5, <2>7, LedgerOfEntry
    <3>3. Paid(n, bucket[r][k].tokens, config.limit[k], bucket[r][k].last)
      BY <2>3, <3>2 DEF EntryLedger
    <3>4. PaidByRefills(n, config.limit[k].rate)
      BY <1>2, <2>4, <2>6, <3>1, <3>3, FullIsPaidByRefills
    <3> QED BY <1>1, <2>1, <2>2, <2>5, <3>4 DEF Ledger, PaidByRefills
  <2>8. CASE ~ (config.limit[k].rate > 0)
    BY <1>1, <2>8 DEF Ledger
  <2> QED BY <2>7, <2>8
<1> QED BY <1>1, <1>6, <1>7, <1>8

\* The ledgers survive every step.
LEMMA LedgerNext ==
  ASSUME ShapeInv, ShapeInv', OneConfig, LedgerOK, [Next]_vars
  PROVE  LedgerOK'
<1> SUFFICES ASSUME ~ reloaded', NEW ip \in IPs, NEW k \in Kinds, ~ raced'[ip], ~ doubled'[ip]
             PROVE  Ledger(ip, k)'
  BY DEF LedgerOK
<1>1. ~ reloaded /\ ~ raced[ip] /\ config' = config /\ clock' >= clock
  BY NotReloaded
<1>2. ASSUME ~ doubled[ip] PROVE Ledger(ip, k)
  BY <1>1, <1>2 DEF LedgerOK
<1>3. PICK r : r = table[ip]
  OBVIOUS
<1>4. ASSUME UNCHANGED <<table, bucket, charged, doubled>>,
             \A d \in Conns : /\ Advancing(d, r, k)' <=> Advancing(d, r, k)
                              /\ Advancing(d, r, k) =>
                                   op'[d].last = op[d].last /\ req'[d].now = req[d].now
      PROVE  Ledger(ip, k)'
  BY <1>1, <1>2, <1>3, <1>4, LedgerSame
<1>5. ASSUME NEW c \in Conns, Begin(c) \/ Get(c) \/ (Close(c) /\ pc[c] = "bypassed")
      PROVE  Ledger(ip, k)'
  <2>1. /\ pc \in [Conns -> Labels] /\ ref \in [Conns -> Refs \cup {NoRef}]
        /\ req \in [Conns -> [ip : IPs, cfg : Configs, now : Nat, boxedUntil : Nat]]
        /\ op \in [Conns -> Ops]
    BY DEF ShapeInv, TypeOK
  <2>2. UNCHANGED <<table, bucket, charged, doubled>>
    BY <1>5 DEF Begin, Get, Close
  <2>3. /\ pc[c] \in {"idle", "get", "bypassed"}
        /\ pc'[c] \in {"bypassed", "get", "insert", "penalty", "idle"}
    BY <1>5, <2>1 DEF Begin, Get, Close, Refuse
  <2>4. pc[c] \notin Kinds /\ pc'[c] \notin Kinds
    BY <2>3 DEF Kinds
  <2>5. \A d \in Conns \ {c} : /\ pc'[d] = pc[d] /\ ref'[d] = ref[d] /\ req'[d] = req[d]
                               /\ op'[d] = op[d]
    BY <1>5, <2>1 DEF Begin, Get, Close, Refuse
  <2>6. \A d \in Conns : /\ Advancing(d, r, k)' <=> Advancing(d, r, k)
                         /\ Advancing(d, r, k) =>
                              op'[d].last = op[d].last /\ req'[d].now = req[d].now
    BY <2>4, <2>5 DEF Advancing, At
  <2> QED BY <1>4, <2>2, <2>6
<1>6. ASSUME NEW c \in Conns, CheckStep(c), HolderAction(c) PROVE Ledger(ip, k)'
  <2>1. ~ (Close(c) /\ pc[c] # "open")
    BY <1>6 DEF Close, CheckStep, HolderStep, Holding, Checking, Kinds
  <2>2. ~ doubled[ip]
    BY <1>6, <2>1, OwnCharges
  <2> QED BY <1>1, <1>2, <1>6, <2>1, <2>2, LedgerHolder
<1>7. ASSUME NEW c \in Conns, Insert(c) PROVE Ledger(ip, k)'
  <2>1. ~ doubled[ip]
    BY <1>7, InsertStep DEF ShapeInv
  <2> QED BY <1>1, <1>2, <1>7, <2>1, LedgerInsert
<1>8. ASSUME NEW i \in IPs, EvictEntry(i) PROVE Ledger(ip, k)'
  <2>1. ~ doubled[ip]
    BY <1>8, EvictEntryStep DEF ShapeInv
  <2> QED BY <1>1, <1>2, <1>8, <2>1, LedgerEvict
<1>9. ASSUME EvictBegin \/ UpdateConfig \/ Tick \/ UNCHANGED vars
      PROVE  Ledger(ip, k)'
  <2>1. UNCHANGED <<table, bucket, charged, doubled, pc, ref, req, op>>
    BY <1>9 DEF EvictBegin, UpdateConfig, Tick, vars
  <2>2. \A d \in Conns : Advancing(d, r, k)' <=> Advancing(d, r, k)
    BY <2>1 DEF Advancing, At
  <2> QED BY <1>4, <2>1, <2>2
<1> QED BY <1>5, <1>6, <1>7, <1>8, <1>9, StepKinds

----------------------------------------------------------------------------
(* The limits                                                              *)

\* The whole invariant holds initially.
LEMMA IInvInit == Init => IInv
<1> SUFFICES ASSUME Init PROVE IInv
  OBVIOUS
<1>1. ShapeInv
  BY ShapeInit
<1>2. "idle" \notin Admitting
  BY DEF Admitting, Holding, Checking, Kinds
<1>3. OneConfig /\ BoxOK
  BY <1>2, Defaults DEF Init, OneConfig, BoxOK
<1>4. CapOK
  <2>1. config.max \in Nat
    BY ConfigFields, ProtectionConstants DEF Init
  <2> QED BY <2>1 DEF Init, CapOK
<1>5. LedgerOK
  <2> SUFFICES ASSUME NEW ip \in IPs, NEW k \in Kinds PROVE Ledger(ip, k)
    BY DEF LedgerOK
  <2>1. table[ip] = NoRef /\ charged[ip][k] = 0
    BY DEF Init, NoCharges
  <2>2. clock = 0 /\ config \in Configs
    BY ProtectionConstants DEF Init
  <2>3. OneToken \in Nat /\ config.limit[k].rate \in Nat
    BY <2>2, ConfigFields, ProtectionConstants
  <2>4. OneToken * 0 <= config.limit[k].rate * 0
    BY <2>3
  <2> QED BY <2>1, <2>2, <2>4 DEF Ledger, PaidByRefills
<1> QED BY <1>1, <1>3, <1>4, <1>5 DEF IInv

\* The whole invariant is preserved by every step.
LEMMA IInvNext == IInv /\ [Next]_vars => IInv'
BY ShapeNext, OneConfigNext, CapNext, LedgerNext, BoxNext DEF IInv

\* The cap: the connections open from an address all hold its entry.
LEMMA CapHolds ==
  ASSUME IInv PROVE ConcurrencyCap
<1> SUFFICES ASSUME NEW ip \in IPs, config.max > 0, ~ raced[ip], ~ reloaded
             PROVE  Cardinality(OpenFrom(ip)) <= config.max
  BY DEF ConcurrencyCap
<1>1. config.max \in Nat
  BY ConfigFields DEF IInv, ShapeInv, TypeOK
<1>2. CASE OpenFrom(ip) = {}
  BY <1>1, <1>2, FS_EmptySet
<1>3. CASE OpenFrom(ip) # {}
  <2> DEFINE r == table[ip]
  <2>1. \A c \in OpenFrom(ip) : c \in Conns /\ pc[c] = "open" /\ ref[c] = r /\ ref[c] # NoRef
    BY DEF OpenFrom, IInv, ShapeInv, Found, RefsOK, Holding
  <2>2. OpenFrom(ip) \subseteq Holders(r) /\ r \in Refs
    BY <1>3, <2>1 DEF Holders, IInv, ShapeInv, TypeOK
  <2>3. Cardinality(OpenFrom(ip)) <= Cardinality(Holders(r)) /\ IsFiniteSet(OpenFrom(ip))
    BY <2>2, FiniteHolders, FS_Subset
  <2>4. Cardinality(Holders(r)) = active[r] /\ active[r] <= config.max /\ active[r] \in Nat
    BY <2>2 DEF IInv, ShapeInv, ActiveMatchesHolders, CapOK, TypeOK
  <2>5. Cardinality(OpenFrom(ip)) \in Nat
    BY <2>3, FS_CardinalityType
  <2> QED BY <1>1, <2>3, <2>4, <2>5
<1> QED BY <1>2, <1>3

\* A ledger bounds the charges by a burst and the rate.
LEMMA LedgerBounds ==
  ASSUME NEW n \in Nat, NEW tokens \in Nat, NEW t \in Nat, NEW lim \in [rate : Nat, burst : Nat],
         clock \in Nat, t <= clock,
         Paid(n, tokens, lim, t) \/ PaidByRefills(n, lim.rate)
  PROVE  OneToken * n <= lim.burst + lim.rate * clock
<1>1. PICK m \in Nat : m = OneToken * n
  BY ProtectionConstants
<1>2. lim.rate \in Nat /\ lim.burst \in Nat
  OBVIOUS
<1>3. PICK p \in Nat : p = lim.rate * t
  BY <1>2
<1>4. PICK q \in Nat : q = lim.rate * clock
  BY <1>2
<1>5. p <= q
  BY <1>2, <1>3, <1>4
<1> QED BY <1>1, <1>2, <1>3, <1>4, <1>5 DEF Paid, PaidByRefills

\* The ledgers bound the charges by burst and rate.
LEMMA RatesHold ==
  ASSUME IInv PROVE ChargedWithinRate
<1> SUFFICES ASSUME ~ reloaded, NEW ip \in IPs, NEW k \in Kinds, ~ raced[ip], ~ doubled[ip],
                    config.limit[k].rate > 0
             PROVE  OneToken * charged[ip][k] <=
                      config.limit[k].burst + config.limit[k].rate * clock
  BY DEF ChargedWithinRate
<1>1. Ledger(ip, k)
  BY DEF IInv, LedgerOK
<1>2. charged[ip][k] \in Nat /\ clock \in Nat /\ config \in Configs
  BY DEF IInv, ShapeInv, TypeOK
<1>3. config.limit[k] \in [rate : Nat, burst : Nat]
  BY <1>2, ConfigFields
<1>4. CASE table[ip] = NoRef
  <2>1. PaidByRefills(charged[ip][k], config.limit[k].rate)
    BY <1>1, <1>4 DEF Ledger
  <2>2. 0 \in Nat /\ 0 <= clock
    BY <1>2
  <2> QED BY <1>2, <1>3, <2>1, <2>2, LedgerBounds
<1>5. CASE table[ip] # NoRef
  <2> DEFINE b == bucket[table[ip]][k]
  <2>1. b.tokens \in Nat /\ b.last \in Nat /\ b.last <= clock
    BY <1>5 DEF IInv, ShapeInv, TypeOK, TimesOK, Buckets
  <2>2. EntryLedger(charged[ip][k], table[ip], k)
    BY <1>1, <1>5 DEF Ledger
  <2>3. PICK t \in Nat : t <= clock /\ Paid(charged[ip][k], b.tokens, config.limit[k], t)
    <3>1. \A d \in Conns : req[d].now \in Nat /\ req[d].now <= clock
      BY DEF IInv, ShapeInv, TypeOK, TimesOK
    <3> QED BY <2>1, <2>2, <3>1 DEF EntryLedger
  <2> QED BY <1>2, <1>3, <2>1, <2>3, LedgerBounds
<1> QED BY <1>4, <1>5

\* The invariant gives the claim on the penalty box.
LEMMA BoxHolds ==
  ASSUME IInv PROVE BoxedIsBlocked
BY DEF IInv, BoxOK, BoxedIsBlocked, StillBoxed, Admitting, Holding, Kinds

\* The cap per address, both rates over time and the penalty box hold for any
\* number of connections and addresses and any limits, however checks, closes
\* and sweeps interleave, between the CASes of a refill too.  Exempt are an
\* address whose entry the sweep evicted under a check (the cap, the rates and
\* the box) and one that two checks credited the same interval (the rates), and
\* everything behind a reload (protection.rs check_at, refill_and_consume,
\* evict_at).
THEOREM LimitsHoldAlways == Spec => []LimitsHold
<1>1. IInv => LimitsHold
  BY CapHolds, RatesHold, BoxHolds DEF LimitsHold
<1>2. Init /\ [][Next]_vars => []IInv
  BY IInvInit, IInvNext, PTL
<1> QED BY <1>1, <1>2, PTL DEF Spec

----------------------------------------------------------------------------
(* The report                                                              *)

\* The projection of the report finds a token where a check does, if the burst
\* admits one at all; if not, it finds none.
LEMMA ProjectionAgrees ==
  ASSUME NEW b \in Bucket, NEW now \in Nat, NEW lim \in [rate : Nat, burst : Nat]
  PROVE  /\ lim.burst >= OneToken =>
              (Projected(b, now, lim) < OneToken <=> ~ CanPay(b, now, lim))
         /\ lim.burst < OneToken => Projected(b, now, lim) < OneToken
<1>1. /\ b.tokens \in Nat /\ b.last \in Nat /\ OneToken \in Nat
      /\ lim.rate \in Nat /\ lim.burst \in Nat
  BY ProtectionConstants DEF Bucket
<1>2. CASE now > b.last
  <2>1. PICK more \in Nat : more = (now - b.last) * lim.rate
    <3>1. now - b.last \in Nat
      BY <1>1, <1>2
    <3> QED BY <1>1, <3>1
  <2>2. PICK t \in Nat : t = Smaller(b.tokens + more, lim.burst)
    BY <1>1 DEF Smaller
  <2>3. CanPay(b, now, lim) <=> OneToken <= t
    BY <1>2, <2>1, <2>2 DEF CanPay
  <2>4. Projected(b, now, lim) = t
    BY <1>2, <2>1, <2>2 DEF Projected
  <2>5. t <= lim.burst
    BY <1>1, <2>1, <2>2 DEF Smaller
  <2> QED BY <1>1, <2>3, <2>4, <2>5
<1>3. CASE ~ (now > b.last)
  <2>1. CanPay(b, now, lim) <=> OneToken <= b.tokens
    BY <1>3 DEF CanPay
  <2>2. Projected(b, now, lim) = Smaller(b.tokens, lim.burst)
    BY <1>1, <1>3 DEF Projected
  <2> QED BY <1>1, <2>1, <2>2 DEF Smaller
<1> QED BY <1>2, <1>3

\* blockedIps() names an address exactly when a connection that passes the static
\* checks would be refused, under the reason it would be refused for, whatever has
\* happened to its entry; where a burst is below one connection, it may say that
\* the rate is exceeded too soon (protection.rs blocked_ips, check_at).
THEOREM ReportAgreesAlways == Spec => []ReportAgrees
<1>1. ShapeInv => ReportAgrees
  <2> SUFFICES ASSUME ShapeInv, NEW ip \in IPs, NEW hello \in Hellos, table[ip] # NoRef,
                      StaticVerdict(config, ip, hello) = "check",
                      ~ (Reported(table[ip]).rate /\ BurstTooSmall)
               PROVE  NextVerdict(ip, hello, table[ip]) = Announced(Reported(table[ip]))
    BY DEF ReportAgrees
  <2> DEFINE r == table[ip]
             boxed == Boxed(r, clock, config)
             capped == config.max > 0 /\ active[r] >= config.max
             limited == \E k \in Kinds :
               config.limit[k].rate > 0
                 /\ Projected(bucket[r][k], clock, config.limit[k]) < OneToken
             broke == \E k \in Kinds :
               config.limit[k].rate > 0 /\ ~ CanPay(bucket[r][k], clock, config.limit[k])
  <2>1. r \in Refs /\ \A k \in Kinds : bucket[r][k] \in Bucket
    BY DEF ShapeInv, TypeOK, Buckets, Bucket
  <2>2. clock \in Nat /\ config \in Configs
    BY DEF ShapeInv, TypeOK
  <2>3. \A k \in Kinds : config.limit[k] \in [rate : Nat, burst : Nat]
    BY <2>2, ConfigFields
  <2>4. Reported(r) = [penalty |-> boxed, rate |-> ~ boxed /\ limited,
                       concurrency |-> ~ boxed /\ config.max > 0 /\ active[r] >= config.max]
    BY DEF Reported
  <2>5. /\ Reported(r).penalty = boxed
        /\ Reported(r).rate = (~ boxed /\ limited)
        /\ Reported(r).concurrency = (~ boxed /\ config.max > 0 /\ active[r] >= config.max)
    BY <2>4
  <2>6. boxed \/ (limited <=> broke)
    <3>1. \A k \in Kinds :
            /\ config.limit[k].burst \in Nat
            /\ config.limit[k].burst >= OneToken =>
                 (Projected(bucket[r][k], clock, config.limit[k]) < OneToken
                    <=> ~ CanPay(bucket[r][k], clock, config.limit[k]))
            /\ config.limit[k].burst < OneToken =>
                 Projected(bucket[r][k], clock, config.limit[k]) < OneToken
      BY <2>1, <2>2, <2>3, ProjectionAgrees
    <3>2. CASE ~ BurstTooSmall
      <4>1. OneToken \in Nat
        BY ProtectionConstants
      <4>2. \A k \in Kinds : config.limit[k].rate > 0 => config.limit[k].burst >= OneToken
        BY <3>1, <3>2, <4>1 DEF BurstTooSmall
      <4> QED BY <3>1, <4>2
    <3>3. CASE BurstTooSmall
      <4>1. limited
        BY <3>1, <3>3 DEF BurstTooSmall
      <4>2. boxed
        BY <2>5, <3>3, <4>1
      <4> QED BY <4>2
    <3> QED BY <3>2, <3>3
  <2>7. NextVerdict(ip, hello, r) = IF boxed THEN "penalty" ELSE IF broke THEN "rate"
                                    ELSE IF capped THEN "concurrency" ELSE "allow"
    BY DEF NextVerdict
  <2> HIDE DEF boxed, limited, broke
  <2>8. CASE boxed
    BY <2>5, <2>7, <2>8 DEF Announced
  <2>9. CASE ~ boxed /\ limited
    BY <2>5, <2>6, <2>7, <2>9 DEF Announced
  <2>10. CASE ~ boxed /\ ~ limited
    BY <2>5, <2>6, <2>7, <2>10 DEF Announced
  <2> QED BY <2>8, <2>9, <2>10
<1> QED BY <1>1, ShapeAlways, PTL
=============================================================================
