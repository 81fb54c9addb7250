---------------------------- MODULE Protection ----------------------------
(***************************************************************************)
(* Per-listener connection protection (src/protection.rs): the checks one  *)
(* connection goes through, the per-IP state they share, its release when  *)
(* the connection closes, the 60 s eviction sweep, and a hot swap of the   *)
(* configuration at any moment.                                            *)
(*                                                                         *)
(* IpState values live on a heap of references, as the Arcs in the code    *)
(* do: the table maps an IP to a reference, and a check or an open         *)
(* connection keeps the reference it got even if the sweep drops the table *)
(* entry meanwhile.  Checks of several connections interleave between the  *)
(* table lookup and each per-IP test, and between the steps that one      *)
(* refill_and_consume takes on a bucket: the load of the timestamp, the    *)
(* CAS of the tokens that wins, the CAS of the timestamp and the CAS that  *)
(* takes a token.  A CAS that loses changes nothing and starts again, so   *)
(* it is left out here; TokenBucket has every access of the loops.         *)
(***************************************************************************)
EXTENDS Integers, FiniteSets

CONSTANTS
  Conns,        \* connection slots (a closed one is used again)
  Peers,        \* source addresses as the listener reports them
  IPs,          \* canonical addresses
  Canonical,    \* IpAddr::to_canonical: [Peers -> IPs]
  Hellos,       \* what the ClientHello peek can report
  Configs,      \* the ProtectionConfig snapshots
  InitConfigs,  \* those the listener may start with
  Reloads,      \* of a snapshot, those a reload may replace it by
  Refs,         \* heap locations for IpState
  NoRef,
  OneToken,     \* fixed-point units of one connection (1000)
  MaxTime,      \* of a snapshot, the bound on the clock
  MaxCharged    \* of a snapshot, the bound on the charges the history tells apart

\* The per-second and the sustained bucket of an address.
Kinds == {"rate", "sus"}

ASSUME ProtectionConstants ==
  /\ IsFiniteSet(Conns)
  /\ IPs # {} /\ Canonical \in [Peers -> IPs]
  /\ InitConfigs \subseteq Configs /\ InitConfigs # {}
  /\ Reloads \in [Configs -> SUBSET Configs]
  /\ \A cfg \in Configs :
       /\ cfg.limit \in [Kinds -> [rate : Nat, burst : Nat]]
       /\ cfg.penalty \in Nat /\ cfg.max \in Nat
  /\ NoRef \notin Refs
  /\ OneToken \in Nat \ {0}
  /\ MaxTime \in [Configs -> Nat]
  /\ MaxCharged \in [Configs -> Nat]

VARIABLES
  config,       \* the live ProtectionConfig (ArcSwap)
  table,        \* ip_table: IP -> reference
  bucket,       \* per reference and kind: the tokens and last_refill_ns
  active,       \* per reference: IpState.active
  deadline,     \* per reference: penalty_deadline_ns, 0 = not penalized
  clock,
  pc,           \* where each connection is
  req,          \* what its check read at the start
  ref,          \* the reference it holds
  op,           \* the locals of its check behind the penalty test
  sweep,        \* the eviction pass in progress
  charged,      \* history: connections charged to each IP's buckets
  doubled,      \* history: IPs that were credited an interval twice
  raced,        \* history: IPs whose entry was evicted under a running check
  reloaded      \* history: the configuration has been replaced

vars == <<config, table, bucket, active, deadline, clock, pc, req, ref, op, sweep,
          charged, doubled, raced, reloaded>>

Smaller(a, b) == IF a < b THEN a ELSE b
Larger(a, b) == IF a > b THEN a ELSE b

----------------------------------------------------------------------------
(* Buckets                                                                 *)

\* Whether a call that runs alone finds a token: nothing is written when no unit
\* accrued, not even the cap.
CanPay(b, now, lim) ==
  OneToken <= IF now > b.last THEN Smaller(b.tokens + (now - b.last) * lim.rate, lim.burst)
              ELSE b.tokens

\* IpState::new
FreshBuckets(cfg) ==
  [k \in Kinds |-> [tokens |-> cfg.limit[k].burst, last |-> clock]]

NoBuckets == [k \in Kinds |-> [tokens |-> 0, last |-> 0]]

\* Mutant of Projected: what the bucket held when it was last touched.
ProjectedStale(b, now, lim) == Smaller(b.tokens, lim.burst)

\* The lazy projection blocked_ips and evict_at use: what the bucket would
\* hold if it were refilled now.
Projected(b, now, lim) ==
  Smaller(b.tokens + (IF now > b.last THEN (now - b.last) * lim.rate ELSE 0), lim.burst)

----------------------------------------------------------------------------
(* References                                                              *)

Checking == {"penalty", "concurrency", "extend"} \cup Kinds

Holders(r) == {c \in Conns : pc[c] = "open" /\ ref[c] = r}

InUse(r, tbl, rf) == (\E i \in IPs : tbl[i] = r) \/ (\E c \in Conns : rf[c] = r)

FreeRefs == {r \in Refs : ~ InUse(r, table, ref)}

\* A reference nothing holds any more is freed (the last Arc is dropped).
Freed(r, tbl, rf) == r # NoRef /\ ~ InUse(r, tbl, rf)

AnyConfig == CHOOSE cfg \in InitConfigs : TRUE

NoReq == [ip |-> CHOOSE i \in IPs : TRUE, cfg |-> AnyConfig, now |-> 0, boxedUntil |-> 0]

\* The locals before a bucket is touched: the check is boxed or not.
Fresh(boxed) == [boxed |-> boxed, exceeded |-> FALSE, stage |-> "load", last |-> 0]

NoCharges == [k \in Kinds |-> 0]

NoSweep == [cfg |-> AnyConfig, now |-> 0, todo |-> {}]

Init ==
  /\ config \in InitConfigs
  /\ table = [i \in IPs |-> NoRef]
  /\ bucket = [r \in Refs |-> NoBuckets]
  /\ active = [r \in Refs |-> 0]
  /\ deadline = [r \in Refs |-> 0]
  /\ clock = 0
  /\ pc = [c \in Conns |-> "idle"]
  /\ req = [c \in Conns |-> NoReq]
  /\ ref = [c \in Conns |-> NoRef]
  /\ op = [c \in Conns |-> Fresh(FALSE)]
  /\ sweep = NoSweep
  /\ charged = [i \in IPs |-> NoCharges]
  /\ doubled = [i \in IPs |-> FALSE]
  /\ raced = [i \in IPs |-> FALSE]
  /\ reloaded = FALSE

----------------------------------------------------------------------------
(* check_at                                                                *)

\* Checks 1 to 4, which read nothing but the snapshot and the ClientHello.
StaticVerdict(cfg, ip, hello) ==
  CASE ip \in cfg.allowlist -> "bypass"
    [] ip \notin cfg.allowlist /\ ip \in cfg.blocklist -> "block"
    [] OTHER ->
         IF \/ (cfg.ja3 # {} \/ cfg.ja4 # {}) /\ ~ hello.complete
            \/ hello.ja3 \in cfg.ja3
            \/ hello.ja4 \in cfg.ja4
            \/ cfg.requireSni /\ ~ hello.sni
           THEN "block" ELSE "check"

Boxed(r, now, cfg) == cfg.penalty > 0 /\ deadline[r] > 0 /\ now < deadline[r]

BoxedUntil(ip) ==
  IF table[ip] # NoRef /\ Boxed(table[ip], clock, config) THEN deadline[table[ip]] ELSE 0

\* A connection arrives: the check reads the clock and the configuration
\* snapshot and runs the static checks; a blocked one is gone at once.
Begin(c) ==
  \E peer \in Peers, hello \in Hellos :
    LET ip == Canonical[peer]
        verdict == StaticVerdict(config, ip, hello)
    IN  /\ pc[c] = "idle"
        /\ verdict # "block"
        /\ pc' = [pc EXCEPT ![c] = IF verdict = "bypass" THEN "bypassed" ELSE "get"]
        /\ req' = [req EXCEPT ![c] = IF verdict = "bypass" THEN NoReq ELSE
                     [ip |-> ip, cfg |-> config, now |-> clock,
                      boxedUntil |-> BoxedUntil(ip)]]
        /\ UNCHANGED <<config, table, bucket, active, deadline, clock, ref, op, sweep,
                       charged, doubled, raced, reloaded>>

\* get_or_create_state: the lookup under the shard lock ...
Get(c) ==
  LET r == table[req[c].ip]
  IN  /\ pc[c] = "get"
      /\ ref' = [ref EXCEPT ![c] = r]
      /\ pc' = [pc EXCEPT ![c] = IF r = NoRef THEN "insert" ELSE "penalty"]
      /\ UNCHANGED <<config, table, bucket, active, deadline, clock, req, op, sweep,
                     charged, doubled, raced, reloaded>>

\* ... and, on a miss, entry().or_insert_with(): another check may have
\* inserted first, and then its state is the one used.
Insert(c) ==
  LET ip == req[c].ip
  IN  /\ pc[c] = "insert"
      /\ pc' = [pc EXCEPT ![c] = "penalty"]
      /\ \/ /\ table[ip] # NoRef
            /\ ref' = [ref EXCEPT ![c] = table[ip]]
            /\ UNCHANGED <<table, bucket>>
         \/ /\ table[ip] = NoRef
            /\ FreeRefs # {}
            /\ LET r == CHOOSE x \in FreeRefs : TRUE
               IN  /\ table' = [table EXCEPT ![ip] = r]
                   /\ ref' = [ref EXCEPT ![c] = r]
                   /\ bucket' = [bucket EXCEPT ![r] = FreshBuckets(req[c].cfg)]
      /\ UNCHANGED <<config, active, deadline, clock, req, op, sweep,
                     charged, doubled, raced, reloaded>>

\* The check ends in Block: the connection drops its reference.
Refuse(c) ==
  /\ pc' = [pc EXCEPT ![c] = "idle"]
  /\ req' = [req EXCEPT ![c] = NoReq]
  /\ ref' = [ref EXCEPT ![c] = NoRef]
  /\ op' = [op EXCEPT ![c] = Fresh(FALSE)]

\* Mutant of Extended: a plain store.
ExtendedByStore(r, now, cfg) == now + cfg.penalty

\* penalty_deadline_ns.fetch_max(now + penalty)
Extended(r, now, cfg) == Larger(deadline[r], now + cfg.penalty)

\* bucket' and deadline' of reference r become b and d, unless dropping c's
\* reference freed it.
Settle(c, b, d) ==
  LET r == ref[c]
      gone == Freed(r, table, [ref EXCEPT ![c] = NoRef])
  IN  /\ bucket' = [bucket EXCEPT ![r] = IF gone THEN NoBuckets ELSE b]
      /\ deadline' = [deadline EXCEPT ![r] = IF gone THEN 0 ELSE d]

\* Check 5: a boxed IP is refused in the end, and both buckets are debited first
\* to see whether it goes on exceeding.
Penalty(c) ==
  /\ pc[c] = "penalty"
  /\ op' = [op EXCEPT ![c] = Fresh(Boxed(ref[c], req[c].now, req[c].cfg))]
  /\ pc' = [pc EXCEPT ![c] = "rate"]
  /\ UNCHANGED <<config, table, bucket, active, deadline, clock, req, ref, sweep,
                 charged, doubled, raced, reloaded>>

\* The limit that the check of c applies to a bucket of kind k.
Limit(c, k) == req[c].cfg.limit[k]

\* Checks 6 and 7, or the debits of check 5: c is at stage s of the bucket k.
At(c, k, s) == pc[c] = k /\ op[c].stage = s

\* Where the check goes on behind the bucket k.
Behind(c, k) ==
  CASE k = "rate" -> "sus"
    [] k = "sus" -> IF op[c].boxed THEN "extend" ELSE "concurrency"

MoveOn(c, k, exceeded) ==
  /\ pc' = [pc EXCEPT ![c] = Behind(c, k)]
  /\ op' = [op EXCEPT ![c] = [Fresh(op[c].boxed) EXCEPT !.exceeded = exceeded]]

\* The limit is switched off.
SkipBucket(c, k) ==
  /\ At(c, k, "load") /\ Limit(c, k).rate = 0
  /\ MoveOn(c, k, op[c].exceeded)
  /\ UNCHANGED <<config, table, bucket, active, deadline, clock, req, ref, sweep,
                 charged, doubled, raced, reloaded>>

\* refill_and_consume: last_refill_ns.load(), and the way round the refill when
\* nothing accrued.
LoadLast(c, k) ==
  LET last == bucket[ref[c]][k].last
  IN  /\ At(c, k, "load") /\ Limit(c, k).rate > 0
      /\ op' = [op EXCEPT ![c].stage = IF req[c].now > last THEN "credit" ELSE "consume",
                          ![c].last = last]
      /\ UNCHANGED <<config, table, bucket, active, deadline, clock, pc, req, ref, sweep,
                     charged, doubled, raced, reloaded>>

\* The interval that c is about to credit was credited before: the timestamp has
\* moved since c loaded it, or is about to.
CreditedBefore(c, k) ==
  \/ bucket[ref[c]][k].last # op[c].last
  \/ \E d \in Conns : ref[d] = ref[c] /\ At(d, k, "advance")

\* The CAS that adds what accrued since the timestamp that was loaded ...
Credit(c, k) ==
  LET r == ref[c]
      lim == Limit(c, k)
  IN  /\ At(c, k, "credit")
      /\ bucket' = [bucket EXCEPT ![r][k].tokens =
                      Smaller(@ + (req[c].now - op[c].last) * lim.rate, lim.burst)]
      /\ op' = [op EXCEPT ![c].stage = "advance"]
      /\ doubled' = [doubled EXCEPT ![req[c].ip] = @ \/ CreditedBefore(c, k)]
      /\ charged' = [charged EXCEPT ![req[c].ip] = IF CreditedBefore(c, k) THEN NoCharges ELSE @]
      /\ UNCHANGED <<config, table, active, deadline, clock, pc, req, ref, sweep,
                     raced, reloaded>>

\* ... and the one that moves the timestamp on, its result ignored.
Advance(c, k) ==
  /\ At(c, k, "advance")
  /\ bucket' = [bucket EXCEPT ![ref[c]][k].last = IF @ = op[c].last THEN req[c].now ELSE @]
  /\ op' = [op EXCEPT ![c].stage = "consume"]
  /\ UNCHANGED <<config, table, active, deadline, clock, pc, req, ref, sweep,
                 charged, doubled, raced, reloaded>>

\* Charges are counted as long as a property speaks of them.
Charge(c, k) ==
  LET ip == req[c].ip
  IN  charged' = IF raced[ip] \/ doubled[ip] THEN charged
                 ELSE [charged EXCEPT ![ip][k] = Smaller(@ + 1, MaxCharged[config])]

\* The consume loop takes a token ...
Consume(c, k) ==
  LET r == ref[c]
  IN  /\ At(c, k, "consume") /\ bucket[r][k].tokens >= OneToken
      /\ bucket' = [bucket EXCEPT ![r][k].tokens = @ - OneToken]
      /\ MoveOn(c, k, op[c].exceeded)
      /\ Charge(c, k)
      /\ UNCHANGED <<config, table, active, deadline, clock, req, ref, sweep,
                     doubled, raced, reloaded>>

\* ... or finds none: the check is over, unless it is a boxed one, which goes on to
\* the other bucket.
Exhausted(c, k) ==
  /\ At(c, k, "consume") /\ bucket[ref[c]][k].tokens < OneToken
  /\ IF op[c].boxed THEN MoveOn(c, k, TRUE)
     ELSE /\ pc' = [pc EXCEPT ![c] = "extend"]
          /\ op' = [op EXCEPT ![c].exceeded = TRUE]
  /\ UNCHANGED <<config, table, bucket, active, deadline, clock, req, ref, sweep,
                 charged, doubled, raced, reloaded>>

\* The penalty starts or grows if the IP exceeded a limit, and the check ends.
Extend(c) ==
  LET r == ref[c]
      cfg == req[c].cfg
  IN  /\ pc[c] = "extend"
      /\ Settle(c, bucket[r], IF op[c].exceeded /\ cfg.penalty > 0
                                THEN Extended(r, req[c].now, cfg) ELSE deadline[r])
      /\ Refuse(c)
      /\ UNCHANGED <<config, table, active, clock, sweep, charged, doubled, raced, reloaded>>

SlotFree(r, max) == max = 0 \/ active[r] < max

\* Check 8: the atomic test-and-increment of the active count.
Concurrency(c) ==
  LET r == ref[c]
      max == req[c].cfg.max
  IN  /\ pc[c] = "concurrency"
      /\ \/ /\ SlotFree(r, max)
            /\ active' = [active EXCEPT ![r] = @ + 1]
            /\ pc' = [pc EXCEPT ![c] = "open"]
            /\ UNCHANGED <<bucket, deadline, req, ref, op>>
         \/ /\ ~ SlotFree(r, max)
            /\ Settle(c, bucket[r], deadline[r])
            /\ Refuse(c)
            /\ UNCHANGED active
      /\ UNCHANGED <<config, table, clock, sweep, charged, doubled, raced, reloaded>>

\* Mutant of Released: the entry the table holds for the IP now.
ReleasedFromTable(c) == table[req[c].ip]

\* The state a closing connection releases.
Released(c) == ref[c]

\* The connection closes: ActiveGuard releases the reference it holds
\* (saturating_sub), whatever the table says by now.
Close(c) ==
  /\ \/ /\ pc[c] = "open"
        /\ active' = [active EXCEPT ![Released(c)] = IF @ > 0 THEN @ - 1 ELSE 0]
        /\ Settle(c, bucket[ref[c]], deadline[ref[c]])
     \/ /\ pc[c] = "bypassed"
        /\ UNCHANGED <<active, bucket, deadline>>
  /\ Refuse(c)
  /\ UNCHANGED <<config, table, clock, sweep, charged, doubled, raced, reloaded>>

----------------------------------------------------------------------------
(* The eviction sweep and reloads                                          *)

\* A bucket that would not be full yet if it were refilled now.
Refilling(r, now, cfg, k) ==
  cfg.limit[k].rate > 0 /\ Projected(bucket[r][k], now, cfg.limit[k]) < cfg.limit[k].burst

\* Mutant of Kept: a sustained bucket that is not full is forgotten.
KeptIgnoringSustained(r, now, cfg) ==
  Boxed(r, now, cfg) \/ active[r] > 0 \/ Refilling(r, now, cfg, "rate")

\* What evict_at keeps: a boxed IP, one with connections, one whose buckets
\* would not be full again.
Kept(r, now, cfg) ==
  Boxed(r, now, cfg) \/ active[r] > 0 \/ \E k \in Kinds : Refilling(r, now, cfg, k)

\* A pass reads the clock and the configuration once ...
EvictBegin ==
  /\ sweep.todo = {}
  /\ \E i \in IPs : table[i] # NoRef
  /\ sweep' = [cfg |-> config, now |-> clock, todo |-> IPs]
  /\ UNCHANGED <<config, table, bucket, active, deadline, clock, pc, req, ref, op,
                 charged, doubled, raced, reloaded>>

\* ... and visits the entries one by one (DashMap::retain); one inserted during
\* the pass is visited or not.
EvictEntry(ip) ==
  LET r == table[ip]
      left == sweep.todo \ {ip}
      tbl == [table EXCEPT ![ip] = NoRef]
      evicted == r # NoRef /\ ~ Kept(r, sweep.now, sweep.cfg)
      gone == evicted /\ Freed(r, tbl, ref)
      held == evicted /\ \E c \in Conns : pc[c] \in Checking /\ ref[c] = r
  IN  /\ ip \in sweep.todo
      /\ sweep' = IF left = {} THEN NoSweep ELSE [sweep EXCEPT !.todo = left]
      /\ table' = IF evicted THEN tbl ELSE table
      /\ bucket' = IF gone THEN [bucket EXCEPT ![r] = NoBuckets] ELSE bucket
      /\ deadline' = IF gone THEN [deadline EXCEPT ![r] = 0] ELSE deadline
      /\ raced' = [raced EXCEPT ![ip] = @ \/ held]
      /\ charged' = [charged EXCEPT ![ip] = IF held THEN NoCharges ELSE @]
      /\ UNCHANGED <<config, active, clock, pc, req, ref, op, doubled, reloaded>>

\* updateConfig stores a new snapshot; checks in flight keep the old one.
UpdateConfig ==
  /\ \E cfg \in Reloads[config] : config' = cfg
  /\ reloaded' = TRUE
  /\ UNCHANGED <<table, bucket, active, deadline, clock, pc, req, ref, op, sweep,
                 charged, doubled, raced>>

Tick ==
  /\ clock < MaxTime[config]
  /\ clock' = clock + 1
  /\ UNCHANGED <<config, table, bucket, active, deadline, pc, req, ref, op, sweep,
                 charged, doubled, raced, reloaded>>

Next ==
  \/ \E c \in Conns :
       \/ Begin(c) \/ Get(c) \/ Insert(c) \/ Penalty(c)
       \/ \E k \in Kinds : \/ SkipBucket(c, k) \/ LoadLast(c, k) \/ Credit(c, k)
                           \/ Advance(c, k) \/ Consume(c, k) \/ Exhausted(c, k)
       \/ Extend(c) \/ Concurrency(c) \/ Close(c)
  \/ EvictBegin
  \/ \E ip \in IPs : EvictEntry(ip)
  \/ UpdateConfig
  \/ Tick

Spec == Init /\ [][Next]_vars

----------------------------------------------------------------------------
(* Properties                                                              *)

Labels == {"idle", "bypassed", "get", "insert", "open"} \cup Checking

Buckets == [Kinds -> [tokens : Nat, last : Nat]]

Ops == [boxed : BOOLEAN, exceeded : BOOLEAN, last : Nat,
        stage : {"load", "credit", "advance", "consume"}]

\* The shape of the state; the counters are naturals, so none underflows.
TypeOK ==
  /\ config \in Configs
  /\ table \in [IPs -> Refs \cup {NoRef}]
  /\ bucket \in [Refs -> Buckets]
  /\ active \in [Refs -> Nat]
  /\ deadline \in [Refs -> Nat]
  /\ clock \in Nat
  /\ pc \in [Conns -> Labels]
  /\ req \in [Conns -> [ip : IPs, cfg : Configs, now : Nat, boxedUntil : Nat]]
  /\ ref \in [Conns -> Refs \cup {NoRef}]
  /\ op \in [Conns -> Ops]
  /\ sweep \in [cfg : Configs, now : Nat, todo : SUBSET IPs]
  /\ charged \in [IPs -> [Kinds -> Nat]]
  /\ doubled \in [IPs -> BOOLEAN]
  /\ raced \in [IPs -> BOOLEAN]

\* Every IpState counts exactly the open connections admitted through it, also
\* when the sweep removed it from the table or a reload changed the limits
\* while they were open ("so the decrement hits the same entry even if an
\* eviction ran between admission and close", protection.rs:404-405).
ActiveMatchesHolders == \A r \in Refs : active[r] = Cardinality(Holders(r))

\* An open connection's state stays in the table, where later checks of its IP
\* see it, unless the sweep removed it while a check had already looked it up.
HolderKeepsEntry ==
  \A c \in Conns : pc[c] = "open" => table[req[c].ip] = ref[c] \/ raced[req[c].ip]

\* The counts are exact and found: every IpState is well formed, counts its own
\* connections and stays where the next check of its IP looks (protection.rs
\* release, evict_at).
CountsExact == TypeOK /\ ActiveMatchesHolders /\ HolderKeepsEntry

OpenFrom(ip) == {c \in Conns : pc[c] = "open" /\ req[c].ip = ip}

\* maxConcurrentPerIp holds across table entries, as long as no eviction ran
\* under a check of that IP and no reload lowered it.
ConcurrencyCap ==
  \A ip \in IPs : config.max > 0 /\ ~ raced[ip] /\ ~ reloaded =>
    Cardinality(OpenFrom(ip)) <= config.max

\* Waiting for the sweep buys nothing: what an IP is charged over time stays
\* within one burst and the rate, although evicted entries start again with a
\* full burst ("an attacker cannot reset their sustained window by pausing
\* until eviction", protection.rs:544-545).  Two races are not covered: the
\* entry is evicted under a check that holds it, or two overlapping checks credit
\* an interval twice, between the CAS of the tokens and that of the timestamp.
ChargedWithinRate ==
  ~ reloaded => \A ip \in IPs, k \in Kinds :
    ~ raced[ip] /\ ~ doubled[ip] /\ config.limit[k].rate > 0 =>
      OneToken * charged[ip][k] <= config.limit[k].burst + config.limit[k].rate * clock

\* A penalty is never shortened by a check that read the clock earlier
\* ("fetch_max prevents inter-thread now_ns skew from regressing a deadline",
\* protection.rs:334-335).
PenaltyNeverShortened ==
  [][\A r \in Refs :
       InUse(r, table, ref) /\ InUse(r, table', ref') => deadline'[r] >= deadline[r]]_vars

\* A connection whose check began while its IP was boxed is admitted only once
\* that deadline has passed: no sweep or concurrent check lets it out early (a
\* reload may).
BoxedIsBlocked ==
  \A c \in Conns : pc[c] = "open" /\ ~ raced[req[c].ip] /\ ~ reloaded =>
    clock >= req[c].boxedUntil

\* The limits hold over checks, closes and sweeps of any number of addresses, up
\* to the two races named above: the cap, the two rates and the penalty box
\* (protection.rs check_at, evict_at).
LimitsHold == ConcurrencyCap /\ ChargedWithinRate /\ BoxedIsBlocked

\* What the next check of an IP with entry r would answer to a ClientHello, run
\* alone: the static checks first, then the entry.
NextVerdict(ip, hello, r) ==
  LET static == StaticVerdict(config, ip, hello)
  IN  IF static = "bypass" THEN "allow"
      ELSE IF static = "block" THEN "static"
      ELSE IF Boxed(r, clock, config) THEN "penalty"
      ELSE IF \E k \in Kinds : /\ config.limit[k].rate > 0
                               /\ ~ CanPay(bucket[r][k], clock, config.limit[k])
        THEN "rate"
      ELSE IF config.max > 0 /\ active[r] >= config.max THEN "concurrency"
      ELSE "allow"

\* blocked_ips(): the three lists, as one record of booleans for an entry.
Reported(r) ==
  LET boxed == Boxed(r, clock, config)
      limited == \E k \in Kinds :
        config.limit[k].rate > 0 /\ Projected(bucket[r][k], clock, config.limit[k]) < OneToken
  IN  [penalty |-> boxed,
       rate |-> ~ boxed /\ limited,
       concurrency |-> ~ boxed /\ config.max > 0 /\ active[r] >= config.max]

\* The refusal that a report announces (rate before concurrency).
Announced(said) ==
  CASE said.penalty -> "penalty"
    [] ~ said.penalty /\ said.rate -> "rate"
    [] ~ said.penalty /\ ~ said.rate /\ said.concurrency -> "concurrency"
    [] OTHER -> "allow"

\* A limit that is on and whose burst is less than one connection.
BurstTooSmall ==
  \E k \in Kinds : config.limit[k].rate > 0 /\ config.limit[k].burst < OneToken

\* blockedIps() reports an IP exactly when a connection from it would be refused
\* for its address's own behaviour, under the reason it would be refused for,
\* whatever reloads, sweeps and half-done checks have left behind
\* (protection.rs blocked_ips).  Not covered: what the static checks decide
\* alone (the report does not look at the lists, so an IP that a reload
\* allowlisted stays in it), and a burst below one connection, which the
\* report applies at once and a check only when a unit accrues: there it may
\* say "rate" of an IP that still pays.
ReportAgrees ==
  \A ip \in IPs, hello \in Hellos :
    table[ip] # NoRef /\ StaticVerdict(config, ip, hello) = "check" =>
      LET said == Reported(table[ip])
      IN  \/ NextVerdict(ip, hello, table[ip]) = Announced(said)
          \/ said.rate /\ BurstTooSmall

\* Refuted by TLC after a reload that allowlists an IP with an entry: "they'd be
\* blocked on next connect" (protection.rs:470).
ReportNamesRefused ==
  \A ip \in IPs, hello \in Hellos :
    table[ip] # NoRef /\ Announced(Reported(table[ip])) # "allow" =>
      NextVerdict(ip, hello, table[ip]) # "allow"

============================================================================
