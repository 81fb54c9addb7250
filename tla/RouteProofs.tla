---------------------------- MODULE RouteProofs ----------------------------
(***************************************************************************)
(* Theorems about the routes of a proxy and the rate limit of each.        *)
(*                                                                         *)
(* TokenBucket, for every number of workers, every rate and every set of   *)
(* ceilings: what the bucket holds and hands out adds up, however the      *)
(* atomic accesses of its callers interleave.                              *)
(*                                                                         *)
(* RouteTable, for any names, config files, connections and eviction       *)
(* threshold: a name is served by its own route, a route enforces the      *)
(* policy its spec asks for now, the cache of TLS configurations loses     *)
(* nothing that is live and stays bounded, and a reload that leaves a      *)
(* certificate alone leaves its sessions alone.                            *)
(***************************************************************************)
EXTENDS TokenBucket, RouteTable, FiniteSetTheorems, WellFoundedInduction, TLAPS

----------------------------------------------------------------------------
(* The token bucket                                                        *)

\* The refill timestamp never runs ahead of the clock.
LastRefillNotAhead == lastRefill <= clock

\* A worker that found something to refill read a timestamp older than its
\* own clock reading, which is itself not in the future.
RefillIsDue ==
  \A w \in Workers :
    /\ loc[w].now <= clock
    /\ pc[w] \in {"loadRefill", "casRefill", "casLast"} => loc[w].last < loc[w].now

\* A worker about to pay read enough units for one connection.
PayerCanPay ==
  \A w \in Workers : pc[w] = "casConsume" => loc[w].old >= OneToken

BucketInv ==
  /\ BucketTypeOK
  /\ BucketLedger
  /\ TokensWithinBurst
  /\ LastRefillNotAhead
  /\ RefillIsDue
  /\ PayerCanPay

\* A refill is a natural number of units, and no time accrues nothing.
LEMMA RefillNat ==
  ASSUME NEW e \in Nat
  PROVE  /\ RefillUnits(e) \in Nat
         /\ e = 0 => RefillUnits(e) = 0
<1>1. e * RateNum \in Nat
  BY BucketConstants
<1>2. e = 0 => e * RateNum = 0
  BY BucketConstants
<1> QED
  BY <1>1, <1>2, BucketConstants DEF RefillUnits

\* Elapsed time is a natural number, and zero unless the clock moved on.
LEMMA ElapsedNat ==
  ASSUME NEW now \in Nat, NEW last \in Nat
  PROVE  /\ Elapsed(now, last) \in Nat
         /\ Elapsed(now, last) # 0 => last < now
BY DEF Elapsed

\* The capped sum is a natural no larger than the ceiling of the call.
LEMMA CappedBound ==
  ASSUME NEW old \in Nat, NEW refill \in Nat, NEW burst \in Nat
  PROVE  Capped(old, refill, burst) \in Nat /\ Capped(old, refill, burst) <= burst
BY DEF Capped, Smaller

\* The strengthened invariant holds initially.
LEMMA InitBucket == BucketInit => BucketInv
BY BucketConstants
   DEF BucketInit, BucketInv, BucketTypeOK, BucketLedger, TokensWithinBurst,
       LastRefillNotAhead, RefillIsDue, PayerCanPay, NoCall, CallAt, Locs, Labels

\* Every step preserves the strengthened invariant.
LEMMA StepBucket == BucketInv /\ [BucketNext]_bucketVars => BucketInv'
<1> SUFFICES ASSUME BucketInv, [BucketNext]_bucketVars
             PROVE  BucketInv'
  OBVIOUS
<1> USE BucketConstants
<1> USE DEF BucketInv
<1>1. ASSUME NEW w \in Workers, Call(w)
      PROVE  BucketInv'
  <2>1. BucketTypeOK'
    BY <1>1 DEF Call, CallAt, Goto, BucketTypeOK, Locs, Labels
  <2>2. /\ loc'[w].now = clock
        /\ \A x \in Workers : x # w => loc'[x] = loc[x] /\ pc'[x] = pc[x]
        /\ pc'[w] = "loadLast"
    BY <1>1 DEF Call, CallAt, Goto, BucketTypeOK, Locs
  <2>3. RefillIsDue' /\ PayerCanPay'
    BY <1>1, <2>2 DEF Call, RefillIsDue, PayerCanPay, BucketTypeOK
  <2> QED
    BY <1>1, <2>1, <2>3 DEF Call, BucketLedger, TokensWithinBurst, LastRefillNotAhead
<1>2. ASSUME NEW w \in Workers, LoadLast(w)
      PROVE  BucketInv'
  <2> DEFINE e == Elapsed(loc[w].now, lastRefill)
  <2>1. loc[w].now \in Nat /\ lastRefill \in Nat
    BY DEF BucketTypeOK, Locs
  <2>2. e \in Nat /\ (e # 0 => lastRefill < loc[w].now)
    BY <2>1, ElapsedNat
  <2>3. RefillUnits(e) \in Nat /\ (RefillUnits(e) # 0 => lastRefill < loc[w].now)
    BY <2>2, RefillNat
  <2> HIDE DEF e
  <2>4. /\ pc[w] = "loadLast"
        /\ loc' = [loc EXCEPT ![w] = CallAt(loc[w].now, loc[w].burst, lastRefill, RefillUnits(e))]
        /\ pc' = [pc EXCEPT ![w] = IF RefillUnits(e) = 0 THEN "loadConsume" ELSE "loadRefill"]
        /\ UNCHANGED <<tokens, lastRefill, clock, calls, consumed, credited>>
    BY <1>2 DEF LoadLast, Goto, e
  <2> DEFINE u == RefillUnits(e)
  <2> HIDE DEF u
  <2>5. u \in Nat /\ (u # 0 => lastRefill < loc[w].now)
    BY <2>3 DEF u
  <2>6. /\ loc' = [loc EXCEPT ![w] = CallAt(loc[w].now, loc[w].burst, lastRefill, u)]
        /\ pc' = [pc EXCEPT ![w] = IF u = 0 THEN "loadConsume" ELSE "loadRefill"]
    BY <2>4 DEF u
  <2>7. BucketTypeOK'
    BY <2>1, <2>4, <2>5, <2>6 DEF CallAt, BucketTypeOK, Locs, Labels
  <2>8. /\ loc'[w].now = loc[w].now
        /\ loc'[w].last = lastRefill
        /\ \A x \in Workers : x # w => loc'[x] = loc[x] /\ pc'[x] = pc[x]
        /\ pc'[w] = IF u = 0 THEN "loadConsume" ELSE "loadRefill"
    BY <2>6 DEF CallAt, BucketTypeOK, Locs
  <2>9. RefillIsDue' /\ PayerCanPay'
    BY <2>4, <2>5, <2>8 DEF RefillIsDue, PayerCanPay
  <2> QED
    BY <2>4, <2>7, <2>9 DEF BucketLedger, TokensWithinBurst, LastRefillNotAhead
<1>3. ASSUME NEW w \in Workers, LoadRefill(w)
      PROVE  BucketInv'
  BY <1>3 DEF LoadRefill, Goto, BucketTypeOK, Locs, Labels, BucketLedger,
       TokensWithinBurst, LastRefillNotAhead, RefillIsDue, PayerCanPay
<1>4. ASSUME NEW w \in Workers, CasRefill(w)
      PROVE  BucketInv'
  <2>1. loc[w].old \in Nat /\ loc[w].refill \in Nat /\ loc[w].burst \in Bursts /\ loc[w].burst \in Nat
    BY DEF BucketTypeOK, Locs
  <2> DEFINE new == Capped(loc[w].old, loc[w].refill, loc[w].burst)
  <2>2. new \in Nat /\ new <= loc[w].burst
    BY <2>1, CappedBound
  <2> HIDE DEF new
  <2>3. CASE CasWins(w)
    <3>0. tokens = loc[w].old
      BY <2>3 DEF CasWins
    <3>1. /\ pc[w] = "casRefill"
          /\ tokens' = new
          /\ credited' = credited + (new - tokens)
          /\ pc' = [pc EXCEPT ![w] = "casLast"]
          /\ UNCHANGED <<lastRefill, clock, loc, calls, consumed>>
      BY <1>4, <2>3 DEF CasRefill, Goto, new
    <3>2. BucketTypeOK'
      BY <2>2, <3>1 DEF BucketTypeOK, Labels
    <3>3. BucketLedger'
      <4>1. OneToken * consumed \in Int
        BY DEF BucketTypeOK
      <4> QED
        BY <2>2, <3>1, <4>1 DEF BucketLedger, BucketTypeOK
    <3> QED
      BY <2>1, <2>2, <3>1, <3>2, <3>3 DEF TokensWithinBurst, LastRefillNotAhead,
         RefillIsDue, PayerCanPay, BucketTypeOK
  <2>4. CASE ~ CasWins(w)
    BY <1>4, <2>4 DEF CasRefill, Retry, Goto, BucketTypeOK, Labels, BucketLedger,
       TokensWithinBurst, LastRefillNotAhead, RefillIsDue, PayerCanPay
  <2> QED
    BY <2>3, <2>4
<1>5. ASSUME NEW w \in Workers, CasLast(w)
      PROVE  BucketInv'
  BY <1>5 DEF CasLast, AdvancedRefill, Goto, BucketTypeOK, Locs, Labels, BucketLedger,
       TokensWithinBurst, LastRefillNotAhead, RefillIsDue, PayerCanPay
<1>6. ASSUME NEW w \in Workers, LoadConsume(w)
      PROVE  BucketInv'
  BY <1>6 DEF LoadConsume, CanPay, Goto, NoCall, CallAt, BucketTypeOK, Locs, Labels, BucketLedger,
       TokensWithinBurst, LastRefillNotAhead, RefillIsDue, PayerCanPay
<1>7. ASSUME NEW w \in Workers, CasConsume(w)
      PROVE  BucketInv'
  <2>1. CASE CasWins(w)
    <3>0. tokens = loc[w].old
      BY <2>1 DEF CasWins
    <3>1. /\ pc[w] = "casConsume"
          /\ tokens' = tokens - OneToken
          /\ consumed' = consumed + 1
          /\ pc' = [pc EXCEPT ![w] = "idle"]
          /\ loc' = [loc EXCEPT ![w] = NoCall]
          /\ UNCHANGED <<lastRefill, clock, calls, credited>>
      BY <1>7, <2>1, <3>0 DEF CasConsume, Goto
    <3>2. tokens >= OneToken
      BY <3>0, <3>1 DEF PayerCanPay
    <3>3. BucketTypeOK'
      BY <3>1, <3>2 DEF BucketTypeOK, Labels, Locs, NoCall, CallAt
    <3>4. BucketLedger'
      <4>1. OneToken * (consumed + 1) = OneToken * consumed + OneToken
        BY DEF BucketTypeOK
      <4>2. OneToken * consumed \in Int
        BY DEF BucketTypeOK
      <4> QED
        BY <3>1, <4>1, <4>2 DEF BucketLedger, BucketTypeOK
    <3>5. TokensWithinBurst'
      BY <3>1 DEF TokensWithinBurst, BucketTypeOK
    <3> QED
      BY <3>1, <3>3, <3>4, <3>5 DEF LastRefillNotAhead, RefillIsDue, PayerCanPay,
         BucketTypeOK, NoCall, CallAt
  <2>2. CASE ~ CasWins(w)
    BY <1>7, <2>2 DEF CasConsume, Goto, BucketTypeOK, Labels, BucketLedger,
       TokensWithinBurst, LastRefillNotAhead, RefillIsDue, PayerCanPay
  <2> QED
    BY <2>1, <2>2
<1>8. CASE Tick
  BY <1>8 DEF Tick, BucketTypeOK, Locs, BucketLedger, TokensWithinBurst,
     LastRefillNotAhead, RefillIsDue, PayerCanPay
<1>9. CASE UNCHANGED bucketVars
  BY <1>9 DEF bucketVars, BucketTypeOK, BucketLedger, TokensWithinBurst,
     LastRefillNotAhead, RefillIsDue, PayerCanPay
<1> QED
  BY <1>1, <1>2, <1>3, <1>4, <1>5, <1>6, <1>7, <1>8, <1>9 DEF BucketNext, Step

\* The strengthened invariant holds in every reachable state.
LEMMA BucketInvariant == BucketSpec => []BucketInv
BY InitBucket, StepBucket, PTL DEF BucketSpec

\* The counters, the clock and the workers' locals keep their types; a token count
\* in particular is never negative, as its u32 could not be.
THEOREM BucketTypes == BucketSpec => []BucketTypeOK
<1>1. BucketInv => BucketTypeOK
  BY DEF BucketInv
<1> QED
  BY <1>1, BucketInvariant, PTL

\* Whatever the workers' interleaving, the two CAS loops lose no update and hand out no
\* token twice, and the bucket is never above the largest configured ceiling, reloads
\* included (protection.rs refill_and_consume, router.rs try_acquire).
THEOREM BucketSoundHolds == BucketSpec => []BucketSound
<1>1. BucketInv => BucketSound
  BY DEF BucketInv, BucketSound
<1> QED
  BY <1>1, BucketInvariant, PTL

\* The refill timestamp only moves forward: the compare_exchange on
\* last_refill_ns never installs an older reading than the one it replaces.
THEOREM RefillClockHolds == BucketSpec => RefillClockMonotone
<1>1. BucketInv /\ [BucketNext]_bucketVars => [lastRefill' >= lastRefill]_bucketVars
  <2> SUFFICES ASSUME BucketInv, [BucketNext]_bucketVars
               PROVE  lastRefill' >= lastRefill
    OBVIOUS
  <2>1. lastRefill \in Nat
    BY DEF BucketInv, BucketTypeOK
  <2>2. ASSUME NEW w \in Workers, CasLast(w)
        PROVE  lastRefill' >= lastRefill
    BY <2>1, <2>2 DEF CasLast, AdvancedRefill, BucketInv, RefillIsDue, BucketTypeOK, Locs
  <2>3. ASSUME NEW w \in Workers, Call(w) \/ LoadLast(w) \/ LoadRefill(w)
                 \/ CasRefill(w) \/ LoadConsume(w) \/ CasConsume(w)
        PROVE  lastRefill' >= lastRefill
    BY <2>1, <2>3 DEF Call, LoadLast, LoadRefill, CasRefill, LoadConsume, CasConsume
  <2>4. CASE Tick \/ UNCHANGED bucketVars
    BY <2>1, <2>4 DEF Tick, bucketVars
  <2> QED
    BY <2>2, <2>3, <2>4 DEF BucketNext, Step
<1> QED
  BY <1>1, BucketInvariant, PTL DEF BucketSpec, RefillClockMonotone

----------------------------------------------------------------------------
(* The route table: the inductive invariant                                *)

Keys == STRING \X STRING
Ids == Nat \ {0}
TlsConfigs == [key : Keys, id : Ids]

Auths == STRING \cup {NoAuth}
Allows == STRING \cup {"any"}

Routes ==
  [kind : {"route"}, sni : Snis, allow : Allows, failover : BOOLEAN,
   tls : TlsConfigs \cup {NoTls}]
Slots == Routes \cup {Absent, Dropped}
Tables == [slot : [Snis -> Slots], auth : [Snis -> Auths]]

\* The route has the TLS configuration the policy asks for.
TlsFor(auth, tls) ==
  IF auth = Passthrough THEN tls = NoTls ELSE tls \in TlsConfigs /\ tls.key[2] = auth

\* Slot s is as a spec decided it: served under that spec, or dropped for a reason.
DroppedFor(s, spec, t) == t.slot[s] = Dropped /\ t.auth[s] = NoAuth /\ ~ Healthy(spec)

ServedFor(s, spec, t) ==
  /\ t.slot[s] \in Routes /\ t.slot[s].sni = s
  /\ t.auth[s] = spec.auth
  /\ ~ Rejected(spec)
  /\ t.slot[s].allow = spec.allow /\ t.slot[s].failover = FailoverOf(spec)
  /\ TlsFor(spec.auth, t.slot[s].tls)

DecidedBy(s, spec, t) == DroppedFor(s, spec, t) \/ ServedFor(s, spec, t)

Blank(s, t) == t.slot[s] = Absent /\ t.auth[s] = NoAuth

\* The live table is what the applied specs made of it.
LiveOK ==
  /\ live \in Tables
  /\ applied \in [Snis -> Specs \cup {NoSpec}]
  /\ \A s \in Snis : IF applied[s] = NoSpec THEN Blank(s, live)
                     ELSE applied[s].sni = s /\ DecidedBy(s, applied[s], live)

\* The spec that decides s lies behind the builder.
Behind(s) == Indices(build.specs, s) # {} /\ Deciding(build.specs, s) < build.next

\* The table under construction is what the specs behind the builder made of it.
BuildOK ==
  /\ build \in [pc : {"idle", "building", "swapped"}, specs : Seq(Specs), next : Nat, table : Tables]
  /\ build.next \in 1 .. Len(build.specs) + 1
  /\ build.pc # "building" => build.table = EmptyTable
  /\ build.pc = "building" => \A s \in Snis :
       IF Behind(s) THEN DecidedBy(s, build.specs[Deciding(build.specs, s)], build.table)
       ELSE Blank(s, build.table)

\* A cache: keys to identities of their own.
IsCache(c) ==
  /\ c = [k \in DOMAIN c |-> c[k]]
  /\ DOMAIN c \subseteq Keys /\ IsFiniteSet(DOMAIN c)
  /\ \A k \in DOMAIN c : c[k] \in Ids
  /\ IsInjective(c)

\* What two tables and the connections can hold, and one more.
HeldAtMost == 2 * Cardinality(Snis) + 2 * Cardinality(Conns) + 1

\* A cache within its threshold, and the threshold within its limits.
WithinLimits(c, limit) ==
  /\ limit \in Nat /\ limit >= MinEvictAt
  /\ Cardinality(DOMAIN c) <= limit
  /\ limit <= MinEvictAt \/ limit <= 2 * HeldAtMost

Holds(c, r) == r.tls # NoTls => r.tls.key \in DOMAIN c /\ c[r.tls.key] = r.tls.id
HoldsTable(c, t) == \A s \in Snis : IsRoute(t.slot[s]) => Holds(c, t.slot[s])

CacheOK ==
  /\ IsCache(cache) /\ WithinLimits(cache, evictAt)
  /\ HoldsTable(cache, live) /\ HoldsTable(cache, build.table)

\* A connection holds at most the route it looked up and the one it was sent.
ConnOK ==
  /\ conn \in [Conns -> SUBSET (TlsConfigs \cup {NoTls})]
  /\ \A c \in Conns : \E a, b \in TlsConfigs \cup {NoTls} : conn[c] \subseteq {a, b}

IInv == LiveOK /\ BuildOK /\ CacheOK /\ ConnOK

----------------------------------------------------------------------------
(* Finite sets and the deciding spec                                       *)

\* The values of a function on a finite set are at most as many as its arguments.
LEMMA RangeBound ==
  ASSUME NEW f, IsFiniteSet(DOMAIN f)
  PROVE  IsFiniteSet(Range(f)) /\ Cardinality(Range(f)) <= Cardinality(DOMAIN f)
<1> DEFINE g == [x \in DOMAIN f |-> f[x]]
<1>1. g \in Surjection(DOMAIN f, Range(f))
  BY DEF Surjection, Range
<1> QED BY <1>1, FS_Surjection

\* Two sets together have at most as many elements as both.
LEMMA UnionBound ==
  ASSUME NEW S, NEW T, IsFiniteSet(S), IsFiniteSet(T)
  PROVE  /\ IsFiniteSet(S \cup T) /\ Cardinality(S \cup T) \in Nat
         /\ Cardinality(S \cup T) <= Cardinality(S) + Cardinality(T)
<1>1. IsFiniteSet(S \cap T)
  BY FS_Subset
<1>2. /\ Cardinality(S \cap T) \in Nat /\ Cardinality(S) \in Nat /\ Cardinality(T) \in Nat
  BY <1>1, FS_CardinalityType
<1>3. /\ IsFiniteSet(S \cup T)
      /\ Cardinality(S \cup T) = Cardinality(S) + Cardinality(T) - Cardinality(S \cap T)
  BY FS_Union
<1>4. Cardinality(S \cup T) \in Nat
  BY <1>3, FS_CardinalityType
<1> QED BY <1>2, <1>3, <1>4

\* The names are finitely many.
LEMMA SnisFinite == IsFiniteSet(Snis) /\ Cardinality(Snis) \in Nat /\ Cardinality(Conns) \in Nat
<1>1. IsFiniteSet(ExactSnis \cup WildcardSnis)
  BY RouteTableConstants, FS_Subset
<1>2. IsFiniteSet(Snis)
  BY <1>1, FS_AddElement DEF Snis
<1> QED BY <1>2, RouteTableConstants, FS_CardinalityType

\* Every nonempty set of natural numbers has a least element.
LEMMA LeastOf ==
  ASSUME NEW S \in SUBSET Nat, S # {}
  PROVE  \E x \in S : \A y \in S : x <= y
<1> DEFINE R == OpToRel(<, Nat)
<1>1. IsWellFoundedOn(R, Nat)
  BY NatLessThanWellFounded
<1>2. \A x, y \in Nat : <<x, y>> \in R <=> x < y
  BY DEF OpToRel
<1> HIDE DEF R
<1>3. PICK x \in S : \A y \in S : ~ (<<y, x>> \in R)
  BY <1>1, WFMin
<1>4. ASSUME NEW y \in S PROVE x <= y
  <2>1. ~ (y < x)
    BY <1>2, <1>3
  <2> QED
    BY <2>1
<1> QED
  BY <1>3, <1>4

\* Every nonempty set of numbers up to n has a greatest element.
LEMMA GreatestOf ==
  ASSUME NEW n \in Nat, NEW S \in SUBSET (1 .. n), S # {}
  PROVE  \E x \in S : \A y \in S : x >= y
<1> DEFINE T == {m \in Nat : n - m \in S}
<1>1. T \in SUBSET Nat /\ T # {}
  <2>1. PICK x \in S : x \in 1 .. n
    OBVIOUS
  <2>2. n - x \in Nat /\ n - (n - x) = x
    BY <2>1
  <2> QED BY <2>1, <2>2
<1>2. PICK m \in T : \A k \in T : m <= k
  BY <1>1, LeastOf
<1>3. n - m \in S
  BY <1>2
<1>4. ASSUME NEW y \in S PROVE n - m >= y
  <2>1. n - y \in Nat /\ n - (n - y) = y
    BY <1>4
  <2>2. n - y \in T
    BY <2>1, <1>4
  <2>3. m <= n - y /\ m \in Nat
    BY <1>2, <2>2
  <2> HIDE DEF T
  <2> QED BY <2>1, <2>3, <1>4
<1> QED BY <1>3, <1>4

\* The spec that decides a configured name is one of that name.
LEMMA DecidingSpec ==
  ASSUME NEW specs \in Seq(Specs), NEW s \in Snis, Indices(specs, s) # {}
  PROVE  /\ Deciding(specs, s) \in 1 .. Len(specs)
         /\ specs[Deciding(specs, s)] \in Specs
         /\ specs[Deciding(specs, s)].sni = s
<1> DEFINE S == Indices(specs, s)
<1>1. Len(specs) \in Nat /\ S \in SUBSET (1 .. Len(specs)) /\ S \in SUBSET Nat
  BY DEF Indices
<1>2. \E x \in S : \A y \in S : x <= y
  BY <1>1, LeastOf
<1>3. \E x \in S : \A y \in S : x >= y
  BY <1>1, GreatestOf
<1>4. Min(S) \in S
  BY <1>2 DEF Min
<1>5. Max(S) \in S
  BY <1>3 DEF Max
<1>6. Deciding(specs, s) \in S
  BY <1>4, <1>5 DEF Deciding
<1> QED BY <1>1, <1>6 DEF Indices

----------------------------------------------------------------------------
(* Slots and tables                                                        *)

\* A slot is a route exactly if its kind says so.
LEMMA SlotKinds ==
  ASSUME NEW r \in Slots
  PROVE  /\ r.kind \in {"absent", "dropped", "route"}
         /\ IsRoute(r) <=> r \in Routes
         /\ r # Absent /\ r # Dropped <=> r \in Routes
<1>1. CASE r \in Routes
  BY <1>1 DEF Routes, IsRoute, Absent, Dropped
<1>2. CASE r = Absent
  BY <1>2 DEF Routes, IsRoute, Absent, Dropped
<1>3. CASE r = Dropped
  BY <1>3 DEF Routes, IsRoute, Absent, Dropped
<1> QED BY <1>1, <1>2, <1>3 DEF Slots

\* A table nothing was decided in.
LEMMA EmptyOK == EmptyTable \in Tables /\ \A s \in Snis : Blank(s, EmptyTable)
<1>1. /\ EmptyTable.slot = [s \in Snis |-> Absent] /\ EmptyTable.auth = [s \in Snis |-> NoAuth]
      /\ EmptyTable = [slot |-> EmptyTable.slot, auth |-> EmptyTable.auth]
  BY DEF EmptyTable
<1>2. EmptyTable.slot \in [Snis -> Slots]
  BY <1>1 DEF Slots
<1>3. EmptyTable.auth \in [Snis -> Auths]
  BY <1>1 DEF Auths
<1> QED BY <1>1, <1>2, <1>3 DEF Tables, Blank

\* Only slot s differs.
OthersKept(s, t) ==
  \A q \in Snis \ {s} : t.slot[q] = build.table.slot[q] /\ t.auth[q] = build.table.auth[q]

\* What was decided about a slot depends on that slot alone.
LEMMA SameSlot ==
  ASSUME NEW s, NEW t, NEW u, t.slot[s] = u.slot[s], t.auth[s] = u.auth[s], NEW spec
  PROVE  /\ Blank(s, t) => Blank(s, u)
         /\ DecidedBy(s, spec, t) => DecidedBy(s, spec, u)
BY DEF Blank, DecidedBy, DroppedFor, ServedFor

\* A spec that cannot be served leaves a tombstone.
LEMMA TombstoneOK ==
  ASSUME build.table \in Tables, NEW spec \in Specs, Blank(spec.sni, build.table), ~ Healthy(spec)
  PROVE  /\ Tombstone(spec) \in Tables
         /\ DecidedBy(spec.sni, spec, Tombstone(spec))
         /\ OthersKept(spec.sni, Tombstone(spec))
<1>1. spec.sni \in Snis
  BY DEF Specs
<1>2. /\ Tombstone(spec).slot = [build.table.slot EXCEPT ![spec.sni] = Dropped]
      /\ Tombstone(spec).auth = build.table.auth
      /\ Tombstone(spec) \in Tables
  BY <1>1 DEF Tombstone, Tables, Slots
<1>3. build.table.slot \in [Snis -> Slots]
  BY DEF Tables
<1> QED BY <1>1, <1>2, <1>3 DEF DecidedBy, DroppedFor, Blank, OthersKept

\* A route with the right TLS configuration is installed under the spec's policy.
LEMMA InstallOK ==
  ASSUME build.table \in Tables, NEW spec \in Specs, ~ Rejected(spec),
         NEW r \in Routes, r.sni = spec.sni, TlsFor(spec.auth, r.tls)
  PROVE  /\ Install(spec, r) \in Tables
         /\ DecidedBy(spec.sni, spec, Install(spec, r))
         /\ OthersKept(spec.sni, Install(spec, r))
         /\ Install(spec, r).slot[spec.sni].tls = r.tls
<1> DEFINE q == [r EXCEPT !.allow = spec.allow, !.failover = FailoverOf(spec)]
<1>1. spec.sni \in Snis /\ spec.allow \in Allows /\ spec.auth \in Auths
  BY DEF Specs, Allows, Auths
<1>2. FailoverOf(spec) \in BOOLEAN
  BY DEF FailoverOf
<1>3. /\ q \in Routes /\ q.sni = r.sni /\ q.tls = r.tls
      /\ q.allow = spec.allow /\ q.failover = FailoverOf(spec)
  BY <1>1, <1>2 DEF Routes
<1>4. build.table.slot \in [Snis -> Slots] /\ build.table.auth \in [Snis -> Auths]
  BY DEF Tables
<1>5. /\ Install(spec, r).slot = [build.table.slot EXCEPT ![spec.sni] = q]
      /\ Install(spec, r).auth = [build.table.auth EXCEPT ![spec.sni] = spec.auth]
      /\ Install(spec, r) = [slot |-> Install(spec, r).slot, auth |-> Install(spec, r).auth]
  BY DEF Install
<1> HIDE DEF q
<1>6. /\ Install(spec, r).slot[spec.sni] = q /\ Install(spec, r).auth[spec.sni] = spec.auth
      /\ Install(spec, r).slot \in [Snis -> Slots] /\ Install(spec, r).auth \in [Snis -> Auths]
  BY <1>1, <1>3, <1>4, <1>5 DEF Slots
<1>7. Install(spec, r) \in Tables
  BY <1>5, <1>6 DEF Tables
<1>8. ServedFor(spec.sni, spec, Install(spec, r))
  BY <1>3, <1>6 DEF ServedFor
<1> QED BY <1>1, <1>3, <1>4, <1>5, <1>6, <1>7, <1>8 DEF DecidedBy, OthersKept

\* A spec whose build failed is carried under its own policy, or dropped.
LEMMA AfterFailureOK ==
  ASSUME LiveOK, build.table \in Tables, NEW spec \in Specs, Blank(spec.sni, build.table),
         ~ Rejected(spec), ~ Healthy(spec)
  PROVE  /\ AfterFailure(spec) \in Tables
         /\ DecidedBy(spec.sni, spec, AfterFailure(spec))
         /\ OthersKept(spec.sni, AfterFailure(spec))
         /\ IsRoute(AfterFailure(spec).slot[spec.sni]) =>
              /\ IsRoute(live.slot[spec.sni])
              /\ AfterFailure(spec).slot[spec.sni].tls = live.slot[spec.sni].tls
<1> DEFINE s == spec.sni
<1>1. s \in Snis /\ live.slot[s] \in Slots
  BY DEF Specs, LiveOK, Tables
<1>2. CASE Carries(spec)
  <2>1. live.slot[s] \in Routes /\ live.auth[s] = spec.auth
    BY <1>1, <1>2, SlotKinds DEF Carries
  <2>2. ~ Blank(s, live) /\ ~ DroppedFor(s, applied[s], live)
    BY <2>1, <1>2 DEF Blank, DroppedFor, Carries, IsRoute, Absent, Dropped
  <2>3. ServedFor(s, applied[s], live)
    BY <1>1, <2>2 DEF LiveOK, DecidedBy
  <2>4. TlsFor(spec.auth, live.slot[s].tls) /\ live.slot[s].sni = s
    BY <2>1, <2>3 DEF ServedFor
  <2> QED BY <1>2, <2>1, <2>4, InstallOK DEF AfterFailure, Carries
<1>3. CASE ~ Carries(spec)
  <2>1. AfterFailure(spec) = Tombstone(spec)
    BY <1>3 DEF AfterFailure
  <2>2. Tombstone(spec).slot[s] = Dropped
    BY <1>1 DEF Tombstone, Tables
  <2> QED BY <2>1, <2>2, TombstoneOK DEF IsRoute, Dropped
<1> QED BY <1>2, <1>3

----------------------------------------------------------------------------
(* A spec of the build                                                     *)

\* A new route has the TLS configuration of its spec's policy.
LEMMA RouteOK ==
  ASSUME NEW spec \in Specs, NEW id, spec.auth # Passthrough => id \in Ids
  PROVE  /\ Route(spec, id) \in Routes /\ Route(spec, id).sni = spec.sni
         /\ TlsFor(spec.auth, Route(spec, id).tls)
         /\ spec.auth = Passthrough => Route(spec, id).tls = NoTls
         /\ spec.auth # Passthrough => Route(spec, id).tls = [key |-> KeyOf(spec), id |-> id]
<1>1. spec.sni \in Snis /\ spec.cert \in STRING /\ spec.auth \in STRING
  BY DEF Specs
<1>2. KeyOf(spec) \in Keys /\ KeyOf(spec)[2] = spec.auth
  BY <1>1 DEF KeyOf, Keys
<1> DEFINE tls == IF spec.auth = Passthrough THEN NoTls ELSE [key |-> KeyOf(spec), id |-> id]
<1>3. tls \in TlsConfigs \cup {NoTls} /\ TlsFor(spec.auth, tls)
  BY <1>2 DEF TlsConfigs, TlsFor
<1> HIDE DEF tls
<1>4. /\ Route(spec, id).tls = tls /\ Route(spec, id).sni = spec.sni
      /\ Route(spec, id) = [kind |-> "route", sni |-> spec.sni, allow |-> "any",
                            failover |-> FALSE, tls |-> tls]
  BY DEF Route, tls
<1>5. Route(spec, id) \in Routes
  BY <1>1, <1>3, <1>4 DEF Routes, Allows
<1> QED BY <1>3, <1>4, <1>5 DEF tls

Building == build.pc = "building" /\ build.next <= Len(build.specs)
IsDeciding == Deciding(build.specs, Current.sni) = build.next

\* The spec at hand; if it decides its name, nothing has been decided there.
LEMMA CurrentOK ==
  ASSUME BuildOK, Building
  PROVE  /\ Current \in Specs /\ Current.sni \in Snis
         /\ build.next \in 1 .. Len(build.specs) /\ build.next \in Indices(build.specs, Current.sni)
         /\ build.table \in Tables
         /\ IsDeciding => Blank(Current.sni, build.table)
<1>1. /\ build.specs \in Seq(Specs) /\ build.next \in Nat /\ build.table \in Tables
      /\ build.next \in 1 .. Len(build.specs)
  BY DEF BuildOK, Building
<1>2. Current \in Specs /\ Current.sni \in Snis
  <2>1. Current \in Specs
    BY <1>1 DEF Current
  <2> QED BY <2>1 DEF Specs
<1>3. build.next \in Indices(build.specs, Current.sni)
  BY <1>1 DEF Indices, Current
<1>4. IsDeciding => ~ Behind(Current.sni)
  BY <1>1 DEF IsDeciding, Behind
<1> QED BY <1>1, <1>2, <1>3, <1>4 DEF BuildOK, Building

\* A duplicate changes nothing; a deciding spec changes its own slot.
LEMMA AdvanceOK ==
  ASSUME BuildOK, Building, NEW t \in Tables, Advance(t),
         \/ ~ IsDeciding /\ t = build.table
         \/ IsDeciding /\ DecidedBy(Current.sni, Current, t) /\ OthersKept(Current.sni, t)
  PROVE  BuildOK' /\ build'.table = t
<1>1. /\ build \in [pc : {"idle", "building", "swapped"}, specs : Seq(Specs), next : Nat,
                    table : Tables]
      /\ build.next \in 1 .. Len(build.specs)
  BY CurrentOK DEF BuildOK
<1>2. /\ build'.pc = "building" /\ build'.specs = build.specs /\ build'.next = build.next + 1
      /\ build'.table = t
      /\ build' \in [pc : {"idle", "building", "swapped"}, specs : Seq(Specs), next : Nat,
                     table : Tables]
  <2>1. build' = [build EXCEPT !.next = build.next + 1, !.table = t] /\ build.pc = "building"
    BY DEF Advance, Building
  <2>2. build.next + 1 \in Nat
    BY <1>1
  <2> QED BY <1>1, <2>1, <2>2
<1>3. build'.next \in 1 .. Len(build'.specs) + 1
  BY <1>1, <1>2
<1>4. ASSUME NEW s \in Snis
      PROVE  IF Behind(s)' THEN DecidedBy(s, build.specs[Deciding(build.specs, s)], t)
             ELSE Blank(s, t)
  <2>1. Indices(build.specs, s) # {} => /\ Deciding(build.specs, s) \in 1 .. Len(build.specs)
                                        /\ build.specs[Deciding(build.specs, s)].sni = s
    BY <1>1, DecidingSpec
  <2>2. Behind(s)' <=> Indices(build.specs, s) # {} /\ Deciding(build.specs, s) < build.next + 1
    BY <1>2 DEF Behind
  <2>3. CASE IsDeciding /\ s = Current.sni
    <3>1. Behind(s)' /\ build.specs[Deciding(build.specs, s)] = Current
      BY <1>1, <2>2, <2>3, CurrentOK DEF IsDeciding, Current
    <3> QED BY <2>3, <3>1
  <2>4. CASE ~ (IsDeciding /\ s = Current.sni)
    <3>1. Deciding(build.specs, s) = build.next => Indices(build.specs, s) = {}
      BY <2>1, <2>4 DEF IsDeciding, Current
    <3>2. Behind(s)' <=> Behind(s)
      BY <1>1, <2>1, <2>2, <3>1 DEF Behind
    <3>3. t.slot[s] = build.table.slot[s] /\ t.auth[s] = build.table.auth[s]
      BY <2>4 DEF OthersKept
    <3>4. IF Behind(s) THEN DecidedBy(s, build.specs[Deciding(build.specs, s)], build.table)
          ELSE Blank(s, build.table)
      BY DEF BuildOK, Building
    <3> QED BY <3>2, <3>3, <3>4, SameSlot
  <2> QED BY <2>3, <2>4
<1> QED BY <1>2, <1>3, <1>4 DEF BuildOK

----------------------------------------------------------------------------
(* The cache                                                               *)

\* What is held through two tables and the connections is bounded.
LEMMA ReferencedBound ==
  ASSUME NEW t \in Tables, NEW u \in Tables, ConnOK
  PROVE  /\ IsFiniteSet(Referenced({t, u}, conn))
         /\ Cardinality(Referenced({t, u}, conn)) + 1 <= HeldAtMost
         /\ Cardinality(Referenced({t, u}, conn)) \in Nat
<1> DEFINE any == TlsConfigs \cup {NoTls}
           one == [c \in Conns |-> CHOOSE a \in any : \E b \in any : conn[c] \subseteq {a, b}]
           two == [c \in Conns |-> CHOOSE b \in any : conn[c] \subseteq {one[c], b}]
           inT == [s \in Snis |-> t.slot[s].tls.id]
           inU == [s \in Snis |-> u.slot[s].tls.id]
           ones == [c \in Conns |-> one[c].id]
           twos == [c \in Conns |-> two[c].id]
<1>1. \A c \in Conns : conn[c] \subseteq {one[c], two[c]}
  <2> SUFFICES ASSUME NEW c \in Conns PROVE conn[c] \subseteq {one[c], two[c]}
    OBVIOUS
  <2>1. \E a \in any : \E b \in any : conn[c] \subseteq {a, b}
    BY DEF ConnOK
  <2>2. one[c] = CHOOSE a \in any : \E b \in any : conn[c] \subseteq {a, b}
    OBVIOUS
  <2>3. \E b \in any : conn[c] \subseteq {one[c], b}
    BY <2>1, <2>2
  <2>4. two[c] = CHOOSE b \in any : conn[c] \subseteq {one[c], b}
    OBVIOUS
  <2> HIDE DEF one, two, any
  <2> QED BY <2>3, <2>4
<1> HIDE DEF one, two, any
<1>2. Referenced({t, u}, conn) \subseteq (Range(inT) \cup Range(inU)) \cup (Range(ones) \cup Range(twos))
  <2> SUFFICES ASSUME NEW x \in Referenced({t, u}, conn)
               PROVE  x \in (Range(inT) \cup Range(inU)) \cup (Range(ones) \cup Range(twos))
    OBVIOUS
  <2>1. CASE x \in {r.tls.id : r \in UNION {RoutesOf(w) : w \in {t, u}}}
    <3>1. PICK w \in {t, u} : \E r \in RoutesOf(w) : x = r.tls.id
      BY <2>1
    <3>2. PICK s \in Snis : x = w.slot[s].tls.id
      BY <3>1 DEF RoutesOf
    <3>3. x = inT[s] \/ x = inU[s]
      BY <3>1, <3>2
    <3> QED BY <3>3 DEF Range
  <2>2. CASE x \in {h.id : h \in UNION {conn[c] : c \in Conns}}
    <3>1. PICK c \in Conns : \E h \in conn[c] : x = h.id
      BY <2>2
    <3>2. x = ones[c] \/ x = twos[c]
      BY <1>1, <3>1
    <3> QED BY <3>2 DEF Range
  <2> QED BY <2>1, <2>2 DEF Referenced
<1>3. /\ IsFiniteSet(Range(inT)) /\ Cardinality(Range(inT)) <= Cardinality(Snis)
      /\ IsFiniteSet(Range(inU)) /\ Cardinality(Range(inU)) <= Cardinality(Snis)
  BY SnisFinite, RangeBound
<1>4. /\ IsFiniteSet(Range(ones)) /\ Cardinality(Range(ones)) <= Cardinality(Conns)
      /\ IsFiniteSet(Range(twos)) /\ Cardinality(Range(twos)) <= Cardinality(Conns)
  BY RouteTableConstants, RangeBound
<1> HIDE DEF inT, inU, ones, twos
<1> DEFINE A == Range(inT)  B == Range(inU)  C == Range(ones)  D == Range(twos)
<1>5. /\ Cardinality(A) \in Nat /\ Cardinality(B) \in Nat
      /\ Cardinality(C) \in Nat /\ Cardinality(D) \in Nat
  BY <1>3, <1>4, FS_CardinalityType
<1>6. /\ IsFiniteSet(A \cup B) /\ Cardinality(A \cup B) \in Nat
      /\ Cardinality(A \cup B) <= Cardinality(A) + Cardinality(B)
  BY <1>3, UnionBound
<1>7. /\ IsFiniteSet(C \cup D) /\ Cardinality(C \cup D) \in Nat
      /\ Cardinality(C \cup D) <= Cardinality(C) + Cardinality(D)
  BY <1>4, UnionBound
<1> DEFINE AB == A \cup B  CD == C \cup D
<1>8. /\ IsFiniteSet(AB \cup CD) /\ Cardinality(AB \cup CD) \in Nat
      /\ Cardinality(AB \cup CD) <= Cardinality(AB) + Cardinality(CD)
  BY <1>6, <1>7, UnionBound
<1>9. /\ IsFiniteSet(Referenced({t, u}, conn))
      /\ Cardinality(Referenced({t, u}, conn)) <= Cardinality(AB \cup CD)
  BY <1>2, <1>8, FS_Subset
<1>10. Cardinality(Referenced({t, u}, conn)) \in Nat
  BY <1>9, FS_CardinalityType
<1> HIDE DEF A, B, C, D, AB, CD
<1>11. Cardinality(AB) <= Cardinality(A) + Cardinality(B) /\ Cardinality(AB) \in Nat
  BY <1>6 DEF AB
<1>12. Cardinality(CD) <= Cardinality(C) + Cardinality(D) /\ Cardinality(CD) \in Nat
  BY <1>7 DEF CD
<1>13. /\ Cardinality(A) <= Cardinality(Snis) /\ Cardinality(B) <= Cardinality(Snis)
       /\ Cardinality(C) <= Cardinality(Conns) /\ Cardinality(D) <= Cardinality(Conns)
  BY <1>3, <1>4 DEF A, B, C, D
<1> QED BY <1>5, <1>8, <1>9, <1>10, <1>11, <1>12, <1>13, SnisFinite DEF HeldAtMost

\* Keeping what is referenced keeps a cache, no larger than what is referenced.
LEMMA KeepOK ==
  ASSUME NEW c, IsCache(c), NEW ids, IsFiniteSet(ids)
  PROVE  LET kept == KeepReferenced(c, ids)
         IN  /\ IsCache(kept)
             /\ Cardinality(DOMAIN kept) <= Cardinality(ids)
             /\ Cardinality(DOMAIN kept) <= Cardinality(DOMAIN c)
             /\ \A k \in DOMAIN c : c[k] \in ids => k \in DOMAIN kept
             /\ \A k \in DOMAIN kept : k \in DOMAIN c /\ kept[k] = c[k]
<1> DEFINE kept == KeepReferenced(c, ids)
           S == {k \in DOMAIN c : c[k] \in ids}
<1>1. kept = [k \in S |-> c[k]]
  BY DEF KeepReferenced, Restrict
<1>2. DOMAIN kept = S /\ \A k \in S : kept[k] = c[k]
  BY <1>1
<1>3. IsFiniteSet(S) /\ Cardinality(S) <= Cardinality(DOMAIN c)
  BY FS_Subset DEF IsCache
<1>4. kept \in Injection(S, ids)
  BY <1>1 DEF Injection, IsInjective, IsCache
<1>5. Cardinality(S) <= Cardinality(ids)
  BY <1>4, FS_Injection
<1>6. IsCache(kept)
  BY <1>1, <1>2, <1>3 DEF IsCache, IsInjective
<1> QED BY <1>2, <1>3, <1>5, <1>6

\* There is a new identity, and nothing has it.
LEMMA FreshOK ==
  ASSUME NEW ids, IsFiniteSet(ids)
  PROVE  FreshId(ids) \in Ids /\ FreshId(ids) \notin ids
<1> DEFINE n == Cardinality(ids)
<1>1. n \in Nat
  BY FS_CardinalityType
<1>2. IsFiniteSet(1 .. n + 1) /\ Cardinality(1 .. n + 1) = n + 1
  BY <1>1, FS_Interval
<1>3. \E i \in 1 .. n + 1 : i \notin ids
  <2>1. SUFFICES ASSUME 1 .. n + 1 \subseteq ids PROVE FALSE
    OBVIOUS
  <2>2. n + 1 <= n
    BY <1>2, <2>1, FS_Subset
  <2> QED BY <1>1, <2>2
<1>4. FreshId(ids) \in 1 .. n + 1 /\ FreshId(ids) \notin ids
  BY <1>3 DEF FreshId
<1> QED BY <1>1, <1>4 DEF Ids

\* The threshold after an eviction leaves room for what was kept.
LEMMA EvictAtOK ==
  ASSUME NEW c, IsCache(c), Cardinality(DOMAIN c) <= HeldAtMost
  PROVE  WithinLimits(c, EvictAtFor(c))
<1> DEFINE n == Cardinality(DOMAIN c)
<1>1. n \in Nat /\ MinEvictAt \in Nat /\ HeldAtMost \in Nat
  BY FS_CardinalityType, SnisFinite, RouteTableConstants DEF IsCache, HeldAtMost
<1>2. n <= HeldAtMost
  OBVIOUS
<1>3. EvictAtFor(c) = Max({MinEvictAt, 2 * n})
  BY DEF EvictAtFor
<1> HIDE DEF n
<1>4. \E x \in {MinEvictAt, 2 * n} : \A y \in {MinEvictAt, 2 * n} : x >= y
  BY <1>1
<1>5. /\ EvictAtFor(c) \in {MinEvictAt, 2 * n}
      /\ EvictAtFor(c) >= MinEvictAt /\ EvictAtFor(c) >= 2 * n
  BY <1>3, <1>4 DEF Max
<1>6. EvictAtFor(c) \in Nat /\ n <= EvictAtFor(c)
  BY <1>1, <1>5
<1>7. EvictAtFor(c) <= MinEvictAt \/ EvictAtFor(c) <= 2 * HeldAtMost
  BY <1>1, <1>2, <1>5
<1> QED BY <1>5, <1>6, <1>7 DEF WithinLimits, n

\* Cache d has what c has of some identities.
Keeps(c, d, ids) == \A k \in DOMAIN c : c[k] \in ids => k \in DOMAIN d /\ d[k] = c[k]

\* What lookup_or_build answers for a key while some identities are held.
Answers(found, key, ids) ==
  /\ IsCache(found.cache) /\ WithinLimits(found.cache, found.evictAt)
  /\ found.id \in Ids
  /\ key \in DOMAIN found.cache /\ found.cache[key] = found.id
  /\ Keeps(cache, found.cache, ids)

\* lookup_or_build answers for the key, keeps what is held and stays within limits.
LEMMA LookupOK ==
  ASSUME IsCache(cache), WithinLimits(cache, evictAt), NEW key \in Keys,
         NEW ids, IsFiniteSet(ids), Cardinality(ids) \in Nat, Cardinality(ids) + 1 <= HeldAtMost
  PROVE  Answers(LookupOrBuild(key, ids), key, ids)
<1> DEFINE found == LookupOrBuild(key, ids)
<1> SUFFICES Answers(found, key, ids)
  OBVIOUS
<1>1. CASE key \in DOMAIN cache
  <2>1. found.id = cache[key] /\ found.cache = cache /\ found.evictAt = evictAt
    BY <1>1 DEF LookupOrBuild
  <2> HIDE DEF found
  <2>2. cache[key] \in Ids
    BY <1>1 DEF IsCache
  <2> QED BY <1>1, <2>1, <2>2 DEF Keeps, Answers
<1>2. CASE key \notin DOMAIN cache
  <2> DEFINE id == FreshId(ids \cup Range(cache))
             grown == [k \in DOMAIN cache \cup {key} |-> IF k = key THEN id ELSE cache[k]]
             over == Cardinality(DOMAIN grown) > evictAt
             kept == KeepReferenced(grown, ids \cup {id})
  <2>1. /\ found.id = id
        /\ found.cache = IF over THEN kept ELSE grown
        /\ found.evictAt = IF over THEN EvictAtFor(kept) ELSE evictAt
    <3>1. found = [id |-> id, cache |-> IF over THEN kept ELSE grown,
                   evictAt |-> IF over THEN EvictAtFor(IF over THEN kept ELSE grown) ELSE evictAt]
      BY <1>2 DEF LookupOrBuild
    <3> HIDE DEF found, id, grown, over, kept
    <3> QED BY <3>1
  <2>2. id \in Ids /\ id \notin ids /\ id \notin Range(cache)
    <3>1. IsFiniteSet(Range(cache))
      BY RangeBound DEF IsCache
    <3>2. IsFiniteSet(ids \cup Range(cache))
      BY <3>1, FS_Union
    <3> QED BY <3>2, FreshOK
  <2> HIDE DEF found, id
  <2>3. /\ DOMAIN grown = DOMAIN cache \cup {key} /\ grown[key] = id
        /\ \A k \in DOMAIN cache : grown[k] = cache[k]
    BY <1>2
  <2>4. IsCache(grown)
    <3>1. IsFiniteSet(DOMAIN grown)
      BY <2>3, FS_AddElement DEF IsCache
    <3>2. DOMAIN grown \subseteq Keys /\ \A k \in DOMAIN grown : grown[k] \in Ids
      BY <2>2, <2>3 DEF IsCache
    <3>3. IsInjective(grown)
      BY <2>2, <2>3 DEF IsInjective, IsCache, Range
    <3>4. grown = [k \in DOMAIN grown |-> grown[k]]
      OBVIOUS
    <3> HIDE DEF grown
    <3> QED BY <3>1, <3>2, <3>3, <3>4 DEF IsCache
  <2> HIDE DEF grown
  <2>5. CASE ~ over
    <3>1. Cardinality(DOMAIN grown) \in Nat /\ evictAt \in Nat
      BY <2>4, FS_CardinalityType DEF IsCache, WithinLimits
    <3>2. WithinLimits(grown, evictAt)
      BY <2>5, <3>1 DEF WithinLimits
    <3>3. Keeps(cache, grown, ids)
      BY <2>3 DEF Keeps
    <3>4. key \in DOMAIN grown
      BY <2>3
    <3> HIDE DEF over
    <3> QED BY <2>1, <2>2, <2>3, <2>4, <2>5, <3>2, <3>3, <3>4 DEF Answers
  <2>6. CASE over
    <3>1. IsFiniteSet(ids \cup {id}) /\ Cardinality(ids \cup {id}) = Cardinality(ids) + 1
      BY <2>2, FS_AddElement
    <3>2. /\ IsCache(kept) /\ Cardinality(DOMAIN kept) <= Cardinality(ids \cup {id})
          /\ \A k \in DOMAIN grown : grown[k] \in ids \cup {id} => k \in DOMAIN kept
          /\ \A k \in DOMAIN kept : kept[k] = grown[k]
      BY <2>4, <3>1, KeepOK
    <3> HIDE DEF kept, over
    <3>3. Cardinality(DOMAIN kept) \in Nat /\ HeldAtMost \in Nat
      BY <3>2, FS_CardinalityType, SnisFinite DEF IsCache, HeldAtMost
    <3>4. WithinLimits(kept, EvictAtFor(kept))
      BY <3>1, <3>2, <3>3, EvictAtOK
    <3>5. key \in DOMAIN kept /\ kept[key] = id
      BY <2>3, <3>2
    <3>6. Keeps(cache, kept, ids)
      BY <2>3, <3>2 DEF Keeps
    <3> QED BY <2>1, <2>2, <2>6, <3>2, <3>4, <3>5, <3>6 DEF Answers
  <2> QED BY <2>5, <2>6
<1> QED BY <1>1, <1>2

\* A table whose identities are kept is still answered for.
LEMMA KeptTable ==
  ASSUME NEW c, NEW d, NEW T, Keeps(c, d, Referenced(T, conn)),
         NEW t \in T, HoldsTable(c, t)
  PROVE  HoldsTable(d, t)
<1> SUFFICES ASSUME NEW s \in Snis, IsRoute(t.slot[s]), t.slot[s].tls # NoTls
             PROVE  /\ t.slot[s].tls.key \in DOMAIN d
                    /\ d[t.slot[s].tls.key] = t.slot[s].tls.id
  BY DEF HoldsTable, Holds
<1>1. t.slot[s] \in RoutesOf(t)
  BY DEF RoutesOf
<1>2. t.slot[s].tls.id \in Referenced(T, conn)
  BY <1>1 DEF Referenced
<1>3. /\ t.slot[s].tls.key \in DOMAIN c
      /\ c[t.slot[s].tls.key] = t.slot[s].tls.id
  BY DEF HoldsTable, Holds
<1> QED BY <1>2, <1>3 DEF Keeps

\* A table without routes asks for nothing.
LEMMA EmptyHeld == ASSUME NEW c PROVE HoldsTable(c, EmptyTable)
<1> SUFFICES ASSUME NEW s \in Snis PROVE ~ IsRoute(EmptyTable.slot[s])
  BY DEF HoldsTable
<1> QED BY DEF EmptyTable, IsRoute, Absent

----------------------------------------------------------------------------
(* The steps preserve the invariant                                        *)

\* A build starts, or ends, with an empty table and nothing decided.
LEMMA RestartOK ==
  ASSUME NEW at \in {"idle", "building", "swapped"}, NEW specs \in Seq(Specs),
         build' = [pc |-> at, specs |-> specs, next |-> 1, table |-> EmptyTable]
  PROVE  BuildOK' /\ build'.table = EmptyTable
<1>1. /\ build'.pc = at /\ build'.specs = specs /\ build'.next = 1 /\ build'.table = EmptyTable
      /\ Len(specs) \in Nat
  OBVIOUS
<1>2. build' \in [pc : {"idle", "building", "swapped"}, specs : Seq(Specs), next : Nat,
                  table : Tables]
  BY EmptyOK
<1>3. ASSUME NEW s \in Snis PROVE ~ Behind(s)' /\ Blank(s, build'.table)
  <2>1. Indices(specs, s) # {} => Deciding(specs, s) \in 1 .. Len(specs)
    BY DecidingSpec
  <2>2. ~ Behind(s)'
    BY <1>1, <2>1 DEF Behind
  <2> QED BY <1>1, <2>2, EmptyOK
<1> QED BY <1>1, <1>2, <1>3 DEF BuildOK

\* No spec is waiting in an idle builder.
LEMMA IdleOK ==
  /\ Idle = [pc |-> "idle", specs |-> <<>>, next |-> 1, table |-> EmptyTable]
  /\ <<>> \in Seq(Specs)
BY DEF Idle

\* update_config begins: only what nothing holds leaves the cache.
LEMMA BeginUpdateOK ==
  ASSUME IInv, NEW specs \in SpecLists, BeginUpdate(specs)
  PROVE  IInv'
<1> DEFINE ids == Referenced({live}, conn)
           kept == KeepReferenced(cache, ids)
<1>1. LiveOK' /\ ConnOK'
  BY DEF IInv, LiveOK, ConnOK, BeginUpdate
<1>2. BuildOK' /\ build'.table = EmptyTable
  <2>1. build' = [pc |-> "building", specs |-> specs, next |-> 1, table |-> EmptyTable]
    BY DEF BeginUpdate, Idle
  <2>2. specs \in Seq(Specs)
    BY RouteTableConstants
  <2> QED BY <2>1, <2>2, RestartOK
<1>3. IsFiniteSet(ids) /\ Cardinality(ids) + 1 <= HeldAtMost /\ Cardinality(ids) \in Nat
  <2>1. {live} = {live, live}
    OBVIOUS
  <2>2. live \in Tables
    BY DEF IInv, LiveOK
  <2> QED BY <2>1, <2>2, ReferencedBound DEF IInv
<1>4. cache' = kept /\ evictAt' = EvictAtFor(kept) /\ live' = live
  BY DEF BeginUpdate, ClearUsed
<1>5. IsCache(cache) /\ HoldsTable(cache, live)
  BY DEF IInv, CacheOK
<1>6. /\ IsCache(kept) /\ Cardinality(DOMAIN kept) <= Cardinality(ids)
      /\ \A k \in DOMAIN cache : cache[k] \in ids => k \in DOMAIN kept
      /\ \A k \in DOMAIN kept : kept[k] = cache[k]
  BY <1>3, <1>5, KeepOK
<1>7. Keeps(cache, kept, ids)
  BY <1>6 DEF Keeps
<1>8. HoldsTable(kept, live)
  BY <1>5, <1>7, KeptTable
<1> HIDE DEF kept, ids
<1>9. Cardinality(DOMAIN kept) <= HeldAtMost
  <2>1. Cardinality(DOMAIN kept) \in Nat /\ HeldAtMost \in Nat
    BY <1>6, FS_CardinalityType, SnisFinite DEF IsCache, HeldAtMost
  <2> QED BY <1>3, <1>6, <2>1
<1>10. WithinLimits(kept, EvictAtFor(kept))
  BY <1>6, <1>9, EvictAtOK
<1>11. HoldsTable(kept, EmptyTable)
  BY EmptyHeld
<1>12. CacheOK'
  BY <1>2, <1>4, <1>6, <1>8, <1>10, <1>11 DEF CacheOK, IsCache, IsInjective, WithinLimits, HeldAtMost,
     HoldsTable, Holds
<1> QED BY <1>1, <1>2, <1>12 DEF IInv

\* The tables of the next state are answered for by its cache.
LEMMA CacheStep ==
  ASSUME NEW c, NEW limit, NEW l, NEW t, IsCache(c), WithinLimits(c, limit),
         HoldsTable(c, l), HoldsTable(c, t),
         cache' = c, evictAt' = limit, live' = l, build'.table = t
  PROVE  CacheOK'
BY DEF CacheOK, IsCache, IsInjective, WithinLimits, HeldAtMost, HoldsTable, Holds

\* A deciding spec whose route, if it got one, the cache answers for.
LEMMA BuilderStep ==
  ASSUME IInv, Building, IsDeciding, NEW t \in Tables, NEW c, NEW limit,
         Advance(t), cache' = c, evictAt' = limit, UNCHANGED <<live, applied, conn>>,
         IsCache(c), WithinLimits(c, limit), HoldsTable(c, live), HoldsTable(c, build.table),
         DecidedBy(Current.sni, Current, t), OthersKept(Current.sni, t),
         IsRoute(t.slot[Current.sni]) => Holds(c, t.slot[Current.sni])
  PROVE  IInv'
<1>1. LiveOK' /\ ConnOK'
  BY DEF IInv, LiveOK, ConnOK
<1>2. BuildOK' /\ build'.table = t
  BY AdvanceOK DEF IInv
<1>3. HoldsTable(c, t)
  BY DEF HoldsTable, OthersKept
<1>4. CacheOK'
  BY <1>2, <1>3, CacheStep
<1> QED BY <1>1, <1>2, <1>4 DEF IInv

\* A spec whose build failed: the carried route is one the cache answers for.
LEMMA FailureStep ==
  ASSUME IInv, Building, IsDeciding, NEW c, NEW limit,
         Advance(AfterFailure(Current)), cache' = c, evictAt' = limit,
         UNCHANGED <<live, applied, conn>>,
         IsCache(c), WithinLimits(c, limit), HoldsTable(c, live), HoldsTable(c, build.table),
         ~ Rejected(Current), ~ Healthy(Current)
  PROVE  IInv'
<1>1. /\ Current \in Specs /\ Current.sni \in Snis /\ build.table \in Tables
      /\ Blank(Current.sni, build.table) /\ LiveOK
  BY CurrentOK DEF IInv
<1> DEFINE t == AfterFailure(Current)
<1>2. /\ t \in Tables /\ DecidedBy(Current.sni, Current, t) /\ OthersKept(Current.sni, t)
      /\ IsRoute(t.slot[Current.sni]) =>
           /\ IsRoute(live.slot[Current.sni])
           /\ t.slot[Current.sni].tls = live.slot[Current.sni].tls
  BY <1>1, AfterFailureOK
<1>3. Advance(t)
  OBVIOUS
<1> HIDE DEF t
<1>4. IsRoute(t.slot[Current.sni]) => Holds(c, t.slot[Current.sni])
  BY <1>1, <1>2 DEF HoldsTable, Holds
<1> QED BY <1>2, <1>3, <1>4, BuilderStep

\* A new route whose TLS configuration the cache answers for.
LEMMA InstallStep ==
  ASSUME IInv, Building, IsDeciding, NEW c, NEW limit, NEW id,
         Advance(Install(Current, Route(Current, id))), cache' = c, evictAt' = limit,
         UNCHANGED <<live, applied, conn>>,
         IsCache(c), WithinLimits(c, limit), HoldsTable(c, live), HoldsTable(c, build.table),
         ~ Rejected(Current),
         Current.auth # Passthrough =>
           id \in Ids /\ KeyOf(Current) \in DOMAIN c /\ c[KeyOf(Current)] = id
  PROVE  IInv'
<1>1. /\ Current \in Specs /\ Current.sni \in Snis /\ build.table \in Tables
  BY CurrentOK DEF IInv
<1> DEFINE r == Route(Current, id)
           t == Install(Current, r)
<1>2. /\ r \in Routes /\ r.sni = Current.sni /\ TlsFor(Current.auth, r.tls)
      /\ Current.auth = Passthrough => r.tls = NoTls
      /\ Current.auth # Passthrough => r.tls = [key |-> KeyOf(Current), id |-> id]
  BY <1>1, RouteOK
<1>3. /\ t \in Tables /\ DecidedBy(Current.sni, Current, t) /\ OthersKept(Current.sni, t)
      /\ t.slot[Current.sni].tls = r.tls
  BY <1>1, <1>2, InstallOK
<1>4. Advance(t)
  OBVIOUS
<1> HIDE DEF t, r
<1>5. Holds(c, t.slot[Current.sni])
  <2>1. CASE Current.auth = Passthrough
    BY <1>2, <1>3, <2>1 DEF Holds
  <2>2. CASE Current.auth # Passthrough
    <3>1. t.slot[Current.sni].tls.key = KeyOf(Current) /\ t.slot[Current.sni].tls.id = id
      BY <1>2, <1>3, <2>2
    <3> QED BY <2>2, <3>1 DEF Holds
  <2> QED BY <2>1, <2>2
<1> QED BY <1>3, <1>4, <1>5, BuilderStep

\* One spec of the build, whichever way it goes.
LEMMA BuildSpecOK ==
  ASSUME IInv, BuildSpec
  PROVE  IInv'
<1>1. Building /\ UNCHANGED <<live, applied, conn>>
  BY DEF BuildSpec, Building
<1>2. /\ Current \in Specs /\ Current.sni \in Snis /\ build.table \in Tables /\ live \in Tables
      /\ IsDeciding => Blank(Current.sni, build.table)
  BY <1>1, CurrentOK DEF IInv, LiveOK
<1>3. /\ IsCache(cache) /\ WithinLimits(cache, evictAt)
      /\ HoldsTable(cache, live) /\ HoldsTable(cache, build.table)
  BY DEF IInv, CacheOK
<1>4. CASE SkipDuplicate
  <2>1. LiveOK' /\ ConnOK'
    BY <1>1 DEF IInv, LiveOK, ConnOK
  <2>2. BuildOK' /\ build'.table = build.table
    BY <1>1, <1>2, <1>4, AdvanceOK DEF IInv, SkipDuplicate, IsDeciding
  <2>3. CacheOK'
    BY <1>1, <1>3, <1>4, <2>2, CacheStep DEF SkipDuplicate
  <2> QED BY <2>1, <2>2, <2>3 DEF IInv
<1>5. CASE RejectSpec
  <2>1. IsDeciding /\ Rejected(Current) /\ ~ Healthy(Current)
    BY <1>5 DEF RejectSpec, IsDeciding, Healthy
  <2> DEFINE t == Tombstone(Current)
  <2>2. t \in Tables /\ DecidedBy(Current.sni, Current, t) /\ OthersKept(Current.sni, t)
    BY <1>2, <2>1, TombstoneOK
  <2>3. Advance(t) /\ cache' = cache /\ evictAt' = evictAt
    BY <1>5 DEF RejectSpec
  <2> HIDE DEF t
  <2>4. ~ IsRoute(t.slot[Current.sni])
    BY <2>1, <2>2 DEF DecidedBy, DroppedFor, ServedFor, IsRoute, Dropped
  <2> QED BY <1>1, <1>3, <2>1, <2>2, <2>3, <2>4, BuilderStep
<1>6. CASE BuildPassthrough
  <2>1. /\ IsDeciding /\ ~ Rejected(Current) /\ Current.auth = Passthrough
        /\ cache' = cache /\ evictAt' = evictAt
    BY <1>6 DEF BuildPassthrough, IsDeciding
  <2>2. CASE Current.upstreams
    <3>1. Advance(Install(Current, Route(Current, 0)))
      BY <1>6, <2>2 DEF BuildPassthrough
    <3> QED BY <1>1, <1>3, <2>1, <3>1, InstallStep
  <2>3. CASE ~ Current.upstreams
    <3>1. Advance(AfterFailure(Current)) /\ ~ Healthy(Current)
      BY <1>6, <2>3 DEF BuildPassthrough, Healthy
    <3> QED BY <1>1, <1>3, <2>1, <3>1, FailureStep
  <2> QED BY <2>2, <2>3
<1>7. CASE BuildMismatched
  <2>1. /\ IsDeciding /\ ~ Rejected(Current) /\ ~ Healthy(Current)
        /\ Advance(AfterFailure(Current)) /\ cache' = cache /\ evictAt' = evictAt
    BY <1>7 DEF BuildMismatched, IsDeciding, Healthy
  <2> QED BY <1>1, <1>3, <2>1, FailureStep
<1>8. CASE BuildTerminating
  <2> DEFINE T == {live, build.table}
             ids == Referenced(T, conn)
             key == KeyOf(Current)
             found == LookupOrBuild(key, ids)
  <2>1. /\ IsDeciding /\ ~ Rejected(Current)
        /\ cache' = found.cache /\ evictAt' = found.evictAt
        /\ Advance(IF Current.upstreams THEN Install(Current, Route(Current, found.id))
                   ELSE AfterFailure(Current))
    BY <1>8 DEF BuildTerminating, IsDeciding
  <2>2. IsFiniteSet(ids) /\ Cardinality(ids) \in Nat /\ Cardinality(ids) + 1 <= HeldAtMost
    BY <1>2, ReferencedBound DEF IInv
  <2>3. key \in Keys
    BY <1>2 DEF KeyOf, Keys, Specs
  <2>4. Answers(found, key, ids)
    BY <1>3, <2>2, <2>3, LookupOK
  <2>5. HoldsTable(found.cache, live) /\ HoldsTable(found.cache, build.table)
    BY <1>3, <2>4, KeptTable DEF Answers
  <2> HIDE DEF found, ids, T
  <2>6. /\ IsCache(found.cache) /\ WithinLimits(found.cache, found.evictAt) /\ found.id \in Ids
        /\ key \in DOMAIN found.cache /\ found.cache[key] = found.id
    BY <2>4 DEF Answers
  <2>7. CASE Current.upstreams
    <3>1. Advance(Install(Current, Route(Current, found.id)))
      BY <2>1, <2>7
    <3> QED BY <1>1, <2>1, <2>5, <2>6, <3>1, InstallStep
  <2>8. CASE ~ Current.upstreams
    <3>1. Advance(AfterFailure(Current)) /\ ~ Healthy(Current)
      BY <2>1, <2>8 DEF Healthy
    <3> QED BY <1>1, <2>1, <2>5, <2>6, <3>1, FailureStep
  <2> QED BY <2>7, <2>8
<1> QED BY <1>4, <1>5, <1>6, <1>7, <1>8 DEF BuildSpec

\* An abandoned update leaves the live table and the cache alone.
LEMMA AbandonOK ==
  ASSUME IInv, AbandonUpdate
  PROVE  IInv'
<1>1. LiveOK' /\ ConnOK'
  BY DEF IInv, LiveOK, ConnOK, AbandonUpdate
<1>2. BuildOK' /\ build'.table = EmptyTable
  BY IdleOK, RestartOK DEF AbandonUpdate
<1>3. CacheOK'
  BY <1>2, EmptyHeld, CacheStep DEF IInv, CacheOK, AbandonUpdate
<1> QED BY <1>1, <1>2, <1>3 DEF IInv

\* Every spec lies behind a finished builder: its table is what the specs made of it.
LEMMA SwapOK ==
  ASSUME IInv, Swap
  PROVE  IInv'
<1>1. BuildOK' /\ build'.table = EmptyTable
  <2>1. build' = [pc |-> "swapped", specs |-> <<>>, next |-> 1, table |-> EmptyTable]
    BY DEF Swap, Idle
  <2> QED BY <2>1, IdleOK, RestartOK
<1>2. ConnOK' /\ live' = build.table /\ applied' = DecidingSpecs(build.specs)
  BY DEF IInv, ConnOK, Swap
<1>3. CacheOK'
  BY <1>1, <1>2, EmptyHeld, CacheStep DEF IInv, CacheOK, Swap
<1>4. /\ build.specs \in Seq(Specs) /\ build.next \in Nat /\ build.next > Len(build.specs)
      /\ build.table \in Tables /\ build.pc = "building" /\ Len(build.specs) \in Nat
  BY DEF IInv, BuildOK, Swap, Built
<1> DEFINE specs == build.specs
           now == DecidingSpecs(specs)
<1>5. ASSUME NEW s \in Snis
      PROVE  /\ now[s] \in Specs \cup {NoSpec}
             /\ IF now[s] = NoSpec THEN Blank(s, build.table)
                ELSE now[s].sni = s /\ DecidedBy(s, now[s], build.table)
  <2>1. now[s] = IF Indices(specs, s) = {} THEN NoSpec ELSE specs[Deciding(specs, s)]
    BY DEF DecidingSpecs
  <2>2. IF Behind(s) THEN DecidedBy(s, specs[Deciding(specs, s)], build.table)
        ELSE Blank(s, build.table)
    BY <1>4 DEF IInv, BuildOK
  <2> HIDE DEF now
  <2>3. CASE Indices(specs, s) = {}
    BY <2>1, <2>2, <2>3 DEF Behind
  <2>4. CASE Indices(specs, s) # {}
    <3>1. /\ Deciding(specs, s) \in 1 .. Len(specs)
          /\ specs[Deciding(specs, s)] \in Specs /\ specs[Deciding(specs, s)].sni = s
      BY <1>4, <2>4, DecidingSpec
    <3>2. Behind(s)
      BY <1>4, <2>4, <3>1 DEF Behind
    <3>3. s # NoName
      BY RouteTableConstants DEF Snis, DefaultSni, NoName
    <3>4. now[s] # NoSpec
      BY <2>1, <2>4, <3>1, <3>3 DEF NoSpec
    <3> QED BY <2>1, <2>2, <2>4, <3>1, <3>2, <3>4
  <2> QED BY <2>3, <2>4
<1>6. now \in [Snis -> Specs \cup {NoSpec}]
  BY <1>5 DEF DecidingSpecs
<1> HIDE DEF now
<1>7. LiveOK'
  BY <1>2, <1>4, <1>5, <1>6 DEF LiveOK, now
<1> QED BY <1>1, <1>2, <1>3, <1>7 DEF IInv

\* The sweep keeps what is marked and what is held.
LEMMA SweepOK ==
  ASSUME IInv, Sweep
  PROVE  IInv'
<1> DEFINE ids == Referenced({live}, conn)
           S == {k \in DOMAIN cache : k \in used \/ cache[k] \in ids}
           kept == Restrict(cache, S)
<1>1. LiveOK' /\ ConnOK' /\ cache' = kept /\ evictAt' = evictAt /\ live' = live
  BY DEF IInv, LiveOK, ConnOK, Sweep, RetainUsed
<1>2. BuildOK' /\ build'.table = EmptyTable
  BY IdleOK, RestartOK DEF Sweep
<1>3. IsCache(cache) /\ WithinLimits(cache, evictAt) /\ HoldsTable(cache, live)
  BY DEF IInv, CacheOK
<1>4. kept = [k \in S |-> cache[k]]
  BY DEF Restrict
<1>5. DOMAIN kept = S /\ \A k \in S : kept[k] = cache[k]
  BY <1>4
<1>6. Keeps(cache, kept, ids)
  BY <1>5 DEF Keeps
<1>7. HoldsTable(kept, live)
  BY <1>3, <1>6, KeptTable
<1>8. IsFiniteSet(S) /\ Cardinality(S) <= Cardinality(DOMAIN cache)
  BY <1>3, FS_Subset DEF IsCache
<1>9. S \subseteq DOMAIN cache
  OBVIOUS
<1>10. Cardinality(S) \in Nat /\ Cardinality(DOMAIN cache) \in Nat
  BY <1>3, <1>8, FS_CardinalityType DEF IsCache
<1> HIDE DEF ids, S
<1>11. IsCache(kept)
  BY <1>3, <1>4, <1>5, <1>8, <1>9 DEF IsCache, IsInjective
<1> HIDE DEF kept
<1>12. WithinLimits(kept, evictAt)
  BY <1>3, <1>5, <1>8, <1>10 DEF WithinLimits
<1>13. CacheOK'
  BY <1>1, <1>2, <1>7, <1>11, <1>12, EmptyHeld, CacheStep
<1> QED BY <1>1, <1>2, <1>13 DEF IInv

\* A name resolves to a slot of the table.
LEMMA ResolvesToSlot ==
  ASSUME NEW t \in Tables, NEW name \in ClientNames, NEW allowDefault \in BOOLEAN
  PROVE  ResolveWith(t, name, allowDefault) \in Slots
<1>1. DefaultRoute(t, allowDefault) \in Slots
  BY DEF DefaultRoute, Tables, Slots, Snis
<1>2. ExactSlot(t, name) \in Slots
  BY DEF ExactSlot, Tables, Slots, Snis
<1>3. WildcardSlot(t, name) \in Slots
  <2>1. WildcardOf[name] \in WildcardSnis \cup {NoName}
    BY RouteTableConstants
  <2> QED BY <2>1 DEF WildcardSlot, Tables, Slots, Snis
<1> QED BY <1>1, <1>2, <1>3 DEF ResolveWith

\* A step of a connection that leaves the table, the builder and the cache alone.
LEMMA ConnStep ==
  ASSUME IInv, UNCHANGED <<live, applied, build, cache, evictAt>>, ConnOK'
  PROVE  IInv'
<1>1. LiveOK' /\ BuildOK'
  BY DEF IInv, LiveOK, BuildOK, Behind
<1>2. CacheOK'
  BY CacheStep DEF IInv, CacheOK
<1> QED BY <1>1, <1>2 DEF IInv

\* A connection takes the configuration of the route it looked up.
LEMMA LookupStepOK ==
  ASSUME IInv, NEW c \in Conns, NEW name \in ClientNames, NEW allowDefault \in BOOLEAN,
         Lookup(c, name, allowDefault)
  PROVE  IInv'
<1> DEFINE any == TlsConfigs \cup {NoTls}
           r == ResolveWith(live, name, allowDefault)
<1>1. r \in Slots /\ IsRoute(r)
  BY ResolvesToSlot DEF IInv, LiveOK, Lookup
<1>2. conn' = [conn EXCEPT ![c] = {r.tls}]
  BY DEF Lookup
<1> HIDE DEF r
<1>3. r.tls \in any
  BY <1>1, SlotKinds DEF Routes
<1> HIDE DEF any
<1>4. ConnOK'
  BY <1>2, <1>3 DEF IInv, ConnOK, any
<1> QED BY <1>4, ConnStep DEF Lookup

\* A connection ends and holds nothing.
LEMMA FinishOK ==
  ASSUME IInv, NEW c \in Conns, Finish(c)
  PROVE  IInv'
<1>1. conn' = [conn EXCEPT ![c] = {}]
  BY DEF Finish
<1>2. ConnOK'
  BY <1>1 DEF IInv, ConnOK
<1> QED BY <1>2, ConnStep DEF Finish

\* A connection takes the configuration of the route it was sent.
LEMMA ResolveConnectionOK ==
  ASSUME IInv, NEW c \in Conns, NEW key \in ResolvedKeys, ResolveConnection(c, key)
  PROVE  IInv'
<1> DEFINE any == TlsConfigs \cup {NoTls}
           ids == Referenced({live}, conn)
           found == LookupOrBuild(key, ids)
<1>1. /\ cache' = found.cache /\ evictAt' = found.evictAt
      /\ conn' = [conn EXCEPT ![c] = conn[c] \cup {[key |-> key, id |-> found.id]}]
      /\ UNCHANGED <<live, applied, build>> /\ build.pc = "idle" /\ Cardinality(conn[c]) = 1
  BY DEF ResolveConnection
<1>2. /\ live \in Tables /\ IsCache(cache) /\ WithinLimits(cache, evictAt)
      /\ HoldsTable(cache, live) /\ build.table = EmptyTable
  BY <1>1 DEF IInv, LiveOK, CacheOK, BuildOK
<1>3. IsFiniteSet(ids) /\ Cardinality(ids) \in Nat /\ Cardinality(ids) + 1 <= HeldAtMost
  <2>1. {live} = {live, live}
    OBVIOUS
  <2> QED BY <1>2, <2>1, ReferencedBound DEF IInv
<1>4. key \in Keys
  BY RouteTableConstants DEF Keys
<1>5. Answers(found, key, ids)
  BY <1>2, <1>3, <1>4, LookupOK
<1>6. HoldsTable(found.cache, live)
  BY <1>2, <1>5, KeptTable DEF Answers
<1> HIDE DEF found, ids
<1>7. IsCache(found.cache) /\ WithinLimits(found.cache, found.evictAt) /\ found.id \in Ids
  BY <1>5 DEF Answers
<1>8. CacheOK'
  BY <1>1, <1>2, <1>6, <1>7, EmptyHeld, CacheStep
<1>9. LiveOK' /\ BuildOK'
  BY <1>1 DEF IInv, LiveOK, BuildOK, Behind
<1> DEFINE h == [key |-> key, id |-> found.id]
<1>10. h \in TlsConfigs
  BY <1>4, <1>7 DEF TlsConfigs
<1>11. h \in any
  BY <1>10
<1>12. conn \in [Conns -> SUBSET any] /\ \A d \in Conns : \E a, b \in any : conn[d] \subseteq {a, b}
  BY DEF IInv, ConnOK
<1> HIDE DEF any
<1>13. PICK x : conn[c] = {x}
  <2>1. PICK a, b \in any : conn[c] \subseteq {a, b}
    BY <1>12
  <2>2. IsFiniteSet({a, b})
    <3>1. {a, b} = {a} \cup {b} /\ IsFiniteSet({a})
      BY FS_Singleton
    <3> QED BY <3>1, FS_AddElement
  <2>3. IsFiniteSet(conn[c])
    BY <2>1, <2>2, FS_Subset
  <2> QED BY <1>1, <2>3, FS_Singleton
<1>14. x \in any
  BY <1>12, <1>13
<1>15. conn' = [conn EXCEPT ![c] = {x, h}]
  <2>1. conn[c] \cup {h} = {x, h}
    BY <1>13
  <2> QED BY <1>1, <2>1
<1> HIDE DEF h
<1>16. conn' \in [Conns -> SUBSET any] /\ \A d \in Conns : \E a, b \in any : conn'[d] \subseteq {a, b}
  BY <1>11, <1>12, <1>14, <1>15
<1>17. ConnOK'
  BY <1>16 DEF ConnOK, any
<1> QED BY <1>8, <1>9, <1>17 DEF IInv

\* The invariant holds at the start.
LEMMA InitOK == Init => IInv
<1> SUFFICES ASSUME Init PROVE IInv
  OBVIOUS
<1>1. /\ live = EmptyTable /\ applied = DecidingSpecs(<<>>) /\ build = Idle
      /\ cache = [k \in {} |-> 0] /\ evictAt = MinEvictAt /\ conn = [c \in Conns |-> {}]
  BY DEF Init
<1>2. applied = [s \in Snis |-> NoSpec]
  <2>1. \A s : Indices(<<>>, s) = {}
    BY DEF Indices
  <2> QED BY <1>1, <2>1 DEF DecidingSpecs
<1>3. LiveOK
  BY <1>1, <1>2, EmptyOK DEF LiveOK
<1>4. BuildOK
  <2>1. /\ build = [pc |-> "idle", specs |-> <<>>, next |-> 1, table |-> EmptyTable]
        /\ <<>> \in Seq(Specs) /\ Len(<<>>) = 0
    BY <1>1, IdleOK
  <2> QED BY <2>1, EmptyOK DEF BuildOK
<1>5. CacheOK
  <2>1. DOMAIN cache = {} /\ cache = [k \in DOMAIN cache |-> cache[k]]
    BY <1>1
  <2>2. IsFiniteSet({}) /\ Cardinality({}) = 0
    BY FS_EmptySet
  <2>3. IsCache(cache)
    BY <2>1, <2>2 DEF IsCache, IsInjective
  <2>4. WithinLimits(cache, evictAt)
    BY <1>1, <2>1, <2>2, RouteTableConstants DEF WithinLimits
  <2>5. build.table = EmptyTable
    BY <1>1, IdleOK
  <2> QED BY <1>1, <2>3, <2>4, <2>5, EmptyHeld DEF CacheOK
<1>6. ConnOK
  <2>1. NoTls \in TlsConfigs \cup {NoTls}
    OBVIOUS
  <2> QED BY <1>1, <2>1 DEF ConnOK
<1> QED BY <1>3, <1>4, <1>5, <1>6 DEF IInv

\* Every step preserves the invariant.
LEMMA NextOK == IInv /\ [Next]_vars => IInv'
<1> SUFFICES ASSUME IInv, [Next]_vars PROVE IInv'
  OBVIOUS
<1>1. ASSUME NEW specs \in SpecLists, BeginUpdate(specs) PROVE IInv'
  BY <1>1, BeginUpdateOK
<1>2. CASE BuildSpec
  BY <1>2, BuildSpecOK
<1>3. CASE AbandonUpdate
  BY <1>3, AbandonOK
<1>4. CASE Swap
  BY <1>4, SwapOK
<1>5. CASE Sweep
  BY <1>5, SweepOK
<1>6. ASSUME NEW c \in Conns, NEW name \in ClientNames, NEW allowDefault \in BOOLEAN,
             Lookup(c, name, allowDefault)
      PROVE  IInv'
  BY <1>6, LookupStepOK
<1>7. ASSUME NEW c \in Conns, NEW key \in ResolvedKeys, ResolveConnection(c, key) PROVE IInv'
  BY <1>7, ResolveConnectionOK
<1>8. ASSUME NEW c \in Conns, Finish(c) PROVE IInv'
  BY <1>8, FinishOK
<1>9. CASE UNCHANGED vars
  <2>1. ConnOK'
    BY <1>9 DEF vars, IInv, ConnOK
  <2> QED BY <1>9, <2>1, ConnStep DEF vars
<1> QED BY <1>1, <1>2, <1>3, <1>4, <1>5, <1>6, <1>7, <1>8, <1>9 DEF Next

----------------------------------------------------------------------------
(* What the invariant gives                                                *)

\* The slots of the table under construction, decided or not, are of their name.
LEMMA BuildSlots ==
  ASSUME BuildOK, NEW s \in Snis
  PROVE  \/ Blank(s, build.table)
         \/ \E spec \in Specs : DecidedBy(s, spec, build.table)
<1>1. CASE build.pc # "building"
  BY <1>1, EmptyOK DEF BuildOK
<1>2. CASE build.pc = "building"
  <2>1. build.specs \in Seq(Specs)
    BY DEF BuildOK
  <2>2. CASE Behind(s)
    <3>1. build.specs[Deciding(build.specs, s)] \in Specs
      BY <2>1, <2>2, DecidingSpec DEF Behind
    <3> QED BY <1>2, <2>2, <3>1 DEF BuildOK
  <2>3. CASE ~ Behind(s)
    BY <1>2, <2>3 DEF BuildOK
  <2> QED BY <2>2, <2>3
<1> QED BY <1>1, <1>2

\* A slot has its kind; a route is of its name and has a policy, and nothing else has.
LEMMA SlotOK ==
  ASSUME NEW t \in Tables, NEW s \in Snis,
         Blank(s, t) \/ \E spec \in Specs : DecidedBy(s, spec, t)
  PROVE  /\ t.slot[s].kind \in {"absent", "dropped", "route"}
         /\ IsRoute(t.slot[s]) => t.slot[s].sni = s
         /\ IsRoute(t.slot[s]) <=> t.auth[s] # NoAuth
<1>1. t.slot[s] \in Slots
  BY DEF Tables
<1>2. CASE Blank(s, t)
  BY <1>1, <1>2 DEF Blank, IsRoute, Absent
<1>3. ASSUME NEW spec \in Specs, DroppedFor(s, spec, t)
      PROVE  ~ IsRoute(t.slot[s]) /\ t.auth[s] = NoAuth
  BY <1>3 DEF DroppedFor, IsRoute, Dropped
<1>4. ASSUME NEW spec \in Specs, ServedFor(s, spec, t)
      PROVE  IsRoute(t.slot[s]) /\ t.auth[s] # NoAuth /\ t.slot[s].sni = s
  <2>1. spec.auth # NoAuth
    BY DEF Specs
  <2> QED BY <1>1, <1>4, <2>1, SlotKinds DEF ServedFor
<1> QED BY <1>1, <1>2, <1>3, <1>4, SlotKinds DEF DecidedBy

\* The invariant is at least as strong as the type invariant.
LEMMA IInvTypes == IInv => TypeOK
<1> SUFFICES ASSUME IInv PROVE TypeOK
  OBVIOUS
<1>1. ASSUME NEW s \in Snis
      PROVE  /\ Blank(s, live) \/ \E spec \in Specs : DecidedBy(s, spec, live)
             /\ applied[s].sni \in {s, NoName}
  <2>1. CASE applied[s] = NoSpec
    BY <2>1 DEF IInv, LiveOK, NoSpec
  <2>2. CASE applied[s] # NoSpec
    BY <2>2 DEF IInv, LiveOK
  <2> QED BY <2>1, <2>2
<1>2. live \in Tables /\ build.table \in Tables
  BY DEF IInv, LiveOK, BuildOK
<1>3. ASSUME NEW t \in {live, build.table}, NEW s \in Snis
      PROVE  /\ t.slot[s].kind \in {"absent", "dropped", "route"}
             /\ IsRoute(t.slot[s]) => t.slot[s].sni = s
             /\ IsRoute(t.slot[s]) <=> t.auth[s] # NoAuth
  BY <1>1, <1>2, SlotOK, BuildSlots DEF IInv
<1>4. build.pc \in {"idle", "building", "swapped"}
  BY DEF IInv, BuildOK
<1>5. IsInjective(cache) /\ evictAt \in Nat /\ evictAt >= MinEvictAt
  BY DEF IInv, CacheOK, IsCache, WithinLimits
<1> QED BY <1>1, <1>3, <1>4, <1>5 DEF TypeOK

\* The cache holds what is live and being built, within its limit.
LEMMA IInvCache == IInv => LiveConfigsCached /\ CacheBounded
<1> SUFFICES ASSUME IInv PROVE LiveConfigsCached /\ CacheBounded
  OBVIOUS
<1>1. LiveConfigsCached
  BY DEF IInv, CacheOK, LiveConfigsCached, HoldsTable, Holds, RoutesOf
<1> DEFINE n == 2 * HeldAtMost
<1>2. n \in Nat /\ MinEvictAt \in Nat
  BY SnisFinite, RouteTableConstants DEF HeldAtMost
<1>3. Cardinality(DOMAIN cache) <= evictAt /\ evictAt \in Nat /\ (evictAt <= MinEvictAt \/ evictAt <= n)
  BY DEF IInv, CacheOK, WithinLimits
<1> HIDE DEF n
<1>4. \E x \in {MinEvictAt, n} : \A y \in {MinEvictAt, n} : x >= y
  BY <1>2
<1>5. /\ Max({MinEvictAt, n}) \in {MinEvictAt, n}
      /\ Max({MinEvictAt, n}) >= MinEvictAt /\ Max({MinEvictAt, n}) >= n
  BY <1>4 DEF Max
<1>6. evictAt <= Max({MinEvictAt, n})
  BY <1>2, <1>3, <1>5
<1>7. CacheBounded
  BY <1>3, <1>6 DEF CacheBounded, n, HeldAtMost
<1> QED BY <1>1, <1>7

\* A live slot is absent exactly if no spec configured it.
LEMMA ConfiguredSlot ==
  ASSUME IInv, NEW s \in Snis
  PROVE  /\ Configured(s) <=> live.slot[s] # Absent
         /\ Configured(s) => DecidedBy(s, applied[s], live)
<1>1. CASE applied[s] = NoSpec
  BY <1>1 DEF IInv, LiveOK, Blank, Configured
<1>2. CASE applied[s] # NoSpec
  <2>1. DecidedBy(s, applied[s], live)
    BY <1>2 DEF IInv, LiveOK
  <2>2. live.slot[s] # Absent
    <3>1. CASE DroppedFor(s, applied[s], live)
      BY <3>1 DEF DroppedFor, Dropped, Absent
    <3>2. CASE ServedFor(s, applied[s], live)
      BY <3>2 DEF ServedFor, Routes, Absent
    <3> QED BY <2>1, <3>1, <3>2 DEF DecidedBy
  <2> QED BY <1>2, <2>1, <2>2 DEF Configured
<1> QED BY <1>1, <1>2

\* resolve_with finds the slot of the most specific configured name.
LEMMA ResolveCovering ==
  ASSUME IInv, NEW name \in ClientNames, NEW allowDefault \in BOOLEAN
  PROVE  /\ Covering(name) \in Snis
         /\ ResolveWith(live, name, allowDefault) =
              IF allowDefault \/ Covering(name) # DefaultSni THEN live.slot[Covering(name)] ELSE Absent
<1>1. DefaultSni \in Snis /\ DefaultSni \notin ExactSnis /\ DefaultSni \notin WildcardSnis
  BY RouteTableConstants DEF Snis
<1>2. /\ WildcardOf[name] # NoName => WildcardOf[name] \in WildcardSnis
      /\ WildcardOf[DefaultSni] = NoName
  BY RouteTableConstants
<1>3. ExactSnis \subseteq Snis /\ WildcardSnis \subseteq Snis
  BY DEF Snis
<1>4. CASE name \in ExactSnis /\ Configured(name)
  <2>1. Covering(name) = name /\ name # DefaultSni /\ name \in Snis
    BY <1>1, <1>3, <1>4 DEF Covering
  <2>2. ExactSlot(live, name) = live.slot[name] /\ live.slot[name] # Absent
    BY <1>4, <2>1, ConfiguredSlot DEF ExactSlot
  <2>3. ResolveWith(live, name, allowDefault) = live.slot[name]
    BY <2>1, <2>2 DEF ResolveWith
  <2> QED BY <2>1, <2>3
<1>5. CASE /\ ~ (name \in ExactSnis /\ Configured(name))
           /\ WildcardOf[name] # NoName /\ Configured(WildcardOf[name])
  <2> DEFINE w == WildcardOf[name]
  <2>1. Covering(name) = w /\ w \in Snis /\ w # DefaultSni /\ name # DefaultSni
    BY <1>1, <1>2, <1>3, <1>5 DEF Covering
  <2>2. ExactSlot(live, name) = Absent
    BY <1>3, <1>5, ConfiguredSlot DEF ExactSlot
  <2>3. WildcardSlot(live, name) = live.slot[w] /\ live.slot[w] # Absent
    BY <1>5, <2>1, ConfiguredSlot DEF WildcardSlot
  <2>4. ResolveWith(live, name, allowDefault) = live.slot[w]
    BY <2>1, <2>2, <2>3 DEF ResolveWith
  <2> QED BY <2>1, <2>4
<1>6. CASE /\ ~ (name \in ExactSnis /\ Configured(name))
           /\ ~ (WildcardOf[name] # NoName /\ Configured(WildcardOf[name]))
  <2>1. Covering(name) = DefaultSni
    BY <1>6 DEF Covering
  <2>2. ExactSlot(live, name) = Absent
    BY <1>3, <1>6, ConfiguredSlot DEF ExactSlot
  <2>3. WildcardSlot(live, name) = Absent
    BY <1>2, <1>3, <1>6, ConfiguredSlot DEF WildcardSlot
  <2>4. ResolveWith(live, name, allowDefault) = DefaultRoute(live, allowDefault)
    BY <2>2, <2>3 DEF ResolveWith
  <2> QED BY <1>1, <2>1, <2>4 DEF DefaultRoute
<1> QED BY <1>4, <1>5, <1>6

\* A name is served by its own route.
LEMMA IInvServed == IInv => ServedByOwnRoute
<1> SUFFICES ASSUME IInv, NEW name \in ClientNames, NEW allowDefault \in BOOLEAN
             PROVE  LET sni == Covering(name)
                        found == ResolveWith(live, name, allowDefault)
                        open == allowDefault \/ sni # DefaultSni
                    IN /\ IsRoute(found) => found.sni = sni /\ open /\ Configured(sni)
                       /\ Configured(sni) /\ Healthy(applied[sni]) /\ open => IsRoute(found)
  BY DEF ServedByOwnRoute
<1> DEFINE sni == Covering(name)
           found == ResolveWith(live, name, allowDefault)
           open == allowDefault \/ sni # DefaultSni
<1>1. sni \in Snis /\ found = IF open THEN live.slot[sni] ELSE Absent
  BY ResolveCovering
<1> HIDE DEF sni, found
<1>2. ~ IsRoute(Absent)
  BY DEF IsRoute, Absent
<1>3. IsRoute(found) => open /\ Configured(sni)
  BY <1>1, <1>2, ConfiguredSlot
<1>4. IsRoute(found) => found.sni = sni
  BY <1>1, <1>2, IInvTypes DEF TypeOK
<1>5. ASSUME Configured(sni), Healthy(applied[sni]), open PROVE IsRoute(found)
  <2>1. DecidedBy(sni, applied[sni], live)
    BY <1>1, <1>5, ConfiguredSlot
  <2>2. ServedFor(sni, applied[sni], live)
    BY <1>5, <2>1 DEF DecidedBy, DroppedFor
  <2> QED BY <1>1, <1>5, <2>2 DEF ServedFor, Routes, IsRoute
<1> QED BY <1>3, <1>4, <1>5 DEF sni, found

\* A route enforces the policy its spec asks for.
LEMMA IInvPolicy == IInv => EnforcesCurrentPolicy
<1> SUFFICES ASSUME IInv, NEW s \in Snis, IsRoute(live.slot[s])
             PROVE  LET spec == applied[s]
                        route == live.slot[s]
                    IN /\ ~ Rejected(spec)
                       /\ route.allow = spec.allow
                       /\ route.failover = FailoverOf(spec)
                       /\ IF spec.auth = Passthrough THEN route.tls = NoTls
                          ELSE route.tls # NoTls /\ route.tls.key[2] = spec.auth
  BY DEF EnforcesCurrentPolicy
<1>1. live.slot[s] # Absent /\ live.slot[s] # Dropped
  BY DEF IsRoute, Absent, Dropped
<1>2. ServedFor(s, applied[s], live)
  BY <1>1, ConfiguredSlot DEF DecidedBy, DroppedFor
<1>3. \A tls \in TlsConfigs : tls # NoTls
  BY DEF TlsConfigs, NoTls, Ids
<1> QED BY <1>2, <1>3 DEF ServedFor, TlsFor

\* Two tables the cache answers for agree on the identity of a key.
LEMMA SameKeySameId ==
  ASSUME IInv, NEW r \in Routes, NEW q \in Routes, Holds(cache, r), Holds(cache, q),
         r.tls.key = q.tls.key
  PROVE  q.tls.id = r.tls.id
<1>1. /\ r.tls = NoTls \/ r.tls \in TlsConfigs
      /\ q.tls = NoTls \/ q.tls \in TlsConfigs
  BY DEF Routes
<1>2. \A tls \in TlsConfigs : tls.key # <<>>
  <2> SUFFICES ASSUME NEW tls \in TlsConfigs, tls.key = <<>> PROVE FALSE
    OBVIOUS
  <2>1. tls.key \in STRING \X STRING
    BY DEF TlsConfigs, Keys
  <2>2. PICK a \in STRING, b \in STRING : tls.key = <<a, b>>
    BY <2>1
  <2>3. <<a, b>> # <<>>
    OBVIOUS
  <2> QED BY <2>2, <2>3
<1>3. NoTls.key = <<>> /\ NoTls.id = 0
  BY DEF NoTls
<1> QED BY <1>1, <1>2, <1>3 DEF Holds

\* Only Swap changes the live table, to one the cache answers for too.
LEMMA SwapKeepsSessions ==
  ASSUME IInv, [Next]_vars, NEW s \in Snis,
         IsRoute(live.slot[s]), IsRoute(live'.slot[s]), live.slot[s].tls.key = live'.slot[s].tls.key
  PROVE  live'.slot[s].tls.id = live.slot[s].tls.id
<1>1. CASE Swap
  <2>1. live' = build.table
    BY <1>1 DEF Swap
  <2>2. live.slot[s] \in Routes /\ build.table.slot[s] \in Routes
    BY <2>1, SlotKinds DEF IInv, LiveOK, BuildOK, Tables
  <2>3. Holds(cache, live.slot[s]) /\ Holds(cache, build.table.slot[s])
    BY <2>1 DEF IInv, CacheOK, HoldsTable
  <2> QED BY <2>1, <2>2, <2>3, SameKeySameId
<1>2. CASE live' = live
  BY <1>2
<1>3. Swap \/ live' = live
  BY DEF Next, vars, BeginUpdate, BuildSpec, AbandonUpdate, Sweep, Lookup, ResolveConnection, Finish
<1> QED BY <1>1, <1>2, <1>3

----------------------------------------------------------------------------
(* The theorems                                                            *)

\* The invariant holds in every state.
LEMMA Inductive == Spec => []IInv
BY InitOK, NextOK, PTL DEF Spec

\* Through any reloads, abandoned updates, sweeps and evictions, a name is
\* served by the route configured for it most specifically and by no other,
\* and the TLS configuration of every route, live or being built, is the one
\* the cache answers for its key; the cache stays within its threshold
\* (router.rs resolve_with, build_route_table; tls.rs TlsConfigCache).
THEOREM RoutesSoundAlways == Spec => []RoutesSound
<1>1. IInv => RoutesSound
  BY IInvTypes, IInvCache, IInvServed DEF RoutesSound, CacheSound
<1> QED BY <1>1, Inductive, PTL

\* A route of the live table, built or carried from an earlier one, has the
\* client-certificate verifier, the allow list and the failover policy of the
\* spec that was applied last, and no rejected spec is served (router.rs
\* build_route_table).
THEOREM EnforcesCurrentPolicyAlways == Spec => []EnforcesCurrentPolicy
BY IInvPolicy, Inductive, PTL

\* A reload that leaves a route's certificate, key and policy alone leaves its
\* TLS configuration, and so its sessions and tickets, alone (tls.rs
\* lookup_or_build, retain_used).
THEOREM SessionsSurviveReloadAlways == Spec => SessionsSurviveReload
<1>1. IInv /\ [Next]_vars =>
        [\A s \in Snis :
           /\ IsRoute(live.slot[s]) /\ IsRoute(live'.slot[s])
           /\ live.slot[s].tls.key = live'.slot[s].tls.key
           => live'.slot[s].tls.id = live.slot[s].tls.id]_vars
  BY SwapKeepsSessions
<1> QED BY <1>1, Inductive, PTL DEF Spec, SessionsSurviveReload

============================================================================
