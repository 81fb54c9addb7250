---------------------------- MODULE SpillControl ----------------------------
(***************************************************************************)
(* Spill-over of one route to a less loaded peer (failover.rs): the load   *)
(* poll with its queries and answers, the controller that moves the share  *)
(* of connections (assess, control), the admission word it publishes, and  *)
(* the connections that read it (spill_target), across reloads.            *)
(*                                                                         *)
(* A reload builds a new Failover that shares with its predecessor, object *)
(* by object, what Failover::new and with_cpu_from carry over: a load      *)
(* average, the peers of the same address, the SpillState.  An object is   *)
(* named by the table it was born in.  A connection, or the poll task, may *)
(* still hold an older table.                                              *)
(*                                                                         *)
(* Deadlines are kept as the ticks they have left.  The code between two   *)
(* awaits of the poll task takes no time.  A deadline that has passed is   *)
(* as good as another that has.                                            *)
(***************************************************************************)
EXTENDS Integers, Sequences, FiniteSets, FiniteSetsExt, Functions

CONSTANTS
  Peers,          \* addresses of the peers
  Dests,          \* the route's destinations, default and h2
                  \* (a route with a TCP destination has no load source at all)
  Conns,          \* connection slots
  Configs,        \* the configurations of the route
  InitConfig,
  MaxTables,      \* bound on the route tables
  LocalLoads,     \* loads the worker threads may reach
  PeerLoads,      \* per peer: the loads it may report
  Distances,      \* per peer: whether its connects take longer than a limit
  Failing,        \* peers whose forwards may fail
  MaxConcurrentProbes,
  SampleValid,    \* SAMPLE_VALID_NS, in ticks
  ReportTtl,      \* report_ttl_ms
  MaxControlStep, \* MAX_CONTROL_STEP_NS
  Whole           \* a fraction of 1, in the units of a fraction (1000)

NoPolicy == [highWater |-> 0, margin |-> 0, step |-> 0, max |-> 0, limited |-> FALSE]

ASSUME SpillConstants ==
  /\ InitConfig \in Configs
  /\ \A k \in Configs :
       /\ k.peers \in Seq(Peers) /\ IsInjective(k.peers)
       /\ DOMAIN k.source \subseteq Dests
       /\ k.policy # NoPolicy =>
            /\ {k.policy.highWater, k.policy.margin, k.policy.step} \subseteq Nat
            /\ k.policy.margin >= 2 /\ k.policy.step > 0 /\ k.policy.max \in 1 .. Whole
  /\ Distances \in [Peers -> SUBSET {"near", "far"}] /\ Failing \subseteq Peers
  /\ LocalLoads \subseteq Nat /\ PeerLoads \in [Peers -> SUBSET Nat]
  /\ MaxTables \in Nat \ {0} /\ SampleValid \in Nat \ {0} /\ ReportTtl \in Nat \ {0}
  /\ MaxControlStep \in Nat \ {0} /\ MaxConcurrentProbes \in Nat \ {0}
  /\ Whole \in Nat \ {0}

VARIABLES
  tables,    \* the configurations installed, the live one last
  sample,    \* per load average: the smoothed load and how long it is current
  peer,      \* per FailoverPeer: last report, rtt, cooldown
  spill,     \* per SpillState: the admission word and the controller
  poll,      \* the poll task: its table, the queries in flight
  conn,      \* per connection: the table it arrived on, the word it read
  calm       \* ticks since the live SpillState began, up to CalmCap

spillVars == <<tables, sample, peer, spill, poll, conn, calm>>

Versions == 1 .. MaxTables
Live == Len(tables)

----------------------------------------------------------------------------
(* What a reload carries over                                              *)

\* The earliest table from which an object is handed on up to v, if it is handed
\* on from each of the tables in kept to the next one.
Born(v, kept) == Min({u \in 1 .. v : u .. v - 1 \subseteq kept})

\* with_cpu_from: the same slots, so the same load average.
SameSource(d, k, l) ==
  d \in DOMAIN k.source /\ d \in DOMAIN l.source /\ k.source[d] = l.source[d]
SampleBorn(v, d) == Born(v, {w \in 1 .. v - 1 : SameSource(d, tables[w], tables[w + 1])})
SampleOf(v, d) == sample[SampleBorn(v, d)][d]

\* Failover::new: the FailoverPeer of an address the previous table had.
HasPeer(p, k, l) == p \in Range(k.peers) /\ p \in Range(l.peers)
PeerBorn(v, p) == Born(v, {w \in 1 .. v - 1 : HasPeer(p, tables[w], tables[w + 1])})
PeerOf(v, p) == peer[PeerBorn(v, p)][p]

\* Mutant of SameSpill: a state is kept whatever the order of the peers.
SameSpillAnyOrder(k, l) ==
  /\ k.policy # NoPolicy /\ k.policy = l.policy
  /\ Range(k.peers) = Range(l.peers) /\ k.source = l.source

\* Failover::new: the SpillState goes on under the same policy, peers and load source.
SameSpill(k, l) ==
  /\ k.policy # NoPolicy /\ k.policy = l.policy
  /\ k.peers = l.peers /\ k.source = l.source

StateBorn(v) == Born(v, {w \in 1 .. v - 1 : SameSpill(tables[w], tables[w + 1])})

----------------------------------------------------------------------------
(* The controller                                                          *)

Unknown == [load |-> 0, left |-> 0]

\* route_load: the busier destination, current as long as both are.
RouteLoad(v) ==
  LET readings == {SampleOf(v, d) : d \in DOMAIN tables[v].source}
  IN  IF readings = {} \/ \E r \in readings : r.left = 0 THEN Unknown
      ELSE [load |-> Max({r.load : r \in readings}), left |-> Min({r.left : r \in readings})]

\* The peers assess() may choose: a fresh report, no cooldown, near enough.
Eligible(v) ==
  {i \in DOMAIN tables[v].peers :
     LET f == PeerOf(v, tables[v].peers[i])
     IN  f.report.left > 0 /\ ~ f.cooling /\ (tables[v].policy.limited => f.rtt = "near")}

\* min_by_key: the first of the least loaded.
LeastLoaded(v) ==
  CHOOSE i \in Eligible(v) : \A j \in Eligible(v) \ {i} :
    LET level(n) == PeerOf(v, tables[v].peers[n]).report.load
    IN  level(i) <= level(j) /\ (level(i) = level(j) => i < j)

Rises(policy, local, other) == local >= policy.highWater /\ other + policy.margin <= local

\* Doubled, "so an odd margin's half is not rounded down".
Holds(policy, local, other) ==
  /\ 2 * local + policy.margin >= 2 * policy.highWater
  /\ 2 * other + policy.margin <= 2 * local

\* How long an admission holds: while both readings behind it are current.
HeldFor(local, report) == Min({local.left, report.left})

\* The word, and besides it what it rests on: the peer meant and how long each
\* reading behind it is current (history, read by no action).
NoAdmission ==
  [fraction |-> 0, target |-> 0, left |-> 0, meant |-> "nobody", sampleLeft |-> 0, reportLeft |-> 0]

SameWord(a, b) == a.fraction = b.fraction /\ a.target = b.target /\ a.left = b.left

\* assess: whether the share rises, is held or decays.
Trend(v) ==
  LET local == RouteLoad(v)
      other == PeerOf(v, tables[v].peers[LeastLoaded(v)]).report
      policy == tables[v].policy
  IN  CASE local.left = 0 \/ Eligible(v) = {} -> "decay"
        [] OTHER -> IF Rises(policy, local.load, other.load) THEN "rise"
                    ELSE IF Holds(policy, local.load, other.load) THEN "hold" ELSE "decay"

Unstarted == -1
NewState == [word |-> NoAdmission, fraction |-> 0, since |-> Unstarted]

\* Mutant of Elapsed: the first pass counts the time before it.
ElapsedFromZero(s) == IF s.since = Unstarted THEN MaxControlStep ELSE Min({s.since, MaxControlStep})

\* The time the controller moves for: none at its first pass, else at most a step.
Elapsed(s) == IF s.since = Unstarted THEN 0 ELSE Min({s.since, MaxControlStep})

Fraction(s, policy, trend) ==
  LET delta == policy.step * Elapsed(s)
  IN  CASE trend = "rise" -> Min({policy.max, s.fraction + delta})
        [] trend = "hold" -> s.fraction
        [] OTHER -> Max({0, s.fraction - delta})

\* control: the share, and the admission if there is a target and a share.
Controlled(v, s) ==
  LET trend == Trend(v)
      fraction == Fraction(s, tables[v].policy, trend)
      i == LeastLoaded(v)
      local == RouteLoad(v)
      report == PeerOf(v, tables[v].peers[i]).report
  IN  [since |-> 0, fraction |-> fraction,
       word |-> IF trend = "decay" \/ fraction = 0 THEN NoAdmission
                ELSE [fraction |-> fraction, target |-> i, left |-> HeldFor(local, report),
                      meant |-> tables[v].peers[i],
                      sampleLeft |-> local.left, reportLeft |-> report.left]]

----------------------------------------------------------------------------
(* The poll task                                                           *)

\* A tick: queries go out to the peers that are due; in flight, interval and the
\* limit on concurrent queries hold others back.  Then every controller runs.
PollTick ==
  /\ poll.pc = "waiting"
  /\ \E due \in SUBSET (IF tables[Live].policy = NoPolicy THEN {} ELSE Range(tables[Live].peers)) :
       /\ Cardinality(poll.inFlight \cup due) <= MaxConcurrentProbes
       /\ poll' = [pc |-> "control", table |-> Live, inFlight |-> poll.inFlight \cup due]
  /\ UNCHANGED <<tables, sample, peer, spill, conn, calm>>

\* record_rtt: the first sample counts whole, later ones move the average.
Rtts(old, new) == IF old = "none" THEN {new} ELSE {old, new}

\* What an answer may say of the route's name besides a load: "-", the peer would
\* not take a connection; or nothing, as the query for its part of the names failed.
Dash == -1
Missing == -2

\* set_report: "-" clears the report; a name whose chunk failed keeps it.
Reported(old, level, left) ==
  CASE level = Dash -> Unknown
    [] level = Missing -> old
    [] OTHER -> [load |-> level, left |-> left]

\* apply_answer: an answer is stored with the peer of the live table, if that
\* still has it, under the time it arrived; then the controllers run.
Answered(p, level, left, sampled) ==
  /\ poll.pc = "waiting" /\ p \in poll.inFlight
  /\ poll' = [pc |-> "control", table |-> Live, inFlight |-> poll.inFlight \ {p}]
  /\ IF tables[Live].policy # NoPolicy /\ p \in Range(tables[Live].peers)
     THEN \E rtt \in Rtts(PeerOf(Live, p).rtt, sampled) :
            peer' = [peer EXCEPT ![PeerBorn(Live, p)][p] =
                       [rtt |-> rtt, report |-> Reported(@.report, level, left),
                        cooling |-> @.cooling]]
     ELSE UNCHANGED peer
  /\ UNCHANGED <<tables, sample, spill, conn, calm>>

\* A query that failed leaves the report to expire.
Unanswered(p) ==
  /\ poll.pc = "waiting" /\ p \in poll.inFlight
  /\ poll' = [pc |-> "control", table |-> Live, inFlight |-> poll.inFlight \ {p}]
  /\ UNCHANGED <<tables, sample, peer, spill, conn, calm>>

\* control_all, on the table the task loaded before.
ControlAll ==
  /\ poll.pc = "control"
  /\ poll' = [poll EXCEPT !.pc = "waiting", !.table = 1]
  /\ spill' = IF tables[poll.table].policy = NoPolicy THEN spill
              ELSE [spill EXCEPT ![StateBorn(poll.table)] = Controlled(poll.table, @)]
  /\ UNCHANGED <<tables, sample, peer, conn, calm>>

----------------------------------------------------------------------------
(* Connections                                                             *)

AtRest == [pc |-> "idle", table |-> 1, word |-> NoAdmission]

\* spill_target: a connection, of the live table or an older one, loads the word.
LoadWord(c, v) ==
  LET word == spill[StateBorn(v)].word
  IN  /\ conn[c].pc = "idle"
      /\ tables[v].policy # NoPolicy
      /\ word.fraction > 0
      /\ conn' = [conn EXCEPT ![c] = [pc |-> "read", table |-> v, word |-> word]]
      /\ UNCHANGED <<tables, sample, peer, spill, poll, calm>>

\* compare_exchange: "a newer admission is left alone".
Cleared(current, seen) == IF SameWord(current, seen) THEN NoAdmission ELSE current

\* The admission has expired.
FindsExpired(c) ==
  /\ conn[c].pc = "read" /\ conn[c].word.left = 0
  /\ spill' = [spill EXCEPT ![StateBorn(conn[c].table)].word = Cleared(@, conn[c].word)]
  /\ conn' = [conn EXCEPT ![c] = AtRest]
  /\ UNCHANGED <<tables, sample, peer, poll, calm>>

\* The peer at the target's index, in the table the connection holds.
Target(c) == tables[conn[c].table].peers[conn[c].word.target]

\* Handed to that peer: the client's hash falls below the fraction, and the peer is not cooling down.
Spills(c) ==
  /\ conn[c].pc = "read" /\ conn[c].word.left > 0
  /\ conn[c].word.target \in DOMAIN tables[conn[c].table].peers
  /\ ~ PeerOf(conn[c].table, Target(c)).cooling
  /\ conn' = [conn EXCEPT ![c] = AtRest]
  /\ UNCHANGED <<tables, sample, peer, spill, poll, calm>>

\* The hash does not, or the peer cools down: local service.
StaysLocal(c) ==
  /\ conn[c].pc = "read" /\ conn[c].word.left > 0
  /\ conn' = [conn EXCEPT ![c] = AtRest]
  /\ UNCHANGED <<tables, sample, peer, spill, poll, calm>>

----------------------------------------------------------------------------
(* Reloads, samples, cooldowns and time                                    *)

Reload(k) ==
  /\ Live < MaxTables
  /\ tables' = Append(tables, k)
  /\ calm' = IF SameSpill(tables[Live], k) THEN calm ELSE 0
  /\ UNCHANGED <<sample, peer, spill, poll, conn>>

\* LoadEwma::update of the live table's balancers; no fresh thread, no load.
Sampled(d, level) ==
  /\ d \in DOMAIN tables[Live].source
  /\ sample' = [sample EXCEPT ![SampleBorn(Live, d)][d] =
                  IF level \in LocalLoads THEN [load |-> level, left |-> SampleValid] ELSE Unknown]
  /\ UNCHANGED <<tables, peer, spill, poll, conn, calm>>

\* A forward fails or succeeds (see FailoverPeers), or its cooldown passes.
CooldownChanges(v, p) ==
  /\ p \in Range(tables[v].peers) \cap Failing
  /\ peer' = [peer EXCEPT ![PeerBorn(v, p)][p].cooling = ~ @]
  /\ UNCHANGED <<tables, sample, spill, poll, conn, calm>>

Aged(n) == Max({0, n - 1})
AgedReading(r) == IF r.left <= 1 THEN Unknown ELSE [r EXCEPT !.left = @ - 1]
AgedWord(a) ==
  IF a.left <= 1 THEN [a EXCEPT !.left = 0, !.sampleLeft = 0, !.reportLeft = 0]
  ELSE [a EXCEPT !.left = @ - 1, !.sampleLeft = Aged(@), !.reportLeft = Aged(@)]

\* A step a tick fills the whole range by then.
CalmCap == Whole

SpillTick ==
  /\ poll.pc = "waiting"
  /\ sample' = [u \in Versions |-> [d \in Dests |-> AgedReading(sample[u][d])]]
  /\ peer' = [u \in Versions |-> [p \in Peers |->
                [peer[u][p] EXCEPT !.report = AgedReading(@)]]]
  /\ spill' = [u \in Versions |->
                 [spill[u] EXCEPT !.word = AgedWord(@),
                    !.since = IF @ = Unstarted THEN Unstarted ELSE Min({@ + 1, MaxControlStep})]]
  /\ conn' = [c \in Conns |-> [conn[c] EXCEPT !.word = AgedWord(@)]]
  /\ calm' = Min({calm + 1, CalmCap})
  /\ UNCHANGED <<tables, poll>>

----------------------------------------------------------------------------

SpillInit ==
  /\ tables = <<InitConfig>>
  /\ sample = [u \in Versions |-> [d \in Dests |-> Unknown]]
  /\ peer = [u \in Versions |-> [p \in Peers |->
               [report |-> Unknown, rtt |-> "none", cooling |-> FALSE]]]
  /\ spill = [u \in Versions |-> NewState]
  /\ poll = [pc |-> "waiting", table |-> 1, inFlight |-> {}]
  /\ conn = [c \in Conns |-> AtRest]
  /\ calm = 0

SpillNext ==
  \/ PollTick \/ ControlAll
  \/ \E p \in Peers :
       \/ Unanswered(p)
       \/ \E level \in PeerLoads[p] \cup {Dash, Missing}, left \in 1 .. ReportTtl,
             sampled \in Distances[p] : Answered(p, level, left, sampled)
       \/ \E v \in 1 .. Live : CooldownChanges(v, p)
  \/ \E c \in Conns :
       \/ \E v \in 1 .. Live : LoadWord(c, v)
       \/ FindsExpired(c) \/ Spills(c) \/ StaysLocal(c)
  \/ \E k \in Configs : Reload(k)
  \/ \E d \in Dests, level \in LocalLoads \cup {Dash} : Sampled(d, level)
  \/ SpillTick

SpillControlSpec == SpillInit /\ [][SpillNext]_spillVars

----------------------------------------------------------------------------
(* Properties                                                              *)

Words == [fraction : Nat, target : Nat, left : 0 .. Max({SampleValid, ReportTtl}),
          meant : Peers \cup {"nobody"}, sampleLeft : 0 .. SampleValid, reportLeft : 0 .. ReportTtl]

\* The shape of the state.
TypeOK ==
  /\ tables \in Seq(Configs) /\ Live \in Versions
  /\ \A u \in Versions :
       /\ \A d \in Dests : sample[u][d].left \in 0 .. SampleValid
       /\ \A p \in Peers : /\ peer[u][p].report.left \in 0 .. ReportTtl
                           /\ peer[u][p].rtt \in {"none", "near", "far"}
                           /\ peer[u][p].cooling \in BOOLEAN
       /\ spill[u].word \in Words /\ spill[u].fraction \in Nat
       /\ spill[u].since \in Unstarted .. MaxControlStep
  /\ poll.pc \in {"waiting", "control"} /\ poll.table \in 1 .. Live
  /\ poll.inFlight \subseteq Peers
  /\ \A c \in Conns : conn[c].word \in Words /\ conn[c].table \in 1 .. Live
  /\ calm \in 0 .. CalmCap

\* "The fraction moves at most `step` per second" (failover.rs control), "up to
\* maxFraction" (README.md): since its policy, its peers or its workers last changed
\* the share has grown by at most a step a tick, however the poll task stalled and
\* whatever reloads came in between, and no admission is above it.
ShareRamps ==
  /\ TypeOK
  /\ LET policy == tables[Live].policy
         s == spill[StateBorn(Live)]
     IN  policy # NoPolicy =>
           /\ s.fraction <= Min({policy.step * calm, policy.max})
           /\ s.word.fraction <= s.fraction

\* "Nothing spills once the local or peer reading behind the decision is older than
\* its freshness window" (README.md), and a connection goes to the peer whose
\* reading that was, also if it holds an older table or a reload came in between.
SpillsOnFreshReadings ==
  [][\A c \in Conns : Spills(c) =>
       /\ conn[c].word.sampleLeft > 0 /\ conn[c].word.reportLeft > 0
       /\ Target(c) = conn[c].word.meant]_spillVars

\* A connection that finds its admission expired never withdraws a newer one
\* (failover.rs spill_target): only the controller ends an admission that holds.
OnlyControllerWithdraws ==
  [][\A u \in Versions :
       spill[u].word.left > 0 /\ spill'[u].word = NoAdmission => poll # poll']_spillVars

\* An admission is used while it is fresh, as it was meant, and withdrawn by nobody else.
AdmissionsHonoured == SpillsOnFreshReadings /\ OnlyControllerWithdraws

=============================================================================
