---------------------------- MODULE LocalHealth ----------------------------
(***************************************************************************)
(* The local upstreams of one failover route: which slot a connection is   *)
(* given and which it tries next (balancer.rs pick and next_untried,       *)
(* upstream.rs connect_uds), the refusal marks those connects leave, the   *)
(* background probe that alone clears them and reports the route's health  *)
(* (failover.rs probe_periodically), and what a rebuild of the route table *)
(* carries over (balancer.rs with_health).                                 *)
(*                                                                         *)
(* A connection keeps the balancer of the table it arrived on; a rebuild   *)
(* makes new balancers that share the SlotHealth of every path they have   *)
(* in common.  A SlotHealth is named by its destination, its path and the  *)
(* table it was born in.  A TCP destination is a set of one slot.          *)
(*                                                                         *)
(* Time is the order of the refusals: each takes the next stamp, as        *)
(* now_ns() does at the resolution of a connect.  Affinity lifetimes, the  *)
(* connect deadline and the state of the endpoints are the environment's.  *)
(***************************************************************************)
EXTENDS Integers, FiniteSets

CONSTANTS
  Paths,        \* endpoints
  NoPath,       \* no endpoint
  Dests,        \* the route's destinations: the default one and the h2 one
  StickyDests,  \* the ones with ipAffinity
  Conns,        \* connection slots (a finished one is used again)
  IpOf,         \* the client address of each connection
  Layouts,      \* the slots a configuration may give each destination
  InitLayout,   \* the ones it starts with
  MaxTables,    \* bound on the route tables built
  MaxStamp,     \* bound on the refusals
  MaxFlips,     \* bound on the changes of the endpoints
  MaxDrops      \* bound on the events a full queue drops

ASSUME LocalHealthConstants ==
  /\ NoPath \notin Paths
  /\ IsFiniteSet(Conns) /\ Dests # {}
  /\ StickyDests \subseteq Dests
  /\ Layouts \subseteq [Dests -> SUBSET Paths]
  /\ InitLayout \in Layouts
  /\ MaxTables \in Nat \ {0} /\ MaxStamp \in Nat
  /\ MaxFlips \in Nat /\ MaxDrops \in Nat

Tables == 1 .. MaxTables
NoTable == 0
IPs == {IpOf[c] : c \in Conns}

VARIABLES
  endpoint,     \* per path: "up", "down", or "hollow" (accepts, then closes)
  flips,
  spared,       \* history, per connection: the paths not down since it arrived
  table,        \* the live table
  built,        \* the latest table built
  pending,      \* a table built and not yet live
  born,         \* per table, destination, path: the birth of its SlotHealth
  mark,         \* per SlotHealth: refused_at_ns
  stamp,        \* the stamp of the latest refusal
  active,       \* per table, destination, path: open connections
  affinity,     \* per destination, client: the sticky slot, in the live table
  conn,         \* per connection: where it is in connect_uds
  probe,        \* the probe task
  rested,       \* the route's probe interval has passed
  reported,     \* RouteStatus.reported_down
  told,         \* what the latest routeHealth event queued said
  drops,
  accepted      \* per path: the stamp when the probe of this pass found it serving

environment == <<endpoint, flips, spared>>
tables == <<table, built, pending, born>>
balancer == <<active, affinity>>
health == <<mark, stamp>>
events == <<reported, told, drops>>
vars == <<environment, tables, health, balancer, conn, probe, rested, events, accepted>>

----------------------------------------------------------------------------
(* Slots and their health                                                  *)

SlotsOf(t, d) == {p \in Paths : born[t][d][p] # NoTable}

MarkOf(t, d, p) == mark[d][p][born[t][d][p]]

Refusing(t, d, p) == MarkOf(t, d, p) # 0

AllRefusing(t, d) == SlotsOf(t, d) # {} /\ \A p \in SlotsOf(t, d) : Refusing(t, d, p)

LocallyDown(t) == \E d \in Dests : AllRefusing(t, d)

\* The refusal of a slot, with a stamp of its own.
MarkRefused(t, d, p) ==
  /\ stamp < MaxStamp
  /\ stamp' = stamp + 1
  /\ mark' = [mark EXCEPT ![d][p][born[t][d][p]] = stamp']

\* Mutant: a probe that succeeds clears whatever is marked by then.
ClearIfUnchangedAlways(m, observed) == 0

\* What is left of a mark when a probe that observed one of them succeeds.
ClearIfUnchanged(m, observed) == IF m = observed THEN 0 ELSE m

----------------------------------------------------------------------------
(* pick and next_untried                                                   *)

\* A slot's score is 1000 for each open connection and at most 1000 for the
\* CPU of its worker.
LowestScore(t, d, S) ==
  {p \in S : \A q \in S : active[t][d][p] <= active[t][d][q] + 1}

Accepting(t, d, S) == {p \in S : ~ Refusing(t, d, p)}

\* Lowest score, refusing slots last.
Best(t, d, S) ==
  LowestScore(t, d, IF Accepting(t, d, S) # {} THEN Accepting(t, d, S) ELSE S)

NoAffinity == [d \in Dests |-> [ip \in IPs |-> NoPath]]

Sticky(d, c) == affinity[d][IpOf[c]]

HonoursAffinity(d, c) == Sticky(d, c) # NoPath /\ ~ Refusing(table, d, Sticky(d, c))

Picks(d, c) ==
  IF HonoursAffinity(d, c) THEN {Sticky(d, c)} ELSE Best(table, d, SlotsOf(table, d))

\* A balancer that is no longer live is picked from no more, so its map is left out.
Bound(t, d, c, p) ==
  IF t = table /\ d \in StickyDests THEN [affinity EXCEPT ![d][IpOf[c]] = p] ELSE affinity

----------------------------------------------------------------------------
(* connect_uds                                                             *)

Free == [pc |-> "idle", table |-> 1, dest |-> CHOOSE d \in Dests : TRUE,
         slot |-> NoPath, tried |-> {}]

\* Picks a slot of the live table; a pick that affinity did not decide binds it.
Arrive(c, d) ==
  /\ conn[c].pc \in {"idle", "refused"}
  /\ SlotsOf(table, d) # {}
  /\ \E p \in Picks(d, c) :
       /\ conn' = [conn EXCEPT ![c] = [pc |-> "connecting", table |-> table, dest |-> d,
                                       slot |-> p, tried |-> {}]]
       /\ affinity' = Bound(table, d, c, p)
  /\ spared' = [spared EXCEPT ![c] = {p \in Paths : endpoint[p] # "down"}]
  /\ UNCHANGED <<endpoint, flips, tables, health, active, probe, rested, events, accepted>>

\* BalancerGuard::new counts the connection where it was made.
Connected(c) ==
  LET k == conn[c]
  IN  /\ k.pc = "connecting"
      /\ endpoint[k.slot] # "down"
      /\ conn' = [conn EXCEPT ![c].pc = "open"]
      /\ active' = [active EXCEPT ![k.table][k.dest][k.slot] = @ + 1]
      /\ affinity' = IF k.tried = {} THEN affinity ELSE Bound(k.table, k.dest, c, k.slot)
      /\ spared' = [spared EXCEPT ![c] = {}]
      /\ UNCHANGED <<endpoint, flips, tables, health, probe, rested, events, accepted>>

Untried(k) == SlotsOf(k.table, k.dest) \ k.tried

\* Mutant: slots that refuse are not worth a try.
NextUntriedAccepting(k) ==
  LowestScore(k.table, k.dest, Accepting(k.table, k.dest, Untried(k)))

NextUntried(k) == Best(k.table, k.dest, Untried(k))

\* A refusal marks the slot and moves on to the best one not tried, or ends.
Refused(c) ==
  LET k == [conn[c] EXCEPT !.tried = @ \cup {conn[c].slot}]
  IN  /\ k.pc = "connecting"
      /\ endpoint[k.slot] = "down"
      /\ MarkRefused(k.table, k.dest, k.slot)
      /\ \/ \E p \in NextUntried(k) :
              conn' = [conn EXCEPT ![c] = [k EXCEPT !.slot = p]]
         \/ /\ NextUntried(k) = {}
            /\ conn' = [conn EXCEPT ![c] = [k EXCEPT !.pc = "refused"]]
      /\ UNCHANGED <<environment, tables, balancer, probe, rested, events, accepted>>

\* The deadline, shared by all the tries, passes in one of them: a refusal too.
Expires(c) ==
  LET k == conn[c]
  IN  /\ k.pc = "connecting"
      /\ MarkRefused(k.table, k.dest, k.slot)
      /\ conn' = [conn EXCEPT ![c] = Free]
      /\ spared' = [spared EXCEPT ![c] = {}]
      /\ UNCHANGED <<endpoint, flips, tables, balancer, probe, rested, events, accepted>>

\* Any other error marks nothing and is not retried.
Fails(c) ==
  /\ conn[c].pc = "connecting"
  /\ conn' = [conn EXCEPT ![c] = Free]
  /\ spared' = [spared EXCEPT ![c] = {}]
  /\ UNCHANGED <<endpoint, flips, tables, health, balancer, probe, rested, events, accepted>>

\* Mutant: the count of the live table's balancer.
GuardTableLive(k) == table

\* The balancer a connection's guard holds.
GuardTable(k) == k.table

\* Saturates at zero.
Decremented(n) == IF n > 0 THEN n - 1 ELSE 0

Close(c) ==
  LET k == conn[c]
  IN  /\ k.pc = "open"
      /\ conn' = [conn EXCEPT ![c] = Free]
      /\ active' = [active EXCEPT ![GuardTable(k)][k.dest][k.slot] = Decremented(@)]
      /\ UNCHANGED <<environment, tables, health, affinity, probe, rested, events, accepted>>

\* An affinity entry passes its TTL: no longer honoured, and swept sometime.
AffinityLapses ==
  /\ \E d \in Dests, ip \in IPs :
       /\ affinity[d][ip] # NoPath
       /\ affinity' = [affinity EXCEPT ![d][ip] = NoPath]
  /\ UNCHANGED <<environment, tables, health, active, conn, probe, rested, events, accepted>>

----------------------------------------------------------------------------
(* probe_periodically                                                      *)

Asleep == [pc |-> "asleep", due |-> {}, running |-> {}, passed |-> {}]

\* The slots of both destinations.
Tracked(t) == {[dest |-> d, path |-> p] : d \in Dests, p \in Paths}

\* The refusing slots, each with the SlotHealth and the mark it has now.
Due(t) ==
  {[dest |-> s.dest, path |-> s.path, born |-> born[t][s.dest][s.path],
    observed |-> MarkOf(t, s.dest, s.path)] :
     s \in {r \in Tracked(t) : r.path \in SlotsOf(t, r.dest) /\ Refusing(t, r.dest, r.path)}}

\* A tick.  A route probed less than its interval ago is passed over, and only
\* a pass that probes something starts the interval anew.
ProbePass ==
  /\ probe.pc = "asleep"
  /\ LET due == IF rested THEN Due(table) ELSE {}
     IN  /\ probe' = [pc |-> "probing", due |-> due, running |-> {s.path : s \in due},
                      passed |-> {}]
         /\ rested' = (rested /\ due = {})
  /\ UNCHANGED <<environment, tables, health, balancer, conn, events, accepted>>

IntervalPasses ==
  /\ ~ rested
  /\ rested' = TRUE
  /\ UNCHANGED <<environment, tables, health, balancer, conn, probe, events, accepted>>

\* One connect per endpoint; it passes if it stays open.
ProbeConnects(p) ==
  /\ p \in probe.running
  /\ endpoint[p] = "up"
  /\ probe' = [probe EXCEPT !.running = @ \ {p}, !.passed = @ \cup {p}]
  /\ accepted' = [accepted EXCEPT ![p] = stamp]
  /\ UNCHANGED <<environment, tables, health, balancer, conn, rested, events>>

Ended(p) == [probe EXCEPT !.running = @ \ {p}, !.passed = @ \ {p},
                          !.due = {s \in @ : s.path # p}]

ProbeFails(p) ==
  /\ p \in probe.running
  /\ endpoint[p] # "up"
  /\ probe' = Ended(p)
  /\ UNCHANGED <<environment, tables, health, balancer, conn, rested, events, accepted>>

\* Every health the endpoint was due for.
ProbeClears(p) ==
  /\ p \in probe.passed
  /\ probe' = Ended(p)
  /\ accepted' = [accepted EXCEPT ![p] = 0]
  /\ mark' = [d \in Dests |-> [q \in Paths |-> [b \in Tables |->
       LET seen == {s \in probe.due : s.dest = d /\ s.path = q /\ s.born = b}
       IN  IF q = p /\ seen # {}
           THEN ClearIfUnchanged(mark[d][q][b], (CHOOSE s \in seen : TRUE).observed)
           ELSE mark[d][q][b]]]]
  /\ UNCHANGED <<environment, tables, stamp, balancer, conn, rested, events>>

\* reported_down after the health was found to differ from it.
Stored(down, queued) == IF queued THEN down ELSE reported

\* Mutant: only an outage is worth an event.
ChangedToDown(down) == down /\ ~ reported

Changed(down) == down # reported

\* The pass is over: the health of the live table, if it is not the one reported,
\* is queued as an event; a full queue drops it.
Report ==
  LET down == LocallyDown(table)
  IN  /\ probe.pc = "probing" /\ probe.running = {} /\ probe.passed = {}
      /\ probe' = Asleep
      /\ \/ /\ ~ Changed(down)
            /\ UNCHANGED events
         \/ /\ Changed(down)
            /\ told' = down
            /\ reported' = Stored(down, TRUE)
            /\ UNCHANGED drops
         \/ /\ Changed(down)
            /\ drops < MaxDrops
            /\ drops' = drops + 1
            /\ reported' = Stored(down, FALSE)
            /\ UNCHANGED told
      /\ UNCHANGED <<environment, tables, health, balancer, conn, rested, accepted>>

----------------------------------------------------------------------------
(* Rebuilding the route table, and the endpoints                           *)

\* The SlotHealth of a path the live route has.
Inherited(d, p) == born[table][d][p]

RefuseNew == LocallyDown(table)

\* build_route_table for new endpoints: counts and affinity start over.
Rebuild(layout) ==
  LET t == built + 1
      new == {s \in [dest : Dests, path : Paths] :
                s.path \in layout[s.dest] /\ Inherited(s.dest, s.path) = NoTable}
  IN  /\ pending = NoTable
      /\ built < MaxTables
      /\ RefuseNew /\ new # {} => stamp < MaxStamp
      /\ built' = t
      /\ pending' = t
      /\ born' = [born EXCEPT ![t] = [d \in Dests |-> [p \in Paths |->
                    IF p \notin layout[d] THEN NoTable
                    ELSE IF [dest |-> d, path |-> p] \in new THEN t
                    ELSE Inherited(d, p)]]]
      /\ stamp' = IF RefuseNew /\ new # {} THEN stamp + 1 ELSE stamp
      /\ mark' = [d \in Dests |-> [p \in Paths |-> [b \in Tables |->
                    IF RefuseNew /\ b = t /\ [dest |-> d, path |-> p] \in new
                    THEN stamp' ELSE mark[d][p][b]]]]
      /\ UNCHANGED <<environment, table, balancer, conn, probe, rested, events, accepted>>

\* The update swaps the table in, or a later section of the config rejects it.
Swap ==
  /\ pending # NoTable
  /\ table' \in {pending, table}
  /\ pending' = NoTable
  /\ affinity' = IF table' = table THEN affinity ELSE NoAffinity
  /\ UNCHANGED <<environment, built, born, health, active, conn, probe, rested, events,
                 accepted>>

Flip(p, s) ==
  /\ flips < MaxFlips
  /\ s # endpoint[p]
  /\ flips' = flips + 1
  /\ endpoint' = [endpoint EXCEPT ![p] = s]
  /\ spared' = [c \in Conns |-> IF s = "down" THEN spared[c] \ {p} ELSE spared[c]]
  /\ UNCHANGED <<tables, health, balancer, conn, probe, rested, events, accepted>>

----------------------------------------------------------------------------

Init ==
  /\ endpoint \in [Paths -> {"up", "down"}]
  /\ flips = 0 /\ spared = [c \in Conns |-> {}]
  /\ table = 1 /\ built = 1 /\ pending = NoTable
  /\ born = [t \in Tables |-> [d \in Dests |-> [p \in Paths |->
               IF t = 1 /\ p \in InitLayout[d] THEN 1 ELSE NoTable]]]
  /\ mark = [d \in Dests |-> [p \in Paths |-> [b \in Tables |-> 0]]]
  /\ stamp = 0
  /\ active = [t \in Tables |-> [d \in Dests |-> [p \in Paths |-> 0]]]
  /\ affinity = NoAffinity
  /\ conn = [c \in Conns |-> Free]
  /\ probe = Asleep
  /\ rested = TRUE
  /\ reported = FALSE /\ told = FALSE /\ drops = 0
  /\ accepted = [p \in Paths |-> 0]

Probing ==
  \/ ProbePass \/ Report
  \/ \E p \in Paths : ProbeConnects(p) \/ ProbeFails(p) \/ ProbeClears(p)

Next ==
  \/ \E c \in Conns :
       \/ \E d \in Dests : Arrive(c, d)
       \/ Connected(c) \/ Refused(c) \/ Expires(c) \/ Fails(c) \/ Close(c)
  \/ AffinityLapses
  \/ Probing \/ IntervalPasses
  \/ \E layout \in Layouts : Rebuild(layout)
  \/ Swap
  \/ \E p \in Paths, s \in {"up", "down", "hollow"} : Flip(p, s)

\* The probe task keeps running and the interval passes; connections, reloads
\* and endpoints owe nothing.
Spec == Init /\ [][Next]_vars /\ WF_vars(Probing) /\ WF_vars(IntervalPasses)

----------------------------------------------------------------------------
(* Properties                                                              *)

\* The shape of the state.
TypeOK ==
  /\ endpoint \in [Paths -> {"up", "down", "hollow"}]
  /\ spared \in [Conns -> SUBSET Paths]
  /\ flips \in 0 .. MaxFlips /\ drops \in 0 .. MaxDrops /\ stamp \in 0 .. MaxStamp
  /\ table \in 1 .. built /\ built \in Tables /\ pending \in 0 .. built
  /\ born \in [Tables -> [Dests -> [Paths -> 0 .. MaxTables]]]
  /\ mark \in [Dests -> [Paths -> [Tables -> 0 .. stamp]]]
  /\ active \in [Tables -> [Dests -> [Paths -> 0 .. Cardinality(Conns)]]]
  /\ affinity \in [Dests -> [IPs -> Paths \cup {NoPath}]]
  /\ conn \in [Conns ->
       [pc : {"idle", "connecting", "open", "refused"},
        table : Tables, dest : Dests, slot : Paths \cup {NoPath}, tried : SUBSET Paths]]
  /\ probe.pc \in {"asleep", "probing"}
  /\ probe.running \cup probe.passed \subseteq {s.path : s \in probe.due}
  /\ rested \in BOOLEAN /\ reported \in BOOLEAN /\ told \in BOOLEAN
  /\ accepted \in [Paths -> 0 .. stamp]

\* Every balancer, of the live table or an earlier one, counts exactly the
\* connections open on it ("the guard increments the counter on construction and
\* decrements on drop", upstream.rs), also when a reload came in between.
ActiveMatchesOpen ==
  \A t \in Tables, d \in Dests, p \in Paths :
    active[t][d][p] = Cardinality({c \in Conns : conn[c].pc = "open" /\ conn[c].table = t
                                                 /\ conn[c].dest = d /\ conn[c].slot = p})

\* Well-formed marks, counts and affinities, and exact counts (balancer.rs).
CountsExact == TypeOK /\ ActiveMatchesOpen

\* "Nothing else clears a slot" but a probe (README.md), and "a refusal recorded
\* after that observation ... survives" (balancer.rs): a mark is cleared only when
\* a probe found the endpoint serving after the latest refusal.
ClearedOnlyAfterAccept ==
  [][\A d \in Dests, p \in Paths, b \in Tables :
       mark[d][p][b] # 0 /\ mark'[d][p][b] = 0 =>
         p \in probe.passed /\ accepted[p] >= mark[d][p][b]]_vars

\* Whether a slot of table t lasts, under the same SlotHealth, to the live one.
Shared(t, d, p) == \A u \in t .. table : p \in SlotsOf(u, d)

\* "A connection still running on the previous table marks the state the live
\* table reads" (balancer.rs): a refusal met on any table is seen in the live one
\* unless some configuration in between dropped the slot.
RefusalReachesLive ==
  [][\A c \in Conns :
       LET k == conn[c]
       IN  k.pc = "connecting" /\ stamp' > stamp /\ conn'[c] # k
             /\ Shared(k.table, k.dest, k.slot)
           => mark'[k.dest][k.slot][born[table][k.dest][k.slot]] # 0]_vars

\* "A reload that moves a down route to endpoints it did not have starts them
\* refusing" (README.md): a destination that is down when the table is rebuilt is
\* down in the new table, whichever slots it keeps, drops or gains.
RebuildKeepsDown ==
  [][pending = NoTable /\ pending' # NoTable =>
       \A d \in Dests : AllRefusing(table, d) /\ (SlotsOf(pending, d) # {})' =>
         AllRefusing(pending, d)']_vars

\* Refusals are kept until a probe disproves them, through every reload.
MarksKept == ClearedOnlyAfterAccept /\ RefusalReachesLive /\ RebuildKeepsDown

\* "On a refusal try each remaining slot once" (upstream.rs): a connection fails for
\* want of a slot only if each slot of its balancer was down at some time since it
\* arrived: none that accepts all along is passed over, whatever stale marks, other
\* connections, probes and reloads did to the order in the meantime.
AcceptingSlotFound ==
  \A c \in Conns :
    conn[c].pc = "refused" => spared[c] \cap SlotsOf(conn[c].table, conn[c].dest) = {}

\* An endpoint that serves again for good is used again: in the end no slot of
\* the live table refuses for it, in either destination.
RecoveredSlotReturns ==
  \A p \in Paths :
    <>[](endpoint[p] = "up") =>
      <>[](\A d \in Dests : p \in SlotsOf(table, d) => ~ Refusing(table, d, p))

\* "Reports each transition" (README.md): once the route's health stays as it is,
\* the last event is about that health, also if the queue dropped it before.
HealthEventuallyTold ==
  \A down \in BOOLEAN : <>[](LocallyDown(table) = down) => <>[](told = down)

\* What is believed of the endpoints, and what was told of them, ends up true.
HealthSettles == RecoveredSlotReturns /\ HealthEventuallyTold

============================================================================
