# Symphony: a TLA+ verification project

Symphony is a TLS/SNI proxy: a Rust core (`src/*.rs`) loaded by Node.js as a native addon, a
TypeScript wrapper around it, and `symphony-server` (`ts/server.ts`), a standalone process that runs
proxies from a JSON config file. This directory models the parts of it that share state between
threads, tasks, callbacks and processes, checks them with TLC on small instances, and proves some of
the results with TLAPS for every value of the constants.

`PROJECT.json` lists the components, the runs, the mutants that show each property can fail, the
source lines behind every definition, the hazards and the theorems.

## 1. Inventory

| Component | State | Operations | Talks to |
|---|---|---|---|
| Token bucket (`protection.rs`, `router.rs`) | `tokens`, `last_refill_ns`, two separate atomics | refill and consume, two CAS loops | called by every worker thread |
| Connection protection (`protection.rs`) | `ip_table` of shared `IpState`, the `ProtectionConfig` snapshot | `check_at`, `release`, `evict_at`, `blocked_ips` | connection tasks, a 60 s task, `update_config` |
| Connection task (`listener.rs`, `proxy_conn.rs`) | the locals of `handle()`, the gauges | accept, route, suspend, forward, connect, handshake, tunnel | everything below |
| Suspended connections (`suspended.rs`) | id counter, map of oneshot senders | register, resolve, remove | connection task, JavaScript |
| Route table (`router.rs`) | the live `RouteTable`, what each SNI enforces | `build_route_table`, `resolve_with`, swap | `update_config`, connection tasks |
| TLS config cache (`tls.rs`) | cache, marks, eviction threshold | lookup or build, clear marks, sweep | table builds, `resolve_connection` |
| Peer failover, forwarding (`failover.rs`) | per peer a packed cooldown word; a cursor | `candidates`, `forward_to_peers`, `attempt_peer` | connection tasks, peers |
| Peer failover, control (`failover.rs`) | slot health, reports, admitted fraction | probe, load poll, spill controller | balancer, peers, JavaScript |
| Local upstreams (`balancer.rs`, `upstream.rs`) | slots, affinity, refusal marks | `pick`, `connect_uds` | connection tasks, probe |
| Failover ingress (`ingress.rs`) | trusted sources | parse a PROXY v2 header, answer a load query | connection task |
| HTTP listener, HTTP/1.1 rewriting (`http_listener.rs`, `http_proxy.rs`) | per connection | redirect, ACME proxying, header rewriting | route table, upstreams |
| ClientHello peek (`sni.rs`) | none | reassemble, parse, fingerprint | connection task |
| Half-close bound (`liveness.rs`) | one watch per tunnel | arm, record, expire | tunnel |
| CPU sampling (`thread_cpu.rs`) | identity and utilisation per slot | discover, sample | balancer, spill control |
| `symphony-server`, config (`ts/server.ts`) | active proxies, watchers, generations | `doReconcile`, debounce, watch | config writer, proxies |
| `symphony-server`, handover (`ts/server.ts`) | `status.json`, `supersededBy` | `writeStatus`, `considerStandingDown`, `recheckStatus` | other processes, a supervisor |
| Wrapper, types, admin, metrics, mTLS parsing | conversions, counters, a metrics socket | - | - |

**Who runs in parallel.** Connection tasks run on several worker threads; the JavaScript thread runs
`update_config` and `resolve_connection`; background tasks evict, probe and sample. Atomics are
relaxed, maps are locked per shard, and configuration is swapped as a whole (`ArcSwap`), so a task may
keep a snapshot, a route or an `IpState` that is no longer current. `symphony-server` is single
threaded with awaits; between processes the only shared state is the config, the certificates and
`status.json`.

**What is hard.** Two atomics that are not updated together; a lookup whose result is used after the
entry was removed; counts taken before an await and filtered after it; an answer racing a timeout; a
reload under checks, builds and open connections; a route carried over from an older config; a file
that two processes read and then rename over; events that arrive before somebody listens; a stream cut
at any point, whose framing two parties must agree on; process ids and inodes that are reused. Each is a
hazard in `PROJECT.json`, with the properties that would catch it.

**What makes each component correct.** The bucket admits what burst and rate allow and loses nothing.
Protection enforces its limits across evictions and reloads, and releases what it admitted. A
connection is counted once, decided always, forwarded only while it still can be, and never let past
a check that refused it. A name is served by its own route under its current policy. Peers are each
tried in their turn within the time there is. What is read of a stream is what its sender meant, and
what is only peeked at stays unread; every request head that an upstream can see was rewritten; a session
ends, and its bytes are counted. A load is that of the thread behind the socket. A reload keeps ports served and reports what it did. A
handover loses no listener.

## 2. Modules

| Module | Models | State and actions |
|---|---|---|
| `TokenBucket` | `refill_and_consume`, `RouteTokenBucket::try_acquire` | every atomic access is an action: `LoadLast`, `LoadRefill`, `CasRefill`, `CasLast`, `LoadConsume`, `CasConsume`; `loc` are the locals of a call. The two functions have the same loops; the map cites the first, and the second at `Step`. |
| `Protection` | `check_at`, `release`, `evict_at`, `blocked_ips`, protection hot swap | a heap of `IpState` references; `Begin` (the four static checks), `Get`, `Insert`, `Penalty`, `Concurrency`, `Close` of a connection, and for each of its two buckets `SkipBucket`, `LoadLast`, `Credit`, `Advance`, `Consume`, `Exhausted`, then `Extend`; `EvictBegin`, `EvictEntry`; `UpdateConfig` |
| `FailoverPeers` | `candidates`, `forward_to_peers`, `attempt_peer`, cooldowns | `ArriveInRotation`, `ArriveSpilled`, `ArriveIncomplete`, `Peeked`, `PeekFailed`, `Pick`, `PeerAnswers`, `PeerFails`, `AttemptTimesOut`, `Reload`, `Tick` |
| `Connection` | `accept_loop`, `handle`, `connect_or_forward`, `decide`, the suspended registry, `resolve_connection` | one value of `pc` per await; what runs between two awaits is one action |
| `RouteTable` | `build_route_table`, `resolve_with`, `TlsConfigCache`, `update_config` | one action per spec of a build, `Swap`, `Sweep`, `AbandonUpdate`, `Lookup`, `ResolveConnection`, `Finish` |
| `Reconcile` | `start`, the watchers, `doReconcile` | the writer's steps, `TimerFires`, `Sighup`, `Watch`, and the stages of a reconcile up to `Finish` |
| `Handover` | `writeStatus`, `considerStandingDown`, `recheckStatus`, `stop` | `Launch`, `Reload`, `Crash`, `Terminate` (any process, the one the file names included), `Close` (one listener of a stopping process), `Exit`, `Poll`, `Yield`, `Claim`, `Rename`, `Supervise`, `Tick` |
| `LocalHealth` | `pick`, `next_untried`, `connect_uds`, `mark_refused`, `probe_periodically`, route-health events, the carry-over of health by a rebuild | `Arrive`, `Connected`, `Refused`, `Expires`, `Fails`, `Close`, `AffinityLapses` of connections; `ProbePass`, `IntervalPasses`, `ProbeConnects`, `ProbeFails`, `ProbeClears`, `Report` of the probe task; `Rebuild`, `Swap` of a reload; `Flip` of an endpoint |
| `SpillControl` | `poll_peer_loads`, `apply_answer`, `assess`, `control`, the admission word, `spill_target`, what `Failover::new` and `with_cpu_from` carry over | `PollTick`, `Answered`, `Unanswered`, `ControlAll` of the poll task; `LoadWord`, `FindsExpired`, `Spills`, `StaysLocal` of connections; `Reload`, `Sampled`, `CooldownChanges`, `SpillTick` |
| `Http1` | `proxy_http1_rewriting`: both pumps, the framing of requests and responses, the queue of metas, the verdict on an upgrade or CONNECT | `RequestPump` and `ResponsePump`, each a disjunction of what a pump does between two reads (a head, a counted body, a chunk, a line that does not end, the wait for a verdict, raw copy, end); `ReadFails`, `WriteFails`; `ServerReads`, `ServerAnswers`, `ServerSaysMore`, `ServerCloses`, `ClientCloses` of the external peers |
| `Wire` | what nodes and clients write at the head of a connection: PROXY v2 headers with their TLVs, load queries, the TLS values the parser tells apart | no state: operators that `Intake` and its instance use |
| `Intake` | `ingress.rs`, `sni.rs`, the request head of `http_listener.rs` | `ReadFixed`, `ReadAddresses`, `DiscardTlvs`, `ReadLocal`, `HeaderFails`; `Peek`, `PeekTimesOut`; `ReadHead`, `HeadEof`, `HeadTimesOut`, `Serve`, `ConnectFails`, `OneShot`; `Arrive`, `Close`, `AnswerArrives` of the sender |
| `Tunnel` | `forward` of `proxy_conn.rs`, `HalfCloseWatch`, the byte counts | `WritePrefix`, `PrefixFails`, `Copy` (with `Unframed`: a rewriting pump meets what is no HTTP) and `CopyEnds`, `Watchdog`, `IdleTimeout`, `Abort`, `Tick`; `Sends`, `StartOver`, `PeerChanges` of the peers |
| `Session` | a connection from its first byte to its last: composes `Intake` and `Tunnel` | `TakeIn`, `StartSession`, `Proxy` |
| `ThreadCpu` | discovery of the owner of a socket, its recheck, the sampling passes | `ReadInode`, `Connect`, `ConnectFails` of a discovery; `StartPass`; `Sample`, `LoadSample` and `Update`, the three steps of a pass under locks of their own; `Restart`; `Exit`, `Spawn`, `ThreadUp`, `Bind` of processes, `Unlink` of the file; `Tick` |
| `ListenerCover` | what a handover promises, without files and timers | `Launch`, `Grow`, `Leave`, `StandDown`; of a process told to stop `Terminate` or `Appoint`, then `Shrink` |
| `MC*` | - | constants of the instances: routes, clients, configs, spec lists, symmetry |
| `ProtectionProofs`, `ConnectionProofs`, `SessionProofs`, `Http1Proofs` | - | the inductive invariant, the lemmas and the theorems of the module each is named after |
| `RouteProofs` | - | the same for `TokenBucket` and `RouteTable` |
| `FailoverProofs` | - | the same for `FailoverPeers` and `LocalHealth` |
| `LoadProofs` | - | the same for `ThreadCpu` and `SpillControl` |
| `ServerProofs` | - | the same for `Reconcile` and `Handover` |

How they compose: `Connection` takes the verdict of `Protection`, the outcome of a forward
(`FailoverPeers`), what the live table resolves to (`RouteTable`), the health of the local service
(`LocalHealth`) and whether it is spilled (`SpillControl`) as choices of its environment, so each module's properties hold whatever the others
do. `Protection` has the steps of a refill and consume that take effect; `TokenBucket` has every access, the
CASes that lose included. `Reconcile`
decides what is reported and `Handover` who may publish it; `Handover` implements `ListenerCover` under
the mapping at its end. `Session` runs `Intake` and then `Tunnel` on one connection: the hello that the
intake peeked at is still unread, and is the first thing a passthrough session carries. `Tunnel` says when
a rewriting copy ends, and `Http1` what it writes. `SpillControl` takes the loads that `ThreadCpu`
samples, and the answers that `Intake` parses, as inputs.

### Abstractions

* Names, addresses, certificates and fingerprints are members of small sets. IPv4-mapped addresses
  are kept: `Canonical` maps what a listener reports to the address that is checked.
* Tokens are integers in units of which one connection costs `OneToken` (1000 in the code); a refill
  truncates as the `as u32` cast does. The u32 saturation of the sum cannot matter, as the result is
  capped by a u32.
* In `Protection` each numbered check is one step, but for the two buckets: there the load of the
  timestamp, the CAS of the tokens, the CAS of the timestamp and the CAS that takes a token are steps of
  their own. A CAS that loses changes nothing and is left out. Histories (`charged`, `raced`, `doubled`)
  record what the properties speak of; `charged` is no longer counted where none does.
* `FailoverPeers` lets time pass only when no connection has something to do, so an attempt that
  times out does so at its limit, not later.
* In `Connection` a route is a record of the flags that `handle()` branches on, and the table is
  reduced to the route of the one name the clients ask for.
* `RouteTable` names a TLS configuration by its cache key and an identity; two configurations with one
  key and different identities share no session state. A build failure is a mismatched key or an
  upstream that does not parse.
* `Reconcile` keeps certificate versions (0 is unreadable), what each entry of a reload read of them, and
  signatures over it; the admin endpoint is left out.
* `Handover`: the pids are in launch order, as the boot-relative ticks of `/proc` are; the wall clock
  may be stepped between two launches (`StartsAt` gives the readings possible at each). All processes run the same config; reuse of a pid, and status files
  without listeners (releases before 1.5), are left out. A process observes a crash at once. A process that was
  told to stop, and one that stands down, closes its listeners one at a time in `stop()`, alive in `/proc` all
  the while.
* `LocalHealth`: a TCP destination is a set of one slot, and a path listed twice is taken as one slot.
  Refusal marks are strictly increasing stamps: `mark_refused` stores a monotonic clock in nanoseconds,
  and two refusals are taken never to read the same one. A balancer that is no longer live is picked from no more, so its affinity map is
  left out; its marks and counts are kept.
* `SpillControl` keeps deadlines as the ticks they have left, so that states repeat; a share is counted
  in steps, and rounding to permille is left out. The smoothing of loads and RTTs, and the hash of a
  client, are choices. An object that a reload carries over is named by the table it was born in. The
  word also keeps, as history that no action reads, which peer was meant and how long the two readings
  behind it were current. `Whole` is the whole of the connections (1000 permille in the code, 2 steps in
  the instance). Code between two awaits of the poll task takes no time, but reloads, samples
  and connections may come between a pass's load of the table and its controllers.
* `Protection`: the instance has configurations with many limits on, which stay, and smaller ones that
  reloads exchange for one without limits, one with a burst below a connection and one that allowlists the
  address. The rates and the penalty box are claimed only while nothing has been reloaded:
  a reload may lift them.
* `Intake` and `Wire`: a stream is a sequence of cells with the proportions of the format, not of bytes.
  The MD5 and SHA-256 of JA3 and JA4, the caps at 99 and the two characters of an ALPN value are left
  out: a fingerprint is the tuple of what it is computed from. The accept loop of the HTTP listener is
  that of `listener.rs`, modelled in `Connection`. A request head that is not UTF-8 is passed on as it is
  by `strip_body_framing` and `with_connection_close`; `Sanitized` keeps this.
  An IPv4-mapped source is made canonical (`Source`), an extension that a hello repeats adds to the list, and
  a load has at most two digits (four in the code) and is refused above its cap.
* `Tunnel` keeps times as ages, and resets the timers of a session that has ended so that states
  repeat. A peer may send for ever: `StartOver` forgets bytes that were sent, delivered and counted to the
  last. Keepalive acts in the kernel: its effect is a peer that is gone.
* `Http1`: a head is its lines and, as one item, what they declare; where a read cuts the stream is a
  choice. A unit of data where a control line should be stands for a line longer than `MAX_CHUNK_LINE`. A source
  that closed may have closed with a reset, and the read fails. The upstream is external: it reads in order, answers in order, may take either reading of an
  ambiguous head, and may answer early, decline, close or say too much.
* `ThreadCpu` has one slot and at most one pass left over from before a restart. A deadline is the time
  left until it. A replaced socket file is taken to have a fresh inode, a removed one has none. A load is the
  sample it took in last: what is published is smoothed and keeps a share of earlier ones. The cursor over slots, the limit on
  concurrent discoveries, tick arithmetic and the weight of the average are left out.

## 3. Runs

Passing runs (all exhaustive):

| Run | Question | Bounds, and why they are enough |
|---|---|---|
| `token_bucket` | Do the CAS loops lose or mint tokens, exceed a ceiling, move time back, or hang? | 2 workers, 4 calls, 3 ticks, a rate of 3/2 units per tick so that truncation happens, a ceiling lowered from two connections to one and a half: each worker can be overtaken at every access |
| `protection` | Are the cap, the rate over time and the penalty box enforced, are counts exact and entries found under reloads and evictions, and does the report agree with the checks? | 2 connection slots used again and again (symmetric), 3 heap locations, an address seen in two forms; every limit on for long enough to be boxed, evicted and return, or limits switched on and off, a burst shrunk, or the address allowlisted, under open connections and half-done checks |
| `failover_peers` | Repeats, shares of the budget, the half left for the local service; does a forward end? | 2 connections, 2 peers that may stay silent, every mode, cooldowns of 1 and 2 ticks, 2 ticks in which a connection may arrive: a cooldown can lapse, and another connection change it, during an attempt |
| `connection` | Gauges, the registry under racing answers, source lists, loops, certificates, error counts | 2 connections of 4 kinds on 7 kinds of route, a limit of 1, any number of reloads; each connection is made once, before, after or during the other |
| `route_table` | Who serves a name, under which policy, and what does the TLS cache keep? | an exact name, its wildcard, the default; up to two specs, duplicates included, over any number of reloads; three certificates, one connection that keeps a route, an eviction threshold of 2 |
| `reconcile` | Are ports served through a reload, is the report true, and is a noticed change read? | 5 config files over two ports, one of them with two entries for one port, two certificates, 3 writes: one before, one during and one after a reload |
| `handover` | Who may stop himself, does the protocol implement `ListenerCover`, and does the newest process end up alone? | 3 processes, 1 listener, 1 reload, 1 fault (a crash, a SIGTERM or a failed write), a clock stepped before any launch, a supervisor. That a process may have closed some of several listeners is left to the theorem |
| `local_health` | Do marks, counts and health survive the races of connects, probes and a reload, and is a recovered slot used and reported again? | 2 endpoints, 2 destinations that share one, 1 connection slot used again and again, 2 refusals, 2 tables, 1 flip, 1 dropped event. `AcceptingSlotFound` was also checked with 3 slots and 2 connections without a reload, where the order of the slots left changes under a connect (13 million states), and is proved for any number |
| `spill_control` | How fast does the share grow, and on which readings and to whom does a connection spill? | one route, 2 peers, one of them possibly far and the other possibly cooling down, one reload that keeps the route, exchanges the peers, moves the workers or ends spilling; one connection slot, one query at a time, a sample current for 1 tick and a report for 2, so either expires first |
| `http1` | Is a byte lost, a head passed on as it came, an answer framed by another request's meta; do the pumps end? | clients that send a GET, a POST, chunks, an upgrade, a CONNECT, a lone head, both framings, two lengths or a folded line, some of them pipelined; heads of at most 3 items; an upstream that says at most one unit too much |
| `session` | Is what is read, peeked at and forwarded what the sender meant; when is a session reaped, is it counted, does it end? | one connection of each kind in `MCSession` (direct, from a peer with every kind of header, a query, plaintext), cut, closed and stalled everywhere; a peek buffer that has to grow twice, a hello over several records, payloads up to and beyond the limit; a buffer of 2 and a flush at 2 so that both fill; each timeout off or on; peers that may send for ever |
| `thread_cpu` | Whose CPU time is a load computed from, and is it soon that of the thread behind the socket? | 2 process ids that are reused, one discovery, 2 events (exit, spawn, bind, removal of the file or restart), a recheck and a retry of 1, samples valid for 2, a pass that may come 1 late at each of its steps |

The largest run, `protection`, has 3.4 million distinct states; the slowest, `reconcile` and `thread_cpu`, take
about three minutes, as their liveness properties do.

Properties that belong together are bundled: `BucketSound` (the ledger and the ceiling), `LimitsHold`
(the cap, the rates, the penalty box), `CountsExact` (`Protection`, `LocalHealth`: types, exact counts and
where they are found), `TimeShared` (a share for every candidate, half for the local service),
`Accounted` (`Connection`: types, gauges, registry, failed connects), `ServedAsAllowed` (`Connection`: who
may serve), `RoutesSound` (`RouteTable`: types, the cache, who serves a name), `MarksKept` and
`HealthSettles` (`LocalHealth`), `AdmissionsHonoured` (`SpillControl`), `HelloExact` (`Session`: the header
and the hello). The types of `TokenBucket` and `Handover` are theorems; those of `FailoverPeers`,
`Reconcile`, `SpillControl` and `Http1` are a conjunct of `TimeShared`, `ReportedAsApplied`, `ShareRamps`
and `StreamIntact`.

**Refuted sentences.** The modules also state sentences of the documentation that TLC refutes on
instances of the same size. They are not runs; the comment at each says how it fails:

* `AdmittedWithinRate` (`TokenBucket`): a connection is admitted beyond the rate when an interval is
  credited twice, between the two CASes. `BucketSound` does not see this, as its ledger takes what a CAS
  added for a credit; `LimitsHold` exempts an address to which it happened (`doubled`), as it does one
  whose entry was evicted under a check (`raced`).
* `ReportNamesRefused` (`Protection`): "they'd be blocked on next connect" (`protection.rs:470`); an address
  that a reload allowlisted is reported still.
* `ConfigEventuallyRead` and `CertEventuallyRead` (`Reconcile`): a file written after it was read and
  before its watcher exists is not read again. `BothNameMeansServed`: a generation that returns.
* `VerdictWaitEnds` (`Http1`): a request pump that waits for the verdict on a tunnel is not woken by the
  end of the response pump, as the queue that holds the sender belongs to the function that runs both. The
  wait then ends when a timeout of the session does.
* `AtMostOnceEach` and `DownTriesSomePeer` (`FailoverPeers`): a cooldown cleared during an attempt; peers
  counted before an await and filtered after it.
* `ActiveWithinLimit` (`Connection`): the count is read at accept and raised by the task.
* `NeverPointsBack` and `TakesNoUncovered` (`Handover`): the status file is read, then renamed over.
* `GivesWayToRunning` (`Handover`): "a successor being reaped is seen to exit before this process gives up
  its listeners" (`server.ts:244`). The grace period starts when the successor takes the file, so one that is
  reaped at the end of it is still alive, and closing its listeners, when the older process stops. This is
  why `ListenerCover` also lets a process stand down for one that had the listeners when it was told to stop.
* `EveryHeadCloses` (`Intake`): "strip any Content-Length / Transfer-Encoding headers ... then force
  `Connection: close`" (`http_listener.rs:261-269`); a head with a byte that is not UTF-8 goes out as it came.
* `OnlyIdleDropped` (`Tunnel`): "drop the connection if it is idle for this many ms" (`types.ts:347`), "close
  connections silent for this many ms" (`README.md:102`); the timeout bounds the whole session, busy or not,
  as `metrics.rs:94` says.
* `ArmedSessionEnds` (`Session`): a half-closed session whose client keeps sending is kept, as
  `README.md:1261` and `liveness.spec.ts:153` ask for. `SessionEnds` claims only that it does not stay quiet
  for ever.

Limits of what is claimed: the quiet that `ReapedAfterQuiet` speaks of is about reads, so a half-closed
session may still be writing what it read before its window; and `LoadSettles` speaks of a bound socket,
because an owner may exit between a discovery's connect and its pass while another process takes its id
and matches the configured ids, and is then sampled until the next recheck.

**Deadlock** is not checked where the system may rest: no client has to arrive, and bounded counters
run out. `RouteTable` never rests, and its run checks it.

**Fairness.** `TokenBucket`: a thread inside a call keeps running; nothing in it blocks.
`FailoverPeers`: the clock advances however busy the connections are (strong, because a busy one
disables it again and again), and a task runs when its timer fires; peers and clients owe nothing.
`Reconcile`: a timer that is set fires and the event loop
runs what is queued. `Handover`: timers fire, a process in the middle of a write goes on, and a stopping
one closes its listeners and exits; faults, reloads and the supervisor owe nothing. `LocalHealth`: the probe task runs, its
interval passes and a probe is answered as the endpoint is; clients, reloads and endpoints owe nothing.
`Http1`: the task runs when one of its pumps can go on; the peers owe nothing. `Session`: time passes and a
timer that is due is polled; the peers owe nothing, not even to read or to fall silent. `ThreadCpu`: time passes, passes
and discoveries run, and a process that has started starts its thread; nothing else has to happen.

## 4. Proofs

`RouteProofs` on `TokenBucket`, for any number of workers and calls, any rate, burst ceilings and clock:

* `BucketTypes`: `BucketTypeOK`; a count in particular is never negative, as its u32 could not be.
* `BucketSoundHolds`: `BucketSound`. A CAS that wins leaves `tokens` as the winner computed them from the
  value it replaced, so each winning step moves both sides of the ledger alike. The induction needs
  the types and the fact that a worker about to consume has read enough units to pay. The ceiling holds
  since a ceiling in the locals is one of `Bursts` and consuming only lowers the count.
* `RefillClockHolds`: `RefillClockMonotone`. A worker that reaches the second CAS found a non-zero
  refill, so its `now` is later than the timestamp it compares with.

`RouteProofs` on `RouteTable`, for any names, config files, connections and eviction threshold:

* `RoutesSoundAlways`: types, the cache and who serves a name. `LiveOK` says that each slot of the live
  table is what the applied spec of that name made of it: served under that spec, or dropped because it
  could not be served. `BuildOK` says the same of the table under construction and the specs behind the builder, which
  is what makes a swap preserve `LiveOK`; the deciding spec of a name is chosen once for a whole list, so a
  duplicate later in it cannot undo a slot. `CacheOK` says that the cache is injective, holds what both
  tables use, and stays within `evictAt`, and that within its floor and twice what can be held; `ConnOK`
  bounds what connections hold, which is what the count of referenced entries after an eviction needs.
* `EnforcesCurrentPolicyAlways`: from `LiveOK`.
* `SessionsSurviveReloadAlways`: from `CacheOK`. One key has one identity in the cache, and the cache holds
  the configurations of the live and of the new table at the same time.

`ServerProofs` on `Handover`, for any number of processes, listeners, reloads and faults, with or without
`/proc`:

* `HandoverTypes`: `HandoverTypeOK`.
* `SupersededByLaterHolds`: a process waits only for one started later.
* `HandoverImplementsCover`: `Handover` implements `ListenerCover`. Its initial states map to initial
  states, and the lemma `StepCover` maps every step to one of `ListenerCover` or to a stutter: a launch, a
  reload, a crash, an exit, a signal, the closing of a listener and a supervisor's step to theirs, a look at
  the file that stands down to `StandDown`, the rest to nothing. A process decides from the file, and
  `StandDown` speaks of the processes, so the invariant `HandoverInv` adds `StatusBacked` (the process in the
  file is not one that stands down, and it has bound what the file lists while it runs, or had when it was
  told to stop) and `BusyRuns` (only a running process writes).

`ConnectionProofs`, for any number of connections, any clients, routes and answers, any limit:

* `AccountedAlways`, `RefusedSourceLeavesNoTraceAlways`, `ServedAsAllowedAlways`. `PathOK` says what is
  known of a task at each of its awaits: until the lookup nothing is decided, until a peer or the
  handshake takes it the hello is unread, from the lookup on the route admits the client, a route that
  requires a certificate has no way to an upstream around it. `IdsFresh` says that ids are given out once,
  and `Delivered` that what lies in a oneshot was sent to its own id. The last two are needed because
  `resolve` is two steps, a check and a send, with a timeout possibly between them. The two gauges are
  equal to the cardinalities of the tasks they count; a step moves one task, so each changes by at most one.

`FailoverProofs` on `FailoverPeers`, for any number of connections and peers, any cooldowns and budgets:

* `RepeatsOnlyEarliestAlways`: every attempt was a turn of the rotation that lies behind, or the one
  chained after it (`RotationOK`); the rotation is injective, so two attempts at one peer include the chained one.
* `TimeIsShared`: both halves of `TimeShared`. `TimeOK` says that while later candidates are left, the limit
  of an attempt lies strictly before the deadline; the division of what is left by the turns to come
  has to be bounded for this.

`FailoverProofs` on `LocalHealth`, for any endpoints, destinations, configurations and number of reloads:

* `CountsExactAlways`: `CountsOK` is the cardinality of the connections open on a slot, by table, so a
  connection that outlives its table is counted where it was opened. `AffinityOK` (an affinity names a slot
  of the live table) and `ConnsOK` (a connection is on a slot of its own table) are needed for the steps of `pick`.
* `AcceptingSlotFoundAlways`: `SparedOK` says that a path which was never down since a connection arrived is not
  down now and has not been tried by it, so a connection that has tried every slot has none such.
* `MarksKeptAlways`: the three action properties of `MarksKept`. `ProbeOK` says that a probe that passed
  did so after every refusal its pass had seen. `TablesOK` and `SameHealth` (in `ConnsOK`) say that a slot which
  lasts from one table to the next is the same `SlotHealth` in both, also for a table that is built
  and not live yet and for the old table of a connection that is still connecting.

`LoadProofs` on `ThreadCpu`, for any process ids, intervals and delays:

* `SampleOfOneThreadAlways`: the baseline of a slot belongs to the identified thread and is older than
  any pass that may still be applied, a pass left over from before a restart included (`BaseOK`), a sample is
  valid only if it compares two readings of one thread that is still identified (`ValidOK`), and so is the
  sample a pass carries from the slot to the load, which another pass may have replaced there since (`MeanOK`).

`LoadProofs` on `SpillControl`, for any peers, destinations, connections and configurations, any number of
reloads and any freshness windows:

* `ShareRampsAlways`: `RampOK` says that the share, and what the next pass may add for the time since the
  last, is paid for by the ticks since the state began.
* `AdmissionsHonouredAlways`: `StatesOK` and `ReadersOK` say that an admission lasts no longer than either
  reading behind it, in the shared word and in the copy of a connection that has loaded it; `TargetsOK` and
  `ReadersOK` that its index means, in every table that uses the word, the peer it was meant for. A word is
  shared along a chain of reloads of any length. `SharersAgree` (all tables of such a chain have the same peers
  and policy) states what holds from end to end, as the chain itself would call for an induction.

`SessionProofs`, for any limits, buffer size and flush threshold, and any peers:

* `CountsSettledAlways`: from the types of the session (`TunnelTypes`) and the fact that nothing is counted
  before it starts (`NotBegun`). The proof has one step for each way a session can end.
* `ReapedAfterQuietAlways`: `WatchOK` says that only the end of the response arms the watch and that from
  then on the quiet that the watch measures, resets and sleeps for is the quiet that the property speaks of;
  `CopyOK` that a direction past its copy without an error has read all its peer will ever send, and one that is
  through has written it.

`Http1Proofs`, for any client, any upstream of the kind described above and any limit on heads:

* `StreamIntactAlways`: for each pump, what it wrote, what it holds and what it has not read are, one
  after the other, what its source sent. `FlowOK` adds that a raw copy holds nothing back: a pump that turned
  into one with something still in `carry` would write around it. `MadeOK` and `ItemOK` say what sources send (no head is
  rewritten yet, no answer comes from a client), which is needed since rewriting a head is undone
  by `Plain` only if the head was plain; `LeftOK` is needed to cut a body. The lemmas `Buffers`, `Writes`, `Copies`,
  `WritesAll` and `Grows` state the five things that happen to a stream, and every action is one of them.

`ProtectionProofs`, for any number of connections, addresses, heap locations and configurations:

* `CountsExactAlways`: the invariant `ShapeInv` ties the heap to its users. A connection holds a reference
  exactly from its lookup to its end, a reference serves one address, a holder holds what the table has
  unless an eviction raced with its lookup, and no timestamp lies ahead of the clock. A count is the
  cardinality of the holders that were admitted.
* `PenaltyNeverShortenedAlways`: from the types, as every extension is a maximum.
* `LimitsHoldAlways`: the cap (`CapOK`), the penalty box (`BoxOK`: who found an address boxed finds it
  boxed until the deadline) and the rates. For these, `LedgerOK` says that the charges of an address with an
  entry and the tokens left are paid for by the burst and the refills up to its timestamp, or up to the clock
  of the one check that has credited an interval and not moved the timestamp yet (`EntryLedger`); without an
  entry, the refills alone have paid. This is what lets the next entry start with a whole burst, and it holds because
  `evict_at` removes an entry only when both buckets would be full. A second check in that window is the double
  credit that `doubled` records.
* `ReportAgreesAlways`, for any limits: from `ShapeInv` and a lemma on one bucket (a projection that covers one
  connection is one that a check can pay from). The code accepts bursts below one connection; `blocked_ips`
  caps the tokens it projects by the burst and a check does so only when something accrued, so such a bucket,
  filled under a larger burst and kept by a reload, may be reported as limited while it can pay. The property
  allows this, and speaks of addresses that the lists leave to the per-IP checks.

`ServerProofs` on `Reconcile`, for any config files, certificates and number of writes:

* `NoBindGapAlways`: `GapOK`, that a port served before is served still or was given up on purpose, needs
  `ShapeInv`: proxies are kept under their own port-set, an entry behind the cursor is skipped or runs
  (`DoneOK`), and what is being removed is named by no entry and overlaps no skipped one (`LeavingOK`).
* `ReportedAsAppliedAlways`, for any config files: `MatchOK` says that an entry that was met and not skipped
  runs with what was read for it, or gave way to a later entry of the same ports, and `ReportOK` that the
  report is that of the reload that finished last. The code keys proxies by their port-set and accepts a config
  that names one twice; the later entry wins, nothing is reported, and the property says so (`Overruled`).

The assumptions are the named ones on the constants of the component modules, which TLC evaluates in
their runs: that sets are finite and constants have their types; that intervals of `ThreadCpu` are shorter
than `Never` (`u64::MAX` in the code); that a route of `Connection` requires a certificate only if it
terminates TLS (`build_route`); that a hello without a name matches no wildcard and specs have the fields of
a `RouteSpec` (`RouteTable`); that there is a destination (`LocalHealth`); that a spill policy has a margin of
at least 2, a positive step and a limit within `Whole`, as the parser of the config demands
(`SpillControl`); that the flush threshold is positive (`Session`); that clients send no answers and no
head that is rewritten already (`Http1`).

Each inductive invariant was checked with TLC on the instance of its component's run before it was proved.
The proof of `RouteTable` corrected the model in one place: two arms of the CASE in `ResolveWith` could hold
at once, which TLC resolves by order and the logic does not; they are a nested IF now, as in the code.

**Only model-checked**: the liveness properties (`CallsReturn`, `ForwardingEnds`, `WatchedConfigRead`,
`HandoverCompletes`, `HealthSettles`, `PumpsEnd`, `SessionEnds`, `LoadSettles`), as fairness and ENABLED are
out of the prover's reach. Of the safety properties, those about what a walk over a stream computes:
`HelloExact`, `LoadsAligned` and `OnlyChallengeForwarded` (`Intake` walks records, TLVs and lines with
recursive functions, and their values for every input need induction over data),
`ChainNeverBreaksPrefix` (folds over the TLVs), `EveryHeadRewritten` and `AnswersMatched` (the upstream and
the pumps parse one stream at different places, and that they agree is an induction over the stream).
What the prover sees of `Connection` is that of the model: a limiter's answer is a choice there, and the theorems
on `TokenBucket` are about the steps inside it.

## 5. Plan

1. Proofs: that the parsers of `Http1` on both sides agree (`EveryHeadRewritten`, `AnswersMatched`), by an
   invariant that carries the parse of what lies between them.
2. `SpillControl` for two nodes that are each other's peers: with true readings they never spill to each
   other (a theorem about `Rises` and `Holds`, and the reason for the least `margin`).
3. That every connection is decided (liveness of `Connection`).
4. `Bucket`, an abstract atomic bucket that `TokenBucket` with one worker implements.
5. The admin endpoint's binding and rebinding by a reconcile.

## 6. Not modelled

The TypeScript wrapper and its types, the admin endpoint and metric rendering, the conversion of configs
between TypeScript and Rust, construction, `start` and `stop` of the addon, signals of `symphony-server`
before its handlers exist, the verification of certificate chains (rustls does it) and the benchmark
hooks. `PROJECT.json` gives the reason for each. Below the modelled level: bytes within a line, a record or
a certificate, hashes, and the text of log lines and errors.
