----------------------------- MODULE Reconcile -----------------------------
(***************************************************************************)
(* symphony-server applying its config file (ts/server.ts: ServerState's   *)
(* start, scheduleReconcile, reconcile, doReconcile, updateCertWatchers).  *)
(* Another process writes the config file and the certificates; file       *)
(* watchers debounce the writes into reconciles, which run one at a time   *)
(* and await the start and stop of proxies.  An entry that cannot be       *)
(* applied is skipped.  What is reported of the config's generation is     *)
(* what writeStatus would publish; Handover models who may publish.        *)
(***************************************************************************)
EXTENDS Integers, Sequences, FiniteSets

CONSTANTS
  Configs,      \* contents the config file may have
  InitConfig,
  Certs,        \* listener certificate files
  MaxWrites     \* bound on the writer's steps

\* A config: generation and a sequence of entries.  An entry: its set of ports
\* (empty if its listeners do not name them), the construction-frozen settings,
\* the routes, and the certificate files of its listeners.  Two entries may name
\* the same ports.
Entries == UNION {{cfg.proxies[i] : i \in DOMAIN cfg.proxies} : cfg \in Configs}

NoGeneration == "none"
Unreadable == [generation |-> "unreadable", proxies |-> <<>>]
Idle == [generation |-> "idle", proxies |-> <<>>]
NoFailure == [generation |-> NoGeneration, ports |-> {}]
Unread == [c \in {} |-> 0]

ASSUME ReconcileConstants ==
  /\ \A e \in Entries : e.certs \subseteq Certs /\ IsFiniteSet(e.ports)
  /\ \A c \in Configs : c.proxies \in Seq(Entries)
  /\ InitConfig \in Configs
  /\ {Unreadable, Idle} \cap Configs = {}
  /\ MaxWrites \in Nat

VARIABLES
  file, disk,       \* the config file; per certificate file, its version or 0
  writes,           \* steps the writer has taken
  watching,         \* the config directory is watched
  certWatched,      \* certificate files whose directory is watched
  timer,            \* the debounce timer is set
  queued,           \* reconciles queued behind `reloading`
  pc, cfg, next,    \* the running reconcile: its config, the entry at hand
  seen, skipped,    \* the keys it has met, the entries (numbered) it could not apply
  read,             \* per entry, what its certificate files held when it was resolved
  active,           \* per port-set, the proxy that runs: signature and routes
  fresh,            \* a proxy under construction, not in active yet
  leaving,          \* the port-set being removed
  before,           \* the ports that were served when the reconcile began
  applied, failed,  \* appliedGeneration, failedGeneration
  lastRead          \* the config last read

vars == <<file, disk, writes, watching, certWatched, timer, queued, pc, cfg, next,
          seen, skipped, read, active, fresh, leaving, before, applied, failed, lastRead>>
writer == <<file, disk, writes>>
watchers == <<watching, certWatched>>
run == <<cfg, next, seen, skipped, read, fresh, leaving, before>>
report == <<applied, failed, lastRead>>

----------------------------------------------------------------------------

NoProxy == [ports |-> {}, sig |-> <<>>, routes |-> "none"]

\* The signature is taken over the resolved listeners: the contents of their
\* certificate files, not the paths.
Contents(e) == [c \in e.certs |-> disk[c]]
Signature(e) == <<e.build, Contents(e)>>

Resolvable(e) == \A c \in e.certs : disk[c] # 0

Proxy(e) == [ports |-> e.ports, sig |-> Signature(e), routes |-> e.routes]

\* The ports some running proxy listens on.  A proxy being removed is stopping;
\* a fresh one has bound its ports once its predecessor is being stopped.
Served ==
  UNION {k \in DOMAIN active : k # leaving}
  \cup (IF pc = "retire" THEN fresh.ports ELSE {})

NamedPorts(c) == UNION {c.proxies[i].ports : i \in DOMAIN c.proxies}

SkippedPorts == UNION {cfg.proxies[i].ports : i \in skipped}
SkippedUnnamed == \E i \in skipped : cfg.proxies[i].ports = {}   \* unidentifiedEntry

CertsOf(c) == UNION {c.proxies[i].certs : i \in DOMAIN c.proxies}

\* From the start of the process, which runs the first reconcile.
Init ==
  /\ file = InitConfig
  /\ disk = [c \in Certs |-> 1]
  /\ writes = 0
  /\ watching = FALSE
  /\ certWatched = {}
  /\ timer = FALSE
  /\ queued = 1
  /\ pc = "idle"
  /\ cfg = Idle /\ next = 1 /\ seen = {} /\ skipped = {} /\ read = <<>>
  /\ fresh = NoProxy /\ leaving = {} /\ before = {}
  /\ active = [k \in {} |-> NoProxy]
  /\ applied = NoGeneration
  /\ failed = NoFailure
  /\ lastRead = Idle

----------------------------------------------------------------------------
(* The writer, the watchers and the queue                                  *)

\* A config write: an atomic rename, or a file that does not parse.
WriteConfig ==
  /\ writes < MaxWrites
  /\ writes' = writes + 1
  /\ \E c \in Configs \cup {Unreadable} : c # file /\ file' = c
  /\ timer' = (timer \/ watching)
  /\ UNCHANGED <<disk, watchers, queued, pc, run, active, report>>

\* A certificate is renewed, or missing while it rotates.
WriteCert ==
  /\ writes < MaxWrites
  /\ writes' = writes + 1
  /\ \E c \in Certs, v \in {0, 2} :
       /\ disk[c] # v
       /\ disk' = [disk EXCEPT ![c] = v]
       /\ timer' = (timer \/ c \in certWatched)
  /\ UNCHANGED <<file, watchers, queued, pc, run, active, report>>

\* Mutant of Debounced: an event during a reconcile is dropped.
DebouncedWhenIdle == IF pc = "idle" THEN queued + 1 ELSE queued

\* reconcile() chains onto `reloading`.
Debounced == queued + 1

TimerFires ==
  /\ timer
  /\ timer' = FALSE
  /\ queued' = Debounced
  /\ UNCHANGED <<writer, watchers, pc, run, active, report>>

\* The operator asks for a reload.
Sighup ==
  /\ watching
  /\ queued = 0
  /\ queued' = 1
  /\ UNCHANGED <<writer, watchers, timer, pc, run, active, report>>

\* start() installs the config watcher once the first reconcile has finished.
Watch ==
  /\ ~ watching
  /\ pc = "idle"
  /\ queued = 0
  /\ watching' = TRUE
  /\ UNCHANGED <<writer, certWatched, timer, queued, pc, run, active, report>>

----------------------------------------------------------------------------
(* doReconcile                                                             *)

Begin ==
  /\ pc = "idle"
  /\ queued > 0
  /\ queued' = queued - 1
  /\ lastRead' = file
  /\ IF file = Unreadable
     THEN UNCHANGED <<pc, run>>
     ELSE /\ pc' = "apply"
          /\ cfg' = file
          /\ next' = 1
          /\ seen' = {}
          /\ skipped' = {}
          /\ read' = [i \in DOMAIN file.proxies |-> Unread]
          /\ fresh' = NoProxy
          /\ leaving' = {}
          /\ before' = Served
  /\ UNCHANGED <<writer, watchers, timer, active, applied, failed>>

Entry == cfg.proxies[next]

\* toProxyConfig reads the certificate files of the entry at hand.
Resolve == read' = [read EXCEPT ![next] = Contents(Entry)]

\* The entry is left alone, and the loop goes on with the next one.
Skip ==
  /\ next' = next + 1
  /\ skipped' = skipped \cup {next}

NamesPortSet(e) == e.ports # {}

\* Mutant of HotSwaps: the signature is taken over the paths, not the contents.
HotSwapsByPath(e) == e.ports \in DOMAIN active /\ active[e.ports].sig[1] = e.build

HotSwaps(e) == e.ports \in DOMAIN active /\ active[e.ports].sig = Signature(e)

\* An entry that names no ports, or whose certificate cannot be read.
SkipEntry ==
  /\ pc = "apply"
  /\ next <= Len(cfg.proxies)
  /\ ~ NamesPortSet(Entry) \/ ~ Resolvable(Entry)
  /\ seen' = seen \cup (IF NamesPortSet(Entry) THEN {Entry.ports} ELSE {})
  /\ Skip
  /\ IF NamesPortSet(Entry) THEN Resolve ELSE UNCHANGED read
  /\ UNCHANGED <<writer, watchers, timer, queued, pc, cfg, fresh, leaving, before,
                 active, applied, failed, lastRead>>

\* Same construction: updateConfig() swaps routes as a whole, or throws.
HotSwap ==
  /\ pc = "apply"
  /\ next <= Len(cfg.proxies)
  /\ NamesPortSet(Entry) /\ Resolvable(Entry)
  /\ HotSwaps(Entry)
  /\ seen' = seen \cup {Entry.ports}
  /\ \/ /\ active' = [active EXCEPT ![Entry.ports].routes = Entry.routes]
        /\ next' = next + 1
        /\ UNCHANGED skipped
     \/ Skip /\ UNCHANGED active
  /\ Resolve
  /\ UNCHANGED <<writer, watchers, timer, queued, pc, cfg, fresh, leaving, before,
                 applied, failed, lastRead>>

\* A new port-set, or a frozen setting changed: construct, then await start().
Construct ==
  /\ pc = "apply"
  /\ next <= Len(cfg.proxies)
  /\ NamesPortSet(Entry) /\ Resolvable(Entry)
  /\ ~ HotSwaps(Entry)
  /\ seen' = seen \cup {Entry.ports}
  /\ \/ /\ pc' = "start"
        /\ fresh' = Proxy(Entry)
        /\ UNCHANGED <<next, skipped>>
     \/ Skip /\ UNCHANGED <<pc, fresh>>
  /\ Resolve
  /\ UNCHANGED <<writer, watchers, timer, queued, cfg, leaving, before, active,
                 applied, failed, lastRead>>

\* start() binds every listener or rejects.
Start ==
  /\ pc = "start"
  /\ \/ pc' = "retire" /\ UNCHANGED <<next, skipped, fresh>>
     \/ pc' = "apply" /\ Skip /\ fresh' = NoProxy
  /\ UNCHANGED <<writer, watchers, timer, queued, cfg, seen, read, leaving, before,
                 active, report>>

\* The predecessor, if any, has stopped (or failed to, which is logged).
Retire ==
  /\ pc = "retire"
  /\ pc' = "apply"
  /\ next' = next + 1
  /\ active' = [k \in DOMAIN active \cup {fresh.ports} |->
                  IF k = fresh.ports THEN fresh ELSE active[k]]
  /\ fresh' = NoProxy
  /\ UNCHANGED <<writer, watchers, timer, queued, cfg, seen, skipped, read, leaving,
                 before, report>>

\* Mutant of ReplacementSkipped: a proxy missing from the config always goes.
ReplacementSkippedNever(k) == FALSE

ReplacementSkipped(k) == SkippedUnnamed \/ k \cap SkippedPorts # {}

Removable == {k \in DOMAIN active : k \notin seen /\ ~ ReplacementSkipped(k)}

Applied == pc = "apply" /\ next > Len(cfg.proxies)

Remove ==
  /\ Applied
  /\ leaving = {}
  /\ \E k \in Removable : leaving' = k
  /\ UNCHANGED <<writer, watchers, timer, queued, pc, cfg, next, seen, skipped, read,
                 active, fresh, before, report>>

Removed ==
  /\ leaving # {}
  /\ active' = [k \in DOMAIN active \ {leaving} |-> active[k]]
  /\ leaving' = {}
  /\ UNCHANGED <<writer, watchers, timer, queued, pc, cfg, next, seen, skipped, read,
                 fresh, before, report>>

\* The certificate watchers follow the config, and the generation is reported.
Finish ==
  /\ Applied
  /\ leaving = {}
  /\ Removable = {}
  /\ pc' = "idle"
  /\ certWatched' = CertsOf(cfg)
  /\ \/ /\ cfg.generation = NoGeneration
        /\ applied' = NoGeneration
        /\ failed' = NoFailure
     \/ /\ cfg.generation # NoGeneration
        /\ skipped # {}
        /\ failed' = [generation |-> cfg.generation, ports |-> SkippedPorts]
        /\ UNCHANGED applied
     \/ /\ cfg.generation # NoGeneration
        /\ skipped = {}
        /\ applied' = cfg.generation
        /\ failed' = NoFailure
  /\ UNCHANGED <<writer, watching, timer, queued, run, active, lastRead>>

----------------------------------------------------------------------------

Work ==
  \/ Begin \/ SkipEntry \/ HotSwap \/ Construct \/ Start \/ Retire
  \/ Remove \/ Removed \/ Finish

Next ==
  \/ WriteConfig \/ WriteCert \/ Sighup
  \/ TimerFires \/ Watch
  \/ Work

Spec == Init /\ [][Next]_vars

\* The timer fires and the event loop runs what is queued.
Fairness == WF_vars(TimerFires) /\ WF_vars(Watch) /\ WF_vars(Work)

FairSpec == Spec /\ Fairness

----------------------------------------------------------------------------
(* Properties                                                              *)

\* The shape of the state.
TypeOK ==
  /\ file \in Configs \cup {Unreadable}
  /\ disk \in [Certs -> {0, 1, 2}]
  /\ writes \in 0 .. MaxWrites
  /\ watching \in BOOLEAN /\ timer \in BOOLEAN
  /\ certWatched \subseteq Certs
  /\ queued \in 0 .. MaxWrites + 1
  /\ pc \in {"idle", "apply", "start", "retire"}
  /\ next \in 1 .. Len(cfg.proxies) + 1
  /\ skipped \subseteq DOMAIN cfg.proxies
  /\ DOMAIN read = DOMAIN cfg.proxies
  /\ \A k \in DOMAIN active : k # {} /\ active[k].ports = k
  /\ leaving \in DOMAIN active \cup {{}}

\* "SO_REUSEPORT lets the new listener bind before the old one is dropped, so
\* there is no bind gap" (server.ts), and "moving a port to a new entry under a
\* bad cert doesn't take the port down" (README.md): a port that was served when
\* a reload began, and that the new config names, is served throughout it.
NoBindGap == pc # "idle" => before \cap NamedPorts(cfg) \subseteq Served

\* A later entry of the same ports was applied after this one.
Overruled(i) ==
  \E j \in DOMAIN cfg.proxies \ skipped :
    j > i /\ cfg.proxies[j].ports = cfg.proxies[i].ports

\* The proxy on the entry's ports has its routes, its construction settings and what
\* the reload read from its certificate files.
Runs(i) ==
  LET e == cfg.proxies[i]
  IN  /\ e.ports \in DOMAIN active
      /\ active[e.ports].routes = e.routes
      /\ active[e.ports].sig = <<e.build, read[i]>>

\* "Every other entry has G" (README.md): once a reload has finished, every entry it
\* did not skip runs with the routes, settings and certificates the reload read for
\* it, or a later entry of the same ports does.  What it reports agrees: a config
\* without a generation is not acknowledged at all; one that applied in full is
\* acknowledged, and nothing else runs; otherwise the ports of what was skipped are
\* reported, so an entry on ports that are not reported has G.
ReportedAsApplied ==
  /\ TypeOK
  /\ pc = "idle" /\ cfg # Idle =>
       /\ \A i \in DOMAIN cfg.proxies \ skipped : Runs(i) \/ Overruled(i)
       /\ \/ /\ cfg.generation = NoGeneration
             /\ applied = NoGeneration /\ failed = NoFailure
          \/ /\ cfg.generation # NoGeneration /\ skipped = {}
             /\ applied = cfg.generation /\ failed = NoFailure
             /\ DOMAIN active = {cfg.proxies[i].ports : i \in DOMAIN cfg.proxies}
          \/ /\ cfg.generation # NoGeneration /\ skipped # {}
             /\ failed.generation = cfg.generation
             /\ \A i \in DOMAIN cfg.proxies :
                  ~ cfg.proxies[i].ports \subseteq failed.ports => Runs(i) \/ Overruled(i)

\* "Both fields can name G ... appliedGeneration is still true, since the skipped
\* proxy keeps G's routes" (README.md).  Violated when G comes back after another
\* generation that applied in part.
BothNameMeansServed ==
  pc = "idle" /\ applied = failed.generation /\ applied # NoGeneration =>
    \A i \in DOMAIN cfg.proxies :
      LET e == cfg.proxies[i]
      IN  e.ports \in DOMAIN active => active[e.ports].routes = e.routes

\* A change of the config that a watcher noticed is read, also one that comes in
\* the middle of a reconcile ("chains onto reloading", server.ts).
WatchedConfigRead ==
  \A c \in Configs : timer /\ file = c ~> lastRead = c \/ file # c

\* "Watched for live reload" (server.ts): a config that stays in the file is read
\* in the end.  Violated by a write between the first read and the watcher.
ConfigEventuallyRead == <>[](lastRead = file)

\* "So a renewal on disk (no config.json write) triggers a reconcile and live
\* reload" (server.ts): the certificates the running config uses are in the end
\* those on disk.
CertEventuallyRead ==
  <>[](pc = "idle" =>
         \A i \in DOMAIN cfg.proxies \ skipped : read[i] = Contents(cfg.proxies[i]))

============================================================================
