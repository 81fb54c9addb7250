---------------------------- MODULE ServerProofs ----------------------------
(***************************************************************************)
(* Theorems about symphony-server.                                         *)
(*                                                                         *)
(* Reconcile, for any config files, certificates and number of writes: no  *)
(* reload takes a port down that its config names, and what a finished     *)
(* reload did not skip runs as its config says.                            *)
(*                                                                         *)
(* Handover, for any number of processes, listeners, reloads and faults,   *)
(* any grace period and any stepping of the wall clock: a process stands   *)
(* down only for one that started later, and only while that one runs with *)
(* every listener it would give up, or had them when it was told to stop.  *)
(***************************************************************************)
EXTENDS Reconcile, Handover, TLAPS

----------------------------------------------------------------------------
(* The inductive invariant                                                 *)

Fields == {"ports", "sig", "routes"}

\* One proxy per port-set, under that port-set.
ActiveOK ==
  /\ active = [k \in DOMAIN active |-> active[k]]
  /\ \A k \in DOMAIN active :
       k # {} /\ active[k].ports = k /\ DOMAIN active[k] = Fields

\* A timer or a queued reconcile is owed to a write, or is the first one.
QueueOK ==
  /\ writes \in 0 .. MaxWrites /\ queued \in Nat
  /\ timer \in BOOLEAN /\ watching \in BOOLEAN
  /\ queued + (IF timer THEN 1 ELSE 0) <= writes + 1
  /\ timer => writes > 0

FilesOK ==
  /\ file \in Configs \cup {Unreadable}
  /\ disk \in [Certs -> {0, 1, 2}]
  /\ certWatched \subseteq Certs

PortSets(c) == {c.proxies[i].ports : i \in DOMAIN c.proxies}

\* Where the running reconcile is.
RunOK ==
  /\ pc \in {"idle", "apply", "start", "retire"}
  /\ cfg \in Configs \cup {Idle}
  /\ pc # "idle" => cfg \in Configs
  /\ next \in 1 .. Len(cfg.proxies) + 1
  /\ pc = "idle" /\ cfg # Idle => next = Len(cfg.proxies) + 1
  /\ skipped \subseteq 1 .. next - 1
  /\ DOMAIN read = DOMAIN cfg.proxies
  /\ seen \subseteq PortSets(cfg) \ {{}}

\* The proxy under construction is the entry at hand.
FreshOK ==
  pc \in {"start", "retire"} =>
    /\ next <= Len(cfg.proxies)
    /\ Entry.ports \in seen
    /\ DOMAIN fresh = Fields
    /\ fresh.ports = Entry.ports /\ fresh.routes = Entry.routes
    /\ fresh.sig = <<Entry.build, read[next]>>

\* Only a proxy that no entry names, and that no skipped one may replace, leaves.
LeavingOK ==
  /\ leaving \in DOMAIN active \cup {{}}
  /\ leaving # {} => Applied /\ leaving \notin seen /\ leaving \cap SkippedPorts = {}

\* An entry that was met runs or was skipped.
DoneOK ==
  \A i \in 1 .. next - 1 :
    \/ i \in skipped
    \/ cfg.proxies[i].ports \in seen /\ cfg.proxies[i].ports \in DOMAIN active

\* A port served before is served still, or has been given up on purpose.
GapOK ==
  pc # "idle" => \A p \in before :
    \/ \E k \in DOMAIN active : p \in k /\ k # leaving
    \/ Applied /\ p \notin SkippedPorts

\* A later entry of the same ports was met and not skipped.
Followed(i) ==
  \E j \in 1 .. next - 1 :
    j \notin skipped /\ j > i /\ cfg.proxies[j].ports = cfg.proxies[i].ports

\* An entry that was met and not skipped runs as the config says, or gave way to a
\* later one.
MatchOK == \A i \in 1 .. next - 1 : i \notin skipped => Runs(i) \/ Followed(i)

\* The report is that of the reload that finished last.
ReportOK ==
  pc = "idle" /\ cfg # Idle =>
    \/ /\ cfg.generation = NoGeneration
       /\ applied = NoGeneration /\ failed = NoFailure
    \/ /\ cfg.generation # NoGeneration /\ skipped = {}
       /\ applied = cfg.generation /\ failed = NoFailure
       /\ DOMAIN active \subseteq seen
    \/ /\ cfg.generation # NoGeneration /\ skipped # {}
       /\ failed.generation = cfg.generation /\ failed.ports = SkippedPorts

ShapeInv == ActiveOK /\ QueueOK /\ FilesOK /\ RunOK /\ FreshOK /\ LeavingOK /\ DoneOK

IInv == ShapeInv /\ GapOK /\ ReportOK /\ MatchOK

----------------------------------------------------------------------------
(* Configs                                                                 *)

\* A config lists entries, from 1 on.
LEMMA Proxies ==
  ASSUME NEW c \in Configs \cup {Idle}
  PROVE  /\ Len(c.proxies) \in Nat /\ DOMAIN c.proxies = 1 .. Len(c.proxies)
         /\ \A i \in DOMAIN c.proxies : c.proxies[i] \in Entries
<1>1. CASE c = Idle
  BY <1>1 DEF Idle
<1>2. CASE c \in Configs
  BY <1>2, ReconcileConstants
<1> QED BY <1>1, <1>2

\* The certificates a config names are certificates.
LEMMA CertsOfType ==
  ASSUME NEW c \in Configs PROVE CertsOf(c) \subseteq Certs
<1>1. \A i \in DOMAIN c.proxies : c.proxies[i].certs \subseteq Certs
  BY Proxies, ReconcileConstants
<1> QED BY <1>1 DEF CertsOf

\* What is not the running reconcile's leaves it alone.
RunUnchanged == UNCHANGED <<pc, run, active, applied, failed>>

\* What is said of the run holds on when the run does not move.
LEMMA RunKept ==
  ASSUME ShapeInv, RunUnchanged
  PROVE  ActiveOK' /\ RunOK' /\ FreshOK' /\ LeavingOK' /\ DoneOK'
<1>1. UNCHANGED <<pc, cfg, next, seen, skipped, read, fresh, leaving, before, active>>
  BY DEF RunUnchanged, run
<1>2. ActiveOK'
  BY <1>1 DEF ShapeInv, ActiveOK
<1>3. RunOK'
  BY <1>1 DEF ShapeInv, RunOK, PortSets
<1>4. FreshOK'
  BY <1>1 DEF ShapeInv, FreshOK, Entry
<1>5. LeavingOK'
  BY <1>1 DEF ShapeInv, LeavingOK, Applied, SkippedPorts
<1>6. DoneOK'
  BY <1>1 DEF ShapeInv, DoneOK
<1> QED BY <1>2, <1>3, <1>4, <1>5, <1>6

\* The writer, the watchers and the queue.
LEMMA ShapeOutside ==
  ASSUME ShapeInv, WriteConfig \/ WriteCert \/ Sighup \/ TimerFires \/ Watch
  PROVE  ShapeInv' /\ RunUnchanged
<1>1. RunUnchanged
  BY DEF WriteConfig, WriteCert, Sighup, TimerFires, Watch, RunUnchanged, run, report
<1>2. QueueOK /\ FilesOK /\ MaxWrites \in Nat
  BY ReconcileConstants DEF ShapeInv
<1>3. QueueOK'
  <2>1. CASE WriteConfig \/ WriteCert
    <3>1. /\ writes < MaxWrites /\ writes' = writes + 1
          /\ UNCHANGED <<queued, watching>> /\ timer' \in BOOLEAN
      BY <1>2, <2>1 DEF WriteConfig, WriteCert, watchers, QueueOK
    <3> QED BY <1>2, <3>1 DEF QueueOK
  <2>2. CASE Sighup
    <3>1. queued = 0 /\ queued' = 1 /\ UNCHANGED <<writes, timer, watching>>
      BY <2>2 DEF Sighup, writer, watchers
    <3> QED BY <1>2, <3>1 DEF QueueOK
  <2>3. CASE TimerFires
    <3>1. timer /\ timer' = FALSE /\ queued' = queued + 1 /\ UNCHANGED <<writes, watching>>
      BY <2>3 DEF TimerFires, Debounced, writer, watchers
    <3>2. ~ timer' /\ timer' \in BOOLEAN
      BY <3>1
    <3>3. queued + 1 <= writes + 1 /\ queued \in Nat /\ writes \in 0 .. MaxWrites
      BY <1>2, <3>1 DEF QueueOK
    <3>4. queued' \in Nat /\ queued' + 0 <= writes' + 1 /\ writes' \in 0 .. MaxWrites
      BY <3>1, <3>3
    <3>5. watching' \in BOOLEAN
      BY <1>2, <3>1 DEF QueueOK
    <3> QED BY <3>2, <3>4, <3>5 DEF QueueOK
  <2>4. CASE Watch
    <3>1. watching' = TRUE /\ UNCHANGED <<writes, timer, queued>>
      BY <2>4 DEF Watch, writer
    <3> QED BY <1>2, <3>1 DEF QueueOK
  <2> QED BY <2>1, <2>2, <2>3, <2>4
<1>4. FilesOK'
  <2>1. CASE WriteConfig
    BY <1>2, <2>1 DEF WriteConfig, FilesOK, watchers
  <2>2. CASE WriteCert
    BY <1>2, <2>2 DEF WriteCert, FilesOK, watchers
  <2>3. CASE Sighup \/ TimerFires \/ Watch
    BY <1>2, <2>3 DEF Sighup, TimerFires, Watch, FilesOK, watchers, writer
  <2> QED BY <2>1, <2>2, <2>3
<1> QED BY <1>1, <1>3, <1>4, RunKept DEF ShapeInv

----------------------------------------------------------------------------
(* The steps of a reconcile                                                *)

\* What the loop over the entries leaves alone.
LoopStep ==
  /\ UNCHANGED <<cfg, leaving, before, failed>>
  /\ UNCHANGED <<file, disk, writes, watching, certWatched, timer, queued>>
  /\ pc \in {"apply", "start", "retire"} /\ next <= Len(cfg.proxies)

SkipStep ==
  /\ LoopStep /\ Skip /\ pc' = "apply" /\ UNCHANGED active
  /\ Resolve \/ UNCHANGED read
  /\ seen' = seen \/ (Entry.ports # {} /\ seen' = seen \cup {Entry.ports})

HotSwapStep ==
  /\ LoopStep /\ pc' = "apply" /\ next' = next + 1 /\ UNCHANGED skipped /\ Resolve
  /\ Entry.ports # {} /\ HotSwaps(Entry) /\ seen' = seen \cup {Entry.ports}
  /\ active' = [active EXCEPT ![Entry.ports].routes = Entry.routes]

ConstructStep ==
  /\ LoopStep /\ pc' = "start" /\ UNCHANGED <<next, skipped, active>> /\ Resolve
  /\ Entry.ports # {} /\ seen' = seen \cup {Entry.ports} /\ fresh' = Proxy(Entry)

StartStep ==
  /\ LoopStep /\ pc = "start" /\ pc' = "retire"
  /\ UNCHANGED <<next, seen, skipped, read, active, fresh>>

RetireStep ==
  /\ LoopStep /\ pc = "retire" /\ pc' = "apply" /\ next' = next + 1
  /\ UNCHANGED <<seen, skipped, read>>
  /\ active' = [k \in DOMAIN active \cup {fresh.ports} |->
                  IF k = fresh.ports THEN fresh ELSE active[k]]

\* The steps of the loop over the entries, in terms of what they change.
LEMMA LoopSteps ==
  ASSUME ShapeInv, SkipEntry \/ HotSwap \/ Construct \/ Start \/ Retire
  PROVE  SkipStep \/ HotSwapStep \/ ConstructStep \/ StartStep \/ RetireStep
<1>1. CASE SkipEntry
  BY <1>1 DEF SkipEntry, SkipStep, LoopStep, NamesPortSet, writer, watchers
<1>2. CASE HotSwap
  BY <1>2 DEF HotSwap, SkipStep, HotSwapStep, LoopStep, NamesPortSet, writer, watchers
<1>3. CASE Construct
  BY <1>3 DEF Construct, SkipStep, ConstructStep, LoopStep, NamesPortSet, writer, watchers
<1>4. CASE Start
  <2>1. next <= Len(cfg.proxies)
    BY <1>4 DEF Start, ShapeInv, FreshOK
  <2> QED BY <1>4, <2>1 DEF Start, SkipStep, StartStep, LoopStep, writer, watchers, report
<1>5. CASE Retire
  <2>1. next <= Len(cfg.proxies)
    BY <1>5 DEF Retire, ShapeInv, FreshOK
  <2> QED BY <1>5, <2>1 DEF Retire, RetireStep, LoopStep, writer, watchers, report
<1> QED BY <1>1, <1>2, <1>3, <1>4, <1>5

\* The entry at hand is one of the config.
LEMMA EntryAtHand ==
  ASSUME ShapeInv, LoopStep
  PROVE  /\ cfg \in Configs /\ next \in DOMAIN cfg.proxies /\ Entry \in Entries
         /\ Entry.ports \in PortSets(cfg) /\ next \in Nat /\ Len(cfg.proxies) \in Nat
         /\ leaving = {}
<1>1. cfg \in Configs /\ next \in 1 .. Len(cfg.proxies) + 1 /\ next <= Len(cfg.proxies)
  BY DEF ShapeInv, RunOK, LoopStep
<1>2. /\ Len(cfg.proxies) \in Nat /\ DOMAIN cfg.proxies = 1 .. Len(cfg.proxies)
      /\ \A i \in DOMAIN cfg.proxies : cfg.proxies[i] \in Entries
  BY <1>1, Proxies
<1>3. next \in DOMAIN cfg.proxies
  BY <1>1, <1>2
<1>4. leaving = {}
  BY <1>1, <1>2 DEF ShapeInv, LeavingOK, Applied
<1> QED BY <1>1, <1>2, <1>3, <1>4 DEF Entry, PortSets

\* What is read for the entry at hand leaves what was read for the others.
LEMMA ResolveRead ==
  ASSUME ShapeInv, LoopStep, Resolve \/ UNCHANGED read
  PROVE  /\ DOMAIN read' = DOMAIN cfg.proxies
         /\ \A i \in 1 .. next - 1 : read'[i] = read[i]
         /\ Resolve => read'[next] = Contents(Entry)
<1>1. next \in DOMAIN cfg.proxies /\ next \in Nat /\ DOMAIN read = DOMAIN cfg.proxies
  BY EntryAtHand DEF ShapeInv, RunOK
<1>2. CASE UNCHANGED read /\ ~ Resolve
  BY <1>1, <1>2
<1>3. CASE Resolve
  <2> DEFINE new == Contents(Entry)
  <2>1. read' = [read EXCEPT ![next] = new]
    BY <1>3 DEF Resolve
  <2> HIDE DEF new
  <2>2. DOMAIN read' = DOMAIN read /\ read'[next] = new
    BY <1>1, <2>1
  <2>3. ASSUME NEW i \in 1 .. next - 1 PROVE read'[i] = read[i]
    <3>1. i # next
      BY <1>1
    <3> QED BY <2>1, <3>1
  <2> QED BY <1>1, <2>2, <2>3 DEF new
<1> QED BY <1>2, <1>3

\* They leave the queue and the files alone.
LEMMA LoopKeeps ==
  ASSUME ShapeInv, LoopStep
  PROVE  /\ QueueOK' /\ FilesOK'
<1>1. QueueOK'
  BY DEF ShapeInv, QueueOK, LoopStep
<1>2. FilesOK'
  BY DEF ShapeInv, FilesOK, LoopStep
<1> QED BY <1>1, <1>2

\* What a hot swap and a replacement leave in the map of proxies.
LEMMA HotSwapActive ==
  ASSUME ShapeInv, HotSwapStep
  PROVE  /\ ActiveOK' /\ DOMAIN active' = DOMAIN active /\ Entry.ports \in DOMAIN active
         /\ active'[Entry.ports].routes = Entry.routes
         /\ active'[Entry.ports].sig = active[Entry.ports].sig
         /\ \A k \in DOMAIN active : k # Entry.ports => active'[k] = active[k]
<1> DEFINE q == Entry.ports
<1>1. q \in DOMAIN active
  BY DEF HotSwapStep, HotSwaps
<1>2. /\ active = [k \in DOMAIN active |-> active[k]]
      /\ \A k \in DOMAIN active : k # {} /\ active[k].ports = k /\ DOMAIN active[k] = Fields
  BY DEF ShapeInv, ActiveOK
<1>3. active' = [active EXCEPT ![q].routes = Entry.routes]
  BY DEF HotSwapStep
<1> DEFINE new == [active[q] EXCEPT !.routes = Entry.routes]
<1>4. new.routes = Entry.routes /\ new.sig = active[q].sig /\ new.ports = active[q].ports
      /\ DOMAIN new = Fields
  BY <1>1, <1>2 DEF Fields
<1>5. active' = [active EXCEPT ![q] = new]
  BY <1>3
<1> HIDE DEF new
<1>6. DOMAIN active' = DOMAIN active /\ active'[q] = new
      /\ \A k \in DOMAIN active : k # q => active'[k] = active[k]
  BY <1>1, <1>2, <1>5
<1>7. active' = [k \in DOMAIN active' |-> active'[k]]
  BY <1>5
<1>8. ActiveOK'
  BY <1>1, <1>2, <1>4, <1>6, <1>7 DEF ActiveOK
<1> QED BY <1>1, <1>4, <1>6, <1>8

\* An entry whose proxy is in place runs as the config says; no other moves.
LEMMA RetireActive ==
  ASSUME ShapeInv, RetireStep
  PROVE  /\ ActiveOK' /\ DOMAIN active' = DOMAIN active \cup {Entry.ports}
         /\ Entry.ports \in seen
         /\ active'[Entry.ports].routes = Entry.routes
         /\ active'[Entry.ports].sig = <<Entry.build, read[next]>>
         /\ \A k \in DOMAIN active : k # Entry.ports => active'[k] = active[k]
<1> DEFINE q == Entry.ports
<1>1. /\ q \in seen /\ q # {} /\ DOMAIN fresh = Fields
      /\ fresh.ports = q /\ fresh.routes = Entry.routes
      /\ fresh.sig = <<Entry.build, read[next]>>
  BY DEF ShapeInv, FreshOK, RetireStep, RunOK
<1>2. \A k \in DOMAIN active : k # {} /\ active[k].ports = k /\ DOMAIN active[k] = Fields
  BY DEF ShapeInv, ActiveOK
<1>3. active' = [k \in DOMAIN active \cup {q} |-> IF k = q THEN fresh ELSE active[k]]
  BY <1>1 DEF RetireStep
<1>4. DOMAIN active' = DOMAIN active \cup {q} /\ active'[q] = fresh
      /\ \A k \in DOMAIN active : k # q => active'[k] = active[k]
  BY <1>3
<1>5. active' = [k \in DOMAIN active' |-> active'[k]]
  BY <1>3
<1>6. ActiveOK'
  BY <1>1, <1>2, <1>4, <1>5 DEF ActiveOK
<1> QED BY <1>1, <1>4, <1>6

\* Each kind of step keeps the shape of the run.
LEMMA ShapeSkip ==
  ASSUME ShapeInv, SkipStep
  PROVE  ShapeInv'
<1>1. /\ LoopStep /\ next' = next + 1 /\ skipped' = skipped \cup {next} /\ pc' = "apply"
      /\ active' = active /\ cfg' = cfg /\ leaving' = leaving
  BY DEF SkipStep, Skip, LoopStep
<1>2. /\ cfg \in Configs /\ next \in DOMAIN cfg.proxies /\ Entry \in Entries
      /\ Entry.ports \in PortSets(cfg) /\ next \in Nat /\ Len(cfg.proxies) \in Nat
      /\ leaving = {} /\ next <= Len(cfg.proxies)
  BY <1>1, EntryAtHand DEF LoopStep
<1>3. seen \subseteq seen' /\ seen' \subseteq PortSets(cfg) \ {{}}
  BY <1>2 DEF SkipStep, ShapeInv, RunOK
<1>4. ActiveOK'
  BY <1>1 DEF ShapeInv, ActiveOK
<1>5. RunOK'
  <2>1. PortSets(cfg)' = PortSets(cfg)
    BY <1>1 DEF PortSets
  <2>2. next' \in 1 .. Len(cfg'.proxies) + 1
    BY <1>1, <1>2 DEF ShapeInv, RunOK
  <2>3. skipped' \subseteq 1 .. next' - 1
    <3>1. skipped \subseteq 1 .. next - 1 /\ next \in 1 .. next /\ next' - 1 = next
      BY <1>1, <1>2 DEF ShapeInv, RunOK
    <3>2. \A i \in 1 .. next - 1 : i \in 1 .. next
      BY <1>2
    <3> QED BY <1>1, <3>1, <3>2
  <2>4. DOMAIN read' = DOMAIN cfg.proxies
    BY <1>1, ResolveRead DEF SkipStep
  <2> QED BY <1>1, <1>2, <1>3, <2>1, <2>2, <2>3, <2>4 DEF RunOK
<1>6. FreshOK'
  BY <1>1 DEF FreshOK
<1>7. LeavingOK'
  BY <1>1, <1>2 DEF ShapeInv, LeavingOK
<1>8. DoneOK'
  <2> SUFFICES ASSUME NEW i \in 1 .. next' - 1
               PROVE  \/ i \in skipped'
                      \/ cfg.proxies[i].ports \in seen' /\ cfg.proxies[i].ports \in DOMAIN active
    BY <1>1 DEF DoneOK
  <2>1. i = next \/ i \in 1 .. next - 1
    BY <1>1, <1>2
  <2> QED BY <1>1, <1>3, <2>1 DEF ShapeInv, DoneOK, Entry
<1> QED BY <1>1, <1>4, <1>5, <1>6, <1>7, <1>8, LoopKeeps DEF ShapeInv

\* The shape is preserved by each outcome of an entry.
LEMMA ShapeHotSwap ==
  ASSUME ShapeInv, HotSwapStep
  PROVE  ShapeInv'
<1>1. /\ LoopStep /\ next' = next + 1 /\ skipped' = skipped /\ pc' = "apply"
      /\ cfg' = cfg /\ leaving' = leaving /\ seen' = seen \cup {Entry.ports}
      /\ Entry.ports # {}
  BY DEF HotSwapStep, LoopStep
<1>2. /\ cfg \in Configs /\ next \in DOMAIN cfg.proxies /\ Entry \in Entries
      /\ Entry.ports \in PortSets(cfg) /\ next \in Nat /\ Len(cfg.proxies) \in Nat
      /\ leaving = {} /\ next <= Len(cfg.proxies)
  BY <1>1, EntryAtHand DEF LoopStep
<1>3. ActiveOK' /\ DOMAIN active' = DOMAIN active /\ Entry.ports \in DOMAIN active
  BY HotSwapActive
<1>4. RunOK'
  <2>1. PortSets(cfg)' = PortSets(cfg)
    BY <1>1 DEF PortSets
  <2>2. next' \in 1 .. Len(cfg'.proxies) + 1
    BY <1>1, <1>2 DEF ShapeInv, RunOK
  <2>3. seen' \subseteq PortSets(cfg) \ {{}} /\ skipped' \subseteq 1 .. next' - 1
    BY <1>1, <1>2 DEF ShapeInv, RunOK
  <2>4. DOMAIN read' = DOMAIN cfg.proxies
    BY <1>1, ResolveRead DEF HotSwapStep
  <2> QED BY <1>1, <1>2, <2>1, <2>2, <2>3, <2>4 DEF RunOK
<1>5. FreshOK'
  BY <1>1 DEF FreshOK
<1>6. LeavingOK'
  BY <1>1, <1>2, <1>3 DEF ShapeInv, LeavingOK
<1>7. DoneOK'
  <2> SUFFICES ASSUME NEW i \in 1 .. next' - 1
               PROVE  \/ i \in skipped
                      \/ cfg.proxies[i].ports \in seen' /\ cfg.proxies[i].ports \in DOMAIN active
    BY <1>1, <1>3 DEF DoneOK
  <2>1. i = next \/ i \in 1 .. next - 1
    BY <1>1, <1>2
  <2> QED BY <1>1, <1>3, <2>1 DEF ShapeInv, DoneOK, Entry
<1> QED BY <1>1, <1>3, <1>4, <1>5, <1>6, <1>7, LoopKeeps DEF ShapeInv

LEMMA ShapeConstruct ==
  ASSUME ShapeInv, ConstructStep \/ StartStep
  PROVE  ShapeInv'
<1>1. /\ LoopStep /\ UNCHANGED <<next, skipped, active, cfg, leaving>>
      /\ pc' \in {"start", "retire"}
  BY DEF ConstructStep, StartStep, LoopStep
<1>2. /\ cfg \in Configs /\ next \in DOMAIN cfg.proxies /\ Entry \in Entries
      /\ Entry.ports \in PortSets(cfg) /\ next \in Nat /\ Len(cfg.proxies) \in Nat
      /\ leaving = {} /\ next <= Len(cfg.proxies)
  BY <1>1, EntryAtHand DEF LoopStep
<1>3. seen \subseteq seen' /\ seen' \subseteq PortSets(cfg) \ {{}}
  BY <1>2 DEF ConstructStep, StartStep, ShapeInv, RunOK
<1>4. ActiveOK'
  BY <1>1 DEF ShapeInv, ActiveOK
<1>5. RunOK'
  <2>1. PortSets(cfg)' = PortSets(cfg)
    BY <1>1 DEF PortSets
  <2>2. DOMAIN read' = DOMAIN cfg.proxies
    BY <1>1, ResolveRead DEF ConstructStep, StartStep
  <2> QED BY <1>1, <1>2, <1>3, <2>1, <2>2 DEF ShapeInv, RunOK
<1>6. FreshOK'
  <2>1. Entry' = Entry
    BY <1>1 DEF Entry
  <2>2. CASE ConstructStep
    <3>1. Entry.ports \in seen' /\ fresh' = Proxy(Entry)
      BY <2>2 DEF ConstructStep
    <3>2. /\ DOMAIN fresh' = Fields /\ fresh'.ports = Entry.ports
          /\ fresh'.routes = Entry.routes /\ fresh'.sig = Signature(Entry)
      BY <3>1 DEF Proxy, Fields
    <3>3. fresh'.sig = <<Entry.build, read'[next]>>
      BY <1>1, <2>2, <3>2, ResolveRead DEF Signature, ConstructStep
    <3> QED BY <1>1, <1>2, <2>1, <3>1, <3>2, <3>3 DEF FreshOK
  <2>3. CASE StartStep
    BY <1>1, <2>1, <2>3 DEF FreshOK, StartStep, ShapeInv
  <2> QED BY <2>2, <2>3
<1>7. LeavingOK'
  BY <1>1, <1>2 DEF ShapeInv, LeavingOK
<1>8. DoneOK'
  BY <1>1, <1>3 DEF ShapeInv, DoneOK
<1> QED BY <1>1, <1>4, <1>5, <1>6, <1>7, <1>8, LoopKeeps DEF ShapeInv

LEMMA ShapeRetire ==
  ASSUME ShapeInv, RetireStep
  PROVE  ShapeInv'
<1>1. /\ LoopStep /\ next' = next + 1 /\ skipped' = skipped /\ pc' = "apply"
      /\ cfg' = cfg /\ leaving' = leaving /\ seen' = seen
  BY DEF RetireStep, LoopStep
<1>2. /\ cfg \in Configs /\ next \in DOMAIN cfg.proxies /\ Entry \in Entries
      /\ Entry.ports \in PortSets(cfg) /\ next \in Nat /\ Len(cfg.proxies) \in Nat
      /\ leaving = {} /\ next <= Len(cfg.proxies)
  BY <1>1, EntryAtHand DEF LoopStep
<1>3. ActiveOK' /\ DOMAIN active' = DOMAIN active \cup {Entry.ports} /\ Entry.ports \in seen
  BY RetireActive
<1>4. RunOK'
  <2>1. PortSets(cfg)' = PortSets(cfg)
    BY <1>1 DEF PortSets
  <2>2. next' \in 1 .. Len(cfg'.proxies) + 1 /\ skipped' \subseteq 1 .. next' - 1
    BY <1>1, <1>2 DEF ShapeInv, RunOK
  <2>3. DOMAIN read' = DOMAIN cfg.proxies
    BY <1>1, ResolveRead DEF RetireStep
  <2> QED BY <1>1, <1>2, <2>1, <2>2, <2>3 DEF ShapeInv, RunOK
<1>5. FreshOK'
  BY <1>1 DEF FreshOK
<1>6. LeavingOK'
  BY <1>1, <1>2, <1>3 DEF ShapeInv, LeavingOK
<1>7. DoneOK'
  <2> SUFFICES ASSUME NEW i \in 1 .. next' - 1
               PROVE  \/ i \in skipped
                      \/ cfg.proxies[i].ports \in seen /\ cfg.proxies[i].ports \in DOMAIN active'
    BY <1>1, <1>3 DEF DoneOK
  <2>1. i = next \/ i \in 1 .. next - 1
    BY <1>1, <1>2
  <2> QED BY <1>1, <1>3, <2>1 DEF ShapeInv, DoneOK, Entry
<1> QED BY <1>1, <1>3, <1>4, <1>5, <1>6, <1>7, LoopKeeps DEF ShapeInv

\* The ends of a reconcile: its beginning, the removals and its finish.
LEMMA ShapeBegin ==
  ASSUME ShapeInv, Begin
  PROVE  ShapeInv'
<1>1. /\ pc = "idle" /\ queued > 0 /\ queued' = queued - 1 /\ active' = active
      /\ UNCHANGED <<file, disk, writes, watching, certWatched, timer>>
  BY DEF Begin, writer, watchers
<1>2. QueueOK'
  <2>1. writes \in 0 .. MaxWrites /\ MaxWrites \in Nat /\ queued \in Nat
        /\ queued + (IF timer THEN 1 ELSE 0) <= writes + 1
    BY ReconcileConstants DEF ShapeInv, QueueOK
  <2>2. queued' \in Nat /\ queued' + (IF timer THEN 1 ELSE 0) <= writes + 1
    BY <1>1, <2>1
  <2> QED BY <1>1, <2>2 DEF ShapeInv, QueueOK
<1>3. FilesOK'
  BY <1>1 DEF ShapeInv, FilesOK
<1>4. CASE file = Unreadable
  <2>1. /\ UNCHANGED <<pc, cfg, next, seen, skipped, read, fresh, leaving, before, active>>
        /\ UNCHANGED <<applied, failed>>
    BY <1>4 DEF Begin, run
  <2>2. RunUnchanged
    BY <2>1 DEF RunUnchanged, run
  <2> QED BY <1>2, <1>3, <2>2, RunKept DEF ShapeInv
<1>5. CASE file # Unreadable
  <2>1. /\ pc' = "apply" /\ cfg' = file /\ next' = 1 /\ seen' = {} /\ skipped' = {}
        /\ leaving' = {} /\ file \in Configs /\ DOMAIN read' = DOMAIN file.proxies
    BY <1>5 DEF Begin, ShapeInv, FilesOK
  <2>2. Len(file.proxies) \in Nat
    BY <2>1, Proxies
  <2>3. ActiveOK'
    BY <1>1 DEF ShapeInv, ActiveOK
  <2>4. RunOK'
    BY <2>1, <2>2 DEF RunOK
  <2>5. FreshOK' /\ LeavingOK' /\ DoneOK'
    BY <2>1 DEF FreshOK, LeavingOK, DoneOK
  <2> QED BY <1>2, <1>3, <2>3, <2>4, <2>5 DEF ShapeInv
<1> QED BY <1>4, <1>5

\* It is preserved by the removal of what the config no longer names.
LEMMA ShapeRemove ==
  ASSUME ShapeInv, Remove
  PROVE  ShapeInv' /\ leaving' \in Removable
<1>1. /\ Applied /\ leaving = {} /\ leaving' \in Removable
      /\ UNCHANGED <<file, disk, writes, watching, certWatched, timer, queued>>
      /\ UNCHANGED <<pc, cfg, next, seen, skipped, read, active, fresh, before, failed>>
  BY DEF Remove, writer, watchers, report
<1>2. QueueOK' /\ FilesOK'
  BY <1>1 DEF ShapeInv, QueueOK, FilesOK
<1>3. ActiveOK' /\ DoneOK'
  BY <1>1 DEF ShapeInv, ActiveOK, DoneOK
<1>4. RunOK'
  BY <1>1 DEF ShapeInv, RunOK, PortSets
<1>5. FreshOK'
  BY <1>1 DEF ShapeInv, FreshOK, Entry
<1>6. LeavingOK'
  <2>1. Applied' /\ SkippedPorts' = SkippedPorts
    BY <1>1 DEF Applied, SkippedPorts
  <2>2. leaving' \in DOMAIN active /\ leaving' \notin seen /\ leaving' \cap SkippedPorts = {}
    BY <1>1 DEF Removable, ReplacementSkipped
  <2> QED BY <1>1, <2>1, <2>2 DEF LeavingOK
<1> QED BY <1>1, <1>2, <1>3, <1>4, <1>5, <1>6 DEF ShapeInv

LEMMA ShapeRemoved ==
  ASSUME ShapeInv, Removed
  PROVE  ShapeInv'
<1>1. /\ leaving # {} /\ leaving' = {}
      /\ active' = [k \in DOMAIN active \ {leaving} |-> active[k]]
      /\ UNCHANGED <<file, disk, writes, watching, certWatched, timer, queued>>
      /\ UNCHANGED <<pc, cfg, next, seen, skipped, read, fresh, before, failed>>
  BY DEF Removed, writer, watchers, report
<1>2. /\ DOMAIN active' = DOMAIN active \ {leaving}
      /\ \A k \in DOMAIN active' : active'[k] = active[k]
      /\ active' = [k \in DOMAIN active' |-> active'[k]]
  BY <1>1
<1>3. leaving \notin seen
  BY <1>1 DEF ShapeInv, LeavingOK
<1>4. QueueOK' /\ FilesOK'
  BY <1>1 DEF ShapeInv, QueueOK, FilesOK
<1>5. ActiveOK'
  BY <1>2 DEF ShapeInv, ActiveOK
<1>6. RunOK'
  BY <1>1 DEF ShapeInv, RunOK, PortSets
<1>7. FreshOK'
  BY <1>1 DEF ShapeInv, FreshOK, Entry
<1>8. LeavingOK'
  BY <1>1 DEF LeavingOK
<1>9. DoneOK'
  BY <1>1, <1>2, <1>3 DEF ShapeInv, DoneOK
<1> QED BY <1>4, <1>5, <1>6, <1>7, <1>8, <1>9 DEF ShapeInv

\* It is preserved by the end of a reconcile.
LEMMA ShapeFinish ==
  ASSUME ShapeInv, Finish
  PROVE  ShapeInv'
<1>1. /\ Applied /\ leaving = {} /\ pc' = "idle" /\ certWatched' = CertsOf(cfg)
      /\ UNCHANGED <<file, disk, writes, watching, timer, queued>>
      /\ UNCHANGED <<cfg, next, seen, skipped, read, fresh, leaving, before, active>>
  BY DEF Finish, writer, run
<1>2. cfg \in Configs /\ next \in 1 .. Len(cfg.proxies) + 1 /\ next > Len(cfg.proxies)
  BY <1>1 DEF ShapeInv, RunOK, Applied
<1>3. Len(cfg.proxies) \in Nat
  BY <1>2, Proxies
<1>4. next = Len(cfg.proxies) + 1
  BY <1>2, <1>3
<1>5. QueueOK'
  BY <1>1 DEF ShapeInv, QueueOK
<1>6. FilesOK'
  BY <1>1, <1>2, CertsOfType DEF ShapeInv, FilesOK
<1>7. ActiveOK' /\ DoneOK'
  BY <1>1 DEF ShapeInv, ActiveOK, DoneOK
<1>8. RunOK'
  BY <1>1, <1>2, <1>4 DEF ShapeInv, RunOK, PortSets
<1>9. FreshOK' /\ LeavingOK'
  BY <1>1 DEF FreshOK, LeavingOK
<1> QED BY <1>5, <1>6, <1>7, <1>8, <1>9 DEF ShapeInv

\* It is preserved when nothing moves.
LEMMA ShapeStutter ==
  ASSUME ShapeInv, UNCHANGED vars
  PROVE  ShapeInv' /\ RunUnchanged
<1>1. UNCHANGED <<file, disk, writes, watching, certWatched, timer, queued>> /\ RunUnchanged
  BY DEF vars, RunUnchanged, run
<1>2. QueueOK' /\ FilesOK'
  BY <1>1 DEF ShapeInv, QueueOK, FilesOK
<1> QED BY <1>1, <1>2, RunKept DEF ShapeInv

\* Every step preserves the shape.
LEMMA ShapeNext ==
  ASSUME ShapeInv, [Next]_vars
  PROVE  ShapeInv'
<1>1. CASE SkipEntry \/ HotSwap \/ Construct \/ Start \/ Retire
  BY <1>1, LoopSteps, ShapeSkip, ShapeHotSwap, ShapeConstruct, ShapeRetire
<1>2. CASE Begin \/ Remove \/ Removed \/ Finish
  BY <1>2, ShapeBegin, ShapeRemove, ShapeRemoved, ShapeFinish
<1>3. CASE WriteConfig \/ WriteCert \/ Sighup \/ TimerFires \/ Watch
  BY <1>3, ShapeOutside
<1>4. CASE UNCHANGED vars
  BY <1>4, ShapeStutter
<1> QED BY <1>1, <1>2, <1>3, <1>4 DEF Next, Work

\* The shape holds initially.
LEMMA ShapeInit == Init => ShapeInv
<1> SUFFICES ASSUME Init PROVE ShapeInv
  OBVIOUS
<1>1. ActiveOK
  BY DEF Init, ActiveOK
<1>2. QueueOK
  <2>1. ~timer /\ timer \in BOOLEAN /\ watching \in BOOLEAN
    BY Zenon DEF Init
  <2>2. writes = 0 /\ queued = 1 /\ MaxWrites \in Nat
    BY ReconcileConstants DEF Init
  <2> QED BY <2>1, <2>2 DEF QueueOK
<1>3. FilesOK
  BY ReconcileConstants DEF Init, FilesOK
<1>4. RunOK
  <2>1. Len(Idle.proxies) = 0
    BY DEF Idle
  <2> QED BY <2>1 DEF Init, RunOK
<1>5. FreshOK /\ LeavingOK /\ DoneOK
  BY DEF Init, FreshOK, LeavingOK, DoneOK
<1> QED BY <1>1, <1>2, <1>3, <1>4, <1>5 DEF ShapeInv

----------------------------------------------------------------------------
(* Ports stay served                                                       *)

\* In the loop over the entries nothing leaves.
LEMMA LoopGap ==
  ASSUME ShapeInv, GapOK, LoopStep, DOMAIN active \subseteq DOMAIN active'
  PROVE  GapOK'
<1>1. leaving' = leaving /\ before' = before /\ pc # "idle" /\ next <= Len(cfg.proxies)
  BY DEF LoopStep
<1>2. next \in Nat /\ Len(cfg.proxies) \in Nat
  BY EntryAtHand
<1>3. ~ Applied
  BY <1>1, <1>2 DEF Applied
<1>4. \A p \in before : \E k \in DOMAIN active : p \in k /\ k # leaving
  BY <1>1, <1>3 DEF GapOK
<1> QED BY <1>1, <1>4 DEF GapOK

\* Every step keeps served what was served and is still named.
LEMMA GapNext ==
  ASSUME ShapeInv, GapOK, [Next]_vars
  PROVE  GapOK'
<1>1. CASE SkipEntry \/ HotSwap \/ Construct \/ Start \/ Retire
  <2>1. LoopStep
    BY <1>1, LoopSteps DEF SkipStep, HotSwapStep, ConstructStep, StartStep, RetireStep
  <2>2. DOMAIN active \subseteq DOMAIN active'
    <3>1. CASE SkipStep \/ ConstructStep \/ StartStep
      BY <3>1 DEF SkipStep, ConstructStep, StartStep
    <3>2. CASE HotSwapStep
      BY <3>2, HotSwapActive
    <3>3. CASE RetireStep
      BY <3>3, RetireActive
    <3> QED BY <1>1, <3>1, <3>2, <3>3, LoopSteps
  <2> QED BY <2>1, <2>2, LoopGap
<1>2. CASE Begin
  <2>1. CASE file = Unreadable
    <3>1. UNCHANGED pc /\ pc = "idle"
      BY <1>2, <2>1 DEF Begin
    <3> QED BY <3>1 DEF GapOK
  <2>2. CASE file # Unreadable
    <3>1. before' = Served /\ leaving' = {} /\ active' = active /\ pc = "idle"
      BY <1>2, <2>2 DEF Begin
    <3>2. \A p \in Served : \E k \in DOMAIN active : p \in k
      BY <3>1 DEF Served
    <3> QED BY <3>1, <3>2 DEF GapOK
  <2> QED BY <2>1, <2>2
<1>3. CASE Remove
  <2>1. /\ Applied /\ leaving = {} /\ leaving' \in Removable
        /\ UNCHANGED <<pc, cfg, next, skipped, active, before>>
    BY <1>3 DEF Remove
  <2>2. Applied' /\ SkippedPorts' = SkippedPorts
    BY <2>1 DEF Applied, SkippedPorts
  <2>3. leaving' \cap SkippedPorts = {}
    BY <2>1 DEF Removable, ReplacementSkipped
  <2> QED BY <2>1, <2>2, <2>3 DEF GapOK
<1>4. CASE Removed
  <2>1. /\ leaving' = {} /\ active' = [k \in DOMAIN active \ {leaving} |-> active[k]]
        /\ UNCHANGED <<pc, cfg, next, skipped, before>>
    BY <1>4 DEF Removed
  <2>2. DOMAIN active' = DOMAIN active \ {leaving} /\ Applied' = Applied
        /\ SkippedPorts' = SkippedPorts
    BY <2>1 DEF Applied, SkippedPorts
  <2>3. \A k : \A p \in k : k # {}
    OBVIOUS
  <2> QED BY <2>1, <2>2, <2>3 DEF GapOK
<1>5. CASE Finish
  BY <1>5 DEF Finish, GapOK
<1>6. CASE RunUnchanged
  BY <1>6 DEF RunUnchanged, run, GapOK, Applied, SkippedPorts
<1> QED BY <1>1, <1>2, <1>3, <1>4, <1>5, <1>6, ShapeOutside, ShapeStutter DEF Next, Work

\* A reload never takes down a port that was served before it and that its
\* config names, not even where a certificate cannot be read, a listener does
\* not start or two proxies are merged: for any config files, certificates and
\* writes (server.ts doReconcile).
THEOREM NoBindGapAlways == Spec => []NoBindGap
<1>1. Init => ShapeInv /\ GapOK
  BY ShapeInit DEF Init, GapOK
<1>2. ShapeInv /\ GapOK /\ [Next]_vars => (ShapeInv /\ GapOK)'
  BY ShapeNext, GapNext
<1>3. ShapeInv /\ GapOK => NoBindGap
  <2> SUFFICES ASSUME ShapeInv, GapOK, pc # "idle", NEW p \in before, p \in NamedPorts(cfg)
               PROVE  p \in Served
    BY DEF NoBindGap
  <2>1. CASE \E k \in DOMAIN active : p \in k /\ k # leaving
    BY <2>1 DEF Served
  <2>2. CASE Applied /\ p \notin SkippedPorts
    <3>1. PICK i \in DOMAIN cfg.proxies : p \in cfg.proxies[i].ports
      BY DEF NamedPorts
    <3>2. /\ DOMAIN cfg.proxies = 1 .. Len(cfg.proxies) /\ Len(cfg.proxies) \in Nat
          /\ next \in 1 .. Len(cfg.proxies) + 1 /\ next > Len(cfg.proxies)
      BY <2>2, Proxies DEF ShapeInv, RunOK, Applied
    <3>3. i \in 1 .. next - 1
      BY <3>2
    <3>4. i \notin skipped
      BY <2>2, <3>1 DEF SkippedPorts
    <3>5. cfg.proxies[i].ports \in seen /\ cfg.proxies[i].ports \in DOMAIN active
      BY <3>3, <3>4 DEF ShapeInv, DoneOK
    <3>6. cfg.proxies[i].ports # leaving
      BY <3>1, <3>5 DEF ShapeInv, LeavingOK
    <3> QED BY <3>1, <3>5, <3>6 DEF Served
  <2> QED BY <2>1, <2>2 DEF GapOK
<1> QED BY <1>1, <1>2, <1>3, PTL DEF Spec

----------------------------------------------------------------------------
(* What is reported has been applied                                       *)

\* Every step keeps the report true to what was applied.
LEMMA ReportNext ==
  ASSUME ShapeInv, ReportOK, [Next]_vars
  PROVE  ReportOK'
<1>1. CASE SkipEntry \/ HotSwap \/ Construct \/ Start \/ Retire
  <2>1. pc' # "idle"
    BY <1>1, LoopSteps DEF SkipStep, HotSwapStep, ConstructStep, StartStep, RetireStep
  <2> QED BY <2>1 DEF ReportOK
<1>2. CASE Begin
  <2>1. CASE file = Unreadable
    BY <1>2, <2>1 DEF Begin, run, ReportOK, SkippedPorts
  <2>2. CASE file # Unreadable
    BY <1>2, <2>2 DEF Begin, ReportOK
  <2> QED BY <2>1, <2>2
<1>3. CASE Remove \/ Removed
  <2>1. pc' = "apply"
    BY <1>3 DEF Remove, Removed, Applied, ShapeInv, LeavingOK
  <2> QED BY <2>1 DEF ReportOK
<1>4. CASE Finish
  <2>1. UNCHANGED <<cfg, skipped, active, seen>> /\ Removable = {}
    BY <1>4 DEF Finish, run
  <2>2. SkippedPorts' = SkippedPorts
    BY <2>1 DEF SkippedPorts
  <2>3. skipped = {} => DOMAIN active \subseteq seen
    BY <2>1 DEF Removable, ReplacementSkipped, SkippedUnnamed, SkippedPorts
  <2> QED BY <1>4, <2>1, <2>2, <2>3 DEF Finish, ReportOK
<1>5. CASE RunUnchanged
  BY <1>5 DEF RunUnchanged, run, ReportOK, SkippedPorts
<1> QED BY <1>1, <1>2, <1>3, <1>4, <1>5, ShapeOutside, ShapeStutter DEF Next, Work

\* A step that leaves alone the proxies of the entries met before, and what was read
\* for them.
LEMMA MatchKept ==
  ASSUME MatchOK, UNCHANGED <<cfg, next, skipped>>,
         \A i \in 1 .. next - 1 : read'[i] = read[i],
         \A i \in 1 .. next - 1 : i \notin skipped /\ Runs(i) =>
           /\ cfg.proxies[i].ports \in DOMAIN active'
           /\ active'[cfg.proxies[i].ports] = active[cfg.proxies[i].ports]
  PROVE  MatchOK'
<1> SUFFICES ASSUME NEW i \in 1 .. next - 1, i \notin skipped
             PROVE  Runs(i)' \/ Followed(i)'
  BY DEF MatchOK
<1>1. CASE Runs(i)
  BY <1>1 DEF Runs
<1>2. CASE Followed(i)
  BY <1>2 DEF Followed
<1> QED BY <1>1, <1>2 DEF MatchOK

\* The entry at hand is applied; those before it of the same ports give way to it.
LEMMA MatchApplied ==
  ASSUME ShapeInv, MatchOK, LoopStep, cfg' = cfg, skipped' = skipped, next' = next + 1,
         Entry.ports \in DOMAIN active',
         active'[Entry.ports].routes = Entry.routes,
         active'[Entry.ports].sig = <<Entry.build, read'[next]>>,
         \A i \in 1 .. next - 1 : read'[i] = read[i],
         \A k \in DOMAIN active : k # Entry.ports => k \in DOMAIN active' /\ active'[k] = active[k]
  PROVE  MatchOK'
<1> SUFFICES ASSUME NEW i \in 1 .. next' - 1, i \notin skipped
             PROVE  Runs(i)' \/ Followed(i)'
  BY DEF MatchOK
<1>1. next \in Nat /\ next \in 1 .. next' - 1 /\ next \notin skipped
  BY EntryAtHand DEF ShapeInv, RunOK
<1>2. CASE i = next
  BY <1>2 DEF Entry, Runs
<1>3. CASE i # next /\ cfg.proxies[i].ports = Entry.ports
  <2>1. next > i
    BY <1>1, <1>3
  <2> QED BY <1>1, <1>3, <2>1 DEF Entry, Followed
<1>4. CASE i # next /\ cfg.proxies[i].ports # Entry.ports
  <2>1. i \in 1 .. next - 1
    BY <1>1, <1>4
  <2>2. CASE Runs(i)
    BY <1>4, <2>1, <2>2 DEF Runs
  <2>3. CASE Followed(i)
    <3>1. PICK j \in 1 .. next - 1 :
            j \notin skipped /\ j > i /\ cfg.proxies[j].ports = cfg.proxies[i].ports
      BY <2>3 DEF Followed
    <3>2. j \in 1 .. next' - 1
      BY <1>1
    <3> QED BY <3>1, <3>2 DEF Followed
  <2> QED BY <2>1, <2>2, <2>3 DEF MatchOK
<1> QED BY <1>2, <1>3, <1>4

\* Every step keeps the entries behind the cursor in place.
LEMMA MatchNext ==
  ASSUME ShapeInv, MatchOK, [Next]_vars
  PROVE  MatchOK'
<1>1. CASE SkipStep
  <2>1. /\ LoopStep /\ cfg' = cfg /\ next' = next + 1 /\ active' = active
        /\ skipped' = skipped \cup {next}
    BY <1>1 DEF SkipStep, LoopStep, Skip
  <2>2. next \in Nat /\ \A i \in 1 .. next - 1 : read'[i] = read[i]
    BY <1>1, <2>1, EntryAtHand, ResolveRead DEF SkipStep
  <2> SUFFICES ASSUME NEW i \in 1 .. next' - 1, i \notin skipped'
               PROVE  Runs(i)' \/ Followed(i)'
    BY DEF MatchOK
  <2>3. i \in 1 .. next - 1 /\ i \notin skipped
    BY <2>1, <2>2
  <2>4. CASE Runs(i)
    BY <2>1, <2>2, <2>3, <2>4 DEF Runs
  <2>5. CASE Followed(i)
    <3>1. PICK j \in 1 .. next - 1 :
            j \notin skipped /\ j > i /\ cfg.proxies[j].ports = cfg.proxies[i].ports
      BY <2>5 DEF Followed
    <3>2. j \in 1 .. next' - 1 /\ j # next
      BY <2>1, <2>2
    <3> QED BY <2>1, <3>1, <3>2 DEF Followed
  <2> QED BY <2>3, <2>4, <2>5 DEF MatchOK
<1>2. CASE HotSwapStep
  <2>1. LoopStep /\ cfg' = cfg /\ next' = next + 1 /\ skipped' = skipped /\ Resolve
    BY <1>2 DEF HotSwapStep, LoopStep
  <2>2. /\ active'[Entry.ports].routes = Entry.routes
        /\ active'[Entry.ports].sig = active[Entry.ports].sig
        /\ Entry.ports \in DOMAIN active'
        /\ \A k \in DOMAIN active : k # Entry.ports => k \in DOMAIN active' /\ active'[k] = active[k]
    BY <1>2, HotSwapActive
  <2>3. active[Entry.ports].sig = <<Entry.build, read'[next]>>
    BY <1>2, <2>1, ResolveRead DEF HotSwapStep, HotSwaps, Signature
  <2>4. \A i \in 1 .. next - 1 : read'[i] = read[i]
    BY <2>1, ResolveRead
  <2> QED BY <2>1, <2>2, <2>3, <2>4, MatchApplied
<1>3. CASE RetireStep
  <2>1. LoopStep /\ cfg' = cfg /\ next' = next + 1 /\ skipped' = skipped /\ read' = read
    BY <1>3 DEF RetireStep, LoopStep
  <2>2. /\ active'[Entry.ports].routes = Entry.routes
        /\ active'[Entry.ports].sig = <<Entry.build, read[next]>>
        /\ Entry.ports \in DOMAIN active'
        /\ \A k \in DOMAIN active : k # Entry.ports => k \in DOMAIN active' /\ active'[k] = active[k]
    BY <1>3, RetireActive
  <2> QED BY <2>1, <2>2, MatchApplied
<1>4. CASE ConstructStep \/ StartStep
  <2>1. LoopStep /\ (Resolve \/ UNCHANGED read) /\ UNCHANGED <<cfg, next, skipped, active>>
    BY <1>4 DEF ConstructStep, StartStep, LoopStep
  <2>2. \A i \in 1 .. next - 1 : read'[i] = read[i]
    BY <2>1, ResolveRead
  <2> QED BY <2>1, <2>2, MatchKept DEF Runs
<1>5. CASE Begin
  <2>1. CASE file = Unreadable
    BY <1>5, <2>1 DEF Begin, run, MatchOK, Runs, Followed
  <2>2. CASE file # Unreadable
    BY <1>5, <2>2 DEF Begin, MatchOK
  <2> QED BY <2>1, <2>2
<1>6. CASE Remove
  BY <1>6 DEF Remove, MatchOK, Runs, Followed
<1>7. CASE Removed
  <2>1. /\ active' = [k \in DOMAIN active \ {leaving} |-> active[k]] /\ leaving # {}
        /\ UNCHANGED <<cfg, next, skipped, read>>
    BY <1>7 DEF Removed
  <2>2. leaving \notin seen
    BY <2>1 DEF ShapeInv, LeavingOK
  <2>3. \A i \in 1 .. next - 1 : i \notin skipped =>
          /\ cfg.proxies[i].ports \in DOMAIN active'
          /\ active'[cfg.proxies[i].ports] = active[cfg.proxies[i].ports]
    BY <2>1, <2>2 DEF ShapeInv, DoneOK
  <2> QED BY <2>1, <2>3, MatchKept
<1>8. CASE Finish
  BY <1>8 DEF Finish, run, MatchOK, Runs, Followed
<1>9. CASE RunUnchanged
  BY <1>9 DEF RunUnchanged, run, MatchOK, Runs, Followed
<1> QED BY <1>1, <1>2, <1>3, <1>4, <1>5, <1>6, <1>7, <1>8, <1>9, LoopSteps, ShapeOutside,
           ShapeStutter DEF Next, Work

\* The shape gives the types.
LEMMA ShapeTypes == ShapeInv => TypeOK
<1> SUFFICES ASSUME ShapeInv PROVE TypeOK
  OBVIOUS
<1>1. writes \in 0 .. MaxWrites /\ MaxWrites \in Nat /\ queued \in Nat
      /\ queued + (IF timer THEN 1 ELSE 0) <= writes + 1
  BY ReconcileConstants DEF ShapeInv, QueueOK
<1>2. queued \in 0 .. MaxWrites + 1
  BY <1>1
<1>3. watching \in BOOLEAN /\ timer \in BOOLEAN
  BY DEF ShapeInv, QueueOK
<1>4. skipped \subseteq DOMAIN cfg.proxies
  <2>1. /\ Len(cfg.proxies) \in Nat /\ DOMAIN cfg.proxies = 1 .. Len(cfg.proxies)
        /\ next \in 1 .. Len(cfg.proxies) + 1 /\ skipped \subseteq 1 .. next - 1
    BY Proxies DEF ShapeInv, RunOK
  <2> QED BY <2>1
<1> QED BY <1>1, <1>2, <1>3, <1>4 DEF ShapeInv, FilesOK, RunOK, ActiveOK, LeavingOK, TypeOK

\* When a reload has finished, every entry it did not skip runs with the routes, the
\* construction and the certificates read for it, or a later entry of the same ports
\* does, and the report says exactly that: for any config files, also those that name
\* one port-set twice, and whatever certificates change between two reads of one
\* reload (server.ts doReconcile).
THEOREM ReportedAsAppliedAlways == Spec => []ReportedAsApplied
<1> DEFINE Inv == ShapeInv /\ MatchOK /\ ReportOK
<1>1. Init => Inv
  BY ShapeInit DEF Init, MatchOK, ReportOK
<1>2. Inv /\ [Next]_vars => Inv'
  BY ShapeNext, MatchNext, ReportNext
<1>3. Inv => ReportedAsApplied
  <2> SUFFICES ASSUME Inv PROVE ReportedAsApplied
    OBVIOUS
  <2>1. TypeOK
    BY ShapeTypes
  <2>2. ASSUME pc = "idle", cfg # Idle, NEW i \in DOMAIN cfg.proxies, i \notin skipped
        PROVE  /\ cfg.proxies[i].ports \in DOMAIN active
               /\ Runs(i) \/ Overruled(i)
    <3>1. /\ cfg \in Configs /\ next = Len(cfg.proxies) + 1
      BY <2>2 DEF ShapeInv, RunOK
    <3>2. DOMAIN cfg.proxies = 1 .. Len(cfg.proxies) /\ Len(cfg.proxies) \in Nat
      BY <3>1, Proxies
    <3>3. 1 .. next - 1 = DOMAIN cfg.proxies
      BY <3>1, <3>2
    <3>4. cfg.proxies[i].ports \in DOMAIN active
      BY <2>2, <3>3 DEF ShapeInv, DoneOK
    <3>5. Followed(i) => Overruled(i)
      BY <3>3 DEF Followed, Overruled
    <3> QED BY <2>2, <3>3, <3>4, <3>5 DEF MatchOK
  <2>3. ASSUME pc = "idle", cfg # Idle, skipped = {}, DOMAIN active \subseteq seen
        PROVE  DOMAIN active = {cfg.proxies[i].ports : i \in DOMAIN cfg.proxies}
    <3>1. seen \subseteq {cfg.proxies[i].ports : i \in DOMAIN cfg.proxies}
      BY DEF ShapeInv, RunOK, PortSets
    <3> QED BY <2>2, <2>3, <3>1
  <2>4. ASSUME failed.ports = SkippedPorts, NEW i \in DOMAIN cfg.proxies,
               ~ (cfg.proxies[i].ports \subseteq failed.ports)
        PROVE  i \notin skipped
    BY <2>4 DEF SkippedPorts
  <2> QED BY <2>1, <2>2, <2>3, <2>4 DEF ReportedAsApplied, ReportOK
<1> QED BY <1>1, <1>2, <1>3, PTL DEF Spec

----------------------------------------------------------------------------
(* Handover: the inductive invariant                                       *)
(*                                                                         *)
(* A process decides from status.json, so the invariant that carries the   *)
(* proof relates the file to the process it names: as long as that one     *)
(* runs, it has bound what the file lists, and it had when it was told to  *)
(* stop.                                                                   *)

\* writeStatus runs only in a running process.
BusyRuns == \A p \in Pids : step[p] # "rest" => life[p] = "running"

\* Once written, the file names a process that was launched and is not standing down,
\* and understates what it has bound, or had when it was told to stop; the supervisor
\* follows only the file.
StatusBacked ==
  /\ status.pid # Nobody =>
       /\ life[status.pid] \notin {"new", "superseded"}
       /\ life[status.pid] = "running" => status.listeners \subseteq bound[status.pid]
       /\ life[status.pid] = "terminated" => status.listeners \subseteq hadBound[status.pid]
  /\ status.pid = Nobody => named = Nobody

HandoverInv == HandoverTypeOK /\ BusyRuns /\ StatusBacked /\ SupersededByLater

----------------------------------------------------------------------------

\* The invariant holds when no process has been launched.
LEMMA HandoverInitInv == HandoverInit => HandoverInv
  BY HandoverConstants
  DEF HandoverInit, HandoverInv, HandoverTypeOK, BusyRuns, StatusBacked, SupersededByLater, Pids, Nobody,
      NoStatus, Alive, Stopping

\* Every step keeps the shape of the state.
LEMMA HandoverStepTypeOK ==
  ASSUME HandoverTypeOK, [HandoverNext]_handoverVars
  PROVE  HandoverTypeOK'
<1> USE HandoverConstants DEF HandoverTypeOK, Pids, Nobody
<1>0. 0 \in 0 .. Grace
  BY HandoverConstants DEF HandoverConstants
<1>1. ASSUME NEW p \in Pids, Launch(p) PROVE HandoverTypeOK'
  BY <1>1, SMTT(30) DEF Launch
<1>2. ASSUME NEW p \in Pids, Reload(p) PROVE HandoverTypeOK'
  BY <1>2 DEF Reload
<1>3. ASSUME NEW p \in Pids, Crash(p) PROVE HandoverTypeOK'
  BY <1>3, SMTT(30) DEF Crash
<1>4. ASSUME NEW p \in Pids, Exit(p) PROVE HandoverTypeOK'
  BY <1>4 DEF Exit
<1>5. ASSUME NEW p \in Pids, Poll(p) PROVE HandoverTypeOK'
  <2>1. held' \in [Pids -> 0 .. Grace]
    <3>1. CASE held' = [held EXCEPT ![p] = 0]
      BY <1>0, <3>1
    <3>2. CASE held' = held
      BY <3>2
    <3> QED
      BY <1>5, <3>1, <3>2 DEF Poll
  <2>2. supersededBy' \in [Pids -> Pids \cup {Nobody}]
    BY <1>5 DEF Poll
  <2>3. step' \in [Pids -> {"rest", "check", "rename"}]
    BY <1>5 DEF Poll
  <2> QED
    BY <1>5, <2>1, <2>2, <2>3 DEF Poll
<1>6. ASSUME NEW p \in Pids, Yield(p) PROVE HandoverTypeOK'
  <2>1. held' \in [Pids -> 0 .. Grace]
    <3>1. CASE held' = [held EXCEPT ![p] = 0]
      BY <1>0, <3>1
    <3>2. CASE held' = held
      BY <3>2
    <3> QED
      BY <1>6, <3>1, <3>2 DEF Yield
  <2>2. supersededBy' \in [Pids -> Pids \cup {Nobody}]
    BY <1>6 DEF Yield, MayStandDown, StartedLater
  <2>3. life' \in [Pids -> {"new", "running", "terminated", "superseded", "gone"}]
    BY <1>6 DEF Yield
  <2>4. step' \in [Pids -> {"rest", "check", "rename"}]
    BY <1>6 DEF Yield
  <2> QED
    BY <1>6, <2>1, <2>2, <2>3, <2>4 DEF Yield
<1>7. ASSUME NEW p \in Pids, Claim(p) PROVE HandoverTypeOK'
  BY <1>7 DEF Claim
<1>8. ASSUME NEW p \in Pids, Rename(p) PROVE HandoverTypeOK'
  <2>1. status' \in [pid : Pids \cup {Nobody}, startedAt : 0 .. NP, listeners : SUBSET Listeners]
    BY <1>8 DEF Rename, Published
  <2>2. writeFailed' \in [Pids -> BOOLEAN]
    BY <1>8 DEF Rename
  <2>3. faults' \in 0 .. MaxFaults
    BY <1>8 DEF Rename
  <2>4. step' \in [Pids -> {"rest", "check", "rename"}]
    BY <1>8 DEF Rename
  <2> QED
    BY <1>8, <2>1, <2>2, <2>3, <2>4 DEF Rename
<1>9. CASE Supervise
  <2>1. CASE life' = life
    BY <1>9, <2>1 DEF Supervise, BeginStop
  <2>2. CASE named # Nobody /\ BeginStop(named)
    <3>1. named \in Pids /\ bound[named] \in SUBSET Listeners
      BY <2>2
    <3> QED BY <1>9, <2>2, <3>1 DEF Supervise, BeginStop
  <2> QED BY <1>9, <2>1, <2>2 DEF Supervise
<1>10. CASE Tick
  <2>0. \A h \in 0 .. Grace : h < Grace => h + 1 \in 0 .. Grace
    OBVIOUS
  <2>1. held' \in [Pids -> 0 .. Grace]
    <3> DEFINE waits(p) == supersededBy[p] # Nobody /\ held[p] < Grace
    <3>1. held' = [p \in Pids |-> IF waits(p) THEN held[p] + 1 ELSE held[p]]
      BY <1>10 DEF Tick
    <3>2. ASSUME NEW p \in Pids
          PROVE  (IF waits(p) THEN held[p] + 1 ELSE held[p]) \in 0 .. Grace
      <4>1. held[p] \in 0 .. Grace
        OBVIOUS
      <4> QED BY <2>0, <4>1
    <3> HIDE DEF waits
    <3> QED BY <3>1, <3>2
  <2> QED
    BY <1>10, <2>1 DEF Tick
<1>11. CASE UNCHANGED handoverVars
  BY <1>11 DEF handoverVars
<1>12. ASSUME NEW p \in Pids, Terminate(p) PROVE HandoverTypeOK'
  <2>1. hadBound' \in [Pids -> SUBSET Listeners]
    BY <1>12 DEF Terminate, BeginStop
  <2>2. life' \in [Pids -> {"new", "running", "terminated", "superseded", "gone"}]
    BY <1>12 DEF Terminate, BeginStop
  <2>3. step' \in [Pids -> {"rest", "check", "rename"}] /\ faults' \in 0 .. MaxFaults
    BY <1>12 DEF Terminate, BeginStop
  <2> QED BY <1>12, <2>1, <2>2, <2>3 DEF Terminate
<1>13. ASSUME NEW p \in Pids, Close(p) PROVE HandoverTypeOK'
  <2>1. PICK l \in bound[p] : bound' = [bound EXCEPT ![p] = bound[p] \ {l}]
    BY <1>13 DEF Close
  <2>2. bound[p] \ {l} \in SUBSET Listeners
    OBVIOUS
  <2>3. bound' \in [Pids -> SUBSET Listeners]
    BY <2>1, <2>2
  <2> QED BY <1>13, <2>3 DEF Close
<1> QED
  BY <1>1, <1>2, <1>3, <1>4, <1>5, <1>6, <1>7, <1>8, <1>9, <1>10, <1>11, <1>12, <1>13
  DEF HandoverNext

\* Every step keeps the three facts that relate the processes and the file.
LEMMA HandoverStepInv ==
  ASSUME HandoverInv, [HandoverNext]_handoverVars
  PROVE  HandoverInv'
<1> USE HandoverConstants DEF Nobody
<1>0. HandoverTypeOK'
  BY HandoverStepTypeOK DEF HandoverInv
<1>1. ASSUME NEW p \in Pids, Launch(p) PROVE (BusyRuns /\ StatusBacked /\ SupersededByLater)'
  <2>1. p # status.pid
    BY <1>1 DEF HandoverInv, StatusBacked, Launch, Pids
  <2> QED
    BY <1>1, <2>1 DEF Launch, HandoverInv, HandoverTypeOK, BusyRuns, StatusBacked, SupersededByLater, Alive, Stopping
<1>2. ASSUME NEW p \in Pids, Reload(p) PROVE (BusyRuns /\ StatusBacked /\ SupersededByLater)'
  BY <1>2 DEF Reload, HandoverInv, HandoverTypeOK, BusyRuns, StatusBacked, SupersededByLater, Alive, Stopping
<1>3. ASSUME NEW p \in Pids, Crash(p) PROVE (BusyRuns /\ StatusBacked /\ SupersededByLater)'
  BY <1>3 DEF Crash, HandoverInv, HandoverTypeOK, BusyRuns, StatusBacked, SupersededByLater, Alive, Stopping
<1>4. ASSUME NEW p \in Pids, Exit(p) PROVE (BusyRuns /\ StatusBacked /\ SupersededByLater)'
  BY <1>4 DEF Exit, HandoverInv, HandoverTypeOK, BusyRuns, StatusBacked, SupersededByLater, Alive, Stopping
<1>5. ASSUME NEW p \in Pids, Poll(p) PROVE (BusyRuns /\ StatusBacked /\ SupersededByLater)'
  BY <1>5 DEF Poll, HandoverInv, HandoverTypeOK, BusyRuns, StatusBacked, SupersededByLater, Alive, Stopping
<1>6. ASSUME NEW p \in Pids, Yield(p) PROVE (BusyRuns /\ StatusBacked /\ SupersededByLater)'
  <2>1. BusyRuns' /\ StatusBacked'
    BY <1>6 DEF Yield, NewerOwner, OtherOwner, HandoverInv, HandoverTypeOK, BusyRuns, StatusBacked
  <2>2. SupersededByLater'
    BY <1>6 DEF Yield, MayStandDown, StartedLater, HandoverInv, HandoverTypeOK, SupersededByLater
  <2> QED
    BY <2>1, <2>2
<1>7. ASSUME NEW p \in Pids, Claim(p) PROVE (BusyRuns /\ StatusBacked /\ SupersededByLater)'
  BY <1>7 DEF Claim, HandoverInv, HandoverTypeOK, BusyRuns, StatusBacked, SupersededByLater, Alive, Stopping
<1>8. ASSUME NEW p \in Pids, Rename(p) PROVE (BusyRuns /\ StatusBacked /\ SupersededByLater)'
  <2>1. BusyRuns' /\ SupersededByLater'
    BY <1>8 DEF Rename, HandoverInv, HandoverTypeOK, BusyRuns, SupersededByLater
  <2>2. StatusBacked'
    <3>1. life[p] = "running"
      BY <1>8 DEF Rename, HandoverInv, BusyRuns
    <3>2. CASE status' = Published(p)
      BY <1>8, <3>1, <3>2 DEF Rename, Published, HandoverInv, HandoverTypeOK, StatusBacked, Alive, Stopping, Pids
    <3>3. CASE UNCHANGED status
      BY <1>8, <3>3 DEF Rename, HandoverInv, HandoverTypeOK, StatusBacked, Alive, Stopping
    <3> QED
      BY <1>8, <3>2, <3>3 DEF Rename
  <2> QED
    BY <2>1, <2>2
<1>9. CASE Supervise
  <2>1. CASE UNCHANGED <<life, hadBound, step>>
    BY <1>9, <2>1 DEF Supervise, HandoverInv, HandoverTypeOK, BusyRuns, StatusBacked, SupersededByLater
  <2>2. CASE named # Nobody /\ life[named] = "running" /\ BeginStop(named)
    BY <1>9, <2>2 DEF Supervise, BeginStop, HandoverInv, HandoverTypeOK, BusyRuns, StatusBacked,
                      SupersededByLater
  <2> QED BY <1>9, <2>1, <2>2 DEF Supervise
<1>10. CASE Tick
  BY <1>10 DEF Tick, HandoverInv, HandoverTypeOK, BusyRuns, StatusBacked, SupersededByLater, Alive, Stopping
<1>11. CASE UNCHANGED handoverVars
  BY <1>11 DEF handoverVars, HandoverInv, HandoverTypeOK, BusyRuns, StatusBacked, SupersededByLater, Alive, Stopping
<1>12. ASSUME NEW p \in Pids, Terminate(p) PROVE (BusyRuns /\ StatusBacked /\ SupersededByLater)'
  BY <1>12 DEF Terminate, BeginStop, HandoverInv, HandoverTypeOK, BusyRuns, StatusBacked,
               SupersededByLater
<1>13. ASSUME NEW p \in Pids, Close(p) PROVE (BusyRuns /\ StatusBacked /\ SupersededByLater)'
  BY <1>13 DEF Close, Stopping, HandoverInv, HandoverTypeOK, BusyRuns, StatusBacked, SupersededByLater
<1> QED
  BY <1>0, <1>1, <1>2, <1>3, <1>4, <1>5, <1>6, <1>7, <1>8, <1>9, <1>10, <1>11, <1>12, <1>13
  DEF HandoverNext, HandoverInv

\* A step that stands a process down finds a later, living process that has bound
\* all of its listeners, or had when it was told to stop.
LEMMA StepStandDown ==
  ASSUME HandoverInv, NEW p \in Pids, Yield(p), life' # life
  PROVE  \E q \in Pids :
           /\ q > p
           /\ \/ life[q] = "running" /\ bound[p] \subseteq bound[q]
              \/ life[q] = "terminated" /\ bound[p] \subseteq hadBound[q]
<1> USE DEF Nobody
<1>1. MayStandDown(p) /\ NewerOwner(p)
  BY DEF Yield
<1>2. status.pid \in Pids /\ status.pid > p /\ Alive(status.pid)
  BY <1>1 DEF MayStandDown, NewerOwner, OtherOwner, StartedLater, Alive, HandoverInv, HandoverTypeOK
<1>3. life[status.pid] \in {"running", "terminated"}
  BY <1>2 DEF Alive, Stopping, HandoverInv, StatusBacked
<1>4. bound[p] \subseteq status.listeners
  BY <1>1 DEF MayStandDown, Covers
<1> QED
  BY <1>2, <1>3, <1>4 DEF HandoverInv, StatusBacked, Alive

----------------------------------------------------------------------------

\* The inductive invariant holds of every behaviour.
LEMMA HandoverInvariance == HandoverSpec => []HandoverInv
  BY HandoverInitInv, HandoverStepInv, PTL DEF HandoverSpec

\* The state of the handover is well formed for every number of processes.
THEOREM HandoverTypes == HandoverSpec => []HandoverTypeOK
<1>1. HandoverInv => HandoverTypeOK
  BY DEF HandoverInv
<1> QED
  BY <1>1, HandoverInvariance, PTL

\* No clock step makes a process wait to stand down for an earlier one, so no
\* two, and no ring of processes, stand down for each other (considerStandingDown).
THEOREM SupersededByLaterHolds == HandoverSpec => []SupersededByLater
<1>1. HandoverInv => SupersededByLater
  BY DEF HandoverInv
<1> QED
  BY <1>1, HandoverInvariance, PTL

\* Every step is one of ListenerCover, or leaves what that speaks of unchanged.
LEMMA StepCover ==
  ASSUME HandoverInv, HandoverInv', [HandoverNext]_handoverVars
  PROVE  [Cover!Next]_(Cover!vars)
<1> USE DEF HandoverInv, HandoverTypeOK
<1>1. ASSUME NEW p \in Pids, Launch(p) PROVE Cover!Launch(p)
  <2>1. /\ Launched' = Launched \cup {p} /\ Living' = Living \cup {p}
        /\ Running' = Running \cup {p} /\ Terminated' = Terminated
    BY <1>1 DEF Launch, Launched, Living, Running, Terminated, Alive, Stopping, Pids, Nobody
  <2>2. p \notin Launched /\ \A q \in Pids : q < p => q \in Launched
    BY <1>1 DEF Launch, Launched
  <2> QED
    BY <1>1, <2>1, <2>2 DEF Launch, Cover!Launch
<1>2. ASSUME UNCHANGED life PROVE UNCHANGED <<Launched, Living, Running, Terminated>>
  BY <1>2 DEF Launched, Living, Running, Terminated, Alive, Stopping
<1>3. ASSUME NEW p \in Pids, Reload(p) PROVE Cover!Grow(p)
  <2>1. p \in Running
    BY <1>3 DEF Reload, Running
  <2> QED BY <1>2, <1>3, <2>1 DEF Reload, Cover!Grow
<1>4. ASSUME NEW p \in Pids, Close(p) PROVE Cover!Shrink(p)
  <2>1. p \in Living \ Running
    BY <1>4 DEF Close, Stopping, Living, Running, Alive, Nobody, Pids
  <2>2. \E some \in SUBSET bound[p] : bound' = [bound EXCEPT ![p] = some]
    BY <1>4 DEF Close
  <2> QED BY <1>2, <1>4, <2>1, <2>2 DEF Close, Cover!Shrink
<1>5. ASSUME NEW p \in Pids, Crash(p) \/ Exit(p) PROVE Cover!Leave(p)
  <2>1. /\ Launched' = Launched /\ Living' = Living \ {p} /\ Running' = Running \ {p}
        /\ Terminated' = Terminated \ {p}
    BY <1>5 DEF Crash, Exit, Launched, Living, Running, Terminated, Alive, Stopping, Nobody
  <2>2. p \in Living
    BY <1>5 DEF Crash, Exit, Living, Alive, Stopping, Nobody, Pids
  <2>3. /\ bound' = [bound EXCEPT ![p] = {}] /\ hadBound' = [hadBound EXCEPT ![p] = {}]
        /\ named' = named
    BY <1>5 DEF Crash, Exit
  <2> QED
    BY <2>1, <2>2, <2>3 DEF Cover!Leave
<1>6. ASSUME NEW p \in Pids, life[p] = "running", BeginStop(p), UNCHANGED bound
      PROVE  p \in Running /\ Cover!Tell(p)
  <2>1. /\ Launched' = Launched /\ Living' = Living /\ Running' = Running \ {p}
        /\ Terminated' = Terminated \cup {p}
    BY <1>6 DEF BeginStop, Launched, Living, Running, Terminated, Alive, Stopping, Nobody
  <2> QED
    BY <1>6, <2>1 DEF BeginStop, Running, Cover!Tell
<1>7. ASSUME NEW p \in Pids, Terminate(p) PROVE Cover!Terminate(p)
  BY <1>6, <1>7 DEF Terminate, Cover!Terminate
<1>8. ASSUME UNCHANGED <<life, bound, hadBound, named>> PROVE UNCHANGED Cover!vars
  BY <1>2, <1>8 DEF Cover!vars
<1>9. ASSUME NEW p \in Pids, Yield(p) PROVE Cover!StandDown(p) \/ UNCHANGED Cover!vars
  <2>1. CASE life' = life
    BY <1>8, <1>9, <2>1 DEF Yield
  <2>2. CASE life' # life
    <3>1. life' = [life EXCEPT ![p] = "superseded"] /\ life[p] = "running"
      BY <1>9, <2>2 DEF Yield, BusyRuns
    <3>2. PICK q \in Pids :
            /\ q > p
            /\ \/ life[q] = "running" /\ bound[p] \subseteq bound[q]
               \/ life[q] = "terminated" /\ bound[p] \subseteq hadBound[q]
      BY <1>9, <2>2, StepStandDown
    <3>3. /\ Launched' = Launched /\ Living' = Living /\ Running' = Running \ {p}
          /\ Terminated' = Terminated
      BY <3>1 DEF Launched, Living, Running, Terminated, Alive, Stopping, Nobody
    <3>4. /\ p \in Running /\ q \in Living
          /\ \/ q \in Running /\ bound[p] \subseteq bound[q]
             \/ q \in Terminated /\ bound[p] \subseteq hadBound[q]
      BY <3>1, <3>2 DEF Running, Living, Terminated, Alive, Stopping, Nobody, Pids
    <3> QED
      BY <1>9, <3>2, <3>3, <3>4 DEF Yield, Cover!StandDown
  <2> QED
    BY <2>1, <2>2
<1>10. ASSUME Supervise PROVE Cover!Appoint(status.pid) /\ status.pid \in Pids
  <2>1. status.pid \in Pids
    BY <1>10 DEF Supervise, StatusBacked, Nobody, Pids
  <2>2. CASE named # Nobody /\ life[named] = "running"
    <3>1. named \in Running /\ Cover!Tell(named)
      BY <1>6, <1>10, <2>2 DEF Supervise
    <3> QED BY <1>10, <2>1, <3>1 DEF Supervise, Cover!Appoint
  <2>3. CASE ~ (named # Nobody /\ life[named] = "running")
    <3>1. named \notin Running
      BY <2>3 DEF Running, Pids, Nobody
    <3>2. UNCHANGED <<life, bound, hadBound>>
      BY <1>10, <2>3 DEF Supervise
    <3> QED BY <1>2, <1>10, <2>1, <3>1, <3>2 DEF Supervise, Cover!Appoint
  <2> QED BY <2>2, <2>3
<1>11. ASSUME NEW p \in Pids, Poll(p) \/ Claim(p) \/ Rename(p) PROVE UNCHANGED Cover!vars
  BY <1>8, <1>11 DEF Poll, Claim, Rename
<1>12. CASE Tick \/ UNCHANGED handoverVars
  BY <1>8, <1>12 DEF Tick, handoverVars
<1> QED
  BY <1>1, <1>3, <1>4, <1>5, <1>7, <1>9, <1>10, <1>11, <1>12 DEF HandoverNext, Cover!Next

\* Whatever the clocks, crashes, signals and failed writes do, the handover implements
\* ListenerCover: a process that stands down leaves its listeners to a later one that
\* runs with all of them, or had them when a signal told it to stop, although the
\* decision is read from a file another process wrote earlier (writeStatus,
\* considerStandingDown, stop).
THEOREM HandoverImplementsCover == HandoverSpec => ImplementsCover
<1>1. HandoverInit => Cover!Init
  BY HandoverConstants DEF HandoverConstants, HandoverInit, Cover!Init, Launched, Living, Running,
      Terminated, Alive, Stopping, Pids, Nobody
<1> QED
  BY <1>1, HandoverInvariance, StepCover, PTL DEF HandoverSpec, ImplementsCover, Cover!Spec

=============================================================================
