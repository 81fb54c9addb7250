----------------------------- MODULE Handover -----------------------------
(***************************************************************************)
(* Replacing a running symphony-server (ts/server.ts: writeStatus,         *)
(* considerStandingDown, recheckStatus, stop).  Several processes run on   *)
(* the same config and ports and share one file, status.json, which each   *)
(* reads and then renames over: a check and a write, with other processes  *)
(* in between.  Inside a process both are one synchronous block, so only a *)
(* crash can fall between them.  A supervisor retires the process the file *)
(* named before once it names another, and any process may be terminated,  *)
(* the one the file names included: it closes its listeners one at a time, *)
(* alive and named until it is done.                                       *)
(***************************************************************************)
EXTENDS Integers

CONSTANTS
  NP,          \* processes, launched in the order of their pids
  Listeners,   \* host:port endpoints of the config
  Grace,       \* SUPERSEDE_GRACE_MS in clock units
  StartsAt,    \* what the wall clock may say when each is launched: p unless
               \* it was stepped
  Proc,        \* /proc is there to verify a pid
  MaxReloads,  \* bound on reloads
  MaxFaults    \* bound on crashes, SIGTERMs and failed writes

ASSUME HandoverConstants ==
  /\ NP \in Nat \ {0}
  /\ Grace \in Nat /\ MaxReloads \in Nat /\ MaxFaults \in Nat
  /\ StartsAt \in [1 .. NP -> SUBSET (1 .. NP)]
  /\ Proc \in BOOLEAN

Pids == 1 .. NP
Nobody == 0
NoStatus == [pid |-> Nobody, startedAt |-> 0, listeners |-> {}]

VARIABLES
  life,         \* per process: "new", "running", "gone", or why it is stopping:
                \* "terminated", "superseded"
  startedAt,    \* its wall-clock start
  bound,        \* the listeners it has bound
  hadBound,     \* history: those a terminated process had when the signal came
  step,         \* "rest", "check" (writeStatus is due), "rename"
  status,       \* status.json
  supersededBy, \* the process it may stand down for
  held,         \* for how long that one has held the file
  writeFailed,  \* statusWriteFailed
  named,        \* supervisor: the pid it last saw in the file
  reloads, faults

handoverVars == <<life, startedAt, bound, hadBound, step, status, supersededBy, held,
                  writeFailed, named, reloads, faults>>

----------------------------------------------------------------------------

Stopping(p) == life[p] \in {"terminated", "superseded"}

\* What /proc shows of a process, also of one that is stopping.
Alive(p) == p # Nobody /\ (life[p] = "running" \/ Stopping(p))

\* By wall clock, the pid breaking a tie ...
StartedAfter(s, p) ==
  \/ s.startedAt > startedAt[p]
  \/ s.startedAt = startedAt[p] /\ s.pid > p

\* Mutant of StartedLater: the wall clock is trusted.
StartedLaterByClock(s, p) == StartedAfter(s, p)

\* ... and by the boot-relative ticks of /proc, which no clock step reorders.
StartedLater(s, p) == s.pid > p

HandoverInit ==
  /\ life = [p \in Pids |-> "new"]
  /\ startedAt = [p \in Pids |-> 0]
  /\ bound = [p \in Pids |-> {}]
  /\ hadBound = [p \in Pids |-> {}]
  /\ step = [p \in Pids |-> "rest"]
  /\ status = NoStatus
  /\ supersededBy = [p \in Pids |-> Nobody]
  /\ held = [p \in Pids |-> 0]
  /\ writeFailed = [p \in Pids |-> FALSE]
  /\ named = Nobody
  /\ reloads = 0
  /\ faults = 0

----------------------------------------------------------------------------
(* Processes come, reload and go                                           *)

\* The first reconcile binds what it can; its last step is writeStatus().
Launch(p) ==
  /\ life[p] = "new"
  /\ \A q \in Pids : q < p => life[q] # "new"
  /\ life' = [life EXCEPT ![p] = "running"]
  /\ \E at \in StartsAt[p], some \in SUBSET Listeners :
       /\ startedAt' = [startedAt EXCEPT ![p] = at]
       /\ bound' = [bound EXCEPT ![p] = some]
  /\ step' = [step EXCEPT ![p] = "check"]
  /\ UNCHANGED <<hadBound, status, supersededBy, held, writeFailed, named, reloads, faults>>

\* A reload of the same config may bind what failed before (Reconcile: it never
\* unbinds a configured port).
Reload(p) ==
  /\ life[p] = "running"
  /\ step[p] = "rest"
  /\ reloads < MaxReloads
  /\ reloads' = reloads + 1
  /\ \E some \in SUBSET Listeners : bound' = [bound EXCEPT ![p] = @ \cup some]
  /\ step' = [step EXCEPT ![p] = "check"]
  /\ UNCHANGED <<life, startedAt, hadBound, status, supersededBy, held, writeFailed, named,
                 faults>>

\* SIGKILL or a crash, at any point.
Crash(p) ==
  /\ Alive(p)
  /\ faults < MaxFaults
  /\ faults' = faults + 1
  /\ life' = [life EXCEPT ![p] = "gone"]
  /\ bound' = [bound EXCEPT ![p] = {}]
  /\ hadBound' = [hadBound EXCEPT ![p] = {}]
  /\ step' = [step EXCEPT ![p] = "rest"]
  /\ UNCHANGED <<startedAt, status, supersededBy, held, writeFailed, named, reloads>>

\* Signal handlers run between two runs of writeStatus().
Interruptible(p) == step[p] # "rename"

\* SIGTERM starts stop(), in which a writeStatus() that is due returns at once.
BeginStop(p) ==
  /\ life' = [life EXCEPT ![p] = "terminated"]
  /\ hadBound' = [hadBound EXCEPT ![p] = bound[p]]
  /\ step' = [step EXCEPT ![p] = "rest"]

\* An operator's SIGTERM, or the reap of a successor taken to have failed.
Terminate(p) ==
  /\ life[p] = "running"
  /\ Interruptible(p)
  /\ faults < MaxFaults
  /\ faults' = faults + 1
  /\ BeginStop(p)
  /\ UNCHANGED <<startedAt, bound, status, supersededBy, held, writeFailed, named, reloads>>

\* stop() awaits its proxies one after the other, while the process lives on.
Close(p) ==
  /\ Stopping(p)
  /\ \E l \in bound[p] : bound' = [bound EXCEPT ![p] = @ \ {l}]
  /\ UNCHANGED <<life, startedAt, hadBound, step, status, supersededBy, held, writeFailed,
                 named, reloads, faults>>

\* stop() has stopped every proxy; status.json stays.
Exit(p) ==
  /\ Stopping(p)
  /\ bound[p] = {}
  /\ life' = [life EXCEPT ![p] = "gone"]
  /\ hadBound' = [hadBound EXCEPT ![p] = {}]
  /\ UNCHANGED <<startedAt, bound, step, status, supersededBy, held, writeFailed, named,
                 reloads, faults>>

\* The supervisor sees the file name another process and terminates the old one.
Supervise ==
  /\ status.pid # named
  /\ named' = status.pid
  /\ IF named # Nobody /\ life[named] = "running"
     THEN Interruptible(named) /\ BeginStop(named)
     ELSE UNCHANGED <<life, hadBound, step>>
  /\ UNCHANGED <<startedAt, bound, status, supersededBy, held, writeFailed, reloads, faults>>

----------------------------------------------------------------------------
(* status.json                                                             *)

\* Mutant of RecheckDue: only a failed write is retried.
RecheckDueAfterFailure(p) == writeFailed[p]

RecheckDue(p) == status.pid # p \/ writeFailed[p]

\* The status timer of recheckStatus(): the owner has nothing to do.
Poll(p) ==
  /\ life[p] = "running"
  /\ step[p] = "rest"
  /\ \/ /\ ~ RecheckDue(p)
        /\ supersededBy' = [supersededBy EXCEPT ![p] = Nobody]
        /\ held' = [held EXCEPT ![p] = 0]
        /\ UNCHANGED step
     \/ /\ RecheckDue(p)
        /\ step' = [step EXCEPT ![p] = "check"]
        /\ UNCHANGED <<supersededBy, held>>
  /\ UNCHANGED <<life, startedAt, bound, hadBound, status, writeFailed, named, reloads,
                 faults>>

OtherOwner(p) == status.pid # p /\ Alive(status.pid)
NewerOwner(p) == OtherOwner(p) /\ StartedAfter(status, p)

\* Mutant of Covers: the owner's listeners are not compared.
CoversAny(p) == TRUE

\* The owner listens on everything this process does.
Covers(p) == bound[p] \subseteq status.listeners

MayStandDown(p) == Proc /\ StartedLater(status, p) /\ Covers(p)

\* considerStandingDown(): a blocked process starts over; the first unblocked look
\* starts the grace period; a later one, after it, stops the process.
Yield(p) ==
  /\ step[p] = "check"
  /\ NewerOwner(p)
  /\ step' = [step EXCEPT ![p] = "rest"]
  /\ \/ /\ ~ MayStandDown(p)
        /\ supersededBy' = [supersededBy EXCEPT ![p] = Nobody]
        /\ held' = [held EXCEPT ![p] = 0]
        /\ UNCHANGED life
     \/ /\ MayStandDown(p)
        /\ supersededBy[p] # status.pid
        /\ supersededBy' = [supersededBy EXCEPT ![p] = status.pid]
        /\ held' = [held EXCEPT ![p] = 0]
        /\ UNCHANGED life
     \/ /\ MayStandDown(p)
        /\ supersededBy[p] = status.pid
        /\ life' = IF held[p] >= Grace THEN [life EXCEPT ![p] = "superseded"] ELSE life
        /\ UNCHANGED <<supersededBy, held>>
  /\ UNCHANGED <<startedAt, bound, hadBound, status, writeFailed, named, reloads, faults>>

Uncovered(p) == IF OtherOwner(p) THEN status.listeners \ bound[p] ELSE {}

\* No newer owner: claim the file, unless a live owner has a listener this
\* process lacks.
Claim(p) ==
  /\ step[p] = "check"
  /\ ~ NewerOwner(p)
  /\ supersededBy' = [supersededBy EXCEPT ![p] = Nobody]
  /\ held' = [held EXCEPT ![p] = 0]
  /\ step' = [step EXCEPT ![p] = IF Uncovered(p) = {} THEN "rename" ELSE "rest"]
  /\ UNCHANGED <<life, startedAt, bound, hadBound, status, writeFailed, named, reloads,
                 faults>>

Published(p) == [pid |-> p, startedAt |-> startedAt[p], listeners |-> bound[p]]

Rename(p) ==
  /\ step[p] = "rename"
  /\ step' = [step EXCEPT ![p] = "rest"]
  /\ \/ /\ status' = Published(p)
        /\ writeFailed' = [writeFailed EXCEPT ![p] = FALSE]
        /\ UNCHANGED faults
     \/ /\ faults < MaxFaults
        /\ faults' = faults + 1
        /\ writeFailed' = [writeFailed EXCEPT ![p] = TRUE]
        /\ UNCHANGED status
  /\ UNCHANGED <<life, startedAt, bound, hadBound, supersededBy, held, named, reloads>>

\* Time passes.
Tick ==
  /\ \E p \in Pids : supersededBy[p] # Nobody /\ held[p] < Grace
  /\ held' = [p \in Pids |-> IF supersededBy[p] # Nobody /\ held[p] < Grace
                             THEN held[p] + 1 ELSE held[p]]
  /\ UNCHANGED <<life, startedAt, bound, hadBound, step, status, supersededBy, writeFailed,
                 named, reloads, faults>>

----------------------------------------------------------------------------

HandoverNext ==
  \/ \E p \in Pids :
       \/ Launch(p) \/ Reload(p) \/ Crash(p) \/ Terminate(p) \/ Close(p) \/ Exit(p)
       \/ Poll(p) \/ Yield(p) \/ Claim(p) \/ Rename(p)
  \/ Tick
  \/ Supervise

HandoverSpec == HandoverInit /\ [][HandoverNext]_handoverVars

\* The timers fire, the clock advances and a stopping process closes and exits.
FairHandover ==
  /\ HandoverSpec
  /\ WF_handoverVars(Tick)
  /\ \A p \in Pids :
       /\ WF_handoverVars(Close(p) \/ Exit(p))
       /\ WF_handoverVars(Poll(p)) /\ WF_handoverVars(Rename(p))
       /\ WF_handoverVars(Yield(p) \/ Claim(p))

----------------------------------------------------------------------------
(* Properties                                                              *)

\* The shape of the state.
HandoverTypeOK ==
  /\ life \in [Pids -> {"new", "running", "terminated", "superseded", "gone"}]
  /\ startedAt \in [Pids -> 0 .. NP]
  /\ bound \in [Pids -> SUBSET Listeners]
  /\ hadBound \in [Pids -> SUBSET Listeners]
  /\ step \in [Pids -> {"rest", "check", "rename"}]
  /\ status \in [pid : Pids \cup {Nobody}, startedAt : 0 .. NP, listeners : SUBSET Listeners]
  /\ supersededBy \in [Pids -> Pids \cup {Nobody}]
  /\ held \in [Pids -> 0 .. Grace]
  /\ writeFailed \in [Pids -> BOOLEAN]
  /\ named \in Pids \cup {Nobody}
  /\ reloads \in 0 .. MaxReloads /\ faults \in 0 .. MaxFaults

StandsDown(p) == life[p] = "running" /\ life'[p] = "superseded"

Launched == {p \in Pids : life[p] # "new"}
Living == {p \in Pids : Alive(p)}
Running == {p \in Pids : life[p] = "running"}
Terminated == {p \in Pids : life[p] = "terminated"}

Cover == INSTANCE ListenerCover WITH
           Processes <- Pids, Endpoints <- Listeners, launched <- Launched,
           alive <- Living, up <- Running, told <- Terminated, serving <- bound,
           served <- hadBound, chief <- named

\* The status file and the grace period implement the promise: a process stops itself
\* only while another, started later, is alive and either runs with every listener it
\* has bound, not as of some earlier status but now, or had them all when a signal told
\* it to stop; never for one that is itself standing down (writeStatus,
\* considerStandingDown).
ImplementsCover == Cover!Spec

\* "So a successor being reaped is seen to exit before this process gives up its
\* listeners" (server.ts).  Violated: the grace period is counted from when the
\* successor took the file, and one that is reaped at the end of it is alive in /proc
\* while it closes its listeners.
GivesWayToRunning ==
  [][\A p \in Pids : StandsDown(p) =>
       \E q \in Running : q > p /\ bound[p] \subseteq bound[q]]_handoverVars

\* However the wall clock is stepped, two processes never wait to stand down for
\* each other, in a ring of any length: the one to survive started later.
SupersededByLater ==
  \A p \in Pids : supersededBy[p] # Nobody => supersededBy[p] > p

\* "The outgoing one must not point status.json back at itself" (server.ts).
\* Violated: it may have read the file before its successor renamed over it.
NeverPointsBack ==
  [][\A p \in Pids : status.pid # p /\ status'.pid = p =>
       ~ (Alive(status.pid) /\ status.pid > p /\ StartedAfter(status, p))]_handoverVars

\* "A new process that could not bind a listener the running one has ... does not
\* take the file" (README.md).  Violated in the same window.
TakesNoUncovered ==
  [][\A p \in Pids : status.pid # p /\ status'.pid = p /\ Alive(status.pid) =>
       status.listeners \subseteq bound[p]]_handoverVars

\* The last process launched, with the latest wall-clock start too.
Newest(p) ==
  /\ life[p] = "running"
  /\ \A q \in Pids : q > p => life[q] = "gone"
  /\ \A q \in Pids : q < p => startedAt[q] < startedAt[p]

\* "status.json names the newest live process" in the end, and every process it
\* covers has stopped itself: also when a successor exits, a write fails, or an
\* outgoing process wrote over the file.  (A clock stepped back may hide it.)
HandoverCompletes ==
  <>[](\A p \in Pids : Newest(p) /\ (\A q \in Pids : bound[q] \subseteq bound[p]) =>
         status.pid = p /\ \A q \in Pids : q # p => ~ Alive(q))

============================================================================
