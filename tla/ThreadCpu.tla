------------------------------ MODULE ThreadCpu ------------------------------
(***************************************************************************)
(* thread_cpu.rs: which thread serves a monitored socket, and the load it  *)
(* is counted with.  A discovery asks the kernel who owns the socket; a    *)
(* sampling pass applies its result, rechecks the socket file now and then *)
(* and reads the thread's CPU time.  Meanwhile processes exit, their ids   *)
(* are reused, and another process binds the path.                         *)
(*                                                                         *)
(* One slot, whose worker is named by the ids of one thread.  Every        *)
(* deadline is kept as the time left until it, in the unit of Tick.  A     *)
(* process has one worker thread, so a process id also names the thread.   *)
(***************************************************************************)
EXTENDS Integers, FiniteSets

CONSTANTS
  Pids,          \* host process ids
  Configured,    \* the host process id the configured ids would name, read literally
  Kinds,         \* of a process id, how a process there can relate to the configured ids
  Discoveries,   \* discovery tasks in flight
  Retry,         \* DISCOVERY_RETRY_NS
  Recheck,       \* OWNER_RECHECK_NS
  Valid,         \* SAMPLE_VALID_NS
  MaxDelay,      \* how long a pass may take to get to the slot
  MaxEvents      \* how often processes, the socket or the proxy change

\* A deadline that does not come (u64::MAX): later than any interval.
Never == 99

ASSUME ThreadCpuAssumptions ==
  /\ Configured \in Pids
  /\ Kinds \in [Pids -> SUBSET {"host", "nested", "other"}]
  /\ {Retry, Recheck, Valid} \subseteq 1 .. Never - 1
  /\ {MaxDelay, MaxEvents} \subseteq Nat \ {0}

Nobody == [pid |-> 0, start |-> 0]
Unresolved == [is |-> "unresolved", of |-> Nobody]
Literal == [is |-> "literal", of |-> Nobody]
Discovered(t) == [is |-> "discovered", of |-> t]

VARIABLES
  proc,       \* of a pid: its process, if alive, how it was started and what it is
  socket,     \* the socket file: if it is there, its inode, and the process (id and start)
              \* that bound it
  events,     \* how many changes there have been
  identity,   \* SampleState.identity
  nextDisc,   \* time to next_discovery_ns
  nextCheck,  \* time to next_recheck_ns
  found,      \* SampleState.discovered
  inode,      \* SampleState.inode
  changed,    \* owner_changed
  sincePass,  \* time since last_pass_ns
  base,       \* the thread last_ticks was read from and the time since last_ns
  util,       \* SampleState.util_permille: the two readings it compares
  valid,      \* time to valid_until_ns
  sinceLoad,  \* time since EwmaState.last_pass_ns
  load,       \* LoadEwma.published: time it stays current, and the sample it took in last
  pass,       \* of the sampler's pass, and of a stopped sampler's that goes on: idle, or
              \* the time since its now was taken
  turn,       \* of a pass: what sample_table does next
  mean,       \* of a pass: the sample it has read, or NoUtil
  slept,      \* the sampler has slept for SAMPLE_INTERVAL since its last pass
  disc        \* of a discovery: idle, claimed, or the inode it has read

vars == <<proc, socket, events, identity, nextDisc, nextCheck, found, inode, changed,
          sincePass, base, util, valid, sinceLoad, load, pass, turn, mean, slept, disc>>
world == <<proc, socket, events>>
slot == <<identity, nextDisc, nextCheck, found, inode, changed, sincePass, base, util, valid>>
published == <<sinceLoad, load>>
passes == <<pass, turn, mean, slept>>

NoBase == [of |-> Nobody, age |-> 0]
NoUtil == [from |-> Nobody, to |-> Nobody, forward |-> FALSE]
NoLoad == [left |-> 0, of |-> NoUtil]
NotFound == [owner |-> -1, inode |-> 0]
NoFile == 0
Passes == {"own", "left"}
Idle == -1
Claimed == -2

Least(a, b) == IF a < b THEN a ELSE b
Thread(p) == [pid |-> p, start |-> proc[p].start]
HasThread(p) == proc[p].alive /\ proc[p].thread

\* socket_inode: of the file that is there, if one is.
SocketInode == IF socket.there THEN socket.inode ELSE NoFile

\* task_stat: the thread a process id names now.
TaskStat(p) == IF HasThread(p) THEN Thread(p) ELSE Nobody

\* resolve: what the configured ids name, given the socket's owner.  A process in a
\* namespace has its threads mapped; one whose ids differ in every namespace is read
\* literally.
Resolve(owner) ==
  CASE ~ proc[owner].alive -> Unresolved
    [] proc[owner].alive /\ proc[owner].kind = "other" -> Literal
    [] proc[owner].alive /\ proc[owner].kind # "other" ->
         IF HasThread(owner) THEN Discovered(Thread(owner)) ELSE Unresolved

----------------------------------------------------------------------------
(* Sampling                                                                *)

\* The slot's state while a pass works on it.
State == [identity |-> identity, nextDisc |-> nextDisc, nextCheck |-> nextCheck,
          inode |-> inode, changed |-> changed, base |-> base, util |-> util,
          valid |-> valid]

Reset(s) == [s EXCEPT !.base = NoBase, !.valid = -MaxDelay]

\* Mutant of Identified: a new thread is measured against the old one's baseline.
IdentifiedKeepingBase(s, id) == [s EXCEPT !.identity = id]

\* What was measured of another thread is forgotten.
Identified(s, id) == IF id = s.identity THEN s ELSE [Reset(s) EXCEPT !.identity = id]

\* apply_discovery, in a pass whose now was age ago.
ApplyDiscovery(s, age) ==
  IF found = NotFound THEN s
  ELSE IF found.owner = 0 THEN [s EXCEPT !.nextDisc = Retry - age]
  ELSE LET id == Resolve(found.owner)
           known == Identified([s EXCEPT !.changed = FALSE], id)
       IN IF id = Unresolved
          THEN [known EXCEPT !.nextDisc = Retry - age, !.nextCheck = Never]
          ELSE [known EXCEPT !.nextDisc = Never, !.nextCheck = Recheck - age,
                             !.inode = found.inode]

\* Mutant of CheckOwner: another file at the path makes no discovery due.
CheckOwnerOnly(s, age) ==
  IF s.nextCheck + age > 0 THEN s
  ELSE [s EXCEPT !.nextCheck = Recheck - age, !.changed = @ \/ SocketInode # s.inode,
                 !.valid = IF SocketInode # s.inode THEN -MaxDelay ELSE @]

\* The socket file is looked at again when its time has come.
CheckOwner(s, age) ==
  IF s.nextCheck + age > 0 THEN s
  ELSE LET later == [s EXCEPT !.nextCheck = Recheck - age]
       IN IF SocketInode = s.inode THEN later
          ELSE [later EXCEPT !.nextDisc = -age, !.changed = TRUE, !.valid = -MaxDelay]

\* A discovered thread is the one it was; one read literally may be any.
SameThread(id, stat) == stat # Nobody /\ (id.is = "discovered" => stat = id.of)

\* The thread can no longer be read: no value of it is kept.
Lost(s, age) ==
  IF s.identity.is = "discovered"
  THEN [Reset(s) EXCEPT !.util = NoUtil, !.identity = Unresolved, !.nextDisc = -age,
                        !.nextCheck = Never]
  ELSE [Reset(s) EXCEPT !.util = NoUtil]

\* The readings a utilisation compares: the slot's baseline and one taken age ago.
Compared(from, stat, age) == [from |-> from.of, to |-> stat, forward |-> age < from.age]

ReadThread(s, age) ==
  LET stat == TaskStat(IF s.identity.is = "discovered" THEN s.identity.of.pid ELSE Configured)
      measured == s.base # NoBase
      counts == measured /\ s.identity.is = "discovered" /\ ~ s.changed
  IN IF s.identity = Unresolved THEN [s EXCEPT !.util = NoUtil]
     ELSE IF ~ SameThread(s.identity, stat) THEN Lost(s, age)
     ELSE [s EXCEPT !.base = [of |-> stat, age |-> age],
                    !.util = IF measured THEN Compared(s.base, stat, age) ELSE @,
                    !.valid = IF counts THEN Valid - age ELSE @]

\* A pass that started before a newer one changes nothing.
Newer(age) == age < sincePass

\* sample, under the slot's lock.
Sample(i) ==
  LET age == pass[i]
      after == ReadThread(CheckOwner(ApplyDiscovery(State, age), age), age)
  IN
  /\ age # Idle
  /\ turn[i] = "sample"
  /\ turn' = [turn EXCEPT ![i] = "read"]
  /\ IF ~ Newer(age) THEN UNCHANGED slot
     ELSE /\ identity' = after.identity /\ nextDisc' = after.nextDisc
          /\ nextCheck' = after.nextCheck /\ inode' = after.inode
          /\ changed' = after.changed /\ base' = after.base /\ util' = after.util
          /\ valid' = after.valid
          /\ found' = NotFound
          /\ sincePass' = age
  /\ UNCHANGED <<world, published, pass, mean, slept, disc>>

\* load_sample, under the slot's lock again: what the pass finds may by now be the work of
\* another one.
LoadSample(i) ==
  /\ pass[i] # Idle
  /\ turn[i] = "read"
  /\ turn' = [turn EXCEPT ![i] = "update"]
  /\ mean' = [mean EXCEPT ![i] = IF valid + pass[i] > 0 THEN util ELSE NoUtil]
  /\ UNCHANGED <<world, slot, published, pass, slept, disc>>

\* LoadEwma::update, under a lock and with a newest pass of its own.  A load that is no
\* longer current when it is stored is none.
Update(i) ==
  LET age == pass[i] IN
  /\ age # Idle
  /\ turn[i] = "update"
  /\ pass' = [pass EXCEPT ![i] = Idle]
  /\ turn' = [turn EXCEPT ![i] = "sample"]
  /\ mean' = [mean EXCEPT ![i] = NoUtil]
  /\ IF age >= sinceLoad THEN UNCHANGED published
     ELSE /\ sinceLoad' = age
          /\ load' = IF mean[i] = NoUtil \/ age >= Valid THEN NoLoad
                     ELSE [left |-> Valid - age, of |-> mean[i]]
  /\ UNCHANGED <<world, slot, slept, disc>>

\* sample_table, for the one slot of one balancer.
SampleTable(i) == Sample(i) \/ LoadSample(i) \/ Update(i)

\* A due discovery is claimed: the next one is a retry interval away.
BeginDiscovery(d) ==
  /\ disc[d] = Idle
  /\ disc' = [disc EXCEPT ![d] = Claimed]
  /\ nextDisc' = Retry

\* One turn of sample_periodically: after a sleep a discovery that is due is claimed and a
\* pass starts.
StartPass ==
  /\ pass["own"] = Idle
  /\ slept /\ slept' = FALSE
  /\ pass' = [pass EXCEPT !["own"] = 0]
  /\ IF nextDisc <= 0 /\ \E d \in Discoveries : disc[d] = Idle
     THEN \E d \in Discoveries : BeginDiscovery(d)
     ELSE UNCHANGED <<disc, nextDisc>>
  /\ UNCHANGED <<world, identity, nextCheck, found, inode, changed, sincePass, base, util, valid,
                 published, turn, mean>>

----------------------------------------------------------------------------
(* Discovery                                                               *)

\* Whoever bound the path is still there, and so is the file.
Bound == socket.there /\ proc[socket.owner.pid].alive /\ Thread(socket.owner.pid) = socket.owner

\* One of the changes the model allows.
Event == events < MaxEvents /\ events' = events + 1

\* The inode is read first, if there is a file.
ReadInode(d) ==
  /\ disc[d] = Claimed
  /\ disc' = [disc EXCEPT ![d] = SocketInode]
  /\ UNCHANGED <<world, slot, published, passes>>

\* socket_owner, then finish_discovery: a connect reaches whoever has bound the path.
Connect(d) ==
  /\ disc[d] >= NoFile
  /\ Bound
  /\ found' = [owner |-> socket.owner.pid, inode |-> disc[d]]
  /\ disc' = [disc EXCEPT ![d] = Idle]
  /\ UNCHANGED <<world, identity, nextDisc, nextCheck, inode, changed, sincePass, base, util,
                 valid, published, passes>>

\* Nobody accepts, or a busy owner's accept queue is full for too long.
ConnectFails(d) ==
  /\ disc[d] >= NoFile
  /\ IF Bound THEN Event ELSE UNCHANGED events
  /\ found' = [owner |-> 0, inode |-> disc[d]]
  /\ disc' = [disc EXCEPT ![d] = Idle]
  /\ UNCHANGED <<proc, socket, identity, nextDisc, nextCheck, inode, changed, sincePass, base,
                 util, valid, published, passes>>

----------------------------------------------------------------------------
(* The world                                                               *)

Exit(p) ==
  /\ Event
  /\ proc[p].alive
  /\ proc' = [proc EXCEPT ![p].alive = FALSE, ![p].thread = FALSE]
  /\ UNCHANGED <<socket, slot, published, passes, disc>>

\* The id may be that of a process that has exited.
Spawn(p) ==
  /\ Event
  /\ ~ proc[p].alive
  /\ \E k \in Kinds[p] :
       proc' = [proc EXCEPT ![p] = [alive |-> TRUE, start |-> @.start + 1, kind |-> k,
                                    thread |-> FALSE]]
  /\ UNCHANGED <<socket, slot, published, passes, disc>>

ThreadUp(p) ==
  /\ proc[p].alive /\ ~ proc[p].thread
  /\ proc' = [proc EXCEPT ![p].thread = TRUE]
  /\ UNCHANGED <<socket, events, slot, published, passes, disc>>

\* A process binds the path anew; the file it replaces had another inode.  Taking it
\* over from a process that is gone is not counted as a change of its own.
Bind(p) ==
  /\ IF Bound THEN Event ELSE UNCHANGED events
  /\ proc[p].alive
  /\ socket' = [there |-> TRUE, inode |-> socket.inode + 1, owner |-> Thread(p)]
  /\ UNCHANGED <<proc, slot, published, passes, disc>>

\* The file is removed; whoever bound it can be reached no longer.
Unlink ==
  /\ Event
  /\ socket.there
  /\ socket' = [socket EXCEPT !.there = FALSE]
  /\ UNCHANGED <<proc, slot, published, passes, disc>>

\* The sampler stops and another starts: discoveries in flight are aborted, a pass goes
\* on by itself.  (At most one is left over at a time.)
Restart ==
  /\ Event
  /\ pass["left"] = Idle
  /\ pass' = [pass EXCEPT !["own"] = Idle, !["left"] = pass["own"]]
  /\ turn' = [turn EXCEPT !["own"] = "sample", !["left"] = turn["own"]]
  /\ mean' = [mean EXCEPT !["own"] = NoUtil, !["left"] = mean["own"]]
  /\ slept' = FALSE
  /\ disc' = [d \in Discoveries |-> Idle]
  /\ UNCHANGED <<proc, socket, slot, published>>

Sooner(t) == IF t = Never THEN Never ELSE IF t > -MaxDelay THEN t - 1 ELSE t
Older(t) == Least(t + 1, MaxDelay + 1)

Tick ==
  /\ \A i \in Passes : pass[i] < MaxDelay
  /\ nextDisc' = Sooner(nextDisc)
  /\ nextCheck' = Sooner(nextCheck)
  /\ valid' = Sooner(valid)
  /\ load' = IF load.left <= 1 THEN NoLoad ELSE [load EXCEPT !.left = @ - 1]
  /\ sincePass' = Older(sincePass)
  /\ sinceLoad' = Older(sinceLoad)
  /\ base' = IF base = NoBase THEN base ELSE [base EXCEPT !.age = Older(@)]
  /\ pass' = [i \in Passes |-> IF pass[i] = Idle THEN Idle ELSE pass[i] + 1]
  /\ slept' = (pass["own"] = Idle)
  /\ UNCHANGED <<world, identity, found, inode, changed, util, turn, mean, disc>>

Init ==
  /\ \E k \in [Pids -> {"host", "nested", "other"}] :
       /\ \A p \in Pids : k[p] \in Kinds[p]
       /\ proc = [p \in Pids |-> [alive |-> TRUE, start |-> 1, kind |-> k[p], thread |-> TRUE]]
  /\ \E p \in Pids : socket = [there |-> TRUE, inode |-> 1, owner |-> [pid |-> p, start |-> 1]]
  /\ events = 0
  /\ identity = Unresolved /\ nextDisc = 0 /\ nextCheck = Never
  /\ found = NotFound /\ inode = NoFile /\ changed = FALSE
  /\ sincePass = MaxDelay + 1 /\ base = NoBase /\ util = NoUtil
  /\ valid = -MaxDelay
  /\ sinceLoad = MaxDelay + 1 /\ load = NoLoad
  /\ pass = [i \in Passes |-> Idle]
  /\ turn = [i \in Passes |-> "sample"]
  /\ mean = [i \in Passes |-> NoUtil]
  /\ slept = FALSE
  /\ disc = [d \in Discoveries |-> Idle]

Next ==
  \/ StartPass
  \/ \E i \in Passes : SampleTable(i)
  \/ \E d \in Discoveries : ReadInode(d) \/ Connect(d) \/ ConnectFails(d)
  \/ \E p \in Pids : Exit(p) \/ Spawn(p) \/ ThreadUp(p) \/ Bind(p)
  \/ Unlink \/ Restart \/ Tick

\* Time passes, passes and discoveries run, a starting process starts its thread.
Fairness ==
  /\ WF_vars(Tick)
  /\ WF_vars(StartPass)
  /\ \A i \in Passes : WF_vars(SampleTable(i))
  /\ \A d \in Discoveries : WF_vars(ReadInode(d) \/ Connect(d) \/ ConnectFails(d))
  /\ WF_vars(\E p \in Pids : ThreadUp(p))

Spec == Init /\ [][Next]_vars /\ Fairness

----------------------------------------------------------------------------
(* Properties                                                              *)

OfOneThread(u) == u.from = u.to /\ u.to # Nobody /\ u.forward

\* The sample a load has taken in last is the difference of two readings of one thread,
\* the second taken later (sample), whatever ids are reused, whichever passes overlap, and
\* although a pass reads the slot and updates the load under locks it takes anew.  (What
\* is published is smoothed, and keeps a share of earlier samples, of other threads too.)
SampleOfOneThread ==
  load # NoLoad => OfOneThread(load.of)

\* When processes and the socket have settled, the load that is counted is soon that of
\* the thread behind the socket alone, while there is one; and it is counted again and
\* again if the owner can be named at all.
LoadSettles ==
  /\ <>[](load # NoLoad /\ Bound => load.of.to = socket.owner)
  /\ []<>(load # NoLoad \/ ~ Bound \/ Resolve(socket.owner.pid).is # "discovered")
=============================================================================
