--------------------------- MODULE FailoverPeers ---------------------------
(***************************************************************************)
(* Forwarding a connection to a route's failover peers (src/failover.rs:   *)
(* Failover::candidates, forward_to_peers, attempt_peer and the cooldown   *)
(* word of a FailoverPeer).  Several connections of one route forward at   *)
(* the same time and share the peers' cooldowns and the round-robin        *)
(* cursor.  How many peers are ready, and which cools down first, is       *)
(* decided when a connection starts; the rotation itself reads the         *)
(* cooldowns lazily, at each turn, against the clock of the start; an      *)
(* await on the client lies between the two.                               *)
(*                                                                         *)
(* What a peer does (answer, refuse, close, stay silent) is the            *)
(* environment's choice.  Time passes only while every connection waits.   *)
(***************************************************************************)
EXTENDS Integers, Sequences, FiniteSets

CONSTANTS
  N,            \* number of peers, in configured order 0 .. N-1
  Clients,      \* connection slots (a finished one is used again)
  Modes,        \* ForwardModes that occur: "down", "drain", "spill"
  CoolMin, CoolMax, \* peerCooldownMs
  Handshake,    \* what is left of the handshake timeout on arrival
  DrainBudget, SpillBudget, \* DRAIN_BUDGET, SPILL_BUDGET
  MaxStreak,    \* bound on the failure streak (255)
  MaxTime       \* bound on the clock

ASSUME FailoverConstants ==
  /\ N \in Nat \ {0}
  /\ Modes \subseteq {"down", "drain", "spill"}
  /\ CoolMin \in Nat \ {0} /\ CoolMax \in Nat /\ CoolMin <= CoolMax
  /\ Handshake \in Nat /\ DrainBudget \in Nat /\ SpillBudget \in Nat
  /\ MaxStreak \in Nat \ {0}
  /\ MaxTime \in Nat

Peers == 0 .. N - 1
NoPeer == N

VARIABLES
  clock,
  cooldown,     \* per peer: the packed word, [streak, until]
  cursor,       \* Failover.cursor, modulo N
  pc,           \* where each connection is in forward_to_peers
  plan,         \* its mode, deadline and what candidates() decided
  pos,          \* how far its rotation has advanced
  tried,        \* the peers it attempted, in order
  limit,        \* when its current attempt times out
  why           \* why it gave up

forwardVars == <<clock, cooldown, cursor, pc, plan, pos, tried, limit, why>>

Smaller(a, b) == IF a < b THEN a ELSE b
Larger(a, b) == IF a > b THEN a ELSE b

----------------------------------------------------------------------------
(* The cooldown word of a peer                                             *)

NoCooldown == [streak |-> 0, until |-> 0]

CoolingDown(p, now) == now < cooldown[p].until

\* min << (streak - 1), capped: the streak doubles the backoff.
Backoff(streak) == Smaller(CoolMin * 2 ^ (streak - 1), CoolMax)

\* record_failure: one fetch_update of the whole word.
AfterFailure(w, now) ==
  LET streak == Smaller(w.streak + 1, MaxStreak)
  IN  [streak |-> streak, until |-> Larger(w.until, now + Backoff(streak))]

----------------------------------------------------------------------------
(* Which peers to try                                                      *)

Ready(now) == {p \in Peers : ~ CoolingDown(p, now)}

\* min_by_key(cooldown_until): the first of the earliest.
EarliestCooling ==
  CHOOSE p \in Peers : \A q \in Peers :
    \/ cooldown[p].until < cooldown[q].until
    \/ cooldown[p].until = cooldown[q].until /\ p <= q

NoPlan == [mode |-> "down", now |-> 0, deadline |-> 0, start |-> 0, count |-> 0,
           earliest |-> NoPeer]

\* Without a local service to fall back to, all of the handshake timeout.
Budget(mode) ==
  CASE mode = "down" -> Handshake
    [] mode = "drain" -> Smaller(Handshake \div 2, DrainBudget)
    [] mode = "spill" -> Smaller(Handshake \div 2, SpillBudget)

Chosen(mode, start, ready, earliest) ==
  [mode |-> mode, now |-> clock, deadline |-> clock + Budget(mode),
   start |-> start, earliest |-> earliest,
   count |-> Larger(Cardinality(ready), IF earliest = NoPeer THEN 0 ELSE 1)]

\* candidates(): counted now, although the rotation below filters again later.
\* Only a connection with no local service to fall back to waits for a peer in
\* cooldown.
Candidates(mode, start) ==
  LET ready == Ready(clock)
  IN  Chosen(mode, start, ready,
             IF ready = {} /\ mode = "down" THEN EarliestCooling ELSE NoPeer)

\* candidates_for(Spill(i)): that peer alone, unless it is cooling down.
SpillCandidate(i) ==
  Chosen("spill", 0, {}, IF CoolingDown(i, clock) THEN NoPeer ELSE i)

InRotation(c, i) == (plan[c].start + i) % N

\* Mutant of NextTurns: the rotation starts over at every turn.
NextTurnsRestarted(c) ==
  {i \in 0 .. N - 1 : ~ CoolingDown(InRotation(c, i), plan[c].now)}

\* The turns of the rotation still ahead whose peer is not cooling down as of
\* the start of the connection.  A spilled connection has no rotation.
NextTurns(c) ==
  IF plan[c].mode = "spill" THEN {}
  ELSE {i \in pos[c] .. N - 1 : ~ CoolingDown(InRotation(c, i), plan[c].now)}

\* rotation.chain(earliest): N marks the turn of the chained peer, N + 1 the end.
NextTurn(c) ==
  IF NextTurns(c) # {} THEN CHOOSE i \in NextTurns(c) : \A j \in NextTurns(c) : i <= j
  ELSE IF pos[c] <= N /\ plan[c].earliest # NoPeer THEN N
  ELSE N + 1

PeerAt(c, turn) == IF turn = N THEN plan[c].earliest ELSE InRotation(c, turn)

Remaining(c) == Larger(plan[c].deadline - clock, 0)

\* Mutant of Share: each attempt may use all that is left.
ShareAll(c) == Remaining(c)

\* A fair share of what is left, for the attempts still to come.
Share(c) == Remaining(c) \div Larger(plan[c].count - Len(tried[c]), 1)

----------------------------------------------------------------------------

ForwardInit ==
  /\ clock = 0
  /\ cooldown = [p \in Peers |-> NoCooldown]
  /\ cursor = 0
  /\ pc = [c \in Clients |-> "idle"]
  /\ plan = [c \in Clients |-> NoPlan]
  /\ pos = [c \in Clients |-> 0]
  /\ tried = [c \in Clients |-> <<>>]
  /\ limit = [c \in Clients |-> 0]
  /\ why = [c \in Clients |-> "none"]

Resting == {"idle", "tunnel", "exhausted", "local"}

GivenUp(mode) == IF mode = "down" THEN "exhausted" ELSE "local"

\* give_up: a connection with nothing to fall back to is closed, any other one
\* is served locally.
GiveUp(c, mode, reason) ==
  /\ pc' = [pc EXCEPT ![c] = GivenUp(mode)]
  /\ why' = [why EXCEPT ![c] = reason]

\* A connection is to be forwarded: the candidates are chosen, then the
\* ClientHello is peeked again.  Without any candidate it gives up at once.
Forward(c, p) ==
  /\ pc[c] \in Resting
  /\ clock + Handshake <= MaxTime
  /\ plan' = [plan EXCEPT ![c] = p]
  /\ pos' = [pos EXCEPT ![c] = 0]
  /\ tried' = [tried EXCEPT ![c] = <<>>]
  /\ limit' = [limit EXCEPT ![c] = 0]
  /\ \/ /\ p.count = 0
        /\ GiveUp(c, p.mode, "noCandidate")
     \/ /\ p.count > 0
        /\ pc' = [pc EXCEPT ![c] = "peek"]
        /\ why' = [why EXCEPT ![c] = "none"]
  /\ UNCHANGED <<clock, cooldown>>

ArriveInRotation(c) ==
  \E mode \in Modes \ {"spill"} :
    /\ Forward(c, Candidates(mode, cursor))
    /\ cursor' = (cursor + 1) % N

ArriveSpilled(c) ==
  /\ "spill" \in Modes
  /\ \E i \in Peers : Forward(c, SpillCandidate(i))
  /\ UNCHANGED cursor

\* The ClientHello was not peeked whole: there is nothing to replay to a peer, so
\* no candidate is even looked for.
ArriveIncomplete(c) ==
  /\ pc[c] \in Resting
  /\ \E mode \in Modes :
       /\ plan' = [plan EXCEPT ![c] = [NoPlan EXCEPT !.mode = mode]]
       /\ GiveUp(c, mode, "noHello")
  /\ pos' = [pos EXCEPT ![c] = 0]
  /\ tried' = [tried EXCEPT ![c] = <<>>]
  /\ limit' = [limit EXCEPT ![c] = 0]
  /\ UNCHANGED <<clock, cooldown, cursor>>

\* client.peek() returned the whole ClientHello, at the deadline at the latest ...
Peeked(c) ==
  /\ pc[c] = "peek"
  /\ pc' = [pc EXCEPT ![c] = "pick"]
  /\ UNCHANGED <<clock, cooldown, cursor, plan, pos, tried, limit, why>>

\* ... or the client went away, or the budget ran out.
PeekFailed(c) ==
  /\ pc[c] = "peek"
  /\ GiveUp(c, plan[c].mode, "peek")
  /\ UNCHANGED <<clock, cooldown, cursor, plan, pos, tried, limit>>

\* The head of the loop: the next candidate, unless none or no time is left.
Pick(c) ==
  LET turn == NextTurn(c)
  IN  /\ pc[c] = "pick"
      /\ \/ /\ turn = N + 1
            /\ GiveUp(c, plan[c].mode, "noneLeft")
            /\ UNCHANGED <<pos, tried, limit>>
         \/ /\ turn <= N
            /\ Remaining(c) = 0
            /\ GiveUp(c, plan[c].mode, "time")
            /\ UNCHANGED <<pos, tried, limit>>
         \/ /\ turn <= N
            /\ Remaining(c) > 0
            /\ pc' = [pc EXCEPT ![c] = "attempt"]
            /\ pos' = [pos EXCEPT ![c] = turn + 1]
            /\ tried' = [tried EXCEPT ![c] = Append(@, PeerAt(c, turn))]
            /\ limit' = [limit EXCEPT ![c] = clock + Share(c)]
            /\ UNCHANGED why
      /\ UNCHANGED <<clock, cooldown, cursor, plan>>

Current(c) == tried[c][Len(tried[c])]

\* The peer's first byte commits the connection to it and clears its cooldown.
PeerAnswers(c) ==
  /\ pc[c] = "attempt"
  /\ pc' = [pc EXCEPT ![c] = "tunnel"]
  /\ cooldown' = [cooldown EXCEPT ![Current(c)] = NoCooldown]
  /\ UNCHANGED <<clock, cursor, plan, pos, tried, limit, why>>

\* Mutant of TimedOut: no timeout around the attempt.
TimedOutNever(c) == FALSE

TimedOut(c) == clock >= limit[c]

FailAttempt(c) ==
  /\ pc[c] = "attempt"
  /\ pc' = [pc EXCEPT ![c] = "pick"]
  /\ cooldown' = [cooldown EXCEPT ![Current(c)] = AfterFailure(@, clock)]
  /\ UNCHANGED <<clock, cursor, plan, pos, tried, limit, why>>

\* The peer refuses, closes with no byte, or the connect fails.
PeerFails(c) == clock < limit[c] /\ FailAttempt(c)

AttemptTimesOut(c) == TimedOut(c) /\ FailAttempt(c)

\* A reload rebuilds Failover: the peers and their cooldowns are carried over
\* (same identity), the cursor starts again.
Reload ==
  /\ cursor # 0
  /\ cursor' = 0
  /\ UNCHANGED <<clock, cooldown, pc, plan, pos, tried, limit, why>>

\* Time passes while no connection has something to do now.
Tick ==
  /\ clock < MaxTime
  /\ \A c \in Clients :
       /\ pc[c] # "pick"
       /\ pc[c] = "peek" => clock < plan[c].deadline
       /\ pc[c] = "attempt" => ~ TimedOut(c)
  /\ clock' = clock + 1
  /\ UNCHANGED <<cooldown, cursor, pc, plan, pos, tried, limit, why>>

\* The steps of forward_to_peers itself, as opposed to the peers' and clients'.
Proceed(c) ==
  \/ Pick(c)
  \/ AttemptTimesOut(c)
  \/ pc[c] = "peek" /\ clock >= plan[c].deadline /\ PeekFailed(c)

ForwardNext ==
  \/ \E c \in Clients :
       \/ ArriveInRotation(c) \/ ArriveSpilled(c) \/ ArriveIncomplete(c)
       \/ Peeked(c) \/ PeekFailed(c)
       \/ Pick(c) \/ PeerAnswers(c) \/ PeerFails(c) \/ AttemptTimesOut(c)
  \/ Reload
  \/ Tick

ForwardSpec == ForwardInit /\ [][ForwardNext]_forwardVars

\* Time advances however busy the other connections are, and the task runs when
\* its timer fires; nothing is assumed of the peers or the client.
Fairness == SF_forwardVars(Tick) /\ \A c \in Clients : WF_forwardVars(Proceed(c))

FairForward == ForwardSpec /\ Fairness

----------------------------------------------------------------------------
(* Properties                                                              *)

Plans == [mode : {"down", "drain", "spill"}, now : Nat, deadline : Nat,
          start : Peers, count : 0 .. N, earliest : Peers \cup {NoPeer}]

\* The shape of the state.
ForwardTypeOK ==
  /\ clock \in Nat
  /\ cooldown \in [Peers -> [streak : 0 .. MaxStreak, until : Nat]]
  /\ cursor \in Peers
  /\ pc \in [Clients -> Resting \cup {"peek", "pick", "attempt"}]
  /\ plan \in [Clients -> Plans]
  /\ pos \in [Clients -> 0 .. N + 1]
  /\ tried \in [Clients -> Seq(Peers)]
  /\ limit \in [Clients -> Nat]
  /\ why \in [Clients -> {"none", "noHello", "noCandidate", "peek", "noneLeft", "time"}]

\* "Peers are tried round-robin ..., at most once each" (README.md).  It holds
\* for one connection at a time; see RepeatsOnlyEarliest.
AtMostOnceEach ==
  \A c \in Clients : \A i, j \in 1 .. Len(tried[c]) :
    i # j => tried[c][i] # tried[c][j]

\* "If every peer is cooling down, the one whose cooldown ends first is tried
\* once" (README.md): a connection with nothing to fall back to always tries a
\* peer when it has time to.  Violated when the only peer that was ready at the
\* count starts to cool down during the peek.
DownTriesSomePeer ==
  \A c \in Clients : pc[c] = "exhausted" /\ why[c] \in {"noCandidate", "noneLeft"} =>
    tried[c] # <<>>

\* Whatever other connections do to the cooldowns, a peer is tried twice only
\* as the last resort of a connection that found every peer cooling down; a
\* draining or spilled one, which can be served locally, never repeats a peer.
RepeatsOnlyEarliest ==
  \A c \in Clients : \A i, j \in 1 .. Len(tried[c]) :
    i < j /\ tried[c][i] = tried[c][j] =>
      /\ plan[c].mode = "down"
      /\ j = Len(tried[c])
      /\ tried[c][j] = plan[c].earliest

\* "One silent peer cannot spend every later peer's turn" (failover.rs): a
\* connection whose attempts used up its time made as many of them as it had
\* candidates.  (One whose client let the peek take all of it made none.)
TimeForEveryCandidate ==
  /\ ForwardTypeOK
  /\ \A c \in Clients : why[c] = "time" /\ tried[c] # <<>> =>
       Len(tried[c]) >= plan[c].count

\* A draining or spilled connection that no peer took reaches the local service
\* with at least half of its handshake timeout, however many peers it tried.
HalfLeftForLocal ==
  \A c \in Clients : pc[c] # "local" /\ pc'[c] = "local" /\ plan[c] = plan'[c] =>
    clock <= plan[c].now + Handshake \div 2

\* The time of a connection is shared out: among its candidates, and with the local
\* service where there is one.
TimeShared == [][TimeForEveryCandidate' /\ HalfLeftForLocal]_forwardVars

\* A forwarded connection is decided (handed over, closed or served locally)
\* even if every peer stays silent.
ForwardingEnds == \A c \in Clients : pc[c] \notin Resting ~> pc[c] \in Resting

============================================================================
