--------------------------- MODULE FailoverProofs ---------------------------
(***************************************************************************)
(* Theorems about forwarding to peers and about the local service whose    *)
(* failure causes it.                                                      *)
(*                                                                         *)
(* FailoverPeers, for any number of peers and connections, any cooldowns   *)
(* and any budgets: no peer is tried twice but as the last resort, and the *)
(* time of a connection is shared among its candidates and with the local  *)
(* service.                                                                *)
(*                                                                         *)
(* LocalHealth, for any endpoints, destinations, connections and           *)
(* configurations: the balancers count exactly the connections open on     *)
(* them, a connection gives up only after every slot of its table refused  *)
(* it, and refusal marks are lost neither to a reload nor to a probe that  *)
(* saw an older one.                                                       *)
(***************************************************************************)
EXTENDS FailoverPeers, LocalHealth, FiniteSetTheorems, WellFoundedInduction, TLAPS

\* Every nonempty set of natural numbers has a least element.
LEMMA LeastOf ==
  ASSUME NEW S \in SUBSET Nat, S # {}
  PROVE  \E x \in S : \A y \in S : x <= y
<1> DEFINE R == OpToRel(<, Nat)
<1>1. IsWellFoundedOn(R, Nat)
  BY NatLessThanWellFounded
<1>2. \A x, y \in Nat : <<x, y>> \in R <=> x < y
  BY DEF OpToRel
<1> HIDE DEF R
<1>3. PICK x \in S : \A y \in S : ~ (<<y, x>> \in R)
  BY <1>1, WFMin
<1>4. ASSUME NEW y \in S PROVE x <= y
  <2>1. ~ (y < x)
    BY <1>2, <1>3
  <2> QED
    BY <2>1
<1> QED
  BY <1>3, <1>4

----------------------------------------------------------------------------
(* Forwarding to peers                                                     *)

Trying == {"pick", "attempt"}
Forwarding == Trying \cup {"peek"}

\* The j-th attempt was the chained one: the earliest peer, after the rotation.
Chained(c, j) ==
  /\ j = Len(tried[c])
  /\ pos[c] = N + 1
  /\ tried[c][j] = plan[c].earliest

\* The i-th attempt was a turn of the rotation that lies behind.
InTurn(c, i) == \E k \in 0 .. N - 1 : k < pos[c] /\ tried[c][i] = InRotation(c, k)

\* The rotation passes each peer once; only a connection with nothing to fall
\* back to, or a spilled one, has a peer after it, and the spilled one no rotation.
RotationOK(c) ==
  /\ \A i \in 1 .. Len(tried[c]) : Chained(c, i) \/ InTurn(c, i)
  /\ \A i, j \in 1 .. Len(tried[c]) : i < j /\ tried[c][i] = tried[c][j] => Chained(c, j)
  /\ plan[c].mode = "drain" => plan[c].earliest = NoPeer
  /\ plan[c].mode = "spill" => Len(tried[c]) <= 1 /\ (pos[c] # N + 1 => Len(tried[c]) = 0)

\* An attempt leaves the later candidates some of the time.
TimeOK(c) ==
  /\ pc[c] \in Forwarding =>
       /\ why[c] = "none"
       /\ plan[c].deadline = plan[c].now + Budget(plan[c].mode)
       /\ clock <= plan[c].deadline
  /\ pc[c] = "peek" => tried[c] = <<>>
  /\ pc[c] = "attempt" => tried[c] # <<>>
  /\ pc[c] \in Trying /\ tried[c] # <<>> =>
       /\ clock <= limit[c] /\ limit[c] <= plan[c].deadline
       /\ Len(tried[c]) < plan[c].count => limit[c] < plan[c].deadline
  /\ why[c] = "time" /\ tried[c] # <<>> => Len(tried[c]) >= plan[c].count

\* A connection that rests without having reached the local service was no drain and no spill
\* without candidates.
RestOK(c) ==
  /\ pc[c] \in {"idle", "exhausted"} => plan[c].mode = "down"
  /\ pc[c] \in {"tunnel"} \cup Forwarding => plan[c].count > 0

ForwardInv == ForwardTypeOK /\ \A c \in Clients : RotationOK(c) /\ TimeOK(c) /\ RestOK(c)

----------------------------------------------------------------------------
(* Arithmetic and choices                                                  *)

\* A share of the time left never exceeds it, and one of several is smaller.
LEMMA ShareOf ==
  ASSUME NEW r \in Nat, NEW k \in Nat \ {0}
  PROVE  /\ r \div k \in Nat /\ r \div k <= r
         /\ k >= 2 /\ r > 0 => r \div k < r
OBVIOUS

\* The rotation passes every peer once.
LEMMA RotationInjective ==
  ASSUME NEW s \in Peers
  PROVE  /\ \A k \in 0 .. N - 1 : (s + k) % N \in Peers
         /\ \A j, k \in 0 .. N - 1 : j # k => (s + j) % N # (s + k) % N
BY FailoverConstants DEF Peers

\* A connection that can be served locally spends at most half of its timeout.
LEMMA BudgetBound ==
  ASSUME NEW mode \in {"down", "drain", "spill"}
  PROVE  Budget(mode) \in Nat /\ (mode # "down" => Budget(mode) <= Handshake \div 2)
<1>1. Handshake \in Nat /\ Handshake \div 2 \in Nat /\ DrainBudget \in Nat /\ SpillBudget \in Nat
  BY FailoverConstants
<1> QED
  BY <1>1 DEF Budget, Smaller

\* The peer whose cooldown ends first is one of the peers.
LEMMA EarliestIsPeer ==
  ASSUME ForwardTypeOK
  PROVE  EarliestCooling \in Peers
<1> DEFINE untils == {cooldown[p].until : p \in Peers}
<1>1. 0 \in Peers /\ Peers \subseteq Nat
  BY FailoverConstants DEF Peers
<1>2. untils \in SUBSET Nat /\ untils # {}
  BY <1>1 DEF ForwardTypeOK
<1>3. PICK u \in untils : \A v \in untils : u <= v
  BY <1>2, LeastOf
<1> DEFINE first == {p \in Peers : cooldown[p].until = u}
<1>4. first \in SUBSET Nat /\ first # {}
  BY <1>1, <1>3
<1>5. PICK p \in first : \A q \in first : p <= q
  BY <1>4, LeastOf
<1>6. p \in Peers /\ cooldown[p].until = u
  BY <1>5
<1>7. ASSUME NEW q \in Peers
      PROVE  \/ cooldown[p].until < cooldown[q].until
             \/ cooldown[p].until = cooldown[q].until /\ p <= q
  <2>1. cooldown[q].until \in Nat /\ u \in Nat /\ u <= cooldown[q].until
    BY <1>2, <1>3
  <2>2. cooldown[q].until = u => p <= q
    BY <1>5
  <2> QED
    BY <1>6, <2>1, <2>2
<1> QED
  BY <1>6, <1>7 DEF EarliestCooling

\* The peers outside their cooldown are at most all of them.
LEMMA ReadyCount ==
  ASSUME NEW now
  PROVE  Cardinality(Ready(now)) \in 0 .. N
<1>1. IsFiniteSet(Peers) /\ Cardinality(Peers) = N
  BY FS_Interval, FailoverConstants DEF Peers
<1>2. Ready(now) \in SUBSET Peers
  BY DEF Ready
<1>3. IsFiniteSet(Ready(now)) /\ Cardinality(Ready(now)) <= N
  BY <1>1, <1>2, FS_Subset
<1> QED
  BY <1>3, FS_CardinalityType, FailoverConstants

\* What candidates() decides is a plan made now.
PlannedNow(p) ==
  /\ p \in Plans
  /\ p.now = clock
  /\ p.deadline = clock + Budget(p.mode)
  /\ p.mode = "drain" => p.earliest = NoPeer

\* Any choice of candidates has a plan that fits the peers and the time.
LEMMA ChosenPlanned ==
  ASSUME ForwardTypeOK, NEW mode \in {"down", "drain", "spill"}, NEW start \in Peers, NEW ready,
         Cardinality(ready) \in 0 .. N, NEW earliest \in Peers \cup {NoPeer},
         mode = "drain" => earliest = NoPeer
  PROVE  PlannedNow(Chosen(mode, start, ready, earliest))
<1>1. N \in Nat \ {0} /\ clock \in Nat
  BY FailoverConstants DEF ForwardTypeOK
<1> DEFINE count == Larger(Cardinality(ready), IF earliest = NoPeer THEN 0 ELSE 1)
           p == Chosen(mode, start, ready, earliest)
<1>2. count \in 0 .. N
  BY <1>1 DEF Larger
<1>3. clock + Budget(mode) \in Nat
  BY <1>1, BudgetBound
<1>4. p = [mode |-> mode, now |-> clock, deadline |-> clock + Budget(mode),
           start |-> start, earliest |-> earliest, count |-> count]
  BY DEF Chosen
<1> HIDE DEF count, p
<1>5. PlannedNow(p)
  BY <1>1, <1>2, <1>3, <1>4 DEF PlannedNow, Plans
<1> QED
  BY <1>5 DEF p

\* The plan of candidates(), for a service that is down or drains.
LEMMA CandidatesPlanned ==
  ASSUME ForwardTypeOK, NEW mode \in {"down", "drain"}
  PROVE  PlannedNow(Candidates(mode, cursor))
<1>1. cursor \in Peers
  BY DEF ForwardTypeOK
<1> DEFINE earliest == IF Ready(clock) = {} /\ mode = "down" THEN EarliestCooling ELSE NoPeer
<1>2. earliest \in Peers \cup {NoPeer} /\ (mode = "drain" => earliest = NoPeer)
  BY EarliestIsPeer
<1>3. Candidates(mode, cursor) = Chosen(mode, cursor, Ready(clock), earliest)
  BY DEF Candidates
<1> HIDE DEF earliest
<1>4. Cardinality(Ready(clock)) \in 0 .. N
  BY ReadyCount
<1> QED
  BY <1>1, <1>2, <1>3, <1>4, ChosenPlanned

\* The plan of a spill to one peer.
LEMMA SpillPlanned ==
  ASSUME ForwardTypeOK, NEW i \in Peers
  PROVE  PlannedNow(SpillCandidate(i))
<1> DEFINE earliest == IF CoolingDown(i, clock) THEN NoPeer ELSE i
<1>1. earliest \in Peers \cup {NoPeer}
  OBVIOUS
<1>2. SpillCandidate(i) = Chosen("spill", 0, {}, earliest)
  BY DEF SpillCandidate
<1> HIDE DEF earliest
<1>3. Cardinality({}) \in 0 .. N /\ 0 \in Peers
  BY FS_EmptySet, FailoverConstants DEF Peers
<1> QED
  BY <1>1, <1>2, <1>3, ChosenPlanned

\* The next turn lies ahead, or is the chained peer's, or there is none.
LEMMA TurnAhead ==
  ASSUME ForwardTypeOK, NEW c \in Clients
  PROVE  /\ NextTurn(c) \in 0 .. N + 1
         /\ NextTurn(c) < N =>
              pos[c] <= NextTurn(c) /\ plan[c].mode # "spill"
         /\ NextTurn(c) = N => pos[c] <= N /\ plan[c].earliest # NoPeer
<1>1. N \in Nat \ {0} /\ pos[c] \in 0 .. N + 1
  BY FailoverConstants DEF ForwardTypeOK
<1>2. CASE NextTurns(c) # {}
  <2>1. NextTurns(c) \in SUBSET Nat /\ NextTurns(c) \subseteq pos[c] .. N - 1
        /\ plan[c].mode # "spill"
    BY <1>1, <1>2 DEF NextTurns
  <2>2. \E i \in NextTurns(c) : \A j \in NextTurns(c) : i <= j
    BY <1>2, <2>1, LeastOf
  <2>3. NextTurn(c) \in NextTurns(c)
    BY <1>2, <2>2 DEF NextTurn
  <2> QED
    BY <1>1, <2>1, <2>3
<1>3. CASE NextTurns(c) = {}
  BY <1>1, <1>3 DEF NextTurn
<1> QED
  BY <1>2, <1>3

----------------------------------------------------------------------------
(* The steps                                                               *)

ConnOK(c) == RotationOK(c) /\ TimeOK(c) /\ RestOK(c)

\* A connection that does not move while the clock stands still.
LEMMA Untouched ==
  ASSUME NEW d \in Clients, ConnOK(d), UNCHANGED clock,
         UNCHANGED <<pc[d], plan[d], pos[d], tried[d], limit[d], why[d]>>
  PROVE  ConnOK(d)'
<1>1. RotationOK(d)'
  BY DEF ConnOK, RotationOK, Chained, InTurn, InRotation
<1>2. TimeOK(d)' /\ RestOK(d)'
  BY DEF ConnOK, TimeOK, RestOK, Budget
<1> QED
  BY <1>1, <1>2 DEF ConnOK

\* A connection that rests without having run out of time.
LEMMA Rests ==
  ASSUME NEW c \in Clients, ConnOK(c), UNCHANGED <<plan[c], pos[c], tried[c]>>,
         pc'[c] \in Resting, pc'[c] \in {"idle", "exhausted"} => plan[c].mode = "down",
         pc'[c] = "tunnel" => plan[c].count > 0,
         why'[c] = "time" /\ tried[c] # <<>> => Len(tried[c]) >= plan[c].count
  PROVE  ConnOK(c)'
<1>1. RotationOK(c)'
  BY DEF ConnOK, RotationOK, Chained, InTurn, InRotation
<1>2. TimeOK(c)' /\ RestOK(c)'
  BY DEF ConnOK, TimeOK, RestOK, Budget, Resting, Forwarding, Trying
<1> QED
  BY <1>1, <1>2 DEF ConnOK

\* Each action preserves the invariant: arrivals, the peek, the attempts.
LEMMA ArriveStep ==
  ASSUME ForwardInv, NEW c \in Clients, NEW p, PlannedNow(p), Forward(c, p), cursor' \in Peers
  PROVE  ForwardInv'
<1>1. ForwardTypeOK /\ \A d \in Clients : ConnOK(d)
  BY DEF ForwardInv, ConnOK
<1>2. /\ plan' = [plan EXCEPT ![c] = p]
      /\ pos' = [pos EXCEPT ![c] = 0]
      /\ tried' = [tried EXCEPT ![c] = <<>>]
      /\ limit' = [limit EXCEPT ![c] = 0]
      /\ UNCHANGED <<clock, cooldown>>
  BY DEF Forward
<1>3. PICK to \in {"exhausted", "local", "peek"}, reason \in {"noCandidate", "none"} :
        /\ pc' = [pc EXCEPT ![c] = to]
        /\ why' = [why EXCEPT ![c] = reason]
        /\ to = "peek" => p.count > 0 /\ reason = "none"
        /\ to = "exhausted" => p.mode = "down"
  BY DEF Forward, GiveUp, GivenUp
<1>4. p \in Plans /\ p.mode \in {"down", "drain", "spill"} /\ p.count \in Nat
      /\ N \in Nat \ {0} /\ clock \in Nat /\ Budget(p.mode) \in Nat
  <2>1. p \in Plans /\ N \in Nat \ {0} /\ clock \in Nat
    BY <1>1, FailoverConstants DEF PlannedNow, ForwardTypeOK
  <2>2. p.mode \in {"down", "drain", "spill"} /\ p.count \in Nat
    BY <2>1 DEF Plans
  <2> QED
    BY <2>1, <2>2, BudgetBound
<1>5. ForwardTypeOK'
  BY <1>1, <1>2, <1>3, <1>4 DEF ForwardTypeOK, Resting
<1>6. /\ plan'[c] = p /\ pos'[c] = 0 /\ tried'[c] = <<>> /\ limit'[c] = 0
      /\ pc'[c] = to /\ why'[c] = reason
  BY <1>1, <1>2, <1>3 DEF ForwardTypeOK
<1>7. RotationOK(c)'
  BY <1>4, <1>6 DEF RotationOK, PlannedNow
<1>8. TimeOK(c)' /\ RestOK(c)'
  BY <1>2, <1>3, <1>4, <1>6 DEF TimeOK, RestOK, PlannedNow, Forwarding, Trying, Budget
<1>9. ASSUME NEW d \in Clients, d # c PROVE ConnOK(d)'
  <2>1. UNCHANGED <<pc[d], plan[d], pos[d], tried[d], limit[d], why[d]>>
    BY <1>1, <1>2, <1>3, <1>9 DEF ForwardTypeOK
  <2> QED
    BY <1>1, <1>2, <2>1, Untouched
<1> QED
  BY <1>5, <1>7, <1>8, <1>9 DEF ForwardInv, ConnOK

LEMMA ArriveIncompleteStep ==
  ASSUME ForwardInv, NEW c \in Clients, ArriveIncomplete(c)
  PROVE  ForwardInv'
<1>1. ForwardTypeOK /\ \A d \in Clients : ConnOK(d)
  BY DEF ForwardInv, ConnOK
<1>2. PICK mode \in Modes :
        /\ plan' = [plan EXCEPT ![c] = [NoPlan EXCEPT !.mode = mode]]
        /\ GiveUp(c, mode, "noHello")
  BY DEF ArriveIncomplete
<1> DEFINE p == [NoPlan EXCEPT !.mode = mode]
<1>3. mode \in {"down", "drain", "spill"} /\ N \in Nat \ {0}
  BY FailoverConstants
<1>4. p \in Plans /\ p.mode = mode /\ p.earliest = NoPeer
  BY <1>3 DEF NoPlan, Plans, Peers
<1>5. /\ plan' = [plan EXCEPT ![c] = p]
      /\ pos' = [pos EXCEPT ![c] = 0]
      /\ tried' = [tried EXCEPT ![c] = <<>>]
      /\ limit' = [limit EXCEPT ![c] = 0]
      /\ UNCHANGED <<clock, cooldown, cursor>>
      /\ pc' = [pc EXCEPT ![c] = GivenUp(mode)]
      /\ why' = [why EXCEPT ![c] = "noHello"]
  BY <1>2 DEF ArriveIncomplete, GiveUp
<1> HIDE DEF p
<1>6. GivenUp(mode) \in {"exhausted", "local"} /\ (GivenUp(mode) = "exhausted" => mode = "down")
  BY DEF GivenUp
<1>7. ForwardTypeOK'
  BY <1>1, <1>3, <1>4, <1>5, <1>6 DEF ForwardTypeOK, Resting
<1>8. /\ plan'[c] = p /\ pos'[c] = 0 /\ tried'[c] = <<>> /\ limit'[c] = 0
      /\ pc'[c] = GivenUp(mode) /\ why'[c] = "noHello"
  BY <1>1, <1>5 DEF ForwardTypeOK
<1>9. RotationOK(c)'
  BY <1>3, <1>4, <1>8 DEF RotationOK
<1>10. TimeOK(c)' /\ RestOK(c)'
  BY <1>4, <1>6, <1>8 DEF TimeOK, RestOK, Forwarding, Trying
<1>11. ASSUME NEW d \in Clients, d # c PROVE ConnOK(d)'
  <2>1. UNCHANGED <<pc[d], plan[d], pos[d], tried[d], limit[d], why[d]>>
    BY <1>1, <1>5, <1>11 DEF ForwardTypeOK
  <2> QED
    BY <1>1, <1>5, <2>1, Untouched
<1> QED
  BY <1>7, <1>9, <1>10, <1>11 DEF ForwardInv, ConnOK

\* A connection gives up or is handed over.
LEMMA RestStep ==
  ASSUME ForwardInv, NEW c \in Clients, NEW to \in Resting,
         NEW reason \in {"none", "noHello", "noCandidate", "peek", "noneLeft", "time"},
         pc' = [pc EXCEPT ![c] = to], why' = [why EXCEPT ![c] = reason],
         to \in {"idle", "exhausted"} => plan[c].mode = "down",
         to = "tunnel" => plan[c].count > 0,
         reason = "time" /\ tried[c] # <<>> => Len(tried[c]) >= plan[c].count,
         UNCHANGED <<clock, cursor, plan, pos, tried, limit>>,
         cooldown' \in [Peers -> [streak : 0 .. MaxStreak, until : Nat]]
  PROVE  ForwardInv'
<1>1. ForwardTypeOK /\ \A d \in Clients : ConnOK(d)
  BY DEF ForwardInv, ConnOK
<1>2. ForwardTypeOK'
  BY <1>1 DEF ForwardTypeOK
<1>3. pc'[c] = to /\ why'[c] = reason
  BY <1>1 DEF ForwardTypeOK
<1>4. ConnOK(c)'
  BY <1>1, <1>3, Rests
<1>5. ASSUME NEW d \in Clients, d # c PROVE ConnOK(d)'
  <2>1. UNCHANGED <<pc[d], plan[d], pos[d], tried[d], limit[d], why[d]>>
    BY <1>1, <1>5 DEF ForwardTypeOK
  <2> QED
    BY <1>1, <2>1, Untouched
<1> QED
  BY <1>2, <1>4, <1>5 DEF ForwardInv, ConnOK

\* A peek that completes starts the rotation at the present time.
LEMMA PeekedStep ==
  ASSUME ForwardInv, NEW c \in Clients, Peeked(c)
  PROVE  ForwardInv'
<1>1. ForwardTypeOK /\ \A d \in Clients : ConnOK(d)
  BY DEF ForwardInv, ConnOK
<1>2. /\ pc[c] = "peek" /\ pc' = [pc EXCEPT ![c] = "pick"]
      /\ UNCHANGED <<clock, cooldown, cursor, plan, pos, tried, limit, why>>
  BY DEF Peeked
<1>3. ForwardTypeOK'
  BY <1>1, <1>2 DEF ForwardTypeOK
<1>4. pc'[c] = "pick"
  BY <1>1, <1>2 DEF ForwardTypeOK
<1>5. RotationOK(c)'
  BY <1>1, <1>2 DEF ConnOK, RotationOK, Chained, InTurn, InRotation
<1>6. TimeOK(c)' /\ RestOK(c)'
  BY <1>1, <1>2, <1>4 DEF ConnOK, TimeOK, RestOK, Budget, Forwarding, Trying
<1>7. ASSUME NEW d \in Clients, d # c PROVE ConnOK(d)'
  <2>1. UNCHANGED <<pc[d], plan[d], pos[d], tried[d], limit[d], why[d]>>
    BY <1>1, <1>2, <1>7 DEF ForwardTypeOK
  <2> QED
    BY <1>1, <1>2, <2>1, Untouched
<1> QED
  BY <1>3, <1>5, <1>6, <1>7 DEF ForwardInv, ConnOK

LEMMA PeekFailedStep ==
  ASSUME ForwardInv, NEW c \in Clients, PeekFailed(c)
  PROVE  ForwardInv'
<1> DEFINE to == GivenUp(plan[c].mode)
<1>1. ForwardTypeOK /\ \A d \in Clients : ConnOK(d)
  BY DEF ForwardInv, ConnOK
<1>2. to \in Resting /\ (to \in {"idle", "exhausted"} => plan[c].mode = "down") /\ to # "tunnel"
  BY DEF GivenUp, Resting
<1>3. /\ pc' = [pc EXCEPT ![c] = to] /\ why' = [why EXCEPT ![c] = "peek"]
      /\ UNCHANGED <<clock, cooldown, cursor, plan, pos, tried, limit>>
  BY DEF PeekFailed, GiveUp
<1>4. cooldown' \in [Peers -> [streak : 0 .. MaxStreak, until : Nat]]
  BY <1>1, <1>3 DEF ForwardTypeOK
<1> HIDE DEF to
<1> QED
  BY <1>2, <1>3, <1>4, RestStep

\* The next attempt: another peer than all before, or the last resort; with a share
\* of the time that leaves some for the candidates to come.
LEMMA AttemptStep ==
  ASSUME ForwardInv, NEW c \in Clients, pc[c] = "pick", NextTurn(c) <= N, Remaining(c) > 0,
         pc' = [pc EXCEPT ![c] = "attempt"],
         pos' = [pos EXCEPT ![c] = NextTurn(c) + 1],
         tried' = [tried EXCEPT ![c] = Append(@, PeerAt(c, NextTurn(c)))],
         limit' = [limit EXCEPT ![c] = clock + Share(c)],
         UNCHANGED <<clock, cooldown, cursor, plan, why>>
  PROVE  ForwardInv'
<1> DEFINE share == Share(c)
<1>1. ForwardTypeOK /\ \A d \in Clients : ConnOK(d)
  BY DEF ForwardInv, ConnOK
<1>0. PICK turn, peer, n : turn = NextTurn(c) /\ peer = PeerAt(c, turn) /\ n = Len(tried[c])
  OBVIOUS
<1>2. /\ N \in Nat \ {0} /\ clock \in Nat /\ pos[c] \in 0 .. N + 1 /\ plan[c] \in Plans
      /\ tried[c] \in Seq(Peers) /\ n \in Nat /\ plan[c].start \in Peers
      /\ plan[c].deadline \in Nat /\ plan[c].count \in Nat
      /\ plan[c].earliest \in Peers \cup {NoPeer}
  BY <1>0, <1>1, FailoverConstants DEF ForwardTypeOK, Plans
<1>3. /\ turn \in 0 .. N
      /\ turn < N => pos[c] <= turn /\ plan[c].mode # "spill"
      /\ turn = N => pos[c] <= N /\ plan[c].earliest # NoPeer
  BY <1>0, <1>1, <1>2, TurnAhead
<1>4. peer = (IF turn = N THEN plan[c].earliest ELSE InRotation(c, turn)) /\ peer \in Peers
  <2>1. turn < N => InRotation(c, turn) \in Peers
    BY <1>2, <1>3, RotationInjective DEF InRotation
  <2> QED
    BY <1>0, <1>2, <1>3, <2>1 DEF PeerAt
<1>5. /\ share \in Nat /\ clock + share <= plan[c].deadline
      /\ n + 1 < plan[c].count => clock + share < plan[c].deadline
  <2>1. Remaining(c) = plan[c].deadline - clock /\ Remaining(c) \in Nat
    BY <1>2, SMTT(30) DEF Remaining, Larger
  <2> DEFINE k == Larger(plan[c].count - n, 1)
  <2>2. k \in Nat \ {0} /\ (n + 1 < plan[c].count => k >= 2)
    BY <1>2, SMTT(30) DEF Larger
  <2>3. share = Remaining(c) \div k
    BY <1>0 DEF Share
  <2> HIDE DEF k
  <2>4. share \in Nat /\ share <= Remaining(c) /\ (k >= 2 => share < Remaining(c))
    BY <2>1, <2>2, <2>3, ShareOf
  <2> HIDE DEF share
  <2> QED
    BY <1>2, <2>1, <2>2, <2>4
<1> HIDE DEF share
<1>6. /\ tried'[c] = Append(tried[c], peer) /\ pos'[c] = turn + 1
      /\ pc'[c] = "attempt" /\ limit'[c] = clock + share
  BY <1>0, <1>1 DEF ForwardTypeOK, share
<1>7. /\ tried'[c] \in Seq(Peers) /\ Len(tried'[c]) = n + 1
      /\ tried'[c][n + 1] = peer
      /\ \A i \in 1 .. n : tried'[c][i] = tried[c][i]
      /\ tried'[c] # <<>>
  BY <1>0, <1>2, <1>4, <1>6
<1>8. ForwardTypeOK'
  <2>1. turn + 1 \in 0 .. N + 1 /\ clock + share \in Nat
    BY <1>2, <1>3, <1>5
  <2>2. tried' \in [Clients -> Seq(Peers)]
    BY <1>1, <1>6, <1>7 DEF ForwardTypeOK
  <2> QED
    BY <1>0, <1>1, <2>1, <2>2 DEF ForwardTypeOK, share
<1>9. RotationOK(c)'
  <2>0. RotationOK(c) /\ plan'[c] = plan[c]
    BY <1>1 DEF ConnOK
  <2>1. \A i \in 1 .. n :
          \E k \in 0 .. N - 1 : k < pos[c] /\ tried[c][i] = InRotation(c, k)
    BY <1>0, <1>2, <1>3, <2>0 DEF RotationOK, Chained, InTurn
  <2>2. \A i \in 1 .. n : InTurn(c, i)'
    <3> TAKE i \in 1 .. n
    <3>1. PICK k \in 0 .. N - 1 : k < pos[c] /\ tried[c][i] = InRotation(c, k)
      BY <2>1
    <3>2. tried'[c][i] = InRotation(c, k)'
      BY <1>7, <2>0, <3>1 DEF InRotation
    <3>3. k < pos'[c]
      BY <1>2, <1>3, <1>6, <3>1
    <3> QED
      BY <3>2, <3>3 DEF InTurn
  <2>3. CASE turn < N
    <3>1. \A k \in 0 .. N - 1 : k < pos[c] => InRotation(c, k) # peer
      BY <1>2, <1>3, <1>4, <2>3, RotationInjective DEF InRotation
    <3>2. \A i \in 1 .. n : tried[c][i] # peer
      BY <2>1, <3>1
    <3>3. InTurn(c, n + 1)'
      <4>1. peer = InRotation(c, turn)'
        BY <1>3, <1>4, <2>0, <2>3 DEF InRotation
      <4>2. turn \in 0 .. N - 1 /\ turn < pos'[c]
        BY <1>2, <1>3, <1>6, <2>3
      <4> QED
        BY <1>7, <4>1, <4>2 DEF InTurn
    <3>4. \A i \in 1 .. Len(tried'[c]) : Chained(c, i)' \/ InTurn(c, i)'
      BY <1>2, <1>7, <2>2, <3>3
    <3>5. \A i, j \in 1 .. n : i < j => tried[c][i] # tried[c][j]
      BY <1>0, <1>2, <1>3, <2>0, <2>3 DEF RotationOK, Chained
    <3>6. \A i, j \in 1 .. Len(tried'[c]) : i < j => tried'[c][i] # tried'[c][j]
      BY <1>2, <1>7, <3>2, <3>5
    <3> QED
      BY <1>3, <2>0, <2>3, <3>4, <3>6 DEF RotationOK
  <2>4. CASE turn = N
    <3>1. Chained(c, n + 1)'
      BY <1>2, <1>4, <1>6, <1>7, <2>0, <2>4 DEF Chained
    <3>2. \A i \in 1 .. Len(tried'[c]) : Chained(c, i)' \/ InTurn(c, i)'
      BY <1>2, <1>7, <2>2, <3>1
    <3>3. \A i, j \in 1 .. n : i < j => tried[c][i] # tried[c][j]
      BY <1>0, <1>2, <1>3, <2>0, <2>4 DEF RotationOK, Chained
    <3>4. \A i, j \in 1 .. Len(tried'[c]) : i < j /\ tried'[c][i] = tried'[c][j] => Chained(c, j)'
      BY <1>2, <1>7, <3>1, <3>3
    <3>5. plan[c].mode = "spill" => n = 0
      BY <1>0, <1>2, <1>3, <2>0, <2>4 DEF RotationOK
    <3> QED
      BY <1>2, <1>3, <1>6, <1>7, <2>0, <2>4, <3>2, <3>4, <3>5 DEF RotationOK
  <2> QED
    BY <1>2, <1>3, <2>3, <2>4
<1>10. TimeOK(c)' /\ RestOK(c)'
  <2>1. TimeOK(c) /\ RestOK(c)
    BY <1>1 DEF ConnOK
  <2>2. UNCHANGED <<plan[c], why[c], clock>>
    OBVIOUS
  <2> QED
    <3>1. /\ why[c] = "none" /\ plan[c].deadline = plan[c].now + Budget(plan[c].mode)
          /\ clock <= plan[c].deadline /\ plan[c].count > 0
      BY <2>1 DEF TimeOK, RestOK, Forwarding, Trying
    <3>2. /\ why'[c] = "none" /\ plan'[c].deadline = plan'[c].now + Budget(plan'[c].mode)
          /\ clock' <= plan'[c].deadline /\ plan'[c].count > 0
      BY <2>2, <3>1
    <3>3. clock' <= limit'[c] /\ limit'[c] <= plan'[c].deadline
          /\ (Len(tried'[c]) < plan'[c].count => limit'[c] < plan'[c].deadline)
      BY <1>2, <1>5, <1>6, <1>7, <2>2
    <3>4. TimeOK(c)'
      BY <1>6, <1>7, <3>2, <3>3 DEF TimeOK, Budget
    <3> QED
      BY <1>6, <3>2, <3>4 DEF RestOK, Forwarding, Trying
<1>11. ASSUME NEW d \in Clients, d # c PROVE ConnOK(d)'
  <2>1. UNCHANGED <<pc[d], plan[d], pos[d], tried[d], limit[d], why[d]>>
    BY <1>1, <1>11 DEF ForwardTypeOK
  <2> QED
    BY <1>1, <2>1, Untouched
<1> QED
  BY <1>8, <1>9, <1>10, <1>11 DEF ForwardInv, ConnOK

\* When the time has run out, every candidate has had its turn.
LEMMA PickStep ==
  ASSUME ForwardInv, NEW c \in Clients, Pick(c)
  PROVE  ForwardInv'
<1>1. ForwardTypeOK /\ \A d \in Clients : ConnOK(d)
  BY DEF ForwardInv, ConnOK
<1>2. pc[c] = "pick" /\ UNCHANGED <<clock, cooldown, cursor, plan>>
  BY DEF Pick
<1>3. CASE /\ pc' = [pc EXCEPT ![c] = "attempt"]
           /\ NextTurn(c) <= N /\ Remaining(c) > 0
           /\ pos' = [pos EXCEPT ![c] = NextTurn(c) + 1]
           /\ tried' = [tried EXCEPT ![c] = Append(@, PeerAt(c, NextTurn(c)))]
           /\ limit' = [limit EXCEPT ![c] = clock + Share(c)]
           /\ UNCHANGED why
  BY <1>2, <1>3, AttemptStep
<1>4. ASSUME NEW reason \in {"noneLeft", "time"}, GiveUp(c, plan[c].mode, reason),
             UNCHANGED <<pos, tried, limit>>, reason = "time" => Remaining(c) = 0
      PROVE  ForwardInv'
  <2> DEFINE to == GivenUp(plan[c].mode)
  <2>1. to \in Resting /\ (to \in {"idle", "exhausted"} => plan[c].mode = "down")
        /\ to # "tunnel"
    BY DEF GivenUp, Resting
  <2>2. pc' = [pc EXCEPT ![c] = to] /\ why' = [why EXCEPT ![c] = reason]
    BY <1>4 DEF GiveUp
  <2>3. cooldown' \in [Peers -> [streak : 0 .. MaxStreak, until : Nat]]
    BY <1>1, <1>2 DEF ForwardTypeOK
  <2>4. reason = "time" /\ tried[c] # <<>> => Len(tried[c]) >= plan[c].count
    <3>1. clock \in Nat /\ plan[c].deadline \in Nat /\ plan[c].count \in Nat
          /\ Len(tried[c]) \in Nat /\ limit[c] \in Nat
      BY <1>1, FailoverConstants DEF ForwardTypeOK, Plans
    <3>2. reason = "time" => clock >= plan[c].deadline
      BY <1>4, <3>1 DEF Remaining, Larger
    <3>3. TimeOK(c)
      BY <1>1 DEF ConnOK
    <3> QED
      BY <1>2, <3>1, <3>2, <3>3 DEF TimeOK, Trying
  <2> HIDE DEF to
  <2> QED
    BY <1>2, <1>4, <2>1, <2>2, <2>3, <2>4, RestStep
<1> QED
  BY <1>3, <1>4 DEF Pick

\* An answered attempt clears the cooldown and ends the forward.
LEMMA PeerAnswersStep ==
  ASSUME ForwardInv, NEW c \in Clients, PeerAnswers(c)
  PROVE  ForwardInv'
<1>1. ForwardTypeOK /\ ConnOK(c)
  BY DEF ForwardInv, ConnOK
<1>2. /\ pc' = [pc EXCEPT ![c] = "tunnel"] /\ why' = [why EXCEPT ![c] = why[c]]
      /\ UNCHANGED <<clock, cursor, plan, pos, tried, limit>>
      /\ why[c] = "none" /\ plan[c].count > 0
  BY <1>1 DEF PeerAnswers, ForwardTypeOK, ConnOK, TimeOK, RestOK, Forwarding, Trying
<1>3. cooldown' \in [Peers -> [streak : 0 .. MaxStreak, until : Nat]]
  <2>1. NoCooldown \in [streak : 0 .. MaxStreak, until : Nat]
    BY FailoverConstants DEF NoCooldown
  <2> QED
    BY <1>1, <2>1 DEF PeerAnswers, ForwardTypeOK
<1>4. "tunnel" \in Resting
  BY DEF Resting
<1> QED
  BY <1>2, <1>3, <1>4, RestStep

\* record_failure keeps the word in its range and never brings the end nearer.
LEMMA FailureWord ==
  ASSUME NEW w \in [streak : 0 .. MaxStreak, until : Nat], NEW now \in Nat
  PROVE  /\ AfterFailure(w, now) \in [streak : 0 .. MaxStreak, until : Nat]
         /\ AfterFailure(w, now).until >= w.until
<1> DEFINE streak == Smaller(w.streak + 1, MaxStreak)
           until == Larger(w.until, now + Backoff(streak))
<1>1. streak \in 0 .. MaxStreak /\ streak - 1 \in Nat
  BY FailoverConstants DEF Smaller
<1>2. Backoff(streak) \in Int
  <2>1. 2 ^ (streak - 1) \in Int
    BY <1>1
  <2>2. CoolMin * 2 ^ (streak - 1) \in Int /\ CoolMax \in Int
    BY <2>1, FailoverConstants
  <2> QED
    BY <2>2 DEF Backoff, Smaller
<1>3. until \in Nat /\ until >= w.until
  BY <1>2 DEF Larger
<1>4. AfterFailure(w, now) = [streak |-> streak, until |-> until]
  BY DEF AfterFailure
<1> HIDE DEF streak, until
<1> QED
  BY <1>1, <1>3, <1>4

\* A failed attempt sets a cooldown and passes to the next turn.
LEMMA FailAttemptStep ==
  ASSUME ForwardInv, NEW c \in Clients, FailAttempt(c)
  PROVE  ForwardInv'
<1>1. ForwardTypeOK /\ \A d \in Clients : ConnOK(d)
  BY DEF ForwardInv, ConnOK
<1>2. /\ pc[c] = "attempt" /\ pc' = [pc EXCEPT ![c] = "pick"]
      /\ UNCHANGED <<clock, cursor, plan, pos, tried, limit, why>>
  BY DEF FailAttempt
<1>3. cooldown' \in [Peers -> [streak : 0 .. MaxStreak, until : Nat]]
  <2>1. cooldown' = [cooldown EXCEPT ![Current(c)] = AfterFailure(cooldown[Current(c)], clock)]
    BY DEF FailAttempt
  <2>2. \A p \in Peers : AfterFailure(cooldown[p], clock) \in [streak : 0 .. MaxStreak, until : Nat]
    BY <1>1, FailureWord DEF ForwardTypeOK
  <2> QED
    BY <1>1, <2>1, <2>2 DEF ForwardTypeOK
<1>4. ForwardTypeOK' /\ pc'[c] = "pick"
  BY <1>1, <1>2, <1>3 DEF ForwardTypeOK
<1>5. RotationOK(c)'
  BY <1>1, <1>2 DEF ConnOK, RotationOK, Chained, InTurn, InRotation
<1>6. TimeOK(c)' /\ RestOK(c)'
  BY <1>1, <1>2, <1>4 DEF ConnOK, TimeOK, RestOK, Budget, Forwarding, Trying
<1>7. ASSUME NEW d \in Clients, d # c PROVE ConnOK(d)'
  <2>1. UNCHANGED <<pc[d], plan[d], pos[d], tried[d], limit[d], why[d]>>
    BY <1>1, <1>2, <1>7 DEF ForwardTypeOK
  <2> QED
    BY <1>1, <1>2, <2>1, Untouched
<1> QED
  BY <1>4, <1>5, <1>6, <1>7 DEF ForwardInv, ConnOK

\* Time passes, but never beyond the end of an attempt or of a peek.
LEMMA TickStep ==
  ASSUME ForwardInv, Tick
  PROVE  ForwardInv'
<1>1. ForwardTypeOK /\ \A d \in Clients : ConnOK(d)
  BY DEF ForwardInv, ConnOK
<1>2. clock' = clock + 1 /\ UNCHANGED <<cooldown, cursor, pc, plan, pos, tried, limit, why>>
  BY DEF Tick
<1>3. ForwardTypeOK'
  BY <1>1, <1>2 DEF ForwardTypeOK
<1>4. ASSUME NEW d \in Clients PROVE RotationOK(d)' /\ TimeOK(d)' /\ RestOK(d)'
  <2>1. clock \in Nat /\ limit[d] \in Nat /\ plan[d].deadline \in Nat
    BY <1>1 DEF ForwardTypeOK, Plans
  <2>2. /\ pc[d] # "pick"
        /\ pc[d] = "peek" => clock < plan[d].deadline
        /\ pc[d] = "attempt" => clock < limit[d]
    BY <2>1 DEF Tick, TimedOut
  <2>3. RotationOK(d)'
    BY <1>1, <1>2 DEF ConnOK, RotationOK, Chained, InTurn, InRotation
  <2>4. TimeOK(d)'
    <3>1. TimeOK(d)
      BY <1>1 DEF ConnOK
    <3>2. pc[d] \in Forwarding => pc[d] \in {"peek", "attempt"}
      BY <2>2 DEF Forwarding, Trying
    <3>3. pc[d] \in Trying => pc[d] = "attempt"
      BY <2>2 DEF Trying
    <3>4. pc[d] = "attempt" => clock + 1 <= limit[d] /\ limit[d] <= plan[d].deadline
      BY <2>1, <2>2, <3>1 DEF TimeOK, Trying
    <3>5. pc[d] \in Forwarding => clock + 1 <= plan[d].deadline
      BY <2>1, <2>2, <3>2, <3>4
    <3> QED
      BY <1>2, <3>1, <3>3, <3>4, <3>5 DEF TimeOK, Budget
  <2>5. RestOK(d)'
    BY <1>1, <1>2 DEF ConnOK, RestOK
  <2> QED
    BY <2>3, <2>4, <2>5
<1> QED
  BY <1>3, <1>4 DEF ForwardInv


\* The invariant holds initially.
LEMMA InitInv == ForwardInit => ForwardInv
<1> SUFFICES ASSUME ForwardInit PROVE ForwardInv
  OBVIOUS
<1>1. N \in Nat \ {0} /\ 0 \in Peers /\ MaxStreak \in Nat
  BY FailoverConstants DEF Peers
<1>2. NoPlan \in Plans /\ NoPlan.mode = "down"
  BY <1>1 DEF NoPlan, Plans
<1>3. NoCooldown \in [streak : 0 .. MaxStreak, until : Nat]
  BY <1>1 DEF NoCooldown
<1>4. ForwardTypeOK
  BY <1>1, <1>2, <1>3 DEF ForwardInit, ForwardTypeOK, Resting
<1>5. \A c \in Clients : /\ pc[c] = "idle" /\ plan[c] = NoPlan /\ tried[c] = <<>> /\ why[c] = "none"
  BY DEF ForwardInit
<1>6. \A c \in Clients : RotationOK(c) /\ TimeOK(c) /\ RestOK(c)
  BY <1>2, <1>5 DEF RotationOK, TimeOK, RestOK, Forwarding, Trying
<1> QED
  BY <1>4, <1>6 DEF ForwardInv

\* A reload starts the rotation over; the connections under way do not notice.
LEMMA CursorStep ==
  ASSUME ForwardInv, cursor' \in Peers,
         UNCHANGED <<clock, cooldown, pc, plan, pos, tried, limit, why>>
  PROVE  ForwardInv'
<1>1. ForwardTypeOK /\ \A d \in Clients : ConnOK(d)
  BY DEF ForwardInv, ConnOK
<1>2. ForwardTypeOK'
  BY <1>1 DEF ForwardTypeOK
<1>3. \A d \in Clients : ConnOK(d)'
  BY <1>1, Untouched
<1> QED
  BY <1>2, <1>3 DEF ForwardInv, ConnOK

\* Every step preserves the invariant.
LEMMA StepInv == ForwardInv /\ [ForwardNext]_forwardVars => ForwardInv'
<1> SUFFICES ASSUME ForwardInv, [ForwardNext]_forwardVars PROVE ForwardInv'
  OBVIOUS
<1>1. ForwardTypeOK /\ cursor \in Peers /\ N \in Nat \ {0} /\ 0 \in Peers
  BY FailoverConstants DEF ForwardInv, ForwardTypeOK, Peers
<1>2. ASSUME NEW c \in Clients, ArriveInRotation(c) PROVE ForwardInv'
  <2>1. PICK mode \in Modes \ {"spill"} :
          Forward(c, Candidates(mode, cursor)) /\ cursor' = (cursor + 1) % N
    BY <1>2 DEF ArriveInRotation
  <2>2. mode \in {"down", "drain"}
    BY FailoverConstants
  <2>3. cursor' \in Peers
    BY <1>1, <2>1 DEF Peers
  <2> QED
    BY <1>1, <2>1, <2>2, <2>3, CandidatesPlanned, ArriveStep
<1>3. ASSUME NEW c \in Clients, ArriveSpilled(c) PROVE ForwardInv'
  BY <1>1, <1>3, SpillPlanned, ArriveStep DEF ArriveSpilled
<1>4. ASSUME NEW c \in Clients,
             \/ ArriveIncomplete(c) \/ Peeked(c) \/ PeekFailed(c) \/ Pick(c) \/ PeerAnswers(c)
             \/ PeerFails(c) \/ AttemptTimesOut(c)
      PROVE  ForwardInv'
  BY <1>4, ArriveIncompleteStep, PeekedStep, PeekFailedStep, PickStep, PeerAnswersStep,
     FailAttemptStep DEF PeerFails, AttemptTimesOut
<1>5. CASE Reload
  BY <1>1, <1>5, CursorStep DEF Reload
<1>6. CASE Tick
  BY <1>6, TickStep
<1>7. CASE UNCHANGED forwardVars
  BY <1>1, <1>7, CursorStep DEF forwardVars
<1> QED
  BY <1>2, <1>3, <1>4, <1>5, <1>6, <1>7 DEF ForwardNext

\* The invariant holds in every reachable state.
LEMMA Invariant == ForwardSpec => []ForwardInv
BY InitInv, StepInv, PTL DEF ForwardSpec

----------------------------------------------------------------------------
(* What the invariant says                                                 *)

\* The invariant gives the claim on repeats.
LEMMA InvImpliesRepeats == ForwardInv => RepeatsOnlyEarliest
<1> SUFFICES ASSUME ForwardInv, NEW c \in Clients, NEW i \in 1 .. Len(tried[c]),
                    NEW j \in 1 .. Len(tried[c]), i < j, tried[c][i] = tried[c][j]
             PROVE  /\ plan[c].mode = "down"
                    /\ j = Len(tried[c])
                    /\ tried[c][j] = plan[c].earliest
  BY DEF RepeatsOnlyEarliest
<1>1. ForwardTypeOK /\ RotationOK(c)
  BY DEF ForwardInv
<1>2. j = Len(tried[c]) /\ tried[c][j] = plan[c].earliest
  BY <1>1 DEF RotationOK, Chained
<1>3. tried[c] \in Seq(Peers) /\ plan[c].mode \in {"down", "drain", "spill"}
      /\ Len(tried[c]) \in Nat
  BY <1>1, SMTT(30) DEF ForwardTypeOK, Plans
<1>4. tried[c][j] \in Peers /\ NoPeer \notin Peers
  BY <1>3, FailoverConstants DEF Peers, NoPeer
<1>5. plan[c].mode # "drain"
  BY <1>1, <1>2, <1>4 DEF RotationOK
<1>6. plan[c].mode # "spill"
  BY <1>1, <1>2, <1>3 DEF RotationOK
<1> QED
  BY <1>2, <1>3, <1>5, <1>6

\* Under the invariant every step shares the time as claimed.
LEMMA InvImpliesTime == ForwardInv => TimeForEveryCandidate
BY DEF ForwardInv, TimeOK, TimeForEveryCandidate

\* A connection comes to the local service from a forward that was under way, with
\* the deadline of its plan, or at once, at the very time of its plan.
LEMMA HalfLeft == ForwardInv /\ [ForwardNext]_forwardVars => HalfLeftForLocal
<1> SUFFICES ASSUME ForwardInv, [ForwardNext]_forwardVars, NEW c \in Clients, pc[c] # "local", pc'[c] = "local",
                    plan[c] = plan'[c]
             PROVE  clock <= plan[c].now + Handshake \div 2
  BY DEF HalfLeftForLocal
<1>1. /\ ForwardTypeOK /\ TimeOK(c) /\ RestOK(c)
      /\ clock \in Nat /\ plan[c].now \in Nat /\ Handshake \div 2 \in Nat
      /\ plan[c].mode \in {"down", "drain", "spill"} /\ plan[c] \in Plans
  <2>1. ForwardTypeOK /\ TimeOK(c) /\ RestOK(c)
    BY DEF ForwardInv
  <2>2. Handshake \div 2 \in Nat
    BY FailoverConstants
  <2>3. clock \in Nat /\ plan[c] \in Plans
    BY <2>1 DEF ForwardTypeOK
  <2>4. plan[c].now \in Nat /\ plan[c].mode \in {"down", "drain", "spill"}
    BY <2>3 DEF Plans
  <2> QED
    BY <2>1, <2>2, <2>3, <2>4
<1>2. ASSUME pc[c] \in Forwarding, plan[c].mode # "down"
      PROVE  clock <= plan[c].now + Handshake \div 2
  BY <1>1, <1>2, BudgetBound, SMTT(30) DEF TimeOK
<1>3. ASSUME NEW d \in Clients, NEW p, PlannedNow(p), Forward(d, p)
      PROVE  clock <= plan[c].now + Handshake \div 2
  <2>1. d = c
    BY <1>1, <1>3 DEF Forward, GiveUp, ForwardTypeOK
  <2>2. plan'[c] = p
    BY <1>1, <1>3, <2>1 DEF Forward, ForwardTypeOK
  <2>3. plan[c].now = clock
    BY <1>3, <2>2 DEF PlannedNow
  <2> QED
    BY <1>1, <2>3
<1>4. ASSUME NEW d \in Clients, ArriveInRotation(d) PROVE clock <= plan[c].now + Handshake \div 2
  <2>1. PICK mode \in Modes \ {"spill"} : Forward(d, Candidates(mode, cursor))
    BY <1>4 DEF ArriveInRotation
  <2>2. mode \in {"down", "drain"}
    BY FailoverConstants
  <2> QED
    BY <1>1, <1>3, <2>1, <2>2, CandidatesPlanned
<1>5. ASSUME NEW d \in Clients, ArriveSpilled(d) PROVE clock <= plan[c].now + Handshake \div 2
  BY <1>1, <1>3, <1>5, SpillPlanned DEF ArriveSpilled
<1>6. ASSUME NEW d \in Clients, ArriveIncomplete(d) PROVE FALSE
  <2>1. d = c
    BY <1>1, <1>6 DEF ArriveIncomplete, GiveUp, ForwardTypeOK
  <2>2. PICK mode \in Modes : plan'[c] = [NoPlan EXCEPT !.mode = mode] /\ GivenUp(mode) = "local"
    BY <1>1, <1>6, <2>1, ZenonT(30) DEF ArriveIncomplete, GiveUp, ForwardTypeOK
  <2>3. plan[c].mode = mode /\ plan[c].count = 0 /\ mode # "down"
    BY <2>2 DEF NoPlan, GivenUp
  <2>4. pc[c] \in {"idle", "tunnel", "exhausted"}
    BY <1>6, <2>1 DEF ArriveIncomplete, Resting
  <2> QED
    BY <1>1, <2>3, <2>4 DEF RestOK
<1>7. ASSUME NEW d \in Clients, PeekFailed(d) PROVE clock <= plan[c].now + Handshake \div 2
  <2>1. d = c
    BY <1>1, <1>7 DEF PeekFailed, GiveUp, ForwardTypeOK
  <2>2. pc[c] \in Forwarding /\ plan[c].mode # "down"
    BY <1>1, <1>7, <2>1 DEF PeekFailed, GiveUp, GivenUp, ForwardTypeOK, Forwarding
  <2> QED
    BY <1>2, <2>2
<1>8. ASSUME NEW d \in Clients, Pick(d) PROVE clock <= plan[c].now + Handshake \div 2
  <2>1. d = c
    BY <1>1, <1>8 DEF Pick, GiveUp, ForwardTypeOK
  <2>2. pc[c] \in Forwarding /\ plan[c].mode # "down"
    BY <1>1, <1>8, <2>1 DEF Pick, GiveUp, GivenUp, ForwardTypeOK, Forwarding, Trying
  <2> QED
    BY <1>2, <2>2
<1>9. ASSUME NEW d \in Clients,
             Peeked(d) \/ PeerAnswers(d) \/ PeerFails(d) \/ AttemptTimesOut(d)
      PROVE  FALSE
  BY <1>1, <1>9 DEF Peeked, PeerAnswers, PeerFails, AttemptTimesOut, FailAttempt, ForwardTypeOK
<1>10. ~ (Reload \/ Tick \/ UNCHANGED forwardVars)
  BY DEF Reload, Tick, forwardVars
<1> QED
  BY <1>4, <1>5, <1>6, <1>7, <1>8, <1>9, <1>10 DEF ForwardNext

----------------------------------------------------------------------------

\* Whatever other connections do to the cooldowns between two turns of a rotation,
\* forward_to_peers attempts a peer a second time only as the last resort of a
\* connection that cannot be served locally (failover.rs candidates).
THEOREM RepeatsOnlyEarliestAlways == ForwardSpec => []RepeatsOnlyEarliest
BY Invariant, InvImpliesRepeats, PTL

\* The fair share of forward_to_peers lets every candidate have its turn before the
\* time is gone, and the budgets of a drain and a spill leave the local service half
\* of the handshake timeout, for any number of peers and any timeouts (failover.rs).
THEOREM TimeIsShared == ForwardSpec => TimeShared
<1>1. ForwardInv /\ [ForwardNext]_forwardVars => [TimeForEveryCandidate' /\ HalfLeftForLocal]_forwardVars
  <2>1. ForwardInv' => TimeForEveryCandidate'
    BY InvImpliesTime, PTL
  <2> QED
    BY <2>1, StepInv, HalfLeft
<1> QED
  BY <1>1, Invariant, PTL DEF ForwardSpec, TimeShared

----------------------------------------------------------------------------
(* Local health: the inductive invariant                                   *)

\* A table built and not yet live shares the SlotHealth of every slot that it
\* and the live table have in common.
TablesOK ==
  /\ built \in Tables /\ table \in 1 .. built
  /\ pending \in {NoTable, built} /\ (pending # NoTable => table < built)
  /\ born \in [Tables -> [Dests -> [Paths -> 0 .. MaxTables]]]
  /\ pending # NoTable => \A d \in Dests, p \in Paths :
       born[pending][d][p] # NoTable /\ born[table][d][p] # NoTable =>
         born[pending][d][p] = born[table][d][p]

Marks(last) == [Dests -> [Paths -> [Tables -> 0 .. last]]]

MarksOK == stamp \in 0 .. MaxStamp /\ mark \in Marks(stamp)

\* An affinity entry names a slot of the live table.
AffinityOK ==
  /\ affinity \in [Dests -> [IPs -> Paths \cup {NoPath}]]
  /\ \A d \in Dests, ip \in IPs :
       affinity[d][ip] # NoPath => affinity[d][ip] \in SlotsOf(table, d)

ConnStates ==
  [pc : {"idle", "connecting", "open", "refused"}, table : Tables, dest : Dests,
   slot : Paths \cup {NoPath}, tried : SUBSET Paths]

\* A slot that lasts from table t to the live one has the same SlotHealth in both.
SameHealth(t) ==
  \A d \in Dests, p \in Paths : Shared(t, d, p) => born[table][d][p] = born[t][d][p]

\* A connection is on a slot of its own table, which was live.
OnItsTable(k) ==
  /\ k.table <= table
  /\ k.pc \in {"connecting", "open"} => k.slot \in SlotsOf(k.table, k.dest)
  /\ k.pc = "connecting" => SameHealth(k.table)
  /\ k.pc = "refused" => Untried(k) = {}

ConnsOK == conn \in [Conns -> ConnStates] /\ \A c \in Conns : OnItsTable(conn[c])

OpenOn(t, d, p) ==
  {c \in Conns : conn[c].pc = "open" /\ conn[c].table = t /\ conn[c].dest = d /\ conn[c].slot = p}

\* Every balancer counts the connections open on it.
CountsOK ==
  /\ active \in [Tables -> [Dests -> [Paths -> 0 .. Cardinality(Conns)]]]
  /\ \A t \in Tables, d \in Dests, p \in Paths : active[t][d][p] = Cardinality(OpenOn(t, d, p))

Dues == [dest : Dests, path : Paths, born : Tables, observed : Nat]

\* A probe that passed did so after every refusal its pass had seen.
ProbeOK ==
  /\ probe \in [pc : {"asleep", "probing"}, due : SUBSET Dues, running : SUBSET Paths,
                passed : SUBSET Paths]
  /\ accepted \in [Paths -> 0 .. stamp]
  /\ probe.running \cup probe.passed \subseteq {s.path : s \in probe.due}
  /\ \A s \in probe.due :
       s.observed <= stamp /\ (s.path \in probe.passed => s.observed <= accepted[s.path])

BoundsOK ==
  /\ endpoint \in [Paths -> {"up", "down", "hollow"}]
  /\ flips \in 0 .. MaxFlips /\ drops \in 0 .. MaxDrops
  /\ rested \in BOOLEAN /\ reported \in BOOLEAN /\ told \in BOOLEAN

IInv == TablesOK /\ MarksOK /\ AffinityOK /\ ConnsOK /\ CountsOK /\ ProbeOK /\ BoundsOK

----------------------------------------------------------------------------
(* Frames and parts                                                        *)

\* Each part of the invariant depends on its own variables.
LEMMA Frame ==
  /\ TablesOK /\ UNCHANGED tables => TablesOK'
  /\ MarksOK /\ UNCHANGED health => MarksOK'
  /\ AffinityOK /\ UNCHANGED <<affinity, table, born>> => AffinityOK'
  /\ ConnsOK /\ UNCHANGED <<conn, table, born>> => ConnsOK'
  /\ CountsOK /\ UNCHANGED <<active, conn>> => CountsOK'
  /\ BoundsOK /\ UNCHANGED <<endpoint, flips, rested, events>> => BoundsOK'
  /\ BoundsOK /\ UNCHANGED <<environment, rested, events>> => BoundsOK'
<1>1. TablesOK /\ UNCHANGED tables => TablesOK'
  BY DEF TablesOK, tables
<1>2. MarksOK /\ UNCHANGED health => MarksOK'
  BY DEF MarksOK, health, Marks
<1>3. AffinityOK /\ UNCHANGED <<affinity, table, born>> => AffinityOK'
  BY DEF AffinityOK, SlotsOf
<1>4. ConnsOK /\ UNCHANGED <<conn, table, born>> => ConnsOK'
  BY DEF ConnsOK, OnItsTable, SlotsOf, SameHealth, Shared, Untried
<1>5. CountsOK /\ UNCHANGED <<active, conn>> => CountsOK'
  BY DEF CountsOK, OpenOn
<1>6. BoundsOK /\ UNCHANGED <<endpoint, flips, rested, events>> => BoundsOK'
  BY DEF BoundsOK, events
<1>7. BoundsOK /\ UNCHANGED <<environment, rested, events>> => BoundsOK'
  BY <1>6 DEF environment
<1> QED BY <1>1, <1>2, <1>3, <1>4, <1>5, <1>6, <1>7

\* The stamps only rise.
LEMMA ProbeFrame ==
  ASSUME ProbeOK, UNCHANGED <<probe, accepted>>, stamp \in Nat, stamp' \in Nat, stamp <= stamp'
  PROVE  ProbeOK'
<1>1. accepted' \in [Paths -> 0 .. stamp']
  BY DEF ProbeOK
<1>2. ASSUME NEW s \in probe.due PROVE s.observed <= stamp'
  BY DEF ProbeOK, Dues
<1> QED BY <1>1, <1>2 DEF ProbeOK

\* One connection changes, and stays on its table.
LEMMA ConnChange ==
  ASSUME ConnsOK, UNCHANGED <<table, born>>, NEW c \in Conns, NEW k \in ConnStates, OnItsTable(k),
         conn' = [conn EXCEPT ![c] = k]
  PROVE  ConnsOK'
<1>1. conn' \in [Conns -> ConnStates]
  BY DEF ConnsOK
<1>2. ASSUME NEW e \in Conns PROVE OnItsTable(conn'[e])
  BY DEF ConnsOK
<1>3. ASSUME NEW e \in Conns PROVE OnItsTable(conn[e])'
  BY <1>2 DEF OnItsTable, SlotsOf, SameHealth, Shared, Untried
<1> QED BY <1>1, <1>3 DEF ConnsOK

\* A connection that was not open and is not open changes no count.
LEMMA CountsKept ==
  ASSUME ConnsOK, CountsOK, active' = active, NEW c \in Conns, NEW k \in ConnStates,
         conn' = [conn EXCEPT ![c] = k], conn[c].pc # "open", k.pc # "open"
  PROVE  CountsOK'
<1>1. ASSUME NEW t, NEW d, NEW p PROVE OpenOn(t, d, p)' = OpenOn(t, d, p)
  BY DEF OpenOn, ConnsOK
<1> QED BY <1>1 DEF CountsOK

\* An idle connection asks nothing of its table.
LEMMA FreeOK == TablesOK => Free \in ConnStates /\ OnItsTable(Free)
<1>1. /\ Free.pc = "idle" /\ Free.table = 1 /\ Free.dest \in Dests
      /\ Free \in ConnStates
  <2>1. (CHOOSE d \in Dests : TRUE) \in Dests
    BY LocalHealthConstants
  <2>2. 1 \in Tables
    BY LocalHealthConstants DEF Tables
  <2> QED BY <2>1, <2>2 DEF Free, ConnStates
<1>2. TablesOK => 1 <= table
  BY DEF TablesOK, Tables
<1> QED BY <1>1, <1>2 DEF OnItsTable

\* A refusal is marked with a stamp of its own.
LEMMA MarkOK ==
  ASSUME TablesOK, MarksOK, NEW t \in Tables, NEW d \in Dests, NEW p \in SlotsOf(t, d),
         MarkRefused(t, d, p)
  PROVE  /\ MarksOK' /\ stamp \in Nat /\ stamp' \in Nat /\ stamp' = stamp + 1
         /\ p \in Paths /\ born[t][d][p] \in Tables
         /\ mark'[d][p][born[t][d][p]] = stamp'
         /\ \A e \in Dests, q \in Paths, b \in Tables :
              <<e, q, b>> # <<d, p, born[t][d][p]>> => mark'[e][q][b] = mark[e][q][b]
<1>1. stamp \in Nat /\ MaxStamp \in Nat /\ stamp' = stamp + 1 /\ stamp' \in 0 .. MaxStamp /\ stamp' \in Nat
  BY LocalHealthConstants DEF MarksOK, MarkRefused
<1>2. p \in Paths /\ born[t][d][p] \in Tables
  BY LocalHealthConstants DEF SlotsOf, TablesOK, Tables, NoTable
<1> DEFINE b == born[t][d][p]
<1>3. mark' = [mark EXCEPT ![d][p][b] = stamp']
  BY DEF MarkRefused
<1>4. mark \in Marks(stamp') /\ stamp' \in 0 .. stamp'
  BY <1>1 DEF MarksOK, Marks
<1> HIDE DEF b
<1>5. /\ mark' \in Marks(stamp') /\ mark'[d][p][b] = stamp'
      /\ \A e \in Dests, q \in Paths, f \in Tables :
           <<e, q, f>> # <<d, p, b>> => mark'[e][q][f] = mark[e][q][f]
  BY <1>2, <1>3, <1>4 DEF Marks, b
<1>6. MarksOK'
  BY <1>1, <1>5 DEF MarksOK, Marks
<1> QED BY <1>1, <1>2, <1>5, <1>6 DEF b

----------------------------------------------------------------------------
(* pick and connect_uds                                                    *)

\* Some slot has the lowest score.
LEMMA LowestExists ==
  ASSUME CountsOK, NEW t \in Tables, NEW d \in Dests, NEW S \in SUBSET Paths, S # {}
  PROVE  LowestScore(t, d, S) # {}
<1> DEFINE counts == {active[t][d][p] : p \in S}
<1>1. \A p \in S : active[t][d][p] \in Nat
  BY FS_CardinalityType, LocalHealthConstants DEF CountsOK
<1>2. counts \in SUBSET Nat /\ counts # {}
  BY <1>1
<1> HIDE DEF counts
<1>3. PICK x \in counts : \A y \in counts : x <= y
  BY <1>2, LeastOf
<1>4. PICK p \in S : active[t][d][p] = x
  BY DEF counts
<1>5. ASSUME NEW q \in S PROVE active[t][d][p] <= active[t][d][q] + 1
  <2>1. active[t][d][q] \in counts /\ x \in Nat
    BY <1>2 DEF counts
  <2>2. x <= active[t][d][q] /\ active[t][d][q] \in Nat
    BY <1>1, <1>3, <2>1
  <2> QED BY <1>4, <2>1, <2>2
<1> QED BY <1>5 DEF LowestScore

\* The best slot is one of them, and there is one.
LEMMA BestOK ==
  ASSUME CountsOK, NEW t \in Tables, NEW d \in Dests, NEW S \in SUBSET Paths
  PROVE  Best(t, d, S) \subseteq S /\ (Best(t, d, S) = {} => S = {})
<1>1. Best(t, d, S) \subseteq S
  BY DEF Best, LowestScore, Accepting
<1>2. ASSUME S # {} PROVE Best(t, d, S) # {}
  <2> DEFINE T == IF Accepting(t, d, S) # {} THEN Accepting(t, d, S) ELSE S
  <2>1. T \in SUBSET Paths /\ T # {}
    BY <1>2 DEF Accepting
  <2>2. Best(t, d, S) = LowestScore(t, d, T)
    BY DEF Best
  <2> QED BY <2>1, <2>2, LowestExists
<1> QED BY <1>1, <1>2

\* A bound affinity names a slot of the live table.
LEMMA BoundOK ==
  ASSUME AffinityOK, UNCHANGED <<table, born>>, NEW t, NEW d \in Dests, NEW c \in Conns,
         NEW p \in SlotsOf(t, d), affinity' = Bound(t, d, c, p)
  PROVE  AffinityOK'
<1>1. IpOf[c] \in IPs /\ p \in Paths
  BY DEF IPs, SlotsOf
<1>2. CASE t = table /\ d \in StickyDests
  <2>1. affinity' = [affinity EXCEPT ![d][IpOf[c]] = p] /\ p \in SlotsOf(table, d)
    BY <1>2 DEF Bound
  <2> QED BY <1>1, <2>1 DEF AffinityOK, SlotsOf
<1>3. CASE ~ (t = table /\ d \in StickyDests)
  BY <1>3, Frame DEF Bound
<1> QED BY <1>2, <1>3

\* A connection in a try is on a slot of a table there is.
LEMMA OnSlot ==
  ASSUME IInv, NEW c \in Conns, conn[c].pc \in {"connecting", "open"}
  PROVE  /\ conn[c] \in ConnStates /\ conn[c].table \in Tables /\ conn[c].dest \in Dests
         /\ conn[c].slot \in SlotsOf(conn[c].table, conn[c].dest) /\ conn[c].slot \in Paths
BY DEF IInv, ConnsOK, ConnStates, OnItsTable, SlotsOf

\* A connection arrives on the live table.
LEMMA ArriveOK ==
  ASSUME IInv, NEW c \in Conns, NEW d \in Dests, Arrive(c, d)
  PROVE  IInv'
<1>1. PICK p \in Picks(d, c) :
        /\ conn' = [conn EXCEPT ![c] = [pc |-> "connecting", table |-> table, dest |-> d,
                                        slot |-> p, tried |-> {}]]
        /\ affinity' = Bound(table, d, c, p)
  BY DEF Arrive
<1>2. table \in Tables /\ SlotsOf(table, d) \in SUBSET Paths
  BY LocalHealthConstants DEF IInv, TablesOK, Tables, SlotsOf
<1>3. p \in SlotsOf(table, d)
  <2>1. CASE HonoursAffinity(d, c)
    <3>1. p = affinity[d][IpOf[c]] /\ p # NoPath /\ IpOf[c] \in IPs
      BY <1>1, <2>1 DEF Picks, HonoursAffinity, Sticky, IPs
    <3> QED BY <3>1 DEF IInv, AffinityOK
  <2>2. CASE ~ HonoursAffinity(d, c)
    BY <1>1, <1>2, <2>2, BestOK DEF Picks, IInv
  <2> QED BY <2>1, <2>2
<1> DEFINE k == [pc |-> "connecting", table |-> table, dest |-> d, slot |-> p, tried |-> {}]
<1>4. /\ k \in ConnStates /\ k.pc = "connecting" /\ k.table = table /\ k.dest = d /\ k.slot = p
  BY <1>2, <1>3 DEF ConnStates
<1>5. conn' = [conn EXCEPT ![c] = k]
  BY <1>1
<1> HIDE DEF k
<1>6. table \in Nat /\ SameHealth(table)
  BY <1>2 DEF SameHealth, Tables
<1>7. OnItsTable(k)
  BY <1>3, <1>4, <1>6 DEF OnItsTable
<1>8. /\ UNCHANGED <<endpoint, flips, tables, health, active, probe, rested, events, accepted>>
      /\ UNCHANGED <<table, born, stamp>>
  BY DEF Arrive, tables, health
<1>9. ConnsOK'
  BY <1>4, <1>5, <1>7, <1>8, ConnChange DEF IInv
<1>10. AffinityOK'
  BY <1>1, <1>3, <1>8, BoundOK DEF IInv
<1>11. CountsOK'
  <2>1. conn[c].pc # "open"
    BY DEF Arrive
  <2> QED BY <1>4, <1>5, <1>8, <2>1, CountsKept DEF IInv
<1>12. ProbeOK'
  <2>1. stamp \in Nat
    BY DEF IInv, MarksOK
  <2> QED BY <1>8, <2>1, ProbeFrame DEF IInv
<1> QED BY <1>8, <1>9, <1>10, <1>11, <1>12, Frame DEF IInv

\* A connection that ends its tries, whatever it marks.
LEMMA FreedOK ==
  ASSUME IInv, NEW c \in Conns, conn[c].pc = "connecting", conn' = [conn EXCEPT ![c] = Free],
         UNCHANGED <<endpoint, flips, tables, balancer, probe, rested, events, accepted>>,
         MarksOK', stamp' \in Nat, stamp <= stamp'
  PROVE  IInv'
<1>1. UNCHANGED <<table, born, active, affinity>>
  BY DEF tables, balancer
<1>2. Free \in ConnStates /\ OnItsTable(Free) /\ Free.pc # "open"
  <2>1. Free.pc # "open"
    BY DEF Free
  <2> QED BY <2>1, FreeOK DEF IInv
<1>3. ConnsOK'
  BY <1>1, <1>2, ConnChange DEF IInv
<1>4. CountsOK'
  BY <1>1, <1>2, CountsKept DEF IInv
<1>5. ProbeOK'
  BY ProbeFrame DEF IInv, MarksOK
<1> QED BY <1>1, <1>3, <1>4, <1>5, Frame DEF IInv

\* The deadline passes: a refusal is marked.
LEMMA ExpiresOK ==
  ASSUME IInv, NEW c \in Conns, Expires(c)
  PROVE  IInv'
<1>1. conn[c].pc = "connecting" /\ MarkRefused(conn[c].table, conn[c].dest, conn[c].slot)
  BY DEF Expires
<1>2. MarksOK' /\ stamp \in Nat /\ stamp' \in Nat /\ stamp' = stamp + 1
  BY <1>1, OnSlot, MarkOK DEF IInv
<1>3. stamp <= stamp'
  BY <1>2
<1> QED BY <1>1, <1>2, <1>3, FreedOK DEF Expires

\* Another error: nothing is marked.
LEMMA FailsOK ==
  ASSUME IInv, NEW c \in Conns, Fails(c)
  PROVE  IInv'
<1>1. MarksOK' /\ stamp' = stamp /\ stamp \in Nat
  BY Frame DEF Fails, IInv, MarksOK, health
<1>2. stamp <= stamp'
  BY <1>1
<1> QED BY <1>1, <1>2, FreedOK DEF Fails

\* A refusal is marked, and the next slot tried is one of the table.
LEMMA RefusedOK ==
  ASSUME IInv, NEW c \in Conns, Refused(c)
  PROVE  IInv'
<1> DEFINE k == [conn[c] EXCEPT !.tried = conn[c].tried \cup {conn[c].slot}]
<1>1. conn[c].pc = "connecting"
  BY OnSlot DEF Refused, IInv, ConnsOK, ConnStates
<1>2. /\ conn[c] \in ConnStates /\ conn[c].table \in Tables /\ conn[c].dest \in Dests
      /\ conn[c].slot \in SlotsOf(conn[c].table, conn[c].dest) /\ conn[c].slot \in Paths
  BY <1>1, OnSlot
<1>3. /\ k \in ConnStates /\ k.pc = "connecting" /\ k.table = conn[c].table
      /\ k.dest = conn[c].dest /\ k.slot = conn[c].slot
  BY <1>1, <1>2 DEF ConnStates
<1>4. /\ MarkRefused(k.table, k.dest, k.slot)
      /\ \/ \E p \in NextUntried(k) : conn' = [conn EXCEPT ![c] = [k EXCEPT !.slot = p]]
         \/ NextUntried(k) = {} /\ conn' = [conn EXCEPT ![c] = [k EXCEPT !.pc = "refused"]]
      /\ UNCHANGED <<environment, tables, balancer, probe, rested, events, accepted>>
  BY DEF Refused
<1> HIDE DEF k
<1>5. MarksOK' /\ stamp \in Nat /\ stamp' \in Nat /\ stamp' = stamp + 1
  BY <1>2, <1>3, <1>4, MarkOK DEF IInv
<1>6. Untried(k) \in SUBSET Paths /\ Untried(k) \subseteq SlotsOf(k.table, k.dest)
  BY DEF Untried, SlotsOf
<1>7. NextUntried(k) \subseteq Untried(k) /\ (NextUntried(k) = {} => Untried(k) = {})
  BY <1>2, <1>3, <1>6, BestOK DEF NextUntried, IInv
<1>8. k.table <= table /\ SameHealth(k.table)
  BY <1>1, <1>3 DEF IInv, ConnsOK, OnItsTable
<1>9. PICK j \in ConnStates :
        conn' = [conn EXCEPT ![c] = j] /\ j.pc # "open" /\ OnItsTable(j)
  <2>1. ASSUME NEW p \in NextUntried(k), conn' = [conn EXCEPT ![c] = [k EXCEPT !.slot = p]]
        PROVE  \E j \in ConnStates :
                 conn' = [conn EXCEPT ![c] = j] /\ j.pc # "open" /\ OnItsTable(j)
    <3> DEFINE j == [k EXCEPT !.slot = p]
    <3>1. p \in SlotsOf(k.table, k.dest) /\ p \in Paths
      BY <1>6, <1>7
    <3>2. /\ j \in ConnStates /\ j.pc = "connecting" /\ j.slot = p /\ j.table = k.table
          /\ j.dest = k.dest
      BY <1>3, <3>1 DEF ConnStates
    <3>3. OnItsTable(j)
      <4> HIDE DEF j
      <4> QED BY <1>8, <3>1, <3>2 DEF OnItsTable
    <3> QED BY <2>1, <3>2, <3>3
  <2>2. ASSUME NextUntried(k) = {}, conn' = [conn EXCEPT ![c] = [k EXCEPT !.pc = "refused"]]
        PROVE  \E j \in ConnStates :
                 conn' = [conn EXCEPT ![c] = j] /\ j.pc # "open" /\ OnItsTable(j)
    <3> DEFINE j == [k EXCEPT !.pc = "refused"]
    <3>1. /\ j \in ConnStates /\ j.pc = "refused" /\ j.table = k.table /\ j.dest = k.dest
          /\ j.tried = k.tried
      BY <1>3 DEF ConnStates
    <3>2. OnItsTable(j)
      <4> HIDE DEF j
      <4> QED BY <1>7, <1>8, <2>2, <3>1 DEF OnItsTable, Untried
    <3> QED BY <2>2, <3>1, <3>2
  <2> QED BY <1>4, <2>1, <2>2
<1>10. UNCHANGED <<table, born, active, affinity>>
  BY <1>4 DEF tables, balancer
<1>11. ConnsOK'
  BY <1>9, <1>10, ConnChange DEF IInv
<1>12. CountsOK'
  BY <1>1, <1>9, <1>10, CountsKept DEF IInv
<1>13. ProbeOK'
  <2>1. stamp <= stamp'
    BY <1>5
  <2> QED BY <1>4, <1>5, <2>1, ProbeFrame DEF IInv
<1> QED BY <1>4, <1>5, <1>10, <1>11, <1>12, <1>13, Frame DEF IInv

\* A connect succeeds: its own balancer counts it.
LEMMA ConnectedOK ==
  ASSUME IInv, NEW c \in Conns, Connected(c)
  PROVE  IInv'
<1> DEFINE k == conn[c]
           j == [conn[c] EXCEPT !.pc = "open"]
<1>1. k.pc = "connecting"
  BY DEF Connected
<1>2. /\ k \in ConnStates /\ k.table \in Tables /\ k.dest \in Dests
      /\ k.slot \in SlotsOf(k.table, k.dest) /\ k.slot \in Paths
  BY <1>1, OnSlot
<1>3. /\ j \in ConnStates /\ j.pc = "open" /\ j.table = k.table /\ j.dest = k.dest
      /\ j.slot = k.slot
  BY <1>2 DEF ConnStates
<1>4. /\ conn' = [conn EXCEPT ![c] = j]
      /\ active' = [active EXCEPT ![k.table][k.dest][k.slot] = active[k.table][k.dest][k.slot] + 1]
      /\ affinity' = IF k.tried = {} THEN affinity ELSE Bound(k.table, k.dest, c, k.slot)
      /\ UNCHANGED <<endpoint, flips, tables, health, probe, rested, events, accepted>>
  BY DEF Connected, IInv, ConnsOK
<1>5. UNCHANGED <<table, born, stamp>>
  BY <1>4 DEF tables, health
<1>6. k.table <= table
  BY DEF IInv, ConnsOK, OnItsTable
<1> HIDE DEF j
<1>7. OnItsTable(j)
  BY <1>2, <1>3, <1>6 DEF OnItsTable
<1>8. ConnsOK'
  BY <1>3, <1>4, <1>5, <1>7, ConnChange DEF IInv
<1>9. AffinityOK'
  <2>1. CASE k.tried = {}
    BY <1>4, <1>5, <2>1, Frame DEF IInv
  <2>2. CASE k.tried # {}
    BY <1>2, <1>4, <1>5, <2>2, BoundOK DEF IInv
  <2> QED BY <2>1, <2>2
<1>10. CountsOK'
  <2>1. ASSUME NEW t \in Tables, NEW d \in Dests, NEW p \in Paths
        PROVE  /\ active'[t][d][p] = Cardinality(OpenOn(t, d, p)')
               /\ active'[t][d][p] \in 0 .. Cardinality(Conns)
    <3>1. active[t][d][p] = Cardinality(OpenOn(t, d, p)) /\ OpenOn(t, d, p) \subseteq Conns
      BY DEF IInv, CountsOK, OpenOn
    <3>2. IsFiniteSet(OpenOn(t, d, p)) /\ Cardinality(OpenOn(t, d, p)) \in Nat
      BY <3>1, LocalHealthConstants, FS_Subset, FS_CardinalityType
    <3>3. active'[t][d][p] = Cardinality(OpenOn(t, d, p)')
      <4>1. CASE t = k.table /\ d = k.dest /\ p = k.slot
        <5>1. OpenOn(t, d, p)' = OpenOn(t, d, p) \cup {c} /\ c \notin OpenOn(t, d, p)
          BY <1>1, <1>3, <1>4, <4>1 DEF OpenOn, IInv, ConnsOK
        <5>2. Cardinality(OpenOn(t, d, p)') = Cardinality(OpenOn(t, d, p)) + 1
          BY <3>2, <5>1, FS_AddElement
        <5>3. active'[t][d][p] = active[t][d][p] + 1
          BY <1>2, <1>4, <4>1 DEF IInv, CountsOK
        <5> QED BY <3>1, <5>2, <5>3
      <4>2. CASE ~ (t = k.table /\ d = k.dest /\ p = k.slot)
        <5>1. OpenOn(t, d, p)' = OpenOn(t, d, p)
          BY <1>1, <1>3, <1>4, <4>2 DEF OpenOn, IInv, ConnsOK
        <5>2. active'[t][d][p] = active[t][d][p]
          BY <1>2, <1>4, <4>2 DEF IInv, CountsOK
        <5> QED BY <3>1, <5>1, <5>2
      <4> QED BY <4>1, <4>2
    <3>4. OpenOn(t, d, p)' \subseteq Conns
      BY DEF OpenOn
    <3>5. /\ Cardinality(OpenOn(t, d, p)') <= Cardinality(Conns)
          /\ Cardinality(OpenOn(t, d, p)') \in Nat /\ Cardinality(Conns) \in Nat
      BY <3>4, LocalHealthConstants, FS_Subset, FS_CardinalityType
    <3> QED BY <3>3, <3>5
  <2> DEFINE v == active[k.table][k.dest][k.slot] + 1
  <2>2. active \in [Tables -> [Dests -> [Paths -> Nat \cup {v}]]]
    BY FS_CardinalityType, LocalHealthConstants DEF IInv, CountsOK
  <2>3. active' = [active EXCEPT ![k.table][k.dest][k.slot] = v]
    BY <1>4
  <2> HIDE DEF v, k
  <2>4. active' \in [Tables -> [Dests -> [Paths -> Nat \cup {v}]]]
    BY <1>2, <2>2, <2>3
  <2>5. active' \in [Tables -> [Dests -> [Paths -> 0 .. Cardinality(Conns)]]]
    BY <2>1, <2>4
  <2> QED BY <2>1, <2>5 DEF CountsOK
<1>11. ProbeOK'
  <2>1. stamp \in Nat
    BY DEF IInv, MarksOK
  <2> QED BY <1>4, <1>5, <2>1, ProbeFrame DEF IInv
<1> QED BY <1>4, <1>8, <1>9, <1>10, <1>11, Frame DEF IInv

\* A connection closes: its own balancer counts it no more.
LEMMA CloseOK ==
  ASSUME IInv, NEW c \in Conns, Close(c)
  PROVE  IInv'
<1> DEFINE k == conn[c]
<1>1. k.pc = "open"
  BY DEF Close
<1>2. /\ k \in ConnStates /\ k.table \in Tables /\ k.dest \in Dests
      /\ k.slot \in SlotsOf(k.table, k.dest) /\ k.slot \in Paths
  BY <1>1, OnSlot
<1>3. Free \in ConnStates /\ OnItsTable(Free) /\ Free.pc # "open"
  <2>1. Free.pc # "open"
    BY DEF Free
  <2> QED BY <2>1, FreeOK DEF IInv
<1>4. /\ conn' = [conn EXCEPT ![c] = Free]
      /\ active' = [active EXCEPT ![k.table][k.dest][k.slot] =
                      Decremented(active[k.table][k.dest][k.slot])]
      /\ UNCHANGED <<environment, tables, health, affinity, probe, rested, events, accepted>>
  BY DEF Close, GuardTable
<1>5. UNCHANGED <<table, born, stamp>>
  BY <1>4 DEF tables, health
<1>6. ConnsOK'
  BY <1>3, <1>4, <1>5, ConnChange DEF IInv
<1>7. CountsOK'
  <2>1. ASSUME NEW t \in Tables, NEW d \in Dests, NEW p \in Paths
        PROVE  /\ active'[t][d][p] = Cardinality(OpenOn(t, d, p)')
               /\ active'[t][d][p] \in 0 .. Cardinality(Conns)
    <3>1. active[t][d][p] = Cardinality(OpenOn(t, d, p)) /\ OpenOn(t, d, p) \subseteq Conns
      BY DEF IInv, CountsOK, OpenOn
    <3>2. IsFiniteSet(OpenOn(t, d, p)) /\ Cardinality(OpenOn(t, d, p)) \in Nat
      BY <3>1, LocalHealthConstants, FS_Subset, FS_CardinalityType
    <3>3. active'[t][d][p] = Cardinality(OpenOn(t, d, p)')
      <4>1. CASE t = k.table /\ d = k.dest /\ p = k.slot
        <5>1. OpenOn(t, d, p)' = OpenOn(t, d, p) \ {c} /\ c \in OpenOn(t, d, p)
          BY <1>1, <1>3, <1>4, <4>1 DEF OpenOn, IInv, ConnsOK
        <5>2. Cardinality(OpenOn(t, d, p)') = Cardinality(OpenOn(t, d, p)) - 1
          BY <3>2, <5>1, FS_RemoveElement
        <5>3. Cardinality(OpenOn(t, d, p)') \in Nat
          BY <3>2, <5>1, FS_RemoveElement, FS_CardinalityType
        <5>4. active'[t][d][p] = Decremented(active[t][d][p])
          BY <1>2, <1>4, <4>1 DEF IInv, CountsOK
        <5> QED BY <3>1, <3>2, <5>2, <5>3, <5>4 DEF Decremented
      <4>2. CASE ~ (t = k.table /\ d = k.dest /\ p = k.slot)
        <5>1. OpenOn(t, d, p)' = OpenOn(t, d, p)
          BY <1>1, <1>3, <1>4, <4>2 DEF OpenOn, IInv, ConnsOK
        <5>2. active'[t][d][p] = active[t][d][p]
          BY <1>2, <1>4, <4>2 DEF IInv, CountsOK
        <5> QED BY <3>1, <5>1, <5>2
      <4> QED BY <4>1, <4>2
    <3>4. OpenOn(t, d, p)' \subseteq Conns
      BY DEF OpenOn
    <3>5. /\ Cardinality(OpenOn(t, d, p)') <= Cardinality(Conns)
          /\ Cardinality(OpenOn(t, d, p)') \in Nat /\ Cardinality(Conns) \in Nat
      BY <3>4, LocalHealthConstants, FS_Subset, FS_CardinalityType
    <3> QED BY <3>3, <3>5
  <2> DEFINE v == Decremented(active[k.table][k.dest][k.slot])
  <2>2. active \in [Tables -> [Dests -> [Paths -> Nat \cup {v}]]]
    BY FS_CardinalityType, LocalHealthConstants DEF IInv, CountsOK
  <2>3. active' = [active EXCEPT ![k.table][k.dest][k.slot] = v]
    BY <1>4
  <2> HIDE DEF v, k
  <2>4. active' \in [Tables -> [Dests -> [Paths -> Nat \cup {v}]]]
    BY <1>2, <2>2, <2>3
  <2>5. active' \in [Tables -> [Dests -> [Paths -> 0 .. Cardinality(Conns)]]]
    BY <2>1, <2>4
  <2> QED BY <2>1, <2>5 DEF CountsOK
<1>8. ProbeOK'
  <2>1. stamp \in Nat
    BY DEF IInv, MarksOK
  <2> QED BY <1>4, <1>5, <2>1, ProbeFrame DEF IInv
<1> QED BY <1>4, <1>5, <1>6, <1>7, <1>8, Frame DEF IInv

\* An affinity entry passes its TTL.
LEMMA LapsesOK ==
  ASSUME IInv, AffinityLapses
  PROVE  IInv'
<1>1. /\ UNCHANGED <<environment, tables, health, active, conn, probe, rested, events, accepted>>
      /\ UNCHANGED <<table, born, stamp>>
  BY DEF AffinityLapses, tables, health
<1>2. PICK d \in Dests, ip \in IPs : affinity' = [affinity EXCEPT ![d][ip] = NoPath]
  BY DEF AffinityLapses
<1>3. AffinityOK'
  BY <1>1, <1>2 DEF IInv, AffinityOK, SlotsOf
<1>4. ProbeOK'
  <2>1. stamp \in Nat
    BY DEF IInv, MarksOK
  <2> QED BY <1>1, <2>1, ProbeFrame DEF IInv
<1> QED BY <1>1, <1>3, <1>4, Frame DEF IInv

----------------------------------------------------------------------------
(* probe_periodically                                                      *)

\* What is due is a health there is, with the mark it has now.
LEMMA DueOK ==
  ASSUME IInv, NEW s \in Due(table)
  PROVE  s \in Dues /\ s.observed <= stamp
<1>1. PICK r \in Tracked(table) :
        /\ r.path \in SlotsOf(table, r.dest)
        /\ s = [dest |-> r.dest, path |-> r.path, born |-> born[table][r.dest][r.path],
                observed |-> MarkOf(table, r.dest, r.path)]
  BY DEF Due
<1>2. r.dest \in Dests /\ r.path \in Paths
  BY DEF Tracked
<1>3. born[table][r.dest][r.path] \in Tables
  BY <1>1, <1>2, LocalHealthConstants DEF SlotsOf, IInv, TablesOK, Tables, NoTable
<1>4. MarkOf(table, r.dest, r.path) \in 0 .. stamp
  BY <1>2, <1>3, SMTT(30) DEF MarkOf, IInv, MarksOK, Marks
<1> QED BY <1>1, <1>2, <1>3, <1>4 DEF Dues

\* A pass of the probe begins.
LEMMA PassOK ==
  ASSUME IInv, ProbePass
  PROVE  IInv'
<1> DEFINE due == IF rested THEN Due(table) ELSE {}
<1>1. /\ UNCHANGED <<environment, tables, health, balancer, conn, events, accepted>>
      /\ UNCHANGED <<table, born, stamp, active, affinity>>
  BY DEF ProbePass, tables, health, balancer
<1>2. /\ probe' = [pc |-> "probing", due |-> due, running |-> {s.path : s \in due}, passed |-> {}]
      /\ rested' = (rested /\ due = {})
  BY DEF ProbePass
<1>3. \A s \in due : s \in Dues /\ s.observed <= stamp
  BY DueOK
<1> HIDE DEF due
<1>4. ProbeOK'
  <2>1. /\ probe'.pc = "probing" /\ probe'.due = due /\ probe'.passed = {}
        /\ probe'.running = {s.path : s \in due}
    BY <1>2
  <2>2. {s.path : s \in due} \in SUBSET Paths
    BY <1>3 DEF Dues
  <2>3. probe' \in [pc : {"asleep", "probing"}, due : SUBSET Dues, running : SUBSET Paths,
                    passed : SUBSET Paths]
    BY <1>2, <1>3, <2>2
  <2> QED BY <1>1, <1>3, <2>1, <2>3 DEF ProbeOK, IInv
<1>5. BoundsOK'
  <2>1. rested' \in BOOLEAN
    BY <1>2
  <2> QED BY <1>1, <2>1 DEF IInv, BoundsOK, environment, events
<1> QED BY <1>1, <1>4, <1>5, Frame DEF IInv

\* The interval passes.
LEMMA IntervalOK ==
  ASSUME IInv, IntervalPasses
  PROVE  IInv'
<1>1. /\ UNCHANGED <<environment, tables, health, balancer, conn, probe, events, accepted>>
      /\ UNCHANGED <<table, born, stamp, active, affinity>> /\ rested' = TRUE
  BY DEF IntervalPasses, tables, health, balancer
<1>2. BoundsOK'
  BY <1>1 DEF IInv, BoundsOK, environment, events
<1>3. ProbeOK'
  <2>1. stamp \in Nat
    BY DEF IInv, MarksOK
  <2> QED BY <1>1, <2>1, ProbeFrame DEF IInv
<1> QED BY <1>1, <1>2, <1>3, Frame DEF IInv

\* A probe finds its endpoint serving, after everything its pass had seen.
LEMMA ConnectsOK ==
  ASSUME IInv, NEW p \in Paths, ProbeConnects(p)
  PROVE  IInv'
<1>1. /\ UNCHANGED <<environment, tables, health, balancer, conn, rested, events>>
      /\ UNCHANGED <<table, born, stamp, active, affinity>>
  BY DEF ProbeConnects, tables, health, balancer
<1>2. /\ probe' = [probe EXCEPT !.running = probe.running \ {p}, !.passed = probe.passed \cup {p}]
      /\ accepted' = [accepted EXCEPT ![p] = stamp] /\ p \in probe.running /\ stamp \in Nat
  BY DEF ProbeConnects, IInv, MarksOK
<1>3. /\ probe \in [pc : {"asleep", "probing"}, due : SUBSET Dues, running : SUBSET Paths,
                    passed : SUBSET Paths]
      /\ accepted \in [Paths -> 0 .. stamp]
      /\ probe.running \cup probe.passed \subseteq {s.path : s \in probe.due}
      /\ \A s \in probe.due :
           s.observed <= stamp /\ (s.path \in probe.passed => s.observed <= accepted[s.path])
  BY DEF IInv, ProbeOK
<1>4. /\ probe'.due = probe.due /\ probe'.running = probe.running \ {p}
      /\ probe'.passed = probe.passed \cup {p}
      /\ probe' \in [pc : {"asleep", "probing"}, due : SUBSET Dues, running : SUBSET Paths,
                     passed : SUBSET Paths]
  BY <1>2, <1>3
<1>5. accepted' \in [Paths -> 0 .. stamp]
  BY <1>2, <1>3
<1>6. ASSUME NEW s \in probe.due, s.path \in probe.passed \cup {p}
      PROVE  s.observed <= accepted'[s.path]
  <2>1. s.path \in Paths
    BY <1>3 DEF Dues
  <2> QED BY <1>2, <1>3, <1>6, <2>1
<1>7. ProbeOK'
  BY <1>1, <1>2, <1>3, <1>4, <1>5, <1>6 DEF ProbeOK
<1> QED BY <1>1, <1>7, Frame DEF IInv

\* An endpoint's part of a pass is over.
LEMMA EndedOK ==
  ASSUME ProbeOK, NEW p \in Paths, probe' = Ended(p), UNCHANGED stamp, stamp \in Nat,
         accepted' \in [Paths -> 0 .. stamp],
         \A q \in Paths \ {p} : accepted'[q] = accepted[q]
  PROVE  ProbeOK'
<1>1. /\ probe \in [pc : {"asleep", "probing"}, due : SUBSET Dues, running : SUBSET Paths,
                    passed : SUBSET Paths]
      /\ probe.running \cup probe.passed \subseteq {s.path : s \in probe.due}
      /\ \A s \in probe.due :
           s.observed <= stamp /\ (s.path \in probe.passed => s.observed <= accepted[s.path])
  BY DEF ProbeOK
<1>2. /\ probe'.due = {s \in probe.due : s.path # p} /\ probe'.running = probe.running \ {p}
      /\ probe'.passed = probe.passed \ {p}
      /\ probe' \in [pc : {"asleep", "probing"}, due : SUBSET Dues, running : SUBSET Paths,
                     passed : SUBSET Paths]
  BY <1>1 DEF Ended
<1>3. probe'.running \cup probe'.passed \subseteq {s.path : s \in probe'.due}
  BY <1>1, <1>2
<1>4. ASSUME NEW s \in probe'.due
      PROVE  s.observed <= stamp /\ (s.path \in probe'.passed => s.observed <= accepted'[s.path])
  <2>1. s \in probe.due /\ s.path \in Paths \ {p}
    BY <1>1, <1>2 DEF Dues
  <2> QED BY <1>1, <1>2, <2>1
<1> QED BY <1>2, <1>3, <1>4 DEF ProbeOK

\* A probe that does not find its endpoint serving leaves its marks.
LEMMA ProbeFailsOK ==
  ASSUME IInv, NEW p \in Paths, ProbeFails(p)
  PROVE  IInv'
<1>1. /\ UNCHANGED <<environment, tables, health, balancer, conn, rested, events, accepted>>
      /\ UNCHANGED <<table, born, stamp, active, affinity>> /\ probe' = Ended(p)
  BY DEF ProbeFails, tables, health, balancer
<1>2. ProbeOK'
  <2>1. stamp \in Nat /\ accepted \in [Paths -> 0 .. stamp]
    BY DEF IInv, MarksOK, ProbeOK
  <2> QED BY <1>1, <2>1, EndedOK DEF IInv
<1> QED BY <1>1, <1>2, Frame DEF IInv

\* A probe that does clears the marks its pass had seen.
LEMMA ProbeClearsOK ==
  ASSUME IInv, NEW p \in Paths, ProbeClears(p)
  PROVE  IInv'
<1>1. /\ UNCHANGED <<environment, tables, stamp, balancer, conn, rested, events>>
      /\ UNCHANGED <<table, born, active, affinity>> /\ probe' = Ended(p)
      /\ accepted' = [accepted EXCEPT ![p] = 0]
  BY DEF ProbeClears, tables, balancer
<1>2. stamp \in Nat /\ accepted \in [Paths -> 0 .. stamp] /\ mark \in Marks(stamp)
  BY DEF IInv, MarksOK, ProbeOK
<1>3. ProbeOK'
  <2>1. accepted' \in [Paths -> 0 .. stamp] /\ \A q \in Paths \ {p} : accepted'[q] = accepted[q]
    BY <1>1, <1>2
  <2> QED BY <1>1, <1>2, <2>1, EndedOK DEF IInv
<1>4. MarksOK'
  <2>1. mark' \in Marks(stamp)
    BY <1>2 DEF ProbeClears, Marks, ClearIfUnchanged
  <2> QED BY <1>1, <2>1 DEF IInv, MarksOK, Marks
<1> QED BY <1>1, <1>3, <1>4, Frame DEF IInv

\* The pass is over and the health reported.
LEMMA ReportOK ==
  ASSUME IInv, Report
  PROVE  IInv'
<1>1. /\ UNCHANGED <<environment, tables, health, balancer, conn, rested, accepted>>
      /\ UNCHANGED <<table, born, stamp, active, affinity>> /\ probe' = Asleep
  BY DEF Report, tables, health, balancer
<1>2. ProbeOK'
  <2>1. /\ probe'.due = {} /\ probe'.running = {} /\ probe'.passed = {}
        /\ probe' \in [pc : {"asleep", "probing"}, due : SUBSET Dues, running : SUBSET Paths,
                       passed : SUBSET Paths]
    BY <1>1 DEF Asleep
  <2> QED BY <1>1, <2>1 DEF IInv, ProbeOK
<1>3. BoundsOK'
  <2> DEFINE down == LocallyDown(table)
  <2>1. down \in BOOLEAN
    BY DEF LocallyDown
  <2>2. \/ reported' = reported /\ told' = told /\ drops' = drops
        \/ told' = down /\ reported' = Stored(down, TRUE) /\ drops' = drops
        \/ /\ drops < MaxDrops /\ drops' = drops + 1
           /\ reported' = Stored(down, FALSE) /\ told' = told
    BY DEF Report, events
  <2> HIDE DEF down
  <2>3. reported \in BOOLEAN /\ told \in BOOLEAN
    BY DEF IInv, BoundsOK
  <2>4. reported' \in BOOLEAN /\ told' \in BOOLEAN
    <3>1. CASE reported' = reported /\ told' = told
      BY <2>3, <3>1, Zenon
    <3>2. CASE told' = down /\ reported' = Stored(down, TRUE)
      BY <2>1, <3>2, Zenon DEF Stored
    <3>3. CASE reported' = Stored(down, FALSE) /\ told' = told
      BY <2>3, <3>3, Zenon DEF Stored
    <3> QED BY <2>2, <3>1, <3>2, <3>3, Zenon
  <2>5. drops' \in 0 .. MaxDrops
    <3>1. drops' = drops \/ (drops < MaxDrops /\ drops' = drops + 1)
      BY <2>2, Zenon
    <3>2. drops \in 0 .. MaxDrops /\ MaxDrops \in Nat
      BY LocalHealthConstants DEF IInv, BoundsOK
    <3> QED BY <3>1, <3>2
  <2> QED BY <1>1, <2>4, <2>5 DEF IInv, BoundsOK, environment
<1> QED BY <1>1, <1>2, <1>3, Frame DEF IInv

----------------------------------------------------------------------------
(* Rebuild, Swap and the endpoints                                         *)

NewSlots(layout) ==
  {s \in [dest : Dests, path : Paths] :
     s.path \in layout[s.dest] /\ Inherited(s.dest, s.path) = NoTable}

\* What a rebuild changes: the table built, and the marks of its new slots.
LEMMA RebuildStep ==
  ASSUME IInv, NEW layout \in Layouts, Rebuild(layout)
  PROVE  /\ pending = NoTable /\ built' = built + 1 /\ pending' = built + 1 /\ built + 1 \in Tables
         /\ table' = table /\ built \in Nat /\ table <= built
         /\ born' \in [Tables -> [Dests -> [Paths -> 0 .. MaxTables]]]
         /\ \A t \in Tables : t # built + 1 => born'[t] = born[t]
         /\ \A d \in Dests, p \in Paths :
              born'[built + 1][d][p] = IF p \notin layout[d] THEN NoTable
                                       ELSE IF [dest |-> d, path |-> p] \in NewSlots(layout) THEN built + 1
                                       ELSE born[table][d][p]
         /\ stamp' = IF RefuseNew /\ NewSlots(layout) # {} THEN stamp + 1 ELSE stamp
         /\ stamp \in Nat /\ stamp' \in Nat /\ stamp <= stamp'
         /\ \A d \in Dests, p \in Paths, b \in Tables :
              mark'[d][p][b] = IF RefuseNew /\ b = built + 1 /\ [dest |-> d, path |-> p] \in NewSlots(layout)
                               THEN stamp' ELSE mark[d][p][b]
         /\ MarksOK'
<1> DEFINE t == built + 1
           new == NewSlots(layout)
           row == [d \in Dests |-> [p \in Paths |->
                     IF p \notin layout[d] THEN NoTable
                     ELSE IF [dest |-> d, path |-> p] \in new THEN t
                     ELSE Inherited(d, p)]]
<1>1. /\ pending = NoTable /\ built < MaxTables /\ (RefuseNew /\ new # {} => stamp < MaxStamp)
      /\ built' = t /\ pending' = t /\ table' = table
      /\ born' = [born EXCEPT ![t] = row]
      /\ stamp' = IF RefuseNew /\ new # {} THEN stamp + 1 ELSE stamp
      /\ mark' = [d \in Dests |-> [p \in Paths |-> [b \in Tables |->
                    IF RefuseNew /\ b = t /\ [dest |-> d, path |-> p] \in new
                    THEN stamp' ELSE mark[d][p][b]]]]
  BY DEF Rebuild, NewSlots
<1>2. /\ built \in Nat /\ t \in Tables /\ table <= built /\ table \in Tables
      /\ born \in [Tables -> [Dests -> [Paths -> 0 .. MaxTables]]] /\ t \in 0 .. MaxTables
  <2>1. /\ built \in Tables /\ table \in 1 .. built
        /\ born \in [Tables -> [Dests -> [Paths -> 0 .. MaxTables]]]
    BY DEF IInv, TablesOK
  <2>2. MaxTables \in Nat /\ built < MaxTables
    BY <1>1, LocalHealthConstants
  <2>3. /\ built \in Nat /\ t \in Tables /\ table <= built /\ table \in Tables
        /\ t \in 0 .. MaxTables
    BY <2>1, <2>2 DEF Tables
  <2> QED BY <2>1, <2>3
<1>3. /\ stamp \in Nat /\ stamp' \in Nat /\ stamp <= stamp' /\ stamp' \in 0 .. MaxStamp
      /\ mark \in Marks(stamp')
  <2>1. stamp \in 0 .. MaxStamp /\ MaxStamp \in Nat /\ mark \in Marks(stamp)
    BY LocalHealthConstants DEF IInv, MarksOK
  <2> HIDE DEF new
  <2>2. stamp \in Nat /\ stamp' \in Nat /\ stamp <= stamp' /\ stamp' \in 0 .. MaxStamp
    BY <1>1, <2>1
  <2> QED BY <2>1, <2>2 DEF Marks
<1> HIDE DEF t, new
<1>4. row \in [Dests -> [Paths -> 0 .. MaxTables]]
  <2>1. NoTable \in 0 .. MaxTables
    BY LocalHealthConstants DEF NoTable
  <2>2. \A d \in Dests, p \in Paths : Inherited(d, p) \in 0 .. MaxTables
    BY <1>2 DEF Inherited
  <2> QED BY <1>2, <2>1, <2>2
<1>5. \A d \in Dests, p \in Paths :
        row[d][p] = IF p \notin layout[d] THEN NoTable
                    ELSE IF [dest |-> d, path |-> p] \in new THEN t ELSE born[table][d][p]
  BY DEF Inherited
<1> HIDE DEF row
<1>6. /\ born' \in [Tables -> [Dests -> [Paths -> 0 .. MaxTables]]] /\ born'[t] = row
      /\ \A u \in Tables : u # t => born'[u] = born[u]
  BY <1>1, <1>2, <1>4
<1>7. \A d \in Dests, p \in Paths, b \in Tables :
        mark'[d][p][b] = IF RefuseNew /\ b = t /\ [dest |-> d, path |-> p] \in new
                         THEN stamp' ELSE mark[d][p][b]
  BY <1>1
<1>8. MarksOK'
  <2>1. stamp' \in 0 .. stamp'
    BY <1>3
  <2>2. ASSUME NEW d \in Dests, NEW p \in Paths, NEW b \in Tables
        PROVE  mark'[d][p][b] \in 0 .. stamp'
    <3>1. mark[d][p][b] \in 0 .. stamp'
      BY <1>3 DEF Marks
    <3>2. mark'[d][p][b] = stamp' \/ mark'[d][p][b] = mark[d][p][b]
      BY <1>7, Zenon
    <3> QED BY <2>1, <3>1, <3>2
  <2>3. mark' \in Marks(stamp')
    BY <1>1, <2>2 DEF Marks
  <2> QED BY <1>3, <2>3 DEF MarksOK, Marks
<1> QED BY <1>1, <1>2, <1>3, <1>5, <1>6, <1>7, <1>8 DEF t, new

\* Connections and affinities look only at tables up to the live one.
LEMMA OldTables ==
  ASSUME TablesOK, table' = table, \A t \in 1 .. table : born'[t] = born[t]
  PROVE  /\ AffinityOK /\ affinity' = affinity => AffinityOK'
         /\ ConnsOK /\ conn' = conn => ConnsOK'
<1>1. table \in Nat /\ table \in 1 .. table
  BY LocalHealthConstants DEF TablesOK, Tables
<1>2. ASSUME NEW t \in 1 .. table, NEW d PROVE SlotsOf(t, d)' = SlotsOf(t, d)
  BY DEF SlotsOf
<1>3. AffinityOK /\ affinity' = affinity => AffinityOK'
  BY <1>1, <1>2 DEF AffinityOK
<1>4. ASSUME ConnsOK, conn' = conn PROVE ConnsOK'
  <2> SUFFICES ASSUME NEW c \in Conns PROVE OnItsTable(conn[c])'
    BY <1>4 DEF ConnsOK
  <2> DEFINE k == conn[c]
  <2>1. k \in ConnStates /\ OnItsTable(k)
    BY <1>4 DEF ConnsOK
  <2>2. k.table \in 1 .. table /\ k.table \in Nat
    BY <1>1, <2>1 DEF OnItsTable, ConnStates, Tables
  <2>3. SlotsOf(k.table, k.dest)' = SlotsOf(k.table, k.dest)
    BY <1>2, <1>4, <2>2
  <2>4. SameHealth(k.table) => SameHealth(k.table)'
    <3> SUFFICES ASSUME SameHealth(k.table), NEW d \in Dests, NEW p \in Paths, Shared(k.table, d, p)'
                 PROVE  born'[table][d][p] = born'[k.table][d][p]
      BY <1>4 DEF SameHealth
    <3>1. \A u \in k.table .. table : p \in SlotsOf(u, d)'
      BY <1>4 DEF Shared
    <3>2. \A u \in k.table .. table : u \in 1 .. table
      BY <1>1, <2>2
    <3>3. Shared(k.table, d, p)
      BY <1>2, <3>1, <3>2 DEF Shared
    <3> QED BY <1>1, <2>2, <3>3 DEF SameHealth
  <2>5. k.table <= table'
    BY <2>1 DEF OnItsTable
  <2> QED BY <1>4, <2>1, <2>3, <2>4, <2>5 DEF OnItsTable, Untried
<1> QED BY <1>3, <1>4

\* The table under construction takes over the SlotHealth of every slot it keeps.
LEMMA RebuildOK ==
  ASSUME IInv, NEW layout \in Layouts, Rebuild(layout)
  PROVE  IInv'
<1> DEFINE t == built + 1
<1>1. /\ pending = NoTable /\ built' = t /\ pending' = t /\ t \in Tables
      /\ table' = table /\ built \in Nat /\ table <= built
      /\ born' \in [Tables -> [Dests -> [Paths -> 0 .. MaxTables]]]
      /\ \A u \in Tables : u # t => born'[u] = born[u]
      /\ stamp \in Nat /\ stamp' \in Nat /\ stamp <= stamp' /\ MarksOK'
  BY RebuildStep
<1>2. \A d \in Dests, p \in Paths :
        born'[t][d][p] = IF p \notin layout[d] THEN NoTable
                         ELSE IF [dest |-> d, path |-> p] \in NewSlots(layout) THEN t
                         ELSE born[table][d][p]
  BY RebuildStep
<1> HIDE DEF t
<1>3. table \in 1 .. built /\ built \in Tables /\ t = built + 1
  BY DEF IInv, TablesOK, t
<1>4. \A u \in 1 .. table : u \in Tables /\ u # t
  BY <1>1, <1>3, LocalHealthConstants DEF Tables
<1>5. born'[table] = born[table]
  BY <1>1, <1>3, <1>4
<1>6. ASSUME NEW d \in Dests, NEW p \in Paths, born'[t][d][p] # NoTable, born[table][d][p] # NoTable
      PROVE  born'[t][d][p] = born[table][d][p]
  <2>1. [dest |-> d, path |-> p] \notin NewSlots(layout)
    BY <1>6 DEF NewSlots, Inherited
  <2> QED BY <1>2, <1>6, <2>1
<1>7. TablesOK'
  <2>1. table' \in 1 .. built' /\ table' < built'
    BY <1>1, <1>3
  <2> QED BY <1>1, <1>5, <1>6, <2>1 DEF TablesOK
<1>8. UNCHANGED <<environment, balancer, conn, probe, rested, events, accepted, active, affinity>>
  BY DEF Rebuild, balancer
<1>9. AffinityOK' /\ ConnsOK'
  BY <1>1, <1>4, <1>8, OldTables DEF IInv
<1>10. ProbeOK'
  BY <1>1, <1>8, ProbeFrame DEF IInv
<1> QED BY <1>1, <1>7, <1>8, <1>9, <1>10, Frame DEF IInv

\* The table built goes live, or is dropped.
LEMMA SwapOK ==
  ASSUME IInv, Swap
  PROVE  IInv'
<1>1. /\ pending # NoTable /\ table' \in {pending, table} /\ pending' = NoTable
      /\ affinity' = IF table' = table THEN affinity ELSE NoAffinity
      /\ UNCHANGED <<environment, built, born, health, active, conn, probe, rested, events, accepted>>
      /\ UNCHANGED stamp
  BY DEF Swap, health
<1>2. /\ pending = built /\ table < built /\ built \in Tables /\ table \in 1 .. built /\ built \in Nat
      /\ \A d \in Dests, p \in Paths :
           born[pending][d][p] # NoTable /\ born[table][d][p] # NoTable =>
             born[pending][d][p] = born[table][d][p]
  BY <1>1, LocalHealthConstants DEF IInv, TablesOK, Tables
<1>3. TablesOK'
  <2>1. table' \in 1 .. built
    BY <1>1, <1>2
  <2> QED BY <1>1, <1>2, <2>1 DEF IInv, TablesOK
<1>4. ProbeOK'
  <2>1. stamp \in Nat
    BY DEF IInv, MarksOK
  <2> QED BY <1>1, <2>1, ProbeFrame DEF IInv
<1>5. CASE table' = table
  BY <1>1, <1>3, <1>4, <1>5, Frame DEF IInv
<1>6. CASE table' = pending /\ table' # table
  <2>1. AffinityOK'
    BY <1>1, <1>6 DEF AffinityOK, NoAffinity
  <2>2. ASSUME NEW c \in Conns PROVE OnItsTable(conn[c])'
    <3> DEFINE k == conn[c]
    <3>1. k \in ConnStates /\ OnItsTable(k) /\ k.table \in Nat /\ k' = k
      BY <1>1, LocalHealthConstants DEF IInv, ConnsOK, ConnStates, Tables
    <3>2. k.table <= table /\ k.table <= table'
      BY <1>2, <1>6, <3>1 DEF OnItsTable
    <3>3. SameHealth(k.table) => SameHealth(k.table)'
      <4> SUFFICES ASSUME SameHealth(k.table), NEW d \in Dests, NEW p \in Paths,
                          Shared(k.table, d, p)'
                   PROVE  born[pending][d][p] = born[k.table][d][p]
        BY <1>1, <1>6 DEF SameHealth
      <4>1. \A u \in k.table .. pending : p \in SlotsOf(u, d)
        BY <1>1, <1>6 DEF Shared, SlotsOf
      <4>2. /\ \A u \in k.table .. table : u \in k.table .. pending
            /\ pending \in k.table .. pending /\ table \in k.table .. pending
        BY <1>2, <3>1, <3>2
      <4>3. Shared(k.table, d, p)
        BY <4>1, <4>2 DEF Shared
      <4>4. born[table][d][p] = born[k.table][d][p]
        BY <4>3 DEF SameHealth
      <4>5. p \in SlotsOf(table, d) /\ p \in SlotsOf(pending, d)
        BY <4>1, <4>2
      <4> QED BY <1>2, <4>4, <4>5 DEF SlotsOf
    <3>4. SlotsOf(k.table, k.dest)' = SlotsOf(k.table, k.dest)
      BY <1>1 DEF SlotsOf
    <3> QED BY <3>1, <3>2, <3>3, <3>4 DEF OnItsTable, Untried
  <2>3. ConnsOK'
    BY <1>1, <2>2 DEF IInv, ConnsOK
  <2> QED BY <1>1, <1>3, <1>4, <2>1, <2>3, Frame DEF IInv
<1> QED BY <1>1, <1>5, <1>6

\* An endpoint changes.
LEMMA FlipOK ==
  ASSUME IInv, NEW p \in Paths, NEW s \in {"up", "down", "hollow"}, Flip(p, s)
  PROVE  IInv'
<1>1. /\ UNCHANGED <<tables, health, balancer, conn, probe, rested, events, accepted>>
      /\ UNCHANGED <<table, born, stamp, active, affinity>>
  BY DEF Flip, tables, health, balancer
<1>2. BoundsOK'
  <2>1. endpoint' \in [Paths -> {"up", "down", "hollow"}]
    BY DEF Flip, IInv, BoundsOK
  <2>2. flips' \in 0 .. MaxFlips
    BY LocalHealthConstants DEF Flip, IInv, BoundsOK
  <2> QED BY <1>1, <2>1, <2>2 DEF IInv, BoundsOK, events
<1>3. ProbeOK'
  <2>1. stamp \in Nat
    BY DEF IInv, MarksOK
  <2> QED BY <1>1, <2>1, ProbeFrame DEF IInv
<1> QED BY <1>1, <1>2, <1>3, Frame DEF IInv

\* The invariant holds at the start.
LEMMA InitOK == Init => IInv
<1> SUFFICES ASSUME Init PROVE IInv
  OBVIOUS
<1>1. MaxTables \in Nat /\ MaxTables >= 1 /\ 1 \in Tables /\ {NoTable, 1} \subseteq 0 .. MaxTables
  BY LocalHealthConstants DEF Tables, NoTable
<1>2. TablesOK
  <2>1. table = 1 /\ built = 1 /\ pending = NoTable
    BY DEF Init
  <2>2. born \in [Tables -> [Dests -> [Paths -> 0 .. MaxTables]]]
    BY <1>1 DEF Init
  <2> QED BY <1>1, <2>1, <2>2 DEF TablesOK
<1>3. MarksOK
  BY LocalHealthConstants DEF Init, MarksOK, Marks
<1>4. AffinityOK
  BY DEF Init, AffinityOK, NoAffinity
<1>5. ConnsOK
  BY <1>2, FreeOK DEF Init, ConnsOK
<1>6. CountsOK
  <2>1. \A t, d, p : OpenOn(t, d, p) = {}
    BY DEF Init, OpenOn, Free
  <2>2. 0 \in 0 .. Cardinality(Conns)
    BY FS_CardinalityType, LocalHealthConstants
  <2> QED BY <2>1, <2>2, FS_EmptySet DEF Init, CountsOK
<1>7. ProbeOK
  <2>1. /\ probe.due = {} /\ probe.running = {} /\ probe.passed = {}
        /\ probe \in [pc : {"asleep", "probing"}, due : SUBSET Dues, running : SUBSET Paths,
                      passed : SUBSET Paths]
    BY DEF Init, Asleep
  <2> QED BY <2>1 DEF Init, ProbeOK
<1>8. BoundsOK
  <2>1. endpoint \in [Paths -> {"up", "down", "hollow"}]
    BY DEF Init
  <2>2. flips \in 0 .. MaxFlips /\ drops \in 0 .. MaxDrops
    BY LocalHealthConstants DEF Init
  <2>3. rested \in BOOLEAN /\ reported \in BOOLEAN /\ told \in BOOLEAN
    BY DEF Init
  <2> QED BY <2>1, <2>2, <2>3 DEF BoundsOK
<1> QED BY <1>2, <1>3, <1>4, <1>5, <1>6, <1>7, <1>8 DEF IInv

\* Every step preserves the invariant.
LEMMA NextOK == IInv /\ [Next]_vars => IInv'
<1> SUFFICES ASSUME IInv, [Next]_vars PROVE IInv'
  OBVIOUS
<1>1. ASSUME NEW c \in Conns, NEW d \in Dests, Arrive(c, d) PROVE IInv'
  BY <1>1, ArriveOK
<1>2. ASSUME NEW c \in Conns, Connected(c) \/ Refused(c) \/ Expires(c) \/ Fails(c) \/ Close(c)
      PROVE  IInv'
  BY <1>2, ConnectedOK, RefusedOK, ExpiresOK, FailsOK, CloseOK
<1>3. CASE AffinityLapses
  BY <1>3, LapsesOK
<1>4. CASE Probing
  BY <1>4, PassOK, ReportOK, ConnectsOK, ProbeFailsOK, ProbeClearsOK DEF Probing
<1>5. CASE IntervalPasses
  BY <1>5, IntervalOK
<1>6. ASSUME NEW layout \in Layouts, Rebuild(layout) PROVE IInv'
  BY <1>6, RebuildOK
<1>7. CASE Swap
  BY <1>7, SwapOK
<1>8. ASSUME NEW p \in Paths, NEW s \in {"up", "down", "hollow"}, Flip(p, s) PROVE IInv'
  BY <1>8, FlipOK
<1>9. CASE UNCHANGED vars
  <2>1. /\ UNCHANGED <<environment, tables, health, balancer, conn, probe, rested, events, accepted>>
        /\ UNCHANGED <<table, born, stamp, active, affinity>>
    BY <1>9 DEF vars, tables, health, balancer
  <2>2. ProbeOK'
    <3>1. stamp \in Nat
      BY DEF IInv, MarksOK
    <3> QED BY <2>1, <3>1, ProbeFrame DEF IInv
  <2> QED BY <2>1, <2>2, Frame DEF IInv
<1> QED BY <1>1, <1>2, <1>3, <1>4, <1>5, <1>6, <1>7, <1>8, <1>9 DEF Next

----------------------------------------------------------------------------
(* The paths that were not down since a connection arrived                 *)

\* A path spared is not down now, and the connection did not try it.
SparedOK ==
  /\ spared \in [Conns -> SUBSET Paths]
  /\ \A c \in Conns : \A p \in spared[c] : endpoint[p] # "down"
  /\ \A c \in Conns : conn[c].tried \cap spared[c] = {}

\* A connection that starts over, or is done, with what it is to be spared.
LEMMA SparedReset ==
  ASSUME SparedOK, ConnsOK, NEW c \in Conns, NEW k, NEW S \in SUBSET Paths, UNCHANGED endpoint,
         conn' = [conn EXCEPT ![c] = k], spared' = [spared EXCEPT ![c] = S],
         \A p \in S : endpoint[p] # "down", k.tried \cap S = {}
  PROVE  SparedOK'
<1>1. spared' \in [Conns -> SUBSET Paths]
  BY DEF SparedOK
<1>2. ASSUME NEW e \in Conns
      PROVE  (\A p \in spared'[e] : endpoint'[p] # "down") /\ conn'[e].tried \cap spared'[e] = {}
  <2>1. CASE e = c
    BY <2>1 DEF SparedOK, ConnsOK
  <2>2. CASE e # c
    BY <2>2 DEF SparedOK, ConnsOK
  <2> QED BY <2>1, <2>2
<1> QED BY <1>1, <1>2 DEF SparedOK

\* Every step preserves it: a refusal tries a path that is down, and so not spared.
LEMMA SparedStep == IInv /\ SparedOK /\ [Next]_vars => SparedOK'
<1> SUFFICES ASSUME IInv, SparedOK, [Next]_vars PROVE SparedOK'
  OBVIOUS
<1>0. ConnsOK
  BY DEF IInv
<1>1. ASSUME UNCHANGED <<endpoint, spared, conn>> PROVE SparedOK'
  BY <1>1 DEF SparedOK
<1>2. ASSUME NEW c \in Conns, NEW d \in Dests, Arrive(c, d) PROVE SparedOK'
  <2>1. PICK p : conn' = [conn EXCEPT ![c] = [pc |-> "connecting", table |-> table, dest |-> d,
                                              slot |-> p, tried |-> {}]]
    BY <1>2 DEF Arrive
  <2> DEFINE k == [pc |-> "connecting", table |-> table, dest |-> d, slot |-> p, tried |-> {}]
             S == {q \in Paths : endpoint[q] # "down"}
  <2>2. k.tried = {} /\ S \in SUBSET Paths /\ \A q \in S : endpoint[q] # "down"
    OBVIOUS
  <2>3. conn' = [conn EXCEPT ![c] = k] /\ spared' = [spared EXCEPT ![c] = S]
    BY <1>2, <2>1 DEF Arrive
  <2>4. UNCHANGED endpoint
    BY <1>2 DEF Arrive
  <2> HIDE DEF k, S
  <2> QED BY <1>0, <2>2, <2>3, <2>4, SparedReset
<1>3. ASSUME NEW c \in Conns, Connected(c) \/ Expires(c) \/ Fails(c) PROVE SparedOK'
  <2>1. UNCHANGED endpoint /\ spared' = [spared EXCEPT ![c] = {}]
    BY <1>3 DEF Connected, Expires, Fails
  <2>2. PICK k : conn' = [conn EXCEPT ![c] = k]
    <3>1. CASE Connected(c)
      <4>1. conn' = [conn EXCEPT ![c] = [conn[c] EXCEPT !.pc = "open"]]
        BY <3>1 DEF Connected
      <4> QED BY <4>1
    <3>2. CASE Expires(c) \/ Fails(c)
      BY <3>2 DEF Expires, Fails
    <3> QED BY <1>3, <3>1, <3>2
  <2>3. {} \in SUBSET Paths /\ k.tried \cap {} = {} /\ \A p \in {} : endpoint[p] # "down"
    OBVIOUS
  <2> QED BY <1>0, <2>1, <2>2, <2>3, SparedReset
<1>4. ASSUME NEW c \in Conns, Refused(c) PROVE SparedOK'
  <2> DEFINE k == [conn[c] EXCEPT !.tried = conn[c].tried \cup {conn[c].slot}]
  <2>1. k.slot = conn[c].slot /\ k.tried = conn[c].tried \cup {conn[c].slot} /\ conn[c] \in ConnStates
    BY <1>0 DEF ConnsOK, ConnStates
  <2>2. endpoint[conn[c].slot] = "down" /\ UNCHANGED <<endpoint, spared>>
    BY <1>4, <2>1 DEF Refused, environment
  <2>3. PICK j : conn' = [conn EXCEPT ![c] = j] /\ j.tried = k.tried
    <3>1. \/ \E p \in NextUntried(k) : conn' = [conn EXCEPT ![c] = [k EXCEPT !.slot = p]]
          \/ conn' = [conn EXCEPT ![c] = [k EXCEPT !.pc = "refused"]]
      BY <1>4 DEF Refused
    <3>2. ASSUME NEW p, conn' = [conn EXCEPT ![c] = [k EXCEPT !.slot = p]]
          PROVE  \E j : conn' = [conn EXCEPT ![c] = j] /\ j.tried = k.tried
      <4>1. [k EXCEPT !.slot = p].tried = k.tried
        BY <2>1 DEF ConnStates
      <4> HIDE DEF k
      <4> WITNESS [k EXCEPT !.slot = p]
      <4> QED BY <3>2, <4>1
    <3>3. ASSUME conn' = [conn EXCEPT ![c] = [k EXCEPT !.pc = "refused"]]
          PROVE  \E j : conn' = [conn EXCEPT ![c] = j] /\ j.tried = k.tried
      <4>1. [k EXCEPT !.pc = "refused"].tried = k.tried
        BY <2>1 DEF ConnStates
      <4> HIDE DEF k
      <4> WITNESS [k EXCEPT !.pc = "refused"]
      <4> QED BY <3>3, <4>1
    <3> HIDE DEF k
    <3> QED BY <3>1, <3>2, <3>3
  <2>4. spared' = [spared EXCEPT ![c] = spared[c]]
    BY <2>2 DEF SparedOK
  <2>5. j.tried \cap spared[c] = {}
    BY <2>1, <2>2, <2>3 DEF SparedOK
  <2>6. spared[c] \in SUBSET Paths /\ \A p \in spared[c] : endpoint[p] # "down"
    BY DEF SparedOK
  <2> HIDE DEF k
  <2> QED BY <1>0, <2>2, <2>3, <2>4, <2>5, <2>6, SparedReset
<1>5. ASSUME NEW c \in Conns, Close(c) PROVE SparedOK'
  <2>1. UNCHANGED <<endpoint, spared>> /\ conn' = [conn EXCEPT ![c] = Free] /\ Free.tried = {}
    BY <1>5 DEF Close, environment, Free
  <2>2. spared' = [spared EXCEPT ![c] = spared[c]]
    BY <2>1 DEF SparedOK
  <2>3. spared[c] \in SUBSET Paths /\ \A p \in spared[c] : endpoint[p] # "down"
    BY DEF SparedOK
  <2> QED BY <1>0, <2>1, <2>2, <2>3, SparedReset
<1>6. ASSUME NEW q \in Paths, NEW s \in {"up", "down", "hollow"}, Flip(q, s) PROVE SparedOK'
  <2>1. /\ endpoint' = [endpoint EXCEPT ![q] = s] /\ UNCHANGED conn
        /\ spared' = [c \in Conns |-> IF s = "down" THEN spared[c] \ {q} ELSE spared[c]]
        /\ endpoint \in [Paths -> {"up", "down", "hollow"}]
    BY <1>6 DEF Flip, IInv, BoundsOK
  <2>2. spared' \in [Conns -> SUBSET Paths] /\ \A c \in Conns : spared'[c] \subseteq spared[c]
    BY <2>1 DEF SparedOK
  <2>3. ASSUME NEW c \in Conns, NEW p \in spared'[c] PROVE endpoint'[p] # "down"
    <3>1. p \in Paths /\ endpoint[p] # "down" /\ (s = "down" => p # q)
      BY <2>1, <2>2 DEF SparedOK
    <3> QED BY <2>1, <3>1
  <2> QED BY <2>1, <2>2, <2>3 DEF SparedOK
<1>7. CASE AffinityLapses
  BY <1>1, <1>7 DEF AffinityLapses, environment
<1>8. CASE Probing
  BY <1>1, <1>8
     DEF Probing, ProbePass, Report, ProbeConnects, ProbeFails, ProbeClears, environment
<1>9. CASE IntervalPasses
  BY <1>1, <1>9 DEF IntervalPasses, environment
<1>10. ASSUME NEW layout \in Layouts, Rebuild(layout) PROVE SparedOK'
  BY <1>1, <1>10 DEF Rebuild, environment
<1>11. CASE Swap
  BY <1>1, <1>11 DEF Swap, environment
<1>12. CASE UNCHANGED vars
  BY <1>1, <1>12 DEF vars, environment
<1> QED BY <1>2, <1>3, <1>4, <1>5, <1>6, <1>7, <1>8, <1>9, <1>10, <1>11, <1>12 DEF Next

----------------------------------------------------------------------------
(* What the invariant and the steps give                                   *)

\* The invariant is at least as strong as the type invariant.
LEMMA IInvTypes == IInv /\ SparedOK => TypeOK
<1> SUFFICES ASSUME IInv, SparedOK PROVE TypeOK
  OBVIOUS
<1>1. table \in 1 .. built /\ built \in Tables /\ pending \in 0 .. built
  BY LocalHealthConstants DEF IInv, TablesOK, Tables, NoTable
<1>2. /\ probe.pc \in {"asleep", "probing"}
      /\ probe.running \cup probe.passed \subseteq {s.path : s \in probe.due}
      /\ accepted \in [Paths -> 0 .. stamp]
  BY DEF IInv, ProbeOK
<1>3. /\ born \in [Tables -> [Dests -> [Paths -> 0 .. MaxTables]]]
      /\ mark \in [Dests -> [Paths -> [Tables -> 0 .. stamp]]] /\ stamp \in 0 .. MaxStamp
  BY DEF IInv, TablesOK, MarksOK, Marks
<1>4. /\ active \in [Tables -> [Dests -> [Paths -> 0 .. Cardinality(Conns)]]]
      /\ affinity \in [Dests -> [IPs -> Paths \cup {NoPath}]] /\ conn \in [Conns -> ConnStates]
  BY DEF IInv, CountsOK, AffinityOK, ConnsOK
<1>5. BoundsOK
  BY DEF IInv
<1>6. spared \in [Conns -> SUBSET Paths]
  BY DEF SparedOK
<1> QED BY <1>1, <1>2, <1>3, <1>4, <1>5, <1>6 DEF TypeOK, BoundsOK, ConnStates

\* A mark is cleared only by a probe that met its endpoint after the refusal.
LEMMA ClearStep ==
  ASSUME IInv, [Next]_vars, NEW d \in Dests, NEW p \in Paths, NEW b \in Tables,
         mark[d][p][b] # 0, mark'[d][p][b] = 0
  PROVE  p \in probe.passed /\ accepted[p] >= mark[d][p][b]
<1>1. CASE mark' = mark
  BY <1>1
<1>2. ASSUME NEW c \in Conns, Refused(c) \/ Expires(c) PROVE FALSE
  <2>1. /\ conn[c].pc = "connecting" /\ MarkRefused(conn[c].table, conn[c].dest, conn[c].slot)
    <3>1. conn[c] \in ConnStates
      BY DEF IInv, ConnsOK
    <3> QED BY <1>2, <3>1 DEF Refused, Expires, ConnStates
  <2>2. /\ stamp \in Nat /\ stamp' = stamp + 1 /\ mark'[d][p][b] \in {stamp', mark[d][p][b]}
    BY <2>1, OnSlot, MarkOK DEF IInv
  <2> QED BY <2>2
<1>3. ASSUME NEW layout \in Layouts, Rebuild(layout) PROVE FALSE
  <2>1. /\ stamp \in Nat /\ stamp' = IF RefuseNew /\ NewSlots(layout) # {} THEN stamp + 1 ELSE stamp
        /\ mark'[d][p][b] =
             IF RefuseNew /\ b = built + 1 /\ [dest |-> d, path |-> p] \in NewSlots(layout)
             THEN stamp' ELSE mark[d][p][b]
    BY <1>3, RebuildStep
  <2>2. RefuseNew /\ [dest |-> d, path |-> p] \in NewSlots(layout)
    BY <2>1
  <2>3. stamp' = stamp + 1 /\ mark'[d][p][b] = stamp'
    BY <2>1, <2>2
  <2> QED BY <2>1, <2>3
<1>4. ASSUME NEW q \in Paths, ProbeClears(q)
      PROVE  p \in probe.passed /\ accepted[p] >= mark[d][p][b]
  <2> DEFINE seen == {s \in probe.due : s.dest = d /\ s.path = p /\ s.born = b}
  <2>1. mark'[d][p][b] = IF p = q /\ seen # {}
                         THEN ClearIfUnchanged(mark[d][p][b], (CHOOSE s \in seen : TRUE).observed)
                         ELSE mark[d][p][b]
    BY <1>4 DEF ProbeClears
  <2>2. PICK s \in seen : p = q /\ mark'[d][p][b] = ClearIfUnchanged(mark[d][p][b], s.observed)
    BY <2>1
  <2>3. mark[d][p][b] = s.observed /\ s \in probe.due /\ s.path = p
    BY <2>2 DEF ClearIfUnchanged
  <2>4. p \in probe.passed
    BY <1>4, <2>2 DEF ProbeClears
  <2>5. /\ s.observed <= accepted[p] /\ s.observed \in Nat /\ accepted[p] \in Nat
    BY <2>3, <2>4 DEF IInv, ProbeOK, MarksOK, Dues
  <2> QED BY <2>3, <2>4, <2>5
<1>5. \/ mark' = mark
      \/ \E c \in Conns : Refused(c) \/ Expires(c)
      \/ \E layout \in Layouts : Rebuild(layout)
      \/ \E q \in Paths : ProbeClears(q)
  BY DEF Next, vars, Arrive, Connected, Fails, Close, AffinityLapses, Probing, ProbePass, Report,
     ProbeConnects, ProbeFails, IntervalPasses, Swap, Flip, health
<1> QED BY <1>1, <1>2, <1>3, <1>4, <1>5

\* A refusal met on any table is marked where the live table looks for it.
LEMMA ReachStep ==
  ASSUME IInv, [Next]_vars, NEW c \in Conns, conn[c].pc = "connecting", stamp' > stamp,
         conn'[c] # conn[c], Shared(conn[c].table, conn[c].dest, conn[c].slot)
  PROVE  mark'[conn[c].dest][conn[c].slot][born[table][conn[c].dest][conn[c].slot]] # 0
<1> DEFINE k == conn[c]
<1>1. stamp \in Nat /\ conn \in [Conns -> ConnStates]
  BY DEF IInv, MarksOK, ConnsOK
<1>2. PICK e \in Conns : Refused(e) \/ Expires(e)
  <2>1. stamp' # stamp
    BY <1>1
  <2>2. conn' # conn
    OBVIOUS
  <2>3. ASSUME NEW layout, Rebuild(layout) PROVE conn' = conn
    BY <2>3 DEF Rebuild
  <2>4. ASSUME AffinityLapses \/ IntervalPasses \/ Swap PROVE stamp' = stamp
    BY <2>4 DEF AffinityLapses, IntervalPasses, Swap, health
  <2>5. ASSUME NEW p, NEW s, Flip(p, s) PROVE stamp' = stamp
    BY <2>5 DEF Flip, health
  <2>6. ASSUME Probing PROVE stamp' = stamp
    BY <2>6 DEF Probing, ProbePass, Report, ProbeConnects, ProbeFails, ProbeClears, health
  <2>7. ASSUME NEW e, NEW d, Arrive(e, d) PROVE stamp' = stamp
    BY <2>7 DEF Arrive, health
  <2>8. ASSUME NEW e, Connected(e) \/ Fails(e) \/ Close(e) PROVE stamp' = stamp
    BY <2>8 DEF Connected, Fails, Close, health
  <2>9. ~ UNCHANGED vars
    BY <2>2 DEF vars
  <2>10. Next
    BY <2>9
  <2> QED BY <2>1, <2>2, <2>3, <2>4, <2>5, <2>6, <2>7, <2>8, <2>10, Zenon DEF Next
<1>3. e = c
  <2>1. \E j : conn' = [conn EXCEPT ![e] = j]
    BY <1>2 DEF Refused, Expires
  <2> QED BY <1>1, <2>1
<1>4. MarkRefused(k.table, k.dest, k.slot)
  BY <1>1, <1>2, <1>3, ZenonT(30) DEF Refused, Expires, ConnStates
<1>5. mark'[k.dest][k.slot][born[k.table][k.dest][k.slot]] = stamp' /\ stamp' = stamp + 1
  <2> DEFINE t == k.table
             d == k.dest
             p == k.slot
  <2>1. t \in Tables /\ d \in Dests /\ p \in SlotsOf(t, d)
    BY OnSlot
  <2>2. TablesOK /\ MarksOK /\ MarkRefused(t, d, p)
    BY <1>4 DEF IInv
  <2> HIDE DEF t, d, p
  <2>3. mark'[d][p][born[t][d][p]] = stamp' /\ stamp' = stamp + 1
    BY <2>1, <2>2, MarkOK
  <2> QED BY <2>3 DEF t, d, p
<1>6. born[table][k.dest][k.slot] = born[k.table][k.dest][k.slot]
  BY OnSlot DEF IInv, ConnsOK, OnItsTable, SameHealth
<1>7. stamp' # 0
  <2>1. stamp' = stamp + 1
    BY <1>5
  <2> QED BY <1>1, <2>1
<1> QED BY <1>5, <1>6, <1>7, Zenon

\* A destination that is down when the table is rebuilt is down in the new one.
LEMMA DownStep ==
  ASSUME IInv, [Next]_vars, pending = NoTable, pending' # NoTable, NEW d \in Dests,
         AllRefusing(table, d), (SlotsOf(pending, d) # {})'
  PROVE  AllRefusing(pending, d)'
<1>1. PICK layout \in Layouts : Rebuild(layout)
  BY DEF Next, vars, Arrive, Connected, Refused, Expires, Fails, Close, AffinityLapses, Probing,
     ProbePass, Report, ProbeConnects, ProbeFails, ProbeClears, IntervalPasses, Swap, Flip, tables
<1> DEFINE t == built + 1
           new == NewSlots(layout)
<1>2. /\ pending' = t /\ t \in Tables /\ stamp \in Nat
      /\ stamp' = IF RefuseNew /\ new # {} THEN stamp + 1 ELSE stamp
      /\ \A p \in Paths : born'[t][d][p] = IF p \notin layout[d] THEN NoTable
                                           ELSE IF [dest |-> d, path |-> p] \in new THEN t
                                           ELSE born[table][d][p]
      /\ \A p \in Paths, b \in Tables :
           mark'[d][p][b] = IF RefuseNew /\ b = t /\ [dest |-> d, path |-> p] \in new
                            THEN stamp' ELSE mark[d][p][b]
  BY <1>1, RebuildStep
<1>3. RefuseNew
  BY DEF RefuseNew, LocallyDown
<1> HIDE DEF t, new
<1>4. ASSUME NEW p \in Paths, born'[t][d][p] # NoTable
      PROVE  mark'[d][p][born'[t][d][p]] # 0
  <2>1. CASE [dest |-> d, path |-> p] \in new
    <3>1. stamp' = stamp + 1 /\ born'[t][d][p] = t
      BY <1>2, <1>3, <1>4, <2>1
    <3>2. mark'[d][p][t] = stamp'
      BY <1>2, <1>3, <2>1
    <3> QED BY <1>2, <3>1, <3>2
  <2>2. CASE [dest |-> d, path |-> p] \notin new
    <3>1. born'[t][d][p] = born[table][d][p]
      BY <1>2, <1>4, <2>2
    <3>2. p \in SlotsOf(table, d) /\ born[table][d][p] \in Tables
      BY <1>4, <3>1, LocalHealthConstants DEF SlotsOf, IInv, TablesOK, Tables, NoTable
    <3>3. mark[d][p][born[table][d][p]] # 0
      BY <3>2 DEF AllRefusing, Refusing, MarkOf
    <3> QED BY <1>2, <2>2, <3>1, <3>2, <3>3
  <2> QED BY <2>1, <2>2
<1> QED BY <1>2, <1>4 DEF AllRefusing, Refusing, MarkOf, SlotsOf

----------------------------------------------------------------------------
(* The theorems                                                            *)

\* The invariant holds in every state.
LEMMA Inductive == Spec => []IInv
BY InitOK, NextOK, PTL DEF Spec

LEMMA SparedAlways == Spec => []SparedOK
<1>1. Init => SparedOK
  BY DEF Init, SparedOK, Free
<1> QED BY <1>1, SparedStep, Inductive, PTL DEF Spec

\* Through any picks, retries, refusals and reloads, every balancer, live or
\* of an earlier table, counts exactly the connections open on it
\* (balancer.rs pick, upstream.rs BalancerGuard).
THEOREM CountsExactAlways == Spec => []CountsExact
<1>1. IInv /\ SparedOK => CountsExact
  BY IInvTypes DEF IInv, CountsOK, OpenOn, CountsExact, ActiveMatchesOpen
<1> QED BY <1>1, Inductive, SparedAlways, PTL

\* A connection gives up for want of a slot only if each slot of the table it
\* arrived on was down at some time since then: one that accepts all along is
\* found, with any number of slots and connections, whatever changed the order
\* in between (upstream.rs connect_uds, balancer.rs next_untried).
THEOREM AcceptingSlotFoundAlways == Spec => []AcceptingSlotFound
<1>1. IInv /\ SparedOK => AcceptingSlotFound
  BY DEF IInv, ConnsOK, OnItsTable, Untried, SparedOK, AcceptingSlotFound
<1> QED BY <1>1, Inductive, SparedAlways, PTL

\* A refusal mark is cleared only by a probe that met the endpoint serving
\* after that refusal; one met on an old table reaches the live one; and a
\* destination that is down stays down through a rebuild (balancer.rs
\* with_health, clear_if_unchanged; failover.rs probe_periodically).
THEOREM MarksKeptAlways == Spec => MarksKept
<1>1. IInv /\ [Next]_vars =>
        [\A d \in Dests, p \in Paths, b \in Tables :
           mark[d][p][b] # 0 /\ mark'[d][p][b] = 0 =>
             p \in probe.passed /\ accepted[p] >= mark[d][p][b]]_vars
  BY ClearStep
<1>2. IInv /\ [Next]_vars =>
        [\A c \in Conns :
           LET k == conn[c]
           IN  k.pc = "connecting" /\ stamp' > stamp /\ conn'[c] # k
                 /\ Shared(k.table, k.dest, k.slot)
               => mark'[k.dest][k.slot][born[table][k.dest][k.slot]] # 0]_vars
  BY ReachStep
<1>3. IInv /\ [Next]_vars =>
        [pending = NoTable /\ pending' # NoTable =>
           \A d \in Dests : AllRefusing(table, d) /\ (SlotsOf(pending, d) # {})' =>
             AllRefusing(pending, d)']_vars
  BY DownStep
<1> QED BY <1>1, <1>2, <1>3, Inductive, PTL
        DEF Spec, MarksKept, ClearedOnlyAfterAccept, RefusalReachesLive, RebuildKeepsDown

============================================================================
