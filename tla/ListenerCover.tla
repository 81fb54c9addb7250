--------------------------- MODULE ListenerCover ---------------------------
(***************************************************************************)
(* What replacing a running symphony-server promises its clients: however  *)
(* the processes settle it among themselves, one gives up its listeners of *)
(* its own accord only to a living process, started later, that has all of *)
(* them bound, or had them when it was told to stop.  A crash, a signal    *)
(* and the supervisor may take a process away at any time.  Handover       *)
(* implements this with a status file and a grace period.                  *)
(***************************************************************************)
EXTENDS Integers

CONSTANTS
  Processes,   \* numbered in the order they are launched
  Endpoints

VARIABLES
  launched,    \* the processes launched so far
  alive,       \* those that have not exited
  up,          \* those not stopping
  told,        \* those that are stopping because they were told to
  serving,     \* the endpoints each has bound
  served,      \* those it had bound when it was told to stop
  chief        \* the process the supervisor takes for the current one

vars == <<launched, alive, up, told, serving, served, chief>>

Init ==
  /\ launched = {} /\ alive = {} /\ up = {} /\ told = {}
  /\ serving = [p \in Processes |-> {}] /\ served = serving
  /\ chief \notin Processes

Launch(p) ==
  /\ p \notin launched
  /\ \A q \in Processes : q < p => q \in launched
  /\ launched' = launched \cup {p} /\ alive' = alive \cup {p} /\ up' = up \cup {p}
  /\ \E some \in SUBSET Endpoints : serving' = [serving EXCEPT ![p] = some]
  /\ UNCHANGED <<told, served, chief>>

\* A process binds more, never less, while it runs ...
Grow(p) ==
  /\ p \in up
  /\ \E some \in SUBSET Endpoints : serving' = [serving EXCEPT ![p] = @ \cup some]
  /\ UNCHANGED <<launched, alive, up, told, served, chief>>

\* ... and less and less while it stops.
Shrink(p) ==
  /\ p \in alive \ up
  /\ \E some \in SUBSET serving[p] : serving' = [serving EXCEPT ![p] = some]
  /\ UNCHANGED <<launched, alive, up, told, served, chief>>

\* It exits, or crashes.
Leave(p) ==
  /\ p \in alive
  /\ alive' = alive \ {p} /\ up' = up \ {p} /\ told' = told \ {p}
  /\ serving' = [serving EXCEPT ![p] = {}] /\ served' = [served EXCEPT ![p] = {}]
  /\ UNCHANGED <<launched, chief>>

\* A process that runs is told to stop.
Tell(p) ==
  /\ up' = up \ {p} /\ told' = told \cup {p}
  /\ served' = [served EXCEPT ![p] = serving[p]]
  /\ UNCHANGED <<launched, alive, serving>>

Terminate(p) == p \in up /\ Tell(p) /\ UNCHANGED chief

\* The supervisor follows the file and stops the process it followed before.
Appoint(p) ==
  /\ p # chief
  /\ chief' = p
  /\ \/ chief \in up /\ Tell(chief)
     \/ chief \notin up /\ UNCHANGED <<launched, alive, up, told, serving, served>>

\* The promise.
StandDown(p) ==
  /\ p \in up
  /\ \E q \in alive :
       /\ q > p
       /\ \/ q \in up /\ serving[p] \subseteq serving[q]
          \/ q \in told /\ serving[p] \subseteq served[q]
  /\ up' = up \ {p}
  /\ UNCHANGED <<launched, alive, told, serving, served, chief>>

Next ==
  \E p \in Processes :
    \/ Launch(p) \/ Grow(p) \/ Shrink(p) \/ Leave(p)
    \/ Terminate(p) \/ Appoint(p) \/ StandDown(p)

Spec == Init /\ [][Next]_vars

=============================================================================
