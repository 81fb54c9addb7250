----------------------------- MODULE LoadProofs -----------------------------
(***************************************************************************)
(* Theorems about the load of a route and what is done with it.            *)
(*                                                                         *)
(* ThreadCpu, for any process ids, intervals and delays of a pass, and any *)
(* number of discoveries and changes: a published load never compares two  *)
(* threads.                                                                *)
(*                                                                         *)
(* SpillControl, for any peers, destinations, connections, configurations  *)
(* and number of reloads, and any freshness windows: the share of          *)
(* connections sent away ramps at its step within its limit, and an        *)
(* admission is used while it is fresh, as it was meant, and withdrawn by  *)
(* nobody but the controller.                                              *)
(***************************************************************************)
EXTENDS ThreadCpu, SpillControl, WellFoundedInduction, TLAPS

----------------------------------------------------------------------------
(* CPU sampling: the inductive invariant                                   *)

\* The times of the sampling pass, and the shapes of what it keeps.
TimesOK ==
  /\ pass \in [Passes -> -1 .. MaxDelay]
  /\ sincePass \in 0 .. MaxDelay + 1
  /\ valid \in Int
  /\ -MaxDelay <= valid
  /\ valid <= Valid
  /\ DOMAIN base = {"of", "age"} /\ base.age \in Int
  /\ changed \in BOOLEAN
  /\ DOMAIN load = {"left", "of"}
  /\ DOMAIN mean = Passes

\* The baseline is the identified thread's own, and older than any pass that may still be
\* applied.
BaseOK ==
  /\ base # NoBase => base.of # Nobody /\ base.age >= sincePass
  /\ base # NoBase /\ identity.is = "discovered" => base.of = identity.of
  /\ identity = Unresolved => base = NoBase

\* A sample is valid only of a thread that is still identified and behind its socket.
ValidOK ==
  valid > -MaxDelay =>
    base # NoBase /\ identity.is = "discovered" /\ changed = FALSE /\ OfOneThread(util)

\* So is one that a pass has read and not yet taken in.
MeanOK == \A i \in Passes : mean[i] # NoUtil => OfOneThread(mean[i])

IInv == TimesOK /\ BaseOK /\ ValidOK /\ MeanOK /\ SampleOfOneThread

----------------------------------------------------------------------------
(* A pass over the slot                                                    *)

IsSlot(s) ==
  DOMAIN s = {"identity", "nextDisc", "nextCheck", "inode", "changed", "base", "util", "valid"}

\* Whatever of a slot is kept belongs to the identity it has.
SlotOK(s) ==
  /\ IsSlot(s)
  /\ s.changed \in BOOLEAN
  /\ s.valid = valid \/ s.valid = -MaxDelay
  /\ s.base = base \/ s.base = NoBase
  /\ s.base # NoBase /\ s.identity.is = "discovered" => s.base.of = s.identity.of
  /\ s.identity = Unresolved => s.base = NoBase
  /\ s.valid > -MaxDelay =>
       s.base # NoBase /\ s.identity.is = "discovered" /\ s.changed = FALSE /\ OfOneThread(s.util)

\* A slot that is reset keeps its identity and loses its base.
LEMMA ResetSlot ==
  ASSUME NEW s, IsSlot(s)
  PROVE  /\ IsSlot(Reset(s)) /\ Reset(s).base = NoBase /\ Reset(s).valid = -MaxDelay
         /\ Reset(s).identity = s.identity /\ Reset(s).changed = s.changed
BY DEF Reset, IsSlot

\* Deadlines, the inode and a change that is settled do not matter.
LEMMA KeepsSlotOK ==
  ASSUME NEW s, SlotOK(s), NEW t, IsSlot(t),
         t.valid = s.valid, t.base = s.base, t.util = s.util, t.identity = s.identity,
         t.changed = s.changed \/ t.changed = FALSE
  PROVE  SlotOK(t)
BY DEF SlotOK

\* What is forgotten is not wrong.
LEMMA ForgetsSlotOK ==
  ASSUME MaxDelay \in Nat, NEW t, IsSlot(t), t.changed \in BOOLEAN, t.base = NoBase, t.valid = -MaxDelay
  PROVE  SlotOK(t)
BY DEF SlotOK

\* apply_discovery forgets what it knew of another thread.
LEMMA ApplyOK ==
  ASSUME IInv, NEW age
  PROVE  SlotOK(ApplyDiscovery(State, age))
<1>1. MaxDelay \in Nat
  BY ThreadCpuAssumptions
<1>2. SlotOK(State) /\ IsSlot(State)
  BY DEF State, IsSlot, SlotOK, IInv, TimesOK, BaseOK, ValidOK
<1> HIDE DEF State
<1>3. CASE found = NotFound
  BY <1>2, <1>3 DEF ApplyDiscovery
<1>4. CASE found # NotFound /\ found.owner = 0
  <2> DEFINE t == [State EXCEPT !.nextDisc = Retry - age]
  <2>1. /\ IsSlot(t) /\ t.valid = State.valid /\ t.base = State.base /\ t.util = State.util
        /\ t.identity = State.identity /\ t.changed = State.changed
    BY <1>2 DEF IsSlot
  <2>2. ApplyDiscovery(State, age) = t
    BY <1>4 DEF ApplyDiscovery
  <2> HIDE DEF t
  <2> QED
    BY <1>2, <2>1, <2>2, KeepsSlotOK
<1>5. CASE found # NotFound /\ found.owner # 0
  <2> DEFINE id == Resolve(found.owner)
             settled == [State EXCEPT !.changed = FALSE]
             known == Identified(settled, id)
             later == [known EXCEPT !.nextDisc = Retry - age, !.nextCheck = Never]
             done == [known EXCEPT !.nextDisc = Never, !.nextCheck = Recheck - age,
                                   !.inode = found.inode]
  <2>1. ApplyDiscovery(State, age) = IF id = Unresolved THEN later ELSE done
    BY <1>5 DEF ApplyDiscovery
  <2>2. SlotOK(settled) /\ IsSlot(settled)
    <3>1. /\ IsSlot(settled) /\ settled.valid = State.valid /\ settled.base = State.base
          /\ settled.util = State.util /\ settled.identity = State.identity /\ settled.changed = FALSE
      BY <1>2 DEF IsSlot
    <3> HIDE DEF settled
    <3> QED
      BY <1>2, <3>1, KeepsSlotOK
  <2> HIDE DEF id, settled
  <2>3. SlotOK(known) /\ IsSlot(known)
    <3>1. CASE id = settled.identity
      BY <2>2, <3>1 DEF Identified
    <3>2. CASE id # settled.identity
      <4>1. IsSlot(Reset(settled)) /\ Reset(settled).base = NoBase
            /\ Reset(settled).valid = -MaxDelay /\ Reset(settled).changed \in BOOLEAN
        BY <2>2, ResetSlot DEF SlotOK
      <4>2. known = [Reset(settled) EXCEPT !.identity = id]
        BY <3>2 DEF Identified
      <4>3. IsSlot(known) /\ known.base = NoBase /\ known.valid = -MaxDelay
            /\ known.changed \in BOOLEAN
        BY <4>1, <4>2 DEF IsSlot
      <4> HIDE DEF known
      <4> QED
        BY <1>1, <4>3, ForgetsSlotOK
    <3> QED
      BY <3>1, <3>2
  <2> HIDE DEF known
  <2>4. /\ IsSlot(later) /\ later.valid = known.valid /\ later.base = known.base
        /\ later.util = known.util
        /\ later.identity = known.identity /\ later.changed = known.changed
    BY <2>3 DEF IsSlot
  <2>5. /\ IsSlot(done) /\ done.valid = known.valid /\ done.base = known.base
        /\ done.util = known.util
        /\ done.identity = known.identity /\ done.changed = known.changed
    BY <2>3 DEF IsSlot
  <2> HIDE DEF later, done
  <2>6. SlotOK(later) /\ SlotOK(done)
    BY <2>3, <2>4, <2>5, KeepsSlotOK
  <2> QED
    BY <2>1, <2>6
<1> QED
  BY <1>3, <1>4, <1>5

\* When the socket file has changed, the sample is valid no longer.
LEMMA CheckOK ==
  ASSUME NEW s, SlotOK(s), NEW age
  PROVE  SlotOK(CheckOwner(s, age))
<1>1. MaxDelay \in Nat /\ IsSlot(s)
  BY ThreadCpuAssumptions DEF SlotOK
<1> DEFINE later == [s EXCEPT !.nextCheck = Recheck - age]
           gone == [later EXCEPT !.nextDisc = -age, !.changed = TRUE, !.valid = -MaxDelay]
<1>2. CheckOwner(s, age) \in {s, later, gone}
  BY DEF CheckOwner
<1>3. /\ IsSlot(later) /\ later.valid = s.valid /\ later.base = s.base
      /\ later.util = s.util
      /\ later.identity = s.identity /\ later.changed = s.changed
  BY <1>1 DEF IsSlot
<1>4. SlotOK(later)
  BY <1>3, KeepsSlotOK
<1> HIDE DEF later
<1>5. /\ IsSlot(gone) /\ gone.valid = -MaxDelay /\ gone.base = s.base
      /\ gone.identity = s.identity /\ gone.changed \in BOOLEAN
  BY <1>3 DEF IsSlot
<1> HIDE DEF gone
<1>6. SlotOK(gone)
  BY <1>1, <1>5 DEF SlotOK
<1> QED
  BY <1>2, <1>4, <1>6

\* What a reading makes of the slot: nothing is valid, or the thread was measured against
\* its own baseline.
ReadOK(s, t, age) ==
  /\ DOMAIN t.base = {"of", "age"}
  /\ t.base # NoBase => t.base.of # Nobody /\ t.base.age = age
  /\ t.identity = Unresolved => t.base = NoBase
  /\ t.base # NoBase /\ t.identity.is = "discovered" => t.base.of = t.identity.of
  /\ \/ t.valid = -MaxDelay
     \/ /\ t.valid = Valid - age
        /\ s.base # NoBase /\ t.base # NoBase
        /\ s.identity.is = "discovered" /\ t.identity = s.identity
        /\ s.changed = FALSE /\ t.changed = FALSE
        /\ OfOneThread(t.util)

\* A reading measures only against a base of the same thread.
LEMMA ReadThreadOK ==
  ASSUME DOMAIN base = {"of", "age"}, NEW s, SlotOK(s), valid >= -MaxDelay, valid \in Int,
         NEW age, base # NoBase => age < base.age
  PROVE  ReadOK(s, ReadThread(s, age), age)
<1>1. MaxDelay \in Nat /\ IsSlot(s) /\ Valid \in Nat
  BY ThreadCpuAssumptions DEF SlotOK
<1> DEFINE stat == TaskStat(IF s.identity.is = "discovered" THEN s.identity.of.pid ELSE Configured)
           measured == s.base # NoBase
           counts == measured /\ s.identity.is = "discovered" /\ ~ s.changed
           read == [s EXCEPT !.base = [of |-> stat, age |-> age],
                             !.util = IF measured THEN Compared(s.base, stat, age) ELSE @,
                             !.valid = IF counts THEN Valid - age ELSE @]
<1>2. ReadThread(s, age) = IF s.identity = Unresolved THEN [s EXCEPT !.util = NoUtil]
                           ELSE IF ~ SameThread(s.identity, stat) THEN Lost(s, age) ELSE read
  BY DEF ReadThread
<1>3. /\ IsSlot(read) /\ read.base = [of |-> stat, age |-> age]
      /\ read.valid = IF counts THEN Valid - age ELSE s.valid
      /\ read.util = IF measured THEN Compared(s.base, stat, age) ELSE s.util
      /\ read.identity = s.identity /\ read.changed = s.changed
  BY <1>1 DEF IsSlot
<1> HIDE DEF stat, read
<1>4. CASE s.identity = Unresolved
  <2> DEFINE t == [s EXCEPT !.util = NoUtil]
  <2>1. s.base = NoBase /\ s.valid = -MaxDelay
    BY <1>1, <1>4 DEF SlotOK
  <2>2. t.base = NoBase /\ t.valid = -MaxDelay
    BY <1>1, <2>1 DEF IsSlot
  <2>3. ReadThread(s, age) = t
    BY <1>2, <1>4
  <2> HIDE DEF t
  <2> QED
    BY <2>2, <2>3 DEF ReadOK, NoBase
<1>5. CASE s.identity # Unresolved /\ ~ SameThread(s.identity, stat)
  <2>1. IsSlot(Reset(s)) /\ Reset(s).base = NoBase /\ Reset(s).valid = -MaxDelay
    BY <1>1, ResetSlot
  <2>2. Lost(s, age).base = NoBase /\ Lost(s, age).valid = -MaxDelay
    BY <2>1 DEF Lost, IsSlot
  <2> QED
    BY <1>2, <1>5, <2>2 DEF ReadOK, NoBase
<1>6. CASE s.identity # Unresolved /\ SameThread(s.identity, stat)
  <2>1. stat # Nobody /\ (s.identity.is = "discovered" => stat = s.identity.of)
    BY <1>6 DEF SameThread
  <2>2. read.base # NoBase /\ read.base.of = stat /\ read.base.age = age
    BY <1>3, <2>1 DEF NoBase
  <2>3. counts \/ s.valid = -MaxDelay
    BY <1>1 DEF SlotOK
  <2>4. counts => OfOneThread(read.util)
    <3> SUFFICES ASSUME counts PROVE OfOneThread(read.util)
      OBVIOUS
    <3>1. read.util = Compared(s.base, stat, age)
      BY <1>3
    <3>2. s.base = base /\ age < s.base.age /\ s.base.of = s.identity.of
      BY DEF SlotOK
    <3>3. (age < s.base.age) = TRUE
      BY <3>2
    <3>4. read.util = [from |-> s.base.of, to |-> stat, forward |-> TRUE]
      BY <3>1, <3>3, Zenon DEF Compared
    <3>5. s.base.of = stat /\ stat # Nobody
      BY <2>1, <3>2
    <3> QED
      BY <3>4, <3>5 DEF OfOneThread
  <2> QED
    BY <1>2, <1>3, <1>6, <2>1, <2>2, <2>3, <2>4 DEF ReadOK
<1> QED
  BY <1>4, <1>5, <1>6

\* The flag of a change is a Boolean after a reading.
LEMMA ReadThreadChanged ==
  ASSUME NEW s, SlotOK(s), NEW age
  PROVE  ReadThread(s, age).changed \in BOOLEAN
<1>1. IsSlot(s) /\ s.changed \in BOOLEAN
  BY DEF SlotOK
<1>2. IsSlot(Reset(s)) /\ Reset(s).changed = s.changed
  BY <1>1, ResetSlot
<1>3. Lost(s, age).changed = s.changed
  BY <1>2 DEF Lost, IsSlot
<1> QED
  BY <1>1, <1>3 DEF ReadThread, IsSlot

----------------------------------------------------------------------------
(* The steps                                                               *)

\* A pass that is applied leaves a valid sample of one thread, or none.
LEMMA SampleStep ==
  ASSUME IInv, NEW i \in Passes, Sample(i)
  PROVE  IInv'
<1> DEFINE age == pass[i]
           before == CheckOwner(ApplyDiscovery(State, age), age)
           after == ReadThread(before, age)
<1>1. /\ MaxDelay \in Nat \ {0} /\ Valid \in Nat \ {0}
      /\ TimesOK /\ BaseOK /\ ValidOK /\ MeanOK /\ SampleOfOneThread
      /\ age \in 0 .. MaxDelay
  BY ThreadCpuAssumptions DEF IInv, TimesOK, Sample, Idle
<1>2. UNCHANGED <<load, mean, pass>>
  BY DEF Sample, published
<1>3. SlotOK(before)
  BY ApplyOK, CheckOK
<1>5. MeanOK' /\ SampleOfOneThread'
  BY <1>1, <1>2 DEF MeanOK, SampleOfOneThread
<1>6. CASE ~ Newer(age)
  <2>1. UNCHANGED slot
    BY <1>6 DEF Sample
  <2> QED
    BY <1>1, <1>2, <1>5, <2>1 DEF slot, IInv, TimesOK, BaseOK, ValidOK
<1>7. CASE Newer(age)
  <2>1. /\ identity' = after.identity /\ changed' = after.changed /\ util' = after.util
        /\ base' = after.base /\ valid' = after.valid /\ sincePass' = age
    BY <1>7 DEF Sample
  <2>2. after.changed \in BOOLEAN
    BY <1>3, ReadThreadChanged
  <2>3. base # NoBase => age < base.age
    BY <1>1, <1>7 DEF Newer, TimesOK, BaseOK
  <2>7. ReadOK(before, after, age)
    BY <1>1, <1>3, <2>3, ReadThreadOK DEF TimesOK
  <2> HIDE DEF before, after
  <2>4. TimesOK'
    BY <1>1, <1>2, <2>1, <2>2, <2>7 DEF TimesOK, ReadOK, NoBase
  <2>5. BaseOK'
    BY <1>1, <2>1, <2>7 DEF BaseOK, ReadOK
  <2>6. ValidOK'
    BY <1>1, <2>1, <2>7 DEF ValidOK, ReadOK
  <2> QED
    BY <1>5, <2>4, <2>5, <2>6 DEF IInv
<1> QED
  BY <1>6, <1>7

\* What a pass reads is valid then, whoever sampled it.
LEMMA LoadSampleStep ==
  ASSUME IInv, NEW i \in Passes, LoadSample(i)
  PROVE  IInv'
<1>1. /\ MaxDelay \in Nat \ {0} /\ TimesOK /\ BaseOK /\ ValidOK /\ MeanOK /\ SampleOfOneThread
      /\ pass[i] \in 0 .. MaxDelay
  BY ThreadCpuAssumptions DEF IInv, TimesOK, LoadSample, Idle
<1>2. UNCHANGED <<identity, changed, sincePass, base, util, valid, load, pass>>
  BY DEF LoadSample, slot, published
<1>3. mean' = [mean EXCEPT ![i] = IF valid + pass[i] > 0 THEN util ELSE NoUtil]
  BY DEF LoadSample
<1>4. valid + pass[i] > 0 => OfOneThread(util)
  BY <1>1 DEF ValidOK, TimesOK
<1>5. MeanOK'
  <2> SUFFICES ASSUME NEW j \in Passes, mean'[j] # NoUtil PROVE OfOneThread(mean'[j])
    BY DEF MeanOK, OfOneThread
  <2> QED
    BY <1>1, <1>3, <1>4 DEF MeanOK, TimesOK
<1>6. DOMAIN mean' = Passes
  BY <1>1, <1>3 DEF TimesOK
<1> QED
  BY <1>1, <1>2, <1>5, <1>6 DEF IInv, TimesOK, BaseOK, ValidOK, SampleOfOneThread

\* The load takes in what its pass has read, or nothing.
LEMMA UpdateStep ==
  ASSUME IInv, NEW i \in Passes, Update(i)
  PROVE  IInv'
<1>1. /\ MaxDelay \in Nat \ {0} /\ TimesOK /\ BaseOK /\ ValidOK /\ MeanOK /\ SampleOfOneThread
  BY ThreadCpuAssumptions DEF IInv
<1>2. UNCHANGED <<identity, changed, sincePass, base, util, valid>>
  BY DEF Update, slot
<1>3. /\ pass' = [pass EXCEPT ![i] = -1] /\ mean' = [mean EXCEPT ![i] = NoUtil]
  BY DEF Update, Idle
<1>4. \/ load' = load \/ load' = NoLoad
      \/ mean[i] # NoUtil /\ load' = [left |-> Valid - pass[i], of |-> mean[i]]
  BY DEF Update, published
<1>5. MeanOK' /\ DOMAIN mean' = Passes
  BY <1>1, <1>3 DEF MeanOK, TimesOK
<1>6. pass' \in [Passes -> -1 .. MaxDelay]
  BY <1>1, <1>3 DEF TimesOK
<1>7. SampleOfOneThread' /\ DOMAIN load' = {"left", "of"}
  <2>1. CASE load' = load
    BY <1>1, <2>1 DEF SampleOfOneThread, TimesOK
  <2>2. CASE load' = NoLoad
    BY <2>2 DEF SampleOfOneThread, NoLoad
  <2>3. CASE mean[i] # NoUtil /\ load' = [left |-> Valid - pass[i], of |-> mean[i]]
    BY <1>1, <2>3 DEF SampleOfOneThread, MeanOK
  <2> QED
    BY <1>4, <2>1, <2>2, <2>3
<1> QED
  BY <1>1, <1>2, <1>5, <1>6, <1>7 DEF IInv, TimesOK, BaseOK, ValidOK

\* Time runs for the baseline and the passes alike.
LEMMA TickStep ==
  ASSUME IInv, Tick
  PROVE  IInv'
<1>1. /\ MaxDelay \in Nat \ {0} /\ Valid \in 1 .. Never - 1
      /\ TimesOK /\ BaseOK /\ ValidOK /\ MeanOK /\ SampleOfOneThread
  BY ThreadCpuAssumptions DEF IInv
<1>2. /\ pass' \in [Passes -> -1 .. MaxDelay]
      /\ sincePass' = Least(sincePass + 1, MaxDelay + 1)
      /\ UNCHANGED <<identity, changed, util, mean>>
  BY <1>1 DEF Tick, TimesOK, Older, Idle
<1>3. sincePass' \in 0 .. MaxDelay + 1
  BY <1>1, <1>2 DEF TimesOK, Least
<1>4. /\ valid' \in Int /\ -MaxDelay <= valid' /\ valid' <= Valid
      /\ valid' > -MaxDelay => valid > -MaxDelay
  <2>1. valid # Never
    BY <1>1 DEF TimesOK, Never
  <2>2. valid' = IF valid > -MaxDelay THEN valid - 1 ELSE valid
    BY <2>1 DEF Tick, Sooner
  <2> QED
    BY <1>1, <1>2, <2>2 DEF TimesOK, Least
<1>5. /\ DOMAIN base' = {"of", "age"} /\ base'.age \in Int /\ base'.of = base.of
      /\ base = NoBase <=> base' = NoBase
      /\ base # NoBase => base'.age >= sincePass'
  <2>1. CASE base = NoBase
    BY <1>1, <2>1 DEF Tick, TimesOK
  <2>2. CASE base # NoBase
    <3>1. base' = [base EXCEPT !.age = Least(base.age + 1, MaxDelay + 1)]
      BY <2>2 DEF Tick, Older
    <3>2. /\ DOMAIN base' = {"of", "age"} /\ base'.age = Least(base.age + 1, MaxDelay + 1)
          /\ base'.of = base.of
      BY <1>1, <3>1 DEF TimesOK
    <3>3. base'.age \in Int /\ base'.age >= sincePass'
      BY <1>1, <1>2, <2>2, <3>2 DEF TimesOK, BaseOK, Least
    <3>4. base' # NoBase
      BY <1>1, <2>2, <3>2 DEF BaseOK, NoBase
    <3> QED
      BY <2>2, <3>2, <3>3, <3>4
  <2> QED
    BY <2>1, <2>2
<1>6. DOMAIN load' = {"left", "of"}
  BY <1>1 DEF Tick, TimesOK, NoLoad
<1>8. TimesOK' /\ BaseOK' /\ ValidOK' /\ MeanOK'
  BY <1>1, <1>2, <1>3, <1>4, <1>5, <1>6 DEF TimesOK, BaseOK, ValidOK, MeanOK
<1>7. SampleOfOneThread'
  <2>1. CASE load.left <= 1
    BY <2>1 DEF Tick, SampleOfOneThread
  <2>2. CASE ~ (load.left <= 1)
    <3>1. load # NoLoad
      BY <2>2 DEF NoLoad
    <3>2. load'.of = load.of
      BY <1>1, <2>2 DEF Tick, TimesOK
    <3> QED
      BY <1>1, <3>1, <3>2 DEF SampleOfOneThread
  <2> QED
    BY <2>1, <2>2
<1> QED
  BY <1>7, <1>8 DEF IInv

\* The other steps leave the slot's measurements alone.
LEMMA OtherStep ==
  ASSUME IInv, UNCHANGED <<identity, changed, sincePass, base, util, valid, load>>,
         pass' \in [Passes -> -1 .. MaxDelay], DOMAIN mean' = Passes, MeanOK'
  PROVE  IInv'
BY DEF IInv, TimesOK, BaseOK, ValidOK, SampleOfOneThread

\* The invariant holds initially.
LEMMA InitInv == Init => IInv
<1> SUFFICES ASSUME Init PROVE IInv
  OBVIOUS
<1>1. MaxDelay \in Nat \ {0} /\ Valid \in Nat \ {0}
  BY ThreadCpuAssumptions
<1>4. /\ pass = [i \in Passes |-> -1] /\ sincePass = MaxDelay + 1 /\ base = NoBase
      /\ valid = -MaxDelay /\ load = NoLoad /\ changed = FALSE
      /\ mean = [i \in Passes |-> NoUtil]
  BY DEF Init, Idle
<1>5. /\ DOMAIN NoBase = {"of", "age"} /\ NoBase.age = 0
      /\ DOMAIN NoLoad = {"left", "of"}
  BY DEF NoBase, NoLoad
<1>2. TimesOK
  <2>1. pass \in [Passes -> -1 .. MaxDelay]
    BY <1>1, <1>4
  <2>2. /\ sincePass \in 0 .. MaxDelay + 1 /\ valid \in Int /\ -MaxDelay <= valid
        /\ valid <= Valid
    BY <1>1, <1>4
  <2>3. /\ changed \in BOOLEAN /\ DOMAIN base = {"of", "age"} /\ base.age \in Int
        /\ DOMAIN load = {"left", "of"} /\ DOMAIN mean = Passes
    <3>1. changed \in BOOLEAN
      BY <1>4
    <3>2. DOMAIN base = {"of", "age"} /\ DOMAIN load = {"left", "of"} /\ DOMAIN mean = Passes
      BY <1>4, <1>5
    <3>3. base.age = 0
      BY <1>4, <1>5
    <3> QED
      BY <3>1, <3>2, <3>3
  <2> QED
    BY <2>1, <2>2, <2>3 DEF TimesOK
<1>3. BaseOK /\ ValidOK /\ MeanOK /\ SampleOfOneThread
  BY <1>1, <1>4 DEF BaseOK, ValidOK, MeanOK, SampleOfOneThread
<1> QED
  BY <1>2, <1>3 DEF IInv

\* Every step preserves the invariant.
LEMMA StepInv == IInv /\ [Next]_vars => IInv'
<1> SUFFICES ASSUME IInv, [Next]_vars PROVE IInv'
  OBVIOUS
<1>1. /\ pass \in [Passes -> -1 .. MaxDelay] /\ MaxDelay \in Nat \ {0}
      /\ DOMAIN mean = Passes /\ MeanOK
  BY ThreadCpuAssumptions DEF IInv, TimesOK
<1>9. mean' = mean => DOMAIN mean' = Passes /\ MeanOK'
  BY <1>1 DEF MeanOK
<1>2. CASE StartPass
  <2>1. pass' \in [Passes -> -1 .. MaxDelay]
    <3>1. pass' = [pass EXCEPT !["own"] = 0] /\ 0 \in -1 .. MaxDelay
      BY <1>1, <1>2 DEF StartPass
    <3> QED
      BY <1>1, <3>1
  <2> QED
    BY <1>2, <1>9, <2>1, OtherStep DEF StartPass, published
<1>3. CASE \E i \in Passes : SampleTable(i)
  BY <1>3, SampleStep, LoadSampleStep, UpdateStep DEF SampleTable
<1>4. ASSUME NEW d \in Discoveries, ReadInode(d) \/ Connect(d) \/ ConnectFails(d)
      PROVE  IInv'
  BY <1>1, <1>4, <1>9, OtherStep DEF ReadInode, Connect, ConnectFails, slot, published, passes
<1>5. ASSUME NEW p \in Pids, Exit(p) \/ Spawn(p) \/ ThreadUp(p) \/ Bind(p)
      PROVE  IInv'
  BY <1>1, <1>5, <1>9, OtherStep DEF Exit, Spawn, ThreadUp, Bind, slot, published, passes
<1>10. CASE Unlink
  BY <1>1, <1>9, <1>10, OtherStep DEF Unlink, slot, published, passes
<1>6. CASE Restart
  <2>1. pass' \in [Passes -> -1 .. MaxDelay]
    BY <1>1, <1>6 DEF Restart, Passes, Idle
  <2>2. mean' = [mean EXCEPT !["own"] = NoUtil, !["left"] = mean["own"]]
    BY <1>6 DEF Restart
  <2>3. DOMAIN mean' = Passes /\ MeanOK'
    BY <1>1, <2>2 DEF MeanOK, Passes
  <2> QED
    BY <1>6, <2>1, <2>3, OtherStep DEF Restart, slot, published
<1>7. CASE Tick
  BY <1>7, TickStep
<1>8. CASE UNCHANGED vars
  BY <1>1, <1>8, <1>9, OtherStep DEF vars
<1> QED
  BY <1>2, <1>3, <1>4, <1>5, <1>6, <1>7, <1>8, <1>10 DEF Next

----------------------------------------------------------------------------

\* However passes overlap between the locks they take, processes exit and ids are reused:
\* the sample a published load takes in (thread_cpu.rs sample_table) is the difference of
\* two readings of one thread, the second of them later, for any intervals and any delay
\* of a pass.
THEOREM SampleOfOneThreadAlways == Spec => []SampleOfOneThread
<1>1. Init /\ [][Next]_vars => []IInv
  BY InitInv, StepInv, PTL
<1>2. IInv => SampleOfOneThread
  BY DEF IInv
<1> QED
  BY <1>1, <1>2, PTL DEF Spec

----------------------------------------------------------------------------
(* Spill-over: the inductive invariant                                     *)

Readings(span) == [load : Nat, left : 0 .. span]
PeerStates ==
  [report : Readings(ReportTtl), rtt : {"none", "near", "far"}, cooling : BOOLEAN]
SpillStates == [word : Words, fraction : Nat, since : Unstarted .. MaxControlStep]

ShapesOK ==
  /\ tables \in Seq(Configs) /\ Live \in Versions
  /\ sample \in [Versions -> [Dests -> Readings(SampleValid)]]
  /\ peer \in [Versions -> [Peers -> PeerStates]]
  /\ spill \in [Versions -> SpillStates]
  /\ poll \in [pc : {"waiting", "control"}, table : 1 .. Live, inFlight : SUBSET Peers]
  /\ conn \in [Conns -> [pc : {"idle", "read"}, table : 1 .. Live, word : Words]]
  /\ calm \in 0 .. CalmCap

\* Tables that share a SpillState agree on its policy and on what its targets mean.
SharersAgree ==
  \A u, v \in 1 .. Live : StateBorn(u) = StateBorn(v) =>
    tables[u].peers = tables[v].peers /\ tables[u].policy = tables[v].policy

\* An admission lasts no longer than either reading behind it, and admits someone.
WordOK(w) ==
  /\ w.left <= w.sampleLeft /\ w.left <= w.reportLeft
  /\ w.left > 0 => w.fraction > 0

\* Read in table v, the word's index is the peer it was meant for.
MeansIn(w, v) == w.fraction > 0 => tables[v].peers[w.target] = w.meant

StatesOK ==
  \A u \in Versions :
    /\ u > Live => spill[u] = NewState
    /\ WordOK(spill[u].word)
    /\ spill[u].word.fraction <= spill[u].fraction
    /\ spill[u].since = Unstarted => spill[u].fraction = 0

TargetsOK == \A v \in 1 .. Live : MeansIn(spill[StateBorn(v)].word, v)

ReadersOK == \A c \in Conns : WordOK(conn[c].word) /\ MeansIn(conn[c].word, conn[c].table)

\* What the share has grown by, and may grow by at the next pass, is covered by the
\* time since the state began.
Ramps(s, policy, time) ==
  /\ s.fraction <= policy.max
  /\ time < CalmCap /\ s.since # Unstarted =>
       s.fraction + policy.step * s.since <= policy.step * time

RampOK ==
  tables[Live].policy # NoPolicy => Ramps(spill[StateBorn(Live)], tables[Live].policy, calm)

SpillInv ==
  /\ ShapesOK /\ SharersAgree /\ StatesOK /\ TargetsOK /\ ReadersOK /\ RampOK

----------------------------------------------------------------------------
(* Arithmetic and choices                                                  *)

\* Every nonempty set of natural numbers has a least element.
LEMMA LeastOf ==
  ASSUME NEW S \in SUBSET Nat, S # {}
  PROVE  Min(S) \in S /\ \A y \in S : Min(S) <= y
<1> DEFINE R == OpToRel(<, Nat)
<1>1. IsWellFoundedOn(R, Nat)
  BY NatLessThanWellFounded
<1>2. \A x, y \in Nat : <<x, y>> \in R <=> x < y
  BY DEF OpToRel
<1> HIDE DEF R
<1>3. PICK x \in S : \A y \in S : ~ (<<y, x>> \in R)
  BY <1>1, WFMin
<1>4. ASSUME NEW y \in S PROVE x <= y
  <2>1. ~ (y < x)
    BY <1>2, <1>3
  <2> QED
    BY <2>1
<1> QED
  BY <1>3, <1>4 DEF Min

LEMMA MinOfTwo ==
  ASSUME NEW a \in Int, NEW b \in Int
  PROVE  Min({a, b}) = IF a <= b THEN a ELSE b
<1> DEFINE m == IF a <= b THEN a ELSE b
<1>1. m \in {a, b} /\ \A y \in {a, b} : m <= y
  OBVIOUS
<1>2. \A x \in {a, b} : (\A y \in {a, b} : x <= y) => x = m
  OBVIOUS
<1> QED
  BY <1>1, <1>2 DEF Min

LEMMA MaxOfTwo ==
  ASSUME NEW a \in Int, NEW b \in Int
  PROVE  Max({a, b}) = IF a >= b THEN a ELSE b
<1> DEFINE m == IF a >= b THEN a ELSE b
<1>1. m \in {a, b} /\ \A y \in {a, b} : m >= y
  OBVIOUS
<1>2. \A x \in {a, b} : (\A y \in {a, b} : x >= y) => x = m
  OBVIOUS
<1> QED
  BY <1>1, <1>2 DEF Max

\* The table an object was born in is no later than the one asked for, and the object
\* was handed on ever since.
LEMMA BornIn ==
  ASSUME NEW v \in Nat \ {0}, NEW kept
  PROVE  /\ Born(v, kept) \in 1 .. v
         /\ Born(v, kept) .. v - 1 \subseteq kept
         /\ \A u \in 1 .. v : u .. v - 1 \subseteq kept => Born(v, kept) <= u
<1> DEFINE S == {u \in 1 .. v : u .. v - 1 \subseteq kept}
<1>1. v \in S /\ S \in SUBSET Nat
  OBVIOUS
<1>2. Min(S) \in S /\ \A y \in S : Min(S) <= y
  <2> HIDE DEF S
  <2> QED BY <1>1, LeastOf
<1> QED
  BY <1>2 DEF Born

\* An object handed on from v to the next table is the same in both; else it is new.
LEMMA BornNext ==
  ASSUME NEW v \in Nat \ {0}, NEW kept \in SUBSET (1 .. v)
  PROVE  Born(v + 1, kept) = IF v \in kept THEN Born(v, kept \ {v}) ELSE v + 1
<1> DEFINE b == Born(v + 1, kept)
           a == Born(v, kept \ {v})
<1>1. /\ b \in 1 .. v + 1 /\ b .. v \subseteq kept
      /\ \A u \in 1 .. v + 1 : u .. v \subseteq kept => b <= u
  <2>1. v + 1 \in Nat \ {0} /\ (v + 1) - 1 = v
    OBVIOUS
  <2> QED BY <2>1, BornIn
<1>2. /\ a \in 1 .. v /\ a .. v - 1 \subseteq kept
      /\ \A u \in 1 .. v : u .. v - 1 \subseteq kept \ {v} => a <= u
  BY BornIn
<1> HIDE DEF a, b
<1>3. CASE v \in kept
  <2>1. a .. v \subseteq kept
    BY <1>2, <1>3
  <2>2. b <= a
    BY <1>1, <1>2, <2>1
  <2>3. b .. v - 1 \subseteq kept \ {v}
    BY <1>1
  <2>4. b \in 1 .. v
    BY <1>1, <1>2, <2>2
  <2>5. a <= b
    BY <1>2, <2>3, <2>4
  <2>6. a = b
    BY <1>1, <1>2, <2>2, <2>5
  <2> QED BY <1>3, <2>6 DEF a, b
<1>4. CASE v \notin kept
  <2>1. ~ (b <= v)
    BY <1>1, <1>4
  <2>2. b = v + 1
    BY <1>1, <2>1
  <2> QED BY <1>4, <2>2 DEF b
<1> QED
  BY <1>3, <1>4

----------------------------------------------------------------------------
(* Tables and what they share                                              *)

LEMMA ConfigOf ==
  ASSUME ShapesOK, NEW v \in 1 .. Live
  PROVE  v \in Versions /\ v \in Nat \ {0} /\ tables[v] \in Configs
<1>1. Live \in Nat
  BY SpillConstants DEF ShapesOK, Versions
<1> QED
  BY <1>1, SpillConstants DEF ShapesOK, Versions, Live

LEMMA StateIn ==
  ASSUME ShapesOK, NEW v \in 1 .. Live
  PROVE  StateBorn(v) \in 1 .. v /\ StateBorn(v) \in 1 .. Live /\ StateBorn(v) \in Versions
<1>1. v \in Nat \ {0} /\ Live \in Versions
  BY ConfigOf DEF ShapesOK
<1>2. StateBorn(v) \in 1 .. v
  BY <1>1, BornIn DEF StateBorn
<1> QED
  BY <1>1, <1>2, SpillConstants DEF Versions

LEMMA PeerIn ==
  ASSUME ShapesOK, NEW v \in 1 .. Live, NEW p
  PROVE  PeerBorn(v, p) \in Versions
<1>1. v \in Nat \ {0} /\ Live \in Versions
  BY ConfigOf DEF ShapesOK
<1>2. PeerBorn(v, p) \in 1 .. v
  BY <1>1, BornIn DEF PeerBorn
<1> QED
  BY <1>1, <1>2, SpillConstants DEF Versions

LEMMA SampleIn ==
  ASSUME ShapesOK, NEW v \in 1 .. Live, NEW d
  PROVE  SampleBorn(v, d) \in Versions
<1>1. v \in Nat \ {0} /\ Live \in Versions
  BY ConfigOf DEF ShapesOK
<1>2. SampleBorn(v, d) \in 1 .. v
  BY <1>1, BornIn DEF SampleBorn
<1> QED
  BY <1>1, <1>2, SpillConstants DEF Versions

\* As long as the tables stay, so does what they share.
LEMMA TablesStay ==
  ASSUME UNCHANGED tables
  PROVE  Live' = Live /\ \A v \in 1 .. Live : StateBorn(v)' = StateBorn(v)
BY DEF Live, StateBorn

\* What a reload leaves of the earlier tables, and whose state the new table has.
LEMMA ReloadTables ==
  ASSUME ShapesOK, NEW k \in Configs, Reload(k)
  PROVE  /\ tables' \in Seq(Configs) /\ Live' = Live + 1 /\ Live' \in Versions
         /\ tables'[Live'] = k
         /\ \A v \in 1 .. Live : tables'[v] = tables[v] /\ StateBorn(v)' = StateBorn(v)
         /\ StateBorn(Live)' = IF SameSpill(tables[Live], k) THEN StateBorn(Live) ELSE Live + 1
<1>1. Live \in Nat \ {0} /\ Live \in Versions /\ MaxTables \in Nat
  BY SpillConstants DEF ShapesOK, Versions
<1>2. /\ tables' \in Seq(Configs) /\ Len(tables') = Len(tables) + 1
      /\ tables'[Len(tables) + 1] = k
      /\ \A v \in 1 .. Len(tables) : tables'[v] = tables[v]
  BY DEF ShapesOK, Reload
<1>3. Live' = Live + 1 /\ Live' \in Versions
  BY <1>1, <1>2 DEF Live, Reload, Versions
<1>4. ASSUME NEW v \in 1 .. Live PROVE StateBorn(v)' = StateBorn(v)
  <2>1. \A w \in 1 .. v - 1 : w \in 1 .. Len(tables) /\ w + 1 \in 1 .. Len(tables)
    BY <1>1 DEF Live
  <2>2. {w \in 1 .. v - 1 : SameSpill(tables'[w], tables'[w + 1])}
          = {w \in 1 .. v - 1 : SameSpill(tables[w], tables[w + 1])}
    BY <1>2, <2>1
  <2> QED BY <2>2 DEF StateBorn
<1>13. PICK n \in Nat \ {0} : n = Live
  BY <1>1
<1> DEFINE old == {w \in 1 .. n - 1 : SameSpill(tables[w], tables[w + 1])}
           new == {w \in 1 .. n : SameSpill(tables'[w], tables'[w + 1])}
<1>5. \A w \in 1 .. n - 1 : tables'[w] = tables[w] /\ tables'[w + 1] = tables[w + 1]
  BY <1>13, <1>2 DEF Live
<1>6. n \in new <=> SameSpill(tables[n], k)
  BY <1>13, <1>2 DEF Live
<1>7. new \ {n} = old
  BY <1>5
<1>8. Born(n + 1, new) = IF n \in new THEN Born(n, new \ {n}) ELSE n + 1
  <2>1. new \in SUBSET (1 .. n)
    OBVIOUS
  <2> HIDE DEF new
  <2> QED BY <2>1, BornNext
<1>9. StateBorn(Live)' = Born(n + 1, new)
  <2>1. Live' = n + 1 /\ (n + 1) - 1 = n
    BY <1>13, <1>3
  <2> QED BY <2>1 DEF StateBorn
<1>10. StateBorn(Live) = Born(n, old)
  BY <1>13 DEF StateBorn
<1> HIDE DEF old, new
<1>11. StateBorn(Live)' = IF SameSpill(tables[Live], k) THEN StateBorn(Live) ELSE Live + 1
  BY <1>13, <1>6, <1>7, <1>8, <1>9, <1>10
<1>12. tables'[Live'] = k
  BY <1>2, <1>3 DEF Live
<1> QED
  BY <1>2, <1>3, <1>4, <1>11, <1>12 DEF Live

----------------------------------------------------------------------------
(* A pass of the controller                                                *)

\* The load of a route is current no longer than a sample.
LEMMA RouteLoadLeft ==
  ASSUME ShapesOK, NEW v \in 1 .. Live
  PROVE  RouteLoad(v).left \in 0 .. SampleValid
<1> DEFINE readings == {SampleOf(v, d) : d \in DOMAIN tables[v].source}
           lefts == {r.left : r \in readings}
<1>1. DOMAIN tables[v].source \subseteq Dests
  BY ConfigOf, SpillConstants
<1>2. \A d \in DOMAIN tables[v].source : SampleOf(v, d).left \in 0 .. SampleValid
  BY <1>1, SampleIn DEF SampleOf, ShapesOK, Readings
<1>3. lefts \subseteq 0 .. SampleValid
  BY <1>2
<1>4. Unknown.left \in 0 .. SampleValid
  BY SpillConstants DEF Unknown
<1>5. ASSUME readings # {} PROVE Min(lefts) \in 0 .. SampleValid
  <2>1. lefts # {}
    BY <1>5
  <2>2. lefts \in SUBSET Nat
    BY <1>3
  <2> HIDE DEF lefts
  <2> QED BY <2>1, <2>2, <1>3, LeastOf
<1> HIDE DEF lefts, readings
<1>6. RouteLoad(v) = IF readings = {} \/ \E r \in readings : r.left = 0 THEN Unknown
        ELSE [load |-> Max({r.load : r \in readings}), left |-> Min(lefts)]
  BY DEF RouteLoad, readings, lefts
<1> QED
  BY <1>4, <1>5, <1>6

LEMMA PeerTyped ==
  ASSUME ShapesOK, NEW v \in 1 .. Live, NEW i \in DOMAIN tables[v].peers
  PROVE  /\ i \in Nat /\ tables[v].peers[i] \in Peers
         /\ PeerOf(v, tables[v].peers[i]) \in PeerStates
<1>1. tables[v].peers \in Seq(Peers)
  BY ConfigOf, SpillConstants
<1>2. i \in Nat /\ tables[v].peers[i] \in Peers
  BY <1>1
<1> QED
  BY <1>2, PeerIn DEF PeerOf, ShapesOK

\* If some peer is eligible, the one chosen is.
LEMMA LeastLoadedIn ==
  ASSUME ShapesOK, NEW v \in 1 .. Live, Eligible(v) # {}
  PROVE  LeastLoaded(v) \in Eligible(v) /\ LeastLoaded(v) \in DOMAIN tables[v].peers
<1> DEFINE E == Eligible(v)
           f == [i \in E |-> PeerOf(v, tables[v].peers[i]).report.load]
<1>1. E \subseteq DOMAIN tables[v].peers
  BY DEF Eligible
<1>2. E \in SUBSET Nat /\ f \in [E -> Nat]
  <2>1. ASSUME NEW i \in E
        PROVE  i \in Nat /\ PeerOf(v, tables[v].peers[i]).report.load \in Nat
    BY <1>1, PeerTyped DEF PeerStates, Readings
  <2> HIDE DEF E
  <2> QED BY <2>1
<1>3. PICK i \in E : \A j \in E \ {i} : f[i] <= f[j] /\ (f[i] = f[j] => i < j)
  <2> HIDE DEF E, f
  <2>0. E # {}
    BY DEF E
  <2> DEFINE loads == {f[i] : i \in E}
             m == Min(loads)
             first == {i \in E : f[i] = m}
  <2>1. loads \in SUBSET Nat /\ loads # {}
    BY <1>2, <2>0
  <2>2. m \in loads /\ \A y \in loads : m <= y
    <3> HIDE DEF loads
    <3> QED BY <2>1, LeastOf
  <2>3. first \in SUBSET Nat /\ first # {}
    <3> HIDE DEF m
    <3> QED BY <1>2, <2>2
  <2>4. Min(first) \in first /\ \A y \in first : Min(first) <= y
    <3> HIDE DEF first
    <3> QED BY <2>3, LeastOf
  <2>5. PICK i \in first : \A y \in first : i <= y
    BY <2>4
  <2>6. i \in E /\ f[i] = m
    OBVIOUS
  <2>7. ASSUME NEW j \in E \ {i} PROVE f[i] <= f[j] /\ (f[i] = f[j] => i < j)
    <3>1. f[i] <= f[j] /\ f[j] \in Nat /\ i \in Nat /\ j \in Nat
      BY <1>2, <2>2, <2>6
    <3>2. f[i] = f[j] => i <= j
      BY <2>5, <2>6
    <3> QED BY <3>1, <3>2
  <2> QED BY <2>6, <2>7
<1>4. LeastLoaded(v) = CHOOSE n \in E : \A j \in E \ {n} : f[n] <= f[j] /\ (f[n] = f[j] => n < j)
  BY DEF LeastLoaded
<1> HIDE DEF E, f
<1>5. LeastLoaded(v) \in E
  BY <1>3, <1>4
<1> QED
  BY <1>1, <1>5 DEF E

\* The share moves by a step for the time since the last pass, and stays in its range.
LEMMA FractionMoves ==
  ASSUME NEW s \in SpillStates, NEW policy, policy.step \in Nat, policy.max \in Nat, NEW trend
  PROVE  /\ Fraction(s, policy, trend) \in Nat
         /\ Fraction(s, policy, trend)
              <= s.fraction + policy.step * (IF s.since = Unstarted THEN 0 ELSE s.since)
         /\ s.fraction <= policy.max => Fraction(s, policy, trend) <= policy.max
<1>1. s.fraction \in Nat /\ s.since \in Unstarted .. MaxControlStep /\ MaxControlStep \in Nat
  BY SpillConstants DEF SpillStates
<1>2. Elapsed(s) = (IF s.since = Unstarted THEN 0 ELSE s.since) /\ Elapsed(s) \in Nat
  BY <1>1, MinOfTwo DEF Elapsed, Unstarted
<1> DEFINE delta == policy.step * Elapsed(s)
<1>3. delta \in Nat
  BY <1>2
<1>4. Fraction(s, policy, trend) =
        CASE trend = "rise" -> Min({policy.max, s.fraction + delta})
          [] trend = "hold" -> s.fraction
          [] OTHER -> Max({0, s.fraction - delta})
  BY DEF Fraction
<1>5. delta = policy.step * (IF s.since = Unstarted THEN 0 ELSE s.since)
  BY <1>2
<1> HIDE DEF delta
<1>6. /\ Fraction(s, policy, trend) \in Nat
      /\ Fraction(s, policy, trend) <= s.fraction + delta
      /\ s.fraction <= policy.max => Fraction(s, policy, trend) <= policy.max
  <2>1. Min({policy.max, s.fraction + delta})
          = IF policy.max <= s.fraction + delta THEN policy.max ELSE s.fraction + delta
    BY <1>1, <1>3, MinOfTwo
  <2>2. Max({0, s.fraction - delta}) = IF 0 >= s.fraction - delta THEN 0 ELSE s.fraction - delta
    BY <1>1, <1>3, MaxOfTwo
  <2> QED BY <1>1, <1>3, <1>4, <2>1, <2>2
<1> QED
  BY <1>5, <1>6

LEMMA NoAdmissionOK ==
  /\ NoAdmission \in Words /\ WordOK(NoAdmission) /\ NoAdmission.fraction = 0
  /\ NewState \in SpillStates
<1>1. Max({SampleValid, ReportTtl}) \in Nat
  BY SpillConstants, MaxOfTwo
<1>2. NoAdmission \in Words
  BY <1>1, SpillConstants DEF NoAdmission, Words
<1> QED
  BY <1>2, SpillConstants DEF NoAdmission, WordOK, NewState, SpillStates, Unstarted

LEMMA PolicyTyped ==
  ASSUME ShapesOK, NEW v \in 1 .. Live, tables[v].policy # NoPolicy
  PROVE  /\ tables[v].policy.step \in Nat \ {0}
         /\ tables[v].policy.max \in Nat /\ tables[v].policy.max <= Whole
BY ConfigOf, SpillConstants

\* What a pass makes of a state: an admission that lasts as long as the readings it
\* rests on and names the peer that was measured, and a share in its range.
LEMMA PassOK ==
  ASSUME ShapesOK, NEW v \in 1 .. Live, tables[v].policy # NoPolicy, NEW s \in SpillStates
  PROVE  LET new == Controlled(v, s)
             policy == tables[v].policy
         IN  /\ new \in SpillStates /\ new.since = 0
             /\ WordOK(new.word) /\ MeansIn(new.word, v)
             /\ new.word.fraction <= new.fraction
             /\ new.fraction <= s.fraction + policy.step * (IF s.since = Unstarted THEN 0 ELSE s.since)
             /\ s.fraction <= policy.max => new.fraction <= policy.max
<1> DEFINE policy == tables[v].policy
           trend == Trend(v)
           fraction == Fraction(s, policy, trend)
           i == LeastLoaded(v)
           local == RouteLoad(v)
           report == PeerOf(v, tables[v].peers[i]).report
           some == [fraction |-> fraction, target |-> i, left |-> HeldFor(local, report),
                    meant |-> tables[v].peers[i],
                    sampleLeft |-> local.left, reportLeft |-> report.left]
           word == IF trend = "decay" \/ fraction = 0 THEN NoAdmission ELSE some
<1>1. Controlled(v, s) = [since |-> 0, fraction |-> fraction, word |-> word]
  BY DEF Controlled
<1>2. /\ fraction \in Nat
      /\ fraction <= s.fraction + policy.step * (IF s.since = Unstarted THEN 0 ELSE s.since)
      /\ s.fraction <= policy.max => fraction <= policy.max
  <2>1. policy.step \in Nat /\ policy.max \in Nat
    BY PolicyTyped
  <2> HIDE DEF policy, trend
  <2> QED BY <2>1, FractionMoves
<1>3. ASSUME ~ (trend = "decay" \/ fraction = 0)
      PROVE  some \in Words /\ WordOK(some)
  <2>1. Eligible(v) # {}
    BY <1>3 DEF Trend
  <2>2. i \in DOMAIN tables[v].peers
    BY <2>1, LeastLoadedIn
  <2>3. i \in Nat /\ tables[v].peers[i] \in Peers /\ report.left \in 0 .. ReportTtl
    BY <2>2, PeerTyped DEF PeerStates, Readings
  <2>4. local.left \in 0 .. SampleValid
    BY RouteLoadLeft
  <2> HIDE DEF i, local, report, fraction, policy, trend
  <2>5. /\ HeldFor(local, report) = IF local.left <= report.left THEN local.left ELSE report.left
        /\ Max({SampleValid, ReportTtl}) =
             IF SampleValid >= ReportTtl THEN SampleValid ELSE ReportTtl
    BY <2>3, <2>4, MinOfTwo, MaxOfTwo, SpillConstants, SMTT(30) DEF HeldFor
  <2>6. /\ HeldFor(local, report) \in 0 .. Max({SampleValid, ReportTtl})
        /\ HeldFor(local, report) <= local.left /\ HeldFor(local, report) <= report.left
    BY <2>3, <2>4, <2>5, SpillConstants
  <2>7. some \in Words
    BY <1>2, <2>3, <2>4, <2>6 DEF Words
  <2>8. WordOK(some)
    BY <1>2, <1>3, <2>6 DEF WordOK
  <2> QED BY <2>7, <2>8
<1>4. ~ (trend = "decay" \/ fraction = 0) => MeansIn(some, v)
  BY DEF MeansIn
<1> HIDE DEF fraction, trend
<1>5. /\ word \in Words /\ WordOK(word) /\ MeansIn(word, v)
      /\ word.fraction <= fraction
  <2>1. CASE trend = "decay" \/ fraction = 0
    BY <1>2, <2>1, NoAdmissionOK DEF MeansIn
  <2>2. CASE ~ (trend = "decay" \/ fraction = 0)
    <3>1. word = some /\ some.fraction = fraction
      BY <2>2
    <3> HIDE DEF word, some
    <3> QED BY <1>2, <1>3, <1>4, <2>2, <3>1
  <2> QED BY <2>1, <2>2
<1> HIDE DEF word, policy
<1>6. Controlled(v, s) \in SpillStates
  <2>1. 0 \in Unstarted .. MaxControlStep
    BY SpillConstants DEF Unstarted
  <2> QED BY <1>1, <1>2, <1>5, <2>1 DEF SpillStates
<1>7. /\ Controlled(v, s).since = 0 /\ Controlled(v, s).fraction = fraction
      /\ Controlled(v, s).word = word
  BY <1>1
<1> QED
  BY <1>2, <1>5, <1>6, <1>7 DEF policy

\* A tick later an admission still lasts no longer than its readings.
LEMMA AgedWordOK ==
  ASSUME NEW w \in Words, WordOK(w)
  PROVE  /\ AgedWord(w) \in Words /\ WordOK(AgedWord(w))
         /\ AgedWord(w).fraction = w.fraction /\ AgedWord(w).target = w.target
         /\ AgedWord(w).meant = w.meant
<1>1. Max({SampleValid, ReportTtl}) = IF SampleValid >= ReportTtl THEN SampleValid ELSE ReportTtl
  BY MaxOfTwo, SpillConstants
<1>2. Max({SampleValid, ReportTtl}) \in Nat /\ SampleValid \in Nat /\ ReportTtl \in Nat
  BY <1>1, SpillConstants
<1>3. /\ w.left \in 0 .. Max({SampleValid, ReportTtl})
      /\ w.sampleLeft \in 0 .. SampleValid /\ w.reportLeft \in 0 .. ReportTtl
  BY DEF Words
<1>4. \A n \in Nat : Aged(n) = IF n = 0 THEN 0 ELSE n - 1
  BY MaxOfTwo DEF Aged
<1>5. CASE w.left <= 1
  <2>1. AgedWord(w) = [w EXCEPT !.left = 0, !.sampleLeft = 0, !.reportLeft = 0]
    BY <1>5 DEF AgedWord
  <2>2. 0 \in 0 .. Max({SampleValid, ReportTtl}) /\ 0 \in 0 .. SampleValid /\ 0 \in 0 .. ReportTtl
    BY <1>2
  <2>3. AgedWord(w) \in Words
    BY <2>1, <2>2 DEF Words
  <2>4. /\ AgedWord(w).left = 0 /\ AgedWord(w).sampleLeft = 0 /\ AgedWord(w).reportLeft = 0
        /\ AgedWord(w).fraction = w.fraction /\ AgedWord(w).target = w.target
        /\ AgedWord(w).meant = w.meant
    BY <2>1 DEF Words
  <2> QED BY <2>3, <2>4 DEF WordOK
<1>6. CASE ~ (w.left <= 1)
  <2>1. AgedWord(w) = [w EXCEPT !.left = w.left - 1, !.sampleLeft = Aged(w.sampleLeft),
                                !.reportLeft = Aged(w.reportLeft)]
    BY <1>6 DEF AgedWord
  <2>2. /\ w.left - 1 \in 0 .. Max({SampleValid, ReportTtl})
        /\ w.left - 1 > 0
        /\ Aged(w.sampleLeft) = w.sampleLeft - 1 /\ Aged(w.reportLeft) = w.reportLeft - 1
        /\ w.sampleLeft - 1 \in 0 .. SampleValid /\ w.reportLeft - 1 \in 0 .. ReportTtl
        /\ w.left - 1 <= w.sampleLeft - 1 /\ w.left - 1 <= w.reportLeft - 1
        /\ w.fraction > 0
    BY <1>2, <1>3, <1>4, <1>6 DEF WordOK
  <2>3. AgedWord(w) \in Words
    BY <2>1, <2>2 DEF Words
  <2>4. WordOK(AgedWord(w))
    BY <2>1, <2>2 DEF WordOK, Words
  <2> QED BY <2>1, <2>3, <2>4 DEF Words
<1> QED
  BY <1>5, <1>6

----------------------------------------------------------------------------
(* The invariant is inductive                                              *)

LEMMA SpillInit_Inv == SpillInit => SpillInv
<1> SUFFICES ASSUME SpillInit PROVE SpillInv
  OBVIOUS
<1>1. tables \in Seq(Configs) /\ Live = 1 /\ Live \in Versions /\ tables[1] \in Configs
  BY SpillConstants DEF SpillInit, Live, Versions
<1>2. ShapesOK
  <2>1. sample \in [Versions -> [Dests -> Readings(SampleValid)]]
    BY SpillConstants DEF SpillInit, Readings, Unknown
  <2>2. peer \in [Versions -> [Peers -> PeerStates]]
    BY SpillConstants DEF SpillInit, PeerStates, Readings, Unknown
  <2>3. spill \in [Versions -> SpillStates]
    BY NoAdmissionOK DEF SpillInit
  <2>4. poll \in [pc : {"waiting", "control"}, table : 1 .. Live, inFlight : SUBSET Peers]
    BY <1>1 DEF SpillInit
  <2>5. conn \in [Conns -> [pc : {"idle", "read"}, table : 1 .. Live, word : Words]]
    BY <1>1, NoAdmissionOK DEF SpillInit, AtRest
  <2>6. calm \in 0 .. CalmCap
    BY SpillConstants DEF SpillInit, CalmCap
  <2> QED BY <1>1, <2>1, <2>2, <2>3, <2>4, <2>5, <2>6 DEF ShapesOK
<1>3. SharersAgree
  BY <1>1 DEF SharersAgree
<1>4. StatesOK
  BY NoAdmissionOK DEF SpillInit, StatesOK, NewState
<1>5. TargetsOK
  BY <1>2, StateIn, NoAdmissionOK DEF SpillInit, TargetsOK, MeansIn, NewState
<1>6. ReadersOK
  BY NoAdmissionOK DEF SpillInit, ReadersOK, AtRest, MeansIn
<1>7. RampOK
  <2>1. 1 \in 1 .. Live
    BY <1>1
  <2>2. spill[StateBorn(Live)] = NewState
    BY <1>1, <1>2, <2>1, StateIn DEF SpillInit
  <2>3. tables[Live].policy # NoPolicy => 0 <= tables[Live].policy.max
    BY <1>1, <1>2, <2>1, PolicyTyped
  <2> QED BY <2>2, <2>3 DEF RampOK, Ramps, NewState
<1> QED
  BY <1>2, <1>3, <1>4, <1>5, <1>6, <1>7 DEF SpillInv

\* Where tables and states stay, so does what holds of them ...
LEMMA StatesStay ==
  ASSUME SpillInv, UNCHANGED <<tables, spill, calm>>
  PROVE  SharersAgree' /\ StatesOK' /\ TargetsOK' /\ RampOK'
<1>1. SharersAgree'
  BY DEF SpillInv, SharersAgree, Live, StateBorn
<1>2. StatesOK'
  BY DEF SpillInv, StatesOK, Live
<1>3. TargetsOK'
  BY DEF SpillInv, TargetsOK, MeansIn, Live, StateBorn
<1>4. RampOK'
  BY DEF SpillInv, RampOK, Live, StateBorn
<1> QED
  BY <1>1, <1>2, <1>3, <1>4

\* ... and so with the words the connections have read.
LEMMA ReadersStay ==
  ASSUME SpillInv, UNCHANGED <<tables, conn>>
  PROVE  ReadersOK'
BY DEF SpillInv, ReadersOK, MeansIn

\* A step of the poll task before the controllers run.
LEMMA PollInv ==
  ASSUME SpillInv, NEW next \in SUBSET Peers,
         poll' = [pc |-> "control", table |-> Live, inFlight |-> next],
         peer' \in [Versions -> [Peers -> PeerStates]],
         UNCHANGED <<tables, sample, spill, conn, calm>>
  PROVE  SpillInv'
<1>1. Live' = Live /\ Live \in 1 .. Live
  BY SpillConstants DEF SpillInv, ShapesOK, Live, Versions
<1>2. poll' \in [pc : {"waiting", "control"}, table : 1 .. Live, inFlight : SUBSET Peers]
  BY <1>1
<1>3. ShapesOK'
  BY <1>1, <1>2 DEF SpillInv, ShapesOK
<1> QED
  BY <1>3, StatesStay, ReadersStay DEF SpillInv

LEMMA PollTickInv ==
  ASSUME SpillInv, PollTick
  PROVE  SpillInv'
<1>1. Live \in 1 .. Live /\ poll.inFlight \subseteq Peers
  BY SpillConstants DEF SpillInv, ShapesOK, Live, Versions
<1>2. tables[Live].policy # NoPolicy => Range(tables[Live].peers) \subseteq Peers
  <2>1. tables[Live].peers \in Seq(Peers)
    BY <1>1, ConfigOf, SpillConstants DEF SpillInv
  <2> QED BY <2>1 DEF Range
<1>3. PICK due \in SUBSET Peers :
        poll' = [pc |-> "control", table |-> Live, inFlight |-> poll.inFlight \cup due]
  BY <1>2 DEF PollTick
<1>4. poll.inFlight \cup due \in SUBSET Peers
  BY <1>1
<1> QED
  BY <1>3, <1>4, PollInv DEF PollTick, SpillInv, ShapesOK

LEMMA UnansweredInv ==
  ASSUME SpillInv, NEW p \in Peers, Unanswered(p)
  PROVE  SpillInv'
<1>1. poll.inFlight \ {p} \in SUBSET Peers
  BY DEF SpillInv, ShapesOK
<1> QED
  BY <1>1, PollInv DEF Unanswered, SpillInv, ShapesOK

LEMMA AnsweredInv ==
  ASSUME SpillInv, NEW p \in Peers, NEW level \in PeerLoads[p] \cup {Dash, Missing},
         NEW left \in 1 .. ReportTtl, NEW sampled \in Distances[p], Answered(p, level, left, sampled)
  PROVE  SpillInv'
<1>1. poll.inFlight \ {p} \in SUBSET Peers
  BY DEF SpillInv, ShapesOK
<1>2. Live \in 1 .. Live /\ ShapesOK
  BY SpillConstants DEF SpillInv, ShapesOK, Versions
<1>3. peer' \in [Versions -> [Peers -> PeerStates]]
  <2>1. CASE UNCHANGED peer
    BY <1>2, <2>1 DEF ShapesOK
  <2>2. ASSUME NEW rtt \in Rtts(PeerOf(Live, p).rtt, sampled),
               peer' = [peer EXCEPT ![PeerBorn(Live, p)][p] =
                          [rtt |-> rtt, report |-> Reported(@.report, level, left),
                           cooling |-> @.cooling]]
        PROVE  peer' \in [Versions -> [Peers -> PeerStates]]
    <3> DEFINE b == PeerBorn(Live, p)
               old == peer[b][p]
               new == [rtt |-> rtt, report |-> Reported(old.report, level, left),
                       cooling |-> old.cooling]
    <3>1. b \in Versions
      BY <1>2, PeerIn
    <3>2. old \in PeerStates
      BY <1>2, <3>1 DEF ShapesOK
    <3>3. rtt \in {"none", "near", "far"}
      <4>1. sampled \in {"near", "far"}
        BY SpillConstants
      <4>2. PeerOf(Live, p) = old
        BY DEF PeerOf
      <4> QED BY <3>2, <4>1, <4>2 DEF Rtts, PeerStates
    <3>4. Reported(old.report, level, left) \in Readings(ReportTtl)
      <4>1. old.report \in Readings(ReportTtl) /\ ReportTtl \in Nat
        BY <3>2, SpillConstants DEF PeerStates
      <4>2. Unknown \in Readings(ReportTtl)
        BY <4>1 DEF Unknown, Readings
      <4>3. level \notin {Dash, Missing} => [load |-> level, left |-> left] \in Readings(ReportTtl)
        BY <4>1, SpillConstants DEF Readings
      <4> QED BY <4>1, <4>2, <4>3 DEF Reported
    <3>5. new \in PeerStates
      BY <3>2, <3>3, <3>4 DEF PeerStates
    <3>6. peer' = [peer EXCEPT ![b] = [peer[b] EXCEPT ![p] = new]]
      BY <2>2
    <3> HIDE DEF b, new
    <3>7. [peer[b] EXCEPT ![p] = new] \in [Peers -> PeerStates]
      BY <1>2, <3>1, <3>5 DEF ShapesOK
    <3> QED BY <1>2, <3>1, <3>6, <3>7 DEF ShapesOK
  <2> QED BY <2>1, <2>2 DEF Answered
<1> QED
  BY <1>1, <1>3, PollInv DEF Answered, SpillInv

LEMMA CooldownInv ==
  ASSUME SpillInv, NEW p \in Peers, NEW v \in 1 .. Live, CooldownChanges(v, p)
  PROVE  SpillInv'
<1> DEFINE b == PeerBorn(v, p)
           old == peer[b][p]
           cooling == ~ old.cooling
           new == [old EXCEPT !.cooling = cooling]
<1>1. b \in Versions /\ ShapesOK
  BY PeerIn DEF SpillInv
<1>2. old \in PeerStates
  BY <1>1 DEF ShapesOK
<1>3. peer' = [peer EXCEPT ![b] = [peer[b] EXCEPT ![p] = new]]
  BY DEF CooldownChanges
<1>4. cooling \in BOOLEAN
  BY Zenon
<1> HIDE DEF b, cooling
<1>5. new \in PeerStates
  BY <1>2, <1>4 DEF PeerStates
<1> HIDE DEF new
<1>6. [peer[b] EXCEPT ![p] = new] \in [Peers -> PeerStates]
  BY <1>1, <1>5 DEF ShapesOK
<1>7. peer' \in [Versions -> [Peers -> PeerStates]]
  BY <1>1, <1>3, <1>6 DEF ShapesOK
<1>8. ShapesOK'
  BY <1>1, <1>7 DEF ShapesOK, CooldownChanges, Live
<1> QED
  BY <1>8, StatesStay, ReadersStay DEF SpillInv, CooldownChanges

LEMMA SampledInv ==
  ASSUME SpillInv, NEW d \in Dests, NEW level \in LocalLoads \cup {Dash}, Sampled(d, level)
  PROVE  SpillInv'
<1> DEFINE b == SampleBorn(Live, d)
           new == IF level \in LocalLoads THEN [load |-> level, left |-> SampleValid] ELSE Unknown
<1>1. Live \in 1 .. Live /\ ShapesOK
  BY SpillConstants DEF SpillInv, ShapesOK, Versions
<1>2. b \in Versions
  BY <1>1, SampleIn
<1>3. new \in Readings(SampleValid)
  <2>1. SampleValid \in Nat /\ SampleValid \in 0 .. SampleValid /\ 0 \in 0 .. SampleValid
    BY SpillConstants
  <2>2. Unknown \in Readings(SampleValid)
    BY <2>1 DEF Unknown, Readings
  <2>3. ASSUME level \in LocalLoads
        PROVE  [load |-> level, left |-> SampleValid] \in Readings(SampleValid)
    BY <2>1, <2>3, SpillConstants DEF Readings
  <2> QED BY <2>2, <2>3
<1>4. sample' = [sample EXCEPT ![b] = [sample[b] EXCEPT ![d] = new]]
  BY DEF Sampled
<1> HIDE DEF b, new
<1>5. [sample[b] EXCEPT ![d] = new] \in [Dests -> Readings(SampleValid)]
  BY <1>1, <1>2, <1>3 DEF ShapesOK
<1>6. sample' \in [Versions -> [Dests -> Readings(SampleValid)]]
  BY <1>1, <1>2, <1>4, <1>5 DEF ShapesOK
<1>7. ShapesOK'
  BY <1>1, <1>6 DEF ShapesOK, Sampled, Live
<1> QED
  BY <1>7, StatesStay, ReadersStay DEF SpillInv, Sampled

\* A connection takes up or drops a word that is in order.
LEMMA ReaderInv ==
  ASSUME SpillInv, NEW c \in Conns,
         NEW new \in [pc : {"idle", "read"}, table : 1 .. Live, word : Words],
         WordOK(new.word), MeansIn(new.word, new.table), UNCHANGED tables,
         conn' = [conn EXCEPT ![c] = new]
  PROVE  /\ conn' \in [Conns -> [pc : {"idle", "read"}, table : 1 .. Live, word : Words]]
         /\ ReadersOK'
<1>1. conn' \in [Conns -> [pc : {"idle", "read"}, table : 1 .. Live, word : Words]]
  BY DEF SpillInv, ShapesOK
<1>2. ASSUME NEW d \in Conns
      PROVE  WordOK(conn[d].word)' /\ MeansIn(conn[d].word, conn[d].table)'
  <2>1. conn'[d] = IF d = c THEN new ELSE conn[d]
    BY DEF SpillInv, ShapesOK
  <2>2. WordOK(conn[d].word) /\ MeansIn(conn[d].word, conn[d].table)
    BY DEF SpillInv, ReadersOK
  <2> QED BY <2>1, <2>2 DEF MeansIn, WordOK
<1> QED
  BY <1>1, <1>2 DEF ReadersOK

LEMMA AtRestOK ==
  ASSUME SpillInv
  PROVE  /\ AtRest \in [pc : {"idle", "read"}, table : 1 .. Live, word : Words]
         /\ WordOK(AtRest.word) /\ MeansIn(AtRest.word, AtRest.table)
<1>1. 1 \in 1 .. Live
  BY SpillConstants DEF SpillInv, ShapesOK, Versions
<1> QED
  BY <1>1, NoAdmissionOK DEF AtRest, MeansIn

LEMMA LoadWordInv ==
  ASSUME SpillInv, NEW c \in Conns, NEW v \in 1 .. Live, LoadWord(c, v)
  PROVE  SpillInv'
<1> DEFINE word == spill[StateBorn(v)].word
           new == [pc |-> "read", table |-> v, word |-> word]
<1>1. word \in Words /\ WordOK(word) /\ MeansIn(word, v)
  BY StateIn DEF SpillInv, ShapesOK, StatesOK, TargetsOK, SpillStates
<1>2. conn' = [conn EXCEPT ![c] = new]
  BY DEF LoadWord
<1> HIDE DEF word
<1>3. /\ new \in [pc : {"idle", "read"}, table : 1 .. Live, word : Words]
      /\ WordOK(new.word) /\ MeansIn(new.word, new.table)
  BY <1>1
<1>4. UNCHANGED <<tables, sample, peer, spill, poll, calm>>
  BY DEF LoadWord
<1> HIDE DEF new
<1>5. /\ conn' \in [Conns -> [pc : {"idle", "read"}, table : 1 .. Live, word : Words]]
      /\ ReadersOK'
  BY <1>2, <1>3, <1>4, ReaderInv
<1>6. ShapesOK'
  BY <1>4, <1>5 DEF SpillInv, ShapesOK, Live
<1> QED
  BY <1>4, <1>5, <1>6, StatesStay DEF SpillInv

LEMMA RestInv ==
  ASSUME SpillInv, NEW c \in Conns, Spills(c) \/ StaysLocal(c)
  PROVE  SpillInv'
<1>1. /\ conn' = [conn EXCEPT ![c] = AtRest]
      /\ UNCHANGED <<tables, sample, peer, spill, poll, calm>>
  BY DEF Spills, StaysLocal
<1>2. /\ conn' \in [Conns -> [pc : {"idle", "read"}, table : 1 .. Live, word : Words]]
      /\ ReadersOK'
  BY <1>1, AtRestOK, ReaderInv
<1>3. ShapesOK'
  BY <1>1, <1>2 DEF SpillInv, ShapesOK, Live
<1> QED
  BY <1>1, <1>2, <1>3, StatesStay DEF SpillInv

\* A connection clears a word it found expired.
LEMMA FindsExpiredInv ==
  ASSUME SpillInv, NEW c \in Conns, FindsExpired(c)
  PROVE  SpillInv'
<1> DEFINE b == StateBorn(conn[c].table)
           word == Cleared(spill[b].word, conn[c].word)
           new == [spill[b] EXCEPT !.word = word]
<1>1. b \in Versions /\ Live' = Live
  BY StateIn DEF SpillInv, ShapesOK, FindsExpired, Live
<1>2. spill' = [spill EXCEPT ![b] = new]
  BY DEF FindsExpired
<1>3. conn' = [conn EXCEPT ![c] = AtRest] /\ UNCHANGED <<tables, sample, peer, poll, calm>>
  BY DEF FindsExpired
<1>4. word = NoAdmission \/ word = spill[b].word
  BY DEF Cleared
<1>5. spill[b] \in SpillStates /\ spill \in [Versions -> SpillStates]
  BY <1>1 DEF SpillInv, ShapesOK
<1>6. /\ conn' \in [Conns -> [pc : {"idle", "read"}, table : 1 .. Live, word : Words]]
      /\ ReadersOK'
  BY <1>3, AtRestOK, ReaderInv
<1> HIDE DEF word, b
<1>7. /\ word \in Words /\ WordOK(word)
      /\ word.fraction <= spill[b].word.fraction
      /\ word.fraction > 0 => word = spill[b].word
  <2>1. spill[b].word \in Words /\ WordOK(spill[b].word)
    BY <1>1, <1>5 DEF SpillInv, StatesOK, SpillStates
  <2>2. spill[b].word.fraction \in Nat
    BY <2>1 DEF Words
  <2> QED BY <1>4, <2>1, <2>2, NoAdmissionOK
<1>8. new \in SpillStates /\ new.word = word /\ new.fraction = spill[b].fraction /\ new.since = spill[b].since
  BY <1>5, <1>7 DEF SpillStates
<1> HIDE DEF new
<1>9. \A u \in Versions : spill'[u] = IF u = b THEN new ELSE spill[u]
  BY <1>1, <1>2, <1>5
<1>10. ShapesOK'
  BY <1>1, <1>2, <1>3, <1>5, <1>6, <1>8 DEF SpillInv, ShapesOK
<1>11. SharersAgree'
  BY <1>3 DEF SpillInv, SharersAgree, Live, StateBorn
<1>12. StatesOK'
  <2> SUFFICES ASSUME NEW u \in Versions
               PROVE  /\ u > Live => spill'[u] = NewState
                      /\ WordOK(spill'[u].word)
                      /\ spill'[u].word.fraction <= spill'[u].fraction
                      /\ spill'[u].since = Unstarted => spill'[u].fraction = 0
    BY <1>1 DEF StatesOK, WordOK
  <2>1. /\ u > Live => spill[u] = NewState
        /\ WordOK(spill[u].word)
        /\ spill[u].word.fraction <= spill[u].fraction
        /\ spill[u].since = Unstarted => spill[u].fraction = 0
    BY DEF SpillInv, StatesOK
  <2>2. CASE u # b
    BY <1>9, <2>1, <2>2
  <2>3. CASE u = b
    <3>1. ~ (b > Live)
      <4>1. b \in 1 .. Live
        BY StateIn DEF SpillInv, ShapesOK, b
      <4>2. Live \in Nat
        BY SpillConstants DEF SpillInv, ShapesOK, Versions
      <4> QED BY <4>1, <4>2
    <3>2. word.fraction \in Nat /\ spill[b].word.fraction \in Nat /\ spill[b].fraction \in Nat
      BY <1>5, <1>7 DEF Words, SpillStates
    <3> QED BY <1>7, <1>8, <1>9, <2>1, <2>3, <3>1, <3>2
  <2> QED BY <2>2, <2>3
<1>13. TargetsOK'
  <2> SUFFICES ASSUME NEW v \in 1 .. Live, spill'[StateBorn(v)].word.fraction > 0
               PROVE  tables[v].peers[spill'[StateBorn(v)].word.target]
                        = spill'[StateBorn(v)].word.meant
    BY <1>1, <1>3 DEF TargetsOK, MeansIn, StateBorn
  <2>1. StateBorn(v) \in Versions
    BY StateIn DEF SpillInv
  <2>2. spill'[StateBorn(v)].word = spill[StateBorn(v)].word
    BY <1>7, <1>8, <1>9, <2>1
  <2> QED BY <2>2 DEF SpillInv, TargetsOK, MeansIn
<1>14. RampOK'
  <2>1. Live \in 1 .. Live
    BY SpillConstants DEF SpillInv, ShapesOK, Versions
  <2>2. StateBorn(Live) \in Versions
    BY <2>1, StateIn DEF SpillInv
  <2>3. /\ spill'[StateBorn(Live)].fraction = spill[StateBorn(Live)].fraction
        /\ spill'[StateBorn(Live)].since = spill[StateBorn(Live)].since
    BY <1>8, <1>9, <2>2
  <2>4. StateBorn(Live)' = StateBorn(Live)
    BY <1>3 DEF StateBorn, Live
  <2> QED BY <1>1, <1>3, <2>3, <2>4 DEF SpillInv, RampOK, Ramps, CalmCap
<1> QED
  BY <1>6, <1>10, <1>11, <1>12, <1>13, <1>14 DEF SpillInv

\* A pass of the controller, on the live table or on an older one.
LEMMA ControlAllInv ==
  ASSUME SpillInv, ControlAll
  PROVE  SpillInv'
<1> DEFINE t == poll.table
           b == StateBorn(t)
           new == Controlled(t, spill[b])
           policy == tables[t].policy
<1>1. /\ t \in 1 .. Live /\ b \in Versions /\ b \in 1 .. Live /\ Live' = Live /\ 1 \in 1 .. Live
      /\ Live \in 1 .. Live
  <2>1. t \in 1 .. Live /\ Live \in Versions
    BY DEF SpillInv, ShapesOK
  <2>2. b \in Versions /\ b \in 1 .. Live
    BY <2>1, StateIn DEF SpillInv
  <2> QED BY <2>1, <2>2, SpillConstants DEF ControlAll, Live, Versions
<1>2. poll' \in [pc : {"waiting", "control"}, table : 1 .. Live, inFlight : SUBSET Peers]
  BY <1>1 DEF SpillInv, ShapesOK, ControlAll
<1>3. UNCHANGED <<tables, sample, peer, conn, calm>>
  BY DEF ControlAll
<1>4. spill' = IF policy = NoPolicy THEN spill ELSE [spill EXCEPT ![b] = new]
  BY DEF ControlAll
<1>5. SharersAgree' /\ ReadersOK'
  BY <1>3, ReadersStay DEF SpillInv, SharersAgree, Live, StateBorn
<1>6. CASE policy = NoPolicy
  <2>1. UNCHANGED spill
    BY <1>4, <1>6
  <2>2. ShapesOK'
    BY <1>1, <1>2, <1>3, <2>1 DEF SpillInv, ShapesOK
  <2> QED BY <1>3, <1>5, <2>1, <2>2, StatesStay DEF SpillInv
<1>7. CASE policy # NoPolicy
  <2> DEFINE s == spill[b]
  <2>1. s \in SpillStates /\ spill \in [Versions -> SpillStates]
    BY <1>1 DEF SpillInv, ShapesOK
  <2>2. /\ new \in SpillStates /\ new.since = 0
        /\ WordOK(new.word) /\ MeansIn(new.word, t)
        /\ new.word.fraction <= new.fraction
        /\ new.fraction <= s.fraction + policy.step * (IF s.since = Unstarted THEN 0 ELSE s.since)
        /\ s.fraction <= policy.max => new.fraction <= policy.max
    <3>1. ShapesOK
      BY DEF SpillInv
    <3> HIDE DEF t, b
    <3> QED BY <1>1, <1>7, <2>1, <3>1, PassOK
  <2> HIDE DEF new
  <2>3. \A u \in Versions : spill'[u] = IF u = b THEN new ELSE spill[u]
    BY <1>1, <1>4, <1>7, <2>1
  <2>4. spill' \in [Versions -> SpillStates]
    BY <1>4, <1>7, <2>1, <2>2
  <2>5. ShapesOK'
    BY <1>1, <1>2, <1>3, <2>4 DEF SpillInv, ShapesOK
  <2>6. StatesOK'
    <3> SUFFICES ASSUME NEW u \in Versions
                 PROVE  /\ u > Live => spill'[u] = NewState
                        /\ WordOK(spill'[u].word)
                        /\ spill'[u].word.fraction <= spill'[u].fraction
                        /\ spill'[u].since = Unstarted => spill'[u].fraction = 0
      BY <1>1 DEF StatesOK, WordOK
    <3>1. CASE u # b
      BY <2>3, <3>1 DEF SpillInv, StatesOK
    <3>2. CASE u = b
      <4>1. ~ (u > Live)
        BY <1>1, <3>2
      <4>2. new.since # Unstarted
        BY <2>2 DEF Unstarted
      <4> QED BY <2>2, <2>3, <3>2, <4>1, <4>2
    <3> QED BY <3>1, <3>2
  <2>7. TargetsOK'
    <3> SUFFICES ASSUME NEW v \in 1 .. Live, spill'[StateBorn(v)].word.fraction > 0
                 PROVE  tables[v].peers[spill'[StateBorn(v)].word.target]
                          = spill'[StateBorn(v)].word.meant
      BY <1>1, <1>3 DEF TargetsOK, MeansIn, StateBorn
    <3>1. StateBorn(v) \in Versions
      BY StateIn DEF SpillInv
    <3>2. CASE StateBorn(v) # b
      BY <2>3, <3>1, <3>2 DEF SpillInv, TargetsOK, MeansIn
    <3>3. CASE StateBorn(v) = b
      <4>1. tables[v].peers = tables[t].peers
        BY <1>1, <3>3 DEF SpillInv, SharersAgree
      <4>2. spill'[StateBorn(v)] = new
        BY <2>3, <3>1, <3>3
      <4> QED BY <2>2, <4>1, <4>2 DEF MeansIn
    <3> QED BY <3>2, <3>3
  <2>8. RampOK'
    <3>1. StateBorn(Live)' = StateBorn(Live) /\ StateBorn(Live) \in Versions
      BY <1>1, <1>3, StateIn DEF StateBorn, Live, SpillInv
    <3>2. CASE StateBorn(Live) # b
      <4>1. spill'[StateBorn(Live)] = spill[StateBorn(Live)]
        BY <2>3, <3>1, <3>2
      <4> QED BY <1>1, <1>3, <3>1, <4>1 DEF SpillInv, RampOK
    <3>3. CASE StateBorn(Live) = b
      <4>1. tables[Live].policy = policy
        BY <1>1, <3>3 DEF SpillInv, SharersAgree
      <4>2. /\ s.fraction <= policy.max
            /\ calm < CalmCap /\ s.since # Unstarted =>
                 s.fraction + policy.step * s.since <= policy.step * calm
        BY <1>7, <3>3, <4>1 DEF SpillInv, RampOK, Ramps
      <4>3. s.since = Unstarted => s.fraction = 0
        BY <1>1 DEF SpillInv, StatesOK
      <4>4. policy.step \in Nat /\ calm \in Nat /\ new.fraction \in Nat /\ s.fraction \in Nat
        BY <1>1, <1>7, <2>1, <2>2, PolicyTyped, SpillConstants
           DEF SpillInv, ShapesOK, CalmCap, SpillStates
      <4>5. policy.step * calm \in Nat /\ policy.step * 0 = 0
        BY <4>4
      <4>6. calm < CalmCap => new.fraction + policy.step * 0 <= policy.step * calm
        <5>1. CASE s.since = Unstarted
          <6>1. new.fraction <= 0 + policy.step * 0
            BY <2>2, <4>3, <5>1
          <6> HIDE DEF policy, s
          <6> QED BY <4>4, <4>5, <6>1
        <5>2. CASE s.since # Unstarted
          <6>1. policy.step * s.since \in Int
            BY <2>1, <4>4, SpillConstants DEF SpillStates, Unstarted
          <6> HIDE DEF policy, s
          <6> QED BY <2>2, <4>2, <4>4, <4>5, <5>2, <6>1
        <5> QED BY <5>1, <5>2
      <4>7. Ramps(new, policy, calm)
        BY <2>2, <4>2, <4>6 DEF Ramps
      <4>8. spill'[StateBorn(Live)] = new
        BY <2>3, <3>1, <3>3
      <4> QED BY <1>1, <1>3, <3>1, <4>1, <4>7, <4>8 DEF RampOK
    <3> QED BY <3>2, <3>3
  <2> QED BY <1>5, <2>5, <2>6, <2>7, <2>8 DEF SpillInv
<1> QED
  BY <1>6, <1>7

\* A reload hands the state on, or begins a new one.
LEMMA ReloadInv ==
  ASSUME SpillInv, NEW k \in Configs, Reload(k)
  PROVE  SpillInv'
<1>1. /\ tables' \in Seq(Configs) /\ Live' = Live + 1 /\ Live' \in Versions
      /\ tables'[Live'] = k
      /\ \A v \in 1 .. Live : tables'[v] = tables[v] /\ StateBorn(v)' = StateBorn(v)
      /\ StateBorn(Live)' = IF SameSpill(tables[Live], k) THEN StateBorn(Live) ELSE Live + 1
  BY ReloadTables DEF SpillInv
<1>2. Live \in Nat \ {0} /\ Live + 1 \in Versions /\ Live \in 1 .. Live
  BY <1>1, SpillConstants DEF SpillInv, ShapesOK, Versions
<1>3. UNCHANGED <<sample, peer, spill, poll, conn>>
  BY DEF Reload
<1>4. 1 .. Live' = 1 .. Live \cup {Live + 1}
  BY <1>1, <1>2
<1>5. ASSUME NEW v \in 1 .. Live PROVE StateBorn(v) \in 1 .. Live /\ StateBorn(v) # Live + 1
  BY <1>2, <1>5, StateIn DEF SpillInv
<1>6. SameSpill(tables[Live], k) =>
        k.peers = tables[Live].peers /\ k.policy = tables[Live].policy
  BY DEF SameSpill
<1>7. PICK n \in Nat : n = Live + 1
  BY <1>2
<1>8. /\ n = Live' /\ tables'[n] = k
      /\ StateBorn(n)' = IF SameSpill(tables[Live], k) THEN StateBorn(Live) ELSE n
  <2>1. n = Live'
    BY <1>1, <1>7
  <2>2. StateBorn(n)' = StateBorn(Live)'
    BY <2>1 DEF StateBorn
  <2> QED BY <1>1, <1>7, <2>1, <2>2
<1>9. spill[n] = NewState /\ n \in Versions
  <2>1. n > Live /\ n \in Versions
    BY <1>2, <1>7
  <2> QED BY <2>1 DEF SpillInv, StatesOK
<1>10. ShapesOK'
  <2>1. /\ poll.table \in 1 .. Live
        /\ poll \in [pc : {"waiting", "control"}, table : 1 .. Live, inFlight : SUBSET Peers]
        /\ conn \in [Conns -> [pc : {"idle", "read"}, table : 1 .. Live, word : Words]]
        /\ calm \in 0 .. CalmCap
    BY DEF SpillInv, ShapesOK
  <2>2. poll \in [pc : {"waiting", "control"}, table : 1 .. Live', inFlight : SUBSET Peers]
    BY <1>4, <2>1
  <2>3. conn \in [Conns -> [pc : {"idle", "read"}, table : 1 .. Live', word : Words]]
    BY <1>4, <2>1
  <2>4. calm' \in 0 .. CalmCap
    BY <2>1, SpillConstants DEF Reload, CalmCap
  <2> QED BY <1>1, <1>3, <2>2, <2>3, <2>4 DEF SpillInv, ShapesOK, CalmCap
<1>11. SharersAgree'
  <2> SUFFICES ASSUME NEW u \in 1 .. Live', NEW v \in 1 .. Live', StateBorn(u)' = StateBorn(v)'
               PROVE  tables'[u].peers = tables'[v].peers /\ tables'[u].policy = tables'[v].policy
    BY DEF SharersAgree
  <2>1. CASE u \in 1 .. Live /\ v \in 1 .. Live
    BY <1>1, <2>1 DEF SpillInv, SharersAgree
  <2>2. ASSUME NEW w \in 1 .. Live, StateBorn(n)' = StateBorn(w)'
        PROVE  tables'[n].peers = tables'[w].peers /\ tables'[n].policy = tables'[w].policy
    <3>1. SameSpill(tables[Live], k)
      BY <1>1, <1>5, <1>7, <1>8, <2>2
    <3>2. StateBorn(Live) = StateBorn(w)
      BY <1>1, <1>8, <2>2, <3>1
    <3>3. tables[Live].peers = tables[w].peers /\ tables[Live].policy = tables[w].policy
      BY <1>2, <3>2 DEF SpillInv, SharersAgree
    <3> QED BY <1>1, <1>6, <1>8, <3>1, <3>3
  <2> QED BY <1>4, <1>7, <2>1, <2>2
<1>12. StatesOK'
  <2>1. \A u \in Versions : u > Live' => u > Live
    BY <1>1, <1>2, SpillConstants DEF Versions
  <2> QED BY <1>3, <2>1 DEF SpillInv, StatesOK
<1>13. TargetsOK'
  <2> SUFFICES ASSUME NEW v \in 1 .. Live' PROVE MeansIn(spill[StateBorn(v)].word, v)'
    BY DEF TargetsOK
  <2>1. CASE v \in 1 .. Live
    <3>1. spill'[StateBorn(v)'] = spill[StateBorn(v)] /\ tables'[v] = tables[v]
      BY <1>1, <1>3, <2>1
    <3> QED BY <2>1, <3>1 DEF SpillInv, TargetsOK, MeansIn
  <2>2. CASE v = n
    <3>1. CASE SameSpill(tables[Live], k)
      <4>1. spill'[StateBorn(v)'] = spill[StateBorn(Live)]
        BY <1>3, <1>8, <2>2, <3>1
      <4>2. tables'[v].peers = tables[Live].peers
        BY <1>6, <1>8, <2>2, <3>1
      <4> QED BY <1>2, <4>1, <4>2 DEF SpillInv, TargetsOK, MeansIn
    <3>2. CASE ~ SameSpill(tables[Live], k)
      <4>1. spill'[StateBorn(v)'] = NewState
        BY <1>3, <1>8, <1>9, <2>2, <3>2
      <4> QED BY <4>1, NoAdmissionOK DEF MeansIn, NewState
    <3> QED BY <3>1, <3>2
  <2> QED BY <1>4, <1>7, <2>1, <2>2
<1>14. ReadersOK'
  <2> SUFFICES ASSUME NEW c \in Conns
               PROVE  WordOK(conn[c].word)' /\ MeansIn(conn[c].word, conn[c].table)'
    BY DEF ReadersOK
  <2>1. conn[c].table \in 1 .. Live
    BY DEF SpillInv, ShapesOK
  <2>2. tables'[conn[c].table] = tables[conn[c].table]
    BY <1>1, <2>1
  <2> QED BY <1>3, <2>2 DEF SpillInv, ReadersOK, MeansIn, WordOK
<1>15. RampOK'
  <2> SUFFICES ASSUME k.policy # NoPolicy
               PROVE  Ramps(spill[StateBorn(Live)'], k.policy, calm')
    BY <1>1, <1>3 DEF RampOK, Ramps, CalmCap
  <2>1. CASE SameSpill(tables[Live], k)
    <3>1. calm' = calm /\ StateBorn(Live)' = StateBorn(Live) /\ k.policy = tables[Live].policy
      BY <1>1, <1>6, <2>1 DEF Reload
    <3> QED BY <3>1 DEF SpillInv, RampOK
  <2>2. CASE ~ SameSpill(tables[Live], k)
    <3>1. spill[StateBorn(Live)'] = NewState
      BY <1>1, <1>7, <1>9, <2>2
    <3>2. 0 <= k.policy.max
      BY SpillConstants
    <3> QED BY <3>1, <3>2 DEF Ramps, NewState
  <2> QED BY <2>1, <2>2
<1> QED
  BY <1>10, <1>11, <1>12, <1>13, <1>14, <1>15 DEF SpillInv

LEMMA AgedReadingOK ==
  ASSUME NEW span \in Nat, NEW r \in Readings(span)
  PROVE  AgedReading(r) \in Readings(span)
<1>1. r.left \in 0 .. span
  BY DEF Readings
<1>2. CASE r.left <= 1
  BY <1>2 DEF AgedReading, Unknown, Readings
<1>3. CASE ~ (r.left <= 1)
  <2>1. r.left - 1 \in 0 .. span
    BY <1>1, <1>3
  <2>2. AgedReading(r) = [r EXCEPT !.left = r.left - 1]
    BY <1>3 DEF AgedReading
  <2> QED BY <2>1, <2>2 DEF Readings
<1> QED
  BY <1>2, <1>3

\* A tick of a state: its word ages, and the time since its last pass, if any, grows.
LEMMA AgedStateOK ==
  ASSUME NEW s \in SpillStates, WordOK(s.word), NEW new,
         new = [s EXCEPT !.word = AgedWord(@),
                  !.since = IF @ = Unstarted THEN Unstarted ELSE Min({@ + 1, MaxControlStep})]
  PROVE  /\ new \in SpillStates /\ WordOK(new.word)
         /\ new.fraction = s.fraction
         /\ new.word.fraction = s.word.fraction /\ new.word.target = s.word.target
         /\ new.word.meant = s.word.meant
         /\ new.since = Unstarted <=> s.since = Unstarted
         /\ s.since # Unstarted => new.since <= s.since + 1 /\ s.since \in Nat /\ new.since \in Nat
         /\ s = NewState => new = NewState
<1> DEFINE word == AgedWord(s.word)
           since == IF s.since = Unstarted THEN Unstarted ELSE Min({s.since + 1, MaxControlStep})
<1>1. new = [s EXCEPT !.word = word, !.since = since]
  OBVIOUS
<1>2. s.word \in Words /\ s.since \in -1 .. MaxControlStep /\ MaxControlStep \in Nat \ {0}
  BY SpillConstants DEF SpillStates, Unstarted
<1>3. /\ word \in Words /\ WordOK(word)
      /\ word.fraction = s.word.fraction /\ word.target = s.word.target
      /\ word.meant = s.word.meant
  BY <1>2, AgedWordOK
<1>4. /\ since \in -1 .. MaxControlStep
      /\ since = -1 <=> s.since = -1
      /\ s.since # -1 => since <= s.since + 1 /\ s.since \in Nat /\ since \in Nat
  <2>1. s.since + 1 \in Int
    BY <1>2
  <2>2. Min({s.since + 1, MaxControlStep})
          = IF s.since + 1 <= MaxControlStep THEN s.since + 1 ELSE MaxControlStep
    BY <1>2, <2>1, MinOfTwo
  <2> QED BY <1>2, <2>2 DEF Unstarted
<1>5. s = NewState => word = NoAdmission /\ since = Unstarted
  <2>1. AgedWord(NoAdmission) = [NoAdmission EXCEPT !.left = 0, !.sampleLeft = 0, !.reportLeft = 0]
    BY DEF AgedWord, NoAdmission
  <2>2. /\ AgedWord(NoAdmission) \in Words /\ NoAdmission \in Words
        /\ \A f \in {"fraction", "target", "left", "meant", "sampleLeft", "reportLeft"} :
             AgedWord(NoAdmission)[f] = NoAdmission[f]
    BY <2>1, NoAdmissionOK, AgedWordOK DEF NoAdmission
  <2>3. AgedWord(NoAdmission) = NoAdmission
    BY <2>2 DEF Words
  <2> QED BY <2>3 DEF NewState
<1> HIDE DEF word, since
<1>6. new \in SpillStates /\ new.word = word /\ new.since = since /\ new.fraction = s.fraction
  BY <1>1, <1>3, <1>4 DEF SpillStates, Unstarted
<1>7. s = NewState => new = NewState
  <2> SUFFICES ASSUME s = NewState PROVE new = s
    OBVIOUS
  <2>1. new.word = s.word /\ new.since = s.since /\ new.fraction = s.fraction
    BY <1>5, <1>6 DEF NewState
  <2> QED BY <1>6, <2>1 DEF SpillStates
<1> QED
  BY <1>3, <1>4, <1>6, <1>7 DEF Unstarted

LEMMA TickInv ==
  ASSUME SpillInv, SpillTick
  PROVE  SpillInv'
<1> DEFINE Aging(s) ==
      [s EXCEPT !.word = AgedWord(@),
         !.since = IF @ = Unstarted THEN Unstarted ELSE Min({@ + 1, MaxControlStep})]
<1>1. UNCHANGED <<tables, poll>> /\ Live' = Live
  BY DEF SpillTick, Live
<1>2. spill' = [u \in Versions |-> Aging(spill[u])]
  BY DEF SpillTick
<1>3. ASSUME NEW u \in Versions
      PROVE  /\ spill'[u] \in SpillStates /\ WordOK(spill'[u].word)
             /\ spill'[u].fraction = spill[u].fraction
             /\ spill'[u].word.fraction = spill[u].word.fraction
             /\ spill'[u].word.target = spill[u].word.target
             /\ spill'[u].word.meant = spill[u].word.meant
             /\ spill'[u].since = Unstarted <=> spill[u].since = Unstarted
             /\ spill[u].since # Unstarted =>
                  /\ spill'[u].since <= spill[u].since + 1
                  /\ spill[u].since \in Nat /\ spill'[u].since \in Nat
             /\ spill[u] = NewState => spill'[u] = NewState
  <2>1. spill[u] \in SpillStates /\ WordOK(spill[u].word)
    BY DEF SpillInv, ShapesOK, StatesOK
  <2>2. spill'[u] = Aging(spill[u])
    BY <1>2
  <2> QED BY <2>1, <2>2, AgedStateOK
<1>4. calm \in 0 .. Whole /\ Whole \in Nat \ {0}
      /\ calm' = IF calm + 1 <= Whole THEN calm + 1 ELSE Whole
  <2>1. calm \in 0 .. Whole /\ Whole \in Nat \ {0}
    BY SpillConstants DEF SpillInv, ShapesOK, CalmCap
  <2>2. calm + 1 \in Int /\ Whole \in Int
    BY <2>1
  <2>3. Min({calm + 1, Whole}) = IF calm + 1 <= Whole THEN calm + 1 ELSE Whole
    BY <2>2, MinOfTwo
  <2> QED BY <2>1, <2>3 DEF SpillTick, CalmCap
<1>5. ASSUME NEW c \in Conns
      PROVE  /\ conn'[c] \in [pc : {"idle", "read"}, table : 1 .. Live, word : Words]
             /\ conn'[c].table = conn[c].table /\ WordOK(conn'[c].word)
             /\ conn'[c].word.fraction = conn[c].word.fraction
             /\ conn'[c].word.target = conn[c].word.target
             /\ conn'[c].word.meant = conn[c].word.meant
  <2>1. /\ conn[c] \in [pc : {"idle", "read"}, table : 1 .. Live, word : Words]
        /\ conn[c].word \in Words /\ WordOK(conn[c].word)
    BY DEF SpillInv, ShapesOK, ReadersOK
  <2> DEFINE word == AgedWord(conn[c].word)
  <2>2. conn'[c] = [conn[c] EXCEPT !.word = word]
    BY DEF SpillTick
  <2>3. /\ word \in Words /\ WordOK(word) /\ word.fraction = conn[c].word.fraction
        /\ word.target = conn[c].word.target /\ word.meant = conn[c].word.meant
    BY <2>1, AgedWordOK
  <2> HIDE DEF word
  <2> QED BY <2>1, <2>2, <2>3
<1>6. ShapesOK'
  <2>1. spill' \in [Versions -> SpillStates]
    BY <1>2, <1>3
  <2>2. conn' \in [Conns -> [pc : {"idle", "read"}, table : 1 .. Live, word : Words]]
    BY <1>5 DEF SpillTick
  <2>3. sample' \in [Versions -> [Dests -> Readings(SampleValid)]]
    <3>1. ASSUME NEW u \in Versions, NEW d \in Dests
          PROVE  AgedReading(sample[u][d]) \in Readings(SampleValid)
      BY AgedReadingOK, SpillConstants DEF SpillInv, ShapesOK
    <3> QED BY <3>1 DEF SpillTick
  <2>4. peer' \in [Versions -> [Peers -> PeerStates]]
    <3>1. ASSUME NEW u \in Versions, NEW p \in Peers
          PROVE  [peer[u][p] EXCEPT !.report = AgedReading(@)] \in PeerStates
      <4>1. peer[u][p] \in PeerStates /\ peer[u][p].report \in Readings(ReportTtl)
        BY DEF SpillInv, ShapesOK, PeerStates
      <4>2. AgedReading(peer[u][p].report) \in Readings(ReportTtl)
        BY <4>1, AgedReadingOK, SpillConstants
      <4> QED BY <4>1, <4>2 DEF PeerStates
    <3> QED BY <3>1 DEF SpillTick
  <2>5. calm' \in 0 .. CalmCap
    BY <1>4 DEF CalmCap
  <2> QED BY <1>1, <2>1, <2>2, <2>3, <2>4, <2>5 DEF SpillInv, ShapesOK, CalmCap
<1>7. SharersAgree'
  BY <1>1 DEF SpillInv, SharersAgree, Live, StateBorn
<1>8. StatesOK'
  <2> SUFFICES ASSUME NEW u \in Versions
               PROVE  /\ u > Live => spill'[u] = NewState
                      /\ WordOK(spill'[u].word)
                      /\ spill'[u].word.fraction <= spill'[u].fraction
                      /\ spill'[u].since = Unstarted => spill'[u].fraction = 0
    BY <1>1 DEF StatesOK, WordOK
  <2> QED BY <1>3 DEF SpillInv, StatesOK
<1>9. TargetsOK'
  <2> SUFFICES ASSUME NEW v \in 1 .. Live, spill'[StateBorn(v)].word.fraction > 0
               PROVE  tables[v].peers[spill'[StateBorn(v)].word.target]
                        = spill'[StateBorn(v)].word.meant
    BY <1>1 DEF TargetsOK, MeansIn, StateBorn
  <2>1. StateBorn(v) \in Versions
    BY StateIn DEF SpillInv
  <2> QED BY <1>3, <2>1 DEF SpillInv, TargetsOK, MeansIn
<1>10. ReadersOK'
  <2> SUFFICES ASSUME NEW c \in Conns
               PROVE  WordOK(conn[c].word)' /\ MeansIn(conn[c].word, conn[c].table)'
    BY DEF ReadersOK
  <2>1. MeansIn(conn[c].word, conn[c].table)
    BY DEF SpillInv, ReadersOK
  <2> QED BY <1>1, <1>5, <2>1 DEF MeansIn, WordOK
<1>11. RampOK'
  <2> DEFINE policy == tables[Live].policy
             b == StateBorn(Live)
             s == spill[b]
             new == spill'[b]
  <2>1. Live \in 1 .. Live
    BY SpillConstants DEF SpillInv, ShapesOK, Versions
  <2>2. b \in Versions /\ StateBorn(Live)' = b
    BY <1>1, <2>1, StateIn DEF SpillInv, StateBorn, Live
  <2> SUFFICES ASSUME policy # NoPolicy PROVE Ramps(new, policy, calm')
    BY <1>1, <2>2 DEF RampOK, Ramps, CalmCap
  <2>3. policy.step \in Nat
    BY <2>1, PolicyTyped DEF SpillInv
  <2>4. /\ s.fraction <= policy.max
        /\ calm < Whole /\ s.since # Unstarted =>
             s.fraction + policy.step * s.since <= policy.step * calm
    BY DEF SpillInv, RampOK, Ramps, CalmCap
  <2>5. /\ new.fraction = s.fraction /\ s.fraction \in Nat
        /\ new.since = Unstarted <=> s.since = Unstarted
        /\ s.since # Unstarted => new.since <= s.since + 1 /\ s.since \in Nat /\ new.since \in Nat
    BY <1>3, <2>2 DEF SpillInv, ShapesOK, SpillStates
  <2> HIDE DEF policy, b, s, new
  <2>6. ASSUME calm' < Whole, new.since # Unstarted
        PROVE  new.fraction + policy.step * new.since <= policy.step * calm'
    <3>1. calm' = calm + 1 /\ calm < Whole /\ calm \in Nat
      BY <1>4, <2>6
    <3>2. s.fraction + policy.step * s.since <= policy.step * calm
      BY <2>4, <2>5, <2>6, <3>1
    <3>3. policy.step * new.since <= policy.step * (s.since + 1)
      BY <2>3, <2>5, <2>6
    <3>4. /\ policy.step * (s.since + 1) = policy.step * s.since + policy.step
          /\ policy.step * (calm + 1) = policy.step * calm + policy.step
          /\ policy.step * s.since \in Nat /\ policy.step * calm \in Nat
          /\ policy.step * new.since \in Nat
      BY <2>3, <2>5, <2>6, <3>1
    <3> QED BY <2>3, <2>5, <3>1, <3>2, <3>3, <3>4
  <2> QED BY <2>4, <2>5, <2>6 DEF Ramps, CalmCap
<1> QED
  BY <1>6, <1>7, <1>8, <1>9, <1>10, <1>11 DEF SpillInv

LEMMA SpillNextInv ==
  ASSUME SpillInv, [SpillNext]_spillVars
  PROVE  SpillInv'
<1>1. CASE UNCHANGED spillVars
  <2>1. ShapesOK'
    BY <1>1 DEF SpillInv, ShapesOK, spillVars, Live
  <2> QED BY <1>1, <2>1, StatesStay, ReadersStay DEF SpillInv, spillVars
<1>2. CASE PollTick
  BY <1>2, PollTickInv
<1>3. CASE ControlAll
  BY <1>3, ControlAllInv
<1>4. ASSUME NEW p \in Peers, Unanswered(p) PROVE SpillInv'
  BY <1>4, UnansweredInv
<1>5. ASSUME NEW p \in Peers, NEW level \in PeerLoads[p] \cup {Dash, Missing},
             NEW left \in 1 .. ReportTtl, NEW sampled \in Distances[p],
             Answered(p, level, left, sampled)
      PROVE  SpillInv'
  BY <1>5, AnsweredInv
<1>6. ASSUME NEW p \in Peers, NEW v \in 1 .. Live, CooldownChanges(v, p) PROVE SpillInv'
  BY <1>6, CooldownInv
<1>7. ASSUME NEW c \in Conns, NEW v \in 1 .. Live, LoadWord(c, v) PROVE SpillInv'
  BY <1>7, LoadWordInv
<1>8. ASSUME NEW c \in Conns, FindsExpired(c) PROVE SpillInv'
  BY <1>8, FindsExpiredInv
<1>9. ASSUME NEW c \in Conns, Spills(c) \/ StaysLocal(c) PROVE SpillInv'
  BY <1>9, RestInv
<1>10. ASSUME NEW k \in Configs, Reload(k) PROVE SpillInv'
  BY <1>10, ReloadInv
<1>11. ASSUME NEW d \in Dests, NEW level \in LocalLoads \cup {Dash}, Sampled(d, level)
       PROVE  SpillInv'
  BY <1>11, SampledInv
<1>12. CASE SpillTick
  BY <1>12, TickInv
<1> QED
  BY <1>1, <1>2, <1>3, <1>4, <1>5, <1>6, <1>7, <1>8, <1>9, <1>10, <1>11, <1>12 DEF SpillNext

LEMMA SpillInvariance == SpillControlSpec => []SpillInv
<1>1. SpillInv /\ [SpillNext]_spillVars => SpillInv'
  BY SpillNextInv
<1> QED
  BY <1>1, SpillInit_Inv, PTL DEF SpillControlSpec

----------------------------------------------------------------------------
(* Spill-over: what it establishes                                         *)

LEMMA SpillTypes == SpillInv => TypeOK
<1> SUFFICES ASSUME SpillInv PROVE TypeOK
  OBVIOUS
<1>1. ASSUME NEW u \in Versions
      PROVE  /\ \A d \in Dests : sample[u][d].left \in 0 .. SampleValid
             /\ \A p \in Peers : /\ peer[u][p].report.left \in 0 .. ReportTtl
                                 /\ peer[u][p].rtt \in {"none", "near", "far"}
                                 /\ peer[u][p].cooling \in BOOLEAN
             /\ spill[u].word \in Words /\ spill[u].fraction \in Nat
             /\ spill[u].since \in Unstarted .. MaxControlStep
  <2>1. ASSUME NEW d \in Dests PROVE sample[u][d].left \in 0 .. SampleValid
    BY DEF SpillInv, ShapesOK, Readings
  <2>2. ASSUME NEW p \in Peers
        PROVE  /\ peer[u][p].report.left \in 0 .. ReportTtl
               /\ peer[u][p].rtt \in {"none", "near", "far"}
               /\ peer[u][p].cooling \in BOOLEAN
    <3>1. peer[u][p] \in PeerStates
      BY DEF SpillInv, ShapesOK
    <3> QED BY <3>1 DEF PeerStates, Readings
  <2>3. spill[u] \in SpillStates
    BY DEF SpillInv, ShapesOK
  <2> QED BY <2>1, <2>2, <2>3 DEF SpillStates
<1>2. ASSUME NEW c \in Conns PROVE conn[c].word \in Words /\ conn[c].table \in 1 .. Live
  BY DEF SpillInv, ShapesOK
<1> QED
  BY <1>1, <1>2 DEF SpillInv, ShapesOK, TypeOK

\* The share of connections that a route sends away grows by at most a step a tick
\* and stays within its limit, for every policy, however the poll task stalls and
\* whatever a reload keeps or replaces (failover.rs control).
THEOREM ShareRampsAlways == SpillControlSpec => []ShareRamps
<1>1. SpillInv => ShareRamps
  <2> SUFFICES ASSUME SpillInv PROVE ShareRamps
    OBVIOUS
  <2> DEFINE policy == tables[Live].policy
             s == spill[StateBorn(Live)]
  <2>1. Live \in 1 .. Live /\ ShapesOK
    BY SpillConstants DEF SpillInv, ShapesOK, Versions
  <2>2. StateBorn(Live) \in Versions
    BY <2>1, StateIn
  <2>3. /\ s \in SpillStates /\ s.word.fraction <= s.fraction
        /\ s.since = Unstarted => s.fraction = 0
    BY <2>1, <2>2 DEF SpillInv, ShapesOK, StatesOK
  <2>4. s.fraction \in Nat /\ (s.since = Unstarted \/ s.since \in Nat)
    BY <2>3, SpillConstants DEF SpillStates, Unstarted
  <2>5. ASSUME policy # NoPolicy PROVE s.fraction <= Min({policy.step * calm, policy.max})
    <3>1. policy.step \in Nat \ {0} /\ policy.max \in Nat /\ policy.max <= Whole
      BY <2>1, <2>5, PolicyTyped
    <3>2. calm \in 0 .. Whole /\ Whole \in Nat
      BY <2>1, SpillConstants DEF ShapesOK, CalmCap
    <3>3. /\ s.fraction <= policy.max
          /\ calm < Whole /\ s.since # Unstarted =>
               s.fraction + policy.step * s.since <= policy.step * calm
      BY <2>5 DEF SpillInv, RampOK, Ramps, CalmCap
    <3> HIDE DEF policy, s
    <3>4. policy.step * calm \in Nat
      BY <3>1, <3>2
    <3>5. s.fraction <= policy.step * calm
      <4>1. CASE s.since = Unstarted
        BY <2>3, <3>4, <4>1
      <4>2. CASE s.since # Unstarted /\ calm < Whole
        <5>1. policy.step * s.since \in Nat
          BY <2>4, <3>1, <4>2
        <5> QED BY <2>4, <3>3, <3>4, <4>2, <5>1
      <4>3. CASE calm = Whole
        <5>1. Whole <= policy.step * Whole
          BY <3>1, <3>2
        <5> QED BY <2>4, <3>1, <3>2, <3>3, <3>4, <4>3, <5>1
      <4>4. calm < Whole \/ calm = Whole
        BY <3>2
      <4> QED BY <4>1, <4>2, <4>3, <4>4
    <3>6. Min({policy.step * calm, policy.max})
            = IF policy.step * calm <= policy.max THEN policy.step * calm ELSE policy.max
      BY <3>1, <3>4, MinOfTwo
    <3> QED BY <3>3, <3>5, <3>6
  <2> QED BY <2>3, <2>5, SpillTypes DEF ShareRamps
<1> QED
  BY <1>1, SpillInvariance, PTL

LEMMA StepFresh ==
  ASSUME SpillInv, NEW c \in Conns, Spills(c)
  PROVE  /\ conn[c].word.sampleLeft > 0 /\ conn[c].word.reportLeft > 0
         /\ Target(c) = conn[c].word.meant
<1>1. conn[c].word \in Words /\ WordOK(conn[c].word) /\ MeansIn(conn[c].word, conn[c].table)
  BY DEF SpillInv, ShapesOK, ReadersOK
<1>2. conn[c].word.left > 0
  BY DEF Spills
<1>3. /\ conn[c].word.left \in Int /\ conn[c].word.sampleLeft \in Int
      /\ conn[c].word.reportLeft \in Int
  <2>1. SampleValid \in Nat /\ ReportTtl \in Nat
    BY SpillConstants
  <2>2. Max({SampleValid, ReportTtl}) \in Nat
    BY <2>1, MaxOfTwo
  <2> QED BY <1>1, <2>1, <2>2 DEF Words
<1> QED
  BY <1>1, <1>2, <1>3 DEF WordOK, MeansIn, Target

LEMMA StepWithdraws ==
  ASSUME SpillInv, [SpillNext]_spillVars, NEW u \in Versions,
         spill[u].word.left > 0, spill'[u].word = NoAdmission
  PROVE  poll # poll'
<1>1. spill[u].word # NoAdmission /\ spill[u].word.fraction # 0
  <2>1. NoAdmission.left = 0
    BY DEF NoAdmission
  <2>2. spill[u].word.fraction > 0
    BY DEF SpillInv, StatesOK, WordOK
  <2> QED BY <2>1, <2>2
<1>2. CASE UNCHANGED spill
  BY <1>1, <1>2
<1>3. CASE ControlAll
  <2>1. poll.pc = "control" /\ poll'.pc = "waiting"
    BY <1>3 DEF ControlAll, SpillInv, ShapesOK
  <2> QED BY <2>1
<1>4. ASSUME NEW c \in Conns, FindsExpired(c) PROVE FALSE
  <2> DEFINE b == StateBorn(conn[c].table)
             word == Cleared(spill[b].word, conn[c].word)
  <2>1. spill' = [spill EXCEPT ![b].word = word] /\ conn[c].word.left = 0
    BY <1>4 DEF FindsExpired
  <2>2. b \in Versions /\ spill \in [Versions -> SpillStates]
    BY StateIn DEF SpillInv, ShapesOK
  <2>3. u = b
    <3> HIDE DEF b, word
    <3> QED BY <1>1, <2>1, <2>2
  <2>4. spill'[u].word = word
    <3> HIDE DEF b, word
    <3> QED BY <2>1, <2>2, <2>3 DEF SpillStates
  <2>5. SameWord(spill[b].word, conn[c].word)
    BY <1>1, <2>3, <2>4 DEF Cleared
  <2> QED BY <2>1, <2>3, <2>5 DEF SameWord
<1>5. CASE SpillTick
  <2> DEFINE s == spill[u]
  <2>1. s \in SpillStates /\ WordOK(s.word)
    BY DEF SpillInv, ShapesOK, StatesOK
  <2>2. spill'[u] = [s EXCEPT !.word = AgedWord(@),
          !.since = IF @ = Unstarted THEN Unstarted ELSE Min({@ + 1, MaxControlStep})]
    BY <1>5 DEF SpillTick
  <2>3. spill'[u].word.fraction = s.word.fraction
    <3> HIDE DEF s
    <3> QED BY <2>1, <2>2, AgedStateOK
  <2> QED BY <1>1, <2>3, NoAdmissionOK
<1>6. \/ UNCHANGED spill \/ ControlAll \/ (\E c \in Conns : FindsExpired(c)) \/ SpillTick
  BY DEF SpillNext, spillVars, PollTick, Unanswered, Answered, CooldownChanges, LoadWord,
         Spills, StaysLocal, Reload, Sampled
<1> QED
  BY <1>2, <1>3, <1>4, <1>5, <1>6

\* For any number of peers, connections and reloads: whoever is handed to a peer is so
\* on readings that are still current, to the peer they were taken of, by whatever
\* table the connection holds; and an admission that holds is ended by the controller
\* alone (failover.rs spill_target).
THEOREM AdmissionsHonouredAlways == SpillControlSpec => AdmissionsHonoured
<1>1. SpillInv => [\A c \in Conns : Spills(c) =>
                     /\ conn[c].word.sampleLeft > 0 /\ conn[c].word.reportLeft > 0
                     /\ Target(c) = conn[c].word.meant]_spillVars
  BY StepFresh
<1>2. SpillInv /\ [SpillNext]_spillVars =>
        [\A u \in Versions :
           spill[u].word.left > 0 /\ spill'[u].word = NoAdmission => poll # poll']_spillVars
  BY StepWithdraws
<1>3. SpillControlSpec => SpillsOnFreshReadings
  BY <1>1, SpillInvariance, PTL DEF SpillControlSpec, SpillsOnFreshReadings
<1>4. SpillControlSpec => OnlyControllerWithdraws
  BY <1>2, SpillInvariance, PTL DEF SpillControlSpec, OnlyControllerWithdraws
<1> QED
  BY <1>3, <1>4 DEF AdmissionsHonoured

=============================================================================
