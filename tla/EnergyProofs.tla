---------------------------- MODULE EnergyProofs ----------------------------
(***************************************************************************)
(* Proofs about batteries, deaths and sleep labels.  What decides who may   *)
(* sleep (CutVertices) and who is idle (Busy) stays opaque: the theorems    *)
(* hold whatever the links, the traffic and the thresholds are.             *)
(***************************************************************************)
EXTENDS Energy, TLAPS

(* The smaller of two numbers.                                               *)
LEMMA MinOfTwo ==
  ASSUME NEW a \in Nat, NEW b \in Nat
  PROVE  Min({a, b}) = IF a <= b THEN a ELSE b
<1> DEFINE m == IF a <= b THEN a ELSE b
<1>1. m \in {a, b} /\ \A y \in {a, b} : m <= y
  OBVIOUS
<1>2. \A x \in {a, b} : (\A y \in {a, b} : x <= y) => x = m
  OBVIOUS
<1> QED
  BY <1>1, <1>2, Zenon DEF Min

-----------------------------------------------------------------------------
\* A dead switch has an empty battery and was reported so.
DeadEmpty == \A s \in dead : residual[s] = 0 /\ obs[s] = 0

\* The counter behind the labels is never ahead of the idle ticks it counts.
IdleCounted == \A s \in Switch : idle[s] <= quiet[s]

\* Hosts are known before the first label.
HostsFrozen == (started => HostSwitch \subseteq nonSleepable) /\ (~started => asleep = {})

EnergyInv == TypeOK /\ DeadEmpty /\ IdleCounted /\ HostsFrozen /\ SleepersRested

(* An interval's charge never makes a battery negative, and an empty one     *)
(* stays empty.                                                              *)
LEMMA DrainedInRange ==
  ASSUME TypeOK, NEW s \in Switch, HasBattery(s), NEW r \in Rates
  PROVE  /\ Drained(s, r) \in Nat
         /\ residual[s] = 0 => Drained(s, r) = 0
<1> DEFINE e == r + (IF s \notin asleep \cup dead THEN IdlePower ELSE 0)
<1>1. residual[s] \in Nat
  BY EnergyAssumption DEF TypeOK, HasBattery
<1>2. e \in Nat
  BY EnergyAssumption
<1>3. Drained(s, r) = IF residual[s] > e THEN residual[s] - e ELSE 0
  BY DEF Drained
<1> HIDE DEF e
<1> QED
  BY <1>1, <1>2, <1>3

LEMMA InitInv == Init => EnergyInv
<1> SUFFICES ASSUME Init PROVE EnergyInv
  OBVIOUS
<1>1. TypeOK
  <2>1. obs \in [Switch -> Nat \cup {-1}] /\ load \in [Switch -> Rates] /\ rate \in [Switch -> Rates]
    BY EnergyAssumption DEF Init
  <2>2. idle \in [Switch -> 0..SleepTicks] /\ quiet \in [Switch -> 0..SleepTicks]
    BY EnergyAssumption DEF Init
  <2> QED
    BY <2>1, <2>2, EnergyAssumption DEF Init, TypeOK
<1>2. IdleCounted
  BY EnergyAssumption DEF Init, IdleCounted
<1> QED
  BY <1>1, <1>2 DEF Init, EnergyInv, DeadEmpty, HostsFrozen, SleepersRested

-----------------------------------------------------------------------------
LEMMA TrafficInv ==
  ASSUME EnergyInv, NEW s \in Switch, TrafficChanges(s)
  PROVE  EnergyInv'
<1> USE DEF TrafficChanges, statVars, labelVars
<1>1. PICK r \in Rates : load' = [load EXCEPT ![s] = r]
  OBVIOUS
<1>2. TypeOK'
  BY <1>1 DEF EnergyInv, TypeOK
<1> QED
  BY <1>2 DEF EnergyInv, DeadEmpty, IdleCounted, HostsFrozen, SleepersRested

LEMMA DepleteInv ==
  ASSUME EnergyInv, NEW s \in Switch, ForceDeplete(s)
  PROVE  EnergyInv'
<1> USE DEF ForceDeplete, labelVars
<1>1. TypeOK'
  BY DEF EnergyInv, TypeOK
<1>2. DeadEmpty'
  BY DEF EnergyInv, TypeOK, DeadEmpty
<1> QED
  BY <1>1, <1>2 DEF EnergyInv, IdleCounted, HostsFrozen, SleepersRested

LEMMA ReplyInv ==
  ASSUME EnergyInv, NEW s \in Switch, HandlePortStatsReply(s)
  PROVE  EnergyInv'
<1> USE DEF labelVars
<1>1. rate' \in [Switch -> Rates]
  BY DEF HandlePortStatsReply, EnergyInv, TypeOK
<1>2. /\ residual' = IF HasBattery(s) THEN [residual EXCEPT ![s] = Drained(s, rate'[s])]
                     ELSE residual
      /\ obs' = [obs EXCEPT ![s] = residual'[s]]
      /\ dead' = IF HasBattery(s) /\ residual'[s] = 0 THEN dead \cup {s} ELSE dead
  BY DEF HandlePortStatsReply, Dying
<1>3. HasBattery(s) => /\ Drained(s, rate'[s]) \in Nat
                       /\ residual[s] = 0 => Drained(s, rate'[s]) = 0
  BY <1>1, DrainedInRange DEF EnergyInv
<1>4. /\ residual' \in [Switch -> Nat \cup {-1}]
      /\ \A t \in Switch : residual'[t] = -1 <=> Initial[t] = -1
  BY <1>2, <1>3, EnergyAssumption DEF EnergyInv, TypeOK, HasBattery
<1>5. obs' \in [Switch -> Nat \cup {-1}] /\ dead' \in SUBSET {t \in Switch : HasBattery(t)}
  BY <1>2, <1>4 DEF EnergyInv, TypeOK
<1>6. TypeOK'
  BY <1>1, <1>4, <1>5 DEF HandlePortStatsReply, EnergyInv, TypeOK, HasBattery
<1>7. DeadEmpty'
  <2> SUFFICES ASSUME NEW t \in dead' PROVE residual'[t] = 0 /\ obs'[t] = 0
    BY DEF DeadEmpty
  <2>1. t \in dead \/ (t = s /\ residual'[s] = 0)
    BY <1>2
  <2>2. t \in Switch /\ (t \in dead => HasBattery(t) /\ residual[t] = 0 /\ obs[t] = 0)
    BY <2>1 DEF EnergyInv, TypeOK, DeadEmpty
  <2>3. residual'[t] = 0
    BY <1>2, <1>3, <2>1, <2>2 DEF EnergyInv, TypeOK
  <2> QED
    BY <1>2, <2>2, <2>3, <2>1 DEF EnergyInv, TypeOK
<1> QED
  BY <1>6, <1>7 DEF HandlePortStatsReply, EnergyInv, IdleCounted, HostsFrozen, SleepersRested

-----------------------------------------------------------------------------
(* The one step that labels: what it counts and whom it leaves out.          *)
LEMMA TickLabels ==
  ASSUME EnergyInv, MlTick
  PROVE  /\ HostSwitch \subseteq nonSleepable' /\ nonSleepable' \in SUBSET Switch
         /\ idle' \in [Switch -> 0..SleepTicks] /\ quiet' \in [Switch -> 0..SleepTicks]
         /\ \A s \in Switch : idle'[s] <= quiet'[s]
         /\ \A s \in asleep' : /\ s \in Switch \ (nonSleepable' \cup dead)
                               /\ quiet'[s] = SleepTicks
<1>1. HostSwitch \subseteq nonSleepable' /\ nonSleepable' \in SUBSET Switch
  <2>1. CASE started
    BY <2>1 DEF MlTick, FreezeNonSleepable, EnergyInv, TypeOK, HostsFrozen
  <2>2. CASE ~started
    <3>1. PICK G : nonSleepable' = CutVertices(Graph(G)) \cup HostSwitch
      BY <2>2 DEF MlTick, FreezeNonSleepable
    <3>2. CutVertices(Graph(G)) \subseteq Switch
      BY DEF CutVertices, Graph
    <3> QED
      BY <3>1, <3>2, EnergyAssumption
  <2> QED
    BY <2>1, <2>2
<1> DEFINE next(n) == IF n + 1 <= SleepTicks THEN n + 1 ELSE SleepTicks
<1>2. \A n \in 0..SleepTicks : Min({n + 1, SleepTicks}) = next(n)
  BY MinOfTwo, EnergyAssumption
<1>3. \A s \in Switch : idle[s] \in 0..SleepTicks /\ quiet[s] \in 0..SleepTicks /\ idle[s] <= quiet[s]
  BY DEF EnergyInv, TypeOK, IdleCounted
<1>4. \A s \in Switch : quiet'[s] = IF Busy(s) THEN 0 ELSE next(quiet[s])
  BY <1>2, <1>3 DEF MlTick
<1>5. \A s \in Switch : idle'[s] = IF Exempt(s) \/ Busy(s) THEN 0 ELSE next(idle[s])
  BY <1>2, <1>3 DEF MlTick, UpdateSleepStates, IdleTicks
<1>6. /\ \A s \in Switch : idle'[s] \in 0..SleepTicks /\ quiet'[s] \in 0..SleepTicks
      /\ \A s \in Switch : idle'[s] <= quiet'[s]
  BY <1>3, <1>4, <1>5, EnergyAssumption
<1>7. ASSUME NEW s \in asleep'
      PROVE  /\ s \in Switch \ (nonSleepable' \cup dead)
             /\ quiet'[s] = SleepTicks
  <2>1. /\ s \in Switch /\ ~Exempt(s) /\ ~Busy(s)
        /\ s \in asleep \/ idle'[s] >= SleepTicks
    BY <1>7 DEF MlTick, UpdateSleepStates
  <2>2. s \notin nonSleepable' \cup dead
    BY <2>1 DEF Exempt
  <2>3. CASE s \in asleep
    <3>1. quiet[s] = SleepTicks
      BY <2>3 DEF EnergyInv, SleepersRested
    <3> QED
      BY <1>3, <1>4, <2>1, <2>2, <3>1, EnergyAssumption
  <2>4. CASE idle'[s] >= SleepTicks
    BY <1>6, <2>1, <2>2, <2>4, EnergyAssumption
  <2> QED
    BY <2>1, <2>3, <2>4
<1> HIDE DEF next
<1>8. idle' \in [Switch -> 0..SleepTicks] /\ quiet' \in [Switch -> 0..SleepTicks]
  <2>1. /\ idle' = [s \in Switch |-> idle'[s]]
        /\ quiet' = [s \in Switch |-> quiet'[s]]
    BY DEF MlTick, UpdateSleepStates
  <2> QED
    BY <1>6, <2>1
<1> QED
  BY <1>1, <1>6, <1>7, <1>8

LEMMA TickInv ==
  ASSUME EnergyInv, MlTick
  PROVE  EnergyInv'
<1> USE DEF statVars
<1>1. TypeOK'
  BY TickLabels DEF MlTick, EnergyInv, TypeOK
<1>2. SleepersRested' /\ IdleCounted' /\ HostsFrozen'
  BY TickLabels DEF MlTick, SleepersRested, IdleCounted, HostsFrozen
<1> QED
  BY <1>1, <1>2 DEF MlTick, EnergyInv, DeadEmpty

(* The invariant survives every step.                                        *)
LEMMA NextInv == EnergyInv /\ [Next]_vars => EnergyInv'
<1> SUFFICES ASSUME EnergyInv, [Next]_vars PROVE EnergyInv'
  OBVIOUS
<1>1. CASE UNCHANGED vars
  BY <1>1 DEF vars, statVars, labelVars, EnergyInv, TypeOK, DeadEmpty, IdleCounted,
     HostsFrozen, SleepersRested
<1>2. CASE MlTick
  BY <1>2, TickInv
<1>3. CASE \E s \in Switch : HandlePortStatsReply(s)
  BY <1>3, ReplyInv
<1>4. CASE \E s \in Switch : ForceDeplete(s)
  BY <1>4, DepleteInv
<1>5. CASE \E s \in Switch : TrafficChanges(s)
  BY <1>5, TrafficInv
<1> QED
  BY <1>1, <1>2, <1>3, <1>4, <1>5 DEF Next

LEMMA EnergyAlways == Spec => []EnergyInv
<1> QED
  BY InitInv, NextInv, PTL DEF Spec

-----------------------------------------------------------------------------
(* Types of every state, for any switches, batteries and traffic: above all  *)
(* a battery is never negative and only switches with a battery die.         *)
THEOREM EnergyTypes == Spec => []TypeOK
<1>1. EnergyInv => TypeOK
  BY DEF EnergyInv
<1> QED
  BY <1>1, EnergyAlways, PTL

(* Whoever is labelled asleep was idle for SleepTicks ticks in a row and has *)
(* no host, however statistics, deaths and ticks interleave.                 *)
THEOREM SleepersAlwaysRested == Spec => []SleepersRested
<1>1. EnergyInv => SleepersRested
  BY DEF EnergyInv
<1> QED
  BY <1>1, EnergyAlways, PTL

(* No tick reports a switch both asleep and dead, or dead with energy left.  *)
THEOREM ReportsAlwaysConsistent == Spec => ReportConsistent
<1>1. EnergyInv /\ [Next]_vars =>
        [MlTick => /\ asleep' \cap dead' = {}
                   /\ \A s \in dead' : obs'[s] = 0]_vars
  <2> SUFFICES ASSUME EnergyInv, MlTick
               PROVE  asleep' \cap dead' = {} /\ \A s \in dead' : obs'[s] = 0
    OBVIOUS
  <2>1. dead' = dead /\ obs' = obs
    BY DEF MlTick, statVars
  <2> QED
    BY <2>1, TickLabels DEF EnergyInv, DeadEmpty
<1> QED
  BY <1>1, EnergyAlways, PTL DEF Spec, ReportConsistent
=============================================================================
