------------------------------- MODULE Energy -------------------------------
(***************************************************************************)
(* Batteries, deaths and sleep labels in class ZmqOpenFlowController: the  *)
(* statistics replies drain a switch's battery and may find it empty, the  *)
(* ML tick labels idle switches asleep and reports both to the agent.      *)
(*                                                                         *)
(* One unit of energy, of traffic and of power is what is spent in one     *)
(* statistics interval.  Replies of different switches and ticks come in   *)
(* any order.  What a death does to the tree, the groups and the routes is *)
(* in module Controller, the exchange with the agent in module MlBridge.   *)
(***************************************************************************)
EXTENDS Paths

CONSTANTS Switch,      \* datapath ids, all connected before the first tick
          HostSwitch,  \* m_hostSwitches: switches with a host
          Cable,       \* pairs of switches joined by a cable
          Initial,     \* initial_energy_j, -1 for a switch without a battery
          IdlePower,   \* idle_power_w
          Rates,       \* transmit rates of a switch
          Floor,       \* footprint_floor_bps
          Share,       \* 1 / footprint_frac
          SleepTicks,  \* sleep_idle_ticks
          Target       \* switches a stress event may deplete

ASSUME EnergyAssumption ==
  /\ HostSwitch \subseteq Switch /\ Target \subseteq Switch
  /\ \A e \in Cable : e \in SUBSET Switch /\ Cardinality(e) = 2
  /\ Initial \in [Switch -> Nat \cup {-1}]
  /\ 0 \in Rates /\ Rates \subseteq Nat
  /\ IdlePower \in Nat /\ Floor \in Nat /\ Share \in Nat
  /\ SleepTicks \in Nat \ {0}

VARIABLES
  load,          \* environment: what a switch transmits
  residual,      \* m_switchResidualEnergy, -1 without a battery
  seen,          \* switches with an earlier statistics snapshot
  rate,          \* tx_rate_bps of a switch, summed over its ports
  obs,           \* residual energy in m_switchObs, -1 if not known
  dead,          \* m_deadNodes
  asleep,        \* m_sleepSwitches
  idle,          \* m_idleTicks, counted up to SleepTicks
  nonSleepable,  \* m_nonSleepable, frozen at the first tick
  started,       \* m_mlTick > 0
  quiet          \* history: ticks in a row that found the switch idle

statVars == <<residual, seen, rate, obs, dead>>
labelVars == <<asleep, idle, nonSleepable, started, quiet>>
vars == <<load, statVars, labelVars>>

Init ==
  /\ load = [s \in Switch |-> 0]
  /\ residual = Initial
  /\ seen = {}
  /\ rate = [s \in Switch |-> 0]
  /\ obs = [s \in Switch |-> -1]
  /\ dead = {}
  /\ asleep = {}
  /\ idle = [s \in Switch |-> 0]
  /\ nonSleepable = {}
  /\ started = FALSE
  /\ quiet = [s \in Switch |-> 0]

HasBattery(s) == Initial[s] >= 0

-----------------------------------------------------------------------------
\* Mutant of Drained: a switch is charged for its traffic only.
DrainedTraffic(s, r) ==
  IF residual[s] > r THEN residual[s] - r ELSE 0

\* What is left after an interval with traffic r; labelled and dead switches
\* are not charged the idle power.
Drained(s, r) ==
  LET on == s \notin asleep \cup dead
      e  == r + (IF on THEN IdlePower ELSE 0)
  IN  IF residual[s] > e THEN residual[s] - e ELSE 0

\* Mutant of Dying: the check sits with the idle charge.
DyingAwake(s) == residual'[s] = 0 /\ s \notin asleep

\* The battery of s has just been found empty.
Dying(s) == residual'[s] = 0

\* The traffic a switch forwards changes; the dead may be left with some,
\* since flows that have no other route stay.
TrafficChanges(s) ==
  /\ \E r \in Rates : load' = [load EXCEPT ![s] = r]
  /\ UNCHANGED <<statVars, labelVars>>

\* HandlePortStatsReply and the ComputeSwitchObservations that ends it.  The
\* first reply has no interval to divide by and leaves the rate alone.
HandlePortStatsReply(s) ==
  /\ seen' = seen \cup {s}
  /\ rate' = IF s \in seen THEN [rate EXCEPT ![s] = load[s]] ELSE rate
  /\ residual' = IF HasBattery(s) THEN [residual EXCEPT ![s] = Drained(s, rate'[s])]
                 ELSE residual
  /\ obs' = [obs EXCEPT ![s] = residual'[s]]
  /\ dead' = IF HasBattery(s) /\ Dying(s) THEN dead \cup {s} ELSE dead
  /\ UNCHANGED <<load, labelVars>>

\* ForceDeplete, from a stress event: the next reply makes it a death.
ForceDeplete(s) ==
  /\ s \in Target /\ residual[s] > 0
  /\ residual' = [residual EXCEPT ![s] = 0]
  /\ UNCHANGED <<load, seen, rate, obs, dead, labelVars>>

-----------------------------------------------------------------------------
\* The switches whose removal disconnects two of their neighbours, which is
\* what Tarjan's search computes.
CutVertices(g) ==
  {v \in DOMAIN g : \E a, b \in g[v] :
     b \notin Reach([u \in DOMAIN g |-> g[u] \ {v}], DOMAIN g, a)}

\* The switch graph of a set of discovered cables.
Graph(G) == [s \in Switch |-> {d \in Switch : {s, d} \in G}]

Traffic == MapThenSumSet(LAMBDA s : rate[s], Switch)

\* At or above max(floor, total * frac): a switch that carries traffic.
Busy(s) == rate[s] >= Floor /\ rate[s] * Share >= Traffic

\* Mutant of Exempt: the dead are left labelled.
ExemptAlive(s) == s \in nonSleepable'

\* Mutant of Exempt: host switches and cut vertices may sleep.
ExemptDead(s) == s \in dead

\* Never labelled asleep; a label and the count of idle ticks are erased.
Exempt(s) == s \in nonSleepable' \cup dead

\* Mutant of IdleTicks: traffic does not reset the count.
IdleTicksKept(s) ==
  IF Exempt(s) THEN 0 ELSE IF Busy(s) THEN idle[s] ELSE Min({idle[s] + 1, SleepTicks})

\* The count of consecutive idle ticks.
IdleTicks(s) ==
  IF Exempt(s) \/ Busy(s) THEN 0 ELSE Min({idle[s] + 1, SleepTicks})

\* Mutant of UpdateSleepStates: the threshold is never reached.
UpdateSleepStatesLate ==
  /\ idle' = [s \in Switch |-> IdleTicks(s)]
  /\ asleep' = {s \in Switch : ~Exempt(s) /\ ~Busy(s) /\ idle'[s] > SleepTicks}

\* UpdateSleepStates: sleep after SleepTicks idle ticks, wake on traffic.
UpdateSleepStates ==
  /\ idle' = [s \in Switch |-> IdleTicks(s)]
  /\ asleep' = {s \in Switch : ~Exempt(s) /\ ~Busy(s) /\
                               (s \in asleep \/ idle'[s] >= SleepTicks)}

\* The first tick freezes who may sleep, from the links discovered by then.
FreezeNonSleepable ==
  IF started THEN UNCHANGED nonSleepable
  ELSE \E G \in SUBSET Cable : nonSleepable' = CutVertices(Graph(G)) \cup HostSwitch

\* MlTick.  The observation it sends is read from the state it leaves.
MlTick ==
  /\ FreezeNonSleepable
  /\ UpdateSleepStates
  /\ started' = TRUE
  /\ quiet' = [s \in Switch |-> IF Busy(s) THEN 0 ELSE Min({quiet[s] + 1, SleepTicks})]
  /\ UNCHANGED <<load, statVars>>

Next ==
  \/ MlTick
  \/ \E s \in Switch : HandlePortStatsReply(s) \/ ForceDeplete(s) \/ TrafficChanges(s)

Spec == Init /\ [][Next]_vars

\* TriggerStats asks every switch once per interval, MlTick schedules itself.
FairSpec ==
  /\ Spec
  /\ WF_vars(MlTick)
  /\ \A s \in Switch : WF_vars(HandlePortStatsReply(s))

-----------------------------------------------------------------------------
TypeOK ==
  /\ load \in [Switch -> Rates]
  /\ residual \in [Switch -> Nat \cup {-1}]
  /\ \A s \in Switch : residual[s] = -1 <=> Initial[s] = -1
  /\ seen \in SUBSET Switch
  /\ rate \in [Switch -> Rates]
  /\ obs \in [Switch -> Nat \cup {-1}]
  /\ dead \in SUBSET {s \in Switch : HasBattery(s)}
  /\ asleep \in SUBSET Switch
  /\ idle \in [Switch -> 0..SleepTicks]
  /\ nonSleepable \in SUBSET Switch
  /\ started \in BOOLEAN
  /\ quiet \in [Switch -> 0..SleepTicks]

(* What a tick reports of a switch agrees with itself although deaths fall  *)
(* between two ticks: no switch is both asleep and dead, and one reported   *)
(* dead is reported fully depleted.                                         *)
ReportConsistent ==
  [][MlTick => /\ asleep' \cap dead' = {}
               /\ \A s \in dead' : obs'[s] = 0]_vars

(* The hysteresis of the sleep labels: whoever is labelled asleep was found *)
(* idle by SleepTicks ticks in a row, however statistics and ticks          *)
(* interleave, has no host and was not frozen as one that must stay up.     *)
SleepersRested ==
  \A s \in asleep : quiet[s] = SleepTicks /\ s \notin nonSleepable \cup HostSwitch

(* A battery that is empty, by traffic, by idling or by a stress event, is  *)
(* sooner or later found to be, whatever the label of its switch.           *)
EmptyDies == \A s \in Switch : residual[s] = 0 ~> s \in dead

(* A switch with a host never gets a free ride: if powering it costs        *)
(* anything, its battery runs down.                                         *)
HostSwitchesRunDown ==
  \A s \in HostSwitch : HasBattery(s) /\ IdlePower > 0 => <>(s \in dead)

(* A switch that may sleep and stays without traffic is labelled in the end. *)
QuietSleeps ==
  \A s \in Switch :
    <>[](load[s] = 0 /\ s \notin nonSleepable) => <>[](s \in asleep \cup dead)
=============================================================================
