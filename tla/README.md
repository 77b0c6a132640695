# A verification development for ML-SDN-Routing

The repository is an ns-3 simulation of software-defined networks. A C++ OpenFlow controller discovers the
network, learns where hosts are, installs routes and flood groups, and lets a reinforcement-learning agent in
a Python process bias the link costs. Several such simulations can train together through a root aggregator
that averages their models. This directory models the parts of it that keep state and react to events, checks
them with TLC on small instances, and proves the main results for all instances with TLAPS.

Paths below are relative to `src/src/`.

## 1. Inventory

| Component | State | Operations | Talks to | Hard about it |
|---|---|---|---|---|
| Link database (`libs/controller/topology.cc`) | `m_links`, `m_linkPorts`, `m_graph`, `m_routing` | `AddLink`, `RemovePort` | called by the controller on LLDP and port status | four tables that must say the same thing; parallel links; two directions updated apart |
| Costs and paths (same file) | effective cost, base, congestion, ML delta, scale, blocked set, path cache | eight setters, `ShortestPath`, `ComputeSpanningTree`, `ComputeArticulationPoints` | read by every routing decision | layers composed in any order, non-positive results, stale cache |
| Event handling (`libs/controller/zmq-openflow-controller.cc`) | switches, ports, host locations, flows, spanning tree, flood groups, dead switches | `HandshakeSuccessful`, `HandlePortDescReply`, `HandlePacketIn`, `HandleLldpPacket`, `HandlePortStatus`, `RecomputeAllRoutes`, `UpdateBlockedNodes`, `PreInstallAllPaths` | OpenFlow switches (asynchronous messages), `Topology` | events in any order; derived state that is refreshed by some events and not by others; stale flows |
| Link discovery (same file) | scheduled probes, known ports | `TriggerLldp`, `SendSingleLldp`, the probe of an added port | switches, over their links | a sweep that skips what it takes for host ports; lost, late and overtaken probes |
| Statistics and batteries (same file) | rates, residual energy, dead switches | `TriggerStats`, `HandlePortStatsReply`, `ComputeSwitchObservations`, `ForceDeplete` | switches, stress events | replies and ticks in any order; deaths found late |
| Echo (same file) | send times, round-trip times | `TriggerEcho`, `HandleEchoReply` | switches | replies attributed to the wrong request |
| ML tick (same file) | frozen orders, sleepers, idle counters, previous observation | `MlTick`, `UpdateSleepStates`, `ApplyDeltaCosts` | ML service over ZMQ | frozen indices, deaths between ticks, exchange timeouts |
| ML service (`python/controller/ml_service.py`) | agent, replay, cached action, request queue, previous observation | hello, observe, worker loop, checkpoints | controller (ZMQ REP), shared directory | two threads; a backlog while federation runs; late and lost replies; several simulations on one service |
| Federation (`ml_service.py`, `root_aggregator.py`) | round counters, files of a shared directory | submit, wait, adopt; wait, drop, average, publish, clean up | each other, by files only | crashes, restarts, timeouts on both sides, dropped rounds |
| Reward (`zmq-openflow-controller.cc`) | none of its own: rates, packet counts, batteries, labels, deaths, the last churn | `ComputeMlReward`, `ComputeResidualEnergyStddev`, `SetMlConfig` | reads what statistics, ticks and actions leave behind; its value goes to the ML service | nine terms clamped one by one, a barrier outside their sum, terms that pull against each other, deaths that change who counts |
| Stress events (`libs/scenario/scenario_stress.cc`) | scheduled events, error models of net devices | `Schedule`, `ScheduleFlap`, `BringDown`, `BringUp`, `Degrade`, `BlackHoleOn`, `BlackHoleOff` | net devices, `ForceDeplete` of a controller | crises drawn independently on the same devices, each restored by a write that forgets the others |
| Scenarios (`libs/scenario`, `scenarios`) | a network built once | start-up, traffic, reports | controllers, net devices | |
| Scripts, visualizer, CSV tools | none that matters here | | | |

What makes each part correct, in short: the link tables agree (`LinksSymmetric`, `GraphMatchesLinks`,
`RoutingOverCables`, `SoleOutPortAlive`); costs stay positive and composed, the cache stays fresh, routes converge (`CostsPositive`,
`LeverInForce`, `CacheCoherent`, `FirstHopsConverge`); the agent's actions shift costs between links and stay in force
(`DeltasBalance`, `ChurnWithinSwing`, `LeverInForce`); flows never loop and lead to the host (`LoopFree`, `FlowsLeadHome`);
hosts are not located inside the fabric (`HostsOffLinks`); broadcasts do not circulate, get to every host where there is a tree,
and avoid dead switches (`SettledFloodLoopFree`, `FloodRestored`, `TreeAvoidsDead`); every cable that is up is discovered for good and no link
outlives both its ends (`DiscoveryComplete`, `OneEndThere`); sleep labels are earned, neither forgotten nor an
excuse from dying, and reports agree with themselves (`SleepersRested`, `QuietSleeps`, `EmptyDies`,
`HostSwitchesRunDown`, `ReportConsistent`); the agent learns in the order of the observations and
the links never go back to an older action (`TransitionsForward`, `NeverBackwards`, `RepliesFresh`, `QueueDrains`); model rounds move forward only and federation
does not get stuck (`FederationLog`, `NoOrphanRound`, `AggregatorKeepsUp`); checkpoints stay readable and training
that was saved is not lost again (`CheckpointWhole`, `ProgressKept`, `LossBounded`); the reward stays within its bounds, rewards
sleep and never the draining of the weakest (`AnalyticBounds`, `BarrierBinds`, `SleepPays`, `WeakDrainCosts`); crises do what
they were drawn to do and leave nothing behind (`EveryFaultEnds`, `LinksStayHit`, `StaysDark`, `LinksRecover`). `PROJECT.json` lists every
component, and every hazard with its line.

## 2. Modules

| Module | What it is |
|---|---|
| `LinkMap` | the link database: `AddLink`, `RemovePort` with both `...Adjacency` helpers |
| `Sums` | sums of integers over finite sets, as the proofs reason about them |
| `Paths` | what Dijkstra and the breadth-first tree return, as sets of possible answers |
| `Topology` | `LinkMap` with cost layers, blocked set and path cache; composes `LinkMap` and `Paths` |
| `Lever` | `Topology` under the ML tick: frozen order of links, frozen scale, centred deltas |
| `Controller` | the OpenFlow handlers on top of `LinkMap` and `Paths` |
| `Discovery` | the sweep of LLDP probes and the probes on their way, on top of `LinkMap` |
| `Energy` | batteries, deaths and sleep labels: statistics replies, stress events and ML ticks |
| `FederationLog` | abstract specification: global models are published once, in order, and nobody goes back |
| `FedAvg` | workers and aggregator over a shared directory; refines `FederationLog` |
| `MlBridge` | the exchange of the controller's ML tick with the two threads of the ML service |
| `Checkpoint` | the files in which the ML service keeps its agent, and the two threads that save it |
| `Reward` | what `ComputeMlReward` returns, and the events that change what it reads |
| `StressEvents` | the crises that `Schedule` may draw, and what their events do to the error models of the devices |
| `MC*` | the instances of each for TLC |
| `OperatorProofs` | lemmas about `Sums` and `Paths`, which the modules below share |
| `LinkMapProofs`, `TopologyProofs` (with `Lever`), `ControllerProofs`, `FaultProofs` (`Discovery`, `StressEvents`), `EnergyProofs`, `MlBridgeProofs` (with `Reward`), `FederationProofs` (`FedAvg`, `Checkpoint`) | theorems |

**LinkMap.** A port is a pair (dpid, port number); `At` gives its switch, `Peer` the other end of its cable.
`links`, `linkPorts`, `graph` and `routing` are the four C++ maps, an absent entry being `None`. `RecordLink` is
`AddLink` with its two `AddAdjacency` calls, `EraseLink` is `RemovePort` with its two `RemoveAdjacency` calls. The
early return of `AddLink` looks up one end only, and that of `RemoveAdjacency` (another parallel link) keeps
the old out port: both are as in the code.

**Topology.** Costs are integers, `Epsilon` stands for the 1e-3 that replaces a cost that is not positive. Both
directions of a pair are always written with the same value, so maps are keyed by the unordered pair. A query
that misses the cache picks any cheapest route: ties are broken by hash order. Removing a link forgets neither
its costs nor its layers, as in the code.

**Lever.** `MlTick` as far as it works on costs: the first tick freezes `linkOrder`, in any order a hash map may list the
links, and `scale`, the median of the base costs; an action is a value per entry of that order. `Centred` works in
`Unit`-ths of a value, so that means, deltas and compositions are exact integers; 1e-9, below which a delta counts as unchanged,
is 0 there. `HandleLldpPacket` and `PortDeleted` are the handlers without the tables that module `Controller` holds.
A link that is discovered twice may have another base cost, since delays are measured each time.

**Controller.** One action per event, each the whole handler: `HandleLldpPacket` includes `AddLink`, the
rebuilding of the tree, the refresh of all groups and the flush of host locations; `SwitchDies` is
`ComputeSwitchObservations` with `UpdateBlockedNodes`; `CostsChange` is the recomputation that ends
`ApplyDeltaCosts` and `HandlePortStatsReply`. Costs are abstracted: a route is any that some positive costs make
cheapest, a recomputation uses any table of first hops without a cycle. `FirstHopsConverge`, checked in `Topology`,
justifies that table. `group = {}` means that no group was installed, since a group without buckets is never sent.
`TreePart` is the part of the living fabric that `ComputeSpanningTree` covers: it starts at the least switch that is alive
and has a link. `Early` says whether frames may come in on a link port before LLDP discovered it; `Seeded` enables
`PreInstallAllPaths`, which the runner calls once and the model at any time. Data frames in flight are not modelled:
a packet-in may happen for any host at the ports its frames can reach.

**Discovery.** `scheduled` holds the `SendSingleLldp` events a sweep has put into the simulator's queue, `probes` the
ports whose probe is on its way; `Controller` lets a probe arrive at any time, this module asks whether one is ever
sent. The two periods of the sweep are abstracted to "again and again". `Late`, `Lossy` and `Flaky` say which switches
connect after the first sweep, which ports' probes the link may lose, and which ports come and go; `Swept` are the
ports up to `kMaxLldpProbe`. Ports change only after the first sweep: the simulation builds them before it starts.

**Energy.** One unit of energy, traffic and power is what one statistics interval spends. `HandlePortStatsReply` is the
handler with the `ComputeSwitchObservations` that ends it: rate, charge, observation and death in one step. `MlTick`
freezes `nonSleepable` at the first tick, from whatever cables are discovered by then, and sets the labels.
`CutVertices` states what Tarjan's search returns. `quiet` is a history variable that counts idle ticks without the
exemptions, `load` the traffic the environment offers. The idle counters stop at `SleepTicks`, beyond which the code
does not tell values apart.

**FedAvg.** Files are written aside and renamed, so a file is a round number in a set. `state` and `round` are the
training thread and `_fedavg_round` of a worker, `adopted` and `lost` are history variables. `Return` is the unconditional
increment that ends every way through `_do_fedavg_round`. The aggregator's main loop is cut at every file
operation, so that a crash may fall between publishing and each removal. Time is abstracted to "a timeout may
strike while its condition holds": the aggregator's needs one file, and the scan it acts on may be older than the
last file. `RoundsOver` only marks that the bound has been reached.

**MlBridge.** Observations are numbered across all simulations that one service sees, `first` being the last one
before the current simulation; an action is the number of the observation it was computed from and 0 the zero
action, a reward the action it was earned with. `SendHello` to `Timeout` are `MlTick` cut where it blocks on the
socket; `TakeRequest` to `Answer` are the main thread of the service, `TakeItem` to `LogMetrics` the worker thread,
each cut where the other thread can see a difference. `Send` is the relaxed REQ socket: a request may join or
replace an unanswered one, or be lost; `Expected` is its correlation. The worker looks up the agent at every step,
and a missing one raises an exception that ends the thread (`Gone`). An agent that fails to be built (`AgentFails`)
and a restart of the service are actions. A hello resets neither `queue` nor `prev`, as in the code. `cached` is
a history variable. A federation round is a worker that takes its time after `LogMetrics`.

**Checkpoint.** `save_checkpoint` is cut at `Open`, `Write` and `Replace` of each of its two files, first the weights and then
the replay buffer, and either thread may be anywhere in it: `_on_sigterm` raises in the main thread only, and the shutdown
save neither stops nor waits for the worker. `path` and `tmp` are the disk and outlive the process. An open file that the other
thread renames goes on being written where it is now; a file opened twice is `mixed`; a rename that finds nothing is
the exception that ends the save. `agent` is the number of training steps in the weights, `held` what the worker is still
saving of an agent that a hello has replaced meanwhile; `taken` counts items, which need not train. `NewAgent` makes
the fresh agent current before `LoadWeights`, as in the code. `mishaps` is a history variable that names what the
properties exempt: a hello without `resume` (`fresh`), a resume met by the worker or a signal (`raced`), two saves at
once (`collided`), a save that failed (`failed`). A second signal during the shutdown save is a `Kill`. Partial resets of the
actor, models adopted from the federation and the format of a blob are not told apart.

**Reward.** The variables are the inputs of `ComputeMlReward`, each action is what one event does to them: rates of a port and
packets at the host ports (`HandlePortStatsReply`), a battery that drains and the death it may bring
(`ComputeSwitchObservations`), a battery that a stress event empties and that only the next statistics reply finds dead
(`ForceDeplete`, as in `Energy`), new labels (`UpdateSleepStates`), the churn of the last action (`ApplyDeltaCosts`). When
these happen and what else they do is in `Energy` and `Lever`, so here they come in any order. The nine terms are operators
named for them, over `Frac`, the clamped quotient all of them go through; `Gated` and `Additive` are the two ways of
combining them. Arithmetic is in thousandths (`One`), rounded down; the root in `Deviation` is rounded to a hundredth. Weights are
those of the presets and the defaults of `MlConfig`; delays have a base of one millisecond. Only the source end of an entry
of the frozen order counts for utilisation, footprint and reserve, as in the code. At the floor itself the rounded hinge is one thousandth
short of `One`, so `BarrierBinds` speaks of batteries below it.

**StressEvents.** `GrayFail`, `Outage`, `Kill`, `BlackHole` and `Flap` are the sets of event lists that the corresponding parts of
`Schedule` may draw, `Drawn` being the ends (and the middle) of what a generator may return; `Init` picks one of each, as
`Schedule` runs before the simulator does. Times are per cent of the measurement window, whose length in seconds is
drawn from `Windows`: black holes and flaps last for seconds, everything else for a share of the window. `Fire` takes the earliest event, among events of the same
time the one scheduled first. A device has one error rate, which every event overwrites, and a link restores the
`normalRate` it was built with (`Loss`). `drawn` is a history variable: the links of the outage and the flaps, when the outage ends, when the black hole begins and ends. The run ends at the end of the window, so whatever is
scheduled for later never happens. The flash crowd starts applications and touches no device.

## 3. Runs

Passing runs:

| Run | Instance | Shows |
|---|---|---|
| `topology_cache` | triangle, base cost 3 and a delta of -4, which with scale 1 and without a scale makes a cost of less than zero, negative congestion, a direct cost, blocked sets {}, {2}, {2,3} | `CacheCoherent`, `FirstHopsConverge` |
| `lever` | line of 3 with two cables between 1 and 2, whose speed is known, base costs 1 and 2, actions of -1 and 1 per link | `LeverTypeOK`, `LeverInForce`, `DeltasBalance`, `ChurnWithinSwing`, `LinksSymmetric`, `GraphMatchesLinks`, `RoutingOverCables` |
| `controller_triangle` | triangle, one host, switch 2 mortal, ports 11 and 22 flap, seeding | `SoleOutPortAlive`, `LoopFree`, `FlowsLeadHome`, `TreeAvoidsDead`, `SettledFloodLoopFree`, `FloodRestored` |
| `discovery` | line of 3, one cable lossy one way, the other's ports come and go twice, fair sweep | `OneEndThere`, `DiscoveryComplete` |
| `energy` | line of 3, batteries of 2 and 3 units, a host switch, a stress target, threshold of 2 ticks, fair replies and ticks | `SleepersRested`, `ReportConsistent`, `EmptyDies`, `HostSwitchesRunDown`, `QuietSleeps` |
| `fedavg_rounds` | 2 workers, 2 rounds, a crash of each process, bad files, clean-up, fair aggregator | `LogSpec`, `NoOrphanRound`, `AggregatorKeepsUp` |
| `ml_bridge` | 3 observations by up to three simulations, one restart, failing agents, fair service | `TransitionsForward`, `NeverBackwards`, `RepliesFresh`, `QueueDrains` |
| `checkpoint` | a save every 2 items, agents of up to 3 training steps, kills, signals and failing saves at any step | `CheckpointWhole`, `LossBounded`, `ProgressKept` |
| `reward` | line of 3, batteries of 13 and 9 units on two switches, a host switch that never sleeps, stress events on either battery, idle or overloaded ports, churn of 0 or a half, all presets | `AnalyticBounds`, `BarrierBinds`, `SleepPays`, `WeakDrainCosts` |
| `stress` | 3 failure links, two of them at the switch that goes dark, one lossy by itself, low and high end of every draw, windows of 54 and 200 s, fair simulator | `EveryFaultEnds`, `LinksStayHit`, `StaysDark`, `LinksRecover` |

The bounds are small but reach the interesting cases: a triangle is the least network with a redundant link and
a loop, two parallel cables the least where removing one and both of them differ, a line of three the least
with a cut vertex. The cost layers of `Topology` in `topology_cache` have few values, enough to get to the clamp, as their arithmetic is proved; `lever` has those that
actions make of them. Two deletions let a cable go, come back and go again while probes of its former self are under way.
Batteries last two and three intervals, as long as the threshold of the labels, so that a switch may die before, at
and after it is labelled. Two rounds and two workers are enough for a worker to be a round behind, for a round to be
dropped before one that is published, and for a restart below a dropped round. Three observations let a reply be
two observations late and the worker's queue hold two items behind the one in hand. Three training steps with a save
every two leave a tail behind a checkpoint and let agents overtake it. The counters that are bounded
are rounds (`MaxRound`), crashes (`MaxCrashes`), observations (`MaxObs`), restarts of the service (`MaxRestarts`), deletions of
ports (`MaxFlaps`), idle ticks (`SleepTicks`) and training steps (`MaxSteps`);
everything else is finite by itself. In `reward` a battery goes down by three units at a time, through the threshold, the floor below which the
barrier binds (`BarrierBinds`) and to zero, or to zero at once, and the draw may exceed `power_ref_w`. In `stress` three failure links are the least for an outage, and
the draws make any two crises meet on a link; the ends of the draws are enough, as what matters is the order of the events, and the extremes of their
distances decide it. A window of 54 s is the default of a single run (60 s, less the start and the warm-up): there a late black hole outlasts
the run. One of 200 s, on the way to those of the drivers (600 and 700 s), is long enough for a black hole to end before an outage does. Deadlock is checked in every run but `stress`, where a run of the
simulator ends. Types are proved, and no run but `lever` checks them again: the type invariants
`TypeOK` are in the modules for the proofs.

Runs in which TLC finds a documented statement violated (details and quotations under `findings`):

| Run | What the code does |
|---|---|
| `controller_dead` | a cut vertex that dies keeps transiting the flows that have no other route |
| `reward_death` | the death of the weakest switch lifts the barrier that its low battery had put on the reward |

The passing counterpart of the second is what does hold of that barrier: it binds while the switch lives (`BarrierBinds`) and draining the
weakest living switch never pays (`WeakDrainCosts`). That of the first is `TreeAvoidsDead`: floods do avoid the dead switch.

More was seen while modelling that no run is spent on:

* A switch that connects after the first sweep is never joined to the network: the first link makes both ends of its cable count as
  host-facing, and no later sweep probes either (`zmq-openflow-controller.cc:1099`), so the "5 s until topology is complete, then back off to
  30 s" of line 1114 describes sweeps that send nothing new. `Discovery` reaches it with `Late` switches; the run has every switch up before the
  first sweep.
* The worker stores a reward with the action it computed from the previous observation (`ml_service.py:756`), while the links carried
  the action that was cached when that observation was answered, an earlier one. `TransitionsForward` says what holds: the reward comes from
  an older action, never a newer one.
* `RemoveAdjacency` returns early while another parallel cable joins the pair, so `GetOutPort` may go on answering
  with the port that was removed. `SoleOutPortAlive` is the part that holds, for pairs with a single cable.
* Before discovery a flood group holds every port, links included: three groups installed on `PORT_DESC` suffice for
  a broadcast to circulate on a triangle. `SettledFloodLoopFree` says when this is over, for the broadcasts of hosts that are attached:
  a group without buckets is never sent, so a switch without a host that falls out of the tree keeps its old buckets, and
  two such switches with two cables between them may hold a loop that no host's broadcast can enter (a line of five switches, the last
  two joined by a second cable that is discovered late, the host at the first, whose link was deleted before).
* `ComputeSpanningTree` starts at the least switch that is alive and has a link, and covers what is connected to it, no more
  (`topology.cc:490`). On a line 1, 2, 3, 4 the death of 2 leaves 1 alone with an entry for its link: the tree is empty, and 3 and 4, alive and
  adjacent, get no more of each other's broadcasts, although the tree is "rebuilt" (`zmq-openflow-controller.cc:1178` speaks of a "full
  network-wide flood"). `FloodRestored` speaks of the part that has the tree (`TreePart`).
* `AddLink` writes the bare base cost over a composed one; within the class that breaks "effective cost = base * (1 +
  congestion) * (1 + ml_delta)" (`topology.h:32`), which is why the theorem is about `CostsComposedOrBase`, but the
  controller follows `AddLink` by `SetLinkBaseCost`, which recomposes, whenever it knows the capacity (`LeverInForce`).
* Two cables between the same switches are two entries of the frozen order and share one delta, so the second value of an action
  overwrites the first and the deltas no longer balance; the churn then counts every overwriting, and may exceed the swing it is
  normalised by. `DeltasBalance` and `ChurnWithinSwing` speak of orders with one link per pair.
* `OFPPR_DELETE` refreshes one flood group and does not rebuild the spanning tree: a deleted tree port cuts the flood
  of a network that is still connected until some port is rediscovered, which is why `FloodRestored` asks for all ports.
* A port added before the first sweep is probed at once, and the link it may bring makes the first sweep skip every
  port that is already known. `Discovery` lets ports change after the first sweep only.
* The label of a sleeper exempts from the idle charge only: forwarding is charged whatever the label, although the comment
  above the charge (`zmq-openflow-controller.cc:1057`) says a slept switch drains neither. A label is as old as the last tick.
* `ComputeMlReward` skips "dead nodes" by testing the initial energy (`zmq-openflow-controller.cc:1746`), which skips
  switches without a battery: the idle power of a dead switch stays in the power term.
* The weakest switch is looked for among the living only, but the balance term counts dead batteries as empty ones, so the same death that
  lifts the barrier raises the balance penalty for good. `m_lastChurnNorm` stays what it was when a reply times out, so one swing is
  charged at every tick until the next action arrives.
* The end of a black hole sets the error rate of all ports of its switch to zero, not to the `normalRate` of their links: a lossy link loses
  less afterwards than before (`LinksRecover` says 0 for these ports, or what their link loses by itself where an outage ended later).
* The end of an outage restores both ends of its links, also where one of them belongs to a switch that is dark: that port is lit early
  (`StaysDark` names the case, for outages that end after the black hole began). A flap's `BringUp` ends a gray failure or an outage of the same link early, which is why `LinksStayHit` leaves out the link drawn for the flaps;
  in windows above some 133 s the end of a black hole may cut short
  an outage too, although the header has the two apart (`scenario_stress.h:54`), and in windows below some 70 s a late black hole outlasts the run.
* The flash crowd sends to port 21, where only a mixed load with a class on that port listens; with a single host its choice of a source, like
  that of a destination in `scenario_traffic.cc`, never ends.
* `FilterTopoSpecBySection` (`scenario_topo.cc`) copies neither the default targets of the crises nor `defaultPowerRefW`.
* A deleted host port erases the host's location and leaves its flows, which no later recomputation visits.
* `PreInstallAllPaths` asks `GetOutPort`, which answers for adjacent switches only, so switches two hops from a host
  get no flow until the first packet-in.
* A hello keeps the previous observation and the queue. With several simulations on one service the first
  transition of each starts in the one before, and the backlog may replace the seeded zeros before the first reply,
  so "zeros on the very first tick" (`ml_service.py:8`) is true of the first simulation only.
* The hello is sent once. After a lost hello or a restart of the service every observation is dropped for want of
  an agent until the next simulation. A hello whose agent cannot be built, met by a worker in the middle of an
  item, ends the worker thread for good.
* The shutdown save may meet a periodic save of the worker, which writes the same temporary files: a broken checkpoint, or
  none of the latest, can be the result, whatever the comment above the handler says (`ml_service.py:708`). `CheckpointWhole`
  and `ProgressKept` name the case and hold in all others.
* A signal during a hello that resumes saves whichever agent is current, the fresh one included, over the checkpoint; so
  does a worker that still has a backlog of the previous simulation (`ml_service.py:994`).
* A hello does not save the agent that it replaces: what it learned since its last periodic save is gone.
* A worker that hits the wait timeout moves on by one round (`ml_service.py:803` has it stay "in lockstep with the
  aggregator"), and that round may be one the aggregator has dropped as well; how far behind it stays takes clocks.

**Fairness.** Five specifications assume some. `StressFairSpec`: the simulator gets to the next event until it stops. `FairSpec` of `Discovery`: every switch connects, answers and keeps its
position in the simulator's event queue, the sweep schedules itself, and a probe that is not lost arrives; nothing is
assumed of losses and port changes. `FairSpec` of `Energy`: `TriggerStats` asks every switch in every interval and
`MlTick` schedules itself; nothing is assumed of traffic or stress events. `FairSpec` of `MlBridge`: weak fairness of either thread of the
service, both loops without a wait that lasts for ever (the REP socket replies at once, the worker polls its queue,
federation has a timeout); none of the controller, whose simulation may end at any tick.
`FedFairSpec`: weak fairness of the aggregator's own steps. Its main loop
polls every half second without ever blocking for good and its timeout is finite, and it is started again after a
crash. Nothing is assumed of the workers: `AggregatorKeepsUp` speaks only of rounds that a live worker has
passed. All other properties are safety.

## 4. Proofs

All theorems hold for every value of the constants under the assumptions of the modules (`CableAssumption`,
`CostAssumption`, `LeverAssumption`, `ControllerAssumption`, `DiscoveryAssumption`, `EnergyAssumption`, `BridgeAssumption`, `CheckpointAssumption`, `FedAvgAssumption`, `RewardAssumption`, `StressAssumption`), which say no more than what the constants are.

* **LinkMapProofs.** `LinkInv` (types, symmetry, adjacency, out ports) is inductive as it stands; its four parts
  need each other, since an erased link is found again through its other end. `OutPortsAlive` follows for pairs
  joined by one cable: the live link that makes the pair adjacent must then be the one its out port names. `OutPortsAlwaysPaired`
  says what is left of that with parallel cables: the out ports of a pair may be those of a link that is gone, but they are always the two ends of
  one cable. The spanning tree rests on it.
* **OperatorProofs.** The lemmas about data, by induction in first-order form: a property that fails for some size of a set fails for a least one
  (`LeastNat`, from the well-foundedness of `<`), so what holds of `{}` and of every set with one more element holds of all
  finite sets (`SubsetInduction`). From that: `SumOver` is well defined, monotone and linear; `Ball(g, S, s, n)` is what n steps reach
  and `Reach` is closed (`ReachClosed`) and exactly what routes get to (`RouteReaches`, `ReachHasRoute`); what is left of a route
  is a route of smaller cost (`RestOfRoute`); every member of a tree of `BreadthFirstTrees` has a depth, one more than its parent's
  (`TreeDepth`), and the tree finds all that can be reached (`TreeFinds`).
* **TopologyProofs.** `TopologyImplementsLinkMap` carries the link theorems over. `CostsAlwaysPositive` strengthens
  the property to "whoever has a cost has a positive one, and every edge has a cost". `CostsAlwaysLayered` assumes `DirectCosts = {}`:
  `SetLinkCost` and `ResetLinkCosts` are public but the controller calls neither; the layers then compose to the cost, or the last
  discovery has just written the base. `CacheAlwaysCoherent` goes
  through the fact that whatever changes the inputs of `Answers` empties the cache. `FirstHopsAlwaysConverge` needs no cache: the rest of a
  cheapest route is a route of the next switch and so not cheaper than that switch's cheapest, costs are positive, so the cost to the
  destination falls along first hops and these reach it; that the tables `Controller` recomputes from have no cycle is
  thereby true of the `Topology` it calls. The theorems about `Lever` (`LeverTypes`, `LeverImplementsLinkMap`, `LeverAlwaysInForce`, `DeltasAlwaysBalance`,
  `ChurnAlwaysWithinSwing`) rest on `LeverInv`: beside the invariants of `Topology` it says that the order has no more entries than there are cables, and
  that the deltas in force are the deviations of some action's values from their mean (`LastAction`); a sum of deviations is
  zero, the remainder of the division included, and two deviations of values between -1 and 1 are never further apart than `MaxSwing`.
* **ControllerProofs.** `ControllerImplementsLinkMap` as above. The flow theorems rest on `ForwardingInv`: the link
  invariant, only connected switches have links, hosts are located at their own ports, and for each destination
  the flows form no cycle, lead to switches with a flow, and at the host's switch are the host's port. The last is
  what is needed for induction: a path installed over stale flows ends at the host's switch, so a cycle would
  have to run inside the path, which visits no switch twice, or inside the old flows. Both theorems assume
  `Early = FALSE`: with early frames a host may be located inside the fabric for a while (`HostsOffLinks` bounds for
  how long, and is proved without that assumption as `HostsNeverOnLinks`; no run checks it, as without early frames it says little).
  `TreeAlwaysAvoidsDead` needs no assumption either: a tree is rebuilt in the step in which a switch dies, `BreadthFirstTrees` grows
  through switches that are not blocked, and no step but a rebuilding writes the tree (`TreeBuilt`). `ControllerTypes` adds the types of what
  the flow theorems leave alone (ports, groups, tree; `RestStep`) to those in `ForwardingInv`, under the same assumption.
  `FloodsNeverCirculate` and `BroadcastAlwaysRestored` hold with and without early frames. Their invariant `FloodInv` says of every
  connected switch that has answered that of the discovered link ports its group holds tree ports only, or that it has neither host nor tree
  port, and then what it holds may be old (`GroupsFresh`); that the ports of the tree come in pairs, one of them the way to the parent, and depth falls along it
  (`TreeShape`); and that the tree spans the part it was built for (`TreeSpans`). A set of link ports that keeps feeding itself
  would have to turn round at its deepest port, where the only way back is the port the frame came in on (`NoLoopInTree`), or
  to go through an old group, which no host's broadcast gets to (`FloodedFresh`). A broadcast arrives because every switch of the part is
  tied to the root by tree ports, which are buckets of both ends (`BroadcastArrives`).
* **FaultProofs.** For `Discovery`, `DiscoveryInv` is the link invariant, the types and `OneEndThere` together: a probe adds a link only
  where its far end is there, and a deletion erases the link at both ends (`LinksSymmetric`), so the last end to go
  takes it along. What the sweep skips does not matter for this. For `StressEvents`, `StressInv` says of the events that are still to come what
  `Schedule` made sure of when it drew them: times lie where the draws put them (`Timely`), every fault is followed by the event that restores the same
  devices (`Followed`), outages and black holes are at the links and times kept in `drawn` (`EventsAsDrawn`), no crisis schedules the same thing twice (`Once`), none is cut in the middle (`Whole`), and of two crises that
  follow each other the later is whole while the earlier has events to come (`InTurn`). Once the black hole has begun nothing earlier is to come (`HoleBegan`), so an outage that lights one of its ports ends after that. `EveryFaultEnds` is strengthened to
  "whatever is faulty has an event to come that restores it" (`FaultsEnd`), for the run may end at any event. The
  three theorems hold for any number of links and windows of any length.
* **EnergyProofs.** `EnergyInv` adds to the properties that a dead switch has an empty battery and was reported so, that the
  counter behind a label never runs ahead of the idle ticks, and that hosts are known before the first label. Who is
  busy and who is a cut vertex stays opaque. An empty battery stays empty (`DrainedInRange`), which keeps reports of
  dead switches right for ever.
* **MlBridgeProofs.** `BridgeInv` sees the requests under way as one line, from the worker's item through the queue and
  the main thread back to the inbox, in the order the observations were made (`LineInOrder`). Every action known
  anywhere (cache, links, replies, rewards in the line) was computed from an observation that has left the line, so
  it is older than all that are in it, and not newer than the worker's previous state (`KnownBeforePending`): that
  gives `LearningInOrder`, restarts included, since a restart empties the line. A hello puts an older action into the
  cache; `HelloAhead` says that it is ahead of all observations of its simulation, so nothing of that simulation has
  been answered by then, and within one simulation the cache and the answers only grow (`AnswersGrow`,
  `CacheFresh`): that gives `LinksNeverGoBack` and `RepliesAlwaysFresh`.
  For `Reward`, `RewardTypes` keeps batteries between empty and full and says that whoever is dead has an empty one; the converse is false between a
  `ForceDeplete` and the next reply. Each term is shown to be a share of `One` for any network (`TrafficIn` to `MinResidualIn`), by lemmas about sums: the reserve is a mean weighted by
  what switches send, and these weights add up, class by class, to what is sent along all links (`SumOfClasses`); the balance takes a root that
  exists because the square of a sum is at most as many times the sum of the squares (`SquareOfSum`, `RootExists`). `RewardAlwaysWithinBounds`
  and `BarrierAlwaysBinds` follow by linear arithmetic over the weights in `SetMlConfig`. `SleepingNeverCosts` is the part of `SleepPays`
  that survives rounding: labels are read for the power alone (`LabelsAlone`), and fewer switches draw no more.
* **FederationProofs.** For `Checkpoint`, `Inv` adds to the types that a thread away from its resting place has an agent, and `Sound`: while no
  two saves have met, files in place are whole, no temporary file is mixed, a thread past `Open` has its temporary file, one
  before `Replace` a whole one, and the other thread has none. A collision leaves a mark that is never forgotten
  (`NextKeeps`), so `Sound` is only asked for without it. `ProgressAlwaysKept` needs more (`Kept`): an agent is never behind what is on disk,
  and neither is a file that a save has opened or written, unless a mishap said otherwise; so what `Replace` puts in place has at least as many steps.
  `LossAlwaysBounded` bounds the distance by counting (`Slack`): training steps that are not on disk are no more than the items taken
  since the last save came due, but for the time between a full count and the end of that save, when they are no more than `Every`.
  For `FedAvg`, `FedAvgInv` adds to the types that the aggregator works beyond every published round
  and so does every live worker beyond the round it adopted. It implies step by step that `Publish` and `LoadGlobal`
  are steps of `FederationLog` and everything else stutters (`FedAvgImplementsLog`). For `NoRoundIsOrphaned`
  `FilesKept` is added: a live worker has left a file for every round it passed that may still be published and
  that is not in `lost`. The history variable `lost` collects the rounds in which a save failed; in such a round
  the aggregator may really wait for ever, when every worker fails or has moved on.

Only model-checked: liveness under fairness (`AggregatorKeepsUp`, `QueueDrains`, `DiscoveryComplete`, `EmptyDies`,
`HostSwitchesRunDown`, `QuietSleeps`, `LinksRecover`), which is out of the prover's reach; `SleepPays`
and `WeakDrainCosts`, which say "more" and "less": for large constants a gain may vanish in the rounding to thousandths, so the model
does not have them for all constants. Proved and in no run:
`CostsPositive`, `HostsOffLinks`, `RoutingPaired`, `SleepNeverCosts`, the type invariants but `LeverTypeOK`, and the layers of `CostsComposedOrBase`.

## 5. Not modelled, and the plan

Left out for good: neural networks and their arithmetic, JSON and CSV output, the visualizer, message encoding, the
numbers of scenarios. `PROJECT.json` gives the reason for each.

Not modelled, with the reason:

* `TriggerEcho`, `HandleEchoReply`: a reply that comes after the next request is attributed to it, so that the round-trip time is too
  small. The number it corrects is a base cost, and base costs are inputs of `Topology` already; what remains is arithmetic over
  clocks that no other decision depends on.
* `HandleQueueStatsReply` and the weighting of rates: it divides by the time since `prev_time_s`, which the port statistics of the same sweep have just
  overwritten; the result is logged and exported only.
* Several controllers (`scenario_multictrl.cc`, `InstallExternalHostRoutes`): a static partition. Each controller builds the tree of
  its own section, so border links between two sections may let a broadcast circulate.
* Traffic generators, the flash crowd, CLI options, reports, the JSON text of states and payloads, the message builders:
  configuration, output and stateless encoding.
* The service without torch, its two weight commands that nobody sends, and the learning itself.

What a continuation would take up, most important first:

1. `Domains`: controllers that each see a section of the network, their border routes and the frames that cross.
2. `Echo` and the rates of statistics, with clocks and late replies.
3. Algorithms: Dijkstra, the breadth-first tree and Tarjan's articulation points step by step, against the
   definitions of `Paths`.
4. `FedAvg` with clocks: the lag of a slow worker with equal timeouts on both sides; a data-plane module with frames in
   flight over `Controller`'s tables.
