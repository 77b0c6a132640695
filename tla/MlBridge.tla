------------------------------ MODULE MlBridge ------------------------------
(***************************************************************************)
(* The exchange between the controller's MlTick, the two threads of the ML *)
(* service (src/python/controller/ml_service.py) and the ZeroMQ REQ/REP    *)
(* sockets between them.  One service outlives the simulations it serves.  *)
(*                                                                         *)
(* Observations are numbered in the order they are made.  An action stands *)
(* for the number of the observation it was computed from, 0 being the     *)
(* zero action; a reward for the action it was earned with.  Weights and   *)
(* tensors are left out, and so is the malformed state that the service    *)
(* guards against: the controller sends none.  Federation is a long step   *)
(* of the worker thread here (see FedAvg).                                 *)
(***************************************************************************)
EXTENDS Integers, Sequences

CONSTANTS MaxObs,       \* bound: observations of all simulations together
          MaxRestarts,  \* bound: restarts of the service
          AgentFails,   \* the construction of an agent may fail
          None

ASSUME BridgeAssumption ==
  /\ MaxObs \in Nat /\ MaxRestarts \in Nat
  /\ AgentFails \in BOOLEAN
  /\ None \notin Int

Obs == 1..MaxObs
Action == 0..MaxObs
Hello == [obs |-> 0, reward |-> None]
Request == {Hello} \cup [obs : Obs, reward : Action \cup {None}]

VARIABLES
  phase,    \* of MlTick: ready, greeting, greeted or observing
  obs,      \* the last observation made
  first,    \* observations made by earlier simulations
  inForce,  \* the action whose deltas are on the links
  cached,   \* history: the service's cache when the last request was sent
  inbox,    \* requests on their way to the service
  answers,  \* replies on their way back
  rep,      \* main thread: the request in hand and how far it is, or None
  told,     \* action_dim is known
  agent,    \* there is an agent
  last,     \* _last_action
  queue,    \* _req_q
  work,     \* worker thread: None, Gone or the item in hand and how far it is
  prev,     \* _prev_state and _prev_action, which come from one observation
  stored,   \* the last transition: its state, its reward and its next state
  restarts

tickVars == <<phase, obs, first, inForce, cached>>
repVars == <<rep, told>>
workVars == <<queue, work, prev, stored>>
vars == <<tickVars, inbox, answers, repVars, agent, last, workVars, restarts>>

Gone == [item |-> Hello, step |-> "gone"]
Stage(item, step) == [item |-> item, step |-> step]

Init ==
  /\ phase = "ready" /\ obs = 0 /\ first = 0 /\ inForce = 0 /\ cached = None
  /\ inbox = <<>> /\ answers = <<>>
  /\ rep = None /\ told = FALSE /\ agent = FALSE /\ last = None
  /\ queue = <<>> /\ work = None /\ prev = None /\ stored = None
  /\ restarts = 0

-----------------------------------------------------------------------------
(* The controller.  MlTick blocks while it waits for a reply, at most for   *)
(* the 200 ms of the socket options.                                        *)

\* A request may replace one that is unanswered (REQ_RELAXED), which may be
\* lost with its connection; and the send itself may time out.
Send(m) == inbox' \in {inbox, <<>>, Append(inbox, m), <<m>>}

\* MlSendHello, in the first tick of a simulation only.
SendHello ==
  /\ phase = "ready" /\ obs = first /\ obs < MaxObs
  /\ phase' = "greeting"
  /\ Send(Hello)
  /\ UNCHANGED <<obs, first, inForce, cached, answers, repVars, agent, last, workVars, restarts>>

\* Answered or not, the tick goes on.
HelloDone ==
  /\ phase = "greeting"
  /\ phase' = "greeted"
  /\ UNCHANGED <<obs, first, inForce, cached, inbox, answers, repVars, agent, last, workVars, restarts>>

\* The first observation of a simulation carries no reward.
Observe ==
  /\ phase = "greeted" \/ (phase = "ready" /\ obs > first)
  /\ obs < MaxObs
  /\ phase' = "observing" /\ obs' = obs + 1 /\ cached' = last
  /\ Send([obs |-> obs + 1, reward |-> IF obs = first THEN None ELSE inForce])
  /\ UNCHANGED <<first, inForce, answers, repVars, agent, last, workVars, restarts>>

\* Mutant of Expected: the socket is not correlated.
ExpectedAny(a) == TRUE

\* REQ_CORRELATE: replies to earlier requests are discarded.
Expected(a) == a.to = obs

\* The reply is here: ApplyDeltaCosts, unless the action is empty.
Receive ==
  /\ phase = "observing"
  /\ \E i \in DOMAIN answers :
       /\ Expected(answers[i]) /\ \A j \in 1..i - 1 : ~Expected(answers[j])
       /\ inForce' = IF answers[i].act = None THEN inForce ELSE answers[i].act
       /\ answers' = SubSeq(answers, i + 1, Len(answers))
  /\ phase' = "ready"
  /\ UNCHANGED <<obs, first, cached, inbox, repVars, agent, last, workVars, restarts>>

Timeout ==
  /\ phase = "observing"
  /\ phase' = "ready"
  /\ UNCHANGED <<obs, first, inForce, cached, inbox, answers, repVars, agent, last, workVars, restarts>>

\* The next simulation on the same service, with a socket of its own.
NewSimulation ==
  /\ phase = "ready" /\ first < obs /\ obs < MaxObs
  /\ first' = obs /\ inForce' = 0 /\ answers' = <<>>
  /\ inbox' \in {inbox, <<>>}
  /\ UNCHANGED <<phase, obs, cached, repVars, agent, last, workVars, restarts>>

-----------------------------------------------------------------------------
(* The main thread of the service: run, _process_request and its handlers.  *)

\* _process_request; nobody sends the two weight commands.
Dispatch(m) == IF m = Hello THEN "hello" ELSE "observe"

TakeRequest ==
  /\ rep = None /\ inbox # <<>>
  /\ rep' = Stage(Head(inbox), Dispatch(Head(inbox)))
  /\ inbox' = Tail(inbox)
  /\ UNCHANGED <<tickVars, answers, told, agent, last, workVars, restarts>>

\* _handle_hello builds the agent first and seeds the cache later.
NewAgent ==
  /\ rep # None /\ rep.step = "hello"
  /\ rep' = Stage(rep.item, "seed") /\ told' = TRUE /\ agent' = TRUE
  /\ UNCHANGED <<tickVars, inbox, answers, last, workVars, restarts>>

NoAgent ==
  /\ AgentFails
  /\ rep # None /\ rep.step = "hello"
  /\ rep' = None /\ told' = TRUE /\ agent' = FALSE
  /\ UNCHANGED <<tickVars, inbox, answers, last, workVars, restarts>>

SeedCache ==
  /\ rep # None /\ rep.step = "seed"
  /\ last' = 0 /\ rep' = None
  /\ UNCHANGED <<tickVars, inbox, answers, told, agent, workVars, restarts>>

\* _handle_observe: hand the observation to the worker ...
Enqueue ==
  /\ rep # None /\ rep.step = "observe"
  /\ queue' = Append(queue, rep.item) /\ rep' = Stage(rep.item, "answer")
  /\ UNCHANGED <<tickVars, inbox, answers, told, agent, last, work, prev, stored, restarts>>

\* ... and answer with what is in the cache: zeros if it was never seeded, no
\* numbers at all if the number of links is unknown.
Answer ==
  /\ rep # None /\ rep.step = "answer"
  /\ answers' = Append(answers,
       [to |-> rep.item.obs,
        act |-> IF last = None THEN IF told THEN 0 ELSE None ELSE last])
  /\ rep' = None
  /\ UNCHANGED <<tickVars, inbox, told, agent, last, workVars, restarts>>

-----------------------------------------------------------------------------
(* The worker thread: _worker_loop.  It looks up self.agent at every step,  *)
(* and an exception ends the thread.                                        *)

\* Mutant of TakeItem: the newest observation first.
TakeNewest ==
  /\ work = None /\ queue # <<>>
  /\ work' = IF agent THEN Stage(queue[Len(queue)], "store") ELSE None
  /\ queue' = SubSeq(queue, 1, Len(queue) - 1)
  /\ UNCHANGED <<tickVars, inbox, answers, repVars, agent, last, prev, stored, restarts>>

\* queue.Queue is first in, first out.  Without an agent the item is dropped.
TakeItem ==
  /\ work = None /\ queue # <<>>
  /\ work' = IF agent THEN Stage(Head(queue), "store") ELSE None
  /\ queue' = Tail(queue)
  /\ UNCHANGED <<tickVars, inbox, answers, repVars, agent, last, prev, stored, restarts>>

\* Mutant of Store: nothing is done before there is a prior action.
StoreOnly ==
  /\ work # None /\ work.step = "store"
  /\ work' = IF ~agent THEN Gone ELSE IF prev = None THEN None ELSE Stage(work.item, "act")
  /\ stored' = IF prev = None \/ ~agent THEN stored
               ELSE [s |-> prev, r |-> work.item.reward, next |-> work.item.obs]
  /\ UNCHANGED <<tickVars, inbox, answers, repVars, agent, last, queue, prev, restarts>>

\* agent.push of a transition, if there is a prior action, and train_step.
Store ==
  /\ work # None /\ work.step = "store"
  /\ work' = IF agent THEN Stage(work.item, "act") ELSE Gone
  /\ stored' = IF prev = None \/ ~agent THEN stored
               ELSE [s |-> prev, r |-> work.item.reward, next |-> work.item.obs]
  /\ UNCHANGED <<tickVars, inbox, answers, repVars, agent, last, queue, prev, restarts>>

\* agent.act, then the cache is written under the lock.
Act ==
  /\ work # None /\ work.step = "act"
  /\ IF agent
     THEN last' = work.item.obs /\ prev' = work.item.obs /\ work' = Stage(work.item, "log")
     ELSE work' = Gone /\ UNCHANGED <<last, prev>>
  /\ UNCHANGED <<tickVars, inbox, answers, repVars, agent, queue, stored, restarts>>

\* The metrics need the agent once more; checkpoint and federation round follow.
LogMetrics ==
  /\ work # None /\ work.step = "log"
  /\ work' = IF agent THEN None ELSE Gone
  /\ UNCHANGED <<tickVars, inbox, answers, repVars, agent, last, queue, prev, stored, restarts>>

\* The service is killed and started again: it knows nothing any more.
Restart ==
  /\ restarts < MaxRestarts
  /\ restarts' = restarts + 1
  /\ inbox' = <<>> /\ rep' = None /\ told' = FALSE /\ agent' = FALSE
  /\ last' = None /\ queue' = <<>> /\ work' = None /\ prev' = None /\ stored' = None
  /\ UNCHANGED <<tickVars, answers>>

Controller == SendHello \/ HelloDone \/ Observe \/ Receive \/ Timeout \/ NewSimulation
Service == TakeRequest \/ NewAgent \/ NoAgent \/ SeedCache \/ Enqueue \/ Answer
Worker == TakeItem \/ Store \/ Act \/ LogMetrics

\* The bound: no observation is left to be made.
Over == phase = "ready" /\ obs = MaxObs /\ UNCHANGED vars

Next == Controller \/ Service \/ Worker \/ Restart \/ Over

Spec == Init /\ [][Next]_vars

\* Both threads are loops that nothing blocks for good.
FairSpec == Spec /\ WF_vars(Service) /\ WF_vars(Worker)

-----------------------------------------------------------------------------
TypeOK ==
  /\ phase \in {"ready", "greeting", "greeted", "observing"}
  /\ obs \in Action /\ first \in 0..obs
  /\ inForce \in 0..obs /\ cached \in Action \cup {None}
  /\ inbox \in Seq(Request)
  /\ answers \in Seq([to : 1..obs, act : 0..obs \cup {None}])
  /\ rep \in {None} \cup [item : {Hello}, step : {"hello", "seed"}]
            \cup [item : Request \ {Hello}, step : {"observe", "answer"}]
  /\ told \in BOOLEAN /\ agent \in BOOLEAN
  /\ last \in 0..obs \cup {None}
  /\ queue \in Seq(Request \ {Hello})
  /\ work \in {None, Gone} \cup [item : Request \ {Hello}, step : {"store", "act", "log"}]
  /\ prev \in 1..obs \cup {None}
  /\ stored \in {None} \cup [s : Obs, r : Action \cup {None}, next : Obs]
  /\ restarts \in 0..MaxRestarts

(* A stored transition goes forward, and its reward was not earned with an   *)
(* action computed after its own: however far the worker is behind, what it *)
(* learns from is in the order it was seen.                                  *)
TransitionsForward ==
  stored # None =>
    /\ stored.s < stored.next
    /\ stored.r # None => stored.r <= stored.s

(* Within a simulation the links never go back to the action of an older     *)
(* observation, whatever requests and replies are lost or late.              *)
NeverBackwards == [][first' = first => inForce' >= inForce]_vars

(* The reply to an observation is at least as new as the cache was when the  *)
(* observation was sent: a late reply to an earlier one is not taken for it.  *)
RepliesFresh ==
  [][phase = "observing" /\ inForce' # inForce /\ cached # None /\ cached > first
     => inForce' >= cached]_vars

InQueue(n) == \E i \in DOMAIN queue : queue[i].obs = n

(* Every observation that was queued is acted on, however many are before it, *)
(* unless the service has lost its agent or its worker.                       *)
QueueDrains ==
  \A n \in Obs : InQueue(n) ~> \/ (prev # None /\ prev >= n)
                               \/ ~agent \/ work = Gone
=============================================================================
