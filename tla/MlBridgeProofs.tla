--------------------------- MODULE MlBridgeProofs ---------------------------
(***************************************************************************)
(* Proofs of the safety properties of MlBridge and of Reward, the exchange *)
(* with the agent and the number it learns from.                           *)
(*                                                                         *)
(* BridgeInv is inductive: the requests under way form a line, from the    *)
(* worker's item back to the inbox, in the order they were made            *)
(* (LineInOrder); whatever action is known anywhere was computed from an   *)
(* observation that has left the line (KnownBeforePending), so the next    *)
(* action is newer than all of them; and a hello, which puts an older      *)
(* action into the cache, is ahead of every observation of its simulation  *)
(* (HelloAhead).                                                           *)
(*                                                                         *)
(* The terms of the reward are shares of One whatever the network; the     *)
(* lemmas named after them say why.                                        *)
(***************************************************************************)
EXTENDS MlBridge, Reward, OperatorProofs

\* Places in the line.
Asked(m) == rep # None /\ rep.step = "observe" /\ m = rep.item
Worked(m) == work # None /\ work.step \in {"store", "act"} /\ m = work.item
Waits(m) == \E i \in 1..Len(inbox) : m = inbox[i]
Queued(m) == \E i \in 1..Len(queue) : m = queue[i]
Pending(m) == m \in Request \ {Hello} /\ (Asked(m) \/ Worked(m) \/ Waits(m) \/ Queued(m))

Answered(a) == \E i \in 1..Len(answers) : a = answers[i].act
Known(a) ==
  a \in Int /\ (a = inForce \/ a = last \/ Answered(a) \/ \E m \in Request : Pending(m) /\ a = m.reward)

\* The line is in order.
InboxInOrder ==
  \A i, j \in 1..Len(inbox) : i < j /\ inbox[j] # Hello => inbox[i].obs < inbox[j].obs
QueueInOrder == \A i, j \in 1..Len(queue) : i < j => queue[i].obs < queue[j].obs
PlacesInOrder ==
  \A m, n \in Request \ {Hello} :
    \/ Asked(m) /\ Waits(n)
    \/ Queued(m) /\ (Asked(n) \/ Waits(n))
    \/ Worked(m) /\ (Queued(n) \/ Asked(n) \/ Waits(n))
    => m.obs < n.obs
LineInOrder ==
  /\ InboxInOrder /\ QueueInOrder /\ PlacesInOrder
  /\ \A m \in Request : Pending(m) => m.obs <= obs

\* Every known action is older than every pending observation, and not newer
\* than the previous state of the worker.
KnownBeforePending ==
  /\ \A m \in Request : Pending(m) => \A a \in Int : Known(a) => a < m.obs
  /\ prev # None => /\ \A a \in Int : Known(a) => a <= prev
                    /\ \A m \in Request : Pending(m) => prev < m.obs

\* A hello is under way.
Greeting == Waits(Hello) \/ (rep # None /\ rep.item = Hello)

\* Until it is dealt with, no observation of its simulation is.
NothingOfThisSimulation ==
  /\ inForce = 0
  /\ \A i \in 1..Len(answers) : answers[i].to <= first
  /\ rep # None => rep.item.obs <= first
  /\ \A i \in 1..Len(queue) : queue[i].obs <= first
  /\ work # None => work.item.obs <= first
  /\ last # None => last <= first
HelloAhead ==
  /\ Greeting => NothingOfThisSimulation
  /\ \A i, j \in 1..Len(inbox) : i < j /\ inbox[j] = Hello => inbox[i].obs <= first

\* What is in hand was observed, and where in a simulation a tick can be.
Dates ==
  /\ rep # None => rep.item.obs <= obs
  /\ work # None => work.item.obs <= obs
  /\ obs = first => inForce = 0
  /\ phase \in {"greeting", "greeted"} => obs = first
  /\ phase = "observing" => obs > first
  /\ agent => told

\* An answer to an observation of this simulation.
Counts(i) == answers[i].to > first /\ answers[i].act # None

\* Answers of one simulation grow, up to what is in the cache.
AnswersGrow ==
  /\ last # None => inForce <= last /\ \A i \in 1..Len(answers) : Counts(i) => answers[i].act <= last
  /\ last = None /\ told => inForce = 0 /\ \A i \in 1..Len(answers) : Counts(i) => answers[i].act = 0
  /\ \A i \in 1..Len(answers) : Counts(i) => inForce <= answers[i].act
  /\ \A i, j \in 1..Len(answers) : i < j /\ Counts(i) /\ Counts(j) => answers[i].act <= answers[j].act

\* An observation waits for its answer while the cache only gets newer, or is
\* lost.
CacheFresh ==
  phase = "observing" /\ cached # None /\ cached > first =>
    /\ ~Greeting
    /\ last # None => last >= cached
    /\ last = None => ~told
    /\ \A i \in 1..Len(answers) :
         answers[i].to = obs /\ answers[i].act # None => answers[i].act >= cached

BridgeInv ==
  /\ TypeOK /\ LineInOrder /\ KnownBeforePending /\ Dates
  /\ HelloAhead /\ AnswersGrow /\ CacheFresh /\ TransitionsForward

-----------------------------------------------------------------------------
(* Sequences, element by element. *)

LEMMA Taken ==
  ASSUME NEW S, NEW s \in Seq(S), s # <<>>
  PROVE  /\ 1 \in 1..Len(s) /\ Head(s) = s[1] /\ Head(s) \in S
         /\ Tail(s) \in Seq(S) /\ Len(Tail(s)) = Len(s) - 1
         /\ \A i \in 1..Len(Tail(s)) : i + 1 \in 1..Len(s) /\ Tail(s)[i] = s[i + 1]
<1>1. Len(s) \in Nat \ {0}
  BY EmptySeq
<1> QED
  BY <1>1, HeadTailProperties

LEMMA Put ==
  ASSUME NEW S, NEW s \in Seq(S), NEW e \in S
  PROVE  /\ Append(s, e) \in Seq(S) /\ Len(Append(s, e)) = Len(s) + 1
         /\ \A i \in 1..Len(Append(s, e)) :
              \/ i \in 1..Len(s) /\ Append(s, e)[i] = s[i]
              \/ i = Len(s) + 1 /\ Append(s, e)[i] = e
<1>1. Len(s) \in Nat
  OBVIOUS
<1> QED
  BY <1>1, AppendProperties

LEMMA Dropped ==
  ASSUME NEW S, NEW s \in Seq(S), NEW k \in 1..Len(s)
  PROVE  /\ SubSeq(s, k + 1, Len(s)) \in Seq(S)
         /\ \A i \in 1..Len(SubSeq(s, k + 1, Len(s))) :
              i + k \in 1..Len(s) /\ SubSeq(s, k + 1, Len(s))[i] = s[i + k]
<1>1. Len(s) \in Nat /\ \A i \in 1..Len(s) : s[i] \in S
  BY ElementOfSeq
<1>2. /\ SubSeq(s, k + 1, Len(s)) \in Seq(S)
      /\ Len(SubSeq(s, k + 1, Len(s))) = IF k + 1 <= Len(s) THEN Len(s) - (k + 1) + 1 ELSE 0
      /\ \A i \in 1..Len(s) - (k + 1) + 1 : SubSeq(s, k + 1, Len(s))[i] = s[k + 1 + i - 1]
  <2>1. k + 1 \in Int /\ Len(s) \in Int /\ \A i \in k + 1..Len(s) : s[i] \in S
    BY <1>1
  <2> QED
    BY <2>1, SubSeqProperties
<1> QED
  BY <1>1, <1>2

\* What is sent comes last, or not at all.
LEMMA Sent ==
  ASSUME NEW m \in Request, inbox \in Seq(Request), Send(m)
  PROVE  /\ inbox' \in Seq(Request)
         /\ \A j \in 1..Len(inbox') :
              \/ j \in 1..Len(inbox) /\ inbox'[j] = inbox[j]
              \/ /\ inbox'[j] = m
                 /\ \A i \in 1..Len(inbox') : i < j => i \in 1..Len(inbox) /\ inbox'[i] = inbox[i]
                 /\ \A i \in 1..Len(inbox') : i <= j
<1>1. CASE inbox' = inbox
  BY <1>1
<1>2. CASE inbox' = <<>>
  BY <1>2
<1>3. CASE inbox' = Append(inbox, m)
  BY <1>3, Put
<1>4. CASE inbox' = <<m>>
  BY <1>4
<1> QED
  BY <1>1, <1>2, <1>3, <1>4 DEF Send

LEMMA Requests ==
  /\ Hello \in Request /\ Hello.obs = 0 /\ Hello.reward = None
  /\ \A m \in Request : m.obs \in Action /\ m.reward \in Action \cup {None}
  /\ \A m \in Request \ {Hello} : m.obs \in Obs
<1>1. Hello \in Request /\ Hello.obs = 0 /\ Hello.reward = None
  BY DEF Request, Hello
<1>2. \A m \in Request \ {Hello} : m.obs \in Obs /\ m.reward \in Action \cup {None}
  BY DEF Request
<1>3. 0 \in Action /\ Obs \subseteq Action
  BY BridgeAssumption DEF Obs, Action
<1> QED
  BY <1>1, <1>2, <1>3

-----------------------------------------------------------------------------
(* Types. *)

\* The part of TypeOK that is not about sequences.
PlainTypes ==
  /\ phase \in {"ready", "greeting", "greeted", "observing"}
  /\ obs \in Action /\ first \in 0..obs
  /\ inForce \in 0..obs /\ cached \in Action \cup {None}
  /\ rep \in {None} \cup [item : {Hello}, step : {"hello", "seed"}]
            \cup [item : Request \ {Hello}, step : {"observe", "answer"}]
  /\ told \in BOOLEAN /\ agent \in BOOLEAN
  /\ last \in 0..obs \cup {None}
  /\ work \in {None, Gone} \cup [item : Request \ {Hello}, step : {"store", "act", "log"}]
  /\ prev \in 1..obs \cup {None}
  /\ stored \in {None} \cup [s : Obs, r : Action \cup {None}, next : Obs]
  /\ restarts \in 0..MaxRestarts

SequenceTypes ==
  /\ inbox \in Seq(Request)
  /\ answers \in Seq([to : 1..obs, act : 0..obs \cup {None}])
  /\ queue \in Seq(Request \ {Hello})

LEMMA TypeParts == TypeOK <=> PlainTypes /\ SequenceTypes
BY DEF TypeOK, PlainTypes, SequenceTypes

LEMMA TypesInit == Init => TypeOK
<1> SUFFICES ASSUME Init PROVE TypeOK
  OBVIOUS
<1>1. SequenceTypes
  <2>1. \A T : <<>> \in Seq(T)
    BY EmptySeq
  <2>2. inbox = <<>> /\ queue = <<>> /\ answers = <<>>
    BY DEF Init
  <2> QED
    BY <2>1, <2>2, Zenon DEF SequenceTypes
<1>2. PlainTypes
  <2>1. phase = "ready" /\ obs = 0 /\ first = 0 /\ inForce = 0 /\ restarts = 0
    BY DEF Init
  <2>2. cached = None /\ rep = None /\ last = None /\ work = None /\ prev = None /\ stored = None
    BY DEF Init
  <2>3. told = FALSE /\ agent = FALSE
    BY DEF Init
  <2>4. obs \in Action /\ first \in 0..obs /\ inForce \in 0..obs /\ restarts \in 0..MaxRestarts
    BY <2>1, BridgeAssumption DEF Action
  <2> QED
    BY <2>1, <2>2, <2>3, <2>4, Zenon DEF PlainTypes
<1> QED
  BY <1>1, <1>2, TypeParts

LEMMA TypesKept == TypeOK /\ LineInOrder /\ Dates /\ [Next]_vars => TypeOK'
<1> SUFFICES ASSUME TypeOK, LineInOrder, Dates, [Next]_vars PROVE TypeOK'
  OBVIOUS
<1> USE BridgeAssumption DEF TypeOK, Obs, Action
<1> DEFINE Reply == [to : 1..obs, act : 0..obs \cup {None}]
<1>1. CASE SendHello
  BY <1>1, Sent, Requests DEF SendHello, repVars, workVars
<1>2. CASE HelloDone
  BY <1>2 DEF HelloDone, repVars, workVars
<1>3. CASE Observe
  <2> DEFINE m == [obs |-> obs + 1, reward |-> IF obs = first THEN None ELSE inForce]
  <2>1. m \in Request /\ Send(m)
    BY <1>3 DEF Observe, Request
  <2>2. inbox' \in Seq(Request)
    BY <2>1, Sent
  <2>3. [to : 1..obs, act : 0..obs \cup {None}] \subseteq [to : 1..obs', act : 0..obs' \cup {None}]
    BY <1>3 DEF Observe
  <2> DEFINE Reply1 == [to : 1..obs', act : 0..obs' \cup {None}]
  <2>4. answers \in Seq(Reply) /\ Reply \subseteq Reply1 /\ answers' = answers
    BY <1>3, <2>3 DEF Observe
  <2> HIDE DEF Reply, Reply1
  <2>5. answers' \in Seq(Reply1)
    BY <2>4, SeqMonotonic
  <2> QED
    BY <1>3, <2>2, <2>5 DEF Observe, repVars, workVars, Reply1
<1>4. CASE Receive
  <2>1. PICK i \in 1..Len(answers) :
          /\ inForce' = IF answers[i].act = None THEN inForce ELSE answers[i].act
          /\ answers' = SubSeq(answers, i + 1, Len(answers))
    <3>1. DOMAIN answers = 1..Len(answers)
      OBVIOUS
    <3> QED
      BY <1>4, <3>1 DEF Receive
  <2>2. answers[i].act \in 0..obs \cup {None}
    <3>1. answers[i] \in Reply
      BY ElementOfSeq
    <3> QED
      BY <3>1
  <2>3. answers' \in Seq(Reply)
    BY <2>1, Dropped
  <2> QED
    BY <1>4, <2>1, <2>2, <2>3 DEF Receive, repVars, workVars
<1>5. CASE Timeout
  BY <1>5 DEF Timeout, repVars, workVars
<1>6. CASE NewSimulation
  <2>1. inbox' \in Seq(Request)
    BY <1>6, EmptySeq DEF NewSimulation
  <2>2. answers' \in Seq([to : 1..obs', act : 0..obs' \cup {None}])
    BY <1>6, EmptySeq DEF NewSimulation
  <2> QED
    BY <1>6, <2>1, <2>2 DEF NewSimulation, repVars, workVars
<1>7. CASE TakeRequest
  <2>1. Head(inbox) \in Request /\ Tail(inbox) \in Seq(Request)
    BY <1>7, Taken DEF TakeRequest
  <2> QED
    BY <1>7, <2>1 DEF TakeRequest, Dispatch, Stage, tickVars, workVars
<1>8. CASE NewAgent
  BY <1>8 DEF NewAgent, Stage, tickVars, workVars
<1>9. CASE NoAgent
  BY <1>9 DEF NoAgent, tickVars, workVars
<1>10. CASE SeedCache
  BY <1>10 DEF SeedCache, tickVars, workVars
<1>11. CASE Enqueue
  <2>1. rep.item \in Request \ {Hello}
    BY <1>11 DEF Enqueue
  <2>2. queue' \in Seq(Request \ {Hello})
    BY <1>11, <2>1, Put DEF Enqueue
  <2> QED
    BY <1>11, <2>1, <2>2 DEF Enqueue, Stage, tickVars
<1>12. CASE Answer
  <2> DEFINE a == [to |-> rep.item.obs,
                   act |-> IF last = None THEN IF told THEN 0 ELSE None ELSE last]
  <2>1. rep.item \in Request \ {Hello}
    BY <1>12 DEF Answer
  <2>2. rep.item.obs \in 1..obs
    BY <1>12, <2>1, Requests DEF Answer, Dates
  <2>3. answers' \in Seq(Reply)
    <3>1. a \in Reply /\ answers' = Append(answers, a)
      BY <1>12, <2>2 DEF Answer
    <3> QED
      BY <3>1, Put
  <2> QED
    BY <1>12, <2>3 DEF Answer, tickVars, workVars
<1>13. CASE TakeItem
  <2>1. Head(queue) \in Request \ {Hello} /\ Tail(queue) \in Seq(Request \ {Hello})
    BY <1>13, Taken DEF TakeItem
  <2> QED
    BY <1>13, <2>1 DEF TakeItem, Stage, tickVars, repVars
<1>14. CASE Store
  <2>1. work.item \in Request \ {Hello} /\ work.item.obs \in Obs
    BY <1>14, Requests DEF Store, Gone
  <2> QED
    BY <1>14, <2>1, Requests DEF Store, Stage, tickVars, repVars
<1>15. CASE Act
  <2>1. work.item \in Request \ {Hello} /\ work.item.obs \in 1..obs
    <3>1. work.item \in Request \ {Hello} /\ work.item.obs \in Obs
      BY <1>15, Requests DEF Act, Gone
    <3>2. Pending(work.item)
      BY <1>15, <3>1 DEF Act, Pending, Worked
    <3> QED
      BY <3>1, <3>2 DEF LineInOrder
  <2> QED
    BY <1>15, <2>1, Requests DEF Act, Stage, tickVars, repVars
<1>16. CASE LogMetrics
  BY <1>16 DEF LogMetrics, tickVars, repVars
<1>17. CASE Restart
  <2>1. SequenceTypes'
    <3>1. \A T : <<>> \in Seq(T)
      BY EmptySeq
    <3>2. inbox' = <<>> /\ queue' = <<>> /\ answers' = answers /\ obs' = obs
      BY <1>17 DEF Restart, tickVars
    <3> QED
      BY <3>1, <3>2, TypeParts, Zenon DEF SequenceTypes
  <2>2. PlainTypes'
    <3>1. /\ rep' = None /\ told' = FALSE /\ agent' = FALSE /\ last' = None
          /\ work' = None /\ prev' = None /\ stored' = None
          /\ phase' = phase /\ obs' = obs /\ first' = first
          /\ inForce' = inForce /\ cached' = cached
      BY <1>17 DEF Restart, tickVars
    <3>2. restarts' \in 0..MaxRestarts
      BY <1>17 DEF Restart
    <3> QED
      BY <3>1, <3>2, TypeParts, Zenon DEF PlainTypes
  <2> QED
    BY <2>1, <2>2 DEF PlainTypes, SequenceTypes
<1>18. CASE UNCHANGED vars
  BY <1>18 DEF vars, tickVars, repVars, workVars
<1> QED
  BY <1>1, <1>2, <1>3, <1>4, <1>5, <1>6, <1>7, <1>8, <1>9, <1>10, <1>11, <1>12, <1>13, <1>14, <1>15,
     <1>16, <1>17, <1>18 DEF Next, Controller, Service, Worker, Over

\* What the types say of the places of the line and of the answers.
LEMMA Places ==
  ASSUME TypeOK
  PROVE  /\ Len(inbox) \in Nat /\ \A i \in 1..Len(inbox) : inbox[i] \in Request
         /\ Len(queue) \in Nat /\ \A i \in 1..Len(queue) : queue[i] \in Request \ {Hello}
         /\ rep # None => /\ rep.item \in Request
                          /\ rep.step \in {"hello", "seed"} <=> rep.item = Hello
         /\ \A m : Worked(m) \/ Asked(m) \/ Queued(m) => m \in Request \ {Hello}
         /\ \A m : Waits(m) => m \in Request
         /\ Len(answers) \in Nat
         /\ \A i \in 1..Len(answers) :
              answers[i].to \in 1..obs /\ answers[i].act \in 0..obs \cup {None}
<1>1. Len(inbox) \in Nat /\ \A i \in 1..Len(inbox) : inbox[i] \in Request
  BY ElementOfSeq DEF TypeOK
<1>2. Len(queue) \in Nat /\ \A i \in 1..Len(queue) : queue[i] \in Request \ {Hello}
  BY ElementOfSeq DEF TypeOK
<1>3. rep # None => /\ rep.item \in Request
                    /\ rep.step \in {"hello", "seed"} <=> rep.item = Hello
  BY Requests DEF TypeOK
<1>4. \A m : Worked(m) => m \in Request \ {Hello}
  BY DEF TypeOK, Worked, Gone
<1>5. \A m : Asked(m) => m \in Request \ {Hello}
  BY <1>3 DEF Asked
<1>6. Len(answers) \in Nat
      /\ \A i \in 1..Len(answers) :
           answers[i].to \in 1..obs /\ answers[i].act \in 0..obs \cup {None}
  <2> DEFINE Reply == [to : 1..obs, act : 0..obs \cup {None}]
  <2>1. answers \in Seq(Reply)
    BY DEF TypeOK
  <2>2. \A i \in 1..Len(answers) : answers[i] \in Reply
    BY <2>1, ElementOfSeq
  <2> QED
    BY <2>1, <2>2
<1> QED
  BY <1>1, <1>2, <1>3, <1>4, <1>5, <1>6 DEF Queued, Waits

-----------------------------------------------------------------------------
(* The line moves. *)

\* What an observation sends.
Made == [obs |-> obs + 1, reward |-> IF obs = first THEN None ELSE inForce]

LEMMA MadeIsRequest ==
  ASSUME TypeOK, obs < MaxObs
  PROVE  Made \in Request \ {Hello} /\ Made.obs = obs + 1 /\ Made.reward \in {None, inForce}
BY BridgeAssumption DEF TypeOK, Made, Request, Hello, Obs, Action

\* Steps that add nothing to the line and move nobody along it.
Quiet ==
  \/ SendHello \/ HelloDone \/ Receive \/ Timeout \/ NewSimulation
  \/ NewAgent \/ NoAgent \/ SeedCache \/ Answer
  \/ Store \/ Act \/ LogMetrics \/ Restart \/ UNCHANGED vars

LEMMA Kinds == [Next]_vars => Quiet \/ Observe \/ TakeRequest \/ Enqueue \/ TakeItem
BY DEF Next, Controller, Service, Worker, Over, Quiet

LEMMA QuietMoves ==
  ASSUME TypeOK, Quiet
  PROVE  /\ obs' = obs
         /\ \A m \in Request \ {Hello} : /\ Waits(m)' => Waits(m)
                                         /\ Asked(m)' => Asked(m)
                                         /\ Queued(m)' => Queued(m)
                                         /\ Worked(m)' => Worked(m)
<1> USE DEF Waits, Asked, Queued, Worked
<1>1. CASE SendHello
  <2>1. \A j \in 1..Len(inbox') : (j \in 1..Len(inbox) /\ inbox'[j] = inbox[j]) \/ inbox'[j] = Hello
    BY <1>1, Sent, Requests DEF SendHello, TypeOK
  <2> QED
    BY <1>1, <2>1 DEF SendHello, repVars, workVars
<1>2. CASE HelloDone
  BY <1>2 DEF HelloDone, repVars, workVars
<1>3. CASE Receive
  BY <1>3 DEF Receive, repVars, workVars
<1>4. CASE Timeout
  BY <1>4 DEF Timeout, repVars, workVars
<1>5. CASE NewSimulation
  <2>1. inbox' = inbox \/ Len(inbox') = 0
    BY <1>5 DEF NewSimulation
  <2> QED
    BY <1>5, <2>1 DEF NewSimulation, repVars, workVars
<1>6. CASE NewAgent
  BY <1>6 DEF NewAgent, Stage, tickVars, workVars
<1>7. CASE NoAgent
  BY <1>7 DEF NoAgent, tickVars, workVars
<1>8. CASE SeedCache
  BY <1>8 DEF SeedCache, tickVars, workVars
<1>9. CASE Answer
  BY <1>9 DEF Answer, tickVars, workVars
<1>10. CASE Store
  <2>1. \A m : Worked(m)' => Worked(m)
    BY <1>10 DEF Store, Stage, Gone
  <2> QED
    BY <1>10, <2>1 DEF Store, tickVars, repVars
<1>11. CASE Act
  <2>1. \A m : ~Worked(m)'
    BY <1>11 DEF Act, Stage, Gone
  <2> QED
    BY <1>11, <2>1 DEF Act, tickVars, repVars
<1>12. CASE LogMetrics
  <2>1. \A m : ~Worked(m)'
    BY <1>12 DEF LogMetrics, Gone
  <2> QED
    BY <1>12, <2>1 DEF LogMetrics, tickVars, repVars
<1>13. CASE Restart
  <2>1. Len(inbox') = 0 /\ Len(queue') = 0
    BY <1>13 DEF Restart
  <2> QED
    BY <1>13, <2>1 DEF Restart, tickVars
<1>14. CASE UNCHANGED vars
  BY <1>14 DEF vars, tickVars, repVars, workVars
<1> QED
  BY <1>1, <1>2, <1>3, <1>4, <1>5, <1>6, <1>7, <1>8, <1>9, <1>10, <1>11, <1>12, <1>13, <1>14 DEF Quiet

LEMMA ObserveMoves ==
  ASSUME TypeOK, Observe
  PROVE  \A m : /\ Waits(m)' => Waits(m) \/ m = Made
                /\ Asked(m)' <=> Asked(m)
                /\ Queued(m)' <=> Queued(m)
                /\ Worked(m)' <=> Worked(m)
<1>1. Made \in Request /\ Send(Made)
  BY MadeIsRequest DEF Observe, Made
<1>2. \A j \in 1..Len(inbox') : (j \in 1..Len(inbox) /\ inbox'[j] = inbox[j]) \/ inbox'[j] = Made
  BY <1>1, Sent DEF TypeOK
<1> QED
  BY <1>2 DEF Observe, Waits, Asked, Queued, Worked, repVars, workVars

LEMMA TakeRequestMoves ==
  ASSUME TypeOK, TakeRequest
  PROVE  \A m : /\ Waits(m)' => Waits(m) /\ \E i \in 1..Len(inbox) : 1 < i /\ m = inbox[i]
                /\ Asked(m)' => Waits(m) /\ m = inbox[1] /\ 1 \in 1..Len(inbox)
                /\ Queued(m)' <=> Queued(m)
                /\ Worked(m)' <=> Worked(m)
<1>1. /\ 1 \in 1..Len(inbox) /\ Head(inbox) = inbox[1]
      /\ \A i \in 1..Len(Tail(inbox)) : i + 1 \in 1..Len(inbox) /\ Tail(inbox)[i] = inbox[i + 1]
  BY Taken DEF TakeRequest, TypeOK
<1>2. ASSUME NEW m, Waits(m)' PROVE Waits(m) /\ \E i \in 1..Len(inbox) : 1 < i /\ m = inbox[i]
  <2>1. PICK i \in 1..Len(Tail(inbox)) : m = Tail(inbox)[i]
    BY <1>2 DEF TakeRequest, Waits
  <2>2. PICK k \in 1..Len(inbox) : k = i + 1 /\ m = inbox[k]
    BY <1>1, <2>1
  <2> QED
    BY <2>2 DEF Waits
<1>3. \A m : Asked(m)' => Waits(m) /\ m = inbox[1] /\ 1 \in 1..Len(inbox)
  BY <1>1 DEF TakeRequest, Asked, Waits, Stage
<1> QED
  BY <1>2, <1>3 DEF TakeRequest, Queued, Worked, workVars

LEMMA EnqueueMoves ==
  ASSUME TypeOK, Enqueue
  PROVE  \A m : /\ Waits(m)' <=> Waits(m)
                /\ ~Asked(m)'
                /\ Queued(m)' => Queued(m) \/ Asked(m)
                /\ Worked(m)' <=> Worked(m)
<1>1. rep.item \in Request \ {Hello} /\ Asked(rep.item)
  BY Places DEF Enqueue, Asked
<1>2. \A m : Queued(m)' => Queued(m) \/ m = rep.item
  BY <1>1, Put DEF Enqueue, Queued, TypeOK
<1> QED
  BY <1>1, <1>2 DEF Enqueue, Waits, Asked, Worked, Stage

LEMMA TakeItemMoves ==
  ASSUME TypeOK, TakeItem
  PROVE  \A m : /\ Waits(m)' <=> Waits(m)
                /\ Asked(m)' <=> Asked(m)
                /\ Queued(m)' => Queued(m) /\ \E i \in 1..Len(queue) : 1 < i /\ m = queue[i]
                /\ Worked(m)' => Queued(m) /\ m = queue[1] /\ 1 \in 1..Len(queue)
<1>1. /\ 1 \in 1..Len(queue) /\ Head(queue) = queue[1]
      /\ \A i \in 1..Len(Tail(queue)) : i + 1 \in 1..Len(queue) /\ Tail(queue)[i] = queue[i + 1]
  BY Taken DEF TakeItem, TypeOK
<1>2. ASSUME NEW m, Queued(m)' PROVE Queued(m) /\ \E i \in 1..Len(queue) : 1 < i /\ m = queue[i]
  <2>1. PICK i \in 1..Len(Tail(queue)) : m = Tail(queue)[i]
    BY <1>2 DEF TakeItem, Queued
  <2>2. PICK k \in 1..Len(queue) : k = i + 1 /\ m = queue[k]
    BY <1>1, <2>1
  <2> QED
    BY <2>2 DEF Queued
<1>3. \A m : Worked(m)' => Queued(m) /\ m = queue[1] /\ 1 \in 1..Len(queue)
  BY <1>1 DEF TakeItem, Worked, Queued, Stage
<1> QED
  BY <1>2, <1>3 DEF TakeItem, Waits, Asked, repVars

LEMMA PendingMoves ==
  ASSUME TypeOK, [Next]_vars, NEW m \in Request, Pending(m)'
  PROVE  \/ Pending(m) /\ obs' \in {obs, obs + 1}
         \/ Observe /\ m = Made /\ m.obs = obs' /\ obs' = obs + 1
<1> USE DEF Pending
<1>0. obs \in Int
  BY DEF TypeOK, Action
<1>1. CASE Quiet
  BY <1>0, <1>1, QuietMoves
<1>2. CASE Observe
  BY <1>0, <1>2, ObserveMoves, MadeIsRequest DEF Observe
<1>3. CASE TakeRequest
  BY <1>0, <1>3, TakeRequestMoves DEF TakeRequest, tickVars
<1>4. CASE Enqueue
  BY <1>0, <1>4, EnqueueMoves DEF Enqueue, tickVars
<1>5. CASE TakeItem
  <2>1. Queued(m) \/ Asked(m) \/ Waits(m)
    BY <1>5, TakeItemMoves
  <2> QED
    BY <1>0, <1>5, <2>1 DEF TakeItem, tickVars
<1> QED
  BY <1>1, <1>2, <1>3, <1>4, <1>5, Kinds

LEMMA InboxKept == TypeOK /\ LineInOrder /\ [Next]_vars => InboxInOrder'
<1> SUFFICES ASSUME TypeOK, LineInOrder, [Next]_vars PROVE InboxInOrder'
  OBVIOUS
<1>0. \A i \in 1..Len(inbox) : inbox[i] \in Request /\ inbox[i].obs \in Int /\ inbox[i].obs <= obs
  BY Places, Requests, BridgeAssumption DEF LineInOrder, Pending, Waits, TypeOK, Action
<1>1. CASE SendHello
  <2>1. \A j \in 1..Len(inbox') : (j \in 1..Len(inbox) /\ inbox'[j] = inbox[j])
           \/ (inbox'[j] = Hello /\ \A i \in 1..Len(inbox') : i <= j)
    BY <1>1, Sent, Requests DEF SendHello, TypeOK
  <2> QED
    BY <1>0, <2>1 DEF LineInOrder, InboxInOrder
<1>2. CASE Observe
  <2>1. Made \in Request /\ Send(Made) /\ Made.obs = obs + 1 /\ obs \in Int
    BY <1>2, MadeIsRequest DEF Observe, Made, TypeOK, Action
  <2>2. \A j \in 1..Len(inbox') :
          \/ j \in 1..Len(inbox) /\ inbox'[j] = inbox[j]
          \/ /\ inbox'[j] = Made
             /\ \A i \in 1..Len(inbox') : i < j => i \in 1..Len(inbox) /\ inbox'[i] = inbox[i]
             /\ \A i \in 1..Len(inbox') : i <= j
    BY <2>1, Sent DEF TypeOK
  <2> SUFFICES ASSUME NEW i \in 1..Len(inbox'), NEW j \in 1..Len(inbox'), i < j, inbox'[j] # Hello
               PROVE  inbox'[i].obs < inbox'[j].obs
    BY DEF InboxInOrder
  <2>3. i \in 1..Len(inbox) /\ inbox'[i] = inbox[i]
    BY <2>2
  <2> QED
    BY <1>0, <2>1, <2>2, <2>3 DEF LineInOrder, InboxInOrder
<1>3. CASE TakeRequest
  <2>1. \A i \in 1..Len(inbox') : i + 1 \in 1..Len(inbox) /\ inbox'[i] = inbox[i + 1]
    BY <1>3, Taken DEF TakeRequest, TypeOK
  <2> QED
    BY <2>1 DEF LineInOrder, InboxInOrder
<1>4. CASE NewSimulation \/ Restart
  <2>1. inbox' = inbox \/ Len(inbox') = 0
    BY <1>4 DEF NewSimulation, Restart
  <2> QED
    BY <2>1 DEF LineInOrder, InboxInOrder
<1>5. CASE inbox' = inbox
  BY <1>5 DEF LineInOrder, InboxInOrder
<1> QED
  BY <1>1, <1>2, <1>3, <1>4, <1>5, Kinds DEF Quiet, HelloDone, Receive, Timeout, NewAgent, NoAgent,
     SeedCache, Enqueue, Answer, TakeItem, Store, Act, LogMetrics, vars

LEMMA QueueKept == TypeOK /\ LineInOrder /\ [Next]_vars => QueueInOrder'
<1> SUFFICES ASSUME TypeOK, LineInOrder, [Next]_vars PROVE QueueInOrder'
  OBVIOUS
<1>0. \A i \in 1..Len(queue) : queue[i] \in Request \ {Hello} /\ queue[i].obs \in Int
  BY Places, Requests, BridgeAssumption DEF Obs
<1>1. CASE Enqueue
  <2>1. rep.item \in Request \ {Hello} /\ Asked(rep.item)
    BY <1>1, Places DEF Enqueue, Asked
  <2>2. \A i \in 1..Len(queue) : Queued(queue[i])
    BY DEF Queued
  <2>3. \A i \in 1..Len(queue) : queue[i].obs < rep.item.obs
    BY <1>0, <2>1, <2>2 DEF LineInOrder, PlacesInOrder
  <2>4. \A i \in 1..Len(queue') : \/ i \in 1..Len(queue) /\ queue'[i] = queue[i]
                                  \/ i = Len(queue) + 1 /\ queue'[i] = rep.item
    BY <1>1, <2>1, Put DEF Enqueue, TypeOK
  <2>5. Len(queue) \in Nat
    BY Places
  <2> QED
    BY <2>3, <2>4, <2>5 DEF LineInOrder, QueueInOrder
<1>2. CASE TakeItem
  <2>1. \A i \in 1..Len(queue') : i + 1 \in 1..Len(queue) /\ queue'[i] = queue[i + 1]
    BY <1>2, Taken DEF TakeItem, TypeOK
  <2> QED
    BY <2>1 DEF LineInOrder, QueueInOrder
<1>3. CASE Restart
  <2>1. Len(queue') = 0
    BY <1>3 DEF Restart
  <2> QED
    BY <2>1 DEF QueueInOrder
<1>4. CASE queue' = queue
  BY <1>4 DEF LineInOrder, QueueInOrder
<1> QED
  BY <1>1, <1>2, <1>3, <1>4, Kinds DEF Quiet, SendHello, HelloDone, Observe, Receive, Timeout,
     NewSimulation, TakeRequest, NewAgent, NoAgent, SeedCache, Answer, Store, Act, LogMetrics, vars, workVars

LEMMA PlacesKept == TypeOK /\ LineInOrder /\ [Next]_vars => PlacesInOrder'
<1> SUFFICES ASSUME TypeOK, LineInOrder, [Next]_vars PROVE PlacesInOrder'
  OBVIOUS
<1>1. CASE Quiet
  BY <1>1, QuietMoves DEF LineInOrder, PlacesInOrder
<1>2. CASE Observe
  <2>1. obs \in Int /\ Made.obs = obs + 1
    BY <1>2, MadeIsRequest DEF Observe, TypeOK, Action
  <2>2. \A m \in Request \ {Hello} : Asked(m) \/ Queued(m) \/ Worked(m) => m.obs <= obs /\ m.obs \in Int
    BY Requests, BridgeAssumption DEF LineInOrder, Pending, Obs
  <2>3. \A m \in Request \ {Hello} : Asked(m) \/ Queued(m) \/ Worked(m) => m.obs < Made.obs
    BY <2>1, <2>2
  <2> QED
    BY <1>2, <2>3, ObserveMoves DEF LineInOrder, PlacesInOrder
<1>3. CASE TakeRequest
  <2>1. \A m, n \in Request \ {Hello} : Asked(m)' /\ Waits(n)' => m.obs < n.obs
    BY <1>3, TakeRequestMoves DEF LineInOrder, InboxInOrder
  <2>2. \A n \in Request \ {Hello} : Waits(n)' \/ Asked(n)' => Waits(n)
    BY <1>3, TakeRequestMoves
  <2> QED
    BY <1>3, <2>1, <2>2, TakeRequestMoves DEF LineInOrder, PlacesInOrder
<1>4. CASE Enqueue
  BY <1>4, EnqueueMoves DEF LineInOrder, PlacesInOrder
<1>5. CASE TakeItem
  <2>1. \A m, n \in Request \ {Hello} : Worked(m)' /\ Queued(n)' => m.obs < n.obs
    BY <1>5, TakeItemMoves DEF LineInOrder, QueueInOrder
  <2>2. \A n \in Request \ {Hello} : Queued(n)' \/ Worked(n)' => Queued(n)
    BY <1>5, TakeItemMoves
  <2> QED
    BY <1>5, <2>1, <2>2, TakeItemMoves DEF LineInOrder, PlacesInOrder
<1> QED
  BY <1>1, <1>2, <1>3, <1>4, <1>5, Kinds

LEMMA LineKept == TypeOK /\ LineInOrder /\ [Next]_vars => LineInOrder'
<1> SUFFICES ASSUME TypeOK, LineInOrder, [Next]_vars PROVE LineInOrder'
  OBVIOUS
<1>1. ASSUME NEW m \in Request, Pending(m)' PROVE m.obs <= obs'
  <2>1. m.obs \in Int /\ obs \in Int
    BY Requests, BridgeAssumption DEF TypeOK, Action
  <2> QED
    BY <1>1, <2>1, PendingMoves DEF LineInOrder
<1> QED
  BY <1>1, InboxKept, QueueKept, PlacesKept DEF LineInOrder

-----------------------------------------------------------------------------
(* The answers. *)

\* The first expected answer is taken, and those before it go.
LEMMA ReceiveMoves ==
  ASSUME TypeOK, Receive
  PROVE  \E i \in 1..Len(answers) :
           /\ answers[i].to = obs
           /\ inForce' = IF answers[i].act = None THEN inForce ELSE answers[i].act
           /\ \A j \in 1..Len(answers') : j + i \in 1..Len(answers) /\ answers'[j] = answers[j + i]
<1> DEFINE Reply == [to : 1..obs, act : 0..obs \cup {None}]
<1>1. answers \in Seq(Reply) /\ DOMAIN answers = 1..Len(answers)
  BY DEF TypeOK
<1>2. PICK i \in 1..Len(answers) :
        /\ answers[i].to = obs
        /\ inForce' = IF answers[i].act = None THEN inForce ELSE answers[i].act
        /\ answers' = SubSeq(answers, i + 1, Len(answers))
  BY <1>1 DEF Receive, Expected
<1> HIDE DEF Reply
<1>3. \A j \in 1..Len(answers') : j + i \in 1..Len(answers) /\ answers'[j] = answers[j + i]
  BY <1>1, <1>2, Dropped
<1> QED
  BY <1>2, <1>3

\* One answer is added, from the cache.
LEMMA AnswerMoves ==
  ASSUME TypeOK, Answer
  PROVE  /\ rep # None /\ rep.item \in Request \ {Hello}
         /\ \A i \in 1..Len(answers') :
              \/ i \in 1..Len(answers) /\ answers'[i] = answers[i]
              \/ /\ i = Len(answers) + 1
                 /\ answers'[i].to = rep.item.obs
                 /\ answers'[i].act = IF last = None THEN IF told THEN 0 ELSE None ELSE last
<1> DEFINE r == [to |-> rep.item.obs,
                 act |-> IF last = None THEN IF told THEN 0 ELSE None ELSE last]
<1> DEFINE Reply == [to : 1..obs, act : 0..obs \cup {None}]
<1> DEFINE Any == [to : Int, act : Int \cup {None}]
<1>0. rep # None /\ rep.item \in Request \ {Hello}
  BY Places DEF Answer
<1>1. answers \in Seq(Reply) /\ Reply \subseteq Any
  BY DEF TypeOK, Action
<1>2. answers' = Append(answers, r) /\ r.to = rep.item.obs
      /\ r.act = IF last = None THEN IF told THEN 0 ELSE None ELSE last
  BY DEF Answer
<1>3. r \in Any
  BY <1>0, Requests, BridgeAssumption DEF TypeOK, Action
<1> HIDE DEF r, Reply, Any
<1>4. answers \in Seq(Any)
  BY <1>1, SeqMonotonic
<1>5. \A i \in 1..Len(answers') : \/ i \in 1..Len(answers) /\ answers'[i] = answers[i]
                                  \/ i = Len(answers) + 1 /\ answers'[i] = r
  BY <1>2, <1>3, <1>4, Put
<1> QED
  BY <1>0, <1>2, <1>5

-----------------------------------------------------------------------------
(* Known actions are older than what is pending. *)

\* Acting on an item takes it out of the line and into the previous state.
LEMMA ActMoves ==
  ASSUME TypeOK, Act, agent
  PROVE  /\ work.item \in Request \ {Hello} /\ Worked(work.item) /\ Pending(work.item)
         /\ prev' = work.item.obs /\ last' = work.item.obs
         /\ \A m : ~Worked(m)'
<1>1. work.item \in Request \ {Hello} /\ Worked(work.item)
  BY Places DEF Act, Worked
<1> QED
  BY <1>1 DEF Act, Worked, Pending, Stage

\* Where known actions come from.
LEMMA KnownMoves ==
  ASSUME TypeOK, [Next]_vars, NEW a \in Int, Known(a)'
  PROVE  Known(a) \/ a = 0 \/ (Act /\ agent /\ a = work.item.obs)
<1>1. ASSUME NEW m \in Request, Pending(m)', a = m.reward PROVE Known(a)
  <2>1. CASE Pending(m)
    BY <1>1, <2>1 DEF Known
  <2>2. CASE Observe /\ m = Made
    BY <1>1, <2>2, MadeIsRequest, BridgeAssumption DEF Known, Observe
  <2> QED
    BY <1>1, <2>1, <2>2, PendingMoves
<1>2. CASE Receive
  <2>1. Answered(a)' => Answered(a)
    BY <1>2, ReceiveMoves DEF Answered
  <2>2. a = inForce' => a = inForce \/ Answered(a)
    BY <1>2, ReceiveMoves DEF Answered
  <2>3. last' = last
    BY <1>2 DEF Receive
  <2> QED
    BY <1>1, <2>1, <2>2, <2>3 DEF Known
<1>3. CASE NewSimulation
  <2>1. inForce' = 0 /\ last' = last /\ Len(answers') = 0
    BY <1>3 DEF NewSimulation
  <2>2. ~Answered(a)'
    BY <2>1 DEF Answered
  <2> QED
    BY <1>1, <2>1, <2>2 DEF Known
<1>4. CASE SeedCache \/ Restart
  <2>1. inForce' = inForce /\ last' \in {0, None} /\ answers' = answers
    BY <1>4 DEF SeedCache, Restart, tickVars
  <2> QED
    BY <1>1, <2>1, BridgeAssumption DEF Known, Answered
<1>5. CASE Answer
  <2>1. inForce' = inForce /\ last' = last
    BY <1>5 DEF Answer, tickVars
  <2>2. Answered(a)' => Answered(a) \/ a \in {0, None, last}
    BY <1>5, AnswerMoves DEF Answered
  <2> QED
    BY <1>1, <2>1, <2>2, BridgeAssumption DEF Known
<1>6. CASE Act
  <2>1. inForce' = inForce /\ answers' = answers
    BY <1>6 DEF Act, tickVars
  <2>2. last' = last \/ (agent /\ last' = work.item.obs)
    BY <1>6 DEF Act
  <2> QED
    BY <1>1, <1>6, <2>1, <2>2 DEF Known, Answered
<1>7. CASE UNCHANGED <<inForce, answers, last>>
  BY <1>1, <1>7 DEF Known, Answered
<1> QED
  BY <1>2, <1>3, <1>4, <1>5, <1>6, <1>7, Kinds DEF Quiet, SendHello, HelloDone, Observe, Timeout,
     TakeRequest, NewAgent, NoAgent, Enqueue, TakeItem, Store, LogMetrics, vars, tickVars

LEMMA KnownInit == Init => KnownBeforePending
<1> SUFFICES ASSUME Init PROVE KnownBeforePending
  OBVIOUS
<1>1. Len(inbox) = 0 /\ Len(queue) = 0 /\ rep = None /\ work = None /\ prev = None
  BY DEF Init
<1> QED
  BY <1>1 DEF KnownBeforePending, Pending, Asked, Worked, Waits, Queued

LEMMA KnownKept ==
  TypeOK /\ LineInOrder /\ KnownBeforePending /\ [Next]_vars => KnownBeforePending'
<1> SUFFICES ASSUME TypeOK, LineInOrder, KnownBeforePending, [Next]_vars
             PROVE  KnownBeforePending'
  OBVIOUS
<1>0. obs \in Int /\ prev \in (1..obs) \cup {None}
  BY DEF TypeOK, Action
<1>1. \A m \in Request : Pending(m) => m.obs \in Int /\ 0 < m.obs /\ m.obs <= obs
  BY Requests, BridgeAssumption DEF Pending, Obs, LineInOrder
<1>2. ASSUME NEW a \in Int, Known(a) PROVE a <= obs
  <2>1. CASE a = inForce \/ a = last
    BY <2>1, BridgeAssumption DEF TypeOK
  <2>2. CASE Answered(a)
    BY <2>2, Places, BridgeAssumption DEF Answered
  <2>3. CASE \E m \in Request : Pending(m) /\ a = m.reward
    <3>1. PICK m \in Request : Pending(m)
      BY <2>3
    <3> QED
      BY <1>0, <1>1, <1>2, <3>1 DEF KnownBeforePending
  <2> QED
    BY <1>2, <2>1, <2>2, <2>3 DEF Known
<1>3. ASSUME NEW m \in Request, Pending(m)', NEW a \in Int, Known(a)' PROVE a < m.obs
  <2>1. CASE Act /\ agent
    <3>1. m \in Request \ {Hello} /\ (Queued(m) \/ Asked(m) \/ Waits(m)) /\ Pending(m)
      BY <1>3, <2>1, ActMoves, QuietMoves DEF Quiet, Pending
    <3>2. work.item.obs < m.obs
      BY <2>1, <3>1, ActMoves DEF LineInOrder, PlacesInOrder
    <3> QED
      BY <1>1, <1>3, <3>1, <3>2, KnownMoves DEF KnownBeforePending
  <2>2. CASE Pending(m) /\ (Known(a) \/ a = 0)
    BY <1>1, <2>2 DEF KnownBeforePending
  <2>3. CASE m.obs = obs + 1 /\ (Known(a) \/ a = 0)
    BY <1>0, <1>2, <2>3 DEF TypeOK, Action
  <2> QED
    BY <1>3, <2>1, <2>2, <2>3, PendingMoves, KnownMoves
<1>4. ASSUME prev' # None, NEW a \in Int, Known(a)' PROVE a <= prev'
  <2>1. CASE Act /\ agent
    BY <1>1, <1>4, <2>1, ActMoves, KnownMoves DEF KnownBeforePending
  <2>2. CASE prev' = prev /\ (Known(a) \/ a = 0)
    BY <1>0, <1>4, <2>2 DEF KnownBeforePending
  <2>3. prev' \in {prev, None} \/ (Act /\ agent)
    BY Kinds DEF Quiet, SendHello, HelloDone, Observe, Receive, Timeout, NewSimulation, TakeRequest, NewAgent,
       NoAgent, SeedCache, Enqueue, Answer, TakeItem, Store, Act, LogMetrics, Restart, vars, workVars
  <2> QED
    BY <1>4, <2>1, <2>2, <2>3, KnownMoves
<1>5. ASSUME prev' # None, NEW m \in Request, Pending(m)' PROVE prev' < m.obs
  <2>1. CASE Act /\ agent
    <3>1. m \in Request \ {Hello} /\ (Queued(m) \/ Asked(m) \/ Waits(m))
      BY <1>5, <2>1, ActMoves, QuietMoves DEF Quiet, Pending
    <3> QED
      BY <2>1, <3>1, ActMoves DEF LineInOrder, PlacesInOrder
  <2>2. CASE prev' = prev
    BY <1>0, <1>5, <2>2, PendingMoves DEF KnownBeforePending
  <2>3. prev' \in {prev, None} \/ (Act /\ agent)
    BY Kinds DEF Quiet, SendHello, HelloDone, Observe, Receive, Timeout, NewSimulation, TakeRequest, NewAgent,
       NoAgent, SeedCache, Enqueue, Answer, TakeItem, Store, Act, LogMetrics, Restart, vars, workVars
  <2> QED
    BY <1>5, <2>1, <2>2, <2>3
<1> QED
  BY <1>3, <1>4, <1>5 DEF KnownBeforePending

-----------------------------------------------------------------------------
(* A hello is ahead of the observations of its simulation. *)

LEMMA DatesKept == TypeOK /\ LineInOrder /\ Dates /\ [Next]_vars => Dates'
<1> SUFFICES ASSUME TypeOK, LineInOrder, Dates, [Next]_vars PROVE Dates'
  OBVIOUS
<1> USE DEF Dates
<1>0. obs \in Int /\ first \in 0..obs /\ inForce \in 0..obs /\ Gone.item.obs = 0
  BY DEF TypeOK, Action, Gone, Hello
<1>1. /\ rep # None => rep.item.obs \in Int
      /\ work # None => work.item.obs \in Int
  BY Places, Requests, BridgeAssumption DEF TypeOK, Gone, Action, Obs
<1>2. CASE SendHello \/ HelloDone
  BY <1>2 DEF SendHello, HelloDone, repVars, workVars
<1>3. CASE Observe
  BY <1>0, <1>1, <1>3 DEF Observe, repVars, workVars
<1>4. CASE Receive \/ Timeout
  BY <1>0, <1>4 DEF Receive, Timeout, repVars, workVars
<1>5. CASE NewSimulation
  BY <1>0, <1>5 DEF NewSimulation, repVars, workVars
<1>6. CASE TakeRequest
  <2>1. inbox[1] \in Request /\ Head(inbox) = inbox[1] /\ Waits(inbox[1])
    BY <1>6, Taken DEF TakeRequest, TypeOK, Waits
  <2>2. inbox[1].obs <= obs
    BY <1>0, <2>1, Requests DEF LineInOrder, Pending
  <2> QED
    BY <1>6, <2>1, <2>2 DEF TakeRequest, Stage, tickVars, workVars
<1>7. CASE NewAgent \/ NoAgent \/ SeedCache \/ Enqueue \/ Answer
  BY <1>7 DEF NewAgent, NoAgent, SeedCache, Enqueue, Answer, Stage, tickVars, workVars
<1>8. CASE TakeItem
  <2>1. queue[1] \in Request /\ Head(queue) = queue[1] /\ Queued(queue[1])
    BY <1>8, Taken DEF TakeItem, TypeOK, Queued
  <2>2. queue[1].obs <= obs
    BY <2>1, Places DEF LineInOrder, Pending
  <2> QED
    BY <1>8, <2>1, <2>2 DEF TakeItem, Stage, tickVars, repVars
<1>9. CASE Store \/ Act \/ LogMetrics
  BY <1>0, <1>9 DEF Store, Act, LogMetrics, Stage, tickVars, repVars
<1>10. CASE Restart
  BY <1>10 DEF Restart, tickVars
<1>11. CASE UNCHANGED vars
  BY <1>11 DEF vars, tickVars, repVars, workVars
<1> QED
  BY <1>2, <1>3, <1>4, <1>5, <1>6, <1>7, <1>8, <1>9, <1>10, <1>11, Kinds DEF Quiet

LEMMA HelloKept == TypeOK /\ LineInOrder /\ Dates /\ HelloAhead /\ [Next]_vars => HelloAhead'
<1> SUFFICES ASSUME TypeOK, LineInOrder, Dates, HelloAhead, [Next]_vars PROVE HelloAhead'
  OBVIOUS
<1>0. obs \in Int /\ first \in 0..obs /\ inForce \in 0..obs /\ Gone.item = Hello /\ Hello.obs = 0
  BY DEF TypeOK, Action, Gone, Hello
<1>1. \A i \in 1..Len(inbox) : inbox[i] \in Request /\ inbox[i].obs \in Int /\ inbox[i].obs <= obs
  BY Places, Requests, BridgeAssumption DEF LineInOrder, Pending, Waits, TypeOK, Action
<1>2. \A i \in 1..Len(queue) : queue[i] \in Request \ {Hello} /\ queue[i].obs \in Int /\ queue[i].obs <= obs
  BY Places, Requests, BridgeAssumption DEF LineInOrder, Pending, Queued, TypeOK, Obs
<1>3. obs = first => NothingOfThisSimulation
  BY <1>0, <1>2, Places, BridgeAssumption DEF NothingOfThisSimulation, Dates, TypeOK
<1>4. CASE SendHello
  <2>1. obs = first /\ first' = first
    BY <1>4, <1>0 DEF SendHello
  <2>2. NothingOfThisSimulation'
    BY <1>3, <1>4, <2>1 DEF SendHello, NothingOfThisSimulation, repVars, workVars
  <2>3. \A j \in 1..Len(inbox') : (j \in 1..Len(inbox) /\ inbox'[j] = inbox[j]) \/ inbox'[j] = Hello
    BY <1>4, Sent, Requests DEF SendHello, TypeOK
  <2> QED
    BY <1>0, <1>1, <2>1, <2>2, <2>3 DEF HelloAhead
<1>5. CASE Observe
  <2>1. Made \in Request \ {Hello} /\ Send(Made)
    BY <1>5, MadeIsRequest DEF Observe, Made
  <2>2. \A j \in 1..Len(inbox') :
          \/ j \in 1..Len(inbox) /\ inbox'[j] = inbox[j]
          \/ /\ inbox'[j] = Made
             /\ \A i \in 1..Len(inbox') : i < j => i \in 1..Len(inbox) /\ inbox'[i] = inbox[i]
             /\ \A i \in 1..Len(inbox') : i <= j
    BY <2>1, Sent DEF TypeOK
  <2>3. Greeting' => Greeting
    BY <1>5, <2>1, <2>2 DEF Observe, Greeting, Waits, repVars
  <2>4. Greeting => NothingOfThisSimulation'
    BY <1>5 DEF Observe, HelloAhead, NothingOfThisSimulation, repVars, workVars
  <2>5. ASSUME NEW i \in 1..Len(inbox'), NEW j \in 1..Len(inbox'), i < j, inbox'[j] = Hello
        PROVE  inbox'[i].obs <= first'
    <3>1. j \in 1..Len(inbox) /\ inbox'[j] = inbox[j]
      BY <2>1, <2>2, <2>5
    <3>2. i \in 1..Len(inbox) /\ inbox'[i] = inbox[i]
      BY <2>2, <2>5
    <3> QED
      BY <1>5, <2>5, <3>1, <3>2 DEF Observe, HelloAhead
  <2> QED
    BY <2>3, <2>4, <2>5 DEF HelloAhead
<1>6. CASE Receive
  <2>1. ~Greeting
    <3>1. PICK i \in 1..Len(answers) : answers[i].to = obs
      BY <1>6, ReceiveMoves
    <3> QED
      BY <1>0, <1>6, <3>1 DEF Receive, Dates, HelloAhead, NothingOfThisSimulation
  <2> QED
    BY <1>6, <2>1 DEF Receive, HelloAhead, Greeting, Waits, repVars
<1>7. CASE NewSimulation
  <2>1. NothingOfThisSimulation'
    BY <1>0, <1>2, <1>7, Places, BridgeAssumption
    DEF NewSimulation, NothingOfThisSimulation, Dates, TypeOK, repVars, workVars
  <2>2. inbox' = inbox \/ Len(inbox') = 0
    BY <1>7 DEF NewSimulation
  <2>3. \A i, j \in 1..Len(inbox') : i < j /\ inbox'[j] = Hello => inbox'[i].obs <= first'
    BY <1>1, <1>7, <2>2 DEF NewSimulation
  <2> QED
    BY <2>1, <2>3 DEF HelloAhead
<1>8. CASE TakeRequest
  <2>1. /\ 1 \in 1..Len(inbox) /\ Head(inbox) = inbox[1]
        /\ \A i \in 1..Len(inbox') : i + 1 \in 1..Len(inbox) /\ inbox'[i] = inbox[i + 1]
    BY <1>8, Taken DEF TakeRequest, TypeOK
  <2>2. rep' # None => rep'.item = inbox[1]
    BY <1>8, <2>1 DEF TakeRequest, Stage
  <2>3. Greeting' => Greeting /\ inbox[1].obs <= first
    <3>1. Waits(Hello)' => Waits(Hello) /\ inbox[1].obs <= first
      BY <1>8, <2>1, TakeRequestMoves DEF HelloAhead
    <3>2. inbox[1] = Hello => Waits(Hello) /\ inbox[1].obs <= first
      BY <1>0, <2>1 DEF Waits
    <3> QED
      BY <2>2, <3>1, <3>2 DEF Greeting
  <2>4. Greeting' => NothingOfThisSimulation'
    BY <1>8, <2>2, <2>3 DEF TakeRequest, HelloAhead, NothingOfThisSimulation, tickVars, workVars
  <2>5. \A i, j \in 1..Len(inbox') : i < j /\ inbox'[j] = Hello => inbox'[i].obs <= first'
    BY <1>8, <2>1 DEF TakeRequest, HelloAhead, tickVars
  <2> QED
    BY <2>4, <2>5 DEF HelloAhead
<1>9. CASE NewAgent \/ NoAgent \/ SeedCache
  <2>1. /\ inForce' = inForce /\ answers' = answers /\ queue' = queue /\ work' = work
        /\ last' \in {last, 0} /\ inbox' = inbox /\ first' = first
    BY <1>9 DEF NewAgent, NoAgent, SeedCache, tickVars, workVars
  <2>2. rep # None /\ (rep' # None => rep'.item = rep.item)
    BY <1>9 DEF NewAgent, NoAgent, SeedCache, Stage
  <2> QED
    BY <1>0, <2>1, <2>2 DEF HelloAhead, Greeting, Waits, NothingOfThisSimulation
<1>10. CASE Enqueue
  <2>1. rep.item \in Request \ {Hello} /\ rep # None
    BY <1>10, Places DEF Enqueue
  <2>2. \A i \in 1..Len(queue') : (i \in 1..Len(queue) /\ queue'[i] = queue[i]) \/ queue'[i] = rep.item
    BY <1>10, <2>1, Put DEF Enqueue, TypeOK
  <2>3. rep' # None => rep'.item = rep.item
    BY <1>10 DEF Enqueue, Stage
  <2>4. Greeting' => Greeting
    BY <1>10, <2>1, <2>3 DEF Enqueue, Greeting, Waits
  <2>5. Greeting => NothingOfThisSimulation'
    BY <1>10, <2>1, <2>2, <2>3 DEF Enqueue, HelloAhead, NothingOfThisSimulation, tickVars
  <2> QED
    BY <1>10, <2>4, <2>5 DEF Enqueue, HelloAhead, tickVars
<1>11. CASE Answer
  <2>1. Greeting' => Greeting
    BY <1>11 DEF Answer, Greeting, Waits
  <2>2. Greeting => \A i \in 1..Len(answers') : answers'[i].to <= first
    BY <1>11, AnswerMoves DEF HelloAhead, NothingOfThisSimulation
  <2>3. Greeting => NothingOfThisSimulation'
    BY <1>11, <2>2 DEF Answer, HelloAhead, NothingOfThisSimulation, tickVars, workVars
  <2> QED
    BY <1>11, <2>1, <2>3 DEF Answer, HelloAhead, tickVars
<1>12. CASE TakeItem
  <2>1. /\ 1 \in 1..Len(queue) /\ Head(queue) = queue[1]
        /\ \A i \in 1..Len(queue') : i + 1 \in 1..Len(queue) /\ queue'[i] = queue[i + 1]
    BY <1>12, Taken DEF TakeItem, TypeOK
  <2>2. work' # None => work'.item = queue[1]
    BY <1>12, <2>1 DEF TakeItem, Stage
  <2> QED
    BY <1>12, <2>1, <2>2 DEF TakeItem, HelloAhead, Greeting, Waits, NothingOfThisSimulation, tickVars, repVars
<1>13. CASE Store \/ Act \/ LogMetrics
  <2>1. /\ inForce' = inForce /\ answers' = answers /\ queue' = queue /\ rep' = rep
        /\ inbox' = inbox /\ first' = first /\ work # None
    BY <1>13 DEF Store, Act, LogMetrics, tickVars, repVars
  <2>2. work' # None => work'.item \in {work.item, Hello}
    BY <1>0, <1>13 DEF Store, Act, LogMetrics, Stage
  <2>3. last' \in {last, work.item.obs}
    BY <1>13 DEF Store, Act, LogMetrics
  <2> QED
    BY <1>0, <2>1, <2>2, <2>3 DEF HelloAhead, Greeting, Waits, NothingOfThisSimulation
<1>14. CASE Restart
  <2>1. Len(inbox') = 0 /\ rep' = None
    BY <1>14 DEF Restart
  <2> QED
    BY <2>1 DEF HelloAhead, Greeting, Waits
<1>15. CASE HelloDone \/ Timeout \/ UNCHANGED vars
  <2>1. UNCHANGED <<inForce, answers, queue, rep, work, last, inbox, first>>
    BY <1>15 DEF HelloDone, Timeout, vars, tickVars, repVars, workVars
  <2> QED
    BY <2>1 DEF HelloAhead, Greeting, Waits, NothingOfThisSimulation
<1> QED
  BY <1>4, <1>5, <1>6, <1>7, <1>8, <1>9, <1>10, <1>11, <1>12, <1>13, <1>14, <1>15, Kinds DEF Quiet

-----------------------------------------------------------------------------
(* Answers grow, and are as fresh as the cache. *)

\* What an action does in the cache or on the links is known of all pending.
LEMMA ActIsNewest ==
  ASSUME TypeOK, KnownBeforePending, Act, agent
  PROVE  /\ last' = work.item.obs /\ work.item.obs \in Int
         /\ inForce <= work.item.obs
         /\ last # None => last <= work.item.obs
         /\ \A i \in 1..Len(answers) : answers[i].act # None => answers[i].act <= work.item.obs
<1>1. Pending(work.item) /\ work.item \in Request \ {Hello} /\ last' = work.item.obs
  BY ActMoves
<1>2. work.item.obs \in Int
  BY <1>1, Requests, BridgeAssumption DEF Obs
<1>3. \A a \in Int : Known(a) => a <= work.item.obs
  BY <1>1, <1>2 DEF KnownBeforePending
<1>4. inForce \in Int /\ Known(inForce)
  BY DEF TypeOK, Known
<1>5. last # None => last \in Int /\ Known(last)
  BY DEF TypeOK, Known
<1>6. \A i \in 1..Len(answers) : answers[i].act # None => answers[i].act \in Int /\ Known(answers[i].act)
  BY Places DEF Known, Answered
<1> QED
  BY <1>1, <1>2, <1>3, <1>4, <1>5, <1>6

LEMMA AnswersKept ==
  TypeOK /\ KnownBeforePending /\ Dates /\ HelloAhead /\ AnswersGrow /\ [Next]_vars => AnswersGrow'
<1> SUFFICES ASSUME TypeOK, KnownBeforePending, Dates, HelloAhead, AnswersGrow, [Next]_vars
             PROVE  AnswersGrow'
  OBVIOUS
<1>0. /\ obs \in Int /\ first \in 0..obs /\ inForce \in 0..obs
      /\ last # None => last \in 0..obs
      /\ Len(answers) \in Nat
      /\ \A i \in 1..Len(answers) : answers[i].to \in Int /\ (answers[i].act # None => answers[i].act \in 0..obs)
  BY Places DEF TypeOK, Action
<1>1. CASE Receive
  <2>1. PICK i \in 1..Len(answers) :
          /\ answers[i].to = obs
          /\ inForce' = IF answers[i].act = None THEN inForce ELSE answers[i].act
          /\ \A j \in 1..Len(answers') : j + i \in 1..Len(answers) /\ answers'[j] = answers[j + i]
    BY <1>1, ReceiveMoves
  <2>2. obs > first /\ first' = first /\ last' = last /\ told' = told
    BY <1>1 DEF Receive, Dates, repVars
  <2>3. inForce' = inForce \/ (Counts(i) /\ inForce' = answers[i].act)
    BY <2>1, <2>2 DEF Counts
  <2>4. \A j \in 1..Len(answers') : Counts(j)' <=> Counts(j + i)
    BY <2>1, <2>2 DEF Counts
  <2>5. \A j \in 1..Len(answers') : Counts(j)' => inForce' <= answers'[j].act
    <3> SUFFICES ASSUME NEW j \in 1..Len(answers'), Counts(j)' PROVE inForce' <= answers'[j].act
      OBVIOUS
    <3>1. j + i \in 1..Len(answers) /\ i < j + i /\ Counts(j + i) /\ answers'[j] = answers[j + i]
      BY <2>1, <2>4
    <3> QED
      BY <2>3, <3>1 DEF AnswersGrow
  <2>6. \A j, k \in 1..Len(answers') :
          j < k /\ Counts(j)' /\ Counts(k)' => answers'[j].act <= answers'[k].act
    <3> SUFFICES ASSUME NEW j \in 1..Len(answers'), NEW k \in 1..Len(answers'), j < k,
                        Counts(j)', Counts(k)'
                 PROVE  answers'[j].act <= answers'[k].act
      OBVIOUS
    <3>1. /\ j + i \in 1..Len(answers) /\ Counts(j + i) /\ answers'[j] = answers[j + i]
          /\ k + i \in 1..Len(answers) /\ Counts(k + i) /\ answers'[k] = answers[k + i]
          /\ j + i < k + i
      BY <2>1, <2>4
    <3> QED
      BY <3>1 DEF AnswersGrow
  <2>7. /\ last' # None => inForce' <= last' /\ \A j \in 1..Len(answers') : Counts(j)' => answers'[j].act <= last'
        /\ last' = None /\ told' => inForce' = 0 /\ \A j \in 1..Len(answers') : Counts(j)' => answers'[j].act = 0
    BY <2>1, <2>2, <2>3, <2>4 DEF AnswersGrow
  <2> QED
    BY <2>5, <2>6, <2>7 DEF AnswersGrow
<1>2. CASE NewSimulation
  <2>1. inForce' = 0 /\ Len(answers') = 0 /\ last' = last
    BY <1>2 DEF NewSimulation
  <2> QED
    BY <1>0, <2>1 DEF AnswersGrow
<1>3. CASE NewAgent \/ NoAgent \/ SeedCache
  <2>1. Greeting
    BY <1>3, Places DEF NewAgent, NoAgent, SeedCache, Greeting
  <2>2. inForce = 0 /\ \A i \in 1..Len(answers) : ~Counts(i)
    BY <1>0, <2>1 DEF HelloAhead, NothingOfThisSimulation, Counts
  <2>3. inForce' = inForce /\ answers' = answers /\ first' = first /\ last' \in {last, 0}
    BY <1>3 DEF NewAgent, NoAgent, SeedCache, tickVars
  <2> QED
    BY <1>0, <2>2, <2>3 DEF AnswersGrow, Counts
<1>4. CASE Answer
  <2>1. inForce' = inForce /\ first' = first /\ last' = last /\ told' = told
    BY <1>4 DEF Answer, tickVars
  <2>2. \A i \in 1..Len(answers') :
          \/ i \in 1..Len(answers) /\ answers'[i] = answers[i] /\ (Counts(i)' <=> Counts(i))
          \/ i = Len(answers) + 1 /\ answers'[i].act = IF last = None THEN IF told THEN 0 ELSE None ELSE last
    BY <1>4, <2>1, AnswerMoves DEF Counts
  <2>3. \A i \in 1..Len(answers') : Counts(i)' => answers'[i].act # None
    BY DEF Counts
  <2> QED
    BY <1>0, <2>1, <2>2, <2>3 DEF AnswersGrow
<1>5. CASE Act /\ agent
  <2>1. inForce' = inForce /\ first' = first /\ answers' = answers
    BY <1>5 DEF Act, tickVars
  <2>2. \A i \in 1..Len(answers) : Counts(i)' <=> Counts(i)
    BY <2>1 DEF Counts
  <2>3. \A i \in 1..Len(answers) : Counts(i) => answers[i].act # None
    BY DEF Counts
  <2>4. /\ last' # None /\ inForce' <= last'
        /\ \A i \in 1..Len(answers) : answers[i].act # None => answers[i].act <= last'
    BY <1>5, <2>1, ActIsNewest, BridgeAssumption
  <2>5. \A i \in 1..Len(answers') : Counts(i)' => answers'[i].act <= last'
    BY <2>1, <2>2, <2>3, <2>4
  <2>6. \A i \in 1..Len(answers') : Counts(i)' => inForce' <= answers'[i].act
    BY <2>1, <2>2 DEF AnswersGrow
  <2>7. \A i, j \in 1..Len(answers') :
          i < j /\ Counts(i)' /\ Counts(j)' => answers'[i].act <= answers'[j].act
    BY <2>1, <2>2 DEF AnswersGrow
  <2> QED
    BY <2>4, <2>5, <2>6, <2>7 DEF AnswersGrow
<1>6. CASE Restart
  <2>1. inForce' = inForce /\ first' = first /\ answers' = answers /\ last' = None /\ told' = FALSE
    BY <1>6 DEF Restart, tickVars
  <2> QED
    BY <2>1 DEF AnswersGrow, Counts
<1>7. CASE UNCHANGED <<inForce, first, answers, last, told>>
  BY <1>7 DEF AnswersGrow, Counts
<1> QED
  BY <1>1, <1>2, <1>3, <1>4, <1>5, <1>6, <1>7, Kinds DEF Quiet, SendHello, HelloDone, Observe, Timeout,
     TakeRequest, Enqueue, TakeItem, Store, Act, LogMetrics, vars, tickVars, repVars

LEMMA CacheKept ==
  TypeOK /\ LineInOrder /\ KnownBeforePending /\ Dates /\ HelloAhead /\ CacheFresh /\ [Next]_vars
  => CacheFresh'
<1> SUFFICES ASSUME TypeOK, LineInOrder, KnownBeforePending, Dates, HelloAhead, CacheFresh, [Next]_vars,
                    phase' = "observing", cached' # None, cached' > first'
             PROVE  /\ ~Greeting'
                    /\ last' # None => last' >= cached'
                    /\ last' = None => ~told'
                    /\ \A i \in 1..Len(answers') :
                         answers'[i].to = obs' /\ answers'[i].act # None => answers'[i].act >= cached'
  BY DEF CacheFresh
<1>0. /\ obs \in Int /\ first \in 0..obs /\ (cached # None => cached \in Int)
      /\ last # None => last \in 0..obs
      /\ \A i \in 1..Len(answers) : answers[i].to \in 1..obs /\ (answers[i].act # None => answers[i].act \in 0..obs)
  BY Places DEF TypeOK, Action
<1>1. CASE Observe
  <2>1. /\ cached' = last /\ last' = last /\ last # None /\ last > first /\ answers' = answers
        /\ obs' = obs + 1 /\ rep' = rep
    BY <1>1 DEF Observe, repVars
  <2>2. ~Greeting
    BY <1>0, <2>1 DEF HelloAhead, NothingOfThisSimulation
  <2>3. Greeting' => Greeting
    <3>1. Made # Hello
      BY <1>1, MadeIsRequest DEF Observe
    <3> QED
      BY <1>1, <2>1, <3>1, ObserveMoves DEF Greeting
  <2> QED
    BY <1>0, <2>1, <2>2, <2>3
<1>2. CASE ~Observe
  <2>1. phase = "observing" /\ cached' = cached /\ first' = first /\ obs' = obs /\ ~SendHello /\ ~HelloDone
        /\ ~Receive /\ ~Timeout /\ ~NewSimulation
    BY <1>2, Kinds DEF Quiet, SendHello, HelloDone, Receive, Timeout, NewSimulation, TakeRequest, NewAgent,
       NoAgent, SeedCache, Enqueue, Answer, TakeItem, Store, Act, LogMetrics, Restart, vars, tickVars
  <2>2. /\ ~Greeting
        /\ last # None => last >= cached
        /\ last = None => ~told
        /\ \A i \in 1..Len(answers) :
             answers[i].to = obs /\ answers[i].act # None => answers[i].act >= cached
    BY <2>1 DEF CacheFresh
  <2>3. ~NewAgent /\ ~NoAgent /\ ~SeedCache
    BY <2>2, Places DEF NewAgent, NoAgent, SeedCache, Greeting
  <2>4. CASE TakeRequest
    <3>1. /\ 1 \in 1..Len(inbox) /\ Head(inbox) = inbox[1]
          /\ \A i \in 1..Len(inbox') : i + 1 \in 1..Len(inbox) /\ inbox'[i] = inbox[i + 1]
      BY <2>4, Taken DEF TakeRequest, TypeOK
    <3>2. rep' # None => rep'.item = inbox[1]
      BY <2>4, <3>1 DEF TakeRequest, Stage
    <3>3. Greeting' => Greeting
      BY <3>1, <3>2 DEF Greeting, Waits
    <3> QED
      BY <2>1, <2>2, <2>4, <3>3 DEF TakeRequest, tickVars
  <2>5. CASE Enqueue
    <3>1. Greeting' => Greeting
      BY <2>5 DEF Enqueue, Greeting, Waits, Stage
    <3> QED
      BY <2>1, <2>2, <2>5, <3>1 DEF Enqueue, tickVars
  <2>6. CASE Answer
    <3>1. Greeting' => Greeting
      BY <2>6 DEF Answer, Greeting, Waits
    <3>2. \A i \in 1..Len(answers') :
            \/ i \in 1..Len(answers) /\ answers'[i] = answers[i]
            \/ answers'[i].act = IF last = None THEN None ELSE last
      BY <2>2, <2>6, AnswerMoves
    <3> QED
      BY <2>1, <2>2, <2>6, <3>1, <3>2 DEF Answer, tickVars
  <2>7. CASE Act
    <3>1. /\ inbox' = inbox /\ rep' = rep /\ answers' = answers /\ told' = told
          /\ ~agent => last' = last
      BY <2>7 DEF Act, tickVars, repVars
    <3>2. agent => last # None /\ last' >= cached /\ last' # None
      BY <1>0, <2>1, <2>2, <2>7, ActIsNewest, BridgeAssumption DEF Dates
    <3> QED
      BY <2>1, <2>2, <3>1, <3>2 DEF Greeting, Waits
  <2>8. CASE Restart
    <3>1. Len(inbox') = 0 /\ rep' = None /\ answers' = answers /\ last' = None /\ told' = FALSE
      BY <2>8 DEF Restart
    <3> QED
      BY <2>1, <2>2, <3>1 DEF Greeting, Waits
  <2>9. CASE TakeItem \/ Store \/ LogMetrics \/ UNCHANGED vars
    <3>1. UNCHANGED <<inbox, rep, answers, last, told>>
      BY <2>9 DEF TakeItem, Store, LogMetrics, vars, tickVars, repVars
    <3> QED
      BY <2>1, <2>2, <3>1 DEF Greeting, Waits
  <2> QED
    BY <1>2, <2>1, <2>3, <2>4, <2>5, <2>6, <2>7, <2>8, <2>9, Kinds DEF Quiet
<1> QED
  BY <1>1, <1>2

-----------------------------------------------------------------------------
(* The invariant, and what follows from it. *)

\* Store takes the reward of a pending item, which is known, to the previous
\* state, which is not older than anything known.
LEMMA StoredForward ==
  ASSUME TypeOK, LineInOrder, KnownBeforePending, TransitionsForward, [Next]_vars
  PROVE  TransitionsForward'
<1>1. CASE Store
  <2>1. Pending(work.item) /\ work.item \in Request \ {Hello}
    BY <1>1, Places DEF Store, Worked, Pending
  <2>2. work.item.reward # None => work.item.reward \in Int /\ Known(work.item.reward)
    BY <2>1, Requests, BridgeAssumption DEF Known, Action
  <2>3. CASE prev # None /\ agent
    <3>1. /\ stored'.s = prev /\ stored'.r = work.item.reward /\ stored'.next = work.item.obs
      BY <1>1, <2>3 DEF Store
    <3> QED
      BY <2>1, <2>2, <2>3, <3>1 DEF KnownBeforePending, TransitionsForward
  <2>4. CASE stored' = stored
    BY <2>4 DEF TransitionsForward
  <2> QED
    BY <1>1, <2>3, <2>4 DEF Store
<1>2. CASE stored' \in {stored, None}
  BY <1>2 DEF TransitionsForward
<1> QED
  BY <1>1, <1>2, Kinds DEF Quiet, SendHello, HelloDone, Observe, Receive, Timeout, NewSimulation, TakeRequest,
     NewAgent, NoAgent, SeedCache, Enqueue, Answer, TakeItem, Act, LogMetrics, Restart, vars, workVars

LEMMA BridgeInit == Init => BridgeInv
<1> SUFFICES ASSUME Init PROVE BridgeInv
  OBVIOUS
<1>1. Len(inbox) = 0 /\ Len(queue) = 0 /\ Len(answers) = 0
  BY DEF Init
<1>2. LineInOrder
  BY <1>1 DEF Init, LineInOrder, InboxInOrder, QueueInOrder, PlacesInOrder, Pending, Asked, Worked, Waits, Queued
<1>3. Dates /\ HelloAhead /\ AnswersGrow /\ CacheFresh /\ TransitionsForward
  BY <1>1 DEF Init, Dates, HelloAhead, Greeting, Waits, AnswersGrow, CacheFresh, TransitionsForward
<1> QED
  BY <1>2, <1>3, TypesInit, KnownInit DEF BridgeInv

LEMMA BridgeStep == BridgeInv /\ [Next]_vars => BridgeInv'
BY TypesKept, LineKept, KnownKept, DatesKept, HelloKept, AnswersKept, CacheKept, StoredForward DEF BridgeInv

(* The inductive invariant holds of every behaviour of the exchange between   *)
(* MlTick and the service.                                                    *)
THEOREM BridgeInvariant == Spec => []BridgeInv
  BY BridgeInit, BridgeStep, PTL DEF Spec

(* Every state of the exchange has its types.                                *)
THEOREM BridgeTypes == Spec => []TypeOK
<1>1. BridgeInv => TypeOK
  BY DEF BridgeInv
<1> QED
  BY <1>1, BridgeInvariant, PTL

(* What the worker learns from goes forward, with a reward that was earned   *)
(* with an action not newer than its state's, over any number of             *)
(* simulations, restarts, losses and failures.                               *)
THEOREM LearningInOrder == Spec => []TransitionsForward
<1>1. BridgeInv => TransitionsForward
  BY DEF BridgeInv
<1> QED
  BY <1>1, BridgeInvariant, PTL

(* Within a simulation no older action comes back to the links.              *)
THEOREM LinksNeverGoBack == Spec => NeverBackwards
<1>1. BridgeInv /\ [Next]_vars => [first' = first => inForce' >= inForce]_vars
  <2> SUFFICES ASSUME BridgeInv, [Next]_vars, first' = first PROVE inForce' >= inForce
    OBVIOUS
  <2>0. inForce \in Int /\ TypeOK
    BY DEF BridgeInv, TypeOK, Action
  <2>1. CASE Receive
    <3>1. PICK i \in 1..Len(answers) :
            /\ answers[i].to = obs
            /\ inForce' = IF answers[i].act = None THEN inForce ELSE answers[i].act
      BY <2>0, <2>1, ReceiveMoves
    <3>2. obs > first
      BY <2>1 DEF Receive, BridgeInv, Dates
    <3> QED
      BY <2>0, <3>1, <3>2 DEF BridgeInv, AnswersGrow, Counts
  <2>2. CASE NewSimulation
    BY <2>0, <2>2 DEF NewSimulation, TypeOK, Action
  <2>3. CASE inForce' = inForce
    BY <2>0, <2>3
  <2> QED
    BY <2>1, <2>2, <2>3, Kinds DEF Quiet, SendHello, HelloDone, Observe, Timeout, TakeRequest, NewAgent, NoAgent,
       SeedCache, Enqueue, Answer, TakeItem, Store, Act, LogMetrics, Restart, vars, tickVars
<1> QED
  BY <1>1, BridgeInvariant, PTL DEF Spec, NeverBackwards

(* The reply that is taken for an observation is as new as the cache was when *)
(* it was sent.                                                               *)
THEOREM RepliesAlwaysFresh == Spec => RepliesFresh
<1>1. BridgeInv /\ [Next]_vars
      => [phase = "observing" /\ inForce' # inForce /\ cached # None /\ cached > first
          => inForce' >= cached]_vars
  <2> SUFFICES ASSUME BridgeInv, [Next]_vars, phase = "observing", inForce' # inForce,
                      cached # None, cached > first
               PROVE  inForce' >= cached
    OBVIOUS
  <2>1. Receive
    BY Kinds DEF Quiet, SendHello, HelloDone, Observe, Timeout, NewSimulation, TakeRequest, NewAgent, NoAgent,
       SeedCache, Enqueue, Answer, TakeItem, Store, Act, LogMetrics, Restart, vars, tickVars
  <2>2. PICK i \in 1..Len(answers) :
          /\ answers[i].to = obs
          /\ inForce' = IF answers[i].act = None THEN inForce ELSE answers[i].act
    BY <2>1, ReceiveMoves DEF BridgeInv
  <2> QED
    BY <2>2 DEF BridgeInv, CacheFresh
<1> QED
  BY <1>1, BridgeInvariant, PTL DEF Spec, RepliesFresh

-----------------------------------------------------------------------------
(* Where the quotient is a share.                                            *)
LEMMA ShareIn ==
  ASSUME NEW n \in Nat, NEW d \in Nat \ {0}, n <= One * d
  PROVE  n \div d \in 0..One
<1> DEFINE lo == 0
           hi == One
<1>1. n \in Int /\ lo \in Int /\ hi \in Int /\ lo * d <= n /\ n <= hi * d
  BY DEF One
<1> HIDE DEF lo, hi
<1>2. n \div d \in lo..hi
  BY <1>1, QuotientIn
<1> QED BY <1>2 DEF lo, hi

(* Twice a share, moved to the middle.                                       *)
LEMMA SpanIn ==
  ASSUME NEW n \in Nat, NEW d \in Nat \ {0}, n <= (2 * One) * d
  PROVE  n \div d \in Nat /\ n \div d - One \in -One..One
<1> DEFINE lo == 0
           hi == 2 * One
           z == n \div d
<1>1. n \in Int /\ lo \in Int /\ hi \in Int /\ lo * d <= n /\ n <= hi * d
  BY DEF One
<1> HIDE DEF lo, hi
<1>2. z \in lo..hi
  BY <1>1, QuotientIn
<1> HIDE DEF z
<1>3. z \in Nat /\ z - One \in -One..One
  BY <1>2 DEF lo, hi, One
<1> QED BY <1>3 DEF z

(* Quotients grow with what is divided.                                      *)
LEMMA QuotientGrows ==
  ASSUME NEW x \in Int, NEW y \in Int, NEW d \in Nat \ {0}, x <= y
  PROVE  x \div d <= y \div d
<1> DEFINE u == x \div d
           v == y \div d
<1>1. u \in Int /\ v \in Int /\ u * d <= x /\ y < v * d + d
  OBVIOUS
<1> HIDE DEF u, v
<1>2. u * d < (v + 1) * d
  <2>1. (v + 1) * d = v * d + d /\ u * d \in Int /\ v * d \in Int
    BY <1>1
  <2> QED BY <1>1, <2>1
<1>3. u < v + 1
  <2> SUFFICES ASSUME u - (v + 1) \in Nat PROVE FALSE
    BY <1>1
  <2>1. (u - (v + 1)) * d >= 0
    OBVIOUS
  <2>2. (u - (v + 1)) * d = u * d - (v + 1) * d /\ u * d \in Int /\ (v + 1) * d \in Int
    BY <1>1
  <2> QED BY <1>2, <2>1, <2>2
<1>4. u <= v
  BY <1>1, <1>3
<1> QED BY <1>4 DEF u, v

(* A clamped quotient is a share of One.                                     *)
LEMMA FracIn ==
  ASSUME NEW a \in Nat, NEW b \in Nat
  PROVE  Frac(a, b) \in 0..One
<1>1. CASE a >= b
  BY <1>1 DEF Frac, One
<1>2. CASE a < b
  <2>1. b \in Nat \ {0} /\ a * One \in Int /\ 0 * b <= a * One /\ a * One <= One * b
    BY <1>2 DEF One
  <2>2. (a * One) \div b \in 0..One
    BY <2>1, QuotientIn DEF One
  <2> QED BY <1>2, <2>2 DEF Frac
<1> QED BY <1>1, <1>2

(* The largest of a finite set of numbers is one of them.                    *)
LEMMA LargestIn ==
  ASSUME NEW S, IsFiniteSet(S), S \subseteq Int
  PROVE  /\ Largest(S) = 0 \/ Largest(S) \in S
         /\ \A y \in S : y <= Largest(S)
<1>1. CASE S # {}
  <2> DEFINE f == [x \in S |-> x]
  <2>1. \E x \in S : \A y \in S : f[y] <= f[x]
    <3>1. \A x \in S : f[x] \in Int
      OBVIOUS
    <3> HIDE DEF f
    <3> QED BY <1>1, <3>1, Extremes
  <2>2. \E x \in S : \A y \in S : y <= x
    BY <2>1
  <2> QED BY <1>1, <2>2 DEF Largest
<1> QED BY <1>1 DEF Largest

(* The largest of numbers that are not negative is not negative.             *)
LEMMA LargestNat ==
  ASSUME NEW S, IsFiniteSet(S), S \subseteq Nat
  PROVE  Largest(S) \in Nat
<1> DEFINE l == Largest(S)
<1>1. S \subseteq Int
  OBVIOUS
<1>2. l = 0 \/ l \in S
  BY <1>1, LargestIn
<1> HIDE DEF l
<1>3. l \in Nat
  <2>1. CASE l = 0
    BY <2>1
  <2>2. CASE l \in S
    BY <2>2
  <2> QED BY <1>2, <2>1, <2>2
<1> QED BY <1>3 DEF l

-----------------------------------------------------------------------------
(* The terms of the reward.                                                  *)
LEMMA RewardInitType == RewardInit => RewardTypeOK
BY RewardAssumption DEF RewardInit, RewardTypeOK, Tracked

(* No event leaves the types.                                                *)
LEMMA RewardNextType == RewardTypeOK /\ [RewardNext]_rewardVars => RewardTypeOK'
<1> SUFFICES ASSUME RewardTypeOK, [RewardNext]_rewardVars PROVE RewardTypeOK'
  OBVIOUS
<1> USE DEF RewardTypeOK
<1>1. ASSUME NEW p \in Port, NEW r \in Rates, PortStats(p, r) PROVE RewardTypeOK'
  BY <1>1 DEF PortStats
<1>2. ASSUME NEW d \in Deliveries, HostPackets(d) PROVE RewardTypeOK'
  BY <1>2 DEF HostPackets
<1>3. ASSUME NEW s \in Switch, NEW e \in Drains, Drain(s, e) PROVE RewardTypeOK'
  <2> DEFINE x == AtLeast(residual[s] - e, 0)
  <2>0. s \in Tracked \ dead
    BY <1>3 DEF Drain
  <2>1. s \in Tracked \ dead /\ Initial[s] \in Nat /\ Initial[s] > 0 /\ e \in Nat \ {0}
    BY <2>0, RewardAssumption DEF Tracked
  <2>2. residual[s] \in 0..Initial[s]
    BY <2>1
  <2>3. x \in 0..Initial[s] /\ (residual[s] <= e => x = 0)
    BY <2>1, <2>2 DEF AtLeast
  <2>4. /\ residual' = [residual EXCEPT ![s] = x]
        /\ dead' = IF residual[s] <= e THEN dead \cup {s} ELSE dead
        /\ UNCHANGED <<preset, tx, delivery, asleep, churn>>
    BY <1>3 DEF Drain
  <2> HIDE DEF x
  <2>5. residual'[s] = x /\ \A u \in Switch \ {s} : residual'[u] = residual[u]
    BY <2>4
  <2>6. /\ residual' \in [Switch -> Int]
        /\ \A u \in Switch : IF Initial[u] = -1 THEN residual'[u] = -1 ELSE residual'[u] \in 0..Initial[u]
    BY <2>1, <2>3, <2>4, <2>5
  <2>7. dead' \subseteq {u \in Tracked : residual'[u] = 0}
    BY <2>1, <2>3, <2>4, <2>5 DEF Tracked
  <2> QED BY <2>4, <2>6, <2>7
<1>7. ASSUME NEW s \in Switch, ForceDeplete(s) PROVE RewardTypeOK'
  <2>0. s \in Tracked
    BY <1>7 DEF ForceDeplete
  <2>1. Initial[s] \in Nat /\ Initial[s] > 0
    BY <2>0, RewardAssumption DEF Tracked
  <2>2. residual'[s] = 0 /\ \A u \in Switch \ {s} : residual'[u] = residual[u]
    BY <1>7 DEF ForceDeplete
  <2> QED BY <1>7, <2>1, <2>2 DEF ForceDeplete, Tracked
<1>4. ASSUME NEW S \in SUBSET (Switch \ NonSleepable), UpdateSleepStates(S) PROVE RewardTypeOK'
  BY <1>4 DEF UpdateSleepStates
<1>5. ASSUME NEW c \in Churns, ApplyDeltaCosts(c) PROVE RewardTypeOK'
  BY <1>5 DEF ApplyDeltaCosts
<1>6. CASE UNCHANGED rewardVars
  BY <1>6 DEF rewardVars
<1> QED BY <1>1, <1>2, <1>3, <1>4, <1>5, <1>6, <1>7 DEF RewardNext

(* Every switch, port, packet count and label is what it should be: no       *)
(* battery is below zero or above full, and a switch is dead only if its     *)
(* battery is empty (not if: ForceDeplete leaves an empty one to be found).  *)
THEOREM RewardTypes == RewardSpec => []RewardTypeOK
BY RewardInitType, RewardNextType, PTL DEF RewardSpec

(* What is transmitted is never negative.                                    *)
LEMMA TxIn ==
  ASSUME RewardTypeOK, NEW P \in SUBSET Port
  PROVE  TxOf(P) \in Nat
<1>1. IsFiniteSet(P) /\ \A p \in P : tx[p] \in Nat
  BY RewardAssumption, FS_Subset DEF RewardTypeOK
<1> QED BY <1>1, SumNat DEF TxOf

(* The frozen order is finite, and so is what is sent along it.              *)
LEMMA EntriesIn ==
  ASSUME RewardTypeOK
  PROVE  /\ IsFiniteSet(LinkOrder)
         /\ \A e \in LinkOrder : EntryTx[e] \in Nat /\ EntryCapacity(e) \in Nat /\ e[1] \in Switch
<1>1. IsFiniteSet(LinkOrder)
  <2>1. IsFiniteSet(Switch \X Switch)
    BY RewardAssumption, FS_Product
  <2> QED BY <2>1, RewardAssumption, FS_Subset
<1>2. ASSUME NEW e \in LinkOrder PROVE EntryTx[e] \in Nat
  <2> DEFINE P == {p \in Port : At[p] = e[1] /\ Peer[p] = e[2]}
  <2>1. TxOf(P) \in Nat
    BY TxIn
  <2> QED BY <2>1 DEF EntryTx
<1>3. ASSUME NEW e \in LinkOrder PROVE EntryCapacity(e) \in Nat
  <2> DEFINE P == {q \in Port : {At[q], Peer[q]} = {e[1], e[2]}}
             S == {Capacity[p] : p \in P}
  <2>1. IsFiniteSet(P) /\ S \subseteq Nat
    BY RewardAssumption, FS_Subset
  <2>2. IsFiniteSet(S)
    <3> HIDE DEF P
    <3> QED BY <2>1, ImageFinite
  <2>3. EntryCapacity(e) = Largest(S)
    BY DEF EntryCapacity
  <2> HIDE DEF S
  <2>4. Largest(S) \in Nat
    BY <2>1, <2>2, LargestNat
  <2> QED BY <2>3, <2>4
<1> QED BY <1>1, <1>2, <1>3, RewardAssumption

(* The three terms of traffic and power.                                     *)
LEMMA TrafficIn ==
  ASSUME RewardTypeOK
  PROVE  /\ DelayQuality \in 0..One /\ Pdr \in 0..One
         /\ Power \in Nat /\ PowerCost \in 0..One
<1>1. DelayQuality \in 0..One
  <2> DEFINE P == {q \in Port : Capacity[q] > 0}
             D == [p \in P |-> Delay(p)]
             S == {D[p] : p \in P}
             x == Largest(S)
             y == AtLeast(DelayRef, 1)
  <2>1. IsFiniteSet(P)
    BY RewardAssumption, FS_Subset
  <2>2. S \subseteq Nat
    <3> SUFFICES ASSUME NEW p \in Port PROVE Delay(p) \in Nat
      OBVIOUS
    <3> DEFINE u == AtMost(Frac(tx[p], Capacity[p]), One - 1)
               k == One - u
    <3>1. Frac(tx[p], Capacity[p]) \in 0..One
      BY RewardAssumption, FracIn DEF RewardTypeOK
    <3>2. u \in 0..One - 1
      BY <3>1 DEF AtMost, One
    <3>3. k \in Nat \ {0} /\ u \in Nat
      BY <3>2 DEF One
    <3>4. Delay(p) = u \div k
      BY DEF Delay
    <3> HIDE DEF u, k
    <3> QED BY <3>3, <3>4
  <2>3. IsFiniteSet(S)
    <3> HIDE DEF P, D
    <3> QED BY <2>1, ImageFinite
  <2>4. x \in Nat
    <3> HIDE DEF S
    <3> QED BY <2>2, <2>3, LargestNat
  <2>5. y \in Nat
    BY RewardAssumption DEF AtLeast
  <2>6. DelayQuality = One - Frac(x, y)
    <3>1. S = {Delay(p) : p \in P}
      OBVIOUS
    <3> QED BY <3>1 DEF DelayQuality
  <2> HIDE DEF x, y
  <2>7. Frac(x, y) \in 0..One
    BY <2>4, <2>5, FracIn
  <2> QED BY <2>6, <2>7 DEF One
<1>2. Pdr \in 0..One
  <2>1. delivery[1] \in Nat /\ delivery[2] \in Nat
    BY RewardAssumption DEF RewardTypeOK
  <2>2. Frac(delivery[2], delivery[1]) \in 0..One
    BY <2>1, FracIn
  <2> QED BY <2>2 DEF Pdr, One
<1>3. Power \in Nat
  <2> DEFINE f == [s \in Drawing |-> IdlePower + TxOf(PortsOf(s))]
             D == Drawing
  <2>1. IsFiniteSet(D)
    BY RewardAssumption, FS_Subset DEF Drawing, Tracked
  <2>2. \A s \in D : f[s] \in Nat
    <3> TAKE s \in D
    <3>1. PortsOf(s) \in SUBSET Port
      BY DEF PortsOf
    <3>2. TxOf(PortsOf(s)) \in Nat /\ IdlePower \in Nat
      BY <3>1, TxIn, RewardAssumption
    <3> QED BY <3>2
  <2>3. Power = SumOver(f, D)
    BY DEF Power
  <2> HIDE DEF f, D
  <2> QED BY <2>1, <2>2, <2>3, SumNat
<1>4. PowerCost \in 0..One
  <2>1. AtLeast(PowerRef, 1) \in Nat
    BY RewardAssumption DEF AtLeast
  <2> QED BY <1>3, <2>1, FracIn DEF PowerCost
<1> QED BY <1>1, <1>2, <1>3, <1>4

(* The penalty on utilisation, whatever the preset makes of mean and peak.   *)
LEMMA UtilIn ==
  ASSUME RewardTypeOK
  PROVE  UtilPenalty \in 0..One
<1> DEFINE Sized == {e \in LinkOrder : EntryCapacity(e) > 0}
           U == [e \in Sized |-> Frac(EntryTx[e], EntryCapacity(e))]
           S == {U[e] : e \in Sized}
           n == Cardinality(Sized)
           mean == IF Sized = {} THEN 0 ELSE SumOver(U, Sized) \div n
           peak == Largest(S)
<1>1. IsFiniteSet(Sized) /\ \A e \in Sized : U[e] \in 0..One
  BY EntriesIn, FracIn, FS_Subset
<1>2. n \in Nat /\ (Sized # {} => n # 0)
  BY <1>1, FS_CardinalityType, FS_EmptySet
<1>3. mean \in 0..One
  <2>1. CASE Sized = {}
    BY <2>1 DEF One
  <2>2. CASE Sized # {}
    <3> DEFINE z == SumOver(U, Sized)
    <3>1. z \in Nat /\ z <= n * One
      <4>1. One \in Nat
        BY DEF One
      <4> HIDE DEF U, Sized
      <4> QED BY <1>1, <4>1, SumOfShares
    <3>2. mean = z \div n
      BY <2>2
    <3> HIDE DEF mean, z, n
    <3>3. 0 * n <= z /\ z <= One * n /\ n \in Nat \ {0}
      BY <1>2, <2>2, <3>1 DEF One
    <3>4. z \div n \in 0..One
      BY <3>1, <3>3, QuotientIn DEF One
    <3> QED BY <3>2, <3>4
  <2> QED BY <2>1, <2>2
<1>4. peak \in 0..One
  <2>1. IsFiniteSet(S)
    <3> HIDE DEF Sized, U
    <3> QED BY <1>1, ImageFinite
  <2>2. S \subseteq 0..One
    BY <1>1
  <2> HIDE DEF S
  <2>3. S \subseteq Int
    BY <2>2 DEF One
  <2> DEFINE l == Largest(S)
  <2>4. l = 0 \/ l \in S
    BY <2>1, <2>3, LargestIn
  <2> HIDE DEF l
  <2>5. l \in 0..One
    <3>1. CASE l = 0
      BY <3>1 DEF One
    <3>2. CASE l \in S
      BY <2>2, <3>2
    <3> QED BY <2>4, <3>1, <3>2
  <2> QED BY <2>5 DEF l
<1>5. preset \in {"BALANCED", "THROUGHPUT", "ENERGY"}
  BY RewardAssumption DEF RewardTypeOK
<1>6. /\ preset = "THROUGHPUT" => UtilPenalty = peak
      /\ preset = "ENERGY" => UtilPenalty = (80 * mean + (20 * peak * peak) \div One) \div 100
      /\ preset = "BALANCED" => UtilPenalty = (mean + peak) \div 2
  BY DEF UtilPenalty
<1> HIDE DEF mean, peak
<1>7. (80 * mean + (20 * peak * peak) \div One) \div 100 \in 0..One
  <2>1. 0 <= peak * peak /\ peak * peak <= One * One /\ peak * peak \in Int
    BY <1>4 DEF One
  <2> DEFINE x == 20 * peak * peak
             y == x \div One
  <2>2. x \in Int /\ 0 <= x /\ x <= 20 * One * One
    BY <1>4, <2>1 DEF One
  <2>3. y \in 0..20 * One
    <3> HIDE DEF x
    <3> QED BY <2>2 DEF One
  <2> HIDE DEF y
  <2> DEFINE w == 80 * mean + y
  <2>4. w \in Nat /\ w <= One * 100 /\ 100 \in Nat \ {0}
    <3>1. mean \in Int /\ mean >= 0 /\ mean <= One /\ y \in Int /\ y >= 0 /\ y <= 20 * One
      BY <1>3, <2>3 DEF One
    <3> QED BY <3>1 DEF One
  <2>5. w \div 100 \in 0..One
    <3> HIDE DEF w
    <3> QED BY <2>4, ShareIn
  <2> QED BY <2>5 DEF y
<1>8. (mean + peak) \div 2 \in 0..One
  BY <1>3, <1>4 DEF One
<1> QED BY <1>4, <1>5, <1>6, <1>7, <1>8

(* A battery's charge.                                                       *)
LEMMA ChargeIn ==
  ASSUME RewardTypeOK, NEW s \in Switch
  PROVE  Charge(s) \in 0..One
<1>1. CASE s \in Tracked
  <2>1. residual[s] \in Nat /\ Initial[s] \in Nat
    <3>1. Initial[s] \in Nat /\ Initial[s] > 0
      BY <1>1, RewardAssumption DEF Tracked
    <3>2. residual[s] \in 0..Initial[s]
      BY <3>1 DEF RewardTypeOK
    <3> QED BY <3>1, <3>2
  <2>2. Frac(residual[s], Initial[s]) \in 0..One
    BY <2>1, FracIn
  <2> QED BY <1>1, <2>2 DEF Charge
<1>2. CASE s \notin Tracked
  BY <1>2 DEF Charge, One
<1> QED BY <1>1, <1>2

(* What switches send as sources of links.                                   *)
LEMMA SourcesIn ==
  ASSUME RewardTypeOK
  PROVE  /\ \A s \in Switch : SourceTx(s) \in Nat
         /\ TotalTx \in Nat
         /\ SumOver([s \in Switch |-> SourceTx(s)], Switch) = TotalTx
<1>1. IsFiniteSet(LinkOrder) /\ (\A e \in LinkOrder : EntryTx[e] \in Nat) /\ \A e \in LinkOrder : e[1] \in Switch
  BY EntriesIn
<1>2. ASSUME NEW s \in Switch PROVE SourceTx(s) \in Nat
  <2> DEFINE W == {e \in LinkOrder : e[1] = s}
  <2>1. IsFiniteSet(W) /\ \A e \in W : EntryTx[e] \in Nat
    BY <1>1, FS_Subset
  <2>2. SourceTx(s) = SumOver(EntryTx, W)
    BY DEF SourceTx
  <2> HIDE DEF W
  <2> QED BY <2>1, <2>2, SumNat
<1>3. TotalTx \in Nat
  BY <1>1, SumNat DEF TotalTx
<1>4. SumOver([s \in Switch |-> SourceTx(s)], Switch) = TotalTx
  <2> DEFINE h == [e \in LinkOrder |-> e[1]]
             f == EntryTx
             A == [s \in Switch |-> SumOver(f, {e \in LinkOrder : h[e] = s})]
             B == [s \in Switch |-> SourceTx(s)]
  <2>1. A = B
    <3> SUFFICES ASSUME NEW s \in Switch PROVE A[s] = B[s]
      OBVIOUS
    <3>1. {e \in LinkOrder : h[e] = s} = {e \in LinkOrder : e[1] = s}
      OBVIOUS
    <3> QED BY <3>1 DEF SourceTx
  <2>2. (\A e \in LinkOrder : f[e] \in Int) /\ \A e \in LinkOrder : h[e] \in Switch
    BY <1>1
  <2>3. IsFiniteSet(Switch)
    BY RewardAssumption
  <2>4. SumOver(A, Switch) = SumOver(f, LinkOrder)
    <3> HIDE DEF h, f
    <3> QED BY <1>1, <2>2, <2>3, SumOfClasses
  <2> QED BY <2>1, <2>4 DEF TotalTx
<1> QED BY <1>2, <1>3, <1>4

(* The penalty on the footprint counts switches.                             *)
LEMMA FootprintIn ==
  ASSUME RewardTypeOK
  PROVE  FootprintPenalty \in 0..One
<1> DEFINE A == {s \in Switch : /\ \E e \in LinkOrder : e[1] = s
                                /\ SourceTx(s) >= Floor
                                /\ SourceTx(s) * Share >= TotalTx}
           n == Cardinality(A)
           k == Cardinality(Switch)
           d == AtLeast(k, 1)
<1>1. n \in Nat /\ k \in Nat /\ n <= k
  BY RewardAssumption, FS_Subset, FS_CardinalityType
<1>2. FootprintPenalty = (n * One) \div d
  BY DEF FootprintPenalty
<1> HIDE DEF A, n, k
<1>3. d \in Nat \ {0} /\ n <= d
  BY <1>1 DEF AtLeast
<1> HIDE DEF d
<1> DEFINE m == n * One
<1>4. m \in Nat /\ m <= One * d
  BY <1>1, <1>3 DEF One
<1>5. m \div d \in 0..One
  <2> HIDE DEF m
  <2> QED BY <1>3, <1>4, ShareIn
<1> QED BY <1>2, <1>5

(* The penalty on the reserve is a mean, weighted by what switches send.     *)
LEMMA ReserveIn ==
  ASSUME RewardTypeOK
  PROVE  ReservePenalty \in 0..One
<1> DEFINE f == [s \in Switch |-> SourceTx(s) * (One - Charge(s)) * (One - Charge(s))]
           g == [s \in Switch |-> SourceTx(s)]
           h == [s \in Switch |-> (One * One) * SourceTx(s)]
           z == SumOver(f, Switch)
           T == TotalTx
           S == Switch
           c == One * One
<1>1. CASE T = 0
  BY <1>1 DEF ReservePenalty, One
<1>2. CASE T # 0
  <2>1. ReservePenalty = z \div (T * One)
    BY <1>2 DEF ReservePenalty
  <2>2. ASSUME NEW s \in S
        PROVE  f[s] \in Nat /\ g[s] \in Int /\ h[s] \in Int /\ f[s] <= h[s] /\ h[s] = c * g[s]
    <3> DEFINE x == SourceTx(s)
               y == One - Charge(s)
    <3>1. x \in Nat
      BY SourcesIn
    <3>2. y \in 0..One
      BY ChargeIn DEF One
    <3>3. f[s] = x * y * y /\ h[s] = c * x /\ g[s] = x
      OBVIOUS
    <3> HIDE DEF x, y, f, g, h
    <3>4. y * y \in Nat /\ y * y <= c
      BY <3>2 DEF One
    <3>5. x * y * y = x * (y * y) /\ c \in Nat
      BY <3>1, <3>2 DEF One
    <3>6. x * (y * y) \in Nat /\ x * (y * y) <= x * c /\ x * c = c * x /\ c * x \in Int
      <4> HIDE DEF c
      <4> QED BY <3>1, <3>4, <3>5
    <3> HIDE DEF c
    <3> QED BY <3>1, <3>3, <3>5, <3>6
  <2>3. IsFiniteSet(S) /\ c \in Int /\ T \in Nat /\ SumOver(g, S) = T
    BY SourcesIn, RewardAssumption DEF One
  <2>4. SumOver(f, S) \in Nat /\ SumOver(f, S) <= SumOver(h, S) /\ SumOver(h, S) = c * SumOver(g, S)
    <3> HIDE DEF f, g, h, S, c
    <3>1. SumOver(f, S) \in Nat
      BY <2>2, <2>3, SumNat
    <3>2. SumOver(f, S) <= SumOver(h, S)
      <4>1. \A s \in S : f[s] \in Int /\ h[s] \in Int /\ f[s] <= h[s]
        BY <2>2
      <4> QED BY <2>3, <4>1, SumMonotone
    <3>3. SumOver(h, S) = c * SumOver(g, S)
      BY <2>2, <2>3, SumTimes
    <3> QED BY <3>1, <3>2, <3>3
  <2> HIDE DEF f, g, h, S, T
  <2>5. SumOver(f, S) <= c * T
    <3> HIDE DEF c
    <3> DEFINE zf == SumOver(f, S)
               zh == SumOver(h, S)
               zg == SumOver(g, S)
    <3>1. zf <= zh /\ zh = c * zg /\ zg = T
      BY <2>3, <2>4
    <3> HIDE DEF zf, zh, zg
    <3>2. zf <= c * T
      BY <3>1
    <3> QED BY <3>2 DEF zf
  <2>6. z \in Nat /\ z <= c * T
    BY <2>4, <2>5 DEF S
  <2> DEFINE d == T * One
  <2> HIDE DEF z
  <2>7. d \in Nat \ {0} /\ z <= One * d
    BY <1>2, <2>3, <2>6 DEF One
  <2>8. z \div d \in 0..One
    <3> HIDE DEF d
    <3> QED BY <2>6, <2>7, ShareIn
  <2> QED BY <2>1, <2>8
<1> QED BY <1>1, <1>2

(* The spread of the batteries exists: n times the sum of the squares of the *)
(* charges is never below the square of their sum.                           *)
LEMMA BalanceIn ==
  ASSUME RewardTypeOK
  PROVE  BalancePenalty \in 0..One
<1> DEFINE n == Cardinality(Tracked)
           f == [s \in Tracked |-> Charge(s)]
           q == [s \in Tracked |-> Charge(s) * Charge(s)]
           s1 == SumOver(f, Tracked)
           s2 == SumOver(q, Tracked)
           v == n * s2 - s1 * s1
           x == v \div 100
           k == n * 100
           c == One * One
           R == Tracked
<1>1. IsFiniteSet(R) /\ n \in Nat
  BY RewardAssumption, FS_Subset, FS_CardinalityType DEF Tracked
<1>2. \A s \in R : f[s] \in Int /\ q[s] = f[s] * f[s] /\ q[s] \in 0..c
  <2> TAKE s \in R
  <2> DEFINE y == Charge(s)
  <2>1. y \in 0..One
    BY ChargeIn DEF Tracked
  <2>2. f[s] = y /\ q[s] = y * y
    OBVIOUS
  <2> HIDE DEF y
  <2>3. y * y \in Nat /\ y * y <= c /\ c \in Nat
    BY <2>1 DEF One
  <2> HIDE DEF f, q, c
  <2> QED BY <2>1, <2>2, <2>3
<1>3. s1 * s1 <= n * s2
  <2>1. \A s \in R : f[s] \in Int /\ q[s] = f[s] * f[s]
    BY <1>2
  <2> HIDE DEF f, q
  <2> QED BY <1>1, <2>1, SquareOfSum
<1>4. s1 \in Int /\ s2 \in Nat /\ s2 <= n * c
  <2>1. \A s \in R : f[s] \in Int
    BY <1>2
  <2>2. \A s \in R : q[s] \in 0..c
    BY <1>2
  <2>3. c \in Nat
    BY DEF One
  <2> HIDE DEF f, q, c
  <2>4. s1 \in Int
    BY <1>1, <2>1, SumInt
  <2>5. s2 \in Nat /\ s2 <= n * c
    BY <1>1, <2>2, <2>3, SumOfShares
  <2> QED BY <2>4, <2>5
<1>5. Deviation = 10 * CHOOSE r \in 0..k : r * r <= x /\ x < (r + 1) * (r + 1)
  BY DEF Deviation
<1> HIDE DEF n, f, q, s1, s2
<1>6. x \in 0..k * k
  <2>1. v \in Int /\ v >= 0
    <3>1. n * s2 \in Int /\ s1 * s1 \in Int
      BY <1>1, <1>4
    <3> QED BY <1>3, <3>1
  <2>2. v <= 100 * (k * k)
    <3>1. n * s2 <= n * (n * c)
      <4> DEFINE nc == n * c
      <4>1. nc \in Nat
        BY <1>1 DEF One
      <4> HIDE DEF nc, c
      <4>2. n * s2 <= n * nc
        <5>1. s2 <= nc
          BY <1>4 DEF nc
        <5>2. nc - s2 \in Nat
          BY <1>4, <4>1, <5>1
        <5>3. n * (nc - s2) >= 0
          BY <1>1, <5>2
        <5>4. n * (nc - s2) = n * nc - n * s2
          BY <1>1, <1>4, <4>1
        <5> QED BY <1>1, <1>4, <4>1, <5>3, <5>4
      <4> QED BY <4>2 DEF nc
    <3>2. n * (n * c) = 100 * (k * k)
      BY <1>1 DEF One
    <3>3. s1 * s1 >= 0 /\ s1 * s1 \in Int /\ n * s2 \in Int /\ n * (n * c) \in Int
      BY <1>1, <1>4 DEF One
    <3> QED BY <3>1, <3>2, <3>3
  <2>3. k * k \in Nat
    BY <1>1
  <2> DEFINE kk == k * k
  <2>4. v \in Int /\ v >= 0 /\ v <= 100 * kk /\ kk \in Nat
    BY <2>1, <2>2, <2>3
  <2> HIDE DEF v, kk
  <2>5. v \div 100 \in 0..kk
    BY <2>4
  <2> QED BY <2>5 DEF kk
<1>7. k \in Nat
  BY <1>1
<1> HIDE DEF x, k
<1>8. \E r \in 0..k : r * r <= x /\ x < (r + 1) * (r + 1)
  BY <1>6, <1>7, RootExists
<1>9. PICK r \in Nat : Deviation = 10 * r
  <2> DEFINE P(r) == r * r <= x /\ x < (r + 1) * (r + 1)
             r == CHOOSE r \in 0..k : P(r)
  <2>1. r \in 0..k
    <3>1. \E u \in 0..k : P(u)
      BY <1>8
    <3> HIDE DEF P
    <3> QED BY <3>1
  <2>2. Deviation = 10 * r
    BY <1>5
  <2> HIDE DEF r
  <2> QED BY <1>7, <2>1, <2>2
<1>10. CASE Cardinality(Tracked) < 2
  BY <1>10 DEF BalancePenalty, One
<1>11. CASE ~(Cardinality(Tracked) < 2)
  <2> DEFINE z == (2 * Deviation) \div n
  <2>1. BalancePenalty = AtMost(z, One)
    BY <1>11 DEF BalancePenalty, n
  <2>2. z \in Nat
    <3>1. n \in Nat \ {0} /\ 2 * Deviation \in Nat
      BY <1>1, <1>9, <1>11 DEF n
    <3> DEFINE w == 2 * Deviation
    <3> HIDE DEF w
    <3>2. w \div n \in Nat
      BY <3>1 DEF w
    <3> QED BY <3>2 DEF w
  <2> HIDE DEF z
  <2> QED BY <2>1, <2>2 DEF AtMost, One
<1> QED BY <1>10, <1>11

(* The penalty on the weakest battery, at least its distance from the        *)
(* threshold for every living one.                                           *)
LEMMA MinResidualIn ==
  ASSUME RewardTypeOK
  PROVE  /\ MinResidualPenalty \in 0..One
         /\ \A s \in Tracked \ dead :
              Charge(s) < Threshold => MinResidualPenalty >= Frac(Threshold - Charge(s), Threshold)
<1> DEFINE D == [s \in Weakest |-> -Charge(s)]
           S == {-One} \cup {D[s] : s \in Weakest}
           least == -Largest(S)
           l == Largest(S)
<1>1. \A s \in Weakest : D[s] \in -One..0 /\ Charge(s) \in 0..One
  <2> TAKE s \in Weakest
  <2>1. Charge(s) \in 0..One
    BY ChargeIn DEF Weakest, Tracked
  <2> QED BY <2>1 DEF One
<1>2. IsFiniteSet(S)
  <2>1. IsFiniteSet(Weakest)
    BY RewardAssumption, FS_Subset DEF Weakest, Tracked
  <2>2. IsFiniteSet({D[s] : s \in Weakest})
    <3> HIDE DEF D
    <3> QED BY <2>1, ImageFinite
  <2> QED BY <2>2, FS_AddElement
<1>3. S \subseteq -One..0 /\ S \subseteq Int
  BY <1>1 DEF One
<1>4. (l = 0 \/ l \in S) /\ \A y \in S : y <= l
  <2> HIDE DEF S
  <2> QED BY <1>2, <1>3, LargestIn
<1>5. l \in -One..0
  <2>1. CASE l = 0
    BY <2>1 DEF One
  <2>2. CASE l \in S
    <3> HIDE DEF S, l
    <3> QED BY <1>3, <2>2
  <2> QED BY <1>4, <2>1, <2>2
<1>6. MinResidualPenalty = IF least < Threshold THEN Frac(Threshold - least, Threshold) ELSE 0
  <2>1. {-Charge(s) : s \in Weakest} = {D[s] : s \in Weakest}
    OBVIOUS
  <2> QED BY <2>1 DEF MinResidualPenalty
<1>7. ASSUME NEW s \in Weakest PROVE least <= Charge(s)
  <2>1. D[s] <= l
    <3>1. D[s] \in S
      OBVIOUS
    <3> HIDE DEF S, D, l
    <3> QED BY <1>4, <3>1
  <2>2. D[s] = -Charge(s) /\ least = -l
    OBVIOUS
  <2> HIDE DEF D, l, least
  <2> QED BY <1>1, <1>5, <2>1, <2>2 DEF One
<1>8. least \in 0..One
  <2>1. least = -l
    OBVIOUS
  <2> HIDE DEF l, least
  <2> QED BY <1>5, <2>1 DEF One
<1> HIDE DEF least
<1>9. MinResidualPenalty \in 0..One
  <2>1. CASE least < Threshold
    <3> DEFINE a == Threshold - least
               b == Threshold
    <3>1. a \in Nat /\ b \in Nat
      BY <1>8, <2>1 DEF One, Threshold
    <3>2. Frac(a, b) \in 0..One
      <4> HIDE DEF a, b
      <4> QED BY <3>1, FracIn
    <3> QED BY <1>6, <2>1, <3>2
  <2>2. CASE ~(least < Threshold)
    BY <1>6, <2>2 DEF One
  <2> QED BY <2>1, <2>2
<1>10. ASSUME NEW s \in Tracked \ dead, Charge(s) < Threshold
       PROVE  MinResidualPenalty >= Frac(Threshold - Charge(s), Threshold)
  <2> DEFINE c == Charge(s)
  <2>1. c \in 0..One /\ least <= c /\ c < Threshold
    BY <1>1, <1>7, <1>10 DEF Weakest
  <2>2. MinResidualPenalty = Frac(Threshold - least, Threshold)
    BY <1>6, <1>8, <2>1 DEF One, Threshold
  <2> HIDE DEF c
  <2>3. Frac(Threshold - least, Threshold) >= Frac(Threshold - c, Threshold)
    BY <1>8, <2>1 DEF Frac, One, Threshold
  <2> QED BY <2>2, <2>3 DEF c
<1> QED BY <1>9, <1>10

(* Churn is a share by itself.                                               *)
LEMMA ChurnIn == RewardTypeOK => churn \in 0..One
BY RewardAssumption DEF RewardTypeOK

(* The energy penalty is a weighted mean.                                    *)
LEMMA EnergyIn ==
  ASSUME RewardTypeOK
  PROVE  EnergyPenalty \in 0..One
<1> DEFINE p == PowerCost
           u == UtilPenalty
           f == FootprintPenalty
           r == ReservePenalty
           b == BalancePenalty
<1>1. /\ p \in 0..One /\ u \in 0..One /\ f \in 0..One /\ r \in 0..One /\ b \in 0..One
      /\ churn \in 0..One
  BY TrafficIn, UtilIn, FootprintIn, ReserveIn, BalanceIn, ChurnIn
<1>2. EnergyPenalty = (25 * p + 20 * u + 15 * f + 10 * r + 5 * b + 5 * churn) \div 80
  BY DEF EnergyPenalty
<1> HIDE DEF p, u, f, r, b
<1> DEFINE w == 25 * p + 20 * u + 15 * f + 10 * r + 5 * b + 5 * churn
           d == 80
<1>3. w \in Nat /\ w <= One * d /\ d \in Nat \ {0}
  BY <1>1 DEF One
<1>4. EnergyPenalty = w \div d
  BY <1>2
<1> HIDE DEF w, d
<1> QED BY <1>3, <1>4, ShareIn

(* The additive reward spans the interval its weights allow.                 *)
LEMMA AdditiveIn ==
  ASSUME RewardTypeOK, preset # "ENERGY"
  PROVE  Additive \in -One..One
<1> DEFINE q == DelayQuality
           d == Pdr
           p == PowerCost
           u == UtilPenalty
           f == FootprintPenalty
           r == ReservePenalty
           b == BalancePenalty
<1>1. /\ q \in 0..One /\ d \in 0..One /\ p \in 0..One /\ u \in 0..One
      /\ f \in 0..One /\ r \in 0..One /\ b \in 0..One /\ churn \in 0..One
  BY TrafficIn, UtilIn, FootprintIn, ReserveIn, BalanceIn, ChurnIn
<1> DEFINE w == 2 * (10 * q + 20 * d - 15 * p - 10 * u - 5 * f - 15 * r - 10 * b - 10 * churn + 65 * One)
           v == 2 * (25 * q + 30 * d - 3 * p - 10 * u - 0 * f - 2 * r - 2 * b - 10 * churn + 27 * One)
           span == 95
           width == 82
<1>2. preset = "BALANCED" => Additive = w \div span - One
  BY DEF Additive, Weights
<1>3. preset = "THROUGHPUT" => Additive = v \div width - One
  BY DEF Additive, Weights
<1>4. preset \in {"BALANCED", "THROUGHPUT"}
  BY RewardAssumption DEF RewardTypeOK
<1> HIDE DEF q, d, p, u, f, r, b
<1>5. w \in Nat /\ w <= (2 * One) * span /\ span \in Nat \ {0}
  BY <1>1 DEF One
<1>6. v \in Nat /\ v <= (2 * One) * width /\ width \in Nat \ {0}
  BY <1>1 DEF One
<1> HIDE DEF w, v, span, width
<1>7. w \div span - One \in -One..One
  BY <1>5, SpanIn
<1>8. v \div width - One \in -One..One
  BY <1>6, SpanIn
<1> QED BY <1>2, <1>3, <1>4, <1>7, <1>8

(* The analytic bounds hold for every network, whatever its size, its        *)
(* batteries and its traffic.                                                *)
THEOREM RewardAlwaysWithinBounds == RewardSpec => []AnalyticBounds
<1>1. RewardTypeOK => AnalyticBounds
  BY EnergyIn, AdditiveIn DEF AnalyticBounds
<1> QED BY <1>1, RewardTypes, PTL

(* And the battery of one living switch below the floor is enough to keep    *)
(* the gated reward from being positive, however well the others do.         *)
THEOREM BarrierAlwaysBinds == RewardSpec => []BarrierBinds
<1>1. RewardTypeOK => BarrierBinds
  <2> SUFFICES ASSUME RewardTypeOK, preset = "ENERGY", NEW s \in Tracked \ dead, Below(s)
               PROVE  ComputeMlReward <= 0
    BY DEF BarrierBinds
  <2>1. Charge(s) \in 0..One /\ Charge(s) < 100
    <3>1. Charge(s) \in 0..One
      BY ChargeIn DEF Tracked
    <3> QED BY <3>1 DEF Below, AtLeast, Threshold, One
  <2>2. Frac(Threshold - Charge(s), Threshold) >= 717
    <3> DEFINE a == Threshold - Charge(s)
    <3>1. a \in Nat /\ a >= 251 /\ a <= 350
      BY <2>1 DEF Threshold, One
    <3> HIDE DEF a
    <3>2. Frac(a, Threshold) >= 717
      BY <3>1 DEF Frac, One, Threshold
    <3> QED BY <3>2 DEF a
  <2>3. MinResidualPenalty \in 0..One /\ MinResidualPenalty >= 717
    <3>1. Charge(s) < Threshold
      BY <2>1 DEF Threshold
    <3>2. MinResidualPenalty >= Frac(Threshold - Charge(s), Threshold)
      BY <3>1, MinResidualIn
    <3> DEFINE x == Frac(Threshold - Charge(s), Threshold)
    <3>3. x \in 0..One
      <4> DEFINE a == Threshold - Charge(s)
                 b == Threshold
      <4>1. a \in Nat /\ b \in Nat
        BY <2>1 DEF Threshold, One
      <4>2. Frac(a, b) \in 0..One
        <5> HIDE DEF a, b
        <5> QED BY <4>1, FracIn
      <4> QED BY <4>2
    <3>4. MinResidualPenalty \in 0..One
      BY MinResidualIn
    <3>5. x >= 717 /\ MinResidualPenalty >= x
      BY <2>2, <3>2
    <3> HIDE DEF x
    <3> QED BY <3>3, <3>4, <3>5 DEF One
  <2>4. LifeHinge = One
    <3> DEFINE m == MinResidualPenalty
    <3> HIDE DEF m
    <3>1. AtMost((14 * m) \div 10, One) = One
      BY <2>3 DEF m, AtMost, One
    <3> QED BY <3>1 DEF LifeHinge, m
  <2>5. LossHinge \in Nat /\ DelayHinge \in Nat
    BY TrafficIn DEF LossHinge, DelayHinge, AtMost, AtLeast, One
  <2>6. Gated <= 0 /\ Gated \in Int
    BY <2>4, <2>5, EnergyIn DEF Gated, One
  <2> QED BY <2>6 DEF ComputeMlReward, AtLeast, AtMost, One
<1> QED BY <1>1, RewardTypes, PTL

(* A share grows with its numerator.                                         *)
LEMMA FracGrows ==
  ASSUME NEW a \in Nat, NEW b \in Nat, NEW d \in Nat \ {0}, a <= b
  PROVE  Frac(a, d) <= Frac(b, d)
<1>1. CASE b >= d
  <2>1. Frac(a, d) \in 0..One
    BY FracIn
  <2> QED BY <1>1, <2>1 DEF Frac, One
<1>2. CASE b < d
  <2> DEFINE x == a * One
             y == b * One
  <2>1. x \in Int /\ y \in Int /\ x <= y
    BY DEF One
  <2> HIDE DEF x, y
  <2>2. x \div d <= y \div d
    BY <2>1, QuotientGrows
  <2>3. ~(a >= d) /\ ~(b >= d)
    BY <1>2
  <2> QED BY <2>2, <2>3 DEF Frac, x, y
<1> QED BY <1>1, <1>2

(* Labels are read for the power alone.                                      *)
LEMMA LabelsAlone ==
  ASSUME UNCHANGED <<preset, tx, delivery, residual, dead, churn>>
  PROVE  /\ DelayQuality' = DelayQuality /\ Pdr' = Pdr /\ UtilPenalty' = UtilPenalty
         /\ FootprintPenalty' = FootprintPenalty /\ ReservePenalty' = ReservePenalty
         /\ BalancePenalty' = BalancePenalty /\ MinResidualPenalty' = MinResidualPenalty
<1>1. DelayQuality' = DelayQuality
  BY DEF DelayQuality, Delay
<1>2. Pdr' = Pdr
  BY DEF Pdr
<1>3. UtilPenalty' = UtilPenalty
  BY DEF UtilPenalty, EntryTx, EntryCapacity, TxOf
<1>4. FootprintPenalty' = FootprintPenalty
  BY DEF FootprintPenalty, SourceTx, TotalTx, EntryTx, TxOf
<1>5. ReservePenalty' = ReservePenalty
  BY DEF ReservePenalty, SourceTx, TotalTx, EntryTx, TxOf, Charge, Tracked
<1>6. BalancePenalty' = BalancePenalty
  BY DEF BalancePenalty, Deviation, Charge, Tracked
<1>7. MinResidualPenalty' = MinResidualPenalty
  BY DEF MinResidualPenalty, Weakest, Charge, Tracked
<1> QED BY <1>1, <1>2, <1>3, <1>4, <1>5, <1>6, <1>7

(* Whatever the network, the traffic and the preset, more sleepers never     *)
(* make the reward smaller.                                                  *)
THEOREM SleepingNeverCosts == RewardSpec => SleepNeverCosts
<1>1. RewardTypeOK /\ [RewardNext]_rewardVars
      => [asleep' # asleep /\ asleep \subseteq asleep' => ComputeMlReward' >= ComputeMlReward]_rewardVars
  <2> SUFFICES ASSUME RewardTypeOK, RewardNext, asleep' # asleep, asleep \subseteq asleep'
               PROVE  ComputeMlReward' >= ComputeMlReward
    BY DEF rewardVars
  <2>1. UNCHANGED <<preset, tx, delivery, residual, dead, churn>>
    BY DEF RewardNext, PortStats, HostPackets, ForceDeplete, Drain, UpdateSleepStates, ApplyDeltaCosts
  <2>3. Power' <= Power /\ Power' \in Nat /\ Power \in Nat
    <3> DEFINE D == Tracked \ asleep
               E == Tracked \ asleep'
               f == [s \in D |-> IdlePower + TxOf(PortsOf(s))]
               g == [s \in E |-> IdlePower + TxOf(PortsOf(s))]
    <3>1. E \in SUBSET D /\ IsFiniteSet(D) /\ IsFiniteSet(E)
      BY RewardAssumption, FS_Subset DEF Tracked
    <3>2. \A s \in D : f[s] \in Nat
      <4> TAKE s \in D
      <4>1. PortsOf(s) \in SUBSET Port
        BY DEF PortsOf
      <4>2. TxOf(PortsOf(s)) \in Nat /\ IdlePower \in Nat
        BY <4>1, TxIn, RewardAssumption
      <4> QED BY <4>2
    <3>3. \A s \in E : f[s] = g[s]
      BY <3>1
    <3>4. Power = SumOver(f, D) /\ Power' = SumOver(g, E)
      BY <2>1 DEF Power, Drawing, TxOf
    <3> HIDE DEF D, E, f, g
    <3>5. SumOver(f, E) <= SumOver(f, D)
      BY <3>1, <3>2, SumOfPart
    <3>6. SumOver(f, E) = SumOver(g, E)
      <4>1. \A s \in E : f[s] \in Int /\ g[s] = f[s]
        BY <3>1, <3>2, <3>3
      <4> QED BY <3>1, <4>1, SumEqual
    <3>7. SumOver(f, E) \in Nat /\ SumOver(f, D) \in Nat
      <4>1. \A s \in E : f[s] \in Nat
        BY <3>1, <3>2
      <4> QED BY <3>1, <3>2, <4>1, SumNat
    <3> QED BY <3>4, <3>5, <3>6, <3>7
  <2>4. PowerCost' <= PowerCost /\ PowerCost' \in 0..One /\ PowerCost \in 0..One
    <3> DEFINE d == AtLeast(PowerRef, 1)
    <3>1. d \in Nat \ {0}
      BY RewardAssumption DEF AtLeast
    <3>2. PowerCost = Frac(Power, d) /\ PowerCost' = Frac(Power', d)
      BY DEF PowerCost
    <3> HIDE DEF d
    <3>3. d \in Nat
      BY <3>1
    <3> QED BY <2>3, <3>1, <3>2, <3>3, FracGrows, FracIn
  <2> DEFINE p == PowerCost
             p1 == PowerCost'
             q == DelayQuality
             d == Pdr
             u == UtilPenalty
             f == FootprintPenalty
             r == ReservePenalty
             b == BalancePenalty
             m == MinResidualPenalty
  <2>5. /\ q \in 0..One /\ d \in 0..One /\ p \in 0..One /\ u \in 0..One /\ p1 \in 0..One /\ p1 <= p
        /\ f \in 0..One /\ r \in 0..One /\ b \in 0..One /\ m \in 0..One /\ churn \in 0..One
    BY <2>4, TrafficIn, UtilIn, FootprintIn, ReserveIn, BalanceIn, ChurnIn, MinResidualIn
  <2>6. EnergyPenalty' <= EnergyPenalty /\ EnergyPenalty \in Int /\ EnergyPenalty' \in Int
    <3> DEFINE w == 25 * p + 20 * u + 15 * f + 10 * r + 5 * b + 5 * churn
               v == 25 * p1 + 20 * u + 15 * f + 10 * r + 5 * b + 5 * churn
               k == 80
    <3>1. EnergyPenalty = w \div k
      BY DEF EnergyPenalty
    <3>2. EnergyPenalty' = v \div k
      BY <2>1, LabelsAlone DEF EnergyPenalty
    <3> HIDE DEF p, p1, u, f, r, b
    <3>3. w \in Int /\ v \in Int /\ v <= w /\ k \in Nat \ {0}
      BY <2>5 DEF One
    <3> HIDE DEF w, v, k
    <3>4. v \div k <= w \div k /\ v \div k \in Int /\ w \div k \in Int
      BY <3>3, QuotientGrows
    <3> QED BY <3>1, <3>2, <3>4
  <2>7. Gated' >= Gated /\ Gated' \in Int /\ Gated \in Int
    <3>1. LossHinge' = LossHinge /\ DelayHinge' = DelayHinge /\ LifeHinge' = LifeHinge
      BY <2>1, LabelsAlone DEF LossHinge, DelayHinge, LifeHinge
    <3>2. LossHinge \in Int /\ DelayHinge \in Int
      BY <2>5 DEF LossHinge, DelayHinge, AtMost, AtLeast, One
    <3>3. LifeHinge \in Int
      <4>1. LifeHinge = AtMost((14 * m) \div 10, One)
        BY DEF LifeHinge
      <4> HIDE DEF m
      <4> QED BY <2>5, <4>1 DEF AtMost, One
    <3> DEFINE e == EnergyPenalty
               e1 == EnergyPenalty'
               x == LossHinge
               y == DelayHinge
               z == LifeHinge
    <3>4. Gated = One - 2 * e - x - y - z
      BY DEF Gated
    <3>5. Gated' = One - 2 * e1 - x - y - z
      BY <3>1 DEF Gated
    <3>6. e \in Int /\ e1 \in Int /\ e1 <= e /\ x \in Int /\ y \in Int /\ z \in Int /\ One \in Int
      BY <2>6, <3>2, <3>3 DEF One
    <3> HIDE DEF e, e1, x, y, z
    <3> QED BY <3>4, <3>5, <3>6
  <2>8. preset # "ENERGY" => Additive' >= Additive /\ Additive' \in Int /\ Additive \in Int
    <3> DEFINE base(x) == 2 * (10 * q + 20 * d - 15 * x - 10 * u - 5 * f - 15 * r - 10 * b - 10 * churn + 65 * One)
               fast(x) == 2 * (25 * q + 30 * d - 3 * x - 10 * u - 0 * f - 2 * r - 2 * b - 10 * churn + 27 * One)
               k == 95
               l == 82
    <3>1. preset = "BALANCED" => Additive = base(p) \div k - One /\ Additive' = base(p1) \div k - One
      BY <2>1, LabelsAlone DEF Additive, Weights
    <3>2. preset = "THROUGHPUT" => Additive = fast(p) \div l - One /\ Additive' = fast(p1) \div l - One
      BY <2>1, LabelsAlone DEF Additive, Weights
    <3>3. preset \in {"BALANCED", "THROUGHPUT", "ENERGY"}
      BY RewardAssumption DEF RewardTypeOK
    <3> HIDE DEF q, d, p, p1, u, f, r, b
    <3>4. base(p) \in Int /\ base(p1) \in Int /\ base(p) <= base(p1) /\ k \in Nat \ {0}
      BY <2>5 DEF One
    <3>5. fast(p) \in Int /\ fast(p1) \in Int /\ fast(p) <= fast(p1) /\ l \in Nat \ {0}
      BY <2>5 DEF One
    <3> HIDE DEF base, fast, k, l
    <3>6. base(p) \div k <= base(p1) \div k /\ base(p) \div k \in Int /\ base(p1) \div k \in Int
      BY <3>4, QuotientGrows
    <3>7. fast(p) \div l <= fast(p1) \div l /\ fast(p) \div l \in Int /\ fast(p1) \div l \in Int
      BY <3>5, QuotientGrows
    <3> QED BY <3>1, <3>2, <3>3, <3>6, <3>7 DEF One
  <2>9. preset' = preset
    BY <2>1
  <2> DEFINE cut(x) == AtLeast(AtMost(x, One), -One)
  <2>10. ASSUME NEW x \in Int, NEW y \in Int, y >= x PROVE cut(y) >= cut(x)
    BY <2>10 DEF AtLeast, AtMost, One
  <2>11. CASE preset = "ENERGY"
    <3>1. ComputeMlReward = cut(Gated) /\ ComputeMlReward' = cut(Gated')
      BY <2>9, <2>11 DEF ComputeMlReward, AtLeast, AtMost, One
    <3> HIDE DEF cut
    <3> QED BY <2>7, <2>10, <3>1
  <2>12. CASE preset # "ENERGY"
    <3>1. ComputeMlReward = cut(Additive) /\ ComputeMlReward' = cut(Additive')
      BY <2>9, <2>12 DEF ComputeMlReward, AtLeast, AtMost, One
    <3> HIDE DEF cut
    <3> QED BY <2>8, <2>10, <2>12, <3>1
  <2> QED BY <2>11, <2>12
<1> QED BY <1>1, RewardTypes, PTL DEF RewardSpec, SleepNeverCosts
=============================================================================
