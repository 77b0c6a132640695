------------------------------- MODULE FedAvg -------------------------------
(***************************************************************************)
(* Federated averaging over a shared directory: the training thread of     *)
(* every ML service (src/python/controller/ml_service.py) and the root     *)
(* aggregator (src/python/controller/root_aggregator.py).                  *)
(*                                                                         *)
(* Files appear whole (written aside, then renamed), so a file is a round  *)
(* number in a set; temporary files are never read.  Weights are left out: *)
(* the properties are about rounds.  Time is left out too: a timeout may   *)
(* strike whenever the code is waiting for it.                             *)
(***************************************************************************)
EXTENDS Integers, FiniteSetsExt

CONSTANTS Worker,
          MaxRound,    \* bound: rounds from MaxRound on are not modelled
          MaxCrashes,  \* bound: how often each process may crash
          BadFiles,    \* a file may fail to be written, loaded or accepted
          CleanUp      \* --clean-up of the aggregator

ASSUME FedAvgAssumption ==
  /\ Worker # {}
  /\ MaxRound \in Nat /\ MaxCrashes \in Nat
  /\ BadFiles \in BOOLEAN /\ CleanUp \in BOOLEAN

Root == "root"
Round == 0..MaxRound

VARIABLES
  state,    \* of a worker: down, training or waiting for the global model
  round,    \* _fedavg_round of a worker
  adopted,  \* history: the round a worker's actor was last loaded from
  lost,     \* history: rounds that some worker could not write its file for
  files,    \* worker_<w>_round_<r>.pt: the rounds a worker has a file for
  globals,  \* global_round_<r>.pt
  root,     \* of the aggregator: down, waiting, averaging or cleaning
  next,     \* next_round
  batch,    \* workers whose files are still to be removed
  crashes   \* crashes so far, of each worker and of the aggregator

workerVars == <<state, round, adopted, lost>>
rootVars == <<root, next, batch>>
fedVars == <<workerVars, files, globals, rootVars, crashes>>

FedInit ==
  /\ state = [w \in Worker |-> "down"]
  /\ round = [w \in Worker |-> 0]
  /\ adopted = [w \in Worker |-> -1]
  /\ lost = {}
  /\ files = [w \in Worker |-> {}]
  /\ globals = {}
  /\ root = "down" /\ next = 0 /\ batch = {}
  /\ crashes = [p \in Worker \cup {Root} |-> 0]

Submitted(r) == {w \in Worker : r \in files[w]}

-----------------------------------------------------------------------------
\* Mutant of DetectRound: the first round that has no global model, which may be
\* a dropped one.
DetectRoundGap == Min((0..MaxRound + 1) \ globals)

\* _detect_resume_round of a worker and _detect_next_round of the aggregator.
DetectRound == IF globals = {} THEN 0 ELSE Max(globals) + 1

WorkerStart(w) ==
  /\ state[w] = "down"
  /\ state' = [state EXCEPT ![w] = "training"]
  /\ round' = [round EXCEPT ![w] = DetectRound]
  /\ UNCHANGED <<adopted, lost, files, globals, rootVars, crashes>>

WorkerCrash(w) ==
  /\ state[w] # "down" /\ crashes[w] < MaxCrashes
  /\ state' = [state EXCEPT ![w] = "down"]
  /\ crashes' = [crashes EXCEPT ![w] = @ + 1]
  /\ UNCHANGED <<round, adopted, lost, files, globals, rootVars>>

\* _do_fedavg_round up to the wait, every fedavg-every-steps training steps.
Submit(w) ==
  /\ state[w] = "training" /\ round[w] < MaxRound
  /\ state' = [state EXCEPT ![w] = "waiting"]
  /\ files' = [files EXCEPT ![w] = @ \cup {round[w]}]
  /\ UNCHANGED <<round, adopted, lost, globals, rootVars, crashes>>

\* Whatever becomes of the round, the worker's counter moves on.
Return(w) ==
  /\ state' = [state EXCEPT ![w] = "training"]
  /\ round' = [round EXCEPT ![w] = @ + 1]
  /\ UNCHANGED <<files, globals, rootVars, crashes>>

\* torch.save raises: the round is over before anything was submitted.
SubmitFails(w) ==
  /\ BadFiles
  /\ state[w] = "training" /\ round[w] < MaxRound
  /\ lost' = lost \cup {round[w]}
  /\ UNCHANGED adopted
  /\ Return(w)

LoadGlobal(w) ==
  /\ state[w] = "waiting" /\ round[w] \in globals
  /\ adopted' = [adopted EXCEPT ![w] = round[w]]
  /\ UNCHANGED lost
  /\ Return(w)

LoadFails(w) ==
  /\ BadFiles
  /\ state[w] = "waiting" /\ round[w] \in globals
  /\ UNCHANGED <<adopted, lost>>
  /\ Return(w)

\* The global model may have appeared since the last look.
WaitTimeout(w) ==
  /\ state[w] = "waiting"
  /\ UNCHANGED <<adopted, lost>>
  /\ Return(w)

-----------------------------------------------------------------------------
AggregatorStart ==
  /\ root = "down"
  /\ root' = "waiting" /\ next' = DetectRound /\ batch' = {}
  /\ UNCHANGED <<workerVars, files, globals, crashes>>

AggregatorCrash ==
  /\ root # "down" /\ crashes[Root] < MaxCrashes
  /\ root' = "down"
  /\ crashes' = [crashes EXCEPT ![Root] = @ + 1]
  /\ UNCHANGED <<workerVars, files, globals, next, batch>>

\* _wait_for_round returns: every worker has a file for the round.
Collect ==
  /\ root = "waiting" /\ Submitted(next) = Worker
  /\ root' = "averaging"
  /\ UNCHANGED <<workerVars, files, globals, next, batch, crashes>>

\* What a scan of the directory may have found: files can appear after it.
Scans == SUBSET Submitted(next)

\* Mutant of DropRound: the files of a dropped round are removed as well.
DropRoundFiles ==
  /\ root = "waiting" /\ \E found \in Scans : found \notin {{}, Worker}
  /\ next' = next + 1
  /\ files' = [w \in Worker |-> files[w] \ {next}]
  /\ UNCHANGED <<workerVars, globals, root, batch, crashes>>

\* _wait_for_round times out, which it can only do once a file is there.
DropRound ==
  /\ root = "waiting" /\ \E found \in Scans : found \notin {{}, Worker}
  /\ next' = next + 1
  /\ UNCHANGED <<workerVars, files, globals, root, batch, crashes>>

\* A file cannot be loaded, has another architecture or another shape.
RejectRound ==
  /\ BadFiles
  /\ root = "averaging"
  /\ root' = "waiting" /\ next' = next + 1
  /\ UNCHANGED <<workerVars, files, globals, batch, crashes>>

Publish ==
  /\ root = "averaging"
  /\ globals' = globals \cup {next}
  /\ root' = "cleaning"
  /\ batch' = IF CleanUp THEN Worker ELSE {}
  /\ UNCHANGED <<workerVars, files, next, crashes>>

RemoveFile(w) ==
  /\ root = "cleaning" /\ w \in batch
  /\ files' = [files EXCEPT ![w] = @ \ {next}]
  /\ batch' = batch \ {w}
  /\ UNCHANGED <<workerVars, globals, root, next, crashes>>

NextRound ==
  /\ root = "cleaning" /\ batch = {}
  /\ root' = "waiting" /\ next' = next + 1
  /\ UNCHANGED <<workerVars, files, globals, batch, crashes>>

RootStep ==
  \/ AggregatorStart \/ Collect \/ DropRound \/ RejectRound \/ Publish
  \/ (\E w \in Worker : RemoveFile(w)) \/ NextRound

\* The bound: every worker is at MaxRound, which nobody submits to.
RoundsOver ==
  /\ \A w \in Worker : state[w] = "training" /\ round[w] = MaxRound
  /\ UNCHANGED fedVars

FedNext ==
  \/ RootStep \/ AggregatorCrash \/ RoundsOver
  \/ \E w \in Worker :
       \/ WorkerStart(w) \/ WorkerCrash(w) \/ Submit(w) \/ SubmitFails(w)
       \/ LoadGlobal(w) \/ LoadFails(w) \/ WaitTimeout(w)

FedSpec == FedInit /\ [][FedNext]_fedVars

\* The aggregator is a loop that polls, and is started again after a crash.
FedFairSpec == FedSpec /\ WF_fedVars(RootStep)

-----------------------------------------------------------------------------
FedTypeOK ==
  /\ state \in [Worker -> {"down", "training", "waiting"}]
  /\ round \in [Worker -> Round]
  /\ adopted \in [Worker -> Round \cup {-1}]
  /\ lost \in SUBSET Round
  /\ files \in [Worker -> SUBSET Round]
  /\ globals \in SUBSET Round
  /\ root \in {"down", "waiting", "averaging", "cleaning"}
  /\ next \in Round
  /\ batch \in SUBSET Worker
  /\ crashes \in [Worker \cup {Root} -> 0..MaxCrashes]

(* Whatever crashes, timeouts and restarts there are, global models come in  *)
(* increasing rounds, each once, and a worker never goes back to one.        *)
Log == INSTANCE FederationLog WITH published <- globals
LogSpec == Log!Spec

\* Some live worker is past round r, so it will not submit to it any more.
Passed(r) == \E w \in Worker : state[w] # "down" /\ round[w] > r

(* The aggregator never waits for a round that workers have left without     *)
(* leaving it a file, unless a save failed: its timeout only starts at the   *)
(* first file, so it would wait for ever.                                    *)
NoOrphanRound ==
  root = "waiting" /\ Passed(next) /\ next \notin lost => Submitted(next) # {}

(* So it gets past every round that a worker has got past, unless the worker *)
(* stops first or some round up to it was lost.                              *)
AggregatorKeepsUp ==
  \A r \in 0..MaxRound - 1 :
    Passed(r) ~> \/ next > r /\ root # "down"
                 \/ ~Passed(r)
                 \/ \E q \in lost : q <= r
=============================================================================
