----------------------------- MODULE Checkpoint -----------------------------
(***************************************************************************)
(* The checkpoints of the ML service (src/python/controller/ml_service.py): *)
(* the periodic save of the worker thread, the save that SIGTERM makes of   *)
(* the main thread, and the resume of a hello, with processes that are      *)
(* stopped, killed and started again.                                       *)
(*                                                                         *)
(* Weights are abstracted to the number of training steps in them.  Both    *)
(* threads save by the same two temporary files; an open file is a file of  *)
(* the disk that may be renamed meanwhile.  The worker's queue always has   *)
(* an item, and agents can always be built: module MlBridge has the rest.   *)
(***************************************************************************)
EXTENDS Integers, FiniteSets

CONSTANTS None,
          Every,    \* checkpoint_every
          MaxSteps  \* bound on the training steps of an agent

File == [steps : 0..MaxSteps, state : {"partial", "whole", "mixed"}]

ASSUME CheckpointAssumption ==
  /\ Every \in Nat \ {0}
  /\ MaxSteps \in Nat
  /\ None \notin 0..MaxSteps \cup File

Thread == {"main", "worker"}
Other(t) == IF t = "main" THEN "worker" ELSE "main"
Name == {"weights", "replay"}   \* local.pt and replay.pkl
Saving == {"open", "write", "replace"}
Place == [t \in Thread |->
            Saving \cup IF t = "main" THEN {"serve", "load weights", "load replay"}
                       ELSE {"wait", "train", "checkpoint"}]

VARIABLES
  up,       \* the process runs
  agent,    \* steps in the weights of self.agent, or None
  held,     \* the agent the worker saves, once self.agent is another one
  pc,       \* where each thread is
  file,     \* the file it saves
  taken,    \* _train_steps, modulo checkpoint_every
  path,     \* the two files of a checkpoint
  tmp,      \* their temporary files
  mishaps   \* history: what has happened that may cost progress

vars == <<up, agent, held, pc, file, taken, path, tmp, mishaps>>
disk == <<path, tmp>>

Missing == [f \in Name |-> None]
Idle == [t \in Thread |-> IF t = "main" THEN "serve" ELSE "wait"]
First == [t \in Thread |-> "weights"]

Init ==
  /\ up = FALSE
  /\ agent = None
  /\ held = None
  /\ pc = Idle
  /\ file = First
  /\ taken = 0
  /\ path = Missing
  /\ tmp = Missing
  /\ mishaps = {}

Saves(t) == pc[t] \in Saving
Stopping == Saves("main")
Resuming == pc["main"] \in {"load weights", "load replay"}
Saved == IF path["weights"] = None THEN 0 ELSE path["weights"].steps

Mishap(what) == mishaps' = mishaps \cup what

-----------------------------------------------------------------------------
Start ==
  /\ ~up
  /\ up' = TRUE
  /\ UNCHANGED <<agent, held, pc, file, taken, disk, mishaps>>

\* Nothing but the files outlives the process.
Ended ==
  /\ up' = FALSE
  /\ agent' = None
  /\ held' = None
  /\ pc' = Idle
  /\ file' = First
  /\ taken' = 0

Kill == up /\ Ended /\ UNCHANGED <<disk, mishaps>>

\* SIGTERM interrupts the main thread wherever it is, a hello included, and
\* its finally block saves what self.agent is by then.
Terminate ==
  /\ up
  /\ ~Stopping
  /\ IF agent = None THEN Ended
     ELSE /\ pc' = [pc EXCEPT !["main"] = "open"]
          /\ UNCHANGED <<up, agent, held, file, taken>>
  /\ Mishap(IF Resuming THEN {"raced"} ELSE {})
  /\ UNCHANGED disk

-----------------------------------------------------------------------------
\* _handle_hello replaces the agent before it loads the checkpoint, while the
\* worker may be anywhere.
NewAgent(resume) ==
  /\ up
  /\ pc["main"] = "serve"
  /\ agent' = 0
  /\ held' = IF Saves("worker") /\ held = None THEN agent ELSE held
  /\ pc' = [pc EXCEPT !["main"] = IF resume THEN "load weights" ELSE "serve"]
  /\ Mishap((IF pc["worker"] # "wait" THEN {"raced"} ELSE {})
              \cup (IF resume THEN {} ELSE {"fresh"}))
  /\ UNCHANGED <<up, file, taken, disk>>

Readable(f) == path[f] # None /\ path[f].state = "whole"

\* Mutant of CanLoad: weights are refused without their replay buffer.
CanLoadBoth == Readable("weights") /\ Readable("replay")

CanLoad == Readable("weights")

\* maybe_load_checkpoint: without weights the agent stays a fresh one.
LoadWeights ==
  /\ pc["main"] = "load weights"
  /\ IF CanLoad
     THEN /\ agent' = path["weights"].steps
          /\ pc' = [pc EXCEPT !["main"] = "load replay"]
     ELSE /\ pc' = [pc EXCEPT !["main"] = "serve"]
          /\ UNCHANGED agent
  /\ UNCHANGED <<up, held, file, taken, disk, mishaps>>

\* The replay buffer, and what ends the hello; if it cannot be read, the agent
\* starts with an empty one.
LoadReplay ==
  /\ pc["main"] = "load replay"
  /\ pc' = [pc EXCEPT !["main"] = "serve"]
  /\ UNCHANGED <<up, agent, held, file, taken, disk, mishaps>>

-----------------------------------------------------------------------------
TakeItem ==
  /\ up
  /\ ~Stopping
  /\ pc["worker"] = "wait"
  /\ agent # None
  /\ pc' = [pc EXCEPT !["worker"] = "train"]
  /\ Mishap(IF Resuming THEN {"raced"} ELSE {})
  /\ UNCHANGED <<up, agent, held, file, taken, disk>>

\* Mutant of Counted: an item too many between two checkpoints.
CountedPast == (taken + 1) % (Every + 1)

Counted == (taken + 1) % Every

\* train_step may have too few transitions, or the simulation may not learn.
Train ==
  /\ pc["worker"] = "train"
  /\ agent' \in {agent, agent + 1} \cap 0..MaxSteps
  /\ taken' = Counted
  /\ pc' = [pc EXCEPT !["worker"] = "checkpoint"]
  /\ UNCHANGED <<up, held, file, disk, mishaps>>

PeriodicSave ==
  /\ pc["worker"] = "checkpoint"
  /\ pc' = [pc EXCEPT !["worker"] = IF taken = 0 THEN "open" ELSE "wait"]
  /\ UNCHANGED <<up, agent, held, file, taken, disk, mishaps>>

-----------------------------------------------------------------------------
\* What thread t saves.
Steps(t) == IF t = "worker" /\ held # None THEN held ELSE agent

\* The end of save_checkpoint: the worker goes on, the process ends.
EndSave(t) ==
  IF t = "main" THEN Ended
  ELSE /\ pc' = [pc EXCEPT !["worker"] = "wait"]
       /\ file' = [file EXCEPT !["worker"] = "weights"]
       /\ held' = None
       /\ UNCHANGED <<up, agent, taken>>

GoTo(t, step) ==
  /\ pc' = [pc EXCEPT ![t] = step]
  /\ UNCHANGED <<up, agent, held, taken>>

\* Mutant of Open: the checkpoint is written in place.
OpenInPlace(t) ==
  /\ pc[t] = "open"
  /\ path' = [path EXCEPT ![file[t]] = [steps |-> 0, state |-> "partial"]]
  /\ GoTo(t, "write")
  /\ Mishap(IF Saves(Other(t)) THEN {"collided"} ELSE {})
  /\ UNCHANGED <<file, tmp>>

\* Opening the temporary file empties it, for the thread that has it open already too.
Open(t) ==
  LET o == Other(t)
      Shared == pc[o] = "write" /\ file[o] = file[t] /\ tmp[file[t]] # None
  IN  /\ pc[t] = "open"
      /\ tmp' = [tmp EXCEPT ![file[t]] =
           [steps |-> 0, state |-> IF Shared THEN "mixed" ELSE "partial"]]
      /\ GoTo(t, "write")
      /\ Mishap(IF Saves(o) THEN {"collided"} ELSE {})
      /\ UNCHANGED <<file, path>>

\* Of a replay buffer only its presence is kept.
Written(old, t) ==
  IF old.state = "mixed" THEN old
  ELSE [steps |-> IF file[t] = "weights" THEN Steps(t) ELSE 0, state |-> "whole"]

\* If the other thread has renamed the file meanwhile, it is written all the same.
Write(t) ==
  LET f == file[t]
  IN  /\ pc[t] = "write"
      /\ IF tmp[f] # None
         THEN tmp' = [tmp EXCEPT ![f] = Written(tmp[f], t)] /\ UNCHANGED path
         ELSE path' = [path EXCEPT ![f] = Written(path[f], t)] /\ UNCHANGED tmp
      /\ GoTo(t, "replace")
      /\ UNCHANGED <<file, mishaps>>

\* The other thread may have taken the temporary file: an exception, and
\* nothing more is saved.
Replace(t) ==
  LET f == file[t]
  IN  /\ pc[t] = "replace"
      /\ IF tmp[f] = None THEN UNCHANGED disk
         ELSE /\ path' = [path EXCEPT ![f] = tmp[f]]
              /\ tmp' = [tmp EXCEPT ![f] = None]
      /\ IF tmp[f] # None /\ f = "weights"
         THEN GoTo(t, "open") /\ file' = [file EXCEPT ![t] = "replay"]
         ELSE EndSave(t)
      /\ UNCHANGED mishaps

\* A full disk: the temporary file stays as it is.
SaveFails(t) ==
  /\ pc[t] = "write"
  /\ EndSave(t)
  /\ Mishap({"failed"})
  /\ UNCHANGED disk

Next ==
  \/ Start \/ Kill \/ Terminate
  \/ \E resume \in BOOLEAN : NewAgent(resume)
  \/ LoadWeights \/ LoadReplay
  \/ TakeItem \/ Train \/ PeriodicSave
  \/ \E t \in Thread : Open(t) \/ Write(t) \/ Replace(t) \/ SaveFails(t)

Spec == Init /\ [][Next]_vars

-----------------------------------------------------------------------------
TypeOK ==
  /\ up \in BOOLEAN
  /\ agent \in 0..MaxSteps \cup {None}
  /\ held \in 0..MaxSteps \cup {None}
  /\ pc \in [Thread -> Place["main"] \cup Place["worker"]]
  /\ \A t \in Thread : pc[t] \in Place[t]
  /\ file \in [Thread -> Name]
  /\ taken \in 0..Every - 1
  /\ path \in [Name -> File \cup {None}]
  /\ tmp \in [Name -> File \cup {None}]
  /\ mishaps \subseteq {"raced", "fresh", "collided", "failed"}

(* A checkpoint in place can be read, wherever processes are killed and     *)
(* saves fail: only a shutdown that saves while the periodic save of the    *)
(* worker is under way can leave it broken.                                 *)
CheckpointWhole ==
  \A f \in Name : path[f] # None /\ path[f].state # "whole" => "collided" \in mishaps

(* Training that is on disk is not lost again: no later save, in this       *)
(* process or another, has fewer steps, unless a hello did not ask to       *)
(* resume, or its resume met the worker or a signal, or two saves met.      *)
ProgressKept ==
  [][Saved' < Saved => mishaps' \cap {"raced", "fresh", "collided"} # {}]_vars

(* A kill costs no more training than lies between two periodic saves.      *)
LossBounded ==
  mishaps = {} /\ agent # None /\ ~Resuming => agent - Saved <= Every
=============================================================================
