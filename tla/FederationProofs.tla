------------------------- MODULE FederationProofs --------------------------
(***************************************************************************)
(* Theorems about what the ML services keep in files: the checkpoints of one*)
(* service, and the models the workers and the aggregator exchange.        *)
(*                                                                         *)
(* Those about FedAvg hold for any number of workers, rounds and crashes:  *)
(* global models come once and in order and workers never go back to one   *)
(* (FederationLog), and the aggregator never waits for a round that the    *)
(* workers have left, but for rounds whose file could not be written.      *)
(***************************************************************************)
EXTENDS Checkpoint, FedAvg, WellFoundedInduction, TLAPS

\* A thread that is anywhere but at rest has an agent.
Alive == \A t \in Thread : pc[t] # Idle[t] => agent # None

(* MoveTypes: a thread that moves to a place of its own stays where threads *)
(* can be.                                                                  *)
LEMMA MoveTypes ==
  ASSUME TypeOK, NEW u \in Thread, NEW step \in Place[u], pc' = [pc EXCEPT ![u] = step]
  PROVE  /\ pc' \in [Thread -> Place["main"] \cup Place["worker"]]
         /\ \A t \in Thread : pc'[t] \in Place[t]
<1>1. step \in Place["main"] \cup Place["worker"]
  BY DEF Thread
<1>2. pc' \in [Thread -> Place["main"] \cup Place["worker"]]
  BY <1>1 DEF TypeOK
<1>3. ASSUME NEW t \in Thread
      PROVE  pc'[t] \in Place[t]
  BY <1>3 DEF TypeOK
<1> QED
  BY <1>2, <1>3

(* Places: the places of the two threads. *)
LEMMA Places ==
  /\ Place["main"] = {"open", "write", "replace", "serve", "load weights", "load replay"}
  /\ Place["worker"] = {"open", "write", "replace", "wait", "train", "checkpoint"}
BY DEF Place, Thread, Saving

(* EndedTypes: a process that ends leaves well-typed variables behind. *)
LEMMA EndedTypes ==
  ASSUME CheckpointAssumption, TypeOK, Ended,
         path' \in [Name -> File \cup {None}],
         tmp' \in [Name -> File \cup {None}],
         mishaps' \subseteq {"raced", "fresh", "collided", "failed"}
  PROVE  TypeOK'
<1>1. Idle \in [Thread -> Place["main"] \cup Place["worker"]]
      /\ \A t \in Thread : Idle[t] \in Place[t]
  BY DEF Idle, Thread, Place, Saving
<1>2. First \in [Thread -> Name]
  BY DEF First, Thread, Name
<1>3. 0 \in 0..Every - 1
  BY DEF CheckpointAssumption
<1> QED
  BY <1>1, <1>2, <1>3, Zenon DEF TypeOK, Ended

(* EndSaveTypes: and so does the end of a save. *)
LEMMA EndSaveTypes ==
  ASSUME CheckpointAssumption, TypeOK, NEW t \in Thread, EndSave(t),
         path' \in [Name -> File \cup {None}],
         tmp' \in [Name -> File \cup {None}],
         mishaps' \subseteq {"raced", "fresh", "collided", "failed"}
  PROVE  TypeOK'
<1>1. CASE t = "main"
  BY <1>1, EndedTypes DEF EndSave
<1>2. CASE t # "main"
  <2>1. pc' \in [Thread -> Place["main"] \cup Place["worker"]]
        /\ \A u \in Thread : pc'[u] \in Place[u]
    BY <1>2, Places, MoveTypes DEF EndSave, Thread
  <2>2. file' \in [Thread -> Name]
    BY <1>2 DEF EndSave, TypeOK, Thread, Name
  <2>3. up' = up /\ agent' = agent /\ taken' = taken /\ held' = None
    BY <1>2 DEF EndSave
  <2> QED
    BY <2>1, <2>2, <2>3, Zenon DEF TypeOK
<1> QED
  BY <1>1, <1>2

(* WriteTypes: a write leaves files behind that are files. *)
LEMMA WriteTypes ==
  ASSUME CheckpointAssumption, TypeOK, Alive, NEW t \in Thread, Write(t)
  PROVE  /\ path' \in [Name -> File \cup {None}]
         /\ tmp' \in [Name -> File \cup {None}]
<1>1. file[t] \in Name
  BY DEF TypeOK
<1>2. path \in [Name -> File \cup {None}] /\ tmp \in [Name -> File \cup {None}]
  BY DEF TypeOK
<1>3. Steps(t) \in 0..MaxSteps
  BY DEF Steps, Alive, Write, TypeOK, Idle, Thread
<1>4. ASSUME NEW old \in File \cup {None}
      PROVE  Written(old, t) \in File \cup {None}
  BY <1>3 DEF Written, File, CheckpointAssumption
<1> QED
  BY <1>1, <1>2, <1>4 DEF Write

(* NextTypes: every step keeps the types of module Checkpoint. *)
LEMMA NextTypes ==
  ASSUME CheckpointAssumption, TypeOK, Alive, [Next]_vars
  PROVE  TypeOK'
<1>1. CASE Start
  BY <1>1, Zenon DEF Start, disk, TypeOK
<1>2. CASE Kill
  BY <1>2, EndedTypes, Zenon DEF Kill, disk, TypeOK
<1>3. CASE Terminate
  <2>1. mishaps' \subseteq {"raced", "fresh", "collided", "failed"}
    BY <1>3 DEF Terminate, Mishap, TypeOK
  <2>2. CASE agent = None
    BY <1>3, <2>1, <2>2, EndedTypes, Zenon DEF Terminate, disk, TypeOK
  <2>3. CASE agent # None
    <3>1. pc' \in [Thread -> Place["main"] \cup Place["worker"]]
          /\ \A u \in Thread : pc'[u] \in Place[u]
      BY <1>3, <2>3, Places, MoveTypes DEF Terminate, Thread
    <3> QED
      BY <1>3, <2>1, <2>3, <3>1, Zenon DEF Terminate, disk, TypeOK
  <2> QED
    BY <2>2, <2>3
<1>4. ASSUME NEW resume \in BOOLEAN, NewAgent(resume)
      PROVE  TypeOK'
  <2>1. mishaps' \subseteq {"raced", "fresh", "collided", "failed"}
    BY <1>4 DEF NewAgent, Mishap, TypeOK
  <2>2. pc' \in [Thread -> Place["main"] \cup Place["worker"]]
        /\ \A u \in Thread : pc'[u] \in Place[u]
    BY <1>4, Places, MoveTypes DEF NewAgent, Thread
  <2>3. agent' \in 0..MaxSteps \cup {None}
    <3>1. agent' = 0
      BY <1>4, Zenon DEF NewAgent
    <3>2. 0 \in 0..MaxSteps
      BY DEF CheckpointAssumption
    <3> QED
      BY <3>1, <3>2, Zenon
  <2>4. held' \in 0..MaxSteps \cup {None}
    BY <1>4 DEF NewAgent, TypeOK
  <2> QED
    BY <1>4, <2>1, <2>2, <2>3, <2>4, Zenon DEF NewAgent, disk, TypeOK
<1>5. CASE LoadWeights
  <2>1. pc' \in [Thread -> Place["main"] \cup Place["worker"]]
        /\ \A u \in Thread : pc'[u] \in Place[u]
    BY <1>5, Places, MoveTypes DEF LoadWeights, Thread
  <2>2. agent' \in 0..MaxSteps \cup {None}
    <3>1. CASE CanLoad
      <4>1. path["weights"] \in File
        BY <3>1 DEF CanLoad, Readable, TypeOK, Name
      <4> QED
        BY <1>5, <3>1, <4>1 DEF LoadWeights, File
    <3>2. CASE ~CanLoad
      BY <1>5, <3>2, Zenon DEF LoadWeights, TypeOK
    <3> QED
      BY <3>1, <3>2
  <2> QED
    BY <1>5, <2>1, <2>2, Zenon DEF LoadWeights, disk, TypeOK
<1>6. CASE LoadReplay
  <2>1. pc' \in [Thread -> Place["main"] \cup Place["worker"]]
        /\ \A u \in Thread : pc'[u] \in Place[u]
    BY <1>6, Places, MoveTypes DEF LoadReplay, Thread
  <2> QED
    BY <1>6, <2>1, Zenon DEF LoadReplay, disk, TypeOK
<1>7. CASE TakeItem
  <2>1. pc' \in [Thread -> Place["main"] \cup Place["worker"]]
        /\ \A u \in Thread : pc'[u] \in Place[u]
    BY <1>7, Places, MoveTypes DEF TakeItem, Thread
  <2>2. mishaps' \subseteq {"raced", "fresh", "collided", "failed"}
    BY <1>7 DEF TakeItem, Mishap, TypeOK
  <2> QED
    BY <1>7, <2>1, <2>2, Zenon DEF TakeItem, disk, TypeOK
<1>8. CASE Train
  <2>1. pc' \in [Thread -> Place["main"] \cup Place["worker"]]
        /\ \A u \in Thread : pc'[u] \in Place[u]
    BY <1>8, Places, MoveTypes DEF Train, Thread
  <2>2. agent' \in 0..MaxSteps \cup {None}
    BY <1>8, Zenon DEF Train
  <2>3. taken' \in 0..Every - 1
    BY <1>8 DEF Train, Counted, CheckpointAssumption, TypeOK
  <2> QED
    BY <1>8, <2>1, <2>2, <2>3, Zenon DEF Train, disk, TypeOK
<1>9. CASE PeriodicSave
  <2>1. pc' \in [Thread -> Place["main"] \cup Place["worker"]]
        /\ \A u \in Thread : pc'[u] \in Place[u]
    BY <1>9, Places, MoveTypes DEF PeriodicSave, Thread
  <2> QED
    BY <1>9, <2>1, Zenon DEF PeriodicSave, disk, TypeOK
<1>10. ASSUME NEW t \in Thread, Open(t)
       PROVE  TypeOK'
  <2>1. pc' \in [Thread -> Place["main"] \cup Place["worker"]]
        /\ \A u \in Thread : pc'[u] \in Place[u]
    BY <1>10, Places, MoveTypes DEF Open, GoTo, Thread
  <2>2. mishaps' \subseteq {"raced", "fresh", "collided", "failed"}
    BY <1>10 DEF Open, Mishap, TypeOK
  <2>3. tmp' \in [Name -> File \cup {None}]
    BY <1>10 DEF Open, TypeOK, File, CheckpointAssumption
  <2> QED
    BY <1>10, <2>1, <2>2, <2>3, Zenon DEF Open, GoTo, TypeOK
<1>11. ASSUME NEW t \in Thread, Write(t)
       PROVE  TypeOK'
  <2>1. pc' \in [Thread -> Place["main"] \cup Place["worker"]]
        /\ \A u \in Thread : pc'[u] \in Place[u]
    BY <1>11, Places, MoveTypes DEF Write, GoTo, Thread
  <2>2. path' \in [Name -> File \cup {None}]
        /\ tmp' \in [Name -> File \cup {None}]
    BY <1>11, WriteTypes
  <2> QED
    BY <1>11, <2>1, <2>2, Zenon DEF Write, GoTo, TypeOK
<1>12. ASSUME NEW t \in Thread, Replace(t)
       PROVE  TypeOK'
  <2>1. path' \in [Name -> File \cup {None}]
        /\ tmp' \in [Name -> File \cup {None}]
    BY <1>12 DEF Replace, disk, TypeOK
  <2>2. mishaps' \subseteq {"raced", "fresh", "collided", "failed"}
    BY <1>12 DEF Replace, TypeOK
  <2>3. CASE EndSave(t)
    BY <2>1, <2>2, <2>3, EndSaveTypes
  <2>4. CASE GoTo(t, "open") /\ file' = [file EXCEPT ![t] = "replay"]
    <3>1. pc' \in [Thread -> Place["main"] \cup Place["worker"]]
          /\ \A u \in Thread : pc'[u] \in Place[u]
      BY <2>4, Places, MoveTypes DEF GoTo, Thread
    <3>2. file' \in [Thread -> Name]
      BY <2>4 DEF TypeOK, Name
    <3> QED
      BY <2>1, <2>2, <2>4, <3>1, <3>2, Zenon DEF GoTo, TypeOK
  <2> QED
    BY <1>12, <2>3, <2>4, Zenon DEF Replace
<1>13. ASSUME NEW t \in Thread, SaveFails(t)
       PROVE  TypeOK'
  <2>1. mishaps' \subseteq {"raced", "fresh", "collided", "failed"}
    BY <1>13 DEF SaveFails, Mishap, TypeOK
  <2> QED
    BY <1>13, <2>1, EndSaveTypes, Zenon DEF SaveFails, disk, TypeOK
<1>14. CASE UNCHANGED vars
  BY <1>14, Zenon DEF vars, TypeOK
<1> QED
  BY <1>1, <1>2, <1>3, <1>4, <1>5, <1>6, <1>7, <1>8, <1>9, <1>10, <1>11, <1>12,
     <1>13, <1>14 DEF Next

-----------------------------------------------------------------------------
(* NextAlive: a thread moves only while there is an agent, and a process    *)
(* that ends leaves both threads at rest.                                   *)
LEMMA NextAlive ==
  ASSUME CheckpointAssumption, TypeOK, Alive, [Next]_vars
  PROVE  Alive'
<1> USE DEF Alive
<1>1. CASE Start
  BY <1>1 DEF Start
<1>2. ASSUME Ended
      PROVE  Alive'
  BY <1>2 DEF Ended
<1>3. CASE Kill
  BY <1>2, <1>3 DEF Kill
<1>4. CASE Terminate
  BY <1>2, <1>4 DEF Terminate, TypeOK
<1>5. ASSUME NEW resume \in BOOLEAN, NewAgent(resume)
      PROVE  Alive'
  <2>1. agent' = 0
    BY <1>5, Zenon DEF NewAgent
  <2>2. 0 # None
    BY DEF CheckpointAssumption
  <2> QED
    BY <2>1, <2>2, Zenon
<1>6. CASE LoadWeights
  <2>1. agent # None
    BY <1>6 DEF LoadWeights, Idle, Thread
  <2>2. CASE CanLoad
    <3>1. path["weights"] \in File
      BY <2>2 DEF CanLoad, Readable, TypeOK, Name
    <3>2. agent' # None
      BY <1>6, <2>2, <3>1 DEF LoadWeights, File, CheckpointAssumption
    <3> QED
      BY <3>2
  <2>3. CASE ~CanLoad
    BY <1>6, <2>1, <2>3 DEF LoadWeights
  <2> QED
    BY <2>2, <2>3
<1>7. CASE LoadReplay
  BY <1>7 DEF LoadReplay, TypeOK, Idle, Thread
<1>8. CASE TakeItem
  BY <1>8 DEF TakeItem
<1>9. CASE Train
  <2>1. agent' # None
    BY <1>9 DEF Train, CheckpointAssumption
  <2> QED
    BY <2>1
<1>10. CASE PeriodicSave
  BY <1>10 DEF PeriodicSave, TypeOK, Idle, Thread
<1>11. ASSUME NEW t \in Thread, pc[t] \in Saving, UNCHANGED agent
       PROVE  Alive'
  BY <1>11 DEF Saving, Idle
<1>12. ASSUME NEW t \in Thread, Open(t) \/ Write(t)
       PROVE  Alive'
  BY <1>11, <1>12 DEF Open, Write, GoTo, Saving
<1>13. ASSUME NEW t \in Thread, EndSave(t)
       PROVE  Alive'
  <2>1. CASE t = "main"
    BY <1>2, <1>13, <2>1 DEF EndSave
  <2>2. CASE t # "main"
    BY <1>13, <2>2 DEF EndSave, TypeOK, Idle, Thread
  <2> QED
    BY <2>1, <2>2
<1>14. ASSUME NEW t \in Thread, Replace(t)
       PROVE  Alive'
  BY <1>11, <1>13, <1>14, Zenon DEF Replace, GoTo, Saving
<1>15. ASSUME NEW t \in Thread, SaveFails(t)
       PROVE  Alive'
  BY <1>13, <1>15 DEF SaveFails
<1>16. CASE UNCHANGED vars
  BY <1>16 DEF vars
<1> QED
  BY <1>1, <1>3, <1>4, <1>5, <1>6, <1>7, <1>8, <1>9, <1>10, <1>12, <1>14, <1>15,
     <1>16, Zenon DEF Next

-----------------------------------------------------------------------------
Holds(t) == pc[t] \in {"write", "replace"}

\* While no two saves have met: the files in place are whole, and a thread
\* that has a temporary file has it for itself.
Sound ==
  /\ \A f \in Name : path[f] # None => path[f].state = "whole"
  /\ \A f \in Name : tmp[f] # None => tmp[f].state # "mixed"
  /\ \A t \in Thread : Holds(t) => tmp[file[t]] # None
  /\ \A t \in Thread : pc[t] = "replace" => tmp[file[t]].state = "whole"
  /\ ~(Holds("main") /\ Holds("worker"))

Inv == TypeOK /\ Alive /\ ("collided" \notin mishaps => Sound)

(* NextKeeps: collisions are not forgotten. *)
LEMMA NextKeeps ==
  ASSUME [Next]_vars, "collided" \in mishaps
  PROVE  "collided" \in mishaps'
BY DEF Next, vars, disk, Start, Kill, Terminate, NewAgent, LoadWeights, LoadReplay,
       TakeItem, Train, PeriodicSave, Open, Write, Replace, SaveFails, Mishap

(* OpenSound: a thread that opens a temporary file while the other one has  *)
(* none leaves it partial and for itself.                                   *)
LEMMA OpenSound ==
  ASSUME CheckpointAssumption, TypeOK, Sound, NEW t \in Thread, Open(t),
         "collided" \notin mishaps'
  PROVE  Sound'
<1> DEFINE new == [steps |-> 0, state |-> "partial"]
<1>1. ~Saves(Other(t))
  BY DEF Open, Mishap
<1>2. ~Holds(Other(t))
  BY <1>1 DEF Saves, Saving, Holds
<1>3. tmp' = [tmp EXCEPT ![file[t]] = new] /\ UNCHANGED <<path, file>>
  BY <1>2 DEF Open, Holds
<1>4. new # None
  BY DEF CheckpointAssumption, File
<1>5. file[t] \in Name
  BY DEF TypeOK
<1>6. pc' = [pc EXCEPT ![t] = "write"]
  BY DEF Open, GoTo
<1>7. ~Holds(Other(t))' /\ pc'[t] = "write" /\ pc'[Other(t)] = pc[Other(t)]
  BY <1>2, <1>6 DEF Holds, Other, TypeOK, Thread
<1>8. \A u \in Thread : u = t \/ u = Other(t)
  BY DEF Other, Thread
<1>9. \A f \in Name : tmp'[f] # None => tmp'[f].state # "mixed"
  BY <1>3, <1>5 DEF Sound, TypeOK
<1>10. tmp'[file'[t]] # None
  BY <1>3, <1>4, <1>5 DEF TypeOK
<1> QED
  BY <1>3, <1>7, <1>8, <1>9, <1>10 DEF Sound, Holds, Thread, Other

(* WriteSound: a thread writes the temporary file that it has. *)
LEMMA WriteSound ==
  ASSUME CheckpointAssumption, TypeOK, Alive, Sound, NEW t \in Thread, Write(t)
  PROVE  Sound'
<1> DEFINE new == [steps |-> IF file[t] = "weights" THEN Steps(t) ELSE 0, state |-> "whole"]
<1>1. tmp[file[t]] # None /\ file[t] \in Name
  BY DEF Write, Sound, Holds, TypeOK
<1>2. Written(tmp[file[t]], t) = new
  BY <1>1 DEF Written, Sound
<1>3. tmp' = [tmp EXCEPT ![file[t]] = new] /\ UNCHANGED <<path, file>>
  BY <1>1, <1>2 DEF Write
<1>4. Steps(t) \in 0..MaxSteps
  BY DEF Steps, Alive, Write, TypeOK, Idle, Thread
<1>5. new # None /\ new.state = "whole"
  BY <1>4 DEF CheckpointAssumption, File
<1>6. pc[t] = "write" /\ pc' = [pc EXCEPT ![t] = "replace"]
  BY DEF Write, GoTo
<1>7. ~Holds(Other(t))
  BY <1>6 DEF Holds, Sound, Other, Thread
<1>8. ~Holds(Other(t))' /\ pc'[Other(t)] = pc[Other(t)]
  BY <1>6, <1>7 DEF Holds, Other, TypeOK, Thread
<1>9. \A u \in Thread : u = t \/ u = Other(t)
  BY DEF Other, Thread
<1>10. tmp'[file'[t]] = new
  BY <1>1, <1>3 DEF TypeOK
<1>11. \A f \in Name : tmp'[f] # None => tmp'[f].state # "mixed"
  BY <1>1, <1>3, <1>5 DEF Sound, TypeOK
<1> HIDE DEF new
<1> QED
  BY <1>3, <1>5, <1>8, <1>9, <1>10, <1>11 DEF Sound, Holds, Thread, Other

(* ReplaceSound: what a thread puts in place is whole. *)
LEMMA ReplaceSound ==
  ASSUME CheckpointAssumption, TypeOK, Sound, NEW t \in Thread, Replace(t)
  PROVE  Sound'
<1> DEFINE f == file[t]
<1>1. pc[t] = "replace" /\ f \in Name
  BY DEF Replace, TypeOK
<1>2. tmp[f] # None /\ tmp[f].state = "whole"
  BY <1>1 DEF Sound, Holds
<1>3. path' = [path EXCEPT ![f] = tmp[f]] /\ tmp' = [tmp EXCEPT ![f] = None]
  BY <1>2 DEF Replace
<1>4. ~Holds(Other(t))
  BY <1>1 DEF Holds, Sound, Other, Thread
<1>5. \A u \in Thread : u = t \/ u = Other(t)
  BY DEF Other, Thread
<1>6. \A u \in Thread : ~Holds(u)'
  <2>1. CASE EndSave(t)
    BY <1>4, <1>5, <2>1 DEF EndSave, Ended, Idle, Holds, TypeOK, Thread, Other
  <2>2. CASE GoTo(t, "open")
    BY <1>4, <1>5, <2>2 DEF GoTo, Holds, TypeOK, Thread, Other
  <2> QED
    BY <2>1, <2>2, Zenon DEF Replace
<1>7. \A g \in Name : path'[g] # None => path'[g].state = "whole"
  BY <1>1, <1>2, <1>3 DEF Sound, TypeOK
<1>8. \A g \in Name : tmp'[g] # None => tmp'[g].state # "mixed"
  BY <1>1, <1>3 DEF Sound, TypeOK
<1>9. \A u \in Thread : pc'[u] # "replace"
  BY <1>6 DEF Holds
<1> QED
  BY <1>6, <1>7, <1>8, <1>9, Zenon DEF Sound, Thread

(* StillSound: where the files stay and no thread takes one, nothing breaks. *)
LEMMA StillSound ==
  ASSUME Sound, UNCHANGED disk,
         \A t \in Thread : Holds(t)' => pc'[t] = pc[t] /\ file'[t] = file[t]
  PROVE  Sound'
<1>1. path' = path /\ tmp' = tmp
  BY DEF disk
<1> QED
  BY <1>1 DEF Sound, Holds, Thread

(* NextSound: nothing but a collision leaves a broken file in place. *)
LEMMA NextSound ==
  ASSUME CheckpointAssumption, Inv, [Next]_vars, "collided" \notin mishaps'
  PROVE  Sound'
<1>1. TypeOK /\ Alive /\ Sound
  BY NextKeeps DEF Inv
<1>2. ASSUME Ended, UNCHANGED disk
      PROVE  Sound'
  BY <1>1, <1>2, StillSound DEF Ended, Idle, Holds
<1>3. CASE Start
  BY <1>1, <1>3, StillSound DEF Start
<1>4. CASE Kill
  BY <1>2, <1>4 DEF Kill
<1>5. CASE Terminate
  BY <1>1, <1>2, <1>5, StillSound DEF Terminate, Holds, TypeOK, Thread
<1>6. ASSUME NEW resume \in BOOLEAN, NewAgent(resume)
      PROVE  Sound'
  BY <1>1, <1>6, StillSound DEF NewAgent, Holds, TypeOK, Thread
<1>7. CASE LoadWeights
  BY <1>1, <1>7, StillSound DEF LoadWeights, Holds, TypeOK, Thread
<1>8. CASE LoadReplay
  BY <1>1, <1>8, StillSound DEF LoadReplay, Holds, TypeOK, Thread
<1>9. CASE TakeItem
  BY <1>1, <1>9, StillSound DEF TakeItem, Holds, TypeOK, Thread
<1>10. CASE Train
  BY <1>1, <1>10, StillSound DEF Train, Holds, TypeOK, Thread
<1>11. CASE PeriodicSave
  BY <1>1, <1>11, StillSound DEF PeriodicSave, Holds, TypeOK, Thread
<1>12. ASSUME NEW t \in Thread, Open(t)
       PROVE  Sound'
  BY <1>1, <1>12, OpenSound
<1>13. ASSUME NEW t \in Thread, Write(t)
       PROVE  Sound'
  BY <1>1, <1>13, WriteSound
<1>14. ASSUME NEW t \in Thread, Replace(t)
       PROVE  Sound'
  BY <1>1, <1>14, ReplaceSound
<1>15. ASSUME NEW t \in Thread, SaveFails(t)
       PROVE  Sound'
  <2>1. CASE Ended
    BY <1>2, <1>15, <2>1 DEF SaveFails
  <2>2. CASE ~Ended
    BY <1>1, <1>15, <2>2, StillSound DEF SaveFails, EndSave, Holds, TypeOK, Thread
  <2> QED
    BY <2>1, <2>2
<1>16. CASE UNCHANGED vars
  BY <1>1, <1>16, StillSound DEF vars, disk
<1> QED
  BY <1>3, <1>4, <1>5, <1>6, <1>7, <1>8, <1>9, <1>10, <1>11, <1>12, <1>13, <1>14,
     <1>15, <1>16, Zenon DEF Next

(* InvHolds: the invariant that types the service and keeps its files sound. *)
THEOREM InvHolds == Spec => []Inv
<1>1. Init => Inv
  <2> SUFFICES ASSUME Init
               PROVE  Inv
    OBVIOUS
  <2>1. Idle \in [Thread -> Place["main"] \cup Place["worker"]]
        /\ \A t \in Thread : Idle[t] \in Place[t]
    BY Places DEF Idle, Thread
  <2>2. First \in [Thread -> Name] /\ Missing \in [Name -> File \cup {None}]
    BY DEF First, Missing, Thread, Name
  <2>3. 0 \in 0..Every - 1
    BY CheckpointAssumption DEF CheckpointAssumption
  <2>4. TypeOK
    BY <2>1, <2>2, <2>3, Zenon DEF Init, TypeOK
  <2>5. Alive /\ Sound
    BY DEF Init, Alive, Sound, Holds, Idle, Missing, Thread, Name
  <2> QED
    BY <2>4, <2>5 DEF Inv
<1>2. Inv /\ [Next]_vars => Inv'
  BY CheckpointAssumption, NextTypes, NextAlive, NextSound, Zenon DEF Inv
<1> QED
  BY <1>1, <1>2, PTL DEF Spec

(* CheckpointTypes: the variables keep their types, for every period of the *)
(* checkpoints and any number of training steps.                            *)
THEOREM CheckpointTypes == Spec => []TypeOK
<1>1. Inv => TypeOK
  BY DEF Inv
<1> QED
  BY <1>1, InvHolds, PTL

(* CheckpointsAlwaysWhole: wherever processes are killed and saves fail, a  *)
(* checkpoint in place can be read unless a shutdown met a periodic save.   *)
THEOREM CheckpointsAlwaysWhole == Spec => []CheckpointWhole
<1>1. Inv => CheckpointWhole
  BY DEF Inv, Sound, CheckpointWhole
<1> QED
  BY <1>1, InvHolds, PTL

-----------------------------------------------------------------------------
Races == {"raced", "fresh", "collided"}

\* While nothing has raced: the weights in place are never ahead of the agent,
\* but for a resume that has not read them yet, and what is about to replace
\* them lies between the two.
Kept ==
  /\ held = None
  /\ \A t \in Thread : ~Saves(t) => file[t] = "weights"
  /\ Resuming => pc["worker"] = "wait"
  /\ pc["main"] = "load weights" => agent = 0
  /\ pc["main"] = "load replay" => agent = Saved
  /\ agent # None /\ ~Resuming => Saved <= agent
  /\ \A t \in Thread : pc[t] = "replace" /\ file[t] = "weights" =>
       /\ Saved <= tmp["weights"].steps /\ tmp["weights"].steps <= agent
       /\ t = "worker" => tmp["weights"].steps = agent

\* While no save has failed either: what is not saved has been counted, but
\* for the moment between a full count and the end of its save.
Counting ==
  \/ agent - Saved <= taken
  \/ /\ taken = 0 /\ agent - Saved <= Every
     /\ pc["worker"] = "checkpoint" \/ (Saves("worker") /\ file["worker"] = "weights")

Slack == agent # None /\ ~Resuming => Counting

Raceless == mishaps \cap Races = {} => Kept
Flawless == mishaps = {} => Slack
LossInv == Inv /\ Raceless /\ Flawless

(* Numbers: the numbers that the bound compares. *)
LEMMA Numbers ==
  ASSUME CheckpointAssumption, TypeOK
  PROVE  /\ Saved \in Nat /\ taken \in Nat /\ Every \in Nat /\ taken <= Every - 1
         /\ agent # None => agent \in Nat
         /\ 0 # None
         /\ pc["main"] \in Place["main"] /\ pc["worker"] \in Place["worker"]
<1>1. path["weights"] \in File \cup {None}
  BY DEF TypeOK, Name
<1>2. \A x \in File : x.steps \in Nat
  BY DEF File, CheckpointAssumption
<1> QED
  BY <1>1, <1>2 DEF Saved, TypeOK, CheckpointAssumption, Thread

(* Counts: the arithmetic of the steps below. *)
LEMMA Counts ==
  /\ \A n \in Nat : n <= n
  /\ \A n, k \in Nat : n - n <= k
  /\ \A a, s, r \in Nat : s <= r => a - r <= a - s /\ a - r \in Int /\ a - s \in Int
  /\ \A a, b, s, t, k \in Nat : a - s <= t /\ b <= a + 1 /\ t + 1 = k => b - s <= k
OBVIOUS

(* StillKept: where neither the files in place nor the agent change, and no *)
(* thread begins to replace or to resume, nothing is lost.                   *)
LEMMA StillKept ==
  ASSUME Kept, UNCHANGED <<path, agent, held>>, ~Resuming, ~Resuming',
         \A t \in Thread : ~Saves(t)' => file'[t] = "weights",
         \A t \in Thread : pc'[t] = "replace" =>
           pc[t] = "replace" /\ file'[t] = file[t] /\ tmp' = tmp
  PROVE  Kept'
<1>1. Saved' = Saved
  BY DEF Saved
<1>2. \A t \in Thread : pc'[t] = "replace" /\ file'[t] = "weights" =>
        /\ Saved' <= tmp'["weights"].steps /\ tmp'["weights"].steps <= agent'
        /\ t = "worker" => tmp'["weights"].steps = agent'
  <2> HIDE DEF Saved
  <2> QED
    BY <1>1 DEF Kept
<1>3. held' = None /\ (agent' # None => Saved' <= agent')
  BY <1>1 DEF Kept
<1> QED
  BY <1>2, <1>3 DEF Kept, Resuming

(* OpenKept, WriteKept, ReplaceKept: the steps of a save that meets no other *)
(* one.                                                                     *)
LEMMA OpenKept ==
  ASSUME CheckpointAssumption, TypeOK, Sound, Kept, NEW t \in Thread, Open(t),
         "collided" \notin mishaps'
  PROVE  Kept'
<1>1. ~Saves(Other(t)) /\ t # Other(t) /\ Other(t) \in Thread
  BY DEF Open, Mishap, Other, Thread
<1>2. \A u \in Thread : u = t \/ u = Other(t)
  BY DEF Other, Thread
<1>3. pc[t] = "open" /\ pc' = [pc EXCEPT ![t] = "write"] /\ UNCHANGED <<path, agent, held, file>>
  BY DEF Open, GoTo
<1>4. pc'[t] = "write" /\ pc'[Other(t)] = pc[Other(t)] /\ pc'[Other(t)] # "replace"
  BY <1>1, <1>3 DEF TypeOK, Saves, Saving
<1>5. ~Resuming /\ ~Resuming'
  BY <1>1, <1>3, <1>4 DEF Resuming, Kept, Other, Thread, TypeOK
<1>6. \A u \in Thread : ~Saves(u)' => file'[u] = "weights"
  BY <1>2, <1>3, <1>4 DEF Kept, Saves, Saving
<1>7. \A u \in Thread : pc'[u] # "replace"
  BY <1>2, <1>4
<1> QED
  BY <1>3, <1>5, <1>6, <1>7, StillKept

LEMMA WriteKept ==
  ASSUME CheckpointAssumption, TypeOK, Alive, Sound, Kept, NEW t \in Thread, Write(t)
  PROVE  Kept' /\ Saved' = Saved /\ UNCHANGED <<agent, taken, file>> /\ ~Resuming
<1>1. pc[t] = "write" /\ pc' = [pc EXCEPT ![t] = "replace"] /\ UNCHANGED <<agent, held, taken, file>>
  BY DEF Write, GoTo
<1>2. tmp[file[t]] # None /\ file[t] \in Name
  BY <1>1 DEF Sound, Holds, TypeOK
<1>3. path' = path
  BY <1>2 DEF Write
<1>4. Saved' = Saved
  BY <1>3 DEF Saved
<1>5. ~Resuming /\ ~Resuming'
  BY <1>1 DEF Resuming, Kept, Thread, TypeOK
<1>6. agent # None /\ Saved <= agent
  BY <1>1, <1>5 DEF Alive, Idle, Kept, Thread
<1>7. pc[Other(t)] # "replace" /\ pc'[Other(t)] = pc[Other(t)] /\ pc'[t] = "replace"
  BY <1>1 DEF Sound, Holds, Other, Thread, TypeOK
<1>8. \A u \in Thread : u = t \/ u = Other(t)
  BY DEF Other, Thread
<1>9. file[t] = "weights" => tmp'["weights"].steps = agent
  <2> SUFFICES ASSUME file[t] = "weights" PROVE tmp'["weights"].steps = agent
    OBVIOUS
  <2>1. Steps(t) = agent
    BY DEF Steps, Kept
  <2>2. Written(tmp[file[t]], t).steps = agent
    BY <1>2, <2>1 DEF Written, Sound
  <2>3. tmp' = [tmp EXCEPT ![file[t]] = Written(tmp[file[t]], t)]
    BY <1>2 DEF Write
  <2> HIDE DEF Written
  <2> QED
    BY <1>2, <2>2, <2>3 DEF TypeOK
<1>10. \A u \in Thread : ~Saves(u)' => file'[u] = "weights"
  BY <1>1, <1>7, <1>8 DEF Kept, Saves, Saving
<1>11. \A u \in Thread : pc'[u] = "replace" => u = t
  BY <1>7, <1>8
<1>12. agent' <= agent' /\ Saved' <= agent'
  BY <1>1, <1>4, <1>6, Numbers
<1>13. \A u \in Thread : pc'[u] = "replace" /\ file'[u] = "weights" =>
         /\ Saved' <= tmp'["weights"].steps /\ tmp'["weights"].steps <= agent'
         /\ u = "worker" => tmp'["weights"].steps = agent'
  BY <1>1, <1>9, <1>11, <1>12
<1>14. held' = None
  BY <1>1 DEF Kept
<1> QED
  BY <1>1, <1>4, <1>5, <1>10, <1>12, <1>13, <1>14 DEF Kept, Resuming

\* What comes into place is no older than what was there.
LEMMA ReplaceKept ==
  ASSUME CheckpointAssumption, TypeOK, Alive, Sound, Kept, NEW t \in Thread, Replace(t)
  PROVE  /\ Kept' /\ ~Resuming
         /\ \/ agent' = None
            \/ /\ UNCHANGED <<agent, taken>>
               /\ file[t] = "replay" => Saved' = Saved
               /\ t = "worker" /\ file[t] = "weights" => Saved' = agent
               /\ t = "main" => pc'["worker"] = pc["worker"] /\ file'["worker"] = file["worker"]
         /\ Saved <= Saved'
<1>1. pc[t] = "replace" /\ file[t] \in Name
  BY DEF Replace, TypeOK
<1>2. tmp[file[t]] # None
  BY <1>1 DEF Sound, Holds
<1>3. path' = [path EXCEPT ![file[t]] = tmp[file[t]]]
  BY <1>2 DEF Replace
<1>4. ~Resuming /\ agent # None
  BY <1>1 DEF Resuming, Kept, Thread, Alive, Idle
<1>5. pc[Other(t)] # "replace"
  BY <1>1 DEF Sound, Holds, Other, Thread
<1>6. \A u \in Thread : u = t \/ u = Other(t)
  BY DEF Other, Thread
<1>7. CASE file[t] = "weights"
  <2>1. Saved' = tmp["weights"].steps
    BY <1>2, <1>3, <1>7 DEF Saved, TypeOK, Name
  <2>2. Saved <= Saved' /\ Saved' <= agent /\ (t = "worker" => Saved' = agent)
    BY <1>1, <1>7, <2>1 DEF Kept
  <2>3. GoTo(t, "open") /\ file' = [file EXCEPT ![t] = "replay"]
    BY <1>2, <1>7 DEF Replace
  <2>4. pc' = [pc EXCEPT ![t] = "open"] /\ UNCHANGED <<agent, held, taken>>
    BY <2>3 DEF GoTo
  <2>5. \A u \in Thread : u # t => pc'[u] = pc[u] /\ file'[u] = file[u]
    BY <2>3, <2>4 DEF TypeOK
  <2>6. pc'[t] = "open" /\ file'[t] = "replay"
    BY <2>3, <2>4 DEF TypeOK
  <2>7. ~Resuming'
    BY <1>4, <2>5, <2>6 DEF Resuming, Thread
  <2>8. \A u \in Thread : pc'[u] # "replace"
    BY <1>5, <1>6, <2>5, <2>6
  <2>9. \A u \in Thread : ~Saves(u)' => file'[u] = "weights"
    BY <2>5, <2>6 DEF Kept, Saves, Saving
  <2>10. Kept'
    BY <2>2, <2>4, <2>7, <2>8, <2>9 DEF Kept, Resuming
  <2> QED
    BY <1>4, <1>7, <2>2, <2>4, <2>5, <2>10 DEF Thread
<1>8. CASE file[t] = "replay"
  <2>1. Saved' = Saved /\ Saved \in Nat
    BY <1>3, <1>8, Numbers DEF Saved, TypeOK, Name
  <2>2. EndSave(t)
    BY <1>2, <1>8 DEF Replace
  <2>3. CASE t = "main"
    <3>1. Ended
      BY <2>2, <2>3 DEF EndSave
    <3>2. Kept' /\ agent' = None
      BY <3>1, Zenon DEF Ended, Kept, Idle, First, Thread, Resuming, Saves, Saving
    <3> QED
      BY <1>4, <2>1, <3>2
  <2>4. CASE t = "worker"
    <3>1. /\ pc' = [pc EXCEPT !["worker"] = "wait"]
          /\ file' = [file EXCEPT !["worker"] = "weights"]
          /\ held' = None /\ UNCHANGED <<agent, taken>>
      BY <2>2, <2>4 DEF EndSave
    <3>2. /\ pc'["main"] = pc["main"] /\ pc'["worker"] = "wait"
          /\ file'["main"] = file["main"] /\ file'["worker"] = "weights"
          /\ pc["main"] # "replace"
      BY <1>5, <2>4, <3>1 DEF TypeOK, Thread, Other
    <3>3. Kept'
      BY <1>4, <2>1, <3>1, <3>2 DEF Kept, Thread, Resuming, Saves, Saving
    <3> QED
      BY <1>4, <1>8, <2>1, <2>4, <3>1, <3>3
  <2> QED
    BY <2>3, <2>4 DEF Thread
<1> QED
  BY <1>1, <1>7, <1>8 DEF Name

(* NoForgetting: mishaps are not forgotten. *)
LEMMA NoForgetting == [Next]_vars => mishaps \subseteq mishaps'
BY DEF Next, vars, disk, Start, Kill, Terminate, NewAgent, LoadWeights, LoadReplay,
       TakeItem, Train, PeriodicSave, Open, Write, Replace, SaveFails, Mishap

(* EndedKept: a new process starts from what is in place. *)
LEMMA EndedKept == Ended => Kept' /\ agent' = None
BY Zenon DEF Ended, Kept, Idle, First, Thread, Resuming, Saves, Saving

(* EndSaveKept: neither does a save that gives up lose anything in place. *)
LEMMA EndSaveKept ==
  ASSUME TypeOK, Kept, NEW t \in Thread, Saves(t), EndSave(t), UNCHANGED disk
  PROVE  Kept'
<1>1. CASE t = "main"
  BY <1>1, EndedKept DEF EndSave
<1>2. CASE t = "worker"
  <2>1. /\ pc' = [pc EXCEPT !["worker"] = "wait"]
        /\ file' = [file EXCEPT !["worker"] = "weights"]
        /\ held' = None /\ held = None /\ agent' = agent /\ path' = path /\ tmp' = tmp
    BY <1>2 DEF EndSave, disk, Kept
  <2>2. /\ pc'["main"] = pc["main"] /\ pc'["worker"] = "wait"
        /\ file'["main"] = file["main"] /\ file'["worker"] = "weights"
    BY <2>1 DEF TypeOK, Thread
  <2>3. ~Resuming /\ ~Resuming'
    BY <1>2, <2>2 DEF Resuming, Kept, Saves, Saving
  <2>4. \A u \in Thread : ~Saves(u)' => file'[u] = "weights"
    BY <2>2 DEF Kept, Thread, Saves
  <2>5. \A u \in Thread : pc'[u] = "replace" => pc[u] = "replace" /\ file'[u] = file[u]
    BY <2>2 DEF Thread
  <2> QED
    BY <2>1, <2>3, <2>4, <2>5, StillKept
<1> QED
  BY <1>1, <1>2 DEF Thread

(* NextKept: without a race no step takes anything from the files in place. *)
LEMMA NextKept ==
  ASSUME CheckpointAssumption, TypeOK, Alive, Sound, Kept, [Next]_vars,
         mishaps' \cap Races = {}
  PROVE  Kept'
<1> USE DEF Races
<1>1. ASSUME UNCHANGED <<agent, held, pc, file, disk>> PROVE Kept'
  <2>1. /\ agent' = agent /\ held' = held /\ pc' = pc /\ file' = file
        /\ path' = path /\ tmp' = tmp
    BY <1>1 DEF disk
  <2>2. Saved' = Saved
    BY <2>1 DEF Saved
  <2> QED
    BY <2>1, <2>2, Zenon DEF Kept, Saves, Resuming
<1>2. CASE Terminate
  <2>1. ~Resuming
    BY <1>2 DEF Terminate, Mishap
  <2>2. CASE agent = None
    BY <1>2, <2>2, EndedKept DEF Terminate
  <2>3. CASE agent # None
    <3>1. pc' = [pc EXCEPT !["main"] = "open"]
          /\ UNCHANGED <<agent, held, file>> /\ path' = path /\ tmp' = tmp
      BY <1>2, <2>3 DEF Terminate, disk
    <3>2. pc'["main"] = "open" /\ pc'["worker"] = pc["worker"]
      BY <3>1 DEF TypeOK, Thread
    <3>3. \A t \in Thread : ~Saves(t)' => file'[t] = "weights"
      BY <3>1, <3>2 DEF Kept, Saves, Saving, Thread
    <3> QED
      BY <2>1, <3>1, <3>2, <3>3, StillKept DEF Resuming, Thread
  <2> QED
    BY <2>2, <2>3
<1>3. ASSUME NEW resume \in BOOLEAN, NewAgent(resume) PROVE Kept'
  <2>1. pc["worker"] = "wait" /\ resume
    BY <1>3 DEF NewAgent, Mishap
  <2>2. held' = None
    BY <1>3, <2>1 DEF NewAgent, Kept, Saves, Saving
  <2>3. agent' = 0 /\ pc' = [pc EXCEPT !["main"] = "load weights"] /\ file' = file
        /\ pc["main"] = "serve"
    BY <1>3, <2>1 DEF NewAgent
  <2>4. pc'["main"] = "load weights" /\ pc'["worker"] = "wait"
    BY <2>1, <2>3 DEF TypeOK, Thread
  <2>5. \A t \in Thread : ~Saves(t)
    BY <2>1, <2>3 DEF Thread, Saves, Saving
  <2> QED
    BY <2>2, <2>3, <2>4, <2>5 DEF Kept, Resuming, Thread
<1>4. CASE LoadWeights
  <2>1. pc["main"] = "load weights" /\ pc["worker"] = "wait" /\ agent = 0 /\ held' = None
        /\ file' = file /\ path' = path /\ tmp' = tmp
    BY <1>4 DEF LoadWeights, Kept, Resuming, disk
  <2>2. Saved' = Saved /\ Saved \in Nat
    BY <2>1, Numbers DEF Saved
  <2>3. \A t \in Thread : file'[t] = "weights"
    BY <2>1 DEF Kept, Thread, Saves, Saving
  <2>4. CASE CanLoad
    <3>1. agent' = Saved /\ pc' = [pc EXCEPT !["main"] = "load replay"]
      BY <1>4, <2>4 DEF LoadWeights, CanLoad, Readable, Saved
    <3>2. pc'["main"] = "load replay" /\ pc'["worker"] = "wait"
      BY <2>1, <3>1 DEF TypeOK, Thread
    <3> QED
      BY <2>1, <2>2, <2>3, <3>1, <3>2 DEF Kept, Resuming, Thread
  <2>5. CASE ~CanLoad
    <3>1. agent' = 0 /\ pc' = [pc EXCEPT !["main"] = "serve"]
      BY <1>4, <2>1, <2>5 DEF LoadWeights
    <3>2. pc'["main"] = "serve" /\ pc'["worker"] = "wait"
      BY <2>1, <3>1 DEF TypeOK, Thread
    <3>3. Saved = 0
      BY <2>5 DEF CanLoad, Readable, Sound, Name, Saved
    <3>4. Saved' <= agent'
      BY <2>2, <3>1, <3>3
    <3> QED
      BY <2>1, <2>3, <3>2, <3>4 DEF Kept, Resuming, Thread
  <2> QED
    BY <2>4, <2>5
<1>5. CASE LoadReplay
  <2>1. pc["main"] = "load replay" /\ pc["worker"] = "wait" /\ agent = Saved /\ held' = None
        /\ agent' = agent /\ file' = file /\ path' = path
        /\ pc' = [pc EXCEPT !["main"] = "serve"]
    BY <1>5 DEF LoadReplay, Kept, Resuming, disk
  <2>2. Saved' = Saved /\ Saved \in Nat
    BY <2>1, Numbers DEF Saved
  <2>3. \A t \in Thread : file'[t] = "weights"
    BY <2>1 DEF Kept, Thread, Saves, Saving
  <2>4. pc'["main"] = "serve" /\ pc'["worker"] = "wait"
    BY <2>1 DEF TypeOK, Thread
  <2>5. Saved' <= agent'
    <3>1. Saved' = Saved /\ agent' = Saved
      BY <2>1, <2>2, Zenon
    <3> QED
      BY <2>2, <3>1, Counts, Zenon
  <2> QED
    BY <2>1, <2>3, <2>4, <2>5 DEF Kept, Resuming, Thread
<1>6. ASSUME NEW step \in {"train", "wait", "open"}, ~Resuming,
             pc["worker"] \in {"wait", "checkpoint"},
             pc' = [pc EXCEPT !["worker"] = step], UNCHANGED <<agent, held, file, disk>>
      PROVE  Kept'
  <2>1. pc'["main"] = pc["main"] /\ pc'["worker"] = step /\ path' = path /\ tmp' = tmp
    BY <1>6 DEF TypeOK, Thread, disk
  <2>2. \A t \in Thread : ~Saves(t)' => file'[t] = "weights"
    BY <1>6, <2>1 DEF Kept, Saves, Saving, Thread
  <2>3. ~Resuming'
    BY <1>6, <2>1 DEF Resuming
  <2> QED
    BY <1>6, <2>1, <2>2, <2>3, StillKept DEF Thread
<1>7. CASE TakeItem
  <2>1. ~Resuming
    BY <1>7 DEF TakeItem, Mishap
  <2> QED
    BY <1>6, <1>7, <2>1 DEF TakeItem
<1>8. CASE PeriodicSave
  <2>1. ~Resuming /\ pc["worker"] = "checkpoint"
    BY <1>8 DEF PeriodicSave, Kept
  <2> QED
    BY <1>6, <1>8, <2>1 DEF PeriodicSave
<1>9. CASE Train
  <2>1. pc["worker"] = "train" /\ ~Resuming /\ held' = held /\ file' = file
        /\ path' = path /\ tmp' = tmp /\ pc' = [pc EXCEPT !["worker"] = "checkpoint"]
    BY <1>9 DEF Train, Kept, disk
  <2>2. pc'["main"] = pc["main"] /\ pc'["worker"] = "checkpoint"
    BY <2>1 DEF TypeOK, Thread
  <2>3. Saved' = Saved /\ Saved \in Nat
    BY <2>1, Numbers DEF Saved
  <2>4. agent # None /\ agent \in Nat /\ agent' \in Nat /\ agent <= agent'
    BY <1>9, <2>1, Numbers DEF Train, Alive, Idle, Thread
  <2>5. tmp["weights"] # None => tmp["weights"].steps \in Nat
    BY DEF TypeOK, Name, File
  <2>6. pc["main"] = "replace" /\ file["main"] = "weights" => tmp["weights"] # None
    BY DEF Sound, Holds, Thread
  <2>7. pc'["main"] = "replace" /\ file'["main"] = "weights" =>
          Saved' <= tmp'["weights"].steps /\ tmp'["weights"].steps <= agent'
    BY <2>1, <2>2, <2>3, <2>4, <2>5, <2>6 DEF Kept, Thread
  <2>8. \A t \in Thread : ~Saves(t)' => file'[t] = "weights"
    BY <2>1, <2>2 DEF Kept, Saves, Saving, Thread
  <2>9. Saved <= agent
    BY <2>1, <2>4 DEF Kept
  <2>10. Saved' <= agent'
    BY <2>3, <2>4, <2>9
  <2> QED
    BY <2>1, <2>2, <2>7, <2>8, <2>10 DEF Kept, Resuming, Thread
<1>10. ASSUME NEW t \in Thread, Open(t) PROVE Kept'
  BY <1>10, OpenKept
<1>11. ASSUME NEW t \in Thread, Write(t) PROVE Kept'
  BY <1>11, WriteKept
<1>12. ASSUME NEW t \in Thread, Replace(t) PROVE Kept'
  BY <1>12, ReplaceKept
<1>13. ASSUME NEW t \in Thread, SaveFails(t) PROVE Kept'
  BY <1>13, EndSaveKept DEF SaveFails, Saves, Saving
<1> QED
  BY <1>1, <1>2, <1>3, <1>4, <1>5, <1>7, <1>8, <1>9, <1>10, <1>11, <1>12, <1>13,
     EndedKept, Zenon DEF Next, Start, Kill, vars, disk

-----------------------------------------------------------------------------
(* NextSlack: nor does training get further ahead of the files in place than *)
(* its count says.                                                           *)
LEMMA NextSlack ==
  ASSUME CheckpointAssumption, TypeOK, Alive, Sound, Kept, Slack, [Next]_vars, mishaps' = {}
  PROVE  Slack'
<1>1. Saved \in Nat /\ taken \in Nat /\ Every \in Nat /\ taken <= Every - 1
      /\ (agent # None => agent \in Nat)
  BY Numbers
<1>2. ASSUME agent' = agent, taken' = taken, path' = path, ~Resuming,
             pc'["worker"] = pc["worker"], file'["worker"] = file["worker"]
      PROVE  Slack'
  <2>1. Saved' = Saved
    BY <1>2 DEF Saved
  <2> QED
    BY <1>2, <2>1 DEF Slack, Counting, Saves
<1>3. ASSUME agent' = None PROVE Slack'
  BY <1>3 DEF Slack
<1>4. CASE Start
  <2>1. CASE Resuming
    BY <1>4, <2>1 DEF Start, Slack, Resuming
  <2> QED
    BY <1>2, <1>4, <2>1 DEF Start, disk
<1>5. CASE Kill
  BY <1>3, <1>5 DEF Kill, Ended
<1>6. CASE Terminate
  <2>1. ~Resuming
    BY <1>6 DEF Terminate, Mishap
  <2>2. CASE agent = None
    BY <1>3, <1>6, <2>2 DEF Terminate, Ended
  <2>3. CASE agent # None
    <3>1. pc'["worker"] = pc["worker"]
      BY <1>6, <2>3 DEF Terminate, TypeOK, Thread
    <3> QED
      BY <1>2, <1>6, <2>1, <2>3, <3>1 DEF Terminate, disk
  <2> QED
    BY <2>2, <2>3
<1>7. ASSUME NEW resume \in BOOLEAN, NewAgent(resume) PROVE Slack'
  <2>1. resume
    BY <1>7 DEF NewAgent, Mishap
  <2>2. pc'["main"] = "load weights"
    BY <1>7, <2>1 DEF NewAgent, TypeOK, Thread
  <2> QED
    BY <2>2 DEF Slack, Resuming
<1>8. CASE LoadWeights
  <2>1. pc["main"] = "load weights" /\ agent = 0 /\ path' = path /\ taken' = taken
    BY <1>8 DEF LoadWeights, Kept, disk
  <2>2. CASE CanLoad
    <3>1. pc'["main"] = "load replay"
      BY <1>8, <2>2 DEF LoadWeights, TypeOK, Thread
    <3> QED
      BY <3>1 DEF Slack, Resuming
  <2>3. CASE ~CanLoad
    <3>1. agent' = 0 /\ Saved' = 0
      BY <1>8, <2>1, <2>3 DEF LoadWeights, CanLoad, Readable, Sound, Name, Saved
    <3>2. agent' - Saved' <= taken'
      BY <1>1, <2>1, <3>1, Counts, Zenon
    <3> QED
      BY <3>2 DEF Slack, Counting
  <2> QED
    BY <2>2, <2>3
<1>9. CASE LoadReplay
  <2>1. agent' = Saved /\ path' = path /\ taken' = taken
    BY <1>9 DEF LoadReplay, Kept, disk
  <2>2. Saved' = Saved
    BY <2>1 DEF Saved
  <2>3. agent' - Saved' <= taken'
    BY <1>1, <2>1, <2>2
  <2> QED
    BY <2>3 DEF Slack, Counting
<1>10. CASE TakeItem
  <2>1. ~Resuming /\ pc["worker"] = "wait" /\ agent # None
    BY <1>10 DEF TakeItem, Mishap
  <2>2. agent - Saved <= taken
    BY <2>1 DEF Slack, Counting, Saves, Saving
  <2>3. agent' = agent /\ taken' = taken /\ Saved' = Saved
    BY <1>10 DEF TakeItem, disk, Saved
  <2> QED
    BY <2>2, <2>3 DEF Slack, Counting
<1>11. CASE Train
  <2>1. pc["worker"] = "train" /\ agent # None /\ ~Resuming
    BY <1>11 DEF Train, Alive, Idle, Thread, Kept
  <2>2. agent - Saved <= taken
    BY <2>1 DEF Slack, Counting, Saves, Saving
  <2>3. pc'["worker"] = "checkpoint" /\ Saved' = Saved /\ taken' = (taken + 1) % Every
    BY <1>11 DEF Train, TypeOK, Thread, disk, Saved, Counted
  <2>4. agent \in Nat /\ agent' \in Nat /\ agent' <= agent + 1
    BY <1>1, <1>11, <2>1 DEF Train
  <2>5. CASE taken + 1 < Every
    <3>1. taken' = taken + 1
      BY <1>1, <2>3, <2>5
    <3>2. agent' - Saved' <= taken'
      BY <1>1, <2>2, <2>3, <2>4, <3>1
    <3> QED
      BY <3>2 DEF Slack, Counting
  <2>6. CASE taken + 1 = Every
    <3>1. taken' = 0
      BY <1>1, <2>3, <2>6
    <3>2. agent' - Saved' <= Every
      BY <1>1, <2>2, <2>3, <2>4, <2>6, Counts, Zenon
    <3> QED
      BY <2>3, <3>1, <3>2 DEF Slack, Counting
  <2> QED
    BY <1>1, <2>5, <2>6
<1>12. CASE PeriodicSave
  <2>1. pc["worker"] = "checkpoint" /\ ~Resuming /\ file["worker"] = "weights"
    BY <1>12 DEF PeriodicSave, Kept, Saves, Saving, Thread
  <2>2. agent' = agent /\ taken' = taken /\ Saved' = Saved /\ file' = file
        /\ pc'["worker"] = (IF taken = 0 THEN "open" ELSE "wait")
    BY <1>12 DEF PeriodicSave, disk, Saved, TypeOK, Thread
  <2> QED
    BY <2>1, <2>2 DEF Slack, Counting, Saves, Saving
<1>13. ASSUME NEW t \in Thread, Open(t) \/ Write(t) PROVE Slack'
  <2>1. path' = path /\ agent' = agent /\ taken' = taken /\ file' = file
        /\ pc[t] \in {"open", "write"} /\ pc'[t] \in Saving
        /\ (t # "worker" => pc'["worker"] = pc["worker"])
    <3>1. CASE Open(t)
      BY <3>1 DEF Open, GoTo, TypeOK, Thread, Saving
    <3>2. CASE Write(t)
      <4>1. tmp[file[t]] # None
        BY <3>2 DEF Write, Sound, Holds
      <4> QED
        BY <3>2, <4>1 DEF Write, GoTo, TypeOK, Thread, Saving
    <3> QED
      BY <1>13, <3>1, <3>2
  <2>2. Saved' = Saved
    BY <2>1 DEF Saved
  <2>3. ~Resuming
    BY <2>1 DEF Resuming, Kept, Thread
  <2>4. agent # None => Counting
    BY <2>3 DEF Slack
  <2>5. CASE t = "worker"
    BY <2>1, <2>2, <2>4, <2>5 DEF Slack, Counting, Saves
  <2>6. CASE t # "worker"
    BY <2>1, <2>2, <2>4, <2>6 DEF Slack, Counting, Saves
  <2> QED
    BY <2>5, <2>6
<1>14. ASSUME NEW t \in Thread, Replace(t), agent' # None PROVE Slack'
  <2>1. /\ ~Resuming /\ agent' = agent /\ taken' = taken
        /\ file[t] = "replay" => Saved' = Saved
        /\ t = "worker" /\ file[t] = "weights" => Saved' = agent
        /\ t = "main" => pc'["worker"] = pc["worker"] /\ file'["worker"] = file["worker"]
        /\ Saved <= Saved'
    BY <1>14, ReplaceKept
  <2>2. agent # None /\ Counting /\ agent \in Nat
    BY <1>1, <1>14, <2>1 DEF Slack
  <2>3. Saved' \in Nat
    BY <1>14, <1>1, Numbers DEF Replace, Saved, TypeOK, Name, File, disk
  <2>4. agent - Saved' \in Int /\ agent - Saved \in Int
        /\ agent - Saved' <= agent - Saved
    BY <1>1, <2>1, <2>2, <2>3, Counts, Zenon
  <2>5. CASE t = "main"
    <3>1. agent - Saved <= taken => agent - Saved' <= taken
      BY <1>1, <2>4
    <3>2. agent - Saved <= Every => agent - Saved' <= Every
      BY <1>1, <2>4
    <3> QED
      BY <2>1, <2>2, <2>5, <3>1, <3>2 DEF Slack, Counting, Saves
  <2>6. CASE t = "worker"
    <3>1. pc["worker"] = "replace"
      BY <1>14, <2>6 DEF Replace
    <3>2. agent - Saved' <= taken
      <4>1. CASE file["worker"] = "weights"
        BY <1>1, <2>1, <2>2, <2>6, <4>1
      <4>2. CASE file["worker"] # "weights"
        <5>1. agent - Saved <= taken
          BY <2>2, <3>1, <4>2 DEF Counting
        <5> QED
          BY <1>1, <2>4, <5>1
      <4> QED
        BY <4>1, <4>2
    <3> QED
      BY <2>1, <3>2 DEF Slack, Counting
  <2> QED
    BY <2>5, <2>6 DEF Thread
<1>15. ASSUME NEW t \in Thread, SaveFails(t) PROVE Slack'
  BY <1>15 DEF SaveFails, Mishap
<1>16. CASE UNCHANGED vars
  <2>1. CASE Resuming
    BY <1>16, <2>1 DEF vars, Slack, Resuming
  <2> QED
    BY <1>2, <1>16, <2>1 DEF vars, disk
<1> QED
  BY <1>3, <1>4, <1>5, <1>6, <1>7, <1>8, <1>9, <1>10, <1>11, <1>12, <1>13, <1>14,
     <1>15, <1>16, Zenon DEF Next

(* LossInvHolds: together they are an invariant. *)
LEMMA LossInvHolds == Spec => []LossInv
<1>1. Init => Raceless /\ Flawless
  <2> SUFFICES ASSUME Init PROVE Kept /\ Slack
    BY DEF Raceless, Flawless
  <2>1. agent = None /\ held = None /\ pc = Idle /\ file = First
    BY DEF Init
  <2> QED
    BY <2>1 DEF Kept, Slack, Idle, First, Thread, Resuming, Saves, Saving
<1>2. Inv /\ Raceless /\ Flawless /\ [Next]_vars => Raceless' /\ Flawless'
  <2> SUFFICES ASSUME Inv, Raceless, Flawless, [Next]_vars
               PROVE  (mishaps' \cap Races = {} => Kept') /\ (mishaps' = {} => Slack')
    BY DEF Raceless, Flawless
  <2>1. mishaps \subseteq mishaps'
    BY NoForgetting
  <2>2. ASSUME mishaps' \cap Races = {}
        PROVE  TypeOK /\ Alive /\ Sound /\ Kept
    BY <2>1, <2>2 DEF Inv, Races, Raceless
  <2>3. mishaps' \cap Races = {} => Kept'
    BY <2>2, CheckpointAssumption, NextKept
  <2>4. ASSUME mishaps' = {} PROVE Slack'
    <3>1. mishaps' \cap Races = {} /\ Slack
      BY <2>1, <2>4 DEF Flawless
    <3> QED
      BY <2>2, <2>4, <3>1, CheckpointAssumption, NextSlack
  <2> QED
    BY <2>3, <2>4
<1> QED
  BY <1>1, <1>2, InvHolds, PTL DEF Spec, LossInv

(* LossAlwaysBounded: whenever a process is killed, what it had learned and  *)
(* not saved is no more than one period of training.                         *)
THEOREM LossAlwaysBounded == Spec => []LossBounded
<1>1. LossInv => LossBounded
  <2> SUFFICES ASSUME LossInv, mishaps = {}, agent # None, ~Resuming
               PROVE  agent - Saved <= Every
    BY DEF LossBounded
  <2>1. Counting /\ TypeOK
    BY DEF LossInv, Flawless, Inv, Slack
  <2>2. Saved \in Nat /\ taken \in Nat /\ Every \in Nat /\ taken <= Every - 1 /\ agent \in Nat
    BY <2>1, CheckpointAssumption, Numbers
  <2> QED
    BY <2>1, <2>2 DEF Counting
<1> QED
  BY <1>1, LossInvHolds, PTL

(* ProgressAlwaysKept: without a race no save puts fewer steps in place than *)
(* were there, in this process or a later one.                               *)
THEOREM ProgressAlwaysKept == Spec => ProgressKept
<1>1. LossInv /\ [Next]_vars => [Saved' < Saved => mishaps' \cap Races # {}]_vars
  <2> SUFFICES ASSUME LossInv, [Next]_vars, mishaps' \cap Races = {}
               PROVE  ~(Saved' < Saved)
    BY DEF Races
  <2>1. TypeOK /\ Alive /\ Sound /\ Kept
    BY NoForgetting DEF LossInv, Raceless, Inv, Races
  <2>2. Saved \in Nat
    BY <2>1, CheckpointAssumption, Numbers
  <2>3. path' = path => Saved' = Saved
    BY DEF Saved
  <2>4. ASSUME NEW t \in Thread, Replace(t) PROVE Saved <= Saved' /\ Saved' \in Nat
    <3>1. Saved <= Saved'
      BY <2>1, <2>4, CheckpointAssumption, ReplaceKept
    <3>2. path["weights"] \in File \cup {None} /\ path'["weights"] \in File \cup {None}
      BY <2>1, <2>4 DEF Replace, TypeOK, Name, disk
    <3>3. Saved' \in Nat
      BY <3>2, CheckpointAssumption DEF Saved, File
    <3> QED
      BY <3>1, <3>3
  <2>5. ASSUME NEW t \in Thread, Write(t) PROVE Saved' = Saved
    BY <2>1, <2>5, CheckpointAssumption, WriteKept
  <2>6. ASSUME Next, path' # path
        PROVE  \E t \in Thread : Write(t) \/ Replace(t)
    BY <2>6, Zenon DEF Next, Start, Kill, Terminate, NewAgent, LoadWeights, LoadReplay,
       TakeItem, Train, PeriodicSave, Open, SaveFails, disk
  <2> QED
    BY <2>2, <2>3, <2>4, <2>5, <2>6 DEF vars, disk
<1> QED
  BY <1>1, LossInvHolds, PTL DEF Spec, ProgressKept, Races

-----------------------------------------------------------------------------
USE FedAvgAssumption

\* A nonempty set of rounds has a last one.
LEMMA LastRound ==
  ASSUME NEW T, T \subseteq Round, T # {}
  PROVE  \E x \in T : \A y \in T : x >= y
<1> DEFINE D == {MaxRound - x : x \in T}
           R == OpToRel(<, Nat)
<1> HIDE DEF R
<1>1. D \subseteq Nat /\ D # {}
  <2>1. \A x \in T : MaxRound - x \in Nat
    BY DEF Round
  <2> QED
    BY <2>1
<1>2. \E x \in D : \A y \in D : ~(<<y, x>> \in R)
  <2> HIDE DEF D
  <2>1. IsWellFoundedOn(R, Nat)
    BY NatLessThanWellFounded DEF R
  <2> QED
    BY <1>1, <2>1, WFMin
<1>3. PICK x \in D : \A y \in D : ~(y < x)
  <2>1. \A x, y \in Nat : <<y, x>> \in R <=> y < x
    BY DEF R, OpToRel
  <2> QED
    BY <1>1, <1>2, <2>1
<1>4. PICK t \in T : x = MaxRound - t
  BY <1>3
<1>5. ASSUME NEW y \in T PROVE t >= y
  <2>1. MaxRound - y \in D /\ ~(MaxRound - y < MaxRound - t)
    BY <1>3, <1>4
  <2>2. y \in Int /\ t \in Int
    BY DEF Round
  <2> HIDE DEF D
  <2> QED
    BY <2>1, <2>2
<1> QED
  BY <1>5

\* The detected round is the first one after every published round.
LEMMA DetectRoundIsNext ==
  ASSUME globals \subseteq Round
  PROVE  /\ DetectRound \in 0..MaxRound + 1
         /\ MaxRound \notin globals => DetectRound \in Round
         /\ \A q \in globals : q < DetectRound
         /\ \A r \in Int : 0 <= r /\ r < DetectRound => \E q \in globals : r <= q
<1>1. CASE globals = {}
  BY <1>1 DEF DetectRound, Round
<1>2. CASE globals # {}
  <2>1. PICK x \in globals : \A y \in globals : x >= y
    BY <1>2, LastRound
  <2>2. Max(globals) \in globals /\ \A y \in globals : Max(globals) >= y
    BY <2>1 DEF Max
  <2> DEFINE m == Max(globals)
  <2>3. m \in Round /\ DetectRound = m + 1
    BY <1>2, <2>2 DEF DetectRound
  <2> HIDE DEF m
  <2>4. m \in globals /\ \A y \in globals : m >= y
    BY <2>2 DEF m
  <2> QED
    BY <2>3, <2>4 DEF Round
<1> QED
  BY <1>1, <1>2

-----------------------------------------------------------------------------
\* Files and averages exist only for rounds below the bound.
BoundInv ==
  /\ \A w \in Worker : state[w] = "waiting" => round[w] < MaxRound
  /\ \A w \in Worker : MaxRound \notin files[w]
  /\ MaxRound \notin globals
  /\ root \in {"averaging", "cleaning"} => next < MaxRound

\* The aggregator works on a round after every published one, and so does
\* every live worker after the one its actor came from.
RoundInv ==
  /\ root = "cleaning" => next \in globals /\ \A q \in globals : q <= next
  /\ root \in {"waiting", "averaging"} => \A q \in globals : q < next
  /\ \A w \in Worker : adopted[w] \in globals \cup {-1}
  /\ \A w \in Worker : state[w] # "down" => adopted[w] < round[w]

FedAvgInv == FedTypeOK /\ BoundInv /\ RoundInv

LEMMA FedAvgInit == FedInit => FedAvgInv
<1> SUFFICES ASSUME FedInit PROVE FedAvgInv
  OBVIOUS
<1>1. FedTypeOK
  BY DEF FedInit, FedTypeOK, Round
<1>2. BoundInv
  BY DEF FedInit, BoundInv
<1>3. RoundInv
  BY DEF FedInit, RoundInv
<1> QED
  BY <1>1, <1>2, <1>3 DEF FedAvgInv

LEMMA FedAvgStep == FedAvgInv /\ [FedNext]_fedVars => FedAvgInv'
<1> SUFFICES ASSUME FedAvgInv, [FedNext]_fedVars PROVE FedAvgInv'
  OBVIOUS
<1> USE DEF FedAvgInv, FedTypeOK, BoundInv, RoundInv, Round
<1>0. /\ DetectRound \in Round /\ \A q \in globals : q < DetectRound
  BY DetectRoundIsNext
<1>1. ASSUME NEW w \in Worker, WorkerStart(w) PROVE FedAvgInv'
  BY <1>0, <1>1 DEF WorkerStart, rootVars
<1>2. ASSUME NEW w \in Worker, WorkerCrash(w) PROVE FedAvgInv'
  BY <1>2 DEF WorkerCrash, rootVars
<1>3. ASSUME NEW w \in Worker, Submit(w) PROVE FedAvgInv'
  BY <1>3 DEF Submit, rootVars
<1>4. ASSUME NEW w \in Worker, SubmitFails(w) PROVE FedAvgInv'
  <2>1. round[w] \in Round /\ round[w] < MaxRound /\ lost' = lost \cup {round[w]}
    BY <1>4 DEF SubmitFails
  <2>2. lost' \in SUBSET Round
    BY <2>1
  <2>3. /\ state[w] = "training" /\ state' = [state EXCEPT ![w] = "training"]
        /\ round' = [round EXCEPT ![w] = @ + 1]
        /\ UNCHANGED <<adopted, files, globals, root, next, batch, crashes>>
    BY <1>4 DEF SubmitFails, Return, rootVars
  <2> QED
    BY <2>1, <2>2, <2>3
<1>5. ASSUME NEW w \in Worker, LoadGlobal(w) PROVE FedAvgInv'
  BY <1>5 DEF LoadGlobal, Return, rootVars
<1>6. ASSUME NEW w \in Worker, LoadFails(w) PROVE FedAvgInv'
  BY <1>6 DEF LoadFails, Return, rootVars
<1>7. ASSUME NEW w \in Worker, WaitTimeout(w) PROVE FedAvgInv'
  BY <1>7 DEF WaitTimeout, Return, rootVars
<1>8. CASE AggregatorStart
  BY <1>0, <1>8 DEF AggregatorStart, workerVars
<1>9. CASE AggregatorCrash
  BY <1>9 DEF AggregatorCrash, workerVars, Root
<1>10. CASE Collect
  <2>1. PICK w \in Worker : TRUE
    OBVIOUS
  <2>2. next \in files[w]
    BY <1>10, <2>1 DEF Collect, Submitted
  <2> QED
    BY <1>10, <2>2 DEF Collect, workerVars
<1>11. CASE DropRound
  <2>1. PICK found \in Scans : found # {}
    BY <1>11 DEF DropRound
  <2>2. PICK w \in Worker : next \in files[w]
    BY <2>1 DEF Scans, Submitted
  <2> QED
    BY <1>11, <2>2 DEF DropRound, workerVars
<1>12. CASE RejectRound
  BY <1>12 DEF RejectRound, workerVars
<1>13. CASE Publish
  BY <1>13 DEF Publish, workerVars
<1>14. ASSUME NEW w \in Worker, RemoveFile(w) PROVE FedAvgInv'
  BY <1>14 DEF RemoveFile, workerVars
<1>15. CASE NextRound
  BY <1>15 DEF NextRound, workerVars
<1>16. CASE UNCHANGED fedVars
  BY <1>16 DEF fedVars, workerVars, rootVars
<1> QED
  BY <1>1, <1>2, <1>3, <1>4, <1>5, <1>6, <1>7, <1>8, <1>9, <1>10, <1>11, <1>12,
     <1>13, <1>14, <1>15, <1>16 DEF FedNext, RootStep, RoundsOver

\* Every state has its types: in particular no process ever works on a round
\* beyond the bound, so the bound cuts nothing off but later rounds.
THEOREM FedAvgTypes == FedSpec => []FedTypeOK
<1>1. FedInit => FedAvgInv
  BY FedAvgInit
<1>2. FedAvgInv /\ [FedNext]_fedVars => FedAvgInv'
  BY FedAvgStep
<1>3. FedAvgInv => FedTypeOK
  BY DEF FedAvgInv
<1> QED
  BY <1>1, <1>2, <1>3, PTL DEF FedSpec

-----------------------------------------------------------------------------
LEMMA LogInit == FedInit => Log!Init
  BY DEF FedInit, Log!Init

\* Publish publishes, LoadGlobal adopts; no other step shows in the log.
LEMMA LogStep == FedAvgInv /\ [FedNext]_fedVars => [Log!Next]_<<globals, adopted>>
<1> SUFFICES ASSUME FedAvgInv, [FedNext]_fedVars
             PROVE  Log!Next \/ UNCHANGED <<globals, adopted>>
  OBVIOUS
<1>1. CASE Publish
  <2>1. next \in Round /\ \A q \in globals : q < next
    BY <1>1 DEF FedAvgInv, FedTypeOK, RoundInv, Publish
  <2>2. Log!Publish(next)
    BY <1>1, <2>1 DEF Publish, Log!Publish, workerVars
  <2> QED
    BY <2>1, <2>2 DEF Log!Next
<1>2. ASSUME NEW w \in Worker, LoadGlobal(w) PROVE Log!Next
  <2>1. round[w] \in Round /\ adopted[w] < round[w]
    BY <1>2 DEF FedAvgInv, FedTypeOK, RoundInv, LoadGlobal
  <2>2. Log!Adopt(w, round[w])
    BY <1>2, <2>1 DEF LoadGlobal, Return, Log!Adopt
  <2> QED
    BY <2>1, <2>2 DEF Log!Next
<1>3. CASE RootStep /\ ~Publish
  BY <1>3 DEF RootStep, AggregatorStart, Collect, DropRound, RejectRound,
              RemoveFile, NextRound, workerVars
<1>4. CASE AggregatorCrash \/ RoundsOver \/ UNCHANGED fedVars
  BY <1>4 DEF AggregatorCrash, RoundsOver, fedVars, workerVars
<1>5. ASSUME NEW w \in Worker,
             \/ WorkerStart(w) \/ WorkerCrash(w) \/ Submit(w)
             \/ SubmitFails(w) \/ LoadFails(w) \/ WaitTimeout(w)
      PROVE  UNCHANGED <<globals, adopted>>
  BY <1>5 DEF WorkerStart, WorkerCrash, Submit, SubmitFails, LoadFails,
              WaitTimeout, Return
<1> QED
  BY <1>1, <1>2, <1>3, <1>4, <1>5 DEF FedNext

\* The aggregator and the workers keep the promise of FederationLog through
\* every crash, restart, timeout and dropped round: a global model is published
\* once and after all earlier ones, and no actor goes back to an older one.
THEOREM FedAvgImplementsLog == FedSpec => LogSpec
<1>1. FedInit => FedAvgInv /\ Log!Init
  BY FedAvgInit, LogInit
<1>2. FedAvgInv /\ [FedNext]_fedVars => FedAvgInv'
  BY FedAvgStep
<1>3. FedAvgInv /\ [FedNext]_fedVars => [Log!Next]_<<globals, adopted>>
  BY LogStep
<1> QED
  BY <1>1, <1>2, <1>3, PTL DEF FedSpec, LogSpec, Log!Spec

-----------------------------------------------------------------------------
\* w has been at round r and submitted to it, if it has not just started there.
Attended(w, r) == r < round[w] \/ (r = round[w] /\ state[w] = "waiting")

\* A live worker has left a file for every round that it attended and that
\* may still be published, unless the round was lost.
FilesKept ==
  \A w \in Worker, r \in Round \ lost :
    state[w] # "down" /\ Attended(w, r) /\ (\A q \in globals : q < r)
      => r \in files[w]

LEMMA FilesKeptStep ==
  ASSUME FedAvgInv, FilesKept, [FedNext]_fedVars
  PROVE  FilesKept'
<1> USE DEF FedAvgInv, FedTypeOK, FilesKept, Attended
<1>1. ASSUME NEW w \in Worker, WorkerStart(w) PROVE FilesKept'
  <2>1. \A r \in Round : r < DetectRound => \E q \in globals : ~(q < r)
    BY DetectRoundIsNext DEF Round, BoundInv
  <2> QED
    BY <1>1, <2>1 DEF WorkerStart
<1>2. ASSUME NEW w \in Worker, WorkerCrash(w) PROVE FilesKept'
  BY <1>2 DEF WorkerCrash
<1>3. ASSUME NEW w \in Worker, Submit(w) PROVE FilesKept'
  BY <1>3 DEF Submit
<1>4. ASSUME NEW w \in Worker, LoadGlobal(w) \/ LoadFails(w) \/ WaitTimeout(w)
      PROVE  FilesKept'
  <2>1. \A r \in Round : r < round[w] + 1 => r < round[w] \/ r = round[w]
    BY DEF Round
  <2>2. state[w] = "waiting" /\ round' = [round EXCEPT ![w] = @ + 1]
    BY <1>4 DEF LoadGlobal, LoadFails, WaitTimeout, Return
  <2>3. /\ state' = [state EXCEPT ![w] = "training"]
        /\ UNCHANGED <<files, globals, lost>>
    BY <1>4 DEF LoadGlobal, LoadFails, WaitTimeout, Return
  <2> QED
    BY <2>1, <2>2, <2>3
<1>5. ASSUME NEW w \in Worker, SubmitFails(w) PROVE FilesKept'
  <2>1. \A r \in Round : r < round[w] + 1 => r < round[w] \/ r = round[w]
    BY DEF Round
  <2>2. /\ round' = [round EXCEPT ![w] = @ + 1] /\ lost' = lost \cup {round[w]}
        /\ state[w] = "training" /\ state' = [state EXCEPT ![w] = "training"]
        /\ UNCHANGED <<files, globals>>
    BY <1>5 DEF SubmitFails, Return
  <2> QED
    BY <2>1, <2>2
<1>6. CASE Publish
  BY <1>6 DEF Publish, workerVars
<1>7. ASSUME NEW w \in Worker, RemoveFile(w) PROVE FilesKept'
  <2>1. next \in globals
    BY <1>7 DEF RemoveFile, RoundInv
  <2> QED
    BY <1>7, <2>1 DEF RemoveFile, workerVars, Round
<1>8. CASE AggregatorStart \/ Collect \/ DropRound \/ RejectRound \/ NextRound
           \/ AggregatorCrash \/ RoundsOver \/ UNCHANGED fedVars
  <2>1. UNCHANGED <<workerVars, files, globals>>
    BY <1>8 DEF AggregatorStart, Collect, DropRound, RejectRound, NextRound,
                AggregatorCrash, RoundsOver, fedVars
  <2> QED
    BY <2>1 DEF workerVars
<1> QED
  BY <1>1, <1>2, <1>3, <1>4, <1>5, <1>6, <1>7, <1>8 DEF FedNext, RootStep

\* The aggregator never waits for a round that a live worker has left without a
\* file, unless some worker could not write its file for it: as soon as one
\* worker has moved on, the aggregator's timeout for the round can start.
THEOREM NoRoundIsOrphaned == FedSpec => []NoOrphanRound
<1>1. FedInit => FedAvgInv /\ FilesKept
  BY FedAvgInit DEF FedInit, FilesKept
<1>2. FedAvgInv /\ FilesKept /\ [FedNext]_fedVars => (FedAvgInv /\ FilesKept)'
  BY FedAvgStep, FilesKeptStep
<1>3. FedAvgInv /\ FilesKept => NoOrphanRound
  <2> SUFFICES ASSUME FedAvgInv, FilesKept, root = "waiting",
                      next \notin lost,
                      NEW w \in Worker, state[w] # "down", round[w] > next
               PROVE  Submitted(next) # {}
    BY DEF NoOrphanRound, Passed
  <2>1. next \in Round /\ next < round[w] /\ \A q \in globals : q < next
    BY DEF FedAvgInv, FedTypeOK, RoundInv, Round
  <2>2. next \in files[w]
    BY <2>1 DEF FilesKept, Attended
  <2> QED
    BY <2>2 DEF Submitted
<1> QED
  BY <1>1, <1>2, <1>3, PTL DEF FedSpec
=============================================================================
