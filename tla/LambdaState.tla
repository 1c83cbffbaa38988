------------------------------ MODULE LambdaState ------------------------------
(***************************************************************************)
(* The file behind the safety multiplier (oval_mcp/training/               *)
(* lambda_state.py) and the processes that use it: the driver that sets it *)
(* up (training/run_grpo.py), the actors that update it at batch ends      *)
(* (training/hooks.py) and the reward workers, which read it without a     *)
(* lock (reward/oval_reward_fn.py).                                        *)
(*                                                                         *)
(* A save is three steps: the temporary file is opened, and so emptied,    *)
(* written, and renamed over the state file.  A process, or the training   *)
(* with all its processes, may die between any two steps; the kernel then  *)
(* drops the file lock.                                                    *)
(***************************************************************************)
EXTENDS Integers

CONSTANTS
  Actors, Driver,      \* the processes
  Nobody,              \* the lock is free
  Torn,                \* content of a file that was opened and not yet written
  Rules, Fresh, Default, Batches, Tau, Limits, Unset,
  MaxStreak,           \* bound: no unsafe batches from this streak on
  MaxStarts            \* bound: starts of a training

VARIABLES
  file, tmp,           \* the state file and the temporary file beside it
  lock,                \* the holder of the lock file
  pc, held,            \* of each process: where it is, the state it holds
  batch,               \* of each actor: the batch it updates with
  training,            \* [k_stall, keep_lambda] of the training that runs
  starts               \* trainings started

vars == << file, tmp, lock, pc, held, batch, training, starts >>

Multiplier == INSTANCE SafetyMultiplier WITH multiplier <- file
States  == Multiplier!States
Updated(s, unsafe, k) == Multiplier!Updated(s, unsafe, k)

ASSUME MultiplierAssumption == Multiplier!Parameters

Processes == Actors \union {Driver}
ASSUME ProcessesAssumption ==
  /\ Driver \notin Actors /\ Nobody \notin Processes
  /\ Torn \notin States /\ Torn # Unset
  /\ MaxStreak \in Nat /\ MaxStarts \in Nat

At(p, place) == pc[p] = place
Goto(p, place) == pc' = [pc EXCEPT ![p] = place]
TrainingUp == At(Driver, "up")
OrDefault(content, default) == IF content = Unset THEN default ELSE content

(***************************************************************************)
(* The driver, before there are actors.                                    *)
(***************************************************************************)
StartTraining ==
  /\ At(Driver, "down") /\ \A a \in Actors : At(a, "down")
  /\ starts < MaxStarts /\ starts' = starts + 1
  /\ \E k \in Limits, keep \in BOOLEAN : training' = [k_stall |-> k, keep_lambda |-> keep]
  /\ Goto(Driver, IF ~training'.keep_lambda /\ file # Unset THEN "reset" ELSE "load")
  /\ UNCHANGED << file, tmp, lock, held, batch >>

ResetFile ==
  /\ At(Driver, "reset") /\ lock = Nobody
  /\ file' = Unset
  /\ Goto(Driver, "load")
  /\ UNCHANGED << tmp, lock, held, batch, training, starts >>

(* Without a file to keep, the class's own defaults are taken.             *)
LoadAtStart ==
  /\ At(Driver, "load")
  /\ held' = [held EXCEPT ![Driver] =
       OrDefault(file, IF training.keep_lambda THEN Default ELSE Fresh)]
  /\ Goto(Driver, "open")
  /\ UNCHANGED << file, tmp, lock, batch, training, starts >>

(***************************************************************************)
(* An actor: atomic_update.                                                *)
(***************************************************************************)
StartActor(a) ==
  /\ TrainingUp /\ At(a, "down")
  /\ Goto(a, "rollout")
  /\ UNCHANGED << file, tmp, lock, held, batch, training, starts >>

BatchEnds(a) ==
  /\ At(a, "rollout")
  /\ \E unsafe \in Batches :
       /\ unsafe > Tau => file.streak < MaxStreak
       /\ batch' = [batch EXCEPT ![a] = unsafe]
  /\ Goto(a, "lock")
  /\ UNCHANGED << file, tmp, lock, held, training, starts >>

(* Mutant: the lock is not taken.                                           *)
LockShared(a) ==
  /\ At(a, "lock")
  /\ lock' = a
  /\ Goto(a, "update")
  /\ UNCHANGED << file, tmp, held, batch, training, starts >>

Lock(a) ==
  /\ At(a, "lock") /\ lock = Nobody
  /\ lock' = a
  /\ Goto(a, "update")
  /\ UNCHANGED << file, tmp, held, batch, training, starts >>

LoadAndUpdate(a) ==
  /\ At(a, "update")
  /\ held' = [held EXCEPT ![a] = Updated(OrDefault(file, Default), batch[a], training.k_stall)]
  /\ Goto(a, "open")
  /\ UNCHANGED << file, tmp, lock, batch, training, starts >>

Unlock(a) ==
  /\ At(a, "unlock")
  /\ lock' = Nobody
  /\ held' = [held EXCEPT ![a] = Unset]
  /\ Goto(a, "rollout")
  /\ UNCHANGED << file, tmp, batch, training, starts >>

(***************************************************************************)
(* save, by the driver and by the actors.                                  *)
(***************************************************************************)
OpenTmp(p) ==
  /\ At(p, "open")
  /\ tmp' = Torn
  /\ Goto(p, "write")
  /\ UNCHANGED << file, lock, held, batch, training, starts >>

WriteTmp(p) ==
  /\ At(p, "write")
  /\ tmp' = held[p]
  /\ Goto(p, "replace")
  /\ UNCHANGED << file, lock, held, batch, training, starts >>

Replace(p) ==
  /\ At(p, "replace")
  /\ file' = tmp /\ tmp' = Unset
  /\ Goto(p, IF p = Driver THEN "up" ELSE "unlock")
  /\ held' = IF p = Driver THEN [held EXCEPT ![Driver] = Unset] ELSE held
  /\ UNCHANGED << lock, batch, training, starts >>

(***************************************************************************)
(* Deaths: of one actor, by an exception or a crash, or of all processes.  *)
(***************************************************************************)
Dies(a) ==
  /\ ~At(a, "down")
  /\ Goto(a, "down")
  /\ lock' = IF lock = a THEN Nobody ELSE lock
  /\ held' = [held EXCEPT ![a] = Unset]
  /\ UNCHANGED << file, tmp, batch, training, starts >>

TrainingEnds ==
  /\ ~At(Driver, "down")
  /\ pc' = [p \in Processes |-> "down"]
  /\ lock' = Nobody
  /\ held' = [p \in Processes |-> Unset]
  /\ UNCHANGED << file, tmp, batch, training, starts >>

Init ==
  /\ file = Unset /\ tmp = Unset /\ lock = Nobody
  /\ pc = [p \in Processes |-> "down"]
  /\ held = [p \in Processes |-> Unset]
  /\ batch \in [Actors -> Batches]
  /\ training \in [k_stall : Limits, keep_lambda : BOOLEAN]
  /\ starts = 0

Saves(p)  == OpenTmp(p) \/ WriteTmp(p) \/ Replace(p)
Update(a) == LoadAndUpdate(a) \/ Saves(a) \/ Unlock(a)

Next ==
  \/ StartTraining \/ ResetFile \/ LoadAtStart \/ Saves(Driver)
  \/ \E a \in Actors : StartActor(a) \/ BatchEnds(a) \/ Lock(a) \/ Update(a) \/ Dies(a)
  \/ TrainingEnds

(* A process inside an update goes on.  flock queues those that wait, so a *)
(* lock that is free again and again is granted.                           *)
Spec ==
  /\ Init /\ [][Next]_vars
  /\ \A a \in Actors : WF_vars(Update(a)) /\ SF_vars(Lock(a))

(***************************************************************************)
(* Properties.                                                             *)
(***************************************************************************)

(* Every variable keeps its type; the lock is held by the actor that is    *)
(* inside an update, and by no other.                                      *)
Places  == {"down", "rollout", "lock", "update", "open", "write", "replace", "unlock"}
Holding == {"update", "open", "write", "replace", "unlock"}
TypeOK ==
  /\ file \in States \union {Unset}
  /\ tmp \in States \union {Unset, Torn}
  /\ lock \in Actors \union {Nobody}
  /\ pc \in [Processes -> Places \union {"reset", "load", "up"}]
  /\ \A a \in Actors : pc[a] \in Places /\ (lock = a <=> pc[a] \in Holding)
  /\ pc[Driver] \in {"down", "reset", "load", "open", "write", "replace", "up"}
  /\ held \in [Processes -> States \union {Unset}]
  /\ batch \in [Actors -> Batches]
  /\ training \in [k_stall : Limits, keep_lambda : BOOLEAN]
  /\ starts \in 0 .. MaxStarts

(* "os.replace is atomic, reads need no lock": while a training runs, a    *)
(* reward worker finds a complete state in the file, whoever is inside a   *)
(* save or was killed in one.                                              *)
ReadableInTraining == TrainingUp => file \in States

(* "An atomic load, update and save, so that concurrent updates of several *)
(* actors do not overwrite each other": what the file goes through is a    *)
(* sequence of single updates of the multiplier, none lost and none based  *)
(* on an older state, whoever dies in between.                             *)
UpdatesInOrder == Multiplier!MultiplierSpec

(* "While frozen the multiplier does not grow": no published state that is *)
(* frozen is larger than the one before it, the batch that freezes it      *)
(* included.                                                               *)
FrozenNeverRises ==
  [][file # Unset /\ file' # Unset /\ file'.frozen => file'.lambda <= file.lambda]_vars

(* The stall protection follows the streak, though each training may have  *)
(* its own k_stall: frozen only with a streak some training calls a stall, *)
(* and never open with one that every training does.                       *)
FrozenByStreak ==
  file # Unset =>
    /\ file.frozen => \E k \in Limits : file.streak >= k
    /\ (\A k \in Limits : file.streak >= k) => file.frozen

(* "Unfrozen when hat_C returns to the normal range": if updates go on and *)
(* unsafe batches stop, the multiplier is unfrozen for good.               *)
Publishes(unsafe) == \E a \in Actors : Replace(a) /\ (batch[a] > Tau <=> unsafe)
Thaws ==
  []<><<Publishes(FALSE)>>_vars =>
    []<><<Publishes(TRUE)>>_vars \/ <>[](file # Unset => ~file.frozen)

=============================================================================
