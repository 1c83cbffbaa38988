--------------------------- MODULE LambdaStateProofs ---------------------------
(***************************************************************************)
(* Theorems about LambdaState, for any number of actors, any batches and   *)
(* any parameters of the multiplier: the file goes through single updates  *)
(* one after the other, is readable while a training runs, and never rises *)
(* while frozen.                                                           *)
(***************************************************************************)
EXTENDS LambdaState, TLAPS

(* Where the driver saves, it is alone, and holds the file or a first      *)
(* state; an actor runs in a training that is up.                          *)
DriverAlone ==
  ~TrainingUp => \A a \in Actors : pc[a] = "down"
DriverHolds ==
  pc[Driver] \in {"open", "write", "replace"} =>
    held[Driver] \in States /\ \/ held[Driver] = file
                               \/ file = Unset /\ held[Driver] \in {Fresh, Default}

(* An actor that saves holds the update of what is in the file: nobody     *)
(* changed it since.                                                       *)
ActorHolds ==
  \A a \in Actors : pc[a] \in {"open", "write", "replace"} =>
    held[a] = Updated(file, batch[a], training.k_stall)

(* What is about to be renamed is complete.                                *)
TmpComplete == \A p \in Processes : pc[p] = "replace" => tmp = held[p]

IInv ==
  /\ TypeOK /\ ReadableInTraining /\ FrozenByStreak
  /\ DriverAlone /\ DriverHolds /\ ActorHolds /\ TmpComplete

-----------------------------------------------------------------------------
(* The parameters, in the form the proofs use them.                        *)
LEMMA ParametersHold ==
  /\ \A r \in Rules : r.alpha \in Nat /\ r.epsilon \in Int /\ r.max \in Nat
  /\ Fresh \in States /\ Default \in States
  /\ ~Fresh.frozen /\ Fresh.streak = 0 /\ ~Default.frozen /\ Default.streak = 0
  /\ Batches \subseteq Nat /\ Tau \in Int
  /\ Limits \subseteq Nat \ {0}
  /\ Unset \notin States
BY MultiplierAssumption DEF Multiplier!Parameters, States

(* An update of a state is a state, frozen as its streak says, and not     *)
(* larger than before if it is frozen.                                     *)
LEMMA UpdatedState ==
  ASSUME NEW s \in States, NEW unsafe \in Batches, NEW k \in Limits
  PROVE  /\ Updated(s, unsafe, k) \in States
         /\ Updated(s, unsafe, k).frozen => Updated(s, unsafe, k).lambda <= s.lambda
         /\ (s.frozen => \E l \in Limits : s.streak >= l)
              => (Updated(s, unsafe, k).frozen => \E l \in Limits : Updated(s, unsafe, k).streak >= l)
         /\ ((\A l \in Limits : s.streak >= l) => s.frozen)
              => ((\A l \in Limits : Updated(s, unsafe, k).streak >= l) => Updated(s, unsafe, k).frozen)
<1> DEFINE streak == Multiplier!Streak(s, unsafe)
           stalls == Multiplier!Stalls(s, unsafe)
           frozen == Multiplier!Frozen(s, unsafe, k)
           rise   == Multiplier!Rise(s, unsafe)
           u      == Updated(s, unsafe, k)
<1>1. rise \in Int /\ s.lambda \in Nat /\ s.rule.max \in Nat /\ s.streak \in Nat /\ s.frozen \in BOOLEAN
      /\ unsafe \in Nat /\ Tau \in Int /\ k \in Nat \ {0}
  <2>1. s.rule.alpha \in Nat /\ s.rule.epsilon \in Int /\ s.rule.max \in Nat /\ unsafe \in Nat
    BY ParametersHold DEF States, Multiplier!States
  <2> QED
    BY <2>1, ParametersHold DEF States, Multiplier!States, Multiplier!Rise
<1>2. /\ streak \in Nat
      /\ stalls <=> unsafe > Tau /\ rise > 0
      /\ stalls => streak = s.streak + 1
      /\ ~stalls => streak <= s.streak
      /\ unsafe > Tau => streak >= s.streak
  BY <1>1 DEF Multiplier!Streak, Multiplier!Stalls
<1>3. frozen <=> (stalls /\ streak >= k) \/ (s.frozen /\ (unsafe <= Tau => streak >= k))
  BY DEF Multiplier!Frozen
<1>4. /\ u.streak = streak /\ u.frozen = frozen /\ u.rule = s.rule
      /\ u.lambda \in Nat /\ (frozen => u.lambda <= s.lambda)
  <2>1. Multiplier!Clamp(s.lambda + rise, s.rule.max) \in Nat
        /\ (rise <= 0 => Multiplier!Clamp(s.lambda + rise, s.rule.max) <= s.lambda)
    BY <1>1 DEF Multiplier!Clamp
  <2>2. Multiplier!Lambda(s, unsafe, k) \in Nat /\ (frozen => Multiplier!Lambda(s, unsafe, k) <= s.lambda)
    BY <1>1, <2>1 DEF Multiplier!Lambda
  <2> QED
    BY <2>2 DEF Updated, Multiplier!Updated
<1>5. u \in States
  <2>1. s.rule \in Rules /\ Multiplier!Lambda(s, unsafe, k) \in Nat /\ frozen \in BOOLEAN
    BY <1>4 DEF States, Multiplier!States, Updated, Multiplier!Updated, Multiplier!Frozen
  <2> QED
    BY <1>2, <2>1 DEF States, Multiplier!States, Updated, Multiplier!Updated
<1>6. u.frozen => u.lambda <= s.lambda
  BY <1>4
<1>7. ASSUME s.frozen => \E l \in Limits : s.streak >= l, u.frozen
      PROVE  \E l \in Limits : u.streak >= l
  <2>1. CASE streak >= k
    BY <2>1, <1>4
  <2>2. CASE s.frozen /\ unsafe > Tau
    <3>1. PICK l \in Limits : s.streak >= l
      BY <1>7, <2>2
    <3>2. streak >= l
      BY <1>1, <1>2, <2>2, <3>1, ParametersHold
    <3> QED
      BY <1>4, <3>2
  <2> QED
    BY <1>1, <1>3, <1>4, <1>7, <2>1, <2>2
<1>8. ASSUME (\A l \in Limits : s.streak >= l) => s.frozen, \A l \in Limits : u.streak >= l
      PROVE  u.frozen
  <2>1. streak >= k
    BY <1>4, <1>8
  <2>2. CASE stalls
    BY <1>3, <1>4, <2>1, <2>2
  <2>3. CASE ~stalls
    <3>1. \A l \in Limits : s.streak >= l
      BY <1>1, <1>2, <1>4, <1>8, <2>3, ParametersHold
    <3> QED
      BY <1>3, <1>4, <1>8, <2>1, <3>1
  <2> QED
    BY <2>2, <2>3
<1> QED
  BY <1>5, <1>6, <1>7, <1>8

-----------------------------------------------------------------------------
(* The invariant is inductive: it holds initially, and each step keeps it. *)
LEMMA Initially == Init => IInv
<1> SUFFICES ASSUME Init PROVE IInv
  OBVIOUS
<1> USE ProcessesAssumption, ParametersHold DEF Init
<1>1. TypeOK
  <2>1. /\ pc \in [Processes -> {"down"}] /\ held \in [Processes -> {Unset}]
        /\ \A p \in Processes : pc[p] = "down"
    OBVIOUS
  <2>2. training \in [k_stall : Limits, keep_lambda : BOOLEAN] /\ starts \in 0 .. MaxStarts
    OBVIOUS
  <2> QED
    BY <2>1, <2>2 DEF TypeOK, Places, Holding, Processes
<1>2. ReadableInTraining /\ FrozenByStreak /\ DriverAlone /\ DriverHolds /\ ActorHolds /\ TmpComplete
  BY DEF ReadableInTraining, FrozenByStreak, DriverAlone, DriverHolds, ActorHolds, TmpComplete, TrainingUp, At, Processes
<1> QED
  BY <1>1, <1>2 DEF IInv

LEMMA Stepwise == IInv /\ [Next]_vars => IInv'
<1> SUFFICES ASSUME IInv, [Next]_vars PROVE IInv'
  OBVIOUS
<1> USE ProcessesAssumption, ParametersHold DEF IInv, Processes
<1> DEFINE Rest == /\ ReadableInTraining /\ FrozenByStreak
                   /\ DriverAlone /\ DriverHolds /\ ActorHolds /\ TmpComplete
<1>1. CASE StartTraining
  <2> USE <1>1 DEF StartTraining, Goto, At
  <2>1. training' \in [k_stall : Limits, keep_lambda : BOOLEAN]
    BY DEF TypeOK
  <2>2. TypeOK'
    BY <2>1 DEF TypeOK, Places, Holding
  <2>3. Rest'
    BY DEF TypeOK, ReadableInTraining, FrozenByStreak, DriverAlone, DriverHolds, ActorHolds, TmpComplete, TrainingUp
  <2> QED
    BY <2>2, <2>3
<1>2. CASE ResetFile
  <2> USE <1>2 DEF ResetFile, Goto, At
  <2>1. TypeOK'
    BY DEF TypeOK, Places, Holding
  <2>2. Rest'
    BY DEF TypeOK, ReadableInTraining, FrozenByStreak, DriverAlone, DriverHolds, ActorHolds, TmpComplete, TrainingUp
  <2> QED
    BY <2>1, <2>2
<1>3. CASE LoadAtStart
  <2> USE <1>3 DEF LoadAtStart, Goto, At
  <2>1. /\ held'[Driver] \in States
        /\ held'[Driver] = file \/ (file = Unset /\ held'[Driver] \in {Fresh, Default})
    BY DEF TypeOK, OrDefault
  <2>2. TypeOK'
    BY <2>1 DEF TypeOK, Places, Holding
  <2>3. Rest'
    BY <2>1 DEF TypeOK, ReadableInTraining, FrozenByStreak, DriverAlone, DriverHolds, ActorHolds, TmpComplete, TrainingUp
  <2> QED
    BY <2>2, <2>3
<1>4. CASE Saves(Driver)
  <2>1. CASE OpenTmp(Driver)
    <3> USE <2>1 DEF OpenTmp, Goto, At
    <3>1. TypeOK'
      BY DEF TypeOK, Places, Holding
    <3>2. Rest'
      BY DEF TypeOK, ReadableInTraining, FrozenByStreak, DriverAlone, DriverHolds, ActorHolds, TmpComplete, TrainingUp
    <3> QED
      BY <3>1, <3>2
  <2>2. CASE WriteTmp(Driver)
    <3> USE <2>2 DEF WriteTmp, Goto, At
    <3>1. TypeOK'
      BY DEF TypeOK, Places, Holding
    <3>2. Rest'
      BY DEF TypeOK, ReadableInTraining, FrozenByStreak, DriverAlone, DriverHolds, ActorHolds, TmpComplete, TrainingUp
    <3> QED
      BY <3>1, <3>2
  <2>3. CASE Replace(Driver)
    <3> USE <2>3 DEF Replace, Goto, At
    <3>1. file' = held[Driver] /\ held[Driver] \in States
      BY DEF TypeOK, DriverHolds, TmpComplete
    <3>2. TypeOK'
      BY <3>1 DEF TypeOK, Places, Holding
    <3>3. FrozenByStreak'
      BY <3>1 DEF FrozenByStreak, DriverHolds, TypeOK
    <3>4. Rest'
      BY <3>1, <3>3 DEF TypeOK, ReadableInTraining, DriverAlone, DriverHolds, ActorHolds, TmpComplete, TrainingUp
    <3> QED
      BY <3>2, <3>4
  <2> QED
    BY <1>4, <2>1, <2>2, <2>3 DEF Saves
<1>5. ASSUME NEW a \in Actors, StartActor(a) PROVE IInv'
  <2> USE <1>5 DEF StartActor, Goto, At
  <2>1. TypeOK'
    BY DEF TypeOK, Places, Holding
  <2>2. Rest'
    BY DEF TypeOK, ReadableInTraining, FrozenByStreak, DriverAlone, DriverHolds, ActorHolds, TmpComplete, TrainingUp
  <2> QED
    BY <2>1, <2>2
<1>6. ASSUME NEW a \in Actors, BatchEnds(a) PROVE IInv'
  <2> USE <1>6 DEF BatchEnds, Goto, At
  <2>1. TypeOK'
    BY DEF TypeOK, Places, Holding
  <2>2. Rest'
    BY DEF TypeOK, ReadableInTraining, FrozenByStreak, DriverAlone, DriverHolds, ActorHolds, TmpComplete, TrainingUp
  <2> QED
    BY <2>1, <2>2
<1>7. ASSUME NEW a \in Actors, Lock(a) PROVE IInv'
  <2> USE <1>7 DEF Lock, Goto, At
  <2>1. TypeOK'
    BY DEF TypeOK, Places, Holding
  <2>2. Rest'
    BY DEF TypeOK, ReadableInTraining, FrozenByStreak, DriverAlone, DriverHolds, ActorHolds, TmpComplete, TrainingUp
  <2> QED
    BY <2>1, <2>2
<1>8. ASSUME NEW a \in Actors, LoadAndUpdate(a) PROVE IInv'
  <2> USE <1>8 DEF LoadAndUpdate, Goto, At
  <2>1. file \in States /\ held'[a] = Updated(file, batch[a], training.k_stall)
    BY DEF TypeOK, OrDefault, DriverAlone, ReadableInTraining, TrainingUp
  <2>2. held'[a] \in States
    BY <2>1, UpdatedState DEF TypeOK
  <2>3. TypeOK'
    BY <2>2 DEF TypeOK, Places, Holding
  <2>4. Rest'
    BY <2>1 DEF TypeOK, ReadableInTraining, FrozenByStreak, DriverAlone, DriverHolds, ActorHolds, TmpComplete, TrainingUp
  <2> QED
    BY <2>3, <2>4
<1>9. ASSUME NEW a \in Actors, OpenTmp(a) PROVE IInv'
  <2> USE <1>9 DEF OpenTmp, Goto, At
  <2>1. TypeOK'
    BY DEF TypeOK, Places, Holding
  <2>2. Rest'
    BY DEF TypeOK, Holding, ReadableInTraining, FrozenByStreak, DriverAlone, DriverHolds, ActorHolds, TmpComplete, TrainingUp
  <2> QED
    BY <2>1, <2>2
<1>10. ASSUME NEW a \in Actors, WriteTmp(a) PROVE IInv'
  <2> USE <1>10 DEF WriteTmp, Goto, At
  <2>1. TypeOK'
    BY DEF TypeOK, Places, Holding
  <2>2. Rest'
    BY DEF TypeOK, Holding, ReadableInTraining, FrozenByStreak, DriverAlone, DriverHolds, ActorHolds, TmpComplete, TrainingUp
  <2> QED
    BY <2>1, <2>2
<1>11. ASSUME NEW a \in Actors, Replace(a) PROVE IInv'
  <2> USE <1>11 DEF Replace, Goto, At
  <2>1. /\ file \in States /\ file' = Updated(file, batch[a], training.k_stall)
        /\ batch[a] \in Batches /\ training.k_stall \in Limits
    BY DEF TypeOK, ActorHolds, TmpComplete, DriverAlone, ReadableInTraining, TrainingUp
  <2>2. file' \in States /\ FrozenByStreak'
    BY <2>1, UpdatedState DEF FrozenByStreak
  <2>3. TypeOK'
    BY <2>2 DEF TypeOK, Places, Holding
  <2>4. Rest'
    BY <2>2 DEF TypeOK, Holding, ReadableInTraining, DriverAlone, DriverHolds, ActorHolds, TmpComplete, TrainingUp
  <2> QED
    BY <2>3, <2>4
<1>12. ASSUME NEW a \in Actors, Unlock(a) PROVE IInv'
  <2> USE <1>12 DEF Unlock, Goto, At
  <2>1. TypeOK'
    BY DEF TypeOK, Places, Holding
  <2>2. Rest'
    BY DEF TypeOK, ReadableInTraining, FrozenByStreak, DriverAlone, DriverHolds, ActorHolds, TmpComplete, TrainingUp
  <2> QED
    BY <2>1, <2>2
<1>13. ASSUME NEW a \in Actors, Dies(a) PROVE IInv'
  <2> USE <1>13 DEF Dies, Goto, At
  <2>1. TypeOK'
    BY DEF TypeOK, Places, Holding
  <2>2. Rest'
    BY DEF TypeOK, ReadableInTraining, FrozenByStreak, DriverAlone, DriverHolds, ActorHolds, TmpComplete, TrainingUp
  <2> QED
    BY <2>1, <2>2
<1>14. CASE TrainingEnds
  <2> USE <1>14 DEF TrainingEnds, At
  <2>1. TypeOK'
    BY DEF TypeOK, Places, Holding
  <2>2. Rest'
    BY DEF TypeOK, ReadableInTraining, FrozenByStreak, DriverAlone, DriverHolds, ActorHolds, TmpComplete, TrainingUp
  <2> QED
    BY <2>1, <2>2
<1>15. CASE UNCHANGED vars
  BY <1>15 DEF vars, TypeOK, ReadableInTraining, FrozenByStreak, DriverAlone, DriverHolds, ActorHolds, TmpComplete,
               TrainingUp, At
<1> QED
  BY <1>1, <1>2, <1>3, <1>4, <1>5, <1>6, <1>7, <1>8, <1>9, <1>10, <1>11, <1>12, <1>13, <1>14, <1>15
  DEF Next, Update, Saves

(* The invariant holds in every behaviour.                                 *)
LEMMA Invariant == Spec => []IInv
<1>1. Init => IInv
  BY Initially
<1>2. IInv /\ [Next]_vars => IInv'
  BY Stepwise
<1> QED
  BY <1>1, <1>2, PTL DEF Spec

-----------------------------------------------------------------------------
(* Every variable keeps its type, and the lock is held by the one actor    *)
(* that is inside an update.                                               *)
THEOREM TypeCorrect == Spec => []TypeOK
BY Invariant, PTL DEF IInv

(* A reward worker that reads without the lock finds a complete state.     *)
THEOREM Readable == Spec => []ReadableInTraining
BY Invariant, PTL DEF IInv

(* The file is frozen as its streak says.                                  *)
THEOREM FrozenAsStreak == Spec => []FrozenByStreak
BY Invariant, PTL DEF IInv

(* What a step does to the file is one step of the multiplier, or nothing. *)
LEMMA OneUpdate ==
  ASSUME IInv, [Next]_vars
  PROVE  \/ file' = file
         \/ file' = Unset
         \/ file = Unset /\ file' \in {Fresh, Default}
         \/ /\ file \in States
            /\ \E unsafe \in Batches, k \in Limits : file' = Updated(file, unsafe, k)
<1> USE ProcessesAssumption, ParametersHold DEF IInv, Processes
<1>1. CASE Replace(Driver)
  BY <1>1 DEF Replace, At, TypeOK, TmpComplete, DriverHolds
<1>2. ASSUME NEW a \in Actors, Replace(a)
      PROVE  file \in States /\ \E unsafe \in Batches, k \in Limits : file' = Updated(file, unsafe, k)
  <2>1. /\ file \in States /\ file' = Updated(file, batch[a], training.k_stall)
        /\ batch[a] \in Batches /\ training.k_stall \in Limits
    BY <1>2 DEF Replace, At, TypeOK, ActorHolds, TmpComplete, DriverAlone, ReadableInTraining, TrainingUp
  <2> QED
    BY <2>1
<1>3. CASE ResetFile
  BY <1>3 DEF ResetFile
<1>4. CASE UNCHANGED file
  BY <1>4
<1>5. \/ Replace(Driver) \/ (\E a \in Actors : Replace(a)) \/ ResetFile \/ UNCHANGED file
  BY DEF Next, Update, Saves, vars, StartTraining, LoadAtStart, OpenTmp, WriteTmp, StartActor, BatchEnds, Lock,
         LoadAndUpdate, Unlock, Dies, TrainingEnds
<1> QED
  BY <1>1, <1>2, <1>3, <1>4, <1>5

(* No update is lost, and none is based on an older state, whatever dies:  *)
(* the file implements the multiplier with single updates.                 *)
THEOREM Implements == Spec => UpdatesInOrder
<1>1. Init => Multiplier!MultiplierInit
  BY DEF Init, Multiplier!MultiplierInit
<1>2. IInv /\ [Next]_vars => [Multiplier!MultiplierNext]_file
  <2> SUFFICES ASSUME IInv, [Next]_vars PROVE [Multiplier!MultiplierNext]_file
    OBVIOUS
  <2>1. CASE file' = file
    BY <2>1
  <2>2. CASE file' = Unset
    BY <2>2 DEF Multiplier!MultiplierNext, Multiplier!Reset
  <2>3. CASE file = Unset /\ file' \in {Fresh, Default}
    BY <2>3 DEF Multiplier!MultiplierNext, Multiplier!Begin
  <2>4. CASE file \in States /\ \E unsafe \in Batches, k \in Limits : file' = Updated(file, unsafe, k)
    BY <2>4, ParametersHold DEF Multiplier!MultiplierNext, Multiplier!UpdateWith, Updated
  <2> QED
    BY <2>1, <2>2, <2>3, <2>4, OneUpdate
<1> QED
  BY <1>1, <1>2, Invariant, PTL DEF Spec, UpdatesInOrder, Multiplier!MultiplierSpec

(* A frozen multiplier never rises.                                        *)
THEOREM NeverRises == Spec => FrozenNeverRises
<1>1. IInv /\ [Next]_vars =>
        [file # Unset /\ file' # Unset /\ file'.frozen => file'.lambda <= file.lambda]_vars
  <2> SUFFICES ASSUME IInv, [Next]_vars, file # Unset, file' # Unset, file'.frozen
               PROVE  file'.lambda <= file.lambda
    OBVIOUS
  <2>1. file \in States
    BY DEF IInv, TypeOK
  <2>2. CASE file' = file
    BY <2>1, <2>2 DEF States, Multiplier!States
  <2>3. CASE \E unsafe \in Batches, k \in Limits : file' = Updated(file, unsafe, k)
    BY <2>1, <2>3, UpdatedState
  <2> QED
    BY <2>2, <2>3, OneUpdate
<1> QED
  BY <1>1, Invariant, PTL DEF Spec, FrozenNeverRises
=============================================================================
