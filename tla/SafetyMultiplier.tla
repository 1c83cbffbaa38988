---------------------------- MODULE SafetyMultiplier ----------------------------
(***************************************************************************)
(* The safety multiplier of the reward as its users see it: one value,     *)
(* updated batch by batch (LambdaState.update), one batch after the other. *)
(* LambdaState implements it with a file that several processes share.     *)
(***************************************************************************)
EXTENDS Integers

CONSTANTS
  Rules,        \* parameters a state carries with it: alpha, epsilon, max
  Fresh,        \* the state a training starts from
  Default,      \* the state of a file that is missing
  Batches,      \* unsafe rollouts in a batch (of a fixed size)
  Tau,          \* tau_unsafe_stall, in unsafe rollouts
  Limits,       \* the values of k_stall a training may be started with
  Unset         \* there is no state

(* Amounts of the multiplier are counted in units of alpha's resolution,   *)
(* so that alpha * (hat_C - epsilon) is an integer.                        *)
States == [lambda : Nat, rule : Rules, streak : Nat, frozen : BOOLEAN]
Parameters ==
  /\ \A r \in Rules : r.alpha \in Nat /\ r.epsilon \in Int /\ r.max \in Nat
  /\ Fresh \in States /\ Default \in States
  /\ ~Fresh.frozen /\ Fresh.streak = 0 /\ ~Default.frozen /\ Default.streak = 0
  /\ Batches \subseteq Nat /\ Tau \in Int
  /\ Limits \subseteq Nat \ {0}
  /\ Unset \notin States

VARIABLE multiplier

Rise(s, unsafe) == s.rule.alpha * (unsafe - s.rule.epsilon)
Clamp(x, top)   == IF x < 0 THEN 0 ELSE IF x > top THEN top ELSE x

(* Batches that are mostly unsafe and raise the multiplier count as stalls; *)
(* batches that are not take one back.                                      *)
Stalls(s, unsafe) == unsafe > Tau /\ Rise(s, unsafe) > 0
Streak(s, unsafe) ==
  IF Stalls(s, unsafe) THEN s.streak + 1
  ELSE IF unsafe <= Tau /\ s.streak > 0 THEN s.streak - 1
  ELSE s.streak

(* Mutant: nothing but a new start unfreezes.                               *)
FrozenForGood(s, unsafe, k) ==
  \/ Stalls(s, unsafe) /\ Streak(s, unsafe) >= k
  \/ s.frozen

Frozen(s, unsafe, k) ==
  \/ Stalls(s, unsafe) /\ Streak(s, unsafe) >= k
  \/ s.frozen /\ (unsafe <= Tau => Streak(s, unsafe) >= k)

(* Mutant: increases are blocked from the batch after the one that freezes *)
(* only.                                                                   *)
LambdaLate(s, unsafe, k) ==
  IF s.frozen /\ Rise(s, unsafe) > 0
  THEN s.lambda ELSE Clamp(s.lambda + Rise(s, unsafe), s.rule.max)

(* While frozen, only a decrease is applied.                               *)
Lambda(s, unsafe, k) ==
  IF Frozen(s, unsafe, k) /\ Rise(s, unsafe) > 0
  THEN s.lambda ELSE Clamp(s.lambda + Rise(s, unsafe), s.rule.max)

(* One step of dual ascent.                                                *)
Updated(s, unsafe, k) ==
  [lambda |-> Lambda(s, unsafe, k), rule   |-> s.rule,
   streak |-> Streak(s, unsafe),    frozen |-> Frozen(s, unsafe, k)]

Reset == multiplier' = Unset
Begin == multiplier = Unset /\ multiplier' \in {Fresh, Default}
UpdateWith(unsafe) ==
  /\ multiplier # Unset
  /\ \E k \in Limits : multiplier' = Updated(multiplier, unsafe, k)

MultiplierInit == multiplier = Unset
MultiplierNext == Reset \/ Begin \/ \E unsafe \in Batches : UpdateWith(unsafe)
MultiplierSpec == MultiplierInit /\ [][MultiplierNext]_multiplier
=============================================================================
