----------------------------- MODULE MCLambdaState -----------------------------
(* Finite instances of LambdaState: batches of four rollouts.              *)
EXTENDS LambdaState, TLC

CONSTANTS a1, a2

Configured == [alpha |-> 1, epsilon |-> 1, max |-> 5]
ClassRule  == [alpha |-> 1, epsilon |-> 0, max |-> 3]
MCRules    == {Configured, ClassRule}
MCFresh    == [lambda |-> 1, rule |-> Configured, streak |-> 0, frozen |-> FALSE]
MCDefault  == [lambda |-> 1, rule |-> ClassRule, streak |-> 0, frozen |-> FALSE]
=============================================================================
