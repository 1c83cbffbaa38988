---------------------------- MODULE CandidateRequest ----------------------------
(***************************************************************************)
(* What a generation request promises to the shard process that made it:   *)
(* it hands over tasks one by one, each from another candidate of its      *)
(* schedule, no more of a kind than it was asked for, and it ends.         *)
(* ShardRecovery is built on this promise; BatchScheduler implements it.   *)
(***************************************************************************)
EXTENDS Integers, FiniteSets

CONSTANTS
  Kinds,        \* what tasks are counted by
  Requests      \* [seeds, target]: the candidates of each kind, the tasks asked for

VARIABLES
  request,      \* the request, fixed from the start
  yielded,      \* <<kind, seed>> of the tasks handed over
  outcome       \* "idle", "open", "returned", "raised"

requestVars == << request, yielded, outcome >>

Candidates == UNION {{k} \X request.seeds[k] : k \in Kinds}
OfKind(k)  == {c \in yielded : c[1] = k}

RequestInit == request \in Requests /\ yielded = {} /\ outcome = "idle"

Begin == outcome = "idle" /\ outcome' = "open" /\ UNCHANGED yielded

Yield(c) ==
  /\ outcome = "open"
  /\ c \in Candidates \ yielded
  /\ Cardinality(OfKind(c[1])) < request.target[c[1]]
  /\ yielded' = yielded \union {c}
  /\ UNCHANGED outcome

Return == outcome = "open" /\ outcome' = "returned" /\ UNCHANGED yielded
Raise  == outcome \in {"idle", "open"} /\ outcome' = "raised" /\ UNCHANGED yielded

(* The process is killed, or one that ended is started again.              *)
Abandon == outcome # "idle" /\ outcome' = "idle" /\ yielded' = {}

RequestNext ==
  /\ Begin \/ (\E c \in Candidates : Yield(c)) \/ Return \/ Raise \/ Abandon
  /\ UNCHANGED request

RequestEnds == outcome = "open" ~> outcome # "open"

RequestSpec == RequestInit /\ [][RequestNext]_requestVars /\ RequestEnds
=============================================================================
