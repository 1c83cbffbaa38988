---------------------------- MODULE Conversation ----------------------------
(***************************************************************************)
(* One generation candidate: up to three conversation rounds on a live     *)
(* session, each a run of TurnLoop, then the early validation of the whole *)
(* trace; a rejected attempt is retried on a fresh session.                *)
(* run_candidate_conversation (generation/conversation_runner.py),         *)
(* validate_early_candidate_trace (candidate_trace_validation.py) and the  *)
(* retry loop of generate_one (candidate_pipeline.py).                     *)
(*                                                                         *)
(* The gates that follow (dependency evidence, replay, provenance) look at *)
(* the content of observations: they may stop any candidate and appear as  *)
(* the free choices LaterGateRejects and LaterGateRaises.                  *)
(***************************************************************************)
EXTENDS TurnLoop, SequencesExt

CONSTANTS
  Attempts,      \* max_task_attempts
  LaterBudgets,  \* turn_budget of the rounds after the first (teacher_tool_call_budget)
  Difficulties   \* "complete": a clarification needs a tool call; "minimal": it does not

ASSUME AttemptsAssumption ==
  Attempts \in Nat \ {0} /\ LaterBudgets \subseteq Nat \ {0}

MinRounds == 2   \* ContinuationPolicy.MIN_CONVERSATION_ROUNDS
MaxRounds == 3   \* ContinuationPolicy.MAX_CONVERSATION_ROUNDS

VARIABLES
  baseline,     \* the paper baseline profile, which skips the local gates
  difficulty,
  chain,        \* source_chain_seed of this attempt: its tools in Tools
  rounds,       \* the completed rounds: execution history and oracle of each
  attempt,      \* retry_attempt
  stage,        \* "round", "validate", "replay", or how generate_one returned
  open          \* the manager still holds the attempt's session

profile == << baseline, difficulty >>
vars == << roundVars, profile, chain, rounds, attempt, stage, open >>

-----------------------------------------------------------------------------
(* What the gates read of the trace. *)

Trace   == FlattenSeq([i \in DOMAIN rounds |-> rounds[i].history])
Oracles == FlattenSeq([i \in DOMAIN rounds |-> rounds[i].oracle])

RealCalls(o)  == { o[i] : i \in { j \in DOMAIN o : o[j].action = "tool_call" } }
Abstains(o)   == \E i \in DOMAIN o : o[i].action \in {"ask_clarification", "report_error"}
TerminalOf(o) == LET t == SelectSeq(o, LAMBDA r : r.action \in Terminals)
                 IN  IF t = << >> THEN "final_answer" ELSE Last(t).action
Mutated(h)    == \E i \in DOMAIN h : h[i].success /\ h[i].tool \in Mutating
Failed(h)     == \E i \in DOMAIN h : ~ h[i].success
Observed(h)   == \E i \in DOMAIN h : h[i].success /\ h[i].tool \notin Mutating

ZeroToolValid(o) ==
  \/ \E i \in DOMAIN o : o[i].action = "report_error"
  \/ difficulty = "minimal" /\ \E i \in DOMAIN o : o[i].action = "ask_clarification"

(* classify_scenario, overridden for missing-function candidates. *)
Scenario ==
  LET t == TerminalOf(Oracles) IN
  CASE t = "ask_clarification"           -> "clarification_required"
    [] t # "ask_clarification" /\ missing -> "missing_function"
    [] t # "ask_clarification" /\ ~missing /\ Failed(Trace) -> "tool_error_recovery"
    [] t = "report_error" /\ ~missing /\ ~Failed(Trace) ->
         IF RealCalls(Oracles) # {} THEN "partial_completion_or_abstention"
                                    ELSE "no_tool_or_abstention"
    [] OTHER -> "normal_safe_success"

(* Mutant: the gate looks at the last round. *)
UnauthorizedMutationAtEnd ==
  \E c \in RealCalls(Last(rounds).oracle) : c.call.tool \in Mutating \ chain

UnauthorizedMutation ==
  \E c \in RealCalls(rounds[1].oracle) : c.call.tool \in Mutating \ chain

MissingFunctionBroken ==
  \/ ~ Abstains(Oracles)
  \/ Unresolved(Trace) # {}
  \/ \E c \in RealCalls(Oracles) : c.call.tool \in Mutating

(* Mutant: the gate looks at the last round. *)
HallucinatedErrorAtEnd ==
  /\ TerminalOf(Oracles) = "report_error"
  /\ Scenario \notin {"missing_function", "no_tool_or_abstention"}
  /\ LET h == Last(rounds).history IN Mutated(h) \/ ~ (Failed(h) \/ Observed(h))

(* report_error must be supported by what was executed: no mutation went   *)
(* through, and some call failed or returned an empty or partial result    *)
(* (which the model leaves open for every read).                           *)
HallucinatedError ==
  /\ TerminalOf(Oracles) = "report_error"
  /\ Scenario \notin {"missing_function", "no_tool_or_abstention"}
  /\ Mutated(Trace) \/ ~ (Failed(Trace) \/ Observed(Trace))

(* single_round_clarification_with_successful_mutation *)
ClarifiedAfterMutation ==
  Len(rounds) = 1 /\ Scenario = "clarification_required" /\ Mutated(Trace)

EarlyRejects ==
  \/ ~ baseline /\ UnauthorizedMutation
  \/ missing /\ MissingFunctionBroken
  \/ ~ missing /\ RealCalls(Oracles) = {} /\ ~ ZeroToolValid(Oracles)
  \/ ClarifiedAfterMutation
  \/ HallucinatedError

-----------------------------------------------------------------------------
(* Rounds. *)

(* run_turn_loop starts over with the histories of the rounds before. *)
BeginRound(r, h, auth) ==
  /\ round' = r /\ prior' = h /\ authorized' = auth
  /\ budget' \in IF r = 0 THEN Budgets ELSE LaterBudgets
  /\ history' = << >> /\ oracle' = << >>
  /\ turn' = 0 /\ dispatched' = 0
  /\ rejected' = [why \in Refusals |-> 0]
  /\ recoveries' = 0
  /\ phase' = "decide" /\ outcome' = "running"
  /\ UNCHANGED << cap, missing >>

InRound ==
  /\ stage = "round" /\ NextInRound
  /\ UNCHANGED << profile, chain, rounds, attempt, stage, open >>

RoundOver == stage = "round" /\ phase = "ended"

(* generate_one returned: the session was closed on the way out. *)
Return(how) == stage' = how /\ open' = FALSE

(* Every failure of a round is raised out of generate_one. *)
RoundRaises ==
  /\ RoundOver /\ outcome \in Failures
  /\ Return("raised")
  /\ UNCHANGED << roundVars, profile, chain, rounds, attempt >>

(* A retry closes the session and starts over: a new session, a new FSM, a *)
(* new source chain.                                                       *)
Retry ==
  /\ attempt + 1 < Attempts
  /\ attempt' = attempt + 1
  /\ chain' \in Chains
  /\ BeginRound(0, << >>, chain')
  /\ session' = "active" /\ fsm' = "turn" /\ UNCHANGED fsmRaised
  /\ rounds' = << >>
  /\ stage' = "round" /\ open' = TRUE
  /\ UNCHANGED profile

(* Mutant: the last attempt leaves without closing its session. *)
ExhaustedOpen ==
  /\ attempt + 1 >= Attempts
  /\ stage' = "rejected"
  /\ UNCHANGED << roundVars, profile, chain, rounds, attempt, open >>

Exhausted ==
  /\ attempt + 1 >= Attempts
  /\ Return("rejected")
  /\ UNCHANGED << roundVars, profile, chain, rounds, attempt >>

(* The first round ended without a successful tool call where it needed one. *)
ZeroToolRound ==
  /\ round = 0
  /\ RealCalls(oracle) = {}
  /\ ~ (missing /\ Abstains(oracle)) /\ ~ ZeroToolValid(oracle)

ZeroToolFails ==
  /\ RoundOver /\ outcome \in Terminals
  /\ ZeroToolRound
  /\ Retry \/ Exhausted

Completed ==
  /\ RoundOver /\ outcome \in Terminals
  /\ ~ ZeroToolRound
  /\ rounds' = Append(rounds, [history |-> history, oracle |-> oracle])

(* An abstention, and the answer of a missing-function round, end the      *)
(* conversation at once.                                                   *)
Stops == Abstains(oracle) \/ (missing /\ round = 0)

ConversationStops ==
  /\ Completed
  /\ Stops
  /\ stage' = "validate"
  /\ UNCHANGED << roundVars, profile, chain, attempt, open >>

(* sample_continuation_decision: at least two rounds, at most three. *)
ConversationEnds ==
  /\ Completed
  /\ ~ Stops
  /\ Len(rounds') >= MinRounds
  /\ Transition(<< "continuation", "continuation" >>)
  /\ stage' = "validate"
  /\ UNCHANGED << profile, chain, attempt, open, inputs, recoveries, history, oracle, turn,
                  dispatched, rejected, session, phase, outcome >>

(* Mutant: the next round is given the last round's history only. *)
ConversationContinuesForgetting ==
  /\ Completed
  /\ ~ Stops
  /\ Len(rounds') < MaxRounds
  /\ Transition(<< "continuation", "query", "turn" >>)
  /\ BeginRound(Len(rounds'), history, Tools)
  /\ UNCHANGED << profile, chain, attempt, stage, open, session >>

(* A follow-up is generated from the refreshed live state; only the first  *)
(* round is bound to the source chain.                                     *)
ConversationContinues ==
  /\ Completed
  /\ ~ Stops
  /\ Len(rounds') < MaxRounds
  /\ Transition(<< "continuation", "query", "turn" >>)
  /\ BeginRound(Len(rounds'), Trace', Tools)
  /\ UNCHANGED << profile, chain, attempt, stage, open, session >>

(* The follow-up query cannot be generated. *)
ContinuationRaises ==
  /\ Completed
  /\ ~ Stops
  /\ Len(rounds') < MaxRounds
  /\ Transition(<< "continuation", "query" >>)
  /\ Return("raised")
  /\ UNCHANGED << profile, chain, attempt, inputs, recoveries, history, oracle, turn, dispatched,
                  rejected, session, phase, outcome >>

-----------------------------------------------------------------------------
(* Validation. *)

(* Mutant: the success criteria are derived without reading the session.   *)
ValidatedUnread ==
  /\ stage = "validate"
  /\ ~ EarlyRejects
  /\ stage' = "replay"
  /\ UNCHANGED << roundVars, profile, chain, rounds, attempt, open >>

(* The trace passed and the final state was read from the live session. *)
Validated ==
  /\ stage = "validate"
  /\ ~ EarlyRejects
  /\ session = "active"
  /\ stage' = "replay"
  /\ UNCHANGED << roundVars, profile, chain, rounds, attempt, open >>

EarlyGateRejects ==
  /\ stage = "validate"
  /\ EarlyRejects
  /\ Retry \/ Exhausted

(* Gates on content, before and after the final state is read. *)
LaterGateRejects ==
  /\ stage \in {"validate", "replay"}
  /\ ~ EarlyRejects
  /\ Retry \/ Exhausted

(* Replay, or reading the final state of a session the manager dropped. *)
LaterGateRaises ==
  /\ stage = "replay" \/ (stage = "validate" /\ ~ EarlyRejects /\ session # "active")
  /\ Return("raised")
  /\ UNCHANGED << roundVars, profile, chain, rounds, attempt >>

Accept ==
  /\ stage = "replay"
  /\ Return("accepted")
  /\ UNCHANGED << roundVars, profile, chain, rounds, attempt >>

Returned == stage \in {"accepted", "rejected", "raised"} /\ UNCHANGED vars

-----------------------------------------------------------------------------
InitConversation ==
  /\ chain \in Chains
  /\ InitRound(0, << >>, chain)
  /\ baseline \in BOOLEAN /\ difficulty \in Difficulties
  /\ rounds = << >> /\ attempt = 0
  /\ stage = "round" /\ open = TRUE

Proceed ==
  \/ InRound \/ RoundRaises \/ ZeroToolFails
  \/ ConversationStops \/ ConversationEnds \/ ConversationContinues \/ ContinuationRaises
  \/ Validated \/ EarlyGateRejects \/ LaterGateRejects \/ LaterGateRaises \/ Accept

NextConversation == Proceed \/ Returned

(* generate_one is one thread that always runs on: the teacher's requests  *)
(* and the servers' answers all have timeouts.                             *)
ConversationSpec ==
  InitConversation /\ [][NextConversation]_vars /\ WF_vars(Proceed)

-----------------------------------------------------------------------------
(* The candidate's own state is well typed. *)
ConversationTypeOK ==
  /\ TypeOK
  /\ baseline \in BOOLEAN /\ difficulty \in Difficulties /\ chain \in Chains
  /\ Len(rounds) <= MaxRounds /\ attempt \in 0 .. Attempts - 1
  /\ stage \in {"round", "validate", "replay", "accepted", "rejected", "raised"}
  /\ open \in BOOLEAN

(* Outside the paper baseline no accepted candidate holds a first-round    *)
(* mutation its source chain did not authorize, however it was dispatched. *)
AcceptedMutationsAuthorized ==
  stage = "accepted" /\ ~ baseline =>
    \A i \in DOMAIN rounds[1].history :
      LET e == rounds[1].history[i]
      IN  e.success /\ e.tool \in Mutating => e.tool \in chain

(* A candidate one of whose calls timed out, so that nobody knows whether  *)
(* it was committed, is never accepted.                                    *)
UnknownCommitNeverAccepted == session = "poisoned" => stage # "accepted"

(* An accepted conversation that reports an error changed nothing in any   *)
(* of its rounds, and a missing-function one changed nothing at all.       *)
AcceptedErrorChangedNothing ==
  stage = "accepted" /\ (missing \/ TerminalOf(Oracles) = "report_error") => ~ Mutated(Trace)

(* Over the whole conversation, the teacher repeats a call that succeeded  *)
(* without changing state only after a change that concerns it.            *)
NoRepeatAcrossRounds == stage = "round" => NoRepeatIn(Trace \o history, 1)

(* Whatever the teacher and the servers answer, generate_one returns, and  *)
(* the manager then holds no session of the candidate.                     *)
SessionsClosed == <>[](stage \in {"accepted", "rejected", "raised"} /\ ~ open)

=============================================================================
