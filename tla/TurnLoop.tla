------------------------------ MODULE TurnLoop ------------------------------
(***************************************************************************)
(* One conversation round of corpus generation: the Action Teacher (an     *)
(* LLM) proposes one action at a time, the loop rejects it, dispatches it  *)
(* to the live MCP server, or ends the round with a terminal action; a     *)
(* failed dispatch enters a bounded recovery dialogue.  The module models  *)
(* run_turn_loop (generation/turn_loop.py) together with the conversation  *)
(* FSM it drives (fsm.py).  The teacher and the server are the             *)
(* environment: every answer their contracts allow may come.               *)
(*                                                                         *)
(* A step is one teacher answer with everything the loop does about it     *)
(* until it needs the next answer.                                         *)
(***************************************************************************)
EXTENDS Integers, Sequences

CONSTANTS
  Tools,            \* names of the tools the teacher sees in this round
  Mutating,         \* the state-changing ones among them
  Args,             \* argument objects, told apart by the target they name
  NoTarget,         \* the argument object that names no target resource
  Aliases,          \* pairs <<selector, id>> of Args naming one record
  Affects,          \* pairs <<c, d>>: a state change made by c can alter d's answer
  Chains,           \* the source_chain_seeds a round may serve: their tools in Tools
  Priors,           \* histories of completed rounds a round may start from
  Budgets,          \* the turn_budgets a round may get
  Caps              \* the max_calls_this_round it may get; 0 is "no cap"

Call == [tool : Tools, args : Args]

ASSUME ToolsAssumption ==
  /\ Mutating \subseteq Tools
  /\ Aliases \subseteq Args \X Args
  /\ Affects \subseteq Call \X Call
  /\ Chains \subseteq SUBSET Tools
ASSUME BudgetAssumption == Budgets \subseteq Nat \ {0} /\ Caps \subseteq Nat

RejectionLimit == 3   \* of each pre-dispatch rejection counter
RecoveryLimit  == 3   \* recovery decisions per failed dispatch

VARIABLES
  fsm,          \* ConversationFSM.state
  fsmRaised,    \* the FSM refused an edge (RuntimeError in the code)
  round,        \* round_idx
  prior,        \* prior_history: events of the completed rounds
  history,      \* execution_history of this round (attempt_calls are the same calls)
  oracle,       \* oracle_calls of this round
  budget,       \* max_tool_calls
  cap,          \* max_calls_this_round
  authorized,   \* authorized_mutating_tools; all tools where the code passes None
  missing,      \* missing_function_contract
  turn,         \* _turn
  dispatched,   \* tool_calls_dispatched
  rejected,     \* the three pre-dispatch rejection counters
  recoveries,   \* recovery_attempt
  session,      \* what the executor knows of the server session
  phase,        \* where the loop waits: for an action, for a recovery, or ended
  outcome       \* how the round ended

inputs == << round, prior, budget, cap, authorized, missing >>
roundVars ==
  << fsm, fsmRaised, inputs, history, oracle, turn, dispatched, rejected,
     recoveries, session, phase, outcome >>

-----------------------------------------------------------------------------
(* The conversation FSM. *)

StateGroups == {"query", "turn", "tool_execution", "response", "continuation"}

LegalEdges ==
  { << "query", "turn" >>,
    << "turn", "turn" >>, << "turn", "tool_execution" >>, << "turn", "response" >>,
    << "tool_execution", "response" >>,
    << "response", "turn" >>, << "response", "tool_execution" >>,
    << "response", "response" >>, << "response", "continuation" >>,
    << "continuation", "continuation" >>, << "continuation", "query" >> }

(* Take the edges fsm -> p[1] -> p[2] ... in order. *)
Transition(p) ==
  /\ fsm' = p[Len(p)]
  /\ fsmRaised' = \/ fsmRaised
                  \/ \E i \in 1 .. Len(p) :
                       << IF i = 1 THEN fsm ELSE p[i - 1], p[i] >> \notin LegalEdges

-----------------------------------------------------------------------------
(* Events, oracle entries, and what the loop reads from them. *)

Refusals == {"no_progress", "unauthorized", "missing_function"}
Failures == Refusals \cup
  { "decision_error", "final_answer_with_unresolved_failure",
    "tool_call_safety_budget_exhausted", "produced_no_action", "action_budget_exhausted",
    "recovery_error", "session_error" }
Terminals == {"ask_clarification", "final_answer", "report_error"}

Event == [tool : Tools, args : Args, success : BOOLEAN, changed : BOOLEAN,
          shows : BOOLEAN, via : {"action", "recovery"}]

ASSUME PriorsAssumption == \A h \in Priors : h \in Seq(Event)

CallOf(e) == [tool |-> e.tool, args |-> e.args]

Failure(c, via) ==
  [tool |-> c.tool, args |-> c.args, success |-> FALSE, changed |-> FALSE,
   shows |-> FALSE, via |-> via]

(* A server answers with success; only a mutation reports a state delta    *)
(* (server_base.py rolls a query that changed state back into a failure).  *)
(* "shows": the observation lists the aliased records, both names of each  *)
(* (never, where there are none).                                          *)
Successes(c, via) ==
  { e \in [tool : {c.tool}, args : {c.args}, success : {TRUE}, changed : BOOLEAN,
           shows : BOOLEAN, via : {via}] :
      /\ e.changed => c.tool \in Mutating
      /\ e.shows => Aliases # {} }

OracleCall(c) == [action |-> "tool_call", call |-> c]
OracleEnd(a)  == [action |-> a]

OracleEntry == [action : {"tool_call"}, call : Call] \cup [action : Terminals]

ToolCallsOf(o) == SelectSeq(o, LAMBDA r : r.action = "tool_call")

(* mutation_target_identity: only a mutation that names a target has one. *)
Target(c) == IF c.tool \in Mutating THEN c.args ELSE NoTarget

Key(c) == << c.tool, Target(c) >>

(* Mutant: a success settles every failure of its tool.                    *)
RepairsOfAnyTarget(h, i) == {h[i].tool} \X (Args \cup {NoTarget})

(* The failures a successful i-th event of h settles: the same target, the *)
(* capability as a whole, or a target some observation so far shows to be  *)
(* the record under another name (_observation_links_target_identities).   *)
Repairs(h, i) ==
  LET e == h[i] IN
  {Key(e), << e.tool, NoTarget >>} \cup
  { << e.tool, a[1] >> : a \in { x \in Aliases :
      x[2] = Target(e) /\ \E j \in 1 .. i : h[j].success /\ h[j].shows } }

Unresolved(h) ==
  LET keys[i \in 0 .. Len(h)] ==
        IF i = 0 THEN {}
        ELSE IF h[i].success THEN keys[i - 1] \ Repairs(h, i)
        ELSE keys[i - 1] \cup {Key(h[i])}
  IN  keys[Len(h)]

(* The call already succeeded without a state change, and nothing that     *)
(* happened since can have altered its answer.                             *)
RepeatsWithoutProgress(h, c) ==
  \E i \in 1 .. Len(h) :
    /\ h[i].success /\ ~h[i].changed /\ CallOf(h[i]) = c
    /\ ~ \E j \in i + 1 .. Len(h) : h[j].changed /\ << CallOf(h[j]), c >> \in Affects

-----------------------------------------------------------------------------
(* The loop.  A round starts with the query it is given: the FSM has       *)
(* entered "turn" with it.  A missing-function conversation has one round. *)

InitRound(r, h, auth) ==
  /\ round = r /\ prior = h /\ authorized = auth
  /\ budget \in Budgets /\ cap \in Caps /\ missing \in {FALSE, r = 0}
  /\ fsm = "turn"
  /\ fsmRaised = FALSE
  /\ history = << >> /\ oracle = << >>
  /\ turn = 0 /\ dispatched = 0
  /\ rejected = [why \in Refusals |-> 0]
  /\ recoveries = 0
  /\ session = "active"
  /\ phase = "decide" /\ outcome = "running"

Deciding == phase = "decide" /\ turn <= budget /\ ~fsmRaised
Recovering == phase = "recover" /\ recoveries < RecoveryLimit /\ ~fsmRaised

End(o) == phase' = "ended" /\ outcome' = o

(* decide_action raised ActionDecisionError after three unusable answers.  *)
DecisionFails ==
  /\ Deciding
  /\ Transition(<< "turn" >>)
  /\ End("decision_error")
  /\ UNCHANGED << inputs, recoveries, history, oracle, turn, dispatched, rejected, session >>

TeacherEnds(a) ==
  /\ Deciding
  /\ a = "final_answer" => Unresolved(history) = {}
  /\ Transition(<< "turn", "response" >>)
  /\ oracle' = Append(oracle, OracleEnd(a))
  /\ End(a)
  /\ UNCHANGED << inputs, recoveries, history, turn, dispatched, rejected, session >>

FinalAnswerRefused ==
  /\ Deciding
  /\ Unresolved(history) # {}
  /\ Transition(<< "turn" >>)
  /\ End("final_answer_with_unresolved_failure")
  /\ UNCHANGED << inputs, recoveries, history, oracle, turn, dispatched, rejected, session >>

(* Mutant: repetition is looked for in this round only.                    *)
RefusalForgettingRounds(c) ==
  IF dispatched >= budget THEN "budget"
  ELSE IF RepeatsWithoutProgress(history, c) THEN "no_progress"
  ELSE IF c.tool \in Mutating \ authorized THEN "unauthorized"
  ELSE IF missing /\ c.tool \in Mutating THEN "missing_function"
  ELSE "none"

(* The first check of the loop that stops call c, in the loop's order.     *)
Refusal(c) ==
  IF dispatched >= budget THEN "budget"
  ELSE IF RepeatsWithoutProgress(prior \o history, c) THEN "no_progress"
  ELSE IF c.tool \in Mutating \ authorized THEN "unauthorized"
  ELSE IF missing /\ c.tool \in Mutating THEN "missing_function"
  ELSE "none"

CallOverBudget(c) ==
  /\ Deciding
  /\ Refusal(c) = "budget"
  /\ Transition(<< "turn" >>)
  /\ End("tool_call_safety_budget_exhausted")
  /\ UNCHANGED << inputs, recoveries, history, oracle, turn, dispatched, rejected, session >>

(* Mutant: a refused call costs a turn.                                    *)
CallRefusedCostsTurn(c) ==
  /\ Deciding
  /\ Refusal(c) \in Refusals
  /\ Transition(<< "turn" >>)
  /\ rejected' = [rejected EXCEPT ![Refusal(c)] = @ + 1]
  /\ turn' = turn + 1
  /\ IF rejected'[Refusal(c)] >= RejectionLimit
       THEN End(Refusal(c))
       ELSE UNCHANGED << phase, outcome >>
  /\ UNCHANGED << inputs, recoveries, history, oracle, dispatched, session >>

(* A refused call costs neither a turn nor a dispatch; the third refusal   *)
(* for one reason fails the round.                                         *)
CallRefused(c) ==
  /\ Deciding
  /\ Refusal(c) \in Refusals
  /\ Transition(<< "turn" >>)
  /\ rejected' = [rejected EXCEPT ![Refusal(c)] = @ + 1]
  /\ IF rejected'[Refusal(c)] >= RejectionLimit
       THEN End(Refusal(c))
       ELSE UNCHANGED << phase, outcome >>
  /\ UNCHANGED << inputs, recoveries, history, oracle, turn, dispatched, session >>

(* The optional cap on real tool calls leaves the loop without a terminal. *)
AfterProgress ==
  /\ phase' = IF cap > 0 /\ Len(ToolCallsOf(oracle')) >= cap
                THEN "capped" ELSE "decide"
  /\ UNCHANGED outcome

(* Mutant: the answer of the server is not followed by a response state.   *)
CallSucceedsWithoutResponse(c) ==
  /\ Deciding
  /\ Refusal(c) = "none"
  /\ session = "active"
  /\ Transition(<< "turn", "tool_execution" >>)
  /\ \E e \in Successes(c, "action") : history' = Append(history, e)
  /\ oracle' = Append(oracle, OracleCall(c))
  /\ dispatched' = dispatched + 1
  /\ turn' = turn + 1
  /\ AfterProgress
  /\ UNCHANGED << inputs, recoveries, rejected, session >>

CallSucceeds(c) ==
  /\ Deciding
  /\ Refusal(c) = "none"
  /\ session = "active"
  /\ Transition(<< "turn", "tool_execution", "response" >>)
  /\ \E e \in Successes(c, "action") : history' = Append(history, e)
  /\ oracle' = Append(oracle, OracleCall(c))
  /\ dispatched' = dispatched + 1
  /\ turn' = turn + 1
  /\ AfterProgress
  /\ UNCHANGED << inputs, recoveries, rejected, session >>

(* Any failed answer; after a timeout the executor also quarantines the    *)
(* session, whose server may or may not have committed the call.           *)
Answers == {session, "poisoned"}

(* Mutant: a timed-out call goes back to the teacher.                      *)
CallTimesOutToTeacher(c) ==
  /\ Deciding
  /\ Refusal(c) = "none"
  /\ Transition(<< "turn", "tool_execution", "response" >>)
  /\ history' = Append(history, Failure(c, "action"))
  /\ dispatched' = dispatched + 1
  /\ session' \in Answers
  /\ recoveries' = 0
  /\ phase' = IF session' = "poisoned" THEN "decide" ELSE "recover"
  /\ UNCHANGED << inputs, oracle, turn, rejected, outcome >>

(* Mutant: only successful dispatches are charged.                         *)
CallFailsFree(c) ==
  /\ Deciding
  /\ Refusal(c) = "none"
  /\ Transition(<< "turn", "tool_execution", "response" >>)
  /\ history' = Append(history, Failure(c, "action"))
  /\ session' \in Answers
  /\ recoveries' = 0
  /\ phase' = "recover"
  /\ UNCHANGED << inputs, oracle, turn, dispatched, rejected, outcome >>

CallFails(c) ==
  /\ Deciding
  /\ Refusal(c) = "none"
  /\ Transition(<< "turn", "tool_execution", "response" >>)
  /\ history' = Append(history, Failure(c, "action"))
  /\ dispatched' = dispatched + 1
  /\ session' \in Answers
  /\ recoveries' = 0
  /\ phase' = "recover"
  /\ UNCHANGED << inputs, oracle, turn, rejected, outcome >>

-----------------------------------------------------------------------------
(* Recovery: at most RecoveryLimit decisions about the latest failure.     *)
(* None of the guards of Refusal but the budget stands between a recovery  *)
(* and the server.                                                         *)

(* The loop itself ends the round with report_error.                       *)
ReportError(path) ==
  /\ Transition(path)
  /\ oracle' = Append(oracle, OracleEnd("report_error"))
  /\ turn' = turn + 1
  /\ End("report_error")
  /\ UNCHANGED << inputs, recoveries, history, dispatched, rejected, session >>

RecoveryGivesUp == Recovering /\ ReportError(<< "response" >>)

RecoveryOverBudget ==
  /\ Recovering
  /\ dispatched >= budget
  /\ ReportError(<< "tool_execution", "response" >>)

RecoveryExhausted ==
  /\ phase = "recover" /\ ~fsmRaised
  /\ recoveries >= RecoveryLimit
  /\ ReportError(<< "response" >>)

(* retry_alt names a tool the teacher cannot see.                          *)
AlternativeRejected ==
  /\ Recovering
  /\ recoveries' = recoveries + 1
  /\ UNCHANGED << fsm, fsmRaised, inputs, history, oracle, turn, dispatched, rejected,
                  session, phase, outcome >>

(* The recovery's arguments are no JSON object: dict(...) raises.          *)
RecoveryMalformed ==
  /\ Recovering
  /\ End("recovery_error")
  /\ UNCHANGED << fsm, fsmRaised, inputs, recoveries, history, oracle, turn, dispatched,
                  rejected, session >>

RecoverySucceeds(c) ==
  /\ Recovering
  /\ dispatched < budget
  /\ session = "active"
  /\ Transition(<< "tool_execution", "response" >>)
  /\ \E e \in Successes(c, "recovery") : history' = Append(history, e)
  /\ oracle' = Append(oracle, OracleCall(c))
  /\ dispatched' = dispatched + 1
  /\ turn' = turn + 1
  /\ AfterProgress
  /\ UNCHANGED << inputs, recoveries, rejected, session >>

RecoveryFails(c) ==
  /\ Recovering
  /\ dispatched < budget
  /\ Transition(<< "tool_execution", "response" >>)
  /\ history' = Append(history, Failure(c, "recovery"))
  /\ dispatched' = dispatched + 1
  /\ session' \in Answers
  /\ recoveries' = recoveries + 1
  /\ UNCHANGED << inputs, oracle, turn, rejected, phase, outcome >>

(* The manager refuses a poisoned session with a KeyError the executor     *)
(* does not translate: it leaves the loop.                                 *)
DispatchRaises(c) ==
  /\ session = "poisoned"
  /\ IF phase = "decide" THEN Deciding /\ Refusal(c) = "none"
                          ELSE Recovering /\ dispatched < budget
  /\ Transition(IF phase = "decide" THEN << "turn", "tool_execution" >>
                                     ELSE << "tool_execution" >>)
  /\ End("session_error")
  /\ UNCHANGED << inputs, recoveries, history, oracle, turn, dispatched, rejected, session >>

(* The loop was left without a terminal action: by its cap or its bound.   *)
LeftOpen == phase = "capped" \/ (phase = "decide" /\ turn > budget)

RoundLeftOpen ==
  /\ LeftOpen /\ ~fsmRaised
  /\ End(IF oracle = << >> THEN "produced_no_action" ELSE "action_budget_exhausted")
  /\ UNCHANGED << fsm, fsmRaised, inputs, recoveries, history, oracle, turn, dispatched,
                  rejected, session >>

NextInRound ==
  \/ DecisionFails
  \/ \E a \in Terminals : TeacherEnds(a)
  \/ FinalAnswerRefused
  \/ \E c \in Call : CallOverBudget(c)
  \/ \E c \in Call : CallRefused(c)
  \/ \E c \in Call : CallSucceeds(c)
  \/ \E c \in Call : CallFails(c)
  \/ RecoveryGivesUp
  \/ RecoveryOverBudget
  \/ RecoveryExhausted
  \/ AlternativeRejected
  \/ RecoveryMalformed
  \/ \E c \in Call : RecoverySucceeds(c)
  \/ \E c \in Call : RecoveryFails(c)
  \/ \E c \in Call : DispatchRaises(c)
  \/ RoundLeftOpen

-----------------------------------------------------------------------------
(* A round by itself: the first one, which only the tools of its source    *)
(* chain may mutate, or a later one after any history.                     *)

Init == \/ \E chain \in Chains : InitRound(0, << >>, chain)
        \/ \E h \in Priors : InitRound(1, h, Tools)

RoundEnded == phase = "ended" /\ UNCHANGED roundVars

Next == NextInRound \/ RoundEnded

Spec == Init /\ [][Next]_roundVars

-----------------------------------------------------------------------------
(* The state is well typed: counters within their limits, histories and    *)
(* oracle made of events and entries the loop records.                     *)
TypeOK ==
  /\ fsm \in StateGroups /\ fsmRaised \in BOOLEAN
  /\ round \in Nat /\ budget \in Nat \ {0} /\ cap \in Nat
  /\ authorized \subseteq Tools /\ missing \in BOOLEAN
  /\ prior \in Seq(Event) /\ history \in Seq(Event)
  /\ oracle \in Seq(OracleEntry)
  /\ turn \in Nat /\ dispatched \in 0 .. budget
  /\ rejected \in [Refusals -> 0 .. RejectionLimit]
  /\ recoveries \in 0 .. RecoveryLimit
  /\ session \in {"active", "poisoned"}
  /\ phase \in {"decide", "recover", "capped", "ended"}
  /\ outcome \in {"running"} \cup Terminals \cup Failures

(* No order of decisions, refusals, failures and recoveries drives the     *)
(* conversation FSM over an edge it refuses: "an illegal edge indicates an *)
(* orchestrator bug" (fsm.py).                                             *)
FsmNeverRaises == ~ fsmRaised

(* Without a cap on real calls no round is left without a terminal action: *)
(* every turn has paid for itself with a dispatch, so the teacher still    *)
(* gets the iteration reserved for its terminal decision, and the two      *)
(* closing checks of the loop cannot fire.                                 *)
OnlyTheCapLeavesOpen ==
  /\ outcome # "produced_no_action"
  /\ outcome = "action_budget_exhausted" => cap > 0

(* Every failed dispatch, of the teacher or of a recovery, is followed by  *)
(* a recovery decision: the teacher never decides on top of a failure the  *)
(* recovery dialogue has not resolved.                                     *)
FailureEntersRecovery ==
  phase \in {"decide", "capped"} /\ history # << >> => history[Len(history)].success

(* A call whose commit is unknown (its session was quarantined after a     *)
(* timeout) is never followed by another teacher decision, nor answered.   *)
UnknownCommitNeverAnswered ==
  session = "poisoned" => phase # "decide" /\ outcome # "final_answer"

(* A final answer leaves no failed call without a later success of the     *)
(* same tool on the same target, on no target, or on a target an earlier   *)
(* observation identified with the failed one.                             *)
RepairedBy(i, j) ==
  LET f == history[i]
      s == history[j]
  IN  /\ s.success /\ s.tool = f.tool
      /\ \/ Target(f) \in {NoTarget, Target(s)}
         \/ /\ << Target(f), Target(s) >> \in Aliases
            /\ \E k \in 1 .. j : history[k].success /\ history[k].shows

FinalAnswerHasNoOpenFailure ==
  outcome = "final_answer" =>
    \A i \in 1 .. Len(history) :
      ~ history[i].success => \E j \in i + 1 .. Len(history) : RepairedBy(i, j)

NoRepeatIn(h, first) ==
  \A j \in first .. Len(h) :
    h[j].via = "action" =>
      \A i \in 1 .. j - 1 :
        h[i].success /\ ~ h[i].changed /\ CallOf(h[i]) = CallOf(h[j]) =>
          \E k \in i + 1 .. j - 1 : h[k].changed /\ << CallOf(h[k]), CallOf(h[j]) >> \in Affects

(* A call that succeeded without changing state is made again by the       *)
(* teacher only when some state change between the two could have altered  *)
(* its answer, the calls of earlier rounds included.  (A recovery is not   *)
(* held to this.)                                                          *)
NoUselessRepeat == NoRepeatIn(prior \o history, Len(prior) + 1)

(* Every step of a round spends something that is never given back: a      *)
(* dispatch, a refusal, a recovery attempt, or the round itself.  With the *)
(* absence of deadlock this is the round's termination.                    *)
Remaining ==
  4 * (budget - dispatched)
    + (9 - (rejected["no_progress"] + rejected["unauthorized"] + rejected["missing_function"]))
    + (IF phase = "recover" THEN RecoveryLimit - recoveries ELSE 0)
    + (IF phase = "ended" THEN 0 ELSE 1)

RoundProgress == [][Remaining' >= 0 /\ Remaining' < Remaining]_roundVars

(* The documented form of the authorization, of every dispatch: only tools *)
(* of the source chain change state in the first round                     *)
(* (docs/PROVE_ARCHITECTURE.md:62).                                        *)
FirstRoundMutationsAuthorized ==
  round = 0 =>
    \A i \in 1 .. Len(history) : history[i].changed => history[i].tool \in authorized

=============================================================================
