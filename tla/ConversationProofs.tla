------------------------- MODULE ConversationProofs -------------------------
(***************************************************************************)
(* Proofs about one generation round (TurnLoop) and about the candidate    *)
(* built from such rounds (Conversation), for every set of tools, chains,  *)
(* arguments, aliases, histories, budgets, caps and number of attempts.    *)
(*                                                                         *)
(* The round.  FsmNeverRaises is not inductive: whether the next edge is   *)
(* legal depends on where the loop left the FSM when it last waited for    *)
(* the teacher, so the invariant records the FSM state of each phase       *)
(* (FsmOfPhase).  OnlyTheCapLeavesOpen needs the accounting between turns  *)
(* and dispatches, RoundProgress that no counter has reached its limit     *)
(* while the round is running (CountersOpen).                              *)
(*                                                                         *)
(* The candidate.  The authorization gate reads the oracle calls of the    *)
(* first round, the property speaks of what the server executed.  The      *)
(* invariant bridges the two: every success of a round, of the teacher or  *)
(* of a recovery, is also an oracle call (Recorded), the completed rounds  *)
(* keep this, and a trace that passed the gate stays as it was until       *)
(* generate_one returns.                                                   *)
(*                                                                         *)
(* Two more properties speak of all rounds: TInv keeps the same record for *)
(* the whole trace, and says that each round is given that trace as its    *)
(* prior.  It rests on how FlattenSeq, a recursion, grows by one round.    *)
(*                                                                         *)
(* What is proved of a round holds of every round of a candidate (WInv): a *)
(* new round starts like the first, on a session that is not poisoned      *)
(* because only an answered round is continued.  A candidate always goes   *)
(* forward (CandidateProgress).                                            *)
(***************************************************************************)
EXTENDS Conversation, WellFoundedInduction, TLAPS

(***************************************************************************)
(* The round.                                                              *)
(***************************************************************************)
FsmOfPhase ==
  /\ phase = "decide" => fsm \in {"query", "turn", "response"}
  /\ phase \in {"recover", "capped"} => fsm = "response"

CountersOpen ==
  phase # "ended" => /\ turn <= dispatched
                     /\ outcome = "running"
                     /\ \A why \in Refusals : rejected[why] < RejectionLimit

CapReached == phase = "capped" => cap > 0 /\ oracle # << >>

PoisonedInRecovery == session = "poisoned" => phase \in {"recover", "ended"}

RoundInv ==
  /\ TypeOK
  /\ FsmNeverRaises
  /\ FsmOfPhase
  /\ CountersOpen
  /\ CapReached
  /\ OnlyTheCapLeavesOpen
  /\ PoisonedInRecovery
  /\ UnknownCommitNeverAnswered
  /\ FailureEntersRecovery

USE DEF RejectionLimit, RecoveryLimit

(* The FSM path of each kind of step is legal from where the step starts.  *)
LEMMA PathOfOne ==
  ASSUME NEW a, Transition(<< a >>), ~ fsmRaised, << fsm, a >> \in LegalEdges
  PROVE  fsm' = a /\ ~ fsmRaised'
<1> DEFINE p == << a >>
<1>1. Len(p) = 1 /\ p[1] = a
  OBVIOUS
<1>2. \A i \in 1 .. Len(p) : << IF i = 1 THEN fsm ELSE p[i - 1], p[i] >> \in LegalEdges
  BY <1>1
<1> HIDE DEF p
<1>3. QED
  BY <1>1, <1>2 DEF Transition, p

LEMMA PathOfTwo ==
  ASSUME NEW a, NEW b, Transition(<< a, b >>), ~ fsmRaised,
         << fsm, a >> \in LegalEdges, << a, b >> \in LegalEdges
  PROVE  fsm' = b /\ ~ fsmRaised'
<1> DEFINE p == << a, b >>
<1>1. Len(p) = 2 /\ p[1] = a /\ p[2] = b
  OBVIOUS
<1> HIDE DEF p
<1>2. ASSUME NEW i \in 1 .. Len(p)
      PROVE  << IF i = 1 THEN fsm ELSE p[i - 1], p[i] >> \in LegalEdges
  <2>1. CASE i = 1
    BY <1>1, <2>1
  <2>2. CASE i = 2
    BY <1>1, <2>2
  <2>3. QED
    BY <1>1, <2>1, <2>2
<1>3. Transition(p)
  BY DEF p
<1>4. QED
  BY <1>1, <1>2, <1>3 DEF Transition

LEMMA PathOfThree ==
  ASSUME NEW a, NEW b, NEW c, Transition(<< a, b, c >>), ~ fsmRaised,
         << fsm, a >> \in LegalEdges, << a, b >> \in LegalEdges, << b, c >> \in LegalEdges
  PROVE  fsm' = c /\ ~ fsmRaised'
<1> DEFINE p == << a, b, c >>
<1>1. Len(p) = 3 /\ p[1] = a /\ p[2] = b /\ p[3] = c
  OBVIOUS
<1> HIDE DEF p
<1>2. ASSUME NEW i \in 1 .. Len(p)
      PROVE  << IF i = 1 THEN fsm ELSE p[i - 1], p[i] >> \in LegalEdges
  <2>1. CASE i = 1
    BY <1>1, <2>1
  <2>2. CASE i = 2
    BY <1>1, <2>2
  <2>3. CASE i = 3
    BY <1>1, <2>3
  <2>4. QED
    BY <1>1, <2>1, <2>2, <2>3
<1>3. Transition(p)
  BY DEF p
<1>4. QED
  BY <1>1, <1>2, <1>3 DEF Transition

(* The events a dispatch appends. *)
LEMMA FailureIsEvent ==
  ASSUME NEW c \in Call, NEW via \in {"action", "recovery"}
  PROVE  Failure(c, via) \in Event /\ ~ Failure(c, via).success
BY DEF Failure, Event, Call

LEMMA SuccessIsEvent ==
  ASSUME NEW c \in Call, NEW via \in {"action", "recovery"}, NEW e \in Successes(c, via)
  PROVE  e \in Event /\ e.success
BY DEF Successes, Event, Call

LEMMA EntriesOfOracle ==
  /\ \A c \in Call : OracleCall(c) \in OracleEntry
  /\ \A a \in Terminals : OracleEnd(a) \in OracleEntry
BY DEF OracleCall, OracleEnd, OracleEntry

LEMMA Appended ==
  ASSUME NEW S, NEW s \in Seq(S), NEW e \in S, NEW t, t = Append(s, e)
  PROVE  t \in Seq(S) /\ t # << >> /\ t[Len(t)] = e
OBVIOUS

LEMMA InitRoundInv == Init => RoundInv
<1> SUFFICES ASSUME NEW r \in {0, 1}, NEW h \in Seq(Event), NEW auth \in SUBSET Tools,
                    InitRound(r, h, auth)
             PROVE  RoundInv
  <2>1. << >> \in Seq(Event) /\ Tools \in SUBSET Tools
    OBVIOUS
  <2>2. ASSUME NEW allowed \in Chains, InitRound(0, << >>, allowed)
        PROVE  RoundInv
    BY <2>1, <2>2, ToolsAssumption
  <2>3. ASSUME NEW h \in Priors, InitRound(1, h, Tools)
        PROVE  RoundInv
    BY <2>1, <2>3, PriorsAssumption
  <2>4. QED
    BY <2>2, <2>3 DEF Init
<1>1. TypeOK
  <2>1. history \in Seq(Event) /\ oracle \in Seq(OracleEntry)
    BY DEF InitRound
  <2>2. rejected \in [Refusals -> 0 .. 3]
    BY DEF InitRound
  <2>3. budget \in Nat \ {0} /\ cap \in Nat /\ dispatched \in 0 .. budget /\ turn \in Nat
    BY BudgetAssumption DEF InitRound
  <2>4. fsm \in StateGroups /\ fsmRaised \in BOOLEAN /\ missing \in BOOLEAN
    BY DEF InitRound, StateGroups
  <2>5. QED
    BY <2>1, <2>2, <2>3, <2>4 DEF InitRound, TypeOK
<1>2. \A why \in Refusals : rejected[why] < 3
  BY DEF InitRound
<1>3. CountersOpen
  BY <1>2 DEF InitRound, CountersOpen
<1>4. QED
  BY <1>1, <1>3 DEF InitRound, RoundInv, FsmNeverRaises, FsmOfPhase, CapReached,
              OnlyTheCapLeavesOpen, PoisonedInRecovery, UnknownCommitNeverAnswered,
              FailureEntersRecovery

(* A step that ends the round keeps the invariant when its outcome is one  *)
(* the phase it ends allows.                                               *)
LEMMA EndingStep ==
  ASSUME RoundInv, NEW o \in Terminals \cup Failures, End(o),
         fsm' \in StateGroups, fsmRaised' = FALSE,
         oracle' \in Seq(OracleEntry), turn' \in Nat,
         rejected' \in [Refusals -> 0 .. 3],
         UNCHANGED << inputs, recoveries, history, dispatched, session >>,
         o # "produced_no_action", o = "action_budget_exhausted" => cap > 0,
         o = "final_answer" => session # "poisoned"
  PROVE  RoundInv'
<1>1. TypeOK'
  BY DEF RoundInv, TypeOK, End, inputs
<1>2. QED
  BY <1>1 DEF RoundInv, End, inputs, FsmNeverRaises, FsmOfPhase, CountersOpen, CapReached,
              OnlyTheCapLeavesOpen, PoisonedInRecovery, UnknownCommitNeverAnswered,
              FailureEntersRecovery

(* A step that ran a tool keeps it: the event it appends decides the phase. *)
LEMMA DispatchStep ==
  ASSUME RoundInv, NEW e \in Event, history' = Append(history, e),
         fsm' = "response", fsmRaised' = FALSE,
         oracle' \in Seq(OracleEntry), turn' \in Nat, dispatched < budget,
         dispatched' = dispatched + 1, turn' <= turn + 1,
         UNCHANGED << inputs, rejected, outcome >>, recoveries' \in 0 .. 3,
         session' \in {"active", "poisoned"}, phase # "ended",
         \/ /\ e.success /\ session' = "active" /\ oracle' # << >>
            /\ phase' \in {"decide", "capped"} /\ (phase' = "capped" => cap > 0)
         \/ phase' = "recover"
  PROVE  RoundInv'
<1>1. history' \in Seq(Event) /\ history'[Len(history')] = e
  BY Appended DEF RoundInv, TypeOK
<1>2. TypeOK'
  <2>1. dispatched' \in 0 .. budget' /\ turn' \in Nat /\ recoveries' \in 0 .. 3
    BY DEF RoundInv, TypeOK, inputs
  <2>2. phase' \in {"decide", "recover", "capped", "ended"} /\ fsm' \in StateGroups
    BY DEF StateGroups
  <2>3. /\ round' \in Nat /\ budget' \in Nat \ {0} /\ cap' \in Nat
        /\ authorized' \subseteq Tools /\ missing' \in BOOLEAN /\ prior' \in Seq(Event)
        /\ rejected' \in [Refusals -> 0 .. 3]
        /\ outcome' \in {"running"} \cup Terminals \cup Failures
    BY DEF RoundInv, TypeOK, inputs
  <2>4. QED
    BY <1>1, <2>1, <2>2, <2>3 DEF TypeOK
<1>3. turn' <= dispatched'
  BY DEF RoundInv, TypeOK, CountersOpen
<1>4. FailureEntersRecovery'
  BY <1>1 DEF FailureEntersRecovery
<1>5. CountersOpen'
  BY <1>3 DEF RoundInv, CountersOpen
<1>6. CapReached' /\ FsmOfPhase' /\ FsmNeverRaises'
  BY DEF inputs, CapReached, FsmOfPhase, FsmNeverRaises
<1>7. outcome' = "running"
  BY DEF RoundInv, CountersOpen
<1>8. OnlyTheCapLeavesOpen' /\ PoisonedInRecovery' /\ UnknownCommitNeverAnswered'
  BY <1>7 DEF OnlyTheCapLeavesOpen, PoisonedInRecovery, UnknownCommitNeverAnswered
<1>9. QED
  BY <1>2, <1>4, <1>5, <1>6, <1>8 DEF RoundInv

LEMMA StepRoundInv == RoundInv /\ [Next]_roundVars => RoundInv'
<1> SUFFICES ASSUME RoundInv, [Next]_roundVars
             PROVE  RoundInv'
  OBVIOUS
<1> USE DEF inputs, StateGroups
<1>0. /\ TypeOK /\ ~ fsmRaised /\ CountersOpen /\ FsmOfPhase
      /\ session = "poisoned" => phase \in {"recover", "ended"}
      /\ history \in Seq(Event) /\ oracle \in Seq(OracleEntry)
      /\ rejected \in [Refusals -> 0 .. 3] /\ turn \in Nat
  BY DEF RoundInv, TypeOK, FsmNeverRaises, PoisonedInRecovery
<1>1. ASSUME DecisionFails
      PROVE  RoundInv'
  <2>1. fsmRaised' = FALSE /\ fsm' = "turn"
    BY <1>0, <1>1, PathOfOne DEF DecisionFails, Deciding, FsmOfPhase, LegalEdges
  <2>2. QED
    BY <1>0, <1>1, <2>1, EndingStep DEF DecisionFails, Failures
<1>2. ASSUME NEW a \in Terminals, TeacherEnds(a)
      PROVE  RoundInv'
  <2>1. fsmRaised' = FALSE /\ fsm' = "response"
    BY <1>0, <1>2, PathOfTwo DEF TeacherEnds, Deciding, FsmOfPhase, LegalEdges
  <2>2. oracle' \in Seq(OracleEntry)
    BY <1>0, <1>2, EntriesOfOracle, Appended DEF TeacherEnds
  <2>3. a # "produced_no_action" /\ a # "action_budget_exhausted"
    BY DEF Terminals
  <2>4. QED
    BY <1>0, <1>2, <2>1, <2>2, <2>3, EndingStep DEF TeacherEnds, Deciding
<1>3. ASSUME FinalAnswerRefused
      PROVE  RoundInv'
  <2>1. fsmRaised' = FALSE /\ fsm' = "turn"
    BY <1>0, <1>3, PathOfOne DEF FinalAnswerRefused, Deciding, FsmOfPhase, LegalEdges
  <2>2. QED
    BY <1>0, <1>3, <2>1, EndingStep DEF FinalAnswerRefused, Failures
<1>4. ASSUME NEW c \in Call, CallOverBudget(c)
      PROVE  RoundInv'
  <2>1. fsmRaised' = FALSE /\ fsm' = "turn"
    BY <1>0, <1>4, PathOfOne DEF CallOverBudget, Deciding, FsmOfPhase, LegalEdges
  <2>2. QED
    BY <1>0, <1>4, <2>1, EndingStep DEF CallOverBudget, Failures
<1>5. ASSUME NEW c \in Call, CallRefused(c)
      PROVE  RoundInv'
  <2>1. fsmRaised' = FALSE /\ fsm' = "turn"
    BY <1>0, <1>5, PathOfOne DEF CallRefused, Deciding, FsmOfPhase, LegalEdges
  <2> DEFINE r == Refusal(c)
  <2>2. r \in Refusals /\ rejected[r] \in 0 .. 2
    BY <1>0, <1>5 DEF CallRefused, Deciding, CountersOpen
  <2>3. rejected' = [rejected EXCEPT ![r] = @ + 1]
    BY <1>5 DEF CallRefused
  <2>4. rejected' \in [Refusals -> 0 .. 3]
    BY <1>0, <2>2, <2>3
  <2>5. CASE rejected'[r] >= 3
    <3>1. End(r) /\ r \in Failures /\ r \notin {"produced_no_action", "action_budget_exhausted",
                                              "final_answer"}
      BY <1>5, <2>2, <2>5 DEF CallRefused, Failures, Refusals
    <3>2. QED
      BY <1>0, <1>5, <2>1, <2>4, <3>1, EndingStep DEF CallRefused
  <2>6. CASE ~ (rejected'[r] >= 3)
    <3>1. UNCHANGED << phase, outcome >>
      BY <1>5, <2>6 DEF CallRefused
    <3>2. \A why \in Refusals : rejected'[why] < 3
      BY <1>0, <1>5, <2>2, <2>3, <2>6 DEF CountersOpen, CallRefused, Deciding
    <3>3. TypeOK'
      BY <1>0, <1>5, <2>1, <2>4, <3>1 DEF TypeOK, CallRefused
    <3>4. CountersOpen'
      BY <1>0, <1>5, <3>1, <3>2 DEF CountersOpen, CallRefused
    <3>5. QED
      BY <1>5, <2>1, <3>1, <3>3, <3>4 DEF CallRefused, Deciding, RoundInv, FsmNeverRaises, FsmOfPhase,
         CapReached, OnlyTheCapLeavesOpen, PoisonedInRecovery, UnknownCommitNeverAnswered,
         FailureEntersRecovery
  <2>7. QED
    BY <2>5, <2>6
<1>6. ASSUME NEW c \in Call, CallSucceeds(c)
      PROVE  RoundInv'
  <2>1. fsmRaised' = FALSE /\ fsm' = "response"
    BY <1>0, <1>6, PathOfThree DEF CallSucceeds, Deciding, FsmOfPhase, LegalEdges
  <2>2. oracle' \in Seq(OracleEntry) /\ oracle' # << >>
    BY <1>0, <1>6, EntriesOfOracle, Appended DEF CallSucceeds
  <2>3. PICK e \in Successes(c, "action") : history' = Append(history, e)
    BY <1>6 DEF CallSucceeds
  <2>4. e \in Event /\ e.success
    BY SuccessIsEvent
  <2>5. dispatched < budget
    BY <1>0, <1>6 DEF CallSucceeds, Refusal, TypeOK
  <2>6. /\ session' = "active" /\ phase' \in {"decide", "capped"}
        /\ phase' = "capped" => cap > 0
        /\ phase # "ended" /\ recoveries' \in 0 .. 3 /\ turn' \in Nat /\ turn' <= turn + 1
        /\ UNCHANGED << inputs, rejected, outcome >> /\ dispatched' = dispatched + 1
    BY <1>0, <1>6 DEF CallSucceeds, Deciding, AfterProgress, TypeOK
  <2>7. QED
    BY <2>1, <2>2, <2>3, <2>4, <2>5, <2>6, DispatchStep
<1>7. ASSUME NEW c \in Call, CallFails(c)
      PROVE  RoundInv'
  <2>1. fsmRaised' = FALSE /\ fsm' = "response"
    BY <1>0, <1>7, PathOfThree DEF CallFails, Deciding, FsmOfPhase, LegalEdges
  <2>2. Failure(c, "action") \in Event
    BY FailureIsEvent
  <2>3. dispatched < budget
    BY <1>0, <1>7 DEF CallFails, Refusal, TypeOK
  <2>4. session' \in {"active", "poisoned"}
    BY <1>0, <1>7 DEF CallFails, Answers, TypeOK
  <2>5. /\ phase' = "recover" /\ phase # "ended" /\ recoveries' \in 0 .. 3
        /\ turn' \in Nat /\ turn' <= turn + 1 /\ oracle' \in Seq(OracleEntry)
        /\ UNCHANGED << inputs, rejected, outcome >> /\ dispatched' = dispatched + 1
        /\ history' = Append(history, Failure(c, "action"))
    BY <1>0, <1>7 DEF CallFails, Deciding
  <2>6. QED
    BY <2>1, <2>2, <2>3, <2>4, <2>5, DispatchStep
<1>8. ASSUME NEW p, ReportError(p), fsmRaised' = FALSE, fsm' = "response"
      PROVE  RoundInv'
  <2>1. oracle' \in Seq(OracleEntry)
    BY <1>0, <1>8, EntriesOfOracle, Appended DEF ReportError, Terminals
  <2>2. turn' \in Nat
    BY <1>0, <1>8 DEF ReportError
  <2>3. QED
    BY <1>0, <1>8, <2>1, <2>2, EndingStep DEF ReportError, Terminals
<1>9. CASE RecoveryGivesUp
  <2>1. fsmRaised' = FALSE /\ fsm' = "response"
    BY <1>0, <1>9, PathOfOne DEF RecoveryGivesUp, Recovering, ReportError, FsmOfPhase, LegalEdges
  <2>2. QED
    BY <1>8, <1>9, <2>1 DEF RecoveryGivesUp
<1>10. CASE RecoveryOverBudget
  <2>1. fsmRaised' = FALSE /\ fsm' = "response"
    BY <1>0, <1>10, PathOfTwo DEF RecoveryOverBudget, Recovering, ReportError, FsmOfPhase, LegalEdges
  <2>2. QED
    BY <1>8, <1>10, <2>1 DEF RecoveryOverBudget
<1>11. CASE RecoveryExhausted
  <2>1. fsmRaised' = FALSE /\ fsm' = "response"
    BY <1>0, <1>11, PathOfOne DEF RecoveryExhausted, ReportError, FsmOfPhase, LegalEdges
  <2>2. QED
    BY <1>8, <1>11, <2>1 DEF RecoveryExhausted
<1>12. CASE AlternativeRejected
  <2>1. TypeOK'
    BY <1>0, <1>12 DEF AlternativeRejected, Recovering, TypeOK
  <2>2. QED
    BY <1>12, <2>1 DEF AlternativeRejected, RoundInv, FsmNeverRaises, FsmOfPhase, CountersOpen,
       CapReached, OnlyTheCapLeavesOpen, PoisonedInRecovery, UnknownCommitNeverAnswered,
       FailureEntersRecovery
<1>13. CASE RecoveryMalformed
  BY <1>0, <1>13, EndingStep DEF RecoveryMalformed, Recovering, Failures, TypeOK
<1>14. ASSUME NEW c \in Call, RecoverySucceeds(c)
      PROVE  RoundInv'
  <2>1. fsmRaised' = FALSE /\ fsm' = "response"
    BY <1>0, <1>14, PathOfTwo DEF RecoverySucceeds, Recovering, FsmOfPhase, LegalEdges
  <2>2. oracle' \in Seq(OracleEntry) /\ oracle' # << >>
    BY <1>0, <1>14, EntriesOfOracle, Appended DEF RecoverySucceeds
  <2>3. PICK e \in Successes(c, "recovery") : history' = Append(history, e)
    BY <1>14 DEF RecoverySucceeds
  <2>4. e \in Event /\ e.success
    BY SuccessIsEvent
  <2>5. /\ session' = "active" /\ phase' \in {"decide", "capped"}
        /\ phase' = "capped" => cap > 0
        /\ phase # "ended" /\ recoveries' \in 0 .. 3 /\ turn' \in Nat /\ turn' <= turn + 1
        /\ UNCHANGED << inputs, rejected, outcome >>
        /\ dispatched < budget /\ dispatched' = dispatched + 1
    BY <1>0, <1>14 DEF RecoverySucceeds, Recovering, AfterProgress, TypeOK
  <2>6. QED
    BY <2>1, <2>2, <2>3, <2>4, <2>5, DispatchStep
<1>15. ASSUME NEW c \in Call, RecoveryFails(c)
      PROVE  RoundInv'
  <2>1. fsmRaised' = FALSE /\ fsm' = "response"
    BY <1>0, <1>15, PathOfTwo DEF RecoveryFails, Recovering, FsmOfPhase, LegalEdges
  <2>2. Failure(c, "recovery") \in Event
    BY FailureIsEvent
  <2>3. session' \in {"active", "poisoned"} /\ recoveries' \in 0 .. 3
    BY <1>0, <1>15 DEF RecoveryFails, Recovering, Answers, TypeOK
  <2>4. /\ phase' = "recover" /\ phase # "ended"
        /\ turn' \in Nat /\ turn' <= turn + 1 /\ oracle' \in Seq(OracleEntry)
        /\ UNCHANGED << inputs, rejected, outcome >>
        /\ dispatched < budget /\ dispatched' = dispatched + 1
        /\ history' = Append(history, Failure(c, "recovery"))
    BY <1>0, <1>15 DEF RecoveryFails, Recovering
  <2>5. QED
    BY <2>1, <2>2, <2>3, <2>4, DispatchStep
<1>16. ASSUME NEW c \in Call, DispatchRaises(c)
      PROVE  RoundInv'
  <2>1. fsmRaised' = FALSE /\ fsm' = "tool_execution"
    BY <1>0, <1>16, PathOfOne, PathOfTwo DEF DispatchRaises, Recovering, FsmOfPhase, LegalEdges
  <2>2. QED
    BY <1>0, <1>16, <2>1, EndingStep DEF DispatchRaises, Failures
<1>17. CASE RoundLeftOpen
  <2>1. phase = "capped"
    BY <1>0, <1>17 DEF RoundLeftOpen, LeftOpen, CountersOpen, TypeOK
  <2>2. cap > 0 /\ End("action_budget_exhausted")
    BY <1>17, <2>1 DEF RoundLeftOpen, RoundInv, CapReached
  <2>3. fsmRaised' = FALSE /\ fsm' = fsm /\ fsm \in StateGroups
    BY <1>0, <1>17 DEF RoundLeftOpen, TypeOK
  <2>4. QED
    BY <1>0, <1>17, <2>2, <2>3, EndingStep DEF RoundLeftOpen, Failures
<1>18. CASE UNCHANGED roundVars
  BY <1>18 DEF roundVars, RoundInv, TypeOK, FsmNeverRaises, FsmOfPhase, CountersOpen, CapReached,
     OnlyTheCapLeavesOpen, PoisonedInRecovery, UnknownCommitNeverAnswered, FailureEntersRecovery
<1>19. QED
  BY <1>1, <1>2, <1>3, <1>4, <1>5, <1>6, <1>7, <1>9, <1>10, <1>11, <1>12, <1>13, <1>14, <1>15,
     <1>16, <1>17, <1>18 DEF Next, NextInRound, RoundEnded

-----------------------------------------------------------------------------
LEMMA InductiveInvariant == Spec => []RoundInv
<1>1. QED
  BY InitRoundInv, StepRoundInv, PTL DEF Spec

(* The state is well typed, whatever the teacher and the servers answer. *)
THEOREM TypeCorrect == Spec => []TypeOK
<1>1. RoundInv => TypeOK
  BY DEF RoundInv
<1>2. QED
  BY <1>1, InductiveInvariant, PTL

(* The loop never asks the conversation FSM for an illegal edge. *)
THEOREM FsmLegal == Spec => []FsmNeverRaises
<1>1. RoundInv => FsmNeverRaises
  BY DEF RoundInv
<1>2. QED
  BY <1>1, InductiveInvariant, PTL

(* Only the optional cap can make a round end without a terminal action.  *)
THEOREM TerminalReserved == Spec => []OnlyTheCapLeavesOpen
<1>1. RoundInv => OnlyTheCapLeavesOpen
  BY DEF RoundInv
<1>2. QED
  BY <1>1, InductiveInvariant, PTL

(* The teacher never decides on top of an unresolved failure. *)
THEOREM RecoveryEntered == Spec => []FailureEntersRecovery
<1>1. RoundInv => FailureEntersRecovery
  BY DEF RoundInv
<1>2. QED
  BY <1>1, InductiveInvariant, PTL

(* A call of unknown commit is never followed by a final answer. *)
THEOREM UnknownCommitContained == Spec => []UnknownCommitNeverAnswered
<1>1. RoundInv => UnknownCommitNeverAnswered
  BY DEF RoundInv
<1>2. QED
  BY <1>1, InductiveInvariant, PTL

-----------------------------------------------------------------------------
(* The measure of RoundProgress, split into what each kind of step spends. *)
RefusalsLeft ==
  9 - (rejected["no_progress"] + rejected["unauthorized"] + rejected["missing_function"])
RecoveriesLeft == IF phase = "recover" THEN RecoveryLimit - recoveries ELSE 0
RoundLeft == IF phase = "ended" THEN 0 ELSE 1

MeasureOK ==
  /\ Remaining = 4 * (budget - dispatched) + RefusalsLeft + RecoveriesLeft + RoundLeft
  /\ budget - dispatched \in Nat /\ RefusalsLeft \in Nat
  /\ RecoveriesLeft \in 0 .. 3 /\ RoundLeft \in 0 .. 1

LEMMA Measured == TypeOK => MeasureOK
<1> SUFFICES ASSUME TypeOK
             PROVE  MeasureOK
  OBVIOUS
<1>1. /\ rejected["no_progress"] \in 0 .. 3 /\ rejected["unauthorized"] \in 0 .. 3
      /\ rejected["missing_function"] \in 0 .. 3
  BY DEF TypeOK, Refusals, RejectionLimit
<1>2. RefusalsLeft \in Nat
  BY <1>1 DEF RefusalsLeft
<1>3. budget - dispatched \in Nat /\ RecoveriesLeft \in 0 .. 3 /\ RoundLeft \in 0 .. 1
  BY DEF TypeOK, RecoveriesLeft, RoundLeft, RecoveryLimit
<1>4. Remaining = 4 * (budget - dispatched) + RefusalsLeft + RecoveriesLeft + RoundLeft
  BY DEF Remaining, RefusalsLeft, RecoveriesLeft, RoundLeft
<1>5. QED
  BY <1>2, <1>3, <1>4 DEF MeasureOK

LEMMA MeasuredNext == TypeOK' => MeasureOK'
<1>1. QED
  BY Measured, PTL

(* A dispatch outweighs everything it may give back. *)
LEMMA DispatchSpends ==
  ASSUME TypeOK, TypeOK', dispatched' = dispatched + 1, UNCHANGED << budget, rejected >>,
         phase # "ended"
  PROVE  Remaining' >= 0 /\ Remaining' < Remaining
<1>1. RefusalsLeft' = RefusalsLeft /\ RoundLeft = 1
  BY DEF RefusalsLeft, RoundLeft
<1>2. MeasureOK /\ MeasureOK'
  BY Measured, MeasuredNext
<1>3. budget' = budget /\ budget \in Nat /\ dispatched \in Nat
  BY DEF TypeOK
<1>4. /\ Remaining = 4 * (budget - dispatched) + RefusalsLeft + RecoveriesLeft + 1
      /\ Remaining' = 4 * (budget - (dispatched + 1)) + RefusalsLeft + RecoveriesLeft' + RoundLeft'
  BY <1>1, <1>2, <1>3 DEF MeasureOK
<1>5. /\ budget - (dispatched + 1) \in Nat /\ RefusalsLeft \in Nat
      /\ RecoveriesLeft \in Nat /\ RecoveriesLeft' \in Nat /\ RecoveriesLeft' <= 3
      /\ RoundLeft' \in Nat /\ RoundLeft' <= 1
  BY <1>2, <1>3 DEF MeasureOK
<1>6. \A k, l, m, n, r \in Nat :
        m <= 3 /\ n <= 1 => /\ 4 * k + r + m + n >= 0
                           /\ 4 * k + r + m + n < 4 * (k + 1) + r + l + 1
  OBVIOUS
<1>7. budget - dispatched = (budget - (dispatched + 1)) + 1
  BY <1>3
<1>8. QED
  BY <1>4, <1>5, <1>6, <1>7

(* Ending the round does, when nothing else is given back. *)
LEMMA EndingSpends ==
  ASSUME TypeOK, TypeOK', phase # "ended", phase' = "ended", UNCHANGED << budget, dispatched >>,
         RefusalsLeft' <= RefusalsLeft
  PROVE  Remaining' >= 0 /\ Remaining' < Remaining
<1>1. RoundLeft = 1 /\ RoundLeft' = 0 /\ RecoveriesLeft' = 0
  BY DEF RoundLeft, RecoveriesLeft
<1>2. MeasureOK /\ MeasureOK'
  BY Measured, MeasuredNext
<1>3. QED
  BY <1>1, <1>2 DEF MeasureOK

(* So does every step of the round.                                        *)
LEMMA StepSpends ==
  ASSUME RoundInv, RoundInv', NextInRound
  PROVE  Remaining' >= 0 /\ Remaining' < Remaining
<1>0. TypeOK /\ TypeOK'
  BY DEF RoundInv
<1>1. ASSUME DecisionFails \/ (\E a \in Terminals : TeacherEnds(a)) \/ FinalAnswerRefused
             \/ (\E c \in Call : CallOverBudget(c))
      PROVE  Remaining' >= 0 /\ Remaining' < Remaining
  <2>1. phase # "ended" /\ phase' = "ended" /\ UNCHANGED << budget, dispatched, rejected >>
    BY <1>1 DEF DecisionFails, TeacherEnds, FinalAnswerRefused, CallOverBudget, Deciding, End,
                inputs
  <2>2. RefusalsLeft' = RefusalsLeft
    BY <2>1 DEF RefusalsLeft
  <2>3. RefusalsLeft \in Nat
    BY <1>0, Measured DEF MeasureOK
  <2>4. QED
    BY <1>0, <2>1, <2>2, <2>3, EndingSpends
<1>2. ASSUME RecoveryGivesUp \/ RecoveryOverBudget \/ RecoveryExhausted \/ RecoveryMalformed
             \/ (\E c \in Call : DispatchRaises(c)) \/ RoundLeftOpen
      PROVE  Remaining' >= 0 /\ Remaining' < Remaining
  <2>1. phase # "ended" /\ phase' = "ended" /\ UNCHANGED << budget, dispatched, rejected >>
    BY <1>2 DEF RecoveryGivesUp, RecoveryOverBudget, RecoveryExhausted, RecoveryMalformed,
                DispatchRaises, RoundLeftOpen, ReportError, Deciding, Recovering, LeftOpen, End,
                inputs
  <2>2. RefusalsLeft' = RefusalsLeft
    BY <2>1 DEF RefusalsLeft
  <2>3. RefusalsLeft \in Nat
    BY <1>0, Measured DEF MeasureOK
  <2>4. QED
    BY <1>0, <2>1, <2>2, <2>3, EndingSpends
<1>3. ASSUME NEW c \in Call,
             CallSucceeds(c) \/ CallFails(c) \/ RecoverySucceeds(c) \/ RecoveryFails(c)
      PROVE  Remaining' >= 0 /\ Remaining' < Remaining
  <2>1. dispatched' = dispatched + 1 /\ UNCHANGED << budget, rejected >> /\ phase # "ended"
    BY <1>3 DEF CallSucceeds, CallFails, RecoverySucceeds, RecoveryFails, Deciding, Recovering,
                inputs
  <2>2. QED
    BY <1>0, <2>1, DispatchSpends
<1>4. ASSUME AlternativeRejected
      PROVE  Remaining' >= 0 /\ Remaining' < Remaining
  <2>1. /\ recoveries' = recoveries + 1 /\ phase = "recover"
        /\ UNCHANGED << phase, budget, dispatched, rejected >>
    BY <1>4 DEF AlternativeRejected, Recovering, inputs
  <2>2. RefusalsLeft' = RefusalsLeft /\ RoundLeft' = RoundLeft
        /\ RecoveriesLeft' = RecoveriesLeft - 1
    BY <1>0, <2>1 DEF RefusalsLeft, RoundLeft, RecoveriesLeft, TypeOK
  <2>3. MeasureOK /\ MeasureOK'
    BY <1>0, Measured, MeasuredNext
  <2>4. QED
    BY <2>1, <2>2, <2>3 DEF MeasureOK
<1>5. ASSUME NEW c \in Call, CallRefused(c)
      PROVE  Remaining' >= 0 /\ Remaining' < Remaining
  <2> DEFINE r == Refusal(c)
  <2>1. /\ r \in Refusals /\ rejected' = [rejected EXCEPT ![r] = @ + 1] /\ phase = "decide"
        /\ UNCHANGED << budget, dispatched, recoveries >>
        /\ phase' \in {"decide", "ended"}
    BY <1>5 DEF CallRefused, Deciding, End, inputs
  <2>2. \A why \in Refusals : rejected[why] \in 0 .. 3
    BY <1>0 DEF TypeOK
  <2>3. \A why \in Refusals : rejected'[why] = IF why = r THEN rejected[why] + 1 ELSE rejected[why]
    BY <1>0, <2>1 DEF TypeOK
  <2>4. RefusalsLeft' = RefusalsLeft - 1
    BY <2>1, <2>2, <2>3 DEF RefusalsLeft, Refusals
  <2>5. RecoveriesLeft' = 0 /\ RecoveriesLeft = 0 /\ RoundLeft' <= RoundLeft
    BY <2>1 DEF RecoveriesLeft, RoundLeft
  <2>6. MeasureOK /\ MeasureOK'
    BY <1>0, Measured, MeasuredNext
  <2>7. QED
    BY <2>1, <2>4, <2>5, <2>6 DEF MeasureOK
<1>6. QED
  BY <1>1, <1>2, <1>3, <1>4, <1>5 DEF NextInRound

(* Every step of a round spends a part of a finite measure: with the       *)
(* absence of deadlock, every round ends.                                  *)
THEOREM Progress == Spec => RoundProgress
<1>1. ASSUME RoundInv, RoundInv', [Next]_roundVars
      PROVE  [Remaining' >= 0 /\ Remaining' < Remaining]_roundVars
  BY <1>1, StepSpends DEF Next, RoundEnded
<1>2. QED
  BY <1>1, InductiveInvariant, PTL DEF Spec, RoundProgress

-----------------------------------------------------------------------------
(* Repetition: a sequence of events stays free of useless repeats when a   *)
(* call of the teacher that is none is added to it.                        *)
LEMMA RepeatAppended ==
  ASSUME NEW s \in Seq(Event), NEW e \in Event, NEW first \in Nat \ {0},
         NoRepeatIn(s, first),
         e.via = "action" => ~ RepeatsWithoutProgress(s, CallOf(e))
  PROVE  NoRepeatIn(Append(s, e), first)
<1> DEFINE t == Append(s, e)
<1>1. /\ Len(s) \in Nat /\ Len(t) = Len(s) + 1
      /\ t[Len(s) + 1] = e /\ \A i \in 1 .. Len(s) : t[i] = s[i]
  OBVIOUS
<1> HIDE DEF t
<1> SUFFICES ASSUME NEW j \in first .. Len(t), t[j].via = "action",
                    NEW i \in 1 .. j - 1,
                    t[i].success, ~ t[i].changed, CallOf(t[i]) = CallOf(t[j])
             PROVE  \E k \in i + 1 .. j - 1 : t[k].changed /\ << CallOf(t[k]), CallOf(t[j]) >> \in Affects
  BY DEF NoRepeatIn, t
<1>2. CASE j <= Len(s)
  <2>1. t[j] = s[j] /\ t[i] = s[i] /\ \A k \in i + 1 .. j - 1 : t[k] = s[k]
    BY <1>1, <1>2
  <2>2. j \in first .. Len(s)
    BY <1>1, <1>2
  <2>3. PICK k \in i + 1 .. j - 1 : s[k].changed /\ << CallOf(s[k]), CallOf(s[j]) >> \in Affects
    BY <2>1, <2>2 DEF NoRepeatIn
  <2>4. QED
    BY <2>1, <2>3
<1>3. CASE j = Len(s) + 1
  <2>1. t[j] = e /\ i \in 1 .. Len(s) /\ t[i] = s[i]
    BY <1>1, <1>3
  <2>2. PICK k \in i + 1 .. Len(s) : s[k].changed /\ << CallOf(s[k]), CallOf(e) >> \in Affects
    BY <2>1 DEF RepeatsWithoutProgress
  <2>3. k \in i + 1 .. j - 1 /\ t[k] = s[k]
    BY <1>1, <1>3, <2>1
  <2>4. QED
    BY <2>1, <2>2, <2>3
<1>4. j <= Len(s) \/ j = Len(s) + 1
  BY <1>1
<1>5. QED
  BY <1>2, <1>3, <1>4

(* A round only adds events, and one of the teacher only past the check.   *)
LEMMA HistoryStep ==
  ASSUME [Next]_roundVars
  PROVE  /\ prior' = prior
         /\ \/ history' = history
            \/ \E e \in Event :
                 /\ history' = Append(history, e)
                 /\ e.via = "action" => ~ RepeatsWithoutProgress(prior \o history, CallOf(e))
<1>1. \A c \in Call : [tool |-> c.tool, args |-> c.args] = c
  BY DEF Call
<1>2. ASSUME NEW c \in Call, CallSucceeds(c)
      PROVE  \E e \in Event :
               /\ history' = Append(history, e)
               /\ e.via = "action" => ~ RepeatsWithoutProgress(prior \o history, CallOf(e))
  <2>1. PICK e \in Successes(c, "action") : history' = Append(history, e)
    BY <1>2 DEF CallSucceeds
  <2>2. e \in Event /\ CallOf(e) = c
    BY <1>1, SuccessIsEvent DEF Successes, CallOf
  <2>3. ~ RepeatsWithoutProgress(prior \o history, c)
    BY <1>2 DEF CallSucceeds, Refusal
  <2>4. QED
    BY <2>1, <2>2, <2>3
<1>3. ASSUME NEW c \in Call, CallFails(c)
      PROVE  \E e \in Event :
               /\ history' = Append(history, e)
               /\ e.via = "action" => ~ RepeatsWithoutProgress(prior \o history, CallOf(e))
  <2>1. Failure(c, "action") \in Event /\ CallOf(Failure(c, "action")) = c
    BY <1>1, FailureIsEvent DEF Failure, CallOf
  <2>2. ~ RepeatsWithoutProgress(prior \o history, c)
    BY <1>3 DEF CallFails, Refusal
  <2>3. QED
    BY <1>3, <2>1, <2>2 DEF CallFails
<1>4. ASSUME NEW c \in Call, RecoverySucceeds(c)
      PROVE  \E e \in Event : history' = Append(history, e) /\ e.via # "action"
  <2>1. PICK e \in Successes(c, "recovery") : history' = Append(history, e)
    BY <1>4 DEF RecoverySucceeds
  <2>2. e \in Event /\ e.via = "recovery"
    BY SuccessIsEvent DEF Successes
  <2>3. QED
    BY <2>1, <2>2
<1>5. ASSUME NEW c \in Call, RecoveryFails(c)
      PROVE  \E e \in Event : history' = Append(history, e) /\ e.via # "action"
  BY <1>5, FailureIsEvent DEF RecoveryFails, Failure
<1>6. \/ history' = history
      \/ \E c \in Call : CallSucceeds(c) \/ CallFails(c) \/ RecoverySucceeds(c) \/ RecoveryFails(c)
  BY DEF Next, NextInRound, RoundEnded, roundVars, DecisionFails, TeacherEnds, FinalAnswerRefused,
     CallOverBudget, CallRefused, RecoveryGivesUp, RecoveryOverBudget, RecoveryExhausted,
     ReportError, AlternativeRejected, RecoveryMalformed, DispatchRaises, RoundLeftOpen
<1>7. prior' = prior
  BY DEF Next, NextInRound, RoundEnded, roundVars, inputs, DecisionFails, TeacherEnds,
     FinalAnswerRefused, CallOverBudget, CallRefused, CallSucceeds, CallFails, RecoveryGivesUp,
     RecoveryOverBudget, RecoveryExhausted, ReportError, AlternativeRejected, RecoveryMalformed,
     RecoverySucceeds, RecoveryFails, DispatchRaises, RoundLeftOpen
<1>8. QED
  BY <1>2, <1>3, <1>4, <1>5, <1>6, <1>7

(* The teacher never repeats a call whose answer cannot have changed,      *)
(* whatever the earlier rounds did (turn_loop.py, the no-progress check).  *)
THEOREM NeverRepeats == Spec => []NoUselessRepeat
<1>1. Init => NoUselessRepeat
  <2> SUFFICES ASSUME prior \in Seq(Event), history = << >>
               PROVE  NoUselessRepeat
    <3>1. << >> \in Seq(Event)
      OBVIOUS
    <3>2. QED
      BY <3>1, PriorsAssumption DEF Init, InitRound
  <2>1. prior \o history = prior /\ Len(prior) \in Nat
    OBVIOUS
  <2>2. QED
    BY <2>1 DEF NoUselessRepeat, NoRepeatIn
<1>2. ASSUME RoundInv, NoUselessRepeat, [Next]_roundVars
      PROVE  NoUselessRepeat'
  <2>1. TypeOK /\ prior \in Seq(Event) /\ history \in Seq(Event)
    BY <1>2 DEF RoundInv, TypeOK
  <2>2. prior' = prior
    BY <1>2, <2>1, HistoryStep
  <2>3. CASE history' = history
    BY <1>2, <2>2, <2>3 DEF NoUselessRepeat
  <2>4. ASSUME NEW e \in Event, history' = Append(history, e),
               e.via = "action" => ~ RepeatsWithoutProgress(prior \o history, CallOf(e))
        PROVE  NoUselessRepeat'
    <3>1. /\ prior \o history \in Seq(Event) /\ Len(prior) + 1 \in Nat \ {0}
          /\ prior \o Append(history, e) = Append(prior \o history, e)
      BY <2>1
    <3>2. NoRepeatIn(Append(prior \o history, e), Len(prior) + 1)
      BY <1>2, <2>4, <3>1, RepeatAppended DEF NoUselessRepeat
    <3>3. QED
      BY <2>2, <2>4, <3>1, <3>2 DEF NoUselessRepeat
  <2>5. QED
    BY <1>2, <2>1, <2>3, <2>4, HistoryStep
<1>3. QED
  BY <1>1, <1>2, InductiveInvariant, PTL DEF Spec

-----------------------------------------------------------------------------
(* Open failures.  Unresolved runs over the history, adding the key of a   *)
(* failure and taking away what a success repairs; OpenAfter says without  *)
(* recursion what is left after i events.                                  *)
OpenAfter(h, i) ==
  {Key(h[a]) : a \in {b \in 1 .. i :
     ~ h[b].success /\ \A j \in b + 1 .. i : h[j].success => Key(h[b]) \notin Repairs(h, j)}}

AfterEvent(h, K, i) == IF h[i].success THEN K \ Repairs(h, i) ELSE K \union {Key(h[i])}

LEMMA LeastNumber ==
  ASSUME NEW T \in SUBSET Nat, T # {}
  PROVE  \E m \in T : \A l \in T : ~ (l < m)
<1>1. IsWellFoundedOn(OpToRel(<, Nat), Nat)
  BY NatLessThanWellFounded
<1>2. PICK m \in T : \A l \in T : << l, m >> \notin OpToRel(<, Nat)
  BY <1>1, WFMin
<1>3. QED
  BY <1>2 DEF OpToRel

LEMMA OpenAfterStep ==
  ASSUME NEW h \in Seq(Event), NEW i \in 1 .. Len(h)
  PROVE  OpenAfter(h, i) = AfterEvent(h, OpenAfter(h, i - 1), i)
<1> DEFINE Left(n) == {b \in 1 .. n : ~ h[b].success /\
                         \A j \in b + 1 .. n : h[j].success => Key(h[b]) \notin Repairs(h, j)}
<1>1. CASE h[i].success
  <2>1. Left(i) = {b \in Left(i - 1) : Key(h[b]) \notin Repairs(h, i)}
    <3>1. ASSUME NEW b \in Left(i)
          PROVE  b \in Left(i - 1) /\ Key(h[b]) \notin Repairs(h, i)
      <4>1. b # i
        BY <1>1
      <4>2. b \in 1 .. i - 1 /\ i \in b + 1 .. i /\ b + 1 .. i - 1 \subseteq b + 1 .. i
        BY <4>1
      <4>3. QED
        BY <1>1, <4>2
    <3>2. ASSUME NEW b \in Left(i - 1), Key(h[b]) \notin Repairs(h, i)
          PROVE  b \in Left(i)
      <4>1. \A j \in b + 1 .. i : j = i \/ j \in b + 1 .. i - 1
        OBVIOUS
      <4>2. b \in 1 .. i
        OBVIOUS
      <4>3. QED
        BY <3>2, <4>1, <4>2
    <3>3. QED
      BY <3>1, <3>2
  <2>2. {Key(h[a]) : a \in Left(i)} = {Key(h[a]) : a \in Left(i - 1)} \ Repairs(h, i)
    <3> HIDE DEF Left
    <3>1. QED
      BY <2>1
  <2>3. QED
    BY <1>1, <2>2 DEF OpenAfter, AfterEvent
<1>2. CASE ~ h[i].success
  <2>1. Left(i) = Left(i - 1) \union {i}
    <3>1. ASSUME NEW b \in Left(i), b # i
          PROVE  b \in Left(i - 1)
      <4>1. b \in 1 .. i - 1 /\ b + 1 .. i - 1 \subseteq b + 1 .. i
        BY <3>1
      <4>2. QED
        BY <4>1
    <3>2. ASSUME NEW b \in Left(i - 1)
          PROVE  b \in Left(i)
      <4>1. \A j \in b + 1 .. i : j = i \/ j \in b + 1 .. i - 1
        OBVIOUS
      <4>2. b \in 1 .. i
        OBVIOUS
      <4>3. QED
        BY <1>2, <4>1, <4>2
    <3>3. i \in Left(i)
      BY <1>2
    <3>4. QED
      BY <3>1, <3>2, <3>3
  <2>2. {Key(h[a]) : a \in Left(i)} = {Key(h[a]) : a \in Left(i - 1)} \union {Key(h[i])}
    <3> HIDE DEF Left
    <3>1. QED
      BY <2>1
  <2>3. QED
    BY <1>2, <2>2 DEF OpenAfter, AfterEvent
<1>3. QED
  BY <1>1, <1>2

(* The recursion has a solution, so Unresolved is the value of one.        *)
LEMMA UnresolvedRuns ==
  ASSUME NEW h \in Seq(Event)
  PROVE  \E keys : /\ keys = [i \in 0 .. Len(h) |-> IF i = 0 THEN {} ELSE AfterEvent(h, keys[i - 1], i)]
                   /\ Unresolved(h) = keys[Len(h)]
<1> DEFINE Solves(keys) ==
             keys = [i \in 0 .. Len(h) |->
                      IF i = 0 THEN {}
                      ELSE IF h[i].success THEN keys[i - 1] \ Repairs(h, i)
                      ELSE keys[i - 1] \cup {Key(h[i])}]
           failures == [i \in 0 .. Len(h) |-> OpenAfter(h, i)]
<1>1. Solves(failures)
  <2>1. OpenAfter(h, 0) = {}
    BY DEF OpenAfter
  <2>2. \A i \in 1 .. Len(h) : failures[i] = AfterEvent(h, failures[i - 1], i)
    BY OpenAfterStep
  <2> DEFINE value(i) == IF i = 0 THEN {}
                         ELSE IF h[i].success THEN failures[i - 1] \ Repairs(h, i)
                         ELSE failures[i - 1] \cup {Key(h[i])}
  <2>3. ASSUME NEW i \in 0 .. Len(h)
        PROVE  OpenAfter(h, i) = value(i)
    <3>1. CASE i = 0
      BY <2>1, <3>1
    <3>2. CASE i # 0
      <4>1. i \in 1 .. Len(h) /\ failures[i] = OpenAfter(h, i)
        BY <3>2
      <4>2. failures[i] = AfterEvent(h, failures[i - 1], i)
        BY <2>2, <4>1
      <4> HIDE DEF failures
      <4>3. QED
        BY <3>2, <4>1, <4>2 DEF AfterEvent
    <3>3. QED
      BY <3>1, <3>2
  <2>4. failures = [i \in 0 .. Len(h) |-> value(i)]
    <3> HIDE DEF value
    <3>1. QED
      BY <2>3
  <2>5. QED
    BY <2>4
<1>2. Unresolved(h) = (CHOOSE keys : Solves(keys))[Len(h)]
  BY DEF Unresolved
<1>3. Solves(CHOOSE keys : Solves(keys))
  <2> HIDE DEF Solves, failures
  <2>1. QED
    BY <1>1
<1>4. QED
  BY <1>2, <1>3 DEF AfterEvent

LEMMA UnresolvedIsOpen ==
  ASSUME NEW h \in Seq(Event)
  PROVE  Unresolved(h) = OpenAfter(h, Len(h))
<1>1. PICK keys :
        /\ keys = [i \in 0 .. Len(h) |-> IF i = 0 THEN {} ELSE AfterEvent(h, keys[i - 1], i)]
        /\ Unresolved(h) = keys[Len(h)]
  BY UnresolvedRuns
<1>2. /\ keys[0] = {} /\ Len(h) \in Nat
      /\ \A i \in 1 .. Len(h) : keys[i] = AfterEvent(h, keys[i - 1], i)
  <2>1. Len(h) \in Nat /\ 0 \in 0 .. Len(h)
    OBVIOUS
  <2>2. \A i \in 0 .. Len(h) : keys[i] = IF i = 0 THEN {} ELSE AfterEvent(h, keys[i - 1], i)
    BY <1>1
  <2>3. \A i \in 1 .. Len(h) : i \in 0 .. Len(h) /\ i # 0
    BY <2>1
  <2>4. QED
    BY <2>1, <2>2, <2>3
<1>3. OpenAfter(h, 0) = {}
  BY DEF OpenAfter
<1> DEFINE Differ == {i \in 0 .. Len(h) : keys[i] # OpenAfter(h, i)}
<1>4. Differ = {}
  <2> SUFFICES ASSUME Differ # {}
               PROVE  FALSE
    OBVIOUS
  <2>1. Differ \in SUBSET Nat
    BY <1>2
  <2>2. PICK m \in Differ : \A l \in Differ : ~ (l < m)
    BY <2>1, LeastNumber
  <2>3. m \in 1 .. Len(h) /\ m - 1 \in 0 .. Len(h) /\ m - 1 < m
    <3>1. m \in 0 .. Len(h) /\ m # 0
      BY <1>2, <1>3
    <3>2. QED
      BY <1>2, <3>1
  <2>4. keys[m - 1] = OpenAfter(h, m - 1)
    BY <2>2, <2>3
  <2>5. keys[m] = OpenAfter(h, m)
    BY <1>2, <2>3, <2>4, OpenAfterStep
  <2>6. QED
    BY <2>5
<1>5. Len(h) \in 0 .. Len(h) /\ Len(h) \notin Differ
  BY <1>2, <1>4
<1>6. QED
  BY <1>1, <1>5

(* What Unresolved takes away is what the property calls a repair.         *)
LEMMA RepairedWhenResolved ==
  ASSUME history \in Seq(Event), Unresolved(history) = {},
         NEW i \in 1 .. Len(history), ~ history[i].success
  PROVE  \E j \in i + 1 .. Len(history) : RepairedBy(i, j)
<1>1. OpenAfter(history, Len(history)) = {}
  BY UnresolvedIsOpen
<1>2. PICK j \in i + 1 .. Len(history) :
        history[j].success /\ Key(history[i]) \in Repairs(history, j)
  BY <1>1 DEF OpenAfter
<1> DEFINE f == history[i]
           e == history[j]
<1>3. \/ Key(f) = Key(e) \/ Key(f) = << e.tool, NoTarget >>
      \/ \E a \in Aliases :
           /\ Key(f) = << e.tool, a[1] >> /\ a[2] = Target(e)
           /\ \E k \in 1 .. j : history[k].success /\ history[k].shows
  BY <1>2 DEF Repairs
<1>4. \A a \in Aliases : a = << a[1], a[2] >>
  BY ToolsAssumption
<1>5. /\ e.tool = f.tool
      /\ \/ Target(f) \in {NoTarget, Target(e)}
         \/ /\ << Target(f), Target(e) >> \in Aliases
            /\ \E k \in 1 .. j : history[k].success /\ history[k].shows
  BY <1>3, <1>4 DEF Key
<1>6. QED
  BY <1>2, <1>5 DEF RepairedBy

(* The loop's final-answer gate is right: an answered round leaves no      *)
(* failure that no later success repaired (turn_loop.py's                  *)
(* final-answer gate).                                                     *)
THEOREM AnswersRepaired == Spec => []FinalAnswerHasNoOpenFailure
<1>1. Init => FinalAnswerHasNoOpenFailure
  BY DEF Init, InitRound, FinalAnswerHasNoOpenFailure
<1>2. ASSUME RoundInv, FinalAnswerHasNoOpenFailure, [Next]_roundVars
      PROVE  FinalAnswerHasNoOpenFailure'
  <2>1. TypeOK /\ history \in Seq(Event)
    BY <1>2 DEF RoundInv, TypeOK
  <2>2. CASE phase = "ended"
    <3>1. UNCHANGED << history, outcome >>
      BY <1>2, <2>2 DEF Next, NextInRound, RoundEnded, roundVars, DecisionFails, TeacherEnds,
         FinalAnswerRefused, CallOverBudget, CallRefused, CallSucceeds, CallFails, RecoveryGivesUp,
         RecoveryOverBudget, RecoveryExhausted, AlternativeRejected, RecoveryMalformed,
         RecoverySucceeds, RecoveryFails, DispatchRaises, RoundLeftOpen, LeftOpen, Deciding, Recovering
    <3>2. QED
      BY <1>2, <3>1 DEF FinalAnswerHasNoOpenFailure, RepairedBy
  <2>3. CASE phase # "ended"
    <3>1. outcome = "running"
      BY <1>2, <2>3 DEF RoundInv, CountersOpen
    <3>2. outcome' = "final_answer" => history' = history /\ Unresolved(history) = {}
      BY <1>2, <3>1 DEF Next, NextInRound, RoundEnded, roundVars, DecisionFails, TeacherEnds,
         FinalAnswerRefused, CallOverBudget, CallRefused, CallSucceeds, CallFails, RecoveryGivesUp,
         RecoveryOverBudget, RecoveryExhausted, ReportError, AlternativeRejected, RecoveryMalformed,
         RecoverySucceeds, RecoveryFails, DispatchRaises, RoundLeftOpen, AfterProgress, End, Refusals
    <3>3. QED
      BY <2>1, <3>2, RepairedWhenResolved DEF FinalAnswerHasNoOpenFailure, RepairedBy
  <2>4. QED
    BY <2>2, <2>3
<1>3. QED
  BY <1>1, <1>2, InductiveInvariant, PTL DEF Spec

(***************************************************************************)
(* The candidate.                                                          *)
(***************************************************************************)
(* The successes of history h all appear among the calls of oracle o.      *)
Recorded(h, o) ==
  /\ h \in Seq(Event)
  /\ o \in Seq(OracleEntry)
  /\ \A i \in 1 .. Len(h) : h[i].success =>
       \E k \in 1 .. Len(o) : o[k] = OracleCall(CallOf(h[i]))

RoundsRecorded ==
  /\ rounds \in Seq([history : Seq(Event), oracle : Seq(OracleEntry)])
  /\ rounds # << >> => Recorded(rounds[1].history, rounds[1].oracle)

PastTheGate ==
  /\ stage \in {"validate", "replay", "accepted"} => rounds # << >>
  /\ stage \in {"replay", "accepted"} => session = "active" /\ ~ EarlyRejects

IInv ==
  /\ Recorded(history, oracle)
  /\ RoundsRecorded
  /\ PastTheGate

-----------------------------------------------------------------------------
(* FlattenSeq, by its recursion: a solution exists, of which it is the     *)
(* last value, and one sequence more is appended to the result.            *)
Concatenates(f, s, n) ==
  f = [i \in 1 .. n |-> IF i = 1 THEN s[i] ELSE f[i - 1] \o s[i]]

LEMMA ConcatenationExists ==
  ASSUME NEW s, NEW n \in Nat \ {0}
  PROVE  \E f : Concatenates(f, s, n)
<1> DEFINE Bad == {m \in Nat \ {0} : ~ \E f : Concatenates(f, s, m)}
<1>1. Bad = {}
  <2> SUFFICES ASSUME Bad # {}
               PROVE  FALSE
    OBVIOUS
  <2>1. PICK m \in Bad : \A l \in Bad : ~ (l < m)
    <3>1. Bad \in SUBSET Nat
      OBVIOUS
    <3> HIDE DEF Bad
    <3>2. QED
      BY <3>1, LeastNumber
  <2>2. m \in Nat \ {0} /\ ~ \E f : Concatenates(f, s, m)
    BY <2>1
  <2>3. CASE m = 1
    <3> DEFINE f == [i \in 1 .. 1 |-> s[1]]
    <3>1. Concatenates(f, s, 1)
      BY DEF Concatenates
    <3>2. QED
      BY <2>2, <2>3, <3>1
  <2>4. CASE m # 1
    <3>1. m - 1 \in Nat \ {0} /\ m - 1 \notin Bad
      BY <2>1, <2>2, <2>4
    <3>2. PICK f : Concatenates(f, s, m - 1)
      BY <3>1
    <3> DEFINE g == [i \in 1 .. m |-> IF i = m THEN f[m - 1] \o s[m] ELSE f[i]]
    <3>3. \A i \in 1 .. m : g[i] = IF i = 1 THEN s[i] ELSE g[i - 1] \o s[i]
      <4> TAKE i \in 1 .. m
      <4>1. \A k \in 1 .. m - 1 : f[k] = IF k = 1 THEN s[k] ELSE f[k - 1] \o s[k]
        BY <3>2 DEF Concatenates
      <4>2. CASE i = m
        <5>1. i # 1 /\ i - 1 \in 1 .. m /\ i - 1 # m
          BY <2>2, <2>4, <4>2
        <5>2. g[i] = f[m - 1] \o s[m] /\ g[i - 1] = f[m - 1]
          BY <4>2, <5>1
        <5>3. QED
          BY <4>2, <5>1, <5>2
      <4>3. CASE i # m
        <5>1. i \in 1 .. m - 1 /\ g[i] = f[i]
          BY <2>2, <4>3
        <5>2. i # 1 => g[i - 1] = f[i - 1]
          BY <2>2, <5>1
        <5>3. QED
          BY <4>1, <5>1, <5>2
      <4>4. QED
        BY <4>2, <4>3
    <3>4. g = [i \in 1 .. m |-> g[i]]
      OBVIOUS
    <3>5. Concatenates(g, s, m)
      <4> HIDE DEF g
      <4>1. QED
        BY <3>3, <3>4 DEF Concatenates
    <3>6. QED
      BY <2>2, <3>5
  <2>5. QED
    BY <2>3, <2>4
<1>2. QED
  BY <1>1

LEMMA FlattenRuns ==
  ASSUME NEW s, Len(s) \in Nat \ {0}
  PROVE  \E f : Concatenates(f, s, Len(s)) /\ FlattenSeq(s) = f[Len(s)]
<1> DEFINE Solves(f) == f = [i \in 1 .. Len(s) |-> IF i = 1 THEN s[i] ELSE f[i - 1] \o s[i]]
<1>1. FlattenSeq(s) = (CHOOSE f : Solves(f))[Len(s)]
  BY DEF FlattenSeq
<1>2. \E f : Solves(f)
  BY ConcatenationExists DEF Concatenates
<1>3. Solves(CHOOSE f : Solves(f))
  <2> HIDE DEF Solves
  <2>1. QED
    BY <1>2
<1>4. QED
  BY <1>1, <1>3 DEF Concatenates

LEMMA FlattenEmpty == FlattenSeq(<< >>) = << >>
BY DEF FlattenSeq

(* Two runs of the recursion agree where their sequences do.               *)
LEMMA ConcatenationsAgree ==
  ASSUME NEW s, NEW t, NEW n \in Nat, NEW m \in Nat, m <= n,
         NEW f, NEW g, Concatenates(f, s, m), Concatenates(g, t, n),
         \A i \in 1 .. m : s[i] = t[i]
  PROVE  \A i \in 1 .. m : f[i] = g[i]
<1> DEFINE Differ == {i \in 1 .. m : f[i] # g[i]}
<1>1. Differ = {}
  <2> SUFFICES ASSUME Differ # {}
               PROVE  FALSE
    OBVIOUS
  <2>1. PICK k \in Differ : \A l \in Differ : ~ (l < k)
    <3>1. Differ \in SUBSET Nat
      OBVIOUS
    <3> HIDE DEF Differ
    <3>2. QED
      BY <3>1, LeastNumber
  <2>2. k \in 1 .. m /\ k \in 1 .. n /\ s[k] = t[k] /\ f[k] # g[k]
    BY <2>1
  <2>3. /\ f[k] = IF k = 1 THEN s[k] ELSE f[k - 1] \o s[k]
        /\ g[k] = IF k = 1 THEN t[k] ELSE g[k - 1] \o t[k]
    BY <2>2 DEF Concatenates
  <2>4. k # 1 => f[k - 1] = g[k - 1]
    <3>1. k # 1 => k - 1 \in 1 .. m /\ k - 1 < k
      BY <2>2
    <3>2. QED
      BY <2>1, <3>1
  <2>5. QED
    BY <2>2, <2>3, <2>4
<1>2. QED
  BY <1>1

LEMMA FlattenAppend ==
  ASSUME NEW S, NEW s \in Seq(Seq(S)), NEW x \in Seq(S)
  PROVE  FlattenSeq(Append(s, x)) = FlattenSeq(s) \o x
<1> DEFINE t == Append(s, x)
           n == Len(s)
<1>1. /\ n \in Nat /\ Len(t) = n + 1 /\ t[n + 1] = x
      /\ \A i \in 1 .. n : t[i] = s[i]
  OBVIOUS
<1> HIDE DEF t
<1>2. PICK g : Concatenates(g, t, n + 1) /\ FlattenSeq(t) = g[n + 1]
  BY <1>1, FlattenRuns
<1>3. g[n + 1] = IF n = 0 THEN x ELSE g[n] \o x
  <2>1. \A k \in 1 .. n + 1 : g[k] = IF k = 1 THEN t[k] ELSE g[k - 1] \o t[k]
    BY <1>2 DEF Concatenates
  <2>2. PICK k \in 1 .. n + 1 : k = n + 1
    BY <1>1
  <2>3. g[k] = IF k = 1 THEN t[k] ELSE g[k - 1] \o t[k]
    BY <2>1
  <2>4. k - 1 = n /\ (k = 1 <=> n = 0) /\ t[k] = x
    BY <1>1, <2>2
  <2>5. QED
    BY <2>2, <2>3, <2>4
<1>4. CASE n = 0
  <2>1. FlattenSeq(t) = x
    BY <1>2, <1>3, <1>4
  <2>2. s = << >>
    BY <1>4
  <2>3. << >> \o x = x
    OBVIOUS
  <2>4. QED
    BY <2>1, <2>2, <2>3, FlattenEmpty DEF t
<1>5. CASE n # 0
  <2>1. PICK f : Concatenates(f, s, n) /\ FlattenSeq(s) = f[n]
    BY <1>1, <1>5, FlattenRuns
  <2>2. f[n] = g[n]
    <3>1. n \in 1 .. n /\ n + 1 \in Nat /\ n <= n + 1
      BY <1>1, <1>5
    <3> HIDE DEF n
    <3>2. \A i \in 1 .. n : f[i] = g[i]
      BY <1>1, <1>2, <2>1, <3>1, ConcatenationsAgree
    <3>3. QED
      BY <3>1, <3>2
  <2>3. QED
    BY <1>2, <1>3, <1>5, <2>1, <2>2 DEF t
<1>6. QED
  BY <1>4, <1>5

-----------------------------------------------------------------------------
(* A recorded success is a real call the gate of the round sees.           *)
LEMMA SuccessIsRealCall ==
  ASSUME NEW h, NEW o, Recorded(h, o), NEW i \in 1 .. Len(h), h[i].success
  PROVE  OracleCall(CallOf(h[i])) \in RealCalls(o)
<1>1. PICK k \in 1 .. Len(o) : o[k] = OracleCall(CallOf(h[i]))
  BY DEF Recorded
<1>2. o[k].action = "tool_call" /\ k \in DOMAIN o
  BY <1>1 DEF OracleCall, Recorded
<1>3. QED
  BY <1>1, <1>2 DEF RealCalls

LEMMA EmptyRecorded == Recorded(<< >>, << >>)
BY DEF Recorded

(* A terminal entry, or a failed dispatch, leaves the successes recorded.  *)
LEMMA EntryAdded ==
  ASSUME NEW h, NEW o, Recorded(h, o), NEW x \in OracleEntry
  PROVE  Recorded(h, Append(o, x))
<1> DEFINE p == Append(o, x)
<1>1. /\ p \in Seq(OracleEntry) /\ Len(p) = Len(o) + 1 /\ Len(o) \in Nat
      /\ \A k \in 1 .. Len(o) : p[k] = o[k]
  BY DEF Recorded
<1> HIDE DEF p
<1>2. ASSUME NEW i \in 1 .. Len(h), h[i].success
      PROVE  \E k \in 1 .. Len(p) : p[k] = OracleCall(CallOf(h[i]))
  <2>1. PICK k \in 1 .. Len(o) : o[k] = OracleCall(CallOf(h[i]))
    BY <1>2 DEF Recorded
  <2>2. k \in 1 .. Len(p) /\ p[k] = o[k]
    BY <1>1
  <2>3. QED
    BY <2>1, <2>2
<1>3. Recorded(h, p)
  BY <1>1, <1>2 DEF Recorded
<1>4. QED
  BY <1>3 DEF p

LEMMA EventAdded ==
  ASSUME NEW h, NEW o, Recorded(h, o), NEW e \in Event,
         e.success => \E k \in 1 .. Len(o) : o[k] = OracleCall(CallOf(e))
  PROVE  Recorded(Append(h, e), o)
<1> DEFINE p == Append(h, e)
<1>1. /\ p \in Seq(Event) /\ Len(p) = Len(h) + 1 /\ Len(h) \in Nat
      /\ p[Len(h) + 1] = e
      /\ \A i \in 1 .. Len(h) : p[i] = h[i]
  BY DEF Recorded
<1> HIDE DEF p
<1>2. ASSUME NEW i \in 1 .. Len(p), p[i].success
      PROVE  \E k \in 1 .. Len(o) : o[k] = OracleCall(CallOf(p[i]))
  <2>1. CASE i = Len(h) + 1
    BY <1>1, <1>2, <2>1
  <2>2. CASE i # Len(h) + 1
    <3>1. i \in 1 .. Len(h) /\ p[i] = h[i]
      BY <1>1, <2>2
    <3>2. QED
      BY <1>2, <3>1 DEF Recorded
  <2>3. QED
    BY <2>1, <2>2
<1>3. Recorded(p, o)
  BY <1>1, <1>2 DEF Recorded
<1>4. QED
  BY <1>3 DEF p

(* A success is dispatched and entered into the oracle in one step.        *)
LEMMA SuccessAdded ==
  ASSUME NEW h, NEW o, Recorded(h, o), NEW c \in Call,
         NEW via \in {"action", "recovery"}, NEW e \in Successes(c, via)
  PROVE  Recorded(Append(h, e), Append(o, OracleCall(c)))
<1>1. e \in Event /\ CallOf(e) = c
  <2>1. e \in Event /\ e.tool = c.tool /\ e.args = c.args
    BY DEF Successes, Event, Call
  <2>2. QED
    BY <2>1 DEF CallOf, Call
<1>2. OracleCall(c) \in OracleEntry
  BY DEF OracleCall, OracleEntry
<1> DEFINE p == Append(o, OracleCall(c))
<1>3. Recorded(h, p)
  BY <1>2, EntryAdded
<1>4. Len(p) \in 1 .. Len(p) /\ p[Len(p)] = OracleCall(c)
  BY <1>2 DEF Recorded
<1> HIDE DEF p
<1>5. Recorded(Append(h, e), p)
  BY <1>1, <1>3, <1>4, EventAdded
<1>6. QED
  BY <1>5 DEF p

LEMMA FailureAdded ==
  ASSUME NEW h, NEW o, Recorded(h, o), NEW c \in Call,
         NEW via \in {"action", "recovery"}
  PROVE  Recorded(Append(h, Failure(c, via)), o)
<1>1. Failure(c, via) \in Event /\ ~ Failure(c, via).success
  BY DEF Failure, Event, Call
<1>2. QED
  BY <1>1, EventAdded

(* Whatever a round does, it records its successes.                        *)
LEMMA RoundStepRecords ==
  ASSUME Recorded(history, oracle), NextInRound
  PROVE  Recorded(history, oracle)'
<1>1. CASE UNCHANGED << history, oracle >>
  BY <1>1
<1>2. ASSUME NEW a \in Terminals, TeacherEnds(a)
      PROVE  Recorded(history, oracle)'
  <2>1. OracleEnd(a) \in OracleEntry
    BY DEF OracleEnd, OracleEntry
  <2>2. history' = history /\ oracle' = Append(oracle, OracleEnd(a))
    BY <1>2 DEF TeacherEnds
  <2>3. QED
    BY <2>1, <2>2, EntryAdded
<1>3. ASSUME NEW path, ReportError(path)
      PROVE  Recorded(history, oracle)'
  <2>1. OracleEnd("report_error") \in OracleEntry
    BY DEF OracleEnd, OracleEntry, Terminals
  <2>2. history' = history /\ oracle' = Append(oracle, OracleEnd("report_error"))
    BY <1>3 DEF ReportError
  <2>3. QED
    BY <2>1, <2>2, EntryAdded
<1>4. ASSUME NEW c \in Call, CallSucceeds(c) \/ RecoverySucceeds(c)
      PROVE  Recorded(history, oracle)'
  <2>1. PICK via \in {"action", "recovery"} : \E e \in Successes(c, via) :
               history' = Append(history, e) /\ oracle' = Append(oracle, OracleCall(c))
    BY <1>4 DEF CallSucceeds, RecoverySucceeds
  <2>2. QED
    BY <2>1, SuccessAdded
<1>5. ASSUME NEW c \in Call, CallFails(c) \/ RecoveryFails(c)
      PROVE  Recorded(history, oracle)'
  <2>1. PICK via \in {"action", "recovery"} :
               history' = Append(history, Failure(c, via)) /\ oracle' = oracle
    BY <1>5 DEF CallFails, RecoveryFails
  <2>2. QED
    BY <2>1, FailureAdded
<1>6. ASSUME \/ DecisionFails \/ FinalAnswerRefused
             \/ \E c \in Call : CallOverBudget(c) \/ CallRefused(c) \/ DispatchRaises(c)
             \/ AlternativeRejected \/ RecoveryMalformed \/ RoundLeftOpen
      PROVE  UNCHANGED << history, oracle >>
  BY <1>6 DEF DecisionFails, FinalAnswerRefused, CallOverBudget, CallRefused,
     DispatchRaises, AlternativeRejected, RecoveryMalformed, RoundLeftOpen
<1>7. QED
  BY <1>1, <1>2, <1>3, <1>4, <1>5, <1>6
  DEF NextInRound, RecoveryGivesUp, RecoveryOverBudget, RecoveryExhausted

-----------------------------------------------------------------------------
LEMMA InitIInv == InitConversation => IInv
<1> SUFFICES ASSUME InitConversation
             PROVE  IInv
  OBVIOUS
<1>1. Recorded(history, oracle)
  BY EmptyRecorded DEF InitConversation, InitRound
<1>2. RoundsRecorded
  BY DEF InitConversation, RoundsRecorded
<1>3. PastTheGate
  BY DEF InitConversation, PastTheGate
<1>4. QED
  BY <1>1, <1>2, <1>3 DEF IInv

(* A round that completes is kept with its record.                         *)
LEMMA CompletedRecorded ==
  ASSUME Recorded(history, oracle), RoundsRecorded, Completed
  PROVE  RoundsRecorded' /\ rounds' # << >>
<1> DEFINE R == [history : Seq(Event), oracle : Seq(OracleEntry)]
<1> DEFINE r == [history |-> history, oracle |-> oracle]
<1>1. r \in R
  BY DEF Recorded
<1>2. rounds \in Seq(R) /\ rounds' = Append(rounds, r)
  BY DEF RoundsRecorded, Completed
<1>3. r.history = history /\ r.oracle = oracle
  OBVIOUS
<1> HIDE DEF R, r
<1>4. rounds' \in Seq(R) /\ rounds' # << >>
  BY <1>1, <1>2
<1>5. rounds'[1] = IF rounds = << >> THEN r ELSE rounds[1]
  BY <1>1, <1>2
<1>6. Recorded(rounds'[1].history, rounds'[1].oracle)
  BY <1>3, <1>5 DEF RoundsRecorded
<1>7. QED
  BY <1>4, <1>6 DEF RoundsRecorded, R

(* A new round starts with nothing to record.                              *)
LEMMA BeginRecorded ==
  ASSUME NEW r, NEW h, NEW auth, BeginRound(r, h, auth)
  PROVE  Recorded(history, oracle)'
BY EmptyRecorded DEF BeginRound

LEMMA RetryIInv ==
  ASSUME IInv, Retry
  PROVE  IInv'
<1>1. Recorded(history, oracle)'
  BY BeginRecorded DEF Retry
<1>2. RoundsRecorded'
  BY DEF Retry, RoundsRecorded
<1>3. PastTheGate'
  BY DEF Retry, PastTheGate
<1>4. QED
  BY <1>1, <1>2, <1>3 DEF IInv

(* A step that only leaves or ends the conversation keeps what it recorded. *)
LEMMA KeepsRecord ==
  ASSUME IInv, UNCHANGED << history, oracle, rounds >>
  PROVE  Recorded(history, oracle)' /\ RoundsRecorded'
BY DEF IInv, RoundsRecorded

LEMMA RejectedIInv ==
  ASSUME IInv, Exhausted
  PROVE  IInv'
<1>1. Recorded(history, oracle)' /\ RoundsRecorded'
  BY KeepsRecord DEF Exhausted, roundVars
<1>2. PastTheGate'
  BY DEF Exhausted, Return, PastTheGate
<1>3. QED
  BY <1>1, <1>2 DEF IInv

LEMMA NextIInv == IInv /\ [NextConversation]_vars => IInv'
<1> SUFFICES ASSUME IInv, [NextConversation]_vars
             PROVE  IInv'
  OBVIOUS
<1> USE DEF IInv
<1>1. CASE InRound
  <2>1. Recorded(history, oracle)'
    BY <1>1, RoundStepRecords DEF InRound
  <2>2. RoundsRecorded'
    BY <1>1 DEF InRound, RoundsRecorded
  <2>3. PastTheGate'
    BY <1>1 DEF InRound, PastTheGate
  <2>4. QED
    BY <2>1, <2>2, <2>3
<1>2. CASE RoundRaises \/ LaterGateRaises
  <2>1. UNCHANGED << history, oracle, rounds >> /\ stage' = "raised"
    BY <1>2 DEF RoundRaises, LaterGateRaises, Return, roundVars
  <2>2. PastTheGate'
    BY <2>1 DEF PastTheGate
  <2>3. QED
    BY <2>1, <2>2, KeepsRecord
<1>3. CASE ZeroToolFails \/ EarlyGateRejects \/ LaterGateRejects
  BY <1>3, RetryIInv, RejectedIInv DEF ZeroToolFails, EarlyGateRejects, LaterGateRejects
<1>4. CASE ConversationStops \/ ConversationEnds
  <2>1. UNCHANGED << history, oracle >> /\ stage' = "validate" /\ Completed
    BY <1>4 DEF ConversationStops, ConversationEnds, roundVars
  <2>2. RoundsRecorded' /\ rounds' # << >>
    BY <2>1, CompletedRecorded
  <2>3. PastTheGate'
    BY <2>1, <2>2 DEF PastTheGate
  <2>4. QED
    BY <2>1, <2>2, <2>3
<1>5. CASE ConversationContinues
  <2>1. Completed /\ stage' = "round"
    BY <1>5 DEF ConversationContinues, Completed, RoundOver
  <2>2. RoundsRecorded'
    BY <2>1, CompletedRecorded
  <2>3. Recorded(history, oracle)'
    BY <1>5, BeginRecorded DEF ConversationContinues
  <2>4. PastTheGate'
    BY <2>1 DEF PastTheGate
  <2>5. QED
    BY <2>2, <2>3, <2>4
<1>6. CASE ContinuationRaises
  <2>1. UNCHANGED << history, oracle >> /\ stage' = "raised" /\ Completed
    BY <1>6 DEF ContinuationRaises, Return
  <2>2. RoundsRecorded'
    BY <2>1, CompletedRecorded
  <2>3. PastTheGate'
    BY <2>1 DEF PastTheGate
  <2>4. QED
    BY <2>1, <2>2, <2>3
<1>7. CASE Validated \/ Accept \/ Returned \/ UNCHANGED vars
  <2>1. UNCHANGED << history, oracle, rounds, roundVars, profile, chain >>
    BY <1>7 DEF Validated, Accept, Returned, vars, roundVars
  <2>2. /\ stage' \in {"replay", "accepted"} =>
             session = "active" /\ ~ EarlyRejects
        /\ stage' \in {"validate", "replay", "accepted"} => rounds # << >>
    BY <1>7 DEF Validated, Accept, Returned, vars, Return, PastTheGate
  <2>3. UNCHANGED EarlyRejects
    BY <2>1 DEF roundVars, inputs, profile, EarlyRejects, UnauthorizedMutation,
       MissingFunctionBroken, ClarifiedAfterMutation, HallucinatedError, Scenario,
       Trace, Oracles, ZeroToolValid
  <2>4. PastTheGate'
    BY <2>1, <2>2, <2>3 DEF PastTheGate, roundVars
  <2>5. QED
    BY <2>1, <2>4, KeepsRecord
<1>8. QED
  BY <1>1, <1>2, <1>3, <1>4, <1>5, <1>6, <1>7 DEF NextConversation, Proceed

THEOREM Invariance == ConversationSpec => []IInv
<1>1. QED
  BY InitIInv, NextIInv, PTL DEF ConversationSpec

-----------------------------------------------------------------------------
(* Outside the paper baseline no accepted candidate holds a first-round    *)
(* mutation its source chain did not authorize: the recovery dialogue may  *)
(* make one (turn_loop.py does not check it there), the early gate of      *)
(* candidate_trace_validation.py always sees it.                           *)
THEOREM MutationsAuthorized == ConversationSpec => []AcceptedMutationsAuthorized
<1>1. IInv => AcceptedMutationsAuthorized
  <2> SUFFICES ASSUME IInv, stage = "accepted", ~ baseline,
                      NEW i \in DOMAIN rounds[1].history,
                      rounds[1].history[i].success,
                      rounds[1].history[i].tool \in Mutating
               PROVE  rounds[1].history[i].tool \in chain
    BY DEF AcceptedMutationsAuthorized
  <2> DEFINE h == rounds[1].history
             o == rounds[1].oracle
             c == OracleCall(CallOf(h[i]))
  <2>1. Recorded(h, o) /\ ~ EarlyRejects
    BY DEF IInv, PastTheGate, RoundsRecorded
  <2>2. i \in 1 .. Len(h)
    BY <2>1 DEF Recorded
  <2>3. c \in RealCalls(o)
    BY <2>1, <2>2, SuccessIsRealCall
  <2>4. c.call.tool = h[i].tool
    BY DEF OracleCall, CallOf
  <2>5. ~ UnauthorizedMutation
    BY <2>1 DEF EarlyRejects
  <2>6. c.call.tool \notin Mutating \ chain
    BY <2>3, <2>5 DEF UnauthorizedMutation
  <2>7. QED
    BY <2>4, <2>6
<1>2. QED
  BY Invariance, <1>1, PTL

(* A candidate one of whose calls timed out, so that nobody knows whether  *)
(* it was committed, is never accepted (session quarantine of executor.py, *)
(* and the final state generate_one reads before it accepts).              *)
THEOREM UnknownCommitRejected == ConversationSpec => []UnknownCommitNeverAccepted
<1>1. IInv => UnknownCommitNeverAccepted
  BY DEF IInv, PastTheGate, UnknownCommitNeverAccepted
<1>2. QED
  BY Invariance, <1>1, PTL

-----------------------------------------------------------------------------
(* The conversation as a whole: its trace grows by the history of the      *)
(* round that completed, and a round is given the trace as its prior.      *)
TraceRecorded == Recorded(Trace, Oracles)

PriorIsTrace == stage = "round" => prior = Trace

TInv == TraceRecorded /\ PriorIsTrace /\ NoRepeatAcrossRounds

LEMMA RecordedJoined ==
  ASSUME NEW g, NEW o, Recorded(g, o), NEW h, NEW p, Recorded(h, p)
  PROVE  Recorded(g \o h, o \o p)
<1> DEFINE gh == g \o h
           op == o \o p
<1>1. /\ gh \in Seq(Event) /\ op \in Seq(OracleEntry)
      /\ Len(g) \in Nat /\ Len(h) \in Nat /\ Len(o) \in Nat /\ Len(p) \in Nat
      /\ Len(gh) = Len(g) + Len(h) /\ Len(op) = Len(o) + Len(p)
      /\ \A i \in 1 .. Len(g) : gh[i] = g[i]
      /\ \A i \in 1 .. Len(h) : gh[Len(g) + i] = h[i]
      /\ \A i \in 1 .. Len(o) : op[i] = o[i]
      /\ \A i \in 1 .. Len(p) : op[Len(o) + i] = p[i]
  BY DEF Recorded
<1> HIDE DEF gh, op
<1>2. ASSUME NEW i \in 1 .. Len(gh), gh[i].success
      PROVE  \E k \in 1 .. Len(op) : op[k] = OracleCall(CallOf(gh[i]))
  <2>1. CASE i <= Len(g)
    <3>1. i \in 1 .. Len(g) /\ gh[i] = g[i]
      BY <1>1, <2>1
    <3>2. PICK k \in 1 .. Len(o) : o[k] = OracleCall(CallOf(g[i]))
      BY <1>2, <3>1 DEF Recorded
    <3>3. k \in 1 .. Len(op) /\ op[k] = o[k]
      BY <1>1
    <3>4. QED
      BY <3>1, <3>2, <3>3
  <2>2. CASE i > Len(g)
    <3>1. PICK m \in 1 .. Len(h) : i = Len(g) + m
      <4>1. i - Len(g) \in 1 .. Len(h) /\ i = Len(g) + (i - Len(g))
        BY <1>1, <2>2
      <4>2. QED
        BY <4>1
    <3>2. gh[i] = h[m]
      BY <1>1, <3>1
    <3>3. PICK k \in 1 .. Len(p) : p[k] = OracleCall(CallOf(h[m]))
      BY <1>2, <3>2 DEF Recorded
    <3>4. Len(o) + k \in 1 .. Len(op) /\ op[Len(o) + k] = p[k]
      BY <1>1
    <3>5. QED
      BY <3>2, <3>3, <3>4
  <2>3. QED
    BY <1>1, <2>1, <2>2
<1>3. QED
  BY <1>1, <1>2 DEF Recorded, gh, op

LEMMA CompletedTrace ==
  ASSUME Recorded(history, oracle), RoundsRecorded, Completed
  PROVE  Trace' = Trace \o history /\ Oracles' = Oracles \o oracle
<1> DEFINE R == [history : Seq(Event), oracle : Seq(OracleEntry)]
           r == [history |-> history, oracle |-> oracle]
           H(rs) == [i \in DOMAIN rs |-> rs[i].history]
           O(rs) == [i \in DOMAIN rs |-> rs[i].oracle]
<1>1. r \in R /\ r.history = history /\ r.oracle = oracle
  BY DEF Recorded
<1>2. rounds \in Seq(R) /\ rounds' = Append(rounds, r)
  BY DEF RoundsRecorded, Completed
<1>3. \A rec \in R : rec.history \in Seq(Event) /\ rec.oracle \in Seq(OracleEntry)
  OBVIOUS
<1>4. history \in Seq(Event) /\ oracle \in Seq(OracleEntry)
  BY DEF Recorded
<1> HIDE DEF R, r
<1>5. H(rounds) \in Seq(Seq(Event)) /\ O(rounds) \in Seq(Seq(OracleEntry))
  <2>1. \A i \in 1 .. Len(rounds) : rounds[i] \in R
    BY <1>2
  <2>2. /\ \A i \in 1 .. Len(rounds) : rounds[i].history \in Seq(Event)
        /\ \A i \in 1 .. Len(rounds) : rounds[i].oracle \in Seq(OracleEntry)
    BY <1>3, <2>1
  <2>3. DOMAIN rounds = 1 .. Len(rounds) /\ Len(rounds) \in Nat
    BY <1>2
  <2>4. /\ H(rounds) = [i \in 1 .. Len(rounds) |-> rounds[i].history]
        /\ O(rounds) = [i \in 1 .. Len(rounds) |-> rounds[i].oracle]
    BY <2>3
  <2> HIDE DEF H, O
  <2>5. QED
    BY <2>2, <2>3, <2>4
<1>6. H(rounds') = Append(H(rounds), history)
  <2>1. /\ Len(rounds) \in Nat /\ DOMAIN rounds' = 1 .. Len(rounds) + 1
        /\ DOMAIN rounds = 1 .. Len(rounds)
        /\ \A i \in 1 .. Len(rounds) : rounds'[i] = rounds[i]
        /\ rounds'[Len(rounds) + 1] = r
    BY <1>1, <1>2
  <2>2. QED
    BY <1>1, <1>4, <1>5, <2>1
<1>7. O(rounds') = Append(O(rounds), oracle)
  <2>1. /\ Len(rounds) \in Nat /\ DOMAIN rounds' = 1 .. Len(rounds) + 1
        /\ DOMAIN rounds = 1 .. Len(rounds)
        /\ \A i \in 1 .. Len(rounds) : rounds'[i] = rounds[i]
        /\ rounds'[Len(rounds) + 1] = r
    BY <1>1, <1>2
  <2>2. QED
    BY <1>1, <1>4, <1>5, <2>1
<1> HIDE DEF H, O
<1>8. FlattenSeq(H(rounds')) = FlattenSeq(H(rounds)) \o history
  BY <1>4, <1>5, <1>6, FlattenAppend
<1>9. FlattenSeq(O(rounds')) = FlattenSeq(O(rounds)) \o oracle
  BY <1>4, <1>5, <1>7, FlattenAppend
<1>10. QED
  BY <1>8, <1>9 DEF Trace, Oracles, H, O

LEMMA EmptyTrace ==
  /\ rounds = << >> => Trace = << >> /\ Oracles = << >>
  /\ rounds' = << >> => Trace' = << >> /\ Oracles' = << >>
<1>1. \A rs : rs = << >> => /\ [i \in DOMAIN rs |-> rs[i].history] = << >>
                           /\ [i \in DOMAIN rs |-> rs[i].oracle] = << >>
  OBVIOUS
<1>2. QED
  BY <1>1, FlattenEmpty DEF Trace, Oracles

LEMMA InitTInv == InitConversation => TInv
<1> SUFFICES ASSUME InitConversation
             PROVE  TInv
  OBVIOUS
<1>1. /\ rounds = << >> /\ history = << >> /\ prior = << >>
      /\ Trace = << >> /\ Oracles = << >>
  BY EmptyTrace DEF InitConversation, InitRound
<1>2. TraceRecorded /\ PriorIsTrace
  BY <1>1, EmptyRecorded DEF TraceRecorded, PriorIsTrace
<1>3. NoRepeatAcrossRounds
  BY <1>1 DEF NoRepeatAcrossRounds, NoRepeatIn
<1>4. QED
  BY <1>2, <1>3 DEF TInv

LEMMA InRoundTInv ==
  ASSUME IInv, TInv, InRound
  PROVE  TInv'
<1>1. /\ stage = "round" /\ stage' = "round" /\ rounds' = rounds /\ [Next]_roundVars
      /\ prior = Trace
  BY DEF InRound, Next, TInv, PriorIsTrace
<1>2. Trace' = Trace /\ Oracles' = Oracles
  BY <1>1 DEF Trace, Oracles
<1>3. /\ prior' = prior
      /\ \/ history' = history
         \/ \E e \in Event :
              /\ history' = Append(history, e)
              /\ e.via = "action" => ~ RepeatsWithoutProgress(prior \o history, CallOf(e))
  BY <1>1, HistoryStep
<1>4. NoRepeatAcrossRounds'
  <2>1. CASE history' = history
    BY <1>1, <1>2, <2>1 DEF NoRepeatAcrossRounds, TInv
  <2>2. ASSUME NEW e \in Event, history' = Append(history, e),
               e.via = "action" => ~ RepeatsWithoutProgress(prior \o history, CallOf(e))
        PROVE  NoRepeatAcrossRounds'
    <3>1. Trace \in Seq(Event) /\ history \in Seq(Event)
      BY DEF IInv, TInv, TraceRecorded, Recorded
    <3>2. /\ Trace \o history \in Seq(Event)
          /\ Trace \o Append(history, e) = Append(Trace \o history, e)
      BY <3>1
    <3>3. NoRepeatIn(Trace \o history, 1)
      BY <1>1 DEF NoRepeatAcrossRounds, TInv
    <3>4. NoRepeatIn(Append(Trace \o history, e), 1)
      <4>1. e.via = "action" => ~ RepeatsWithoutProgress(Trace \o history, CallOf(e))
        BY <1>1, <2>2
      <4>2. 1 \in Nat \ {0}
        OBVIOUS
      <4>3. QED
        BY <3>2, <3>3, <4>1, <4>2, RepeatAppended
    <3>5. QED
      BY <1>2, <2>2, <3>2, <3>4 DEF NoRepeatAcrossRounds
  <2>3. QED
    BY <1>3, <2>1, <2>2
<1>5. QED
  BY <1>1, <1>2, <1>3, <1>4 DEF TInv, TraceRecorded, PriorIsTrace

LEMMA RetryTInv ==
  ASSUME Retry
  PROVE  TInv'
<1>1. rounds' = << >> /\ history' = << >> /\ prior' = << >>
  BY DEF Retry, BeginRound
<1>2. Trace' = << >> /\ Oracles' = << >>
  BY <1>1, EmptyTrace
<1>3. NoRepeatAcrossRounds'
  BY <1>1, <1>2 DEF NoRepeatAcrossRounds, NoRepeatIn
<1>4. QED
  BY <1>1, <1>2, <1>3, EmptyRecorded DEF TInv, TraceRecorded, PriorIsTrace

LEMMA ContinueTInv ==
  ASSUME IInv, TInv, ConversationContinues
  PROVE  TInv'
<1>1. Completed /\ stage = "round" /\ prior' = Trace' /\ history' = << >>
  BY DEF ConversationContinues, Completed, RoundOver, BeginRound
<1>2. Trace' = Trace \o history /\ Oracles' = Oracles \o oracle
  BY <1>1, CompletedTrace DEF IInv
<1>3. Recorded(Trace, Oracles) /\ Recorded(history, oracle)
  BY DEF IInv, TInv, TraceRecorded
<1>4. TraceRecorded'
  BY <1>2, <1>3, RecordedJoined DEF TraceRecorded
<1>5. Trace' \o history' = Trace \o history
  <2>1. Trace \in Seq(Event) /\ history \in Seq(Event)
    BY <1>3 DEF Recorded
  <2>2. Trace \o history \in Seq(Event)
    BY <2>1
  <2>3. \A s \in Seq(Event) : s \o << >> = s
    OBVIOUS
  <2>4. QED
    BY <1>1, <1>2, <2>2, <2>3
<1>6. NoRepeatIn(Trace \o history, 1)
  BY <1>1 DEF NoRepeatAcrossRounds, TInv
<1>7. NoRepeatAcrossRounds'
  BY <1>5, <1>6 DEF NoRepeatAcrossRounds
<1>8. QED
  BY <1>1, <1>4, <1>7 DEF TInv, PriorIsTrace

LEMMA NextTInv == IInv /\ TInv /\ [NextConversation]_vars => TInv'
<1> SUFFICES ASSUME IInv, TInv, [NextConversation]_vars
             PROVE  TInv'
  OBVIOUS
<1>1. CASE InRound
  BY <1>1, InRoundTInv
<1>2. CASE ConversationContinues
  BY <1>2, ContinueTInv
<1>3. CASE UNCHANGED rounds /\ stage' # "round"
  <2>1. Trace' = Trace /\ Oracles' = Oracles
    BY <1>3 DEF Trace, Oracles
  <2>2. QED
    BY <1>3, <2>1 DEF TInv, TraceRecorded, PriorIsTrace, NoRepeatAcrossRounds
<1>4. CASE RoundRaises \/ LaterGateRaises \/ Validated \/ Accept \/ Returned
  BY <1>3, <1>4 DEF RoundRaises, LaterGateRaises, Validated, Accept, Returned, Return, vars
<1>5. CASE ZeroToolFails \/ EarlyGateRejects \/ LaterGateRejects
  <2>1. Exhausted => UNCHANGED rounds /\ stage' # "round"
    BY DEF Exhausted, Return
  <2>2. Retry \/ Exhausted
    BY <1>5 DEF ZeroToolFails, EarlyGateRejects, LaterGateRejects
  <2>3. QED
    BY <1>3, <2>1, <2>2, RetryTInv
<1>6. CASE ConversationStops \/ ConversationEnds \/ ContinuationRaises
  <2>1. Completed /\ stage' # "round"
    BY <1>6 DEF ConversationStops, ConversationEnds, ContinuationRaises, Return
  <2>2. Trace' = Trace \o history /\ Oracles' = Oracles \o oracle
    BY <2>1, CompletedTrace DEF IInv
  <2>3. TraceRecorded'
    BY <2>2, RecordedJoined DEF IInv, TInv, TraceRecorded
  <2>4. QED
    BY <2>1, <2>3 DEF TInv, PriorIsTrace, NoRepeatAcrossRounds
<1>7. CASE UNCHANGED vars
  BY <1>7 DEF vars, roundVars, inputs, TInv, TraceRecorded, PriorIsTrace, NoRepeatAcrossRounds,
     Trace, Oracles
<1>8. QED
  BY <1>1, <1>2, <1>4, <1>5, <1>6, <1>7 DEF NextConversation, Proceed

THEOREM TraceInvariance == ConversationSpec => []TInv
<1>1. QED
  BY InitTInv, NextTInv, Invariance, PTL DEF ConversationSpec

(* Over all rounds of a conversation the teacher makes no call again whose *)
(* answer cannot have changed: a round is given the whole trace before it  *)
(* (conversation_runner.py).                                               *)
THEOREM NeverRepeatsAcross == ConversationSpec => []NoRepeatAcrossRounds
<1>1. TInv => NoRepeatAcrossRounds
  BY DEF TInv
<1>2. QED
  BY <1>1, TraceInvariance, PTL

(* An accepted conversation that reports an error, or lacks the function   *)
(* it needs, executed no mutation: the gates read the oracle calls, which  *)
(* hold every success of the trace (candidate_trace_validation.py).        *)
THEOREM ErrorChangedNothing == ConversationSpec => []AcceptedErrorChangedNothing
<1>1. IInv /\ TInv => AcceptedErrorChangedNothing
  <2> SUFFICES ASSUME IInv, TInv, stage = "accepted",
                      missing \/ TerminalOf(Oracles) = "report_error",
                      Mutated(Trace)
               PROVE  FALSE
    BY DEF AcceptedErrorChangedNothing
  <2>1. ~ EarlyRejects
    BY DEF IInv, PastTheGate
  <2>2. PICK i \in 1 .. Len(Trace) : Trace[i].success /\ Trace[i].tool \in Mutating
    BY DEF Mutated, TInv, TraceRecorded, Recorded
  <2>3. OracleCall(CallOf(Trace[i])) \in RealCalls(Oracles)
    BY <2>2, SuccessIsRealCall DEF TInv, TraceRecorded
  <2>4. OracleCall(CallOf(Trace[i])).call.tool \in Mutating
    BY <2>2 DEF OracleCall, CallOf
  <2>5. CASE missing
    BY <2>1, <2>3, <2>4, <2>5 DEF EarlyRejects, MissingFunctionBroken
  <2>6. CASE ~ missing /\ TerminalOf(Oracles) = "report_error"
    <3>1. RealCalls(Oracles) # {}
      BY <2>3
    <3>2. Scenario \in {"tool_error_recovery", "partial_completion_or_abstention"}
      BY <2>6, <3>1 DEF Scenario
    <3>3. QED
      BY <2>1, <2>6, <3>2 DEF EarlyRejects, HallucinatedError
  <2>7. QED
    BY <2>5, <2>6
<1>2. QED
  BY <1>1, Invariance, TraceInvariance, PTL

(***************************************************************************)
(* The candidate's walk through its rounds, stages and attempts.           *)
(***************************************************************************)
(* A round that ended with a terminal action has it last in its oracle,    *)
(* and leaves the FSM where a continuation may follow.                     *)
EndRecorded ==
  outcome \in Terminals =>
    /\ phase = "ended"
    /\ oracle # << >> /\ oracle[Len(oracle)] = OracleEnd(outcome)
    /\ stage = "round" => fsm = "response"

(* The manager holds the candidate's session as long as generate_one works. *)
HeldWhileWorking == open <=> stage \in {"round", "validate", "replay"}

Stages ==
  /\ stage # "round" => phase = "ended"
  /\ stage = "round" => Len(rounds) = round
  /\ round \in 0 .. MaxRounds - 1
  /\ HeldWhileWorking

WInv == ConversationTypeOK /\ RoundInv /\ EndRecorded /\ Stages

StageRank(s) ==
  CASE s = "round" -> 0 [] s = "validate" -> 1 [] s = "replay" -> 2 [] OTHER -> 3

(* What a step of generate_one leaves is later in the candidate's walk:    *)
(* the next attempt, else the next stage, else the next round, else a      *)
(* step of the round, which spends what a round has.  All of it is         *)
(* bounded, so a candidate takes only so many steps.                       *)
CandidateProgress ==
  [][Proceed =>
       /\ attempt' < Attempts /\ round' < MaxRounds /\ Remaining' >= 0
       /\ \/ attempt < attempt'
          \/ attempt' = attempt /\ StageRank(stage) < StageRank(stage')
          \/ attempt' = attempt /\ stage' = stage /\ round < round'
          \/ attempt' = attempt /\ stage' = stage /\ round' = round /\ Remaining' < Remaining]_vars

(* How the end of a round is recorded: by the teacher's terminal action or *)
(* by a report_error of the loop.                                          *)
LEMMA InRoundEndRecorded ==
  ASSUME RoundInv, NextInRound, stage' = stage
  PROVE  EndRecorded'
<1>1. /\ TypeOK /\ CountersOpen /\ FsmOfPhase /\ oracle \in Seq(OracleEntry)
      /\ fsmRaised = FALSE
  BY DEF RoundInv, TypeOK, FsmNeverRaises
<1>2. ASSUME NEW a \in Terminals, oracle' = Append(oracle, OracleEnd(a)), outcome' = a,
             phase' = "ended", fsm' = "response"
      PROVE  EndRecorded'
  <2>1. OracleEnd(a) \in OracleEntry
    BY EntriesOfOracle
  <2>2. oracle' # << >> /\ oracle'[Len(oracle')] = OracleEnd(a)
    BY <1>1, <1>2, <2>1, Appended
  <2>3. QED
    BY <1>2, <2>2 DEF EndRecorded
<1>3. ASSUME NEW a \in Terminals, TeacherEnds(a)
      PROVE  EndRecorded'
  <2>1. fsm' = "response"
    BY <1>1, <1>3, PathOfTwo DEF TeacherEnds, Deciding, FsmOfPhase, LegalEdges
  <2>2. QED
    BY <1>2, <1>3, <2>1 DEF TeacherEnds, End
<1>4. ASSUME RecoveryGivesUp \/ RecoveryOverBudget \/ RecoveryExhausted
      PROVE  EndRecorded'
  <2>1. PICK p \in {<< "response" >>, << "tool_execution", "response" >>} : ReportError(p)
    BY <1>4 DEF RecoveryGivesUp, RecoveryOverBudget, RecoveryExhausted
  <2>2. p[Len(p)] = "response"
    OBVIOUS
  <2>3. fsm' = "response"
    BY <2>1, <2>2 DEF ReportError, Transition
  <2>4. "report_error" \in Terminals
    BY DEF Terminals
  <2>5. QED
    BY <1>2, <2>1, <2>3, <2>4 DEF ReportError, End
<1>5. ASSUME outcome' \notin Terminals
      PROVE  EndRecorded'
  BY <1>5 DEF EndRecorded
<1>6. phase # "ended" => outcome \notin Terminals
  BY <1>1 DEF CountersOpen, Terminals
<1>7. ASSUME \/ DecisionFails \/ FinalAnswerRefused \/ RecoveryMalformed \/ RoundLeftOpen
             \/ \E c \in Call : CallOverBudget(c) \/ DispatchRaises(c)
      PROVE  outcome' \notin Terminals
  BY <1>7 DEF DecisionFails, FinalAnswerRefused, RecoveryMalformed, RoundLeftOpen, CallOverBudget,
     DispatchRaises, End, Terminals
<1>8. ASSUME NEW c \in Call, CallRefused(c)
      PROVE  outcome' \notin Terminals
  <2>1. Refusal(c) \notin Terminals
    BY <1>8 DEF CallRefused, Refusals, Terminals
  <2>2. phase # "ended"
    BY <1>8 DEF CallRefused, Deciding
  <2>3. QED
    BY <1>6, <1>8, <2>1, <2>2 DEF CallRefused, End
<1>9. ASSUME \/ AlternativeRejected
             \/ \E c \in Call : CallSucceeds(c) \/ CallFails(c) \/ RecoverySucceeds(c) \/ RecoveryFails(c)
      PROVE  outcome' \notin Terminals
  BY <1>6, <1>9 DEF AlternativeRejected, CallSucceeds, CallFails, RecoverySucceeds, RecoveryFails,
     Deciding, Recovering, AfterProgress
<1>10. QED
  BY <1>3, <1>4, <1>5, <1>7, <1>8, <1>9 DEF NextInRound

(* Every round starts like the first one, whatever happened before.        *)
LEMMA BeginSound ==
  ASSUME RoundInv, NEW r \in Nat, NEW h \in Seq(Event), NEW auth \in SUBSET Tools,
         BeginRound(r, h, auth), fsm' = "turn", fsmRaised' = FALSE, session' = "active"
  PROVE  /\ RoundInv' /\ EndRecorded'
         /\ phase' = "decide" /\ round' = r
<1>1. /\ cap' \in Nat /\ missing' \in BOOLEAN /\ budget' \in Nat \ {0}
  BY BudgetAssumption, AttemptsAssumption DEF RoundInv, TypeOK, BeginRound
<1>2. /\ round' = r /\ prior' = h /\ authorized' = auth /\ history' = << >> /\ oracle' = << >>
      /\ turn' = 0 /\ dispatched' = 0 /\ rejected' = [why \in Refusals |-> 0]
      /\ recoveries' = 0 /\ phase' = "decide" /\ outcome' = "running"
  BY DEF BeginRound
<1>3. TypeOK'
  <2>1. history' \in Seq(Event) /\ oracle' \in Seq(OracleEntry)
    BY <1>2
  <2>2. rejected' \in [Refusals -> 0 .. 3]
    BY <1>2
  <2>3. /\ fsm' \in StateGroups /\ fsmRaised' \in BOOLEAN /\ session' \in {"active", "poisoned"}
        /\ phase' \in {"decide", "recover", "capped", "ended"}
        /\ outcome' \in {"running"} \cup Terminals \cup Failures
    BY <1>2 DEF StateGroups
  <2>4. dispatched' \in 0 .. budget' /\ turn' \in Nat /\ recoveries' \in 0 .. 3
    BY <1>1, <1>2
  <2>5. round' \in Nat /\ prior' \in Seq(Event) /\ authorized' \subseteq Tools
    BY <1>2
  <2>6. QED
    BY <1>1, <2>1, <2>2, <2>3, <2>4, <2>5 DEF TypeOK
<1>4. FsmNeverRaises' /\ FsmOfPhase' /\ CapReached'
  BY <1>2 DEF FsmNeverRaises, FsmOfPhase, CapReached
<1>5. CountersOpen'
  BY <1>2 DEF CountersOpen
<1>6. /\ OnlyTheCapLeavesOpen' /\ PoisonedInRecovery' /\ UnknownCommitNeverAnswered'
      /\ FailureEntersRecovery'
  BY <1>2 DEF OnlyTheCapLeavesOpen, PoisonedInRecovery, UnknownCommitNeverAnswered,
     FailureEntersRecovery
<1>7. EndRecorded'
  BY <1>2 DEF EndRecorded, Terminals
<1>8. QED
  BY <1>2, <1>3, <1>4, <1>5, <1>6, <1>7 DEF RoundInv

(* After a round that ended, the FSM may go on by a legal path.            *)
LEMMA FsmMovesOn ==
  ASSUME RoundInv, phase = "ended", fsm' \in StateGroups, fsmRaised' = FALSE,
         UNCHANGED << inputs, recoveries, history, oracle, turn, dispatched, rejected, session,
                      phase, outcome >>
  PROVE  RoundInv'
BY DEF RoundInv, TypeOK, FsmNeverRaises, FsmOfPhase, CountersOpen, CapReached, inputs,
   OnlyTheCapLeavesOpen, PoisonedInRecovery, UnknownCommitNeverAnswered, FailureEntersRecovery

LEMMA InitWInv == InitConversation => WInv
<1> SUFFICES ASSUME InitConversation
             PROVE  WInv
  OBVIOUS
<1>1. Init
  BY DEF InitConversation, Init
<1>2. RoundInv
  BY <1>1, InitRoundInv
<1>3. /\ rounds = << >> /\ round = 0 /\ stage = "round" /\ open = TRUE /\ outcome = "running"
      /\ attempt = 0 /\ baseline \in BOOLEAN /\ difficulty \in Difficulties /\ chain \in Chains
  BY DEF InitConversation, InitRound
<1>4. ConversationTypeOK
  BY <1>2, <1>3, AttemptsAssumption DEF ConversationTypeOK, RoundInv, MaxRounds
<1>5. EndRecorded /\ Stages
  BY <1>3 DEF EndRecorded, Stages, HeldWhileWorking, Terminals, MaxRounds
<1>6. QED
  BY <1>2, <1>4, <1>5 DEF WInv

LEMMA RoundKept ==
  ASSUME InRound
  PROVE  round' = round
BY DEF InRound, NextInRound, DecisionFails, TeacherEnds, FinalAnswerRefused, CallOverBudget,
   CallRefused, CallSucceeds, CallFails, RecoveryGivesUp, RecoveryOverBudget, RecoveryExhausted,
   AlternativeRejected, RecoveryMalformed, RecoverySucceeds, RecoveryFails, DispatchRaises,
   RoundLeftOpen, ReportError, inputs

LEMMA InRoundWInv ==
  ASSUME WInv, InRound
  PROVE  WInv'
<1>1. /\ stage = "round" /\ NextInRound
      /\ UNCHANGED << baseline, difficulty, chain, rounds, attempt, stage, open >>
  BY DEF InRound, profile
<1>2. RoundInv'
  BY <1>1, StepRoundInv DEF WInv, Next
<1>3. EndRecorded'
  BY <1>1, InRoundEndRecorded DEF WInv
<1>4. ConversationTypeOK'
  BY <1>1, <1>2 DEF WInv, ConversationTypeOK, RoundInv
<1>5. round' = round
  BY RoundKept
<1>6. Stages'
  BY <1>1, <1>5 DEF WInv, Stages, HeldWhileWorking
<1>7. QED
  BY <1>2, <1>3, <1>4, <1>6 DEF WInv

(* What a round that completed without stopping the conversation leaves.   *)
LEMMA CompletedSound ==
  ASSUME WInv, IInv, Completed
  PROVE  /\ stage = "round" /\ phase = "ended" /\ fsm = "response" /\ fsmRaised = FALSE
         /\ Len(rounds') = round + 1 /\ round \in 0 .. 2 /\ Len(rounds') <= MaxRounds
         /\ ~ Stops => session = "active"
<1>1. stage = "round" /\ phase = "ended" /\ outcome \in Terminals
  BY DEF Completed, RoundOver
<1>2. /\ oracle # << >> /\ oracle[Len(oracle)] = OracleEnd(outcome) /\ fsm = "response"
      /\ Len(rounds) = round /\ round \in 0 .. 2
      /\ oracle \in Seq(OracleEntry) /\ session \in {"active", "poisoned"} /\ fsmRaised = FALSE
  BY <1>1 DEF WInv, EndRecorded, Stages, RoundInv, TypeOK, FsmNeverRaises, MaxRounds
<1>3. Len(rounds') = Len(rounds) + 1
  <2> DEFINE R == [history : Seq(Event), oracle : Seq(OracleEntry)]
             r == [history |-> history, oracle |-> oracle]
  <2>1. r \in R
    BY DEF IInv, Recorded
  <2>2. rounds \in Seq(R) /\ rounds' = Append(rounds, r)
    BY DEF IInv, RoundsRecorded, Completed
  <2> HIDE DEF R, r
  <2>3. QED
    BY <2>1, <2>2
<1>4. ASSUME ~ Stops
      PROVE  session = "active"
  <2>1. Len(oracle) \in DOMAIN oracle
    BY <1>2
  <2>2. oracle[Len(oracle)].action = outcome
    BY <1>2 DEF OracleEnd
  <2>3. outcome \notin {"ask_clarification", "report_error"}
    BY <1>4, <2>1, <2>2 DEF Stops, Abstains
  <2>4. outcome = "final_answer"
    BY <1>1, <2>3 DEF Terminals
  <2>5. QED
    BY <1>2, <2>4 DEF WInv, RoundInv, UnknownCommitNeverAnswered
<1>5. Len(rounds') = round + 1 /\ Len(rounds') <= 3
  BY <1>2, <1>3
<1>6. QED
  BY <1>1, <1>2, <1>4, <1>5 DEF MaxRounds

LEMMA ContinueWInv ==
  ASSUME WInv, IInv, TInv', ConversationContinues
  PROVE  WInv' /\ round' = round + 1
<1>1. /\ Completed /\ ~ Stops /\ Len(rounds') < MaxRounds
      /\ BeginRound(Len(rounds'), Trace', Tools)
      /\ Transition(<< "continuation", "query", "turn" >>)
      /\ UNCHANGED << baseline, difficulty, chain, attempt, stage, open, session >>
  BY DEF ConversationContinues, profile
<1>2. /\ stage = "round" /\ phase = "ended" /\ fsm = "response" /\ fsmRaised = FALSE
      /\ Len(rounds') = round + 1 /\ session = "active" /\ round \in 0 .. 2
  BY <1>1, CompletedSound
<1>3. fsm' = "turn" /\ fsmRaised' = FALSE
  BY <1>1, <1>2, PathOfThree DEF LegalEdges, Transition
<1>4. Trace' \in Seq(Event)
  BY DEF TInv, TraceRecorded, Recorded
<1>5. round + 1 \in Nat /\ session' = "active" /\ BeginRound(round + 1, Trace', Tools)
  BY <1>1, <1>2
<1>6. RoundInv' /\ EndRecorded' /\ phase' = "decide" /\ round' = round + 1
  BY <1>3, <1>4, <1>5, BeginSound DEF WInv
<1>7. Stages'
  BY <1>1, <1>2, <1>6 DEF Stages, HeldWhileWorking, WInv, MaxRounds
<1>8. ConversationTypeOK'
  BY <1>1, <1>2, <1>6 DEF WInv, ConversationTypeOK, RoundInv, MaxRounds
<1>9. QED
  BY <1>6, <1>7, <1>8 DEF WInv

LEMMA RetryWInv ==
  ASSUME WInv, Retry
  PROVE  WInv' /\ attempt' = attempt + 1 /\ attempt' < Attempts
<1>1. /\ attempt' = attempt + 1 /\ attempt + 1 < Attempts /\ chain' \in Chains
      /\ BeginRound(0, << >>, chain') /\ session' = "active" /\ fsm' = "turn"
      /\ fsmRaised' = fsmRaised /\ rounds' = << >> /\ stage' = "round" /\ open' = TRUE
      /\ UNCHANGED << baseline, difficulty >>
  BY DEF Retry, profile
<1>2. /\ fsmRaised' = FALSE /\ << >> \in Seq(Event) /\ chain' \in SUBSET Tools
      /\ attempt \in 0 .. Attempts - 1 /\ Attempts \in Nat
  BY <1>1, ToolsAssumption, AttemptsAssumption DEF WInv, RoundInv, FsmNeverRaises,
     ConversationTypeOK
<1>3. RoundInv' /\ EndRecorded' /\ phase' = "decide" /\ round' = 0
  BY <1>1, <1>2, BeginSound DEF WInv
<1>4. Stages'
  BY <1>1, <1>3 DEF Stages, HeldWhileWorking, MaxRounds
<1>5. ConversationTypeOK'
  BY <1>1, <1>2, <1>3 DEF WInv, ConversationTypeOK, RoundInv, MaxRounds
<1>6. QED
  BY <1>1, <1>3, <1>4, <1>5 DEF WInv

(* A step that leaves the round as it is and goes on to a later stage.     *)
LEMMA StageWInv ==
  ASSUME WInv, UNCHANGED << roundVars, baseline, difficulty, chain, attempt >>,
         phase = "ended", Len(rounds') <= MaxRounds,
         stage' \in {"validate", "replay", "accepted", "rejected", "raised"},
         open' \in BOOLEAN, open' <=> stage' \in {"validate", "replay"}
  PROVE  WInv'
<1>1. RoundInv'
  BY StepRoundInv DEF WInv
<1>2. EndRecorded'
  BY DEF WInv, EndRecorded, roundVars
<1>3. Stages'
  BY DEF WInv, Stages, HeldWhileWorking, roundVars, inputs
<1>4. ConversationTypeOK'
  BY <1>1 DEF WInv, ConversationTypeOK, RoundInv
<1>5. QED
  BY <1>1, <1>2, <1>3, <1>4 DEF WInv

(* The FSM goes on, and the conversation with it ends.                     *)
LEMMA LastTransitionWInv ==
  ASSUME WInv, IInv, ConversationEnds \/ ContinuationRaises
  PROVE  WInv'
<1>1. /\ Completed
      /\ UNCHANGED << baseline, difficulty, chain, attempt >>
      /\ UNCHANGED << inputs, recoveries, history, oracle, turn, dispatched, rejected, session,
                      phase, outcome >>
      /\ \/ Transition(<< "continuation", "continuation" >>) /\ stage' = "validate" /\ open' = open
         \/ Transition(<< "continuation", "query" >>) /\ stage' = "raised" /\ open' = FALSE
  BY DEF ConversationEnds, ContinuationRaises, Return, profile
<1>2. /\ stage = "round" /\ phase = "ended" /\ fsm = "response" /\ fsmRaised = FALSE
      /\ Len(rounds') <= MaxRounds /\ round \in 0 .. 2 /\ open = TRUE
  BY <1>1, CompletedSound DEF WInv, ConversationTypeOK, Stages, HeldWhileWorking
<1>3. fsm' \in {"continuation", "query"} /\ fsmRaised' = FALSE
  BY <1>1, <1>2, PathOfTwo DEF LegalEdges, Transition
<1>4. RoundInv'
  BY <1>1, <1>2, <1>3, FsmMovesOn DEF WInv, StateGroups
<1>5. EndRecorded'
  BY <1>1 DEF WInv, EndRecorded
<1>6. Stages'
  <2>1. phase' = "ended" /\ stage' # "round" /\ round' \in 0 .. 2
    BY <1>1, <1>2 DEF inputs
  <2>2. open' <=> stage' \in {"round", "validate", "replay"}
    BY <1>1, <1>2
  <2>3. QED
    BY <2>1, <2>2 DEF Stages, HeldWhileWorking, MaxRounds
<1>7. open' \in BOOLEAN /\ stage' \in {"validate", "raised"}
  BY <1>1, <1>2
<1>8. ConversationTypeOK'
  BY <1>1, <1>2, <1>4, <1>7 DEF WInv, ConversationTypeOK, RoundInv
<1>9. QED
  BY <1>4, <1>5, <1>6, <1>8 DEF WInv

LEMMA ExhaustedWInv ==
  ASSUME WInv, Exhausted, phase = "ended"
  PROVE  WInv' /\ stage' = "rejected" /\ UNCHANGED << roundVars, attempt >>
<1>1. /\ UNCHANGED << roundVars, baseline, difficulty, chain, rounds, attempt >>
      /\ stage' = "rejected" /\ open' = FALSE
  BY DEF Exhausted, Return, profile
<1>2. Len(rounds') <= MaxRounds
  BY <1>1 DEF WInv, ConversationTypeOK
<1>3. QED
  BY <1>1, <1>2, StageWInv

LEMMA StageRanks ==
  ASSUME stage \in {"round", "validate", "replay"},
         \/ stage' \in {"accepted", "rejected", "raised"}
         \/ stage = "round" /\ stage' \in {"validate", "replay"}
         \/ stage = "validate" /\ stage' = "replay"
  PROVE  StageRank(stage) < StageRank(stage')
<1>1. PICK s, t : s = stage /\ t = stage'
  OBVIOUS
<1>2. StageRank(s) < StageRank(t)
  BY <1>1 DEF StageRank
<1>3. QED
  BY <1>1, <1>2

(* A step that ends the round's stage or a later one, other than by a      *)
(* retry, keeps the rounds and goes on to a later stage.                   *)
LEMMA LaterStage ==
  ASSUME WInv, RoundRaises \/ Validated \/ LaterGateRaises \/ Accept
  PROVE  /\ WInv' /\ UNCHANGED << roundVars, attempt >>
         /\ StageRank(stage) < StageRank(stage')
<1>1. /\ UNCHANGED << roundVars, baseline, difficulty, chain, rounds, attempt >>
      /\ phase = "ended"
      /\ \/ stage = "validate" /\ stage' = "replay" /\ open' = open
         \/ stage \in {"round", "validate", "replay"} /\ stage' = "raised" /\ open' = FALSE
         \/ stage = "replay" /\ stage' = "accepted" /\ open' = FALSE
  BY DEF RoundRaises, Validated, LaterGateRaises, Accept, Return, RoundOver, profile, WInv, Stages
<1>2. Len(rounds') <= MaxRounds /\ open \in BOOLEAN /\ (stage = "validate" => open)
  BY <1>1 DEF WInv, ConversationTypeOK, Stages, HeldWhileWorking
<1>3. WInv'
  BY <1>1, <1>2, StageWInv
<1>4. StageRank(stage) < StageRank(stage')
  BY <1>1, StageRanks
<1>5. QED
  BY <1>1, <1>3, <1>4

LEMMA StopsWInv ==
  ASSUME WInv, IInv, ConversationStops
  PROVE  WInv'
<1>1. /\ Completed /\ stage' = "validate"
      /\ UNCHANGED << roundVars, baseline, difficulty, chain, attempt, open >>
  BY DEF ConversationStops, profile
<1>2. phase = "ended" /\ stage = "round" /\ Len(rounds') <= MaxRounds
  BY <1>1, CompletedSound
<1>3. open = TRUE
  BY <1>2 DEF WInv, ConversationTypeOK, Stages, HeldWhileWorking
<1>4. QED
  BY <1>1, <1>2, <1>3, StageWInv

(* A gate that rejects retries or ends the candidate.                      *)
LEMMA RejectedAfterRound ==
  ASSUME WInv, ZeroToolFails \/ EarlyGateRejects \/ LaterGateRejects
  PROVE  /\ Retry \/ Exhausted
         /\ phase = "ended" /\ stage \in {"round", "validate", "replay"}
BY DEF ZeroToolFails, EarlyGateRejects, LaterGateRejects, RoundOver, WInv, Stages

LEMMA NextWInv == WInv /\ IInv /\ TInv' /\ [NextConversation]_vars => WInv'
<1> SUFFICES ASSUME WInv, IInv, TInv', [NextConversation]_vars
             PROVE  WInv'
  OBVIOUS
<1>1. CASE InRound
  BY <1>1, InRoundWInv
<1>2. CASE RoundRaises \/ Validated \/ LaterGateRaises \/ Accept
  BY <1>2, LaterStage
<1>3. CASE ZeroToolFails \/ EarlyGateRejects \/ LaterGateRejects
  BY <1>3, RejectedAfterRound, RetryWInv, ExhaustedWInv
<1>4. CASE ConversationStops
  BY <1>4, StopsWInv
<1>5. CASE ConversationEnds \/ ContinuationRaises
  BY <1>5, LastTransitionWInv
<1>6. CASE ConversationContinues
  BY <1>6, ContinueWInv
<1>7. CASE UNCHANGED vars
  <2>1. UNCHANGED << roundVars, baseline, difficulty, chain, rounds, attempt, stage, open >>
    BY <1>7 DEF vars, profile
  <2>2. RoundInv'
    BY <2>1, StepRoundInv DEF WInv
  <2>3. EndRecorded' /\ Stages'
    BY <2>1 DEF WInv, EndRecorded, Stages, HeldWhileWorking, roundVars, inputs
  <2>4. QED
    BY <2>1, <2>2, <2>3 DEF WInv, ConversationTypeOK, RoundInv
<1>8. CASE Returned
  BY <1>7, <1>8 DEF Returned
<1>9. QED
  BY <1>1, <1>2, <1>3, <1>4, <1>5, <1>6, <1>7, <1>8 DEF NextConversation, Proceed

THEOREM WalkInvariance == ConversationSpec => []WInv
<1>1. QED
  BY InitWInv, NextWInv, Invariance, TraceInvariance, PTL DEF ConversationSpec

-----------------------------------------------------------------------------
(* Every variable of a candidate keeps its type, over all of its rounds    *)
(* and attempts: no more rounds than the policy allows, no more attempts   *)
(* than generate_one has (candidate_pipeline.py).                          *)
THEOREM CandidateTypeCorrect == ConversationSpec => []ConversationTypeOK
<1>1. WInv => ConversationTypeOK
  BY DEF WInv
<1>2. QED
  BY <1>1, WalkInvariance, PTL

(* The FSM never refuses an edge over a whole conversation, the edges      *)
(* through continuation and the fresh start of a retry included.           *)
THEOREM ConversationFsmLegal == ConversationSpec => []FsmNeverRaises
<1>1. WInv => FsmNeverRaises
  BY DEF WInv, RoundInv
<1>2. QED
  BY <1>1, WalkInvariance, PTL

(* What holds of a round by itself holds of every round of a conversation, *)
(* whatever budget the later ones have: a terminal action is reserved, a   *)
(* failure enters recovery, and an unknown commit goes no further.         *)
THEOREM EveryRoundSound ==
  ConversationSpec =>
    [](OnlyTheCapLeavesOpen /\ FailureEntersRecovery /\ UnknownCommitNeverAnswered)
<1>1. WInv => OnlyTheCapLeavesOpen /\ FailureEntersRecovery /\ UnknownCommitNeverAnswered
  BY DEF WInv, RoundInv
<1>2. QED
  BY <1>1, WalkInvariance, PTL

(* The manager holds a session of the candidate exactly as long as         *)
(* generate_one works on it: no return of any kind leaves one behind, and  *)
(* no step works without one.                                              *)
THEOREM SessionHeld == ConversationSpec => []HeldWhileWorking
<1>1. WInv => HeldWhileWorking
  BY DEF WInv, Stages
<1>2. QED
  BY <1>1, WalkInvariance, PTL

-----------------------------------------------------------------------------
LEMMA CandidateStep ==
  ASSUME WInv, WInv', IInv, TInv', Proceed
  PROVE  /\ attempt' < Attempts /\ round' < MaxRounds /\ Remaining' >= 0
         /\ \/ attempt < attempt'
            \/ attempt' = attempt /\ StageRank(stage) < StageRank(stage')
            \/ attempt' = attempt /\ stage' = stage /\ round < round'
            \/ attempt' = attempt /\ stage' = stage /\ round' = round /\ Remaining' < Remaining
<1>1. attempt' < Attempts /\ attempt \in Nat
  BY AttemptsAssumption DEF WInv, ConversationTypeOK
<1>2. round' < MaxRounds /\ round \in Nat
  BY DEF WInv, Stages, MaxRounds
<1>3. Remaining' >= 0
  <2>1. TypeOK'
    BY DEF WInv, RoundInv
  <2>2. MeasureOK'
    BY <2>1, MeasuredNext
  <2>3. QED
    BY <2>2 DEF MeasureOK
<1> SUFFICES \/ attempt < attempt'
             \/ attempt' = attempt /\ StageRank(stage) < StageRank(stage')
             \/ attempt' = attempt /\ stage' = stage /\ round < round'
             \/ attempt' = attempt /\ stage' = stage /\ round' = round /\ Remaining' < Remaining
  BY <1>1, <1>2, <1>3
<1>4. CASE InRound
  <2>1. Remaining' < Remaining
    BY <1>4, StepSpends DEF WInv, InRound
  <2>2. attempt' = attempt /\ stage' = stage
    BY <1>4 DEF InRound
  <2>3. round' = round
    BY <1>4, RoundKept
  <2>4. QED
    BY <2>1, <2>2, <2>3
<1>5. CASE RoundRaises \/ Validated \/ LaterGateRaises \/ Accept
  BY <1>5, LaterStage
<1>6. CASE ZeroToolFails \/ EarlyGateRejects \/ LaterGateRejects
  <2>1. (Retry \/ Exhausted) /\ phase = "ended" /\ stage \in {"round", "validate", "replay"}
    BY <1>6, RejectedAfterRound
  <2>2. CASE Retry
    BY <1>1, <2>2 DEF Retry
  <2>3. CASE Exhausted
    <3>1. stage' = "rejected" /\ attempt' = attempt
      BY <2>1, <2>3, ExhaustedWInv
    <3>2. QED
      BY <2>1, <3>1, StageRanks
  <2>4. QED
    BY <2>1, <2>2, <2>3
<1>7. CASE ConversationStops \/ ConversationEnds \/ ContinuationRaises
  <2>1. stage = "round" /\ stage' \in {"validate", "raised"} /\ attempt' = attempt
    BY <1>7 DEF ConversationStops, ConversationEnds, ContinuationRaises, Return, Completed, RoundOver
  <2>2. QED
    BY <2>1, StageRanks
<1>8. CASE ConversationContinues
  <2>1. round' = round + 1 /\ attempt' = attempt /\ stage' = stage
    BY <1>8, ContinueWInv DEF ConversationContinues
  <2>2. QED
    BY <1>2, <2>1
<1>9. QED
  BY <1>4, <1>5, <1>6, <1>7, <1>8 DEF Proceed

(* The safety core of SessionsClosed: every step of generate_one goes on   *)
(* in a bounded order of attempts, stages, rounds and what a round has to  *)
(* spend.                                                                  *)
THEOREM CandidateAdvances == ConversationSpec => CandidateProgress
<1> DEFINE Forward ==
      /\ attempt' < Attempts /\ round' < MaxRounds /\ Remaining' >= 0
      /\ \/ attempt < attempt'
         \/ attempt' = attempt /\ StageRank(stage) < StageRank(stage')
         \/ attempt' = attempt /\ stage' = stage /\ round < round'
         \/ attempt' = attempt /\ stage' = stage /\ round' = round /\ Remaining' < Remaining
<1>1. WInv /\ WInv' /\ IInv /\ TInv' => (Proceed => Forward)
  BY CandidateStep
<1>2. WInv /\ WInv' /\ IInv /\ TInv' /\ [NextConversation]_vars => [Proceed => Forward]_vars
  BY <1>1
<1>3. QED
  BY <1>2, WalkInvariance, Invariance, TraceInvariance, PTL DEF ConversationSpec, CandidateProgress

=============================================================================
