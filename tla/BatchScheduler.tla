----------------------------- MODULE BatchScheduler -----------------------------
(***************************************************************************)
(* One generation request: generate_many (generation/batch.py), with the   *)
(* failure log its callback writes (FailureLog), in a process that may be  *)
(* killed at any moment and started again with the same request.           *)
(*                                                                         *)
(* The candidates of all domains are tried in a fixed order by a pool of   *)
(* workers.  A coordinator submits them, waits for the first to end and    *)
(* collects those that ended: it reads every quota when it submits, while  *)
(* other candidates of the same stratum are in flight.                     *)
(***************************************************************************)
EXTENDS FailureLog, Sequences, SequencesExt

CONSTANTS
  Domains, Levels,     \* the domains and difficulties of the system
  Requests,            \* the arguments of generate_many, with the schedule it computes
  MaxWorkers,          \* LIVEMCP_GENERATION_MAX_WORKERS
  Reasons,             \* the stages and reason codes of a failure
  MaxRuns,             \* bound: starts of the process, for each request
  NoRecord

SpecType == [domain : Domains, difficulty : Levels, seed : Nat]

(* quota: difficulty_quotas_by_domain; schedule: candidate_specs;          *)
(* irrelevant: n_irrelevant; fixed: fixed_attempt_budget.                  *)
ASSUME RequestsAssumption ==
  /\ IsFiniteSet(Domains) /\ IsFiniteSet(Levels) /\ "irrelevance" \notin Domains
  /\ \A r \in Requests :
       /\ r.quota \in [Domains -> [Levels -> Nat]]
       /\ r.schedule \in Seq(SpecType)
       /\ r.irrelevant \in Nat /\ r.fixed \in BOOLEAN
       /\ \A i, j \in DOMAIN r.schedule : r.schedule[i].seed = r.schedule[j].seed => i = j
ASSUME BatchLimitsAssumption == MaxWorkers \in Nat \ {0} /\ MaxRuns \in [Requests -> Nat \ {0}]

VARIABLES
  request,     \* the arguments, one of Requests
  pc,          \* where the coordinator is
  specIndex,   \* spec_index
  candidate,   \* what has become of each candidate
  done,        \* the futures wait returned, as far as they are not collected
  recording,   \* the failure record being appended, and what follows it
  irrelevance, \* the irrelevance candidates: those made, and how many were tried
  runs,        \* starts of the process
  cutOff       \* an append was cut off by a kill or a failing write (history)

coordinator == << pc, specIndex, done, recording, irrelevance >>
process     == << request, runs, cutOff >>
vars == << coordinator, candidate, process, log >>

Specs == request.schedule
Quota == request.quota
Index == 1 .. Len(Specs)
With(states) == {i \in Index : candidate[i] \in states}
Futures == With({"running", "task", "failed"})
Ended   == With({"task", "failed"})
Workers == Min({MaxWorkers, Max({1, Len(Specs)})})

Stratum(d, l)   == {i \in Index : Specs[i].domain = d /\ Specs[i].difficulty = l}
Candidates(d)   == {i \in Index : Specs[i].domain = d}
Ok(d, l)        == Cardinality(Stratum(d, l) \intersect With({"kept"}))
DomainOk(d)     == Cardinality(Candidates(d) \intersect With({"kept"}))
DomainFailed(d) == Cardinality(Candidates(d) \intersect With({"rejected"}))
DomainQuota(d)  == FoldSet(LAMBDA l, n : n + Quota[d][l], 0, Levels)
MaxFailures(d)  == Cardinality(Candidates(d)) - DomainQuota(d)

Full(i) ==
  \/ DomainOk(Specs[i].domain) >= DomainQuota(Specs[i].domain)
  \/ Ok(Specs[i].domain, Specs[i].difficulty) >= Quota[Specs[i].domain][Specs[i].difficulty]
(* Mutant: the limit also holds for a fixed budget.                         *)
GivenUpAlways(d) == DomainFailed(d) >= MaxFailures(d)

GivenUp(d) == ~request.fixed /\ DomainFailed(d) >= MaxFailures(d)

IrrelevanceAttempts ==
  IF request.fixed THEN request.irrelevant
                   ELSE Max({5 * request.irrelevant, request.irrelevant + 4})

(* A failure record is identified by the attempt and the reason.           *)
NormalRecord(i, reason)      == << "normal", Specs[i].seed, reason >>
IrrelevanceRecord(k, reason) == << "irrelevance", k, reason >>
BatchRecord                  == << "irrelevance_batch", 0, "unhandled_batch_exception" >>

(* The failure callback: append a record, then go on.                      *)
Record(r, next) == pc' = "record" /\ recording' = [record |-> r, next |-> next]

(* Every failure a request can record has a record of its own.             *)
ASSUME RecordsAssumption ==
  /\ BatchRecord \in Records
  /\ \A r \in Requests, reason \in Reasons :
       /\ \A i \in DOMAIN r.schedule : << "normal", r.schedule[i].seed, reason >> \in Records
       /\ \A k \in 0 .. 5 * r.irrelevant + 3 : << "irrelevance", k, reason >> \in Records

(* What is being recorded is told apart from nothing being recorded.       *)
ASSUME RecordingAssumption ==
  NoRecord \notin [record : Records, next : {"collect", "irrelevance", "batch", "raising"}]

(***************************************************************************)
(* Start, and the pool.                                                    *)
(***************************************************************************)
StartProcess ==
  /\ pc = "down" /\ runs < MaxRuns[request]
  /\ runs' = runs + 1
  /\ IF Loads THEN Load /\ pc' = "submit" ELSE pc' = "blocked" /\ UNCHANGED log
  /\ UNCHANGED << specIndex, done, recording, irrelevance, candidate, request, cutOff >>

(* submit_until_full passes over candidates whose quota is full or whose   *)
(* domain failed too often, for good.                                      *)
Submit ==
  /\ pc = "submit" /\ specIndex \in Index /\ Cardinality(Futures) < Workers
  /\ candidate' = [candidate EXCEPT ![specIndex] =
       IF Full(specIndex) \/ GivenUp(Specs[specIndex].domain) THEN "skipped" ELSE "running"]
  /\ specIndex' = specIndex + 1
  /\ UNCHANGED << pc, done, recording, irrelevance, process, log >>

SubmitEnds ==
  /\ pc = "submit" /\ (specIndex \notin Index \/ Cardinality(Futures) >= Workers)
  /\ pc' = IF Futures = {} THEN "irrelevance" ELSE "wait"
  /\ UNCHANGED << specIndex, done, recording, irrelevance, candidate, process, log >>

(* A worker: the candidate gives a task, or none, or an exception.         *)
CandidateEnds(i) ==
  /\ candidate[i] = "running"
  /\ \E end \in {"task", "failed"} : candidate' = [candidate EXCEPT ![i] = end]
  /\ UNCHANGED << coordinator, process, log >>

(* FIRST_COMPLETED: one future that ended, or more.                        *)
Wait ==
  /\ pc = "wait"
  /\ \E ended \in SUBSET Ended : ended # {} /\ done' = ended
  /\ pc' = "collect"
  /\ UNCHANGED << specIndex, recording, irrelevance, candidate, process, log >>

CollectFailure(i) ==
  /\ pc = "collect" /\ i \in done /\ candidate[i] = "failed"
  /\ candidate' = [candidate EXCEPT ![i] = "rejected"]
  /\ done' = done \ {i}
  /\ \E reason \in Reasons : Record(NormalRecord(i, reason), "collect")
  /\ UNCHANGED << specIndex, irrelevance, process, log >>

(* Mutant: a late success is kept without another look at the quota.        *)
CollectTaskUnchecked(i) ==
  /\ pc = "collect" /\ i \in done /\ candidate[i] = "task"
  /\ candidate' = [candidate EXCEPT ![i] = "kept"]
  /\ done' = done \ {i}
  /\ UNCHANGED << pc, specIndex, recording, irrelevance, process, log >>

(* A success whose quota was filled while it was in flight is thrown away. *)
CollectSurplus(i) ==
  /\ pc = "collect" /\ i \in done /\ candidate[i] = "task" /\ Full(i)
  /\ candidate' = [candidate EXCEPT ![i] = "surplus"]
  /\ done' = done \ {i}
  /\ UNCHANGED << pc, specIndex, recording, irrelevance, process, log >>

(* A task is kept and the progress callback called, which may raise.       *)
CollectTask(i) ==
  /\ pc = "collect" /\ i \in done /\ candidate[i] = "task" /\ ~Full(i)
  /\ candidate' = [candidate EXCEPT ![i] = "kept"]
  /\ \/ done' = done \ {i} /\ UNCHANGED pc
     \/ done' = {} /\ pc' = "raising"
  /\ UNCHANGED << specIndex, recording, irrelevance, process, log >>

CollectEnds ==
  /\ pc = "collect" /\ done = {}
  /\ pc' = "submit"
  /\ UNCHANGED << specIndex, done, recording, irrelevance, candidate, process, log >>

(***************************************************************************)
(* The irrelevance tasks, one after the other.                             *)
(***************************************************************************)
MoreIrrelevance ==
  pc = "irrelevance" /\ Cardinality(irrelevance.made) < request.irrelevant
                     /\ irrelevance.tried < IrrelevanceAttempts
(* Mutant: only a success counts as an attempt.                             *)
TriedIfMade(made) ==
  irrelevance' = [made |-> made, tried |-> irrelevance.tried + IF made = irrelevance.made THEN 0 ELSE 1]

Tried(made) == irrelevance' = [made |-> made, tried |-> irrelevance.tried + 1]

IrrelevanceMade ==
  /\ MoreIrrelevance
  /\ Tried(irrelevance.made \union {irrelevance.tried})
  /\ UNCHANGED << pc, specIndex, done, recording, candidate, process, log >>

(* Rejected, and recorded; some exceptions end the whole batch.            *)
IrrelevanceRejected ==
  /\ MoreIrrelevance
  /\ Tried(irrelevance.made)
  /\ \E reason \in Reasons, next \in {"irrelevance", "batch"} :
       Record(IrrelevanceRecord(irrelevance.tried, reason), next)
  /\ UNCHANGED << specIndex, done, candidate, process, log >>

(* The request returns its tasks; without one it raises, unless the budget *)
(* of attempts is fixed.                                                   *)
Return ==
  /\ pc = "irrelevance" /\ ~MoreIrrelevance
  /\ pc' = IF With({"kept"}) = {} /\ irrelevance.made = {} /\ ~request.fixed
           THEN "raised" ELSE "returned"
  /\ UNCHANGED << specIndex, done, recording, irrelevance, candidate, process, log >>

(* Leaving the pool with an exception waits for the workers.               *)
Raise ==
  /\ pc = "raising" /\ With({"running"}) = {}
  /\ pc' = "raised"
  /\ UNCHANGED << specIndex, done, recording, irrelevance, candidate, process, log >>

(***************************************************************************)
(* Recording a failure.                                                    *)
(***************************************************************************)
Recorded ==
  IF recording.next = "batch" THEN Record(BatchRecord, "raising")
                              ELSE pc' = recording.next /\ recording' = NoRecord

AppendPart ==
  /\ pc = "record" /\ WritePart(recording.record)
  /\ UNCHANGED << coordinator, candidate, process >>

AppendLast ==
  /\ pc = "record"
  /\ \/ WriteLast(recording.record)
     \/ Suppressed(recording.record) /\ UNCHANGED log
  /\ Recorded
  /\ UNCHANGED << specIndex, done, irrelevance, candidate, process >>

(* Mutant: an exception of the callback is swallowed.                       *)
AppendFailsSwallowed ==
  /\ pc = "record" /\ WriteFails(recording.record)
  /\ cutOff' = (cutOff \/ fragment' # Nothing)
  /\ Recorded
  /\ UNCHANGED << specIndex, done, irrelevance, candidate, request, runs >>

(* The writer raises: out of the pool at once; from an irrelevance         *)
(* candidate by way of the record of the whole batch.                      *)
AppendFails ==
  /\ pc = "record" /\ WriteFails(recording.record)
  /\ cutOff' = (cutOff \/ fragment' # Nothing)
  /\ IF recording.next \in {"irrelevance", "batch"}
     THEN Record(BatchRecord, "raising") /\ UNCHANGED done
     ELSE pc' = "raising" /\ recording' = NoRecord /\ done' = {}
  /\ UNCHANGED << specIndex, irrelevance, candidate, request, runs >>

(* The process is killed, or one that ended is started with the same       *)
(* request again (no checkpoint was reached).  The log stays.              *)
Kill ==
  /\ pc \notin {"down", "blocked"} /\ runs < MaxRuns[request]
  /\ pc' = "down" /\ specIndex' = 1 /\ done' = {} /\ recording' = NoRecord
  /\ irrelevance' = [made |-> {}, tried |-> 0]
  /\ candidate' = [i \in Index |-> "untried"]
  /\ Forget
  /\ cutOff' = (cutOff \/ written # "no")
  /\ UNCHANGED << request, runs >>

Init ==
  /\ request \in Requests
  /\ pc = "down" /\ specIndex = 1 /\ done = {} /\ recording = NoRecord
  /\ irrelevance = [made |-> {}, tried |-> 0]
  /\ candidate = [i \in Index |-> "untried"]
  /\ runs = 0 /\ cutOff = FALSE
  /\ LogInit

Coordinator ==
  \/ StartProcess \/ Submit \/ SubmitEnds \/ Wait \/ CollectEnds
  \/ \E i \in Index : CollectFailure(i) \/ CollectSurplus(i) \/ CollectTask(i)
  \/ IrrelevanceMade \/ IrrelevanceRejected \/ Return \/ Raise
  \/ AppendPart \/ AppendLast \/ AppendFails

Next == Coordinator \/ Kill \/ \E i \in Index : CandidateEnds(i)

(* A process that runs goes on, and every candidate ends: requests to the  *)
(* teacher and to the servers have timeouts, and the loops are bounded.    *)
Spec ==
  /\ Init /\ [][Next]_vars
  /\ WF_vars(Coordinator)
  /\ WF_vars(\E i \in Index : CandidateEnds(i))

(***************************************************************************)
(* Properties.                                                             *)
(***************************************************************************)

(* Every variable keeps its type, a future the coordinator holds has       *)
(* ended, and no more candidates are in flight than there are workers.     *)
TypeOK ==
  /\ request \in Requests /\ runs \in 0 .. MaxRuns[request] /\ cutOff \in BOOLEAN
  /\ pc \in {"down", "submit", "wait", "collect", "record", "irrelevance", "raising",
             "returned", "raised", "blocked"}
  /\ specIndex \in 1 .. Len(Specs) + 1
  /\ candidate \in [Index -> {"untried", "skipped", "running", "task", "failed",
                              "kept", "surplus", "rejected"}]
  /\ done \subseteq Ended
  /\ Cardinality(Futures) <= Workers
  /\ irrelevance.tried \in 0 .. IrrelevanceAttempts
  /\ irrelevance.made \subseteq 0 .. irrelevance.tried - 1
  /\ Cardinality(irrelevance.made) <= request.irrelevant
  /\ (recording = NoRecord) <=> (pc # "record")

(* The accepted tasks never exceed a stratum's quota, although a candidate *)
(* is submitted under the counts of another moment than the one its task   *)
(* is collected at.                                                        *)
QuotasRespected == \A d \in Domains, l \in Levels : Ok(d, l) <= Quota[d][l]

(* The accepted prefix is returned short of a stratum only when every      *)
(* candidate of the stratum was tried, or so many of its domain failed     *)
(* that the others are not more than the domain was asked for; a fixed     *)
(* budget has no such limit and tries every candidate.                     *)
ShortOnlyWhenExhausted ==
  pc \in {"irrelevance", "returned"} =>
    \A d \in Domains, l \in Levels :
      \/ Ok(d, l) = Quota[d][l]
      \/ Stratum(d, l) \subseteq With({"kept", "rejected"})
      \/ ~request.fixed /\ Cardinality(Candidates(d) \ With({"rejected"})) <= DomainQuota(d)

(* A request goes past a rejected candidate only with its record on file,  *)
(* unless an append of this log was once cut off.                          *)
RejectionsRecorded ==
  pc \in {"wait", "collect", "submit", "irrelevance", "returned"} /\ ~cutOff =>
    \A i \in With({"rejected"}) : \E reason \in Reasons : lines[NormalRecord(i, reason)] > 0

(* The process can be started again with its log, however often it was     *)
(* killed between two appends or one of its writes failed before its first *)
(* byte or after its last: what blocks a resumed run is an append that was *)
(* cut off, or a record whose own text splitlines takes apart.             *)
BlockedOnlyByDamage == pc = "blocked" => cutOff \/ separated

(* The request keeps what ShardRecovery assumes of it: tasks from distinct *)
(* candidates of its schedule, no more of a stratum or of irrelevance than *)
(* asked for, and an end.                                                  *)
IrrelevanceKind == << "irrelevance", "irrelevance" >>
Kinds == (Domains \X Levels) \union {IrrelevanceKind}
Promise(r) ==
  [seeds  |-> [k \in Kinds |->
                IF k = IrrelevanceKind THEN 0 .. 5 * r.irrelevant + 3
                ELSE {r.schedule[i].seed : i \in
                       {j \in DOMAIN r.schedule : << r.schedule[j].domain, r.schedule[j].difficulty >> = k}}],
   target |-> [k \in Kinds |-> IF k = IrrelevanceKind THEN r.irrelevant ELSE r.quota[k[1]][k[2]]]]
Promised == INSTANCE CandidateRequest WITH
  Kinds    <- Kinds,
  Requests <- {Promise(r) : r \in Requests},
  request  <- Promise(request),
  yielded  <- {<< << Specs[i].domain, Specs[i].difficulty >>, Specs[i].seed >> : i \in With({"kept"})}
              \union ({IrrelevanceKind} \X irrelevance.made),
  outcome  <- CASE pc = "down" -> "idle"
                [] pc \in {"returned", "raised"} -> pc
                [] pc = "blocked" -> "raised"
                [] OTHER -> "open"
KeepsRequest == Promised!RequestSpec

=============================================================================
