----------------------------- MODULE ShardRecovery -----------------------------
(***************************************************************************)
(* One shard process of the corpus generation: generate_data               *)
(* (corpus/shard.py) with its recovery rounds and its checkpoint           *)
(* (corpus/shard_recovery.py), killed at any moment and started again.     *)
(*                                                                         *)
(* A round sends one generation request after the other; a request tries   *)
(* the candidate seeds of its schedule, checkpoints every                  *)
(* CheckpointInterval kept tasks, and ends with its irrelevance tasks.     *)
(* Its thread pool and its quotas are in BatchScheduler; here a request    *)
(* yields tasks with seeds of its own, or none, or raises.  The tasks come *)
(* in the order in which their candidates end.                             *)
(***************************************************************************)
EXTENDS Integers, Sequences, FiniteSets, SequencesExt

CONSTANTS
  Modes,               \* --shard-mode: a subset of {"shard", "monolithic"}
  RequestedDomains,    \* the domains of --domain in order
  All,                 \* the --domain argument as a request names it
  Quota,               \* desired_domain_counts: train and validation tasks of a domain
  PoolTarget,          \* the size of the first request, oversampling included
  IrrelevanceTarget,   \* irrelevance tasks among them
  Strata,              \* domains times difficulties of a request at most
  MaxRounds,           \* --max-recovery-rounds
  CheckpointInterval,  \* --checkpoint-interval
  RoundStride,         \* seeds of a round: 100000 in the code
  RequestStride,       \* seeds of a request: 10000 in the code
  Configs,             \* the argument values _checkpoint_config records
  MaxRestarts,         \* bound: runs after the first
  MaxOvertaken,        \* bound: candidates before an accepted one, rejected or running
  MaxRejected          \* bound: irrelevance candidates rejected before an accepted one

Domains == {RequestedDomains[i] : i \in 1 .. Len(RequestedDomains)}
Total   == FoldSeq(LAMBDA d, n : Quota[d] + n, 0, RequestedDomains)
Ceil(n, d) == (n + d - 1) \div d

(* Seeds a request of n tasks may try.  A stratum tries half its tasks     *)
(* again, at least two, so these are most when all strata but one have one *)
(* task.  For irrelevance: five times its tasks, at least four more.       *)
Attempts(n) ==
  LET ones == Min({n, Strata}) - 1
  IN  IF n = 0 THEN 0 ELSE n + 2 * ones + Max({Ceil(n - ones, 2), 2})
IrrelevanceAttempts(n) == Max({5 * n, n + 4})
RecoveryCount(missing) == Ceil(5 * missing, 4)

ASSUME DomainsAssumption ==
  /\ Modes \subseteq {"shard", "monolithic"}
  /\ RequestedDomains \in Seq(Domains) \ {<< >>} /\ IsInjective(RequestedDomains)
  /\ All \notin Domains /\ Quota \in [Domains -> Nat]
ASSUME TargetsAssumption ==
  /\ Total \in Nat \ {0} /\ PoolTarget \in Nat /\ PoolTarget >= Total
  /\ IrrelevanceTarget \in 0 .. PoolTarget
ASSUME LimitsAssumption ==
  /\ MaxRounds \in Nat \ {0} /\ CheckpointInterval \in Nat \ {0}
  /\ MaxRestarts \in Nat /\ MaxOvertaken \in Nat /\ MaxRejected \in Nat
  /\ Strata \in Nat \ {0} /\ Configs # {}

(* The sizes a request may have, and what keeps the seed ranges of the     *)
(* requests apart; the code relies on it unchecked.                        *)
Sizes == 0 .. PoolTarget \union UNION {0 .. RecoveryCount(Quota[d]) : d \in Domains}
ASSUME StridesAssumption ==
  /\ RoundStride \in Nat /\ RequestStride \in Nat
  /\ RoundStride >= RequestStride * Len(RequestedDomains)
  /\ \A n \in Sizes : RequestStride >= Attempts(n)
  /\ \A n \in 0 .. IrrelevanceTarget : RequestStride >= IrrelevanceAttempts(n)

VARIABLES
  mode,           \* shard or monolithic run
  checkpoint,     \* the checkpoint file
  pc,             \* where the process is; "down" when none runs
  args,           \* the arguments it is started with, as _checkpoint_config records them
  allTasks,       \* all_tasks: tasks of the finished rounds
  roundTasks,     \* round_tasks: tasks of the finished requests of this round
  tasks,          \* tasks of the request that runs and that the filter kept
  normals,        \* tasks it generated, kept or not
  irrelevants,    \* irrelevance tasks it generated, kept or not
  used,           \* offsets of the candidate seeds its tasks of this kind came from
  savedSize,      \* last_checkpoint_size
  recoveryRound,
  roundRequests,
  requestIndex,
  restarts

request == << tasks, normals, irrelevants, used, savedSize >>
round   == << recoveryRound, roundRequests, requestIndex >>
pool    == << allTasks, roundTasks >>
vars == << mode, checkpoint, pc, args, pool, request, round, restarts >>

Running == {"round", "normal", "irrelevance", "split", "final"}
Request(domain, count) == [domain |-> domain, count |-> count]

(* The task with a seed.  counts: it passes the training filters and, in a *)
(* monolithic run, no earlier task of the pool has its tool sequence.      *)
Task(kind, domain, seed, counts) ==
  [kind |-> kind, domain |-> domain, seed |-> seed, counts |-> counts]

Counted(ts)          == Cardinality({i \in DOMAIN ts : ts[i].counts})
DomainCount(ts, d)   == Cardinality({i \in DOMAIN ts : ts[i].counts /\ ts[i].domain = d})
IrrelevanceCount(ts) == Cardinality({i \in DOMAIN ts : ts[i].kind = "irrelevance"})

(* The k-th smallest of a set of positions.                                *)
Nth(I, k) == CHOOSE i \in I : Cardinality({j \in I : j <= i}) = k

(* _generation_recovery_requests: what the pool still lacks.               *)
ShardRequests(ts) ==
  IF Counted(ts) < Total THEN << Request(All, Total - Counted(ts)) >> ELSE << >>
Missing(ts, d) == Quota[d] - DomainCount(ts, d)
Short(ts) == {i \in DOMAIN RequestedDomains : Missing(ts, RequestedDomains[i]) > 0}
DomainRequests(ts) ==
  [k \in 1 .. Cardinality(Short(ts)) |->
     LET d == RequestedDomains[Nth(Short(ts), k)]
     IN  Request(d, RecoveryCount(Missing(ts, d)))]
Requests(ts) == IF mode = "shard" THEN ShardRequests(ts) ELSE DomainRequests(ts)

(* No checkpoint file: no task is saved.                                   *)
NoCheckpoint == [tasks |-> << >>]

Checkpoint(completed, requests, ts) ==
  [config |-> args, completed |-> completed, requests |-> requests, tasks |-> ts]

(***************************************************************************)
(* Starting: a checkpoint of the same configuration is resumed, another    *)
(* one refused, and a run without one begins with the whole target.        *)
(***************************************************************************)
StartFresh ==
  /\ pc = "down" /\ checkpoint = NoCheckpoint
  /\ allTasks' = << >>
  /\ recoveryRound' = 0
  /\ roundRequests' = << Request(All, PoolTarget) >>
  /\ requestIndex' = 1
  /\ pc' = "round"
  /\ UNCHANGED << mode, checkpoint, args, roundTasks, request, restarts >>

Refused(a) == checkpoint.config # a \/ checkpoint.requests = << >>

Resume ==
  /\ pc = "down" /\ checkpoint # NoCheckpoint
  /\ ~Refused(args)
  /\ allTasks' = checkpoint.tasks
  /\ recoveryRound' = checkpoint.completed
  /\ roundRequests' = checkpoint.requests
  /\ requestIndex' = 1
  /\ pc' = IF checkpoint.completed < MaxRounds THEN "round" ELSE "final"
  /\ UNCHANGED << mode, checkpoint, args, roundTasks, request, restarts >>

ResumeRefused ==
  /\ pc = "down" /\ checkpoint # NoCheckpoint
  /\ Refused(args)
  /\ pc' = "failed"
  /\ UNCHANGED << mode, checkpoint, args, pool, request, round, restarts >>

(***************************************************************************)
(* A request.                                                              *)
(***************************************************************************)
Current == roundRequests[requestIndex]
AtRequest == pc = "round" /\ requestIndex <= Len(roundRequests)
Prefix  == allTasks \o roundTasks
Seed    == recoveryRound * RoundStride + (requestIndex - 1) * RequestStride

(* Mutant: the tasks of the round's earlier requests are not counted.       *)
DeficitOfRounds == IrrelevanceTarget - IrrelevanceCount(allTasks)

(* The irrelevance tasks a request asks for: what the pool still lacks.    *)
Deficit == IrrelevanceTarget - IrrelevanceCount(Prefix)
Irrelevance == Min({Current.count, Max({0, Deficit})})

SkipRequest ==
  /\ AtRequest /\ Current.count = 0
  /\ requestIndex' = requestIndex + 1
  /\ UNCHANGED << mode, checkpoint, pc, args, pool, request, recoveryRound, roundRequests, restarts >>

BeginRequest ==
  /\ AtRequest /\ Current.count > 0
  /\ pc' = "normal"
  /\ savedSize' = Len(Prefix)
  /\ UNCHANGED << mode, checkpoint, args, pool, tasks, normals, irrelevants, used, round, restarts >>

(* Mutants of the partial checkpoint: it does not consume its round; it     *)
(* records no request when the pool is full; it saves the round's tasks     *)
(* without those of the earlier rounds.                                     *)
ProgressAs(completed, requests, kept, saved) ==
  IF Len(Prefix \o kept) - savedSize < CheckpointInterval
  THEN UNCHANGED << checkpoint, savedSize >>
  ELSE /\ checkpoint' = Checkpoint(completed, requests, saved)
       /\ savedSize' = Len(Prefix \o kept)
Asked(requests) == IF requests = << >> THEN << Request(All, 0) >> ELSE requests
ProgressSameRound(kept) ==
  ProgressAs(recoveryRound, Asked(Requests(Prefix \o kept)), kept, Prefix \o kept)
ProgressUnasked(kept) ==
  ProgressAs(recoveryRound + 1, Requests(Prefix \o kept), kept, Prefix \o kept)
ProgressOfRound(kept) ==
  ProgressAs(recoveryRound + 1, Asked(Requests(Prefix \o kept)), kept, roundTasks \o kept)

(* checkpoint_progress, called with the kept tasks of the request so far:  *)
(* a partial checkpoint consumes the round, and asks for nothing rather    *)
(* than for no request when the pool is full.                              *)
Progress(kept) ==
  IF Len(Prefix \o kept) - savedSize < CheckpointInterval
  THEN UNCHANGED << checkpoint, savedSize >>
  ELSE /\ checkpoint' = Checkpoint(recoveryRound + 1, Asked(Requests(Prefix \o kept)), Prefix \o kept)
       /\ savedSize' = Len(Prefix \o kept)

(* The domain a task counts for; a shard's rows count for the whole.       *)
DomainOf(d) ==
  IF mode = "monolithic" /\ Current.domain = All THEN d \in Domains ELSE d = Current.domain

(* The seeds of a schedule of n that may still give a task.                *)
Candidates(n, passed) == (0 .. Min({n - 1, Cardinality(used) + passed})) \ used

(* A candidate is accepted, whichever were submitted before or after it.   *)
(* The filter drops its task or keeps it.                                  *)
CandidateAccepted ==
  /\ pc = "normal"
  /\ normals < Current.count - Irrelevance
  /\ \E k \in Candidates(Attempts(Current.count - Irrelevance), MaxOvertaken) :
       /\ used' = used \union {k}
       /\ \/ tasks' = tasks
          \/ \E d \in Domains \union {All}, counts \in BOOLEAN :
               /\ DomainOf(d)
               /\ tasks' = Append(tasks, Task("normal", d, Seed + k, counts))
  /\ normals' = normals + 1
  /\ Progress(tasks')
  /\ UNCHANGED << mode, pc, args, pool, irrelevants, round, restarts >>

(* The other candidates are rejected.                                      *)
CandidatesEnd ==
  /\ pc = "normal"
  /\ pc' = "irrelevance"
  /\ used' = {}
  /\ UNCHANGED << mode, checkpoint, args, pool, tasks, normals, irrelevants, savedSize, round, restarts >>

(* An irrelevance task: its candidates are tried one after the other, and  *)
(* their seeds begin at the last one of the request.                       *)
IrrelevanceAccepted ==
  /\ pc = "irrelevance"
  /\ irrelevants < Irrelevance
  /\ \E k \in Candidates(IrrelevanceAttempts(Irrelevance), MaxRejected) :
       /\ \A earlier \in used : earlier < k
       /\ used' = used \union {k}
       /\ \/ tasks' = tasks
          \/ \E d \in Domains \union {All}, counts \in BOOLEAN :
               /\ DomainOf(d)
               /\ tasks' = Append(tasks,
                             Task("irrelevance", d, Seed + RequestStride - 1 + k, counts))
  /\ irrelevants' = irrelevants + 1
  /\ UNCHANGED << mode, checkpoint, pc, args, pool, normals, savedSize, round, restarts >>

Cleared == tasks' = << >> /\ normals' = 0 /\ irrelevants' = 0 /\ used' = {} /\ savedSize' = 0

RequestReturns ==
  /\ pc = "irrelevance" /\ normals + irrelevants > 0
  /\ roundTasks' = roundTasks \o tasks
  /\ Cleared
  /\ requestIndex' = requestIndex + 1
  /\ pc' = "round"
  /\ UNCHANGED << mode, checkpoint, args, allTasks, recoveryRound, roundRequests, restarts >>

(* A request without a task: the next one goes on in a shard or after the  *)
(* first round, the process ends otherwise.                                *)
ZeroYield ==
  /\ pc = "irrelevance" /\ normals + irrelevants = 0
  /\ Cleared
  /\ IF mode = "shard" \/ recoveryRound > 0
     THEN requestIndex' = requestIndex + 1 /\ pc' = "round"
     ELSE pc' = "failed" /\ UNCHANGED requestIndex
  /\ UNCHANGED << mode, checkpoint, args, pool, recoveryRound, roundRequests, restarts >>

(***************************************************************************)
(* The end of a round: split, or checkpoint what the pool lacks.           *)
(***************************************************************************)
(* Mutant: a round without a task is not counted.                          *)
EndRoundUncounted ==
  LET next == IF roundTasks = << >> THEN recoveryRound ELSE recoveryRound + 1
      lack == Requests(Prefix) IN
  /\ pc = "round" /\ requestIndex > Len(roundRequests)
  /\ allTasks' = Prefix
  /\ roundTasks' = << >>
  /\ IF lack = << >>
     THEN pc' = "split" /\ UNCHANGED << checkpoint, round >>
     ELSE /\ checkpoint' = Checkpoint(recoveryRound + 1, lack, Prefix)
          /\ roundRequests' = lack
          /\ requestIndex' = 1
          /\ recoveryRound' = next
          /\ pc' = IF next < MaxRounds THEN "round" ELSE "final"
  /\ UNCHANGED << mode, args, request, restarts >>

EndRound ==
  /\ pc = "round" /\ requestIndex > Len(roundRequests)
  /\ allTasks' = Prefix
  /\ roundTasks' = << >>
  /\ LET lack == Requests(Prefix) IN
     IF lack = << >>
     THEN pc' = "split" /\ UNCHANGED << checkpoint, round >>
     ELSE /\ checkpoint' = Checkpoint(recoveryRound + 1, lack, Prefix)
          /\ roundRequests' = lack
          /\ requestIndex' = 1
          /\ recoveryRound' = recoveryRound + 1
          /\ pc' = IF recoveryRound + 1 < MaxRounds THEN "round" ELSE "final"
  /\ UNCHANGED << mode, args, request, restarts >>

(* After the last round a shard publishes what it has, if anything; a      *)
(* monolithic run needs every domain.                                      *)
Enough == IF mode = "shard" THEN Counted(allTasks) > 0 ELSE Requests(allTasks) = << >>

FinalSplit ==
  /\ pc = "final"
  /\ pc' = IF Enough THEN "split" ELSE "failed"
  /\ UNCHANGED << mode, checkpoint, args, pool, request, round, restarts >>

(* Every row replays, and the two files are written.                       *)
Publish ==
  /\ pc = "split"
  /\ pc' = "done"
  /\ UNCHANGED << mode, checkpoint, args, pool, request, round, restarts >>

(* generate_many, the filter, the replay or the file system raises.        *)
Raises ==
  /\ pc \in {"normal", "irrelevance", "split"}
  /\ pc' = "failed"
  /\ roundTasks' = << >>
  /\ Cleared
  /\ UNCHANGED << mode, checkpoint, args, allTasks, round, restarts >>

(***************************************************************************)
(* The environment: the process is killed, or one that failed is to be     *)
(* started again, with the same arguments or others.  Only the checkpoint  *)
(* file survives.                                                          *)
(***************************************************************************)
Restart ==
  /\ pc \in Running \union {"failed"}
  /\ restarts < MaxRestarts
  /\ restarts' = restarts + 1
  /\ pc' = "down"
  /\ allTasks' = << >> /\ roundTasks' = << >>
  /\ Cleared
  /\ recoveryRound' = 0 /\ roundRequests' = << >> /\ requestIndex' = 1
  /\ args' \in Configs
  /\ UNCHANGED << mode, checkpoint >>

Init ==
  /\ mode \in Modes
  /\ checkpoint = NoCheckpoint
  /\ pc = "down"
  /\ args = CHOOSE a \in Configs : TRUE
  /\ allTasks = << >> /\ roundTasks = << >>
  /\ tasks = << >> /\ normals = 0 /\ irrelevants = 0 /\ used = {} /\ savedSize = 0
  /\ recoveryRound = 0 /\ roundRequests = << >> /\ requestIndex = 1
  /\ restarts = 0

Work ==
  \/ StartFresh \/ Resume \/ ResumeRefused
  \/ SkipRequest \/ BeginRequest
  \/ CandidateAccepted \/ CandidatesEnd
  \/ IrrelevanceAccepted \/ RequestReturns \/ ZeroYield
  \/ EndRound \/ FinalSplit \/ Publish \/ Raises

Next == Work \/ Restart

(* A process that runs makes progress; nothing promises it is restarted.   *)
Spec == Init /\ [][Next]_vars /\ WF_vars(Work)

(***************************************************************************)
(* Properties.                                                             *)
(***************************************************************************)

Held == Prefix \o tasks

TaskType(t) ==
  /\ DOMAIN t = {"kind", "domain", "seed", "counts"}
  /\ t.kind \in {"normal", "irrelevance"} /\ t.domain \in Domains \union {All}
  /\ t.seed \in Nat /\ t.counts \in BOOLEAN
RequestType(r) == r.domain \in Domains \union {All} /\ r.count \in Nat

(* Every variable keeps its type, a request never counts more tasks than   *)
(* it asked for, and a round is counted at most once past the last.        *)
TypeOK ==
  /\ mode \in Modes
  /\ checkpoint # NoCheckpoint =>
       /\ checkpoint.config \in Configs
       /\ checkpoint.completed \in 1 .. MaxRounds
       /\ \A i \in DOMAIN checkpoint.requests : RequestType(checkpoint.requests[i])
       /\ \A i \in DOMAIN checkpoint.tasks : TaskType(checkpoint.tasks[i])
  /\ pc \in Running \union {"down", "failed", "done"}
  /\ args \in Configs
  /\ \A i \in DOMAIN Held : TaskType(Held[i])
  /\ normals \in Sizes /\ irrelevants \in 0 .. IrrelevanceTarget
  /\ used \subseteq 0 .. RequestStride - 1 /\ savedSize \in Nat
  /\ recoveryRound \in 0 .. MaxRounds
  /\ \A i \in DOMAIN roundRequests : RequestType(roundRequests[i])
  /\ requestIndex \in 1 .. Len(roundRequests) + 1
  /\ restarts \in 0 .. MaxRestarts

(* No candidate seed gives the pool two tasks, whatever was interrupted:   *)
(* a resumed process goes on with seeds no saved task came from.           *)
(* "Resume continues from the next recovery seed and measured deficit      *)
(* instead of regenerating completed task seeds."                          *)
SeedsDistinct ==
  \A i, j \in DOMAIN Held :
    Held[i].kind = Held[j].kind /\ Held[i].seed = Held[j].seed => i = j

(* The accepted rows never hold more irrelevance tasks than the target,    *)
(* neither after a recovery round nor after a resume                       *)
(* (_accepted_generation_deficits).                                        *)
IrrelevanceWithinTarget == IrrelevanceCount(Held) <= IrrelevanceTarget

(* A checkpoint can always be loaded with the arguments that wrote it:     *)
(* resuming does not depend on the moment of the crash.                    *)
CheckpointLoadable ==
  checkpoint # NoCheckpoint => ~Refused(checkpoint.config)

(* A task once saved stays saved: a later checkpoint extends the earlier.  *)
SavedTasksKept ==
  [][checkpoint # NoCheckpoint =>
       checkpoint' # NoCheckpoint /\ IsPrefix(checkpoint.tasks, checkpoint'.tasks)]_vars

(* Every run ends: the rounds are bounded, whatever the candidates do.     *)
EveryRunEnds == []<>(pc \in {"done", "failed"})
=============================================================================
