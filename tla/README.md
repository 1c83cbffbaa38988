# LiveMCP: a verification project

LiveMCP generates training conversations for tool-using language models. A
*teacher* model plays user and assistant against live tool servers (banking,
payments, shopping, ...), every tool call is really executed, and what survives
a chain of gates and a replay becomes a row of a training corpus. The same
servers later answer the tool calls of reinforcement-learning rollouts.

This directory holds TLA+ modules for the parts of that program where orders of
events matter, the TLC configurations that check them, and TLAPS proofs.
`PROJECT.json` is the machine-readable index: components, runs, the source lines
behind every definition, mutants, hazards, findings and theorems. Source paths
below are relative to `src/src/live_mcp/` unless they say otherwise.

## 1. The system

### Components, state, operations

| component | state | operations | how it fails |
|---|---|---|---|
| Conversation FSM (`fsm.py`) | one state group | `transition` | an illegal edge raises and loses the candidate |
| Round loop (`generation/turn_loop.py`) | histories, oracle calls, counters | one teacher decision after the other; recovery dialogue | a round that never ends, ends without an answer, or answers over an open failure |
| Candidate pipeline (`generation/candidate_pipeline.py`, `conversation_runner.py`, `candidate_trace_validation.py`, `robustness.py`) | rounds so far, retry counter, live session | rounds, continuation, gates, retry | accepts a bad trace, leaks a session |
| Batch scheduler (`generation/batch.py`, `irrelevance.py`) | quotas, futures, candidate seeds | thread pool over candidates | stops early, loses late successes, exceeds a quota |
| Failure log (`corpus/failure_records.py`) | an append-only file and the ids in it | `append`, load at start | a line that cannot be read and blocks every later start |
| Shard process (`corpus/shard.py`, `shard_recovery.py`) | task pool, checkpoint file | rounds of requests, checkpoint, resume, split | repeats seeds, loses saved tasks, mixes configurations |
| Command line, launcher and merge (`corpus/cli.py`, `artifacts.py`, `launcher.sh`, `merge*.py`) | manifest, candidate files, deficit report, corpus files | run, resume, status; parallel shards, top-up rounds, publication | artifacts written twice, a manifest that lies, half a publication |
| Executor (`executor.py`) | none | name and schema checks, dispatch, quarantine | an unknown commit taken for a failure |
| Session manager (`protocol/manager.py`) | session registry, lock table, poisoned ids | create, reset, call, read, close, quarantine | two operations in one session, leaked places |
| Transport (`protocol/transport.py`) | a pipe per server, answer queues | `request` with a timeout | late answers, requests served after a timeout |
| Server base (`server_base.py`) | session table of at most 500 | reset, close, transactional tool calls | full table, half a mutation |
| Ten domain servers (`servers/*`, `state_seeders/*`) | one record store per session | 6 to 30 tools each | records that contradict each other |
| Rollout loop (`src/src/agent_loop`) | one session per rollout | turns, audit events | lost evidence |
| Rewards, safety verifier, multiplier (`src/src/oval_mcp`, `reward`, `training`) | one JSON file shared by processes | pure scoring; `atomic_update` | lost or frozen updates |

The rest (registries, domain contracts, projections, artifact serialization,
audits, dependency classification, scripts, configuration, the vendored trainer)
is data, pure conversion or third-party code. `PROJECT.json` lists all of it with
its status.

### How they interact

    launcher -> shard process -> batch scheduler -> candidate pipeline
                     |                                   |
                checkpoint file                 round loop + FSM  <->  teacher (LLM)
                                                         |
                                                     executor
                                                         |
        rollout loop ------------------------->  session manager
                                                         |  one lock per session
                                                     transport  (one pipe per server)
                                                         |
                                         tool servers (one thread, many sessions)

Calls go down; what comes back is an answer, an error or a timeout. The only
shared mutable state above the servers is the session manager's registry, shared
by the threads of the batch scheduler (or of the rollouts) and guarded by a
registry lock and a lock per session. The only persistent state of a generation
run is the manifest, and per shard its checkpoint, its failure log and its
candidate files; the processes of a run (command line, launcher, shards, merge)
share nothing else. Training processes share one file, the safety multiplier.

### What is hard

* The teacher is not trustworthy: the loop must end, and stay consistent,
  whatever it proposes and whatever the servers answer.
* A timeout leaves the commit of a call unknown; the request may still be in the
  server's pipe when the session is closed or used by another thread.
* Locks are looked up, released and dropped at different moments.
* A shard may be killed at any moment; only the checkpoint survives, and what it
  records decides whether seeds are repeated or tasks are lost.
* The processes of a run outlive each other: a launcher leads a process group of
  its own, and `status` rewrites a manifest whose owner may be writing it.
* Futures end while the coordinator looks at quotas of another moment.
* Several actors update one multiplier file, which others read without a lock.
* Server records change in any order of tool calls, with float arithmetic.

The 40 entries under "hazards" give the line where each of these bites and the
properties that would see it go wrong.

### What makes each component correct

* *Round*: it ends; never without a terminal action; never with an answer over
  an open failure or an unknown commit; never over an illegal FSM edge; it
  repeats no call that cannot have a new answer.
* *Candidate*: what is accepted is authorized, committed and, if it reports an
  error, changed nothing; every session is closed.
* *Sessions*: one operation at a time; a closed session never comes back; every
  place is given back.
* *Shard*: seeds are used once, saved tasks stay, a checkpoint can be resumed by
  its own configuration only, every run ends.
* *Request*: no stratum beyond its quota, none given up before its candidates are
  exhausted, every rejected candidate on record, and an end.
* *Run*: no artifact is generated twice, a completed run has its files, the
  manifest says what its owner said, a pool that fails one environment contract is not paid for.
* *Multiplier*: its file goes through single updates, one after the other; while
  frozen it does not grow, and it thaws.
* *Servers*: money and stock are conserved, records agree.

## 2. The modules

| module | models | builds on |
|---|---|---|
| `TurnLoop` | one round and the FSM | |
| `Conversation` | a candidate: rounds, gates, retries | extends `TurnLoop` |
| `SessionManager` | manager, executor's timeout path, transport, session tables | |
| `FailureLog` | the log of rejected candidates, written in several steps | |
| `BatchSchedule` | the order of the candidates of a request (a pure algorithm) | |
| `CandidateRequest` | abstract: what a request promises to a shard process | |
| `BatchScheduler` | `generate_many` and the workers, killed and started again | extends `FailureLog`; implements `CandidateRequest` |
| `ShardRecovery` | the shard process, its checkpoint, kills and restarts | |
| `CorpusRun` | command line, launcher, shards, merge and manifest of one run | |
| `SafetyMultiplier` | abstract: one multiplier, updated batch by batch | |
| `LambdaState` | the multiplier's file, the actors and the driver | implements `SafetyMultiplier` |
| `Payments`, `Shopping` | the session state of two servers | |
| `ConversationProofs`, `SessionManagerProofs`, `BatchSchedulerProofs`, `ShardRecoveryProofs`, `CorpusRunProofs`, `LambdaStateProofs`, `PaymentsProofs`, `ShoppingProofs` | theorems; those of `TurnLoop` are in `ConversationProofs` | the module and `TLAPS` |
| `MC*` | finite instances: values of the constants, symmetry | the module |

`Conversation` extends `TurnLoop`: a round of a candidate is the round of the
round module, with the history of the earlier ones as its `prior`. In
`TurnLoop.Spec` a round stands alone, and a later round starts from any history
in `Priors`. `KeepsRequest` and `UpdatesInOrder` state that a detailed module
implements its abstract one, each through an instance with a refinement mapping. The
other modules stand alone and meet at these interfaces:

* `TurnLoop` knows of the manager only `session`, "active" or "poisoned", and
  that a poisoned session refuses a dispatch; `SessionManager` is where that
  answer comes from.
* `ShardRecovery` takes a request for a sequence of tasks from distinct candidates
  that ends by itself: the promise `CandidateRequest`, which `BatchScheduler` keeps.
* `BatchScheduler` sees a candidate as "accepted or not"; `Conversation` is where
  that comes from, and `SessionsClosed` there is why it needs no sessions.
* `CorpusRun` takes for granted that a shard ends (`EveryRunEnds`), and sees of it
  only the files it leaves.
* `Payments` and `Shopping` take for granted that calls on a session come one at
  a time (`OneOperationAtATime`) and that a failed one changes nothing
  (`server_base.py:76-136`).

### TurnLoop

A step is one teacher answer with everything the loop does until it needs the
next one, so every line of an iteration between two teacher requests is one
action. `phase` says which answer the loop waits for: an action ("decide"), a
recovery ("recover"), or none. Each guard comes from the order of the loop's
checks: `Refusal(c)` is the first of budget, repetition, authorization and
missing-function contract that stops a call. `Transition(<<...>>)` takes the FSM
edges the code takes in that step and records an illegal one in `fsmRaised`
instead of stopping, so that `FsmNeverRaises` can see it. Arguments are told
apart by the target they name. An observation is reduced to success, whether the
state changed, and whether it shows two names of one record (what
`_observation_links_target_identities` looks for). `Affects` stands for
`tool_call_invalidated_by_state_changes`.

### Conversation

`stage` follows `generate_one`: rounds, early validation, the later gates and the
replay, and how it returned. `baseline` is the prompt profile that skips the local
gates, `difficulty` whether a clarification needs a tool call. `chain` is the attempt's source
chain: the loop is bound to it in the first round only, the gate reads it at the end. The early gates of
`candidate_trace_validation.py` that read the trace's structure are modelled one
by one (`UnauthorizedMutation`, `MissingFunctionBroken`, zero calls,
`ClarifiedAfterMutation`, `HallucinatedError`); the gates that read wording or
observations may stop any candidate (`LaterGateRejects`, `LaterGateRaises`).

### SessionManager

Threads run operations; an operation is a walk over the session's owners with
one request each. `task[t]` is the thread's place in it. `Acquire`, `Send`,
`Receive`, `TimeOut` are separate steps because other threads and servers run
between them. `pipe` is a server's stdin, served in order by `Serve`; a request
whose caller gave up stays in it with nobody to answer. `own` is the lock a close
or a quarantine makes for itself when the table has none. `closed` and `timedOut`
are history variables.

### ShardRecovery

`checkpoint` is the file; everything else is lost in `Restart`, which may happen at
any state of a running process. A task is its kind, domain, seed,
and whether it counts towards the target after filters and
de-duplication. `args` is the command line of the process, one of
`Configs`, chosen anew by each `Restart`. Seeds are modelled as numbers with the two strides of the code as
constants; `StridesAssumption` states the room the code relies on and nowhere
checks. Tasks come in the order in which their candidates end, not in that of their
seeds: `used` holds the offsets a request's accepted candidates had, and
`CandidateAccepted` takes any other of the schedule. Irrelevance candidates are tried one
after the other. In a monolithic run, "counts" also stands for de-duplication against the
tasks before it.

### BatchScheduler, BatchSchedule and FailureLog

`pc` follows the coordinator, `candidate` what became of each entry of the
schedule. `Submit` reads the counts while other candidates are in flight;
`CandidateEnds` is a worker; `Wait` returns any non-empty set of futures that
ended, which are then collected in any order, because the code iterates over a
set. The failure callback is part of the path (`recording`): an append may take
several writes, fail, or be cut off by `Kill`. In the log a line is a record or
`Garbage`; what follows the last newline is `fragment`. A fragment that happens to
be a whole record is read as one; anything appended to it becomes a line that no
later process can read, and the process is then "blocked". Writing and reading are not
inverse: the text of a record is written unescaped (`ensure_ascii=False`) and read back by
`splitlines`, which also breaks at U+0085, U+2028 and U+2029. `AnyText` lets any record hold
such a separator; `separated` says that one on file does, and such a log does not load. `BatchSchedule`
computes the schedule from the quotas; the instance compares its result with
schedules written out by hand.

### CorpusRun

The launcher's path with local teachers; without them only the shards' spawning
differs. An artifact is the output of one shard in one round; its two files are
written in place, each with a moment in which a reader fails on it (`tornTrain`,
`tornVal`). `found` is what the quality gates find in the rows of the two files, a set of
issues each: `NoIssue` for a row that passes, or an `environment_metadata_invalid:` string,
which names the owner and the hashes, so that rows of different domains fail with different
strings. A split is `Fatal` only when all its rows share one such string (`merge.py:221-224`);
of several the rows are dropped, and a pool without a row left is a short one, with a deficit
report. The merge reads all train files, then all validation files: `Outcome` keeps that order,
because it decides whether a broken pool ends in a crash (without a report) or in a
fatal report. The launcher looks at the report that is on disk, the one of this merge or
an older one. `launcher.persisted` is the last round with an artifact, which a resumed
launcher numbers its top-ups from. `status` reads, looks for owners and writes back in
three steps. Abstractions: the shards of a round are spawned in one step; `spawned`
stops counting at two; the operator resumes only a run that is recorded as ended and has
neither an owner nor a merge left, though the code checks neither; the audit and the
publication that follows it are one answer; `status` is modelled for runs whose
`accepted.parquet` does not exist yet. `said` and `raced` are history variables.

### LambdaState and SafetyMultiplier

A save is three steps, opening (and so emptying) the temporary file, writing it,
renaming it; a process may die between any two. `SafetyMultiplier` is the
arithmetic of one update, with amounts in units of the learning rate's
resolution. `rule` is the state's own copy of learning rate, tolerance
and maximum: a file carries them with it, and they win over the configuration. The
driver resets or keeps the file, and writes it once, without the file lock, before
there are actors. `k_stall` is an argument of each training, so the abstract
update takes any of `Limits`.

### Payments and Shopping

One action per tool that changes state, named after the handler, with the
handler's tests as guards. `Init` is what the seeder can produce, up to the
bounds. In `Payments` amounts are in tenths of a cent. A float comparison of two
amounts that are exactly equal may come out either way in the code, and so it
does in the model. In `Shopping` an order keeps its line quantities, because
cancelling gives them back.

## 3. What is checked

| run | properties | what it shows | distinct states |
|---|---|---|---|
| `turn_loop` | `FsmNeverRaises`, `OnlyTheCapLeavesOpen`, `UnknownCommitNeverAnswered`, `FinalAnswerHasNoOpenFailure`, `NoUselessRepeat`, `RoundProgress` | One conversation round under every answer of the teacher and of the server: the loop's control never drives the FSM illegally, never answers over an open failure or an unknown commit, never accepts a useless repeat, and always ends. | 420,452 |
| `turn_loop_authorization` (v) | `FirstRoundMutationsAuthorized` | A first round can commit a mutation outside its source chain: a recovery alternative is dispatched without the authorization check of the teacher's own calls. | — |
| `conversation` | `AcceptedMutationsAuthorized`, `UnknownCommitNeverAccepted`, `AcceptedErrorChangedNothing`, `NoRepeatAcrossRounds`, `SessionsClosed` | A whole candidate: up to three rounds composed from the turn loop, the early gates, and a retry on a fresh session. What is accepted has no unauthorized first-round mutation, no unknown commit and no error report over a committed change; every candidate ends with its session closed. | 175,436 |
| `session_manager` | `OneOperationAtATime`, `NeverRevived`, `CallerStopsAfterTimeout`, `PlacesReturned` | Two threads create, reset, use, read and close sessions on two servers whose answers may be late, refused for lack of room, or never come. Operations on a session exclude each other, no late request revives a closed session, and every place a session took on a living server is given back. | 241,807 |
| `shard_recovery` | `SeedsDistinct`, `IrrelevanceWithinTarget`, `CheckpointLoadable`, `SavedTasksKept`, `EveryRunEnds` | A shard or monolithic generation process with two rounds, killed or failing at any step and started again, with the same arguments or others: no candidate seed is used for two saved tasks, the checkpoint can always be resumed, saved tasks stay, and every run ends. | 996,881 |
| `payments` | `LifecyclesAgree`, `NoDoublePayment`, `RefundsWithinInvoice`, `DisputeFreezesMoney`, `SettledIsFinal` | Any sequence of payment tool calls on a seeded and a created invoice, with amounts in whole cents: invoice and payment lifecycles agree, nothing is paid twice or refunded beyond its amount, a dispute stops the money and settled payments are final. | 19,641 |
| `payments_sub_cent` (v) | `RefundsWithinInvoice` | A refund below half a cent is paid out and recorded but adds nothing to the invoice's refunded total, so the whole amount can still be refunded after it. | — |
| `shopping` | `ReviewsEarned`, `StockConserved` | Any sequence of cart, order, return and review calls on two products, one seeded order and two placed later: no item is created or lost between stock, cart and orders, and reviews stay earned. | 744,192 |
| `batch_scheduler` | `QuotasRespected`, `ShortOnlyWhenExhausted`, `RejectionsRecorded`, `BlockedOnlyByDamage`, `KeepsRequest` | Three requests (two strata sharing a failure limit; one stratum and irrelevance tasks; a fixed budget over two domains) on two workers, with the failure log, killed at any step and started again: quotas hold although they are read early, a stratum is short only when exhausted, every rejection is on file, a log is only refused for a record that is cut off or has a line separator in its text, and the request keeps the abstract promise ShardRecovery is built on. | 434,905 |
| `lambda_state` | `UpdatesInOrder`, `FrozenNeverRises`, `Thaws` | Two actors and a driver share the multiplier file over two trainings with their own k_stall, and any of them dies between any two steps of a save: what the file goes through is a sequence of single updates, and stall protection neither grows nor lasts for ever. | 234,614 |
| `corpus_run` | `ArtifactsOnce`, `CompletedHasFiles`, `StatusTruthful`, `NoTopUpOfFatalPool`, `LaunchEnds` | A run of two shards and a top-up, resumed once, with two kills of any process or of all of them between any two steps, and a status command at any time: no artifact is generated twice, a completed run has both its splits, the recorded status is true unless a status command was overtaken, no pool whose training candidates all fail one environment contract is topped up, and every launch ends. | 767,364 |
| `corpus_run_status` (v) | `CompletedStays` | A status command that has read a running manifest writes it back after its owner has recorded the run as completed: the finished run is marked running or interrupted. | — |

Runs marked (v) exhibit a disagreement between the code and what its own
documentation, comment or tool description says; section 6 explains each.

Every property of a passing run has a mutant: a plausible wrong version of a
mapped definition (a guard dropped, an off-by-one, a reset forgotten) that
breaks it under the same configuration. The mutants stand next to the definitions
they change and carry a comment that says so. No run lists a type
invariant. Those of `TurnLoop`, `Conversation`, `SessionManager`, `LambdaState`, `Payments`, `Shopping`, `ShardRecovery`, `BatchScheduler` and
`CorpusRun` (it stands in `CorpusRunProofs`) are proved as they stand; for the other modules with theorems the inductive invariant contains the types it needs.

### Bounds, and why they are enough

* *Rounds*: one reading and one mutating tool, two names of one record, a
  budget of three and a cap of none or two. Three dispatches are the fewest in
  which a failure, a repair under another name and a repetition fit; refusal and
  recovery limits are the code's own (three). The budget test, the cap and the
  reserved iteration are all reached. Larger budgets are covered by the proofs.
* *Candidates*: two attempts, up to the code's three rounds, one record, a budget of
  three calls in the first round and of one in the later ones (the code too
  gives the first round more). Three are the fewest with which a first round can
  fail, recover by an unauthorized mutation, repair the failure and still be answered: with
  two the gates behind the answer are never needed. What the gates tell apart is which
  round a mutation or a failure is in, and retries only start over.
* *Sessions*: two threads with two operations each, two servers with one place
  each, of which one may die, two sessions. One operation more per thread adds no
  new pair of concurrent operations on one session; one place is where a leak is
  seen at once.
* *Shards*: two domains of one task each, a first request of three tasks with at most one
  irrelevance task among them, two recovery rounds, one restart, two
  configurations. Three tasks are the fewest for which a pool can fill up in the middle of a
  request and still leave a partial checkpoint behind it, so that the resumed process meets
  the request of no task (`SkipRequest`). A second restart is not in the instance; the
  safety properties are proved for any number. `MaxOvertaken` is one: each accepted candidate may
  have left one before it behind, rejected or still running, which is enough for
  tasks out of the order of their seeds. `MaxRejected` is none: an irrelevance candidate that
  is rejected only moves the next one on. The strides are scaled down (14 and 7 instead
  of 100000 and 10000); `StridesAssumption` states the room a request needs, for
  which `Strata` counts the pairs of a domain and a difficulty.
* *Requests*: three requests (two strata of one domain; one stratum and an irrelevance task;
  a fixed budget over two domains and an irrelevance task), two workers, one
  start or two. Two workers are the fewest with which a success is late; two
  strata under one failure limit the fewest with which one takes the other's
  attempts. Six attempts are what the code's own formula gives for two tasks.
* *Runs*: two shards in the first round and one in a top-up, three candidates
  needed, one top-up round per launch, two launches and two kills. Two shards are the fewest of
  which one can be broken and the other not; three candidates cannot be had without a
  top-up; the second launch is a resumption with artifacts of the first on disk. A shard's
  rows pass, or fail one environment contract, or two: the fewest with which a pool can be fatal,
  mixed, or without a row left and not fatal;
  two kills let the owner and the launcher die, or a shard and the resumed run.
* *Multiplier*: two actors and the driver, two values of `k_stall`, a streak of at most
  three, batches of four rollouts with none, two or all of them unsafe, two trainings. Streaks
  pass both limits; the second training keeps or resets what the first left.
* *Payments*: one seeded and one created invoice, three payments, three refunds
  and two disputes: two of each on one invoice and one to spare. Identifiers the
  handlers number afresh are interchangeable, hence the symmetry.
* *Shopping*: two products, one seeded order and two placed later, quantities up to
  two.

Deadlock checking is off where the system may stop: a shard or a run that has
published or failed, a request that returned, a multiplier whose trainings (a
bound) are used up, a server session nobody calls any more or whose
identifiers (a bound) are used up. In the other modules the end is an explicit stuttering step (`RoundEnded`,
`Returned`, `Finished`), so a deadlock would be an error.

### Fairness

* `Conversation`: weak fairness of `Proceed`. `generate_one` is one thread; the
  teacher's requests and the servers' answers have timeouts, so a step that is
  possible is taken. Needed by `SessionsClosed`.
* `SessionManager`: weak fairness of every thread inside an operation and of every
  live server. A thread waits at most for a timeout, and for a lock: no strong
  fairness is needed for the lock because the instance has two threads and a
  bounded number of operations, so the other thread eventually leaves it free.
  Starting an operation and the death of a server carry no fairness. That a
  server keeps reading supposes its handlers return; a full pipe, which would
  block the writer without a timeout, is not modelled.
* `ShardRecovery`: weak fairness of the process's own steps, none of `Restart`:
  nothing promises that anyone starts the shard again. Needed by `EveryRunEnds`.
* `BatchScheduler`: weak fairness of the coordinator and of the workers as a whole,
  none of `Kill`. Every candidate ends because its requests have timeouts
  and its loops are bounded (`RoundProgress`). Needed by the abstract request's end.
* `CorpusRun`: weak fairness of the command line, the launcher, the merge and of each
  shard: each is a program that runs on. None of the kills, of `status`, or of
  `Resume`, which is the operator's. Needed by `LaunchEnds`.
* `LambdaState`: weak fairness of an update in progress, strong fairness of taking
  the lock, which is free again and again while others use it: `flock` queues its
  waiters. None of the end of a batch, of starts or of deaths; `Thaws` therefore supposes
  that safe batches keep being published.
* Termination of a round needs no fairness: `RoundProgress` says that every step
  spends from a finite budget.

## 4. What is proved

TLAPS checks the following for every value of the constants that satisfies the
modules' named assumptions.

`ConversationProofs`, about a round (any tools, arguments, aliases, affects relation,
histories, budgets and caps): `TypeOK`, `FsmNeverRaises`, `OnlyTheCapLeavesOpen`,
`UnknownCommitNeverAnswered`, `FailureEntersRecovery`, `NoUselessRepeat`,
`FinalAnswerHasNoOpenFailure`, and the action property `RoundProgress`. The
invariant `RoundInv` adds

* `FsmOfPhase`, where the loop leaves the FSM whenever it waits, which is why the
  next edge is legal;
* `CountersOpen`, the accounting behind the reserved terminal iteration: while a
  round runs, turns never exceed dispatches and no refusal counter is at its
  limit;
* `CapReached` and `PoisonedInRecovery`, what holds when the cap stopped the
  loop, and where a poisoned session can be met.

The step theorem has one case per action. The lemmas `PathOf...` show once that
each FSM path an action takes is legal from where it starts. The open failures of a
round are what a recursion over its history leaves (`Unresolved`); `OpenAfter` says the same
without recursion, shown by the least number at which the two could differ, and from it
follows that an answered round has a later repair for each failure.

About a candidate (any number of rounds and calls): the four invariants of the run,
`AcceptedMutationsAuthorized`, `UnknownCommitNeverAccepted`,
`NoRepeatAcrossRounds`, `AcceptedErrorChangedNothing`. `IInv` says that each success of a history is an oracle
call and the other way round (`Recorded`, `RoundsRecorded`), which is what relates the gates (they
read oracle calls) to the properties (they speak of histories), and what the early
gates have established of an accepted conversation (`PastTheGate`). `TInv` says that the
prior history of a round is the concatenation of the earlier ones.

`WInv` is about the candidate's walk. It lifts `RoundInv` to the whole conversation, so that
what is proved of one round (the FSM is never asked for an illegal edge, a terminal action is
reserved, a failure enters recovery, an unknown commit goes no further) holds of every
round and every retry, whatever budget the later rounds get. A later round may start because only an answered round is
continued, and an answered round leaves the session unpoisoned and the FSM at `response`:
`EndRecorded`, that the terminal action is the last oracle entry, is what relates the oracle the
code looks at to the way the round ended. From it follow `ConversationTypeOK`, `HeldWhileWorking` (the
manager holds the candidate's session exactly as long as `generate_one` works) and the action
property `CandidateProgress`, the safety core of `SessionsClosed`: every step goes forward in a
bounded order of attempts, stages, rounds and what is left to a round. What TLC adds is that a
step is always there to take.

`PaymentsProofs` (any identifiers, prices and amounts): `TypeOK`,
`LifecyclesAgree`, `NoDoublePayment`, `DisputeFreezesMoney`, `SettledIsFinal`. The
strengthening is the link between an invoice and its payments in both
directions (`LinkIsLive`, `LiveIsLinked`) and `DisputesHold`, that an invoice with
an open dispute is pending or disputed: `refund_invoice` does not look for a
dispute, and is safe only because of that. `RefundsWithinInvoice` is proved under
`WholeCents`, that amounts given to the tools are whole cents (without it the run
`payments_sub_cent` refutes it): then rounding is exact, and the running total is the sum
of the refunds (`Accounted`). The sum is a fold in an unknown order; `Adds`
characterizes the functions that take one element's amount off per element, of which
there is one by a smallest counterexample, and the fold agrees with it.

`LambdaStateProofs` (any actors, rules, batches and limits): `TypeOK`,
`ReadableInTraining`, `FrozenByStreak`, the refinement `UpdatesInOrder` (its mapping is the
published file, and every step that renames is one abstract update) and
`FrozenNeverRises`. The strengthening says what each place in the code
implies: an actor inside a save holds exactly the update of the state the file has
now, because only the holder of the lock publishes; the temporary file is complete
at the rename; outside of a save of the holder nobody renames.

`CorpusRunProofs` (any shards, demands, top-up rounds, launches and kills):
`ArtifactsOnce`, `CompletedHasFiles`, `StatusTruthful`, `NoTopUpOfFatalPool`. `IInv`
is the type invariant and five parts:

* `Together`, who can run at the same time as whom: a launcher that ended has a
  command line waiting for it, a merge has the owner it says it has, or none;
* `Numbering`, that no artifact beyond the launcher's current round has been started, which is
  why the next round is new although shards of an earlier launch may still run;
* `Splits`, that both splits are whole from the end of a merge until a completed run is
  recorded;
* `Truth`, what the manifest can say while the status command is under way;
* `Candidates`, that a report of a short pool implies that the training candidates do not all
  fail one environment contract (`Mixed`, two of them that differ), and candidates only become
  more: this is why an old report cannot lead to a top-up of a pool that is fatal by now.

The same module proves the type invariant and the safety core of `LaunchEnds`. `WaitsForMerge`:
the command line and the launcher each wait only for a merge of their own, whatever was killed
meanwhile. `WorkAdvances`: every step of the command line, the launcher, a merge or a shard
brings the run further in an order of finitely many places (stage of the command, launcher
ended, top-ups, stage of the launcher, stage of the merge, shards that ended, and three
counts of the files written), so between two kills or commands of the operator it takes only
so many. That the sets of shards are finite is assumed for it (`RunAssumption`).

`SessionManagerProofs` (any threads, sessions, servers and operations): `TypeOK`,
`RegisteredHasLock`, `OneOperationAtATime`, `NeverRevived`,
`CallerStopsAfterTimeout`. The invariant has, besides the type, three parts: `Control`, what each
place of a thread's walk implies about locks, registry and the other threads;
`Wire`, that in a pipe a session's reset stands before any close of it, and a close
under way is for a session that is gone for good; and `TimedOutIsGone`, that a session a call timed
out on is gone or its caller is about to remove it.

The same module proves the safety core of `PlacesReturned`. `NoPlaceForgotten`: for every
session that a live server holds, or is still asked to open, and that is gone from the
registry, a close is in that server's pipe or a thread inside an operation is about to send
one (`NothingForgotten`); it holds in every state, in the middle of every operation. Its
consequence `NothingLeaked`: when no operation is under way and the live servers have
read their pipes, a live server holds only registered sessions (`RestLeaksNothing`). What
is left to TLC is that this state of rest is reached. The strengthening `PInv` adds
where an owner is known (`FirstOwner`: a session is only ever opened on the first server
its creation asked) and that a request to open is from the creation under way, or its session
is gone and closed behind it (`OpensKnown`).

Nobody waits for ever for a lock. `HeldByWorker`: whoever holds a session's lock is between its
requests on that session, waiting for a server until a timeout at most and never for a lock; so
no operation leaves a session locked, however it ends, and no two wait for each other
(`NoLockLeft`). `OperationAdvances`: every step of a thread in an operation goes forward in a
bounded order (the operation, its cleanup, its end; in each the lock and then the owners one by one),
and no step of another thread or of a server moves it (`Advances`).

`ShardRecoveryProofs` (any domains, quotas, rounds, configurations and restarts, under
`StridesAssumption`): `SeedsDistinct`, `IrrelevanceWithinTarget`, `CheckpointLoadable`,
`SavedTasksKept`. The tasks held are distinct because those of the earlier requests lie behind two
frontiers, one for normal and one for irrelevance candidates, that only
move on while the process works (`SeedsOrdered`), and those of the running request come from
offsets already `used` (`Spent`), in whatever order its candidates end; the checkpoint is a
beginning of what is held (`Saved`), and whatever wrote it, its tasks lie behind the place a
resumed process starts from (`Written`). `Places` says what is empty where, `WithinTarget`
what the irrelevance tasks of the requests so far leave of the target.

The same module proves `TypeOK` and the safety core of `EveryRunEnds`: `WorkAdvances`, every
step a process takes brings it further in `Standings`, an order of finitely many places (stage of
the run, round, request, phase of the request, tasks so far), so between two restarts it takes
only so many. `Bounded` gives the places their bounds: no round past the last, no more requests
in a round than domains, no more tasks than a request asked for.

`BatchSchedulerProofs` (any requests, workers, and any number of kills):
`QuotasRespected`, `RejectionsRecorded`, `BlockedOnlyByDamage`, `ShortOnlyWhenExhausted`,
and the safety part of `KeepsRequest` (`KeepsPromise`), every step of the request being
one of `CandidateRequest` or none. As long as no append was cut off no line of the log is
garbage (`Clean`), so it loads unless a record has a line separator in its text, and a rejected candidate is on file or is the one being
recorded (`RejectedKnown`). A quota counts when a task is collected, not when its
candidate is submitted. What is left out was full or given up and stays so (`LeftOut`); a domain
that is given up has no more candidates that did not fail than it was asked for
(`GivenUpLeavesQuota`, from the formula of the limit), and a domain
that has its quota has no stratum short of its own: the domain's quota is a fold, shown
to be the number of pairs of a level and a place in its quota.

The same module proves `TypeOK`, no more candidates in flight than workers included, and the
safety core of the end that `KeepsRequest` promises. `WaitsForFuture`: the coordinator never waits
when nothing is in flight. `WorkAdvances`: every step of the coordinator or of a candidate brings
the request further in an order of finitely many places (part of the request, candidates
that ended, candidates collected, irrelevance candidates tried, place between two collected
candidates, next candidate to submit, bytes of a record written), so between two kills it takes
only so many.

`ShoppingProofs` (any products, orders, quantities and any finite number of seeded orders): the
types, `ReviewsEarned`, that every return is of an order that was shipped
(`ReturnsOfShipped`), and `StockConserved`. The items in orders are a set, one element per item,
so that conservation is about the sizes of sets: those of an order are as many as it says
(`ItemsCounted`), a checkout adds a disjoint set, a cancellation takes one away, every other
call leaves the set alone (`OrderedMoves`). A review stays earned because
no call takes an order out of the statuses that count (`ShippedOnce`).

Proved, and in no run: the type invariants, `FailureEntersRecovery`, `FrozenByStreak`,
`ReadableInTraining`, `RegisteredHasLock`, `NoPlaceForgotten`, `NothingLeaked`,
`ReturnsOfShipped`, `HeldWhileWorking`, `CandidateProgress`, `HeldByWorker`, `OperationAdvances`,
`WaitsForFuture`, `WaitsForMerge`, and `WorkAdvances` of `ShardRecovery`,
`BatchScheduler` and `CorpusRun`.

Every safety property of a passing run has a theorem. Only model-checked: liveness
(`SessionsClosed`, `PlacesReturned`, `EveryRunEnds`, `LaunchEnds`, `Thaws`, the end promised
by `KeepsRequest`), which is outside what the prover handles.

## 5. What is not modelled

* The content of prompts, queries and observations, and every gate that is a
  predicate over them.
* Process start, stop and restart of servers; tool discovery (one full discovery
  per process, then a snapshot).
* The fixed budget of attempts in the shard process (`corpus/shard.py:629`,
  `corpus/shard_io.py:299`, `generation/batch.py:452`), a diagnostic mode that publishes whatever
  came of the budget: `BatchScheduler` has it, `ShardRecovery` has not.
* The shared name of the temporary file of the manifest (`corpus/cli.py:73`): two commands that
  write at once could rename each other's file; `CorpusRun` writes the manifest in one step.
* What follows the merge: the second phase of a run, its audit, the publication
  of two files by two renames.
* The rollout loop, and eight domain servers, of which banking is next.
* Rewards, audits, artifact serialization and registries: pure functions or static data.
* The vendored trainer under `src/verl`: third-party code and most of the
  repository's lines. This project's own code only configures it and hangs two hooks on
  it (`LambdaState` models what those share).

## 6. Findings

* **Recovery may mutate without authorization** (`turn_loop_authorization`).
  `docs/PROVE_ARCHITECTURE.md:62` lets the first round mutate only with the tools of
  its source chain; a recovery that switches to another visible tool passes no
  such check (`turn_loop.py:460-529`). Outside the paper baseline the candidate is
  then rejected by the early gate (`AcceptedMutationsAuthorized` holds), after the
  mutation has happened in its session.
* **Refunds below half a cent are not counted** (`payments_sub_cent`). The running
  total is rounded, the refunds are not; they can add up to more than the invoice.
  With whole cents the bound holds (run `payments`).
* **A completed run can become a running or an interrupted one** (`corpus_run_status`).
  `reconcile_run_manifest` promises to converge idempotently; it reads the manifest, looks for owners,
  and writes back what it read: a `status` overtaken by the
  owner's last write puts an older status over "completed".

Met while modelling, and not shown by a run of their own:

* *A timed-out session is open to other threads for a moment.* `quarantine_session`
  (`protocol/manager.py:196`) promises that concurrent callers fail closed; the executor
  calls it (`executor.py:106`) after the call's lock was released, so a waiting thread
  can send first. The calling thread itself is safe, and the generation pipeline uses
  a session from one thread only.
* *The checkpoint interval is per request* (`corpus/shard.py:441`): accepted tasks of requests
  shorter than the interval stay in memory however many there are.
* *A resumed pool may mix difficulties*: the recorded configuration
  (`corpus/shard_recovery.py:161`) leaves `--difficulty` out.
* *A seeded order can be returned twice*: the seeder (`state_seeders/shopping.py:156`)
  gives shipped orders a return and leaves them shipped.
* *Strata share one failure limit.* `generation/batch.py:32-36` calls the strata
  independent; the limit counts the failures of the whole domain
  (`batch.py:264-269`), so a stratum can lose attempts to another.
* *A damaged failure log blocks a resumed shard for good*: a line that is not JSON raises at every
  start (`failure_records.py:34`). An append that was cut off leaves one. So does a record that was
  written whole: its message or traceback goes into the file with U+0085, U+2028 and U+2029
  unescaped (`failure_records.py:96`), and `splitlines` (line 28) ends a line there.
  `BlockedOnlyByDamage` says that nothing else does.
* *Stall protection.* It freezes "after K consecutive" unsafe batches, but a safe
  batch only takes one off the streak; the streak goes on growing while frozen, so thawing
  takes as many safe batches as the excess. A kept file's learning rate, tolerance and
  maximum win over the configuration; a kept file that is missing starts from the
  class's defaults; `load_or_default` with overrides raises when the file exists.
* *A pool without a useful candidate may be topped up.* `merge.py:221` refuses only a split whose
  rows all share one issue string, and the strings name the owner and the hashes
  (`registry/environment_metadata.py:445-455`): candidates of several domains that all come from
  another environment have several, leave a report of a short pool and are answered with a paid
  round (`launcher.sh:550-561`). `NoTopUpOfFatalPool` therefore speaks of one contract only, and of
  the training candidates only: a fatal validation split can be topped up by the report of an
  earlier merge.
* *Merging.* A candidate file torn by a kill fails every later merge, which then goes by the
  report of an older one, though `launcher.sh:700` speaks of recomputed deficits. A command
  line that was killed while its launcher finished leaves a run that `status` calls interrupted.

## 7. Plan

In order of what they would add:

1. `Banking`, the next server with money in several records (accounts, transfers,
   holds), built like `Payments`; then the others.
2. An abstract session lifecycle (absent, live, gone) that `SessionManager` implements, and a
   pipe of bounded size, for the write without a timeout at `protocol/transport.py:251`.
3. The rollout loop (`src/src/agent_loop`) over `SessionManager`: one session per rollout,
   audit events in order, cancellation in the middle of a call.
4. What follows the merge in `CorpusRun`: the audit, the publication of two files by two
   renames, the second phase.

## 8. Running it

    tlc -config TurnLoop.cfg MCTurnLoop
    tlapm ConversationProofs.tla

Each configuration belongs to the `MC` module of the same system; `PROJECT.json`
pairs them.
