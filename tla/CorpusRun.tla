------------------------------- MODULE CorpusRun -------------------------------
(***************************************************************************)
(* One generation run: the command line that starts, resumes and reports   *)
(* it (corpus/cli.py), the launcher (corpus/launcher.sh, the path with     *)
(* vLLM), the shard processes it starts (corpus/shard.py) and the merge of *)
(* their candidates (corpus/merge.py).                                     *)
(*                                                                         *)
(* They share files only: the manifest, the candidate files of the shards, *)
(* the deficit report and the run's two splits.  The launcher leads a      *)
(* process group of its own, so it outlives the command line, and its      *)
(* shards and its merge outlive it.                                        *)
(***************************************************************************)
EXTENDS Integers, FiniteSets

CONSTANTS
  InitialChunks, TopUpChunks,  \* shards of the first round, of a top-up round
  Needed,                      \* candidates the two splits take
  NoIssue,                     \* what the quality gates find in a row that passes them
  EnvironmentIssues,           \* environment_metadata_invalid: an owner, a hash, another one
  InitialContents,             \* what they find in the two splits of a shard of the first round
  TopUpContents,               \* ... of a top-up, which is asked for no row to validate on
  TopUpRounds,                 \* MERGE_TOPUP_ROUNDS
  MaxLaunches,                 \* bound: the run and its resumptions
  MaxKills                     \* bound: processes killed

ASSUME RunAssumption ==
  /\ Needed \in Nat \ {0} /\ TopUpRounds \in Nat
  /\ MaxLaunches \in Nat \ {0} /\ MaxKills \in Nat
  /\ IsFiniteSet(InitialChunks) /\ IsFiniteSet(TopUpChunks)

(* A shard without candidates fails, so its first split has a row.         *)
ASSUME ContentsAssumption ==
  /\ NoIssue \notin EnvironmentIssues
  /\ \A c \in InitialContents \union TopUpContents :
       c = [train |-> c.train, val |-> c.val] /\ c.train # {}
  /\ \A c \in TopUpContents : c.val = {}

(* An artifact is the candidates of one shard, named by round and chunk.   *)
Rounds    == 0 .. TopUpRounds * MaxLaunches
Artifacts == ({0} \X InitialChunks) \union ((Rounds \ {0}) \X TopUpChunks)
Round(r)  == {a \in Artifacts : a[1] = r}

VARIABLES
  manifest,    \* the status in generation_manifest.json
  said,        \* the status the command line wrote last
  cli,         \* [pc, code] of the command run or resume
  launcher,    \* [pc, resumed, persisted, topups, code]
  spawned,     \* how often the shard of an artifact was started, up to twice
  alive,       \* the shards that run
  file,        \* the candidate files of each artifact
  found,       \* what the quality gates find in the rows of an artifact
  merge,       \* [pc, by] of the merge process, and who started it
  report,      \* merge_deficits.json: "none", "short", "fatal" or "enough"
  run,         \* the run's splits, [train, val]
  status,      \* of a status command: "off", "read", or the status it writes
  raced,       \* a status command was overtaken by a write of the manifest
  launches, kills

owners == << cli, launcher >>
pool   == << spawned, alive, file, found >>
data   == << report, run >>
words  == << manifest, said, raced >>
bounds == << launches, kills >>
vars   == << owners, pool, merge, data, words, status, bounds >>

Off == [pc |-> "off", resumed |-> FALSE, persisted |-> 0, topups |-> 0, code |-> 0]
LauncherUp == launcher.pc # "off"
CliUp      == cli.pc # "idle"
Goto(place) == launcher' = [launcher EXCEPT !.pc = place]

(***************************************************************************)
(* The command line.                                                       *)
(***************************************************************************)
(* Every write of the manifest by its owner; a status command that has     *)
(* read it and not written it back yet is overtaken.                       *)
Say(s) == manifest' = s /\ said' = s /\ raced' = (raced \/ status # "off")

(* run: the run's directory is reserved first, so this happens once.       *)
StartRun ==
  /\ ~CliUp /\ launches = 0
  /\ launches' = 1
  /\ cli' = [pc |-> "launch", code |-> 0]
  /\ Say("running")
  /\ UNCHANGED << launcher, pool, merge, data, status, kills >>

(* resume: a merge without a teacher first.  The operator resumes a run    *)
(* that is recorded as ended and of which no owner or merge is left; the   *)
(* code checks neither.                                                    *)
Resume ==
  /\ ~CliUp /\ ~LauncherUp /\ merge.pc = "off"
  /\ manifest \in {"failed", "interrupted"} /\ launches < MaxLaunches
  /\ launches' = launches + 1
  /\ cli' = [pc |-> "merge", code |-> 0]
  /\ merge' = [pc |-> "read", by |-> "cli"]
  /\ UNCHANGED << launcher, pool, data, words, status, kills >>

MergeEnded(by) == merge.by = by /\ merge.pc \in {"ok", "fatal", "failed"}

(* With enough candidates the command ends, and leaves the manifest as it  *)
(* is; with fatal ones too; else the launcher is started.                  *)
ResumeMerged ==
  /\ cli.pc = "merge" /\ MergeEnded("cli")
  /\ merge' = [merge EXCEPT !.pc = "off"]
  /\ IF merge.pc = "failed"
     THEN cli' = [cli EXCEPT !.pc = "launch"] /\ Say("running")
     ELSE cli' = [cli EXCEPT !.pc = "idle"] /\ UNCHANGED words
  /\ UNCHANGED << launcher, pool, data, status, bounds >>

(* Mutant: the rounds are numbered from one again.                          *)
PersistedForgotten(r) == r = 0

(* The last round that has left an artifact of any kind, or the first one. *)
Persisted(r) ==
  /\ \A a \in Artifacts : spawned[a] > 0 => a[1] <= r
  /\ r = 0 \/ \E a \in Artifacts : spawned[a] > 0 /\ a[1] = r

Launch ==
  /\ cli.pc = "launch"
  /\ cli' = [cli EXCEPT !.pc = "wait"]
  /\ \E r \in Rounds :
       /\ IF launches > 1 THEN Persisted(r) ELSE r = 0
       /\ launcher' = [Off EXCEPT !.pc = "start", !.resumed = launches > 1, !.persisted = r]
  /\ UNCHANGED << pool, merge, data, words, status, bounds >>

LauncherEnded ==
  /\ cli.pc = "wait" /\ launcher.pc \in {"exited", "off"}
  /\ cli' = [pc |-> "record", code |-> IF launcher.pc = "off" THEN 137 ELSE launcher.code]
  /\ launcher' = Off
  /\ UNCHANGED << pool, merge, data, words, status, bounds >>

(* Mutant: the return code of the launcher is not looked at.                *)
RecordAnyCode ==
  /\ cli.pc = "record"
  /\ cli' = [cli EXCEPT !.pc = "idle"]
  /\ \/ "partial" \notin {run.train, run.val} /\ Say("completed")
     \/ Say("failed")
  /\ UNCHANGED << launcher, pool, merge, data, status, bounds >>

(* A split or a failure record that cannot be read makes a run failed.     *)
Record ==
  /\ cli.pc = "record"
  /\ cli' = [cli EXCEPT !.pc = "idle"]
  /\ \/ cli.code = 0 /\ "partial" \notin {run.train, run.val} /\ Say("completed")
     \/ Say("failed")
  /\ UNCHANGED << launcher, pool, merge, data, status, bounds >>

(* Shut down by the operator: the whole group is killed first.             *)
RecordInterrupt ==
  /\ cli.pc = "interrupt"
  /\ cli' = [cli EXCEPT !.pc = "idle"]
  /\ Say("interrupted")
  /\ UNCHANGED << launcher, pool, merge, data, status, bounds >>

(***************************************************************************)
(* A shard: the files of its candidates are written one after the other,   *)
(* and in place.                                                           *)
(***************************************************************************)
Started(artifacts) ==
  /\ spawned' = [a \in Artifacts |->
       IF a \in artifacts /\ spawned[a] < 2 THEN spawned[a] + 1 ELSE spawned[a]]
  /\ alive' = alive \union artifacts
  /\ UNCHANGED << file, found >>

Contents(a) == IF a \in Round(0) THEN InitialContents ELSE TopUpContents
NextFile ==
  [none |-> "tornTrain", tornTrain |-> "train", train |-> "tornVal", tornVal |-> "whole",
   whole |-> "tornTrain"]

ShardWrites(a) ==
  /\ a \in alive
  /\ file' = [file EXCEPT ![a] = NextFile[file[a]]]
  /\ IF file'[a] = "train" THEN \E c \in Contents(a) : found' = [found EXCEPT ![a] = c]
                           ELSE UNCHANGED found
  /\ alive' = IF file'[a] = "whole" THEN alive \ {a} ELSE alive
  /\ UNCHANGED << owners, spawned, merge, data, words, status, bounds >>

(* Nothing to publish, or an exception.                                    *)
ShardFails(a) ==
  /\ a \in alive /\ file[a] = "none"
  /\ alive' = alive \ {a}
  /\ UNCHANGED << owners, spawned, file, found, merge, data, words, status, bounds >>

(***************************************************************************)
(* The merge of all candidate files there are.                             *)
(***************************************************************************)
With(states) == {a \in Artifacts : file[a] \in states}
TrainFiles   == With({"train", "tornVal", "whole"})
ValFiles     == With({"whole"})
InTrain      == UNION {found[a].train : a \in TrainFiles}
InVal        == UNION {found[a].val : a \in ValFiles}

(* A split is fatal when all of its rows fail the same environment         *)
(* contract; of several issues the rows are dropped, and nothing else.     *)
Fatal(issues) == \E i \in EnvironmentIssues : issues = {i}

Useful ==
  {a \in TrainFiles : NoIssue \in found[a].train} \union {a \in ValFiles : NoIssue \in found[a].val}

(* The train files are read first.  A file that is being written, or was   *)
(* when its shard died, ends the merge without a report.  A pool without a *)
(* row left is a short one.                                                *)
Outcome ==
  IF With({"tornTrain"}) # {} THEN "crash"
  ELSE IF Fatal(InTrain) THEN "fatal"
  ELSE IF With({"tornVal"}) # {} THEN "crash"
  ELSE IF Fatal(InVal) THEN "fatal"
  ELSE IF ValFiles = {} THEN "crash"
  ELSE IF Cardinality(Useful) < Needed THEN "short" ELSE "enough"

MergeReads ==
  /\ merge.pc = "read"
  /\ report' = IF merge.by = "launcher" /\ Outcome # "crash" THEN Outcome ELSE report
  /\ merge' = [merge EXCEPT !.pc = IF Outcome = "enough" THEN "train"
                                   ELSE IF Outcome = "fatal" THEN "fatal" ELSE "failed"]
  /\ run' = IF Outcome = "enough" THEN [run EXCEPT !.train = "partial"] ELSE run
  /\ UNCHANGED << owners, pool, words, status, bounds >>

MergeWrites ==
  /\ \/ /\ merge.pc = "train"
        /\ run' = [train |-> "whole", val |-> "partial"]
        /\ merge' = [merge EXCEPT !.pc = "val"]
     \/ /\ merge.pc = "val"
        /\ run' = [run EXCEPT !.val = "whole"]
        /\ merge' = [merge EXCEPT !.pc = "ok"]
  /\ UNCHANGED << owners, pool, report, words, status, bounds >>

(* Who waited for it is gone.                                              *)
MergeLeft ==
  /\ \/ MergeEnded("cli") /\ cli.pc # "merge"
     \/ MergeEnded("launcher") /\ launcher.pc # "merging"
  /\ merge' = [merge EXCEPT !.pc = "off"]
  /\ UNCHANGED << owners, pool, data, words, status, bounds >>

(***************************************************************************)
(* The launcher.                                                           *)
(***************************************************************************)
Exit(code) == launcher' = IF cli.pc = "wait" THEN [launcher EXCEPT !.pc = "exited", !.code = code]
                                             ELSE Off

(* The teachers come up or not.  A resumed launcher starts no first round. *)
StartTeachers ==
  /\ launcher.pc = "start"
  /\ \/ Exit(1) /\ UNCHANGED pool
     \/ launcher.resumed /\ Goto("merge") /\ UNCHANGED pool
     \/ ~launcher.resumed /\ Goto("initial") /\ Started(Round(0))
  /\ UNCHANGED << cli, merge, data, words, status, bounds >>

InitialEnded ==
  /\ launcher.pc = "initial" /\ alive \intersect Round(0) = {}
  /\ IF Round(0) \intersect With({"whole"}) = {} THEN Exit(1) ELSE Goto("merge")
  /\ UNCHANGED << cli, pool, merge, data, words, status, bounds >>

StartMerge ==
  /\ launcher.pc = "merge"
  /\ Goto("merging")
  /\ merge' = [pc |-> "read", by |-> "launcher"]
  /\ UNCHANGED << cli, pool, data, words, status, bounds >>

MergeSucceeded ==
  /\ launcher.pc = "merging" /\ merge.pc = "ok"
  /\ Goto("audit")
  /\ merge' = [merge EXCEPT !.pc = "off"]
  /\ UNCHANGED << cli, pool, data, words, status, bounds >>

(* Mutant: a report of a fatal pool is taken for one of a short pool.       *)
MayTopUpFatal == launcher.topups < TopUpRounds /\ report \in {"short", "fatal"}

(* The report looked at is the last one written, by this merge or not.     *)
MayTopUp == launcher.topups < TopUpRounds /\ report = "short"
CurrentRound == launcher.persisted + launcher.topups

GiveUp ==
  /\ launcher.pc = "merging" /\ merge.pc \in {"fatal", "failed"} /\ ~MayTopUp
  /\ Exit(IF launcher.topups < TopUpRounds /\ report = "fatal" THEN 2 ELSE 1)
  /\ merge' = [merge EXCEPT !.pc = "off"]
  /\ UNCHANGED << cli, pool, data, words, status, bounds >>

TopUp ==
  /\ launcher.pc = "merging" /\ merge.pc \in {"fatal", "failed"} /\ MayTopUp
  /\ merge' = [merge EXCEPT !.pc = "off"]
  /\ launcher' = [launcher EXCEPT !.pc = "topup", !.topups = @ + 1]
  /\ Started(Round(CurrentRound + 1))
  /\ UNCHANGED << cli, data, words, status, bounds >>

(* Mutant: the artifacts are waited for, not their processes.               *)
TopUpWhole ==
  /\ launcher.pc = "topup" /\ Round(CurrentRound) \subseteq With({"whole"})
  /\ Goto("merge")
  /\ UNCHANGED << cli, pool, merge, data, words, status, bounds >>

TopUpEnded ==
  /\ launcher.pc = "topup" /\ alive \intersect Round(CurrentRound) = {}
  /\ Goto("merge")
  /\ UNCHANGED << cli, pool, merge, data, words, status, bounds >>

(* The audit of the two splits; their publication follows.                 *)
Audit ==
  /\ launcher.pc = "audit"
  /\ Exit(0) \/ Exit(1)
  /\ UNCHANGED << cli, pool, merge, data, words, status, bounds >>

(***************************************************************************)
(* status: reconcile_run_manifest.  The manifest is read, the owners are   *)
(* looked for, and it is written back, changed or not.                     *)
(***************************************************************************)
StatusReads ==
  /\ status = "off" /\ manifest = "running"
  /\ status' = "read"
  /\ UNCHANGED << owners, pool, merge, data, words, bounds >>

(* Mutant: only the command line counts as an owner.                        *)
OwnedByCommand == CliUp
Owned == CliUp \/ LauncherUp

StatusChecks ==
  /\ status = "read"
  /\ status' = IF Owned THEN "running" ELSE "interrupted"
  /\ UNCHANGED << owners, pool, merge, data, words, bounds >>

StatusWrites ==
  /\ status \in {"running", "interrupted"}
  /\ manifest' = status /\ status' = "off"
  /\ UNCHANGED << owners, pool, merge, data, said, raced, bounds >>

(***************************************************************************)
(* Kills.                                                                  *)
(***************************************************************************)
Kill == kills < MaxKills /\ kills' = kills + 1 /\ UNCHANGED launches

(* The group of the launcher: its merge, and the shards it has started.    *)
Group == {a \in alive : a[1] > launcher.persisted \/ ~launcher.resumed}

OperatorStops ==
  /\ cli.pc = "wait" /\ Kill
  /\ cli' = [cli EXCEPT !.pc = "interrupt"] /\ launcher' = Off
  /\ alive' = alive \ Group
  /\ merge' = IF merge.by = "launcher" THEN [merge EXCEPT !.pc = "off"] ELSE merge
  /\ UNCHANGED << spawned, file, found, data, words, status >>

CliKilled ==
  /\ CliUp /\ Kill
  /\ cli' = [cli EXCEPT !.pc = "idle"]
  /\ launcher' = IF launcher.pc = "exited" THEN Off ELSE launcher
  /\ UNCHANGED << pool, merge, data, words, status >>

LauncherKilled ==
  /\ launcher.pc \notin {"off", "exited"} /\ Kill
  /\ launcher' = Off
  /\ UNCHANGED << cli, pool, merge, data, words, status >>

ShardKilled(a) ==
  /\ a \in alive /\ Kill
  /\ alive' = alive \ {a}
  /\ UNCHANGED << owners, spawned, file, found, merge, data, words, status >>

MergeKilled ==
  /\ merge.pc \in {"read", "train", "val"} /\ Kill
  /\ merge' = [merge EXCEPT !.pc = "failed"]
  /\ UNCHANGED << owners, pool, data, words, status >>

(* The machine goes down.                                                  *)
Blackout ==
  /\ Kill
  /\ cli' = [cli EXCEPT !.pc = "idle"] /\ launcher' = Off /\ alive' = {}
  /\ merge' = [merge EXCEPT !.pc = "off"] /\ status' = "off"
  /\ UNCHANGED << spawned, file, found, data, words >>

Init ==
  /\ manifest = "none" /\ said = "none" /\ raced = FALSE /\ status = "off"
  /\ cli = [pc |-> "idle", code |-> 0] /\ launcher = Off
  /\ spawned = [a \in Artifacts |-> 0] /\ alive = {}
  /\ found = [a \in Artifacts |-> [train |-> {}, val |-> {}]]
  /\ file = [a \in Artifacts |-> "none"]
  /\ merge = [pc |-> "off", by |-> "cli"]
  /\ report = "none" /\ run = [train |-> "none", val |-> "none"]
  /\ launches = 0 /\ kills = 0

Command  == ResumeMerged \/ Launch \/ LauncherEnded \/ Record \/ RecordInterrupt
Shard(a) == ShardWrites(a) \/ ShardFails(a)
Merge    == MergeReads \/ MergeWrites \/ MergeLeft
Launcher ==
  \/ StartTeachers \/ InitialEnded \/ StartMerge \/ MergeSucceeded
  \/ GiveUp \/ TopUp \/ TopUpEnded \/ Audit
Status == StatusReads \/ StatusChecks \/ StatusWrites
Kills  ==
  \/ OperatorStops \/ CliKilled \/ LauncherKilled \/ MergeKilled \/ Blackout
  \/ \E a \in Artifacts : ShardKilled(a)

Next ==
  \/ StartRun \/ Resume \/ Command \/ Merge \/ Launcher \/ Status \/ Kills
  \/ \E a \in Artifacts : Shard(a)

(* Processes that run go on, and every shard ends: ShardRecovery shows it. *)
Spec ==
  /\ Init /\ [][Next]_vars
  /\ WF_vars(Command) /\ WF_vars(Launcher) /\ WF_vars(Merge)
  /\ \A a \in Artifacts : WF_vars(Shard(a))

(***************************************************************************)
(* Properties.                                                             *)
(***************************************************************************)

(* No artifact is generated twice: a resumed run neither writes over the   *)
(* candidates of an earlier launch nor tries their seeds again, whatever   *)
(* was killed when, and although shards of an earlier launch may still run. *)
ArtifactsOnce == \A a \in Artifacts : spawned[a] <= 1

(* A run that is recorded as completed has both its splits, whole, however *)
(* the launches before ended.                                              *)
CompletedHasFiles == manifest = "completed" => run = [train |-> "whole", val |-> "whole"]

(* The manifest says what its owner wrote last, or "interrupted" when a    *)
(* run has no owner left to say so; nothing but a status command that was  *)
(* overtaken by its owner makes it say anything else.                      *)
StatusTruthful ==
  \/ raced \/ manifest = said
  \/ manifest = "interrupted" /\ said = "running" /\ ~LauncherUp

(* "Non-recoverable integrity errors; refusing top-up": no teacher is paid *)
(* when all candidates there are fail one and the same environment         *)
(* contract, not even when the report looked at is the one of an earlier   *)
(* merge and candidates came in since.                                     *)
NoTopUpOfFatalPool ==
  [][\A a \in Artifacts \ Round(0) : spawned'[a] > spawned[a] => ~Fatal(InTrain)]_vars

(* Every launch ends: the top-ups of a pool that stays short are bounded.  *)
LaunchEnds == cli.pc = "wait" ~> ~CliUp

(* "Idempotently converge a recoverable manifest": a manifest that records *)
(* a completed run is final.                                               *)
CompletedStays == [][manifest = "completed" => manifest' = "completed"]_vars
=============================================================================
