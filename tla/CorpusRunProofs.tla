---------------------------- MODULE CorpusRunProofs ----------------------------
(***************************************************************************)
(* Proofs about a generation run, for any number of shards, launches,      *)
(* top-up rounds and kills.                                                *)
(*                                                                         *)
(* Between two kills or commands of the operator the processes of a run    *)
(* take only so many steps (WorkAdvances), and nobody waits for a merge    *)
(* that is not there (WaitsForMerge).                                      *)
(***************************************************************************)
EXTENDS CorpusRun, FiniteSetTheorems, TLAPS

Words       == {"none", "running", "completed", "failed", "interrupted"}
CliPlaces   == {"idle", "launch", "merge", "wait", "record", "interrupt"}
Places      == {"off", "start", "initial", "merge", "merging", "topup", "audit", "exited"}
MergePlaces == {"off", "read", "train", "val", "ok", "fatal", "failed"}
FileStates  == {"none", "tornTrain", "train", "tornVal", "whole"}
Findings    == InitialContents \union TopUpContents \union {[train |-> {}, val |-> {}]}

WordsTyped ==
  /\ manifest \in Words /\ said \in Words /\ raced \in BOOLEAN
  /\ status \in {"off", "read", "running", "interrupted"}

OwnersTyped ==
  /\ cli \in [pc : CliPlaces, code : Nat]
  /\ launcher \in [pc : Places, resumed : BOOLEAN, persisted : Nat, topups : Nat, code : Nat]

PoolTyped ==
  /\ spawned \in [Artifacts -> 0 .. 2] /\ alive \subseteq Artifacts
  /\ file \in [Artifacts -> FileStates] /\ found \in [Artifacts -> Findings]

DataTyped ==
  /\ merge \in [pc : MergePlaces, by : {"cli", "launcher"}]
  /\ report \in {"none", "short", "fatal", "enough"}
  /\ run \in [train : {"none", "partial", "whole"}, val : {"none", "partial", "whole"}]
  /\ launches \in Nat /\ kills \in Nat

TypeOK == WordsTyped /\ OwnersTyped /\ PoolTyped /\ DataTyped

NoneSpawned == \A a \in Artifacts : spawned[a] = 0
RunWhole    == run.train = "whole" /\ run.val = "whole"

(* Where the processes may be together.                                    *)
Together ==
  /\ launches = 0 => /\ ~CliUp /\ ~LauncherUp /\ merge.pc = "off" /\ manifest = "none"
                     /\ status = "off" /\ NoneSpawned
  /\ cli.pc = "merge" => launches > 1
  /\ cli.pc \in {"launch", "merge", "record", "interrupt"} => ~LauncherUp
  /\ cli.pc = "launch" => merge.pc = "off"
  /\ LauncherUp /\ merge.pc # "off" => launcher.pc = "merging"
  /\ launcher.pc = "exited" => cli.pc = "wait"

(* The rounds that were started, and the one that comes next.              *)
Numbering ==
  /\ \A a \in Artifacts : spawned[a] <= 1
  /\ LauncherUp => \A a \in Artifacts : spawned[a] > 0 => a[1] <= CurrentRound
  /\ cli.pc = "launch" /\ launches <= 1 => NoneSpawned
  /\ launcher.pc = "start" /\ ~launcher.resumed => NoneSpawned

(* What the splits are when a step of the run has succeeded.               *)
Splits ==
  /\ merge.pc = "val" => run.train = "whole"
  /\ merge.pc = "ok" => RunWhole
  /\ launcher.pc = "audit" => RunWhole
  /\ launcher.pc = "exited" /\ launcher.code = 0 => RunWhole
  /\ cli.pc = "record" /\ cli.code = 0 => RunWhole /\ merge.pc = "off"
  /\ manifest = "completed" => RunWhole /\ merge.pc = "off" /\ ~LauncherUp /\ ~CliUp

(* What a status command that was not overtaken has seen.                  *)
Truth ==
  /\ StatusTruthful
  /\ ~raced /\ status # "off" => manifest = "running" /\ said = "running"
  /\ ~raced /\ status = "interrupted" => ~CliUp /\ ~LauncherUp
  /\ ~raced /\ cli.pc = "launch" => manifest = said

(* Two candidates of which not both fail one environment contract.         *)
Mixed ==
  \E a, b \in TrainFiles : \E i \in found[a].train, j \in found[b].train :
    i # j \/ i \notin EnvironmentIssues

(* The candidates a report of a short pool is about.                       *)
Candidates ==
  /\ \A a \in Artifacts : spawned[a] = 0 => file[a] = "none" /\ a \notin alive
  /\ \A a \in alive : file[a] # "whole"
  /\ \A a \in TrainFiles : found[a].train # {}
  /\ report = "short" => Mixed

IInv == TypeOK /\ Together /\ Numbering /\ Splits /\ Truth /\ Candidates

(* What the artifacts and the rounds are made of.                          *)
Sets == /\ Artifacts \subseteq Nat \X (InitialChunks \union TopUpChunks)
        /\ \A r \in Nat : \A a \in Round(r) : a \in Artifacts /\ a[1] = r

(* An artifact is a numbered round and a shard of it.                      *)
LEMMA ArtifactSets == Sets
BY RunAssumption DEF Sets, Artifacts, Rounds, Round

(* The rounds the launcher counts are numbers.                             *)
LEMMA RoundNumbers == TypeOK => CurrentRound \in Nat
BY DEF TypeOK, OwnersTyped, CurrentRound

(* Nothing has started: the invariant holds.                               *)
LEMMA Initially == Init => IInv
<1> SUFFICES ASSUME Init PROVE IInv
  OBVIOUS
<1> USE DEF Init, Off, CliUp, LauncherUp
<1>1. TypeOK
  <2>1. WordsTyped
    BY DEF WordsTyped, Words
  <2>2. OwnersTyped
    BY DEF OwnersTyped, CliPlaces, Places
  <2>3. PoolTyped
    BY DEF PoolTyped, FileStates, Findings
  <2>4. DataTyped
    BY DEF DataTyped, MergePlaces
  <2> QED
    BY <2>1, <2>2, <2>3, <2>4 DEF TypeOK
<1>2. Together
  BY DEF Together, NoneSpawned
<1>3. Numbering
  BY DEF Numbering, NoneSpawned
<1>4. Splits
  BY DEF Splits
<1>5. Truth
  BY DEF Truth, StatusTruthful
<1>6. Candidates
  BY DEF Candidates, TrainFiles, With
<1> QED
  BY <1>1, <1>2, <1>3, <1>4, <1>5, <1>6 DEF IInv

(* The launcher goes on or ends, and a round of shards is started.         *)
LEMMA Going ==
  ASSUME TypeOK, NEW place \in Places, Goto(place)
  PROVE  /\ launcher' \in [pc : Places, resumed : BOOLEAN, persisted : Nat, topups : Nat, code : Nat]
         /\ launcher'.pc = place /\ launcher'.code = launcher.code
         /\ CurrentRound' = CurrentRound
BY DEF TypeOK, OwnersTyped, Goto, CurrentRound

(* Its exit keeps what the command line waits for.                         *)
LEMMA Exiting ==
  ASSUME TypeOK, NEW code \in Nat, Exit(code)
  PROVE  /\ launcher' \in [pc : Places, resumed : BOOLEAN, persisted : Nat, topups : Nat, code : Nat]
         /\ launcher'.pc \in {"exited", "off"}
         /\ launcher'.pc = "exited" =>
              cli.pc = "wait" /\ launcher'.code = code /\ CurrentRound' = CurrentRound
<1>1. CASE cli.pc = "wait"
  BY <1>1 DEF TypeOK, OwnersTyped, Exit, Off, Places, CurrentRound
<1>2. CASE cli.pc # "wait"
  BY <1>2 DEF TypeOK, OwnersTyped, Exit, Off, Places, CurrentRound
<1> QED
  BY <1>1, <1>2

(* A round of shards: no other round is touched.                           *)
LEMMA Starting ==
  ASSUME TypeOK, NEW r \in Nat, Started(Round(r))
  PROVE  /\ PoolTyped'
         /\ \A a \in Artifacts : a[1] # r => spawned'[a] = spawned[a]
         /\ \A a \in Artifacts : spawned[a] = 0 => spawned'[a] <= 1
         /\ alive' = alive \union Round(r) /\ file' = file /\ found' = found
         /\ \A a \in Round(r) : spawned'[a] > 0
         /\ \A a \in Artifacts : spawned'[a] >= spawned[a]
<1>1. /\ spawned' = [a \in Artifacts |->
            IF a \in Round(r) /\ spawned[a] < 2 THEN spawned[a] + 1 ELSE spawned[a]]
      /\ alive' = alive \union Round(r) /\ UNCHANGED << file, found >>
  BY DEF Started
<1>2. \A a \in Artifacts : spawned[a] \in 0 .. 2
  BY DEF TypeOK, PoolTyped
<1>3. \A a \in Round(r) : a \in Artifacts /\ a[1] = r
  BY ArtifactSets DEF Sets
<1>4. spawned' \in [Artifacts -> 0 .. 2]
  <2>1. \A a \in Artifacts :
           (IF a \in Round(r) /\ spawned[a] < 2 THEN spawned[a] + 1 ELSE spawned[a]) \in 0 .. 2
    BY <1>2
  <2> QED
    BY <1>1, <2>1
<1>5. PoolTyped'
  BY <1>1, <1>3, <1>4 DEF TypeOK, PoolTyped
<1> QED
  BY <1>1, <1>2, <1>3, <1>5

(* Every action.                                                           *)
LEMMA NextCases ==
  ASSUME Next
  PROVE \/ StartRun \/ Resume \/ ResumeMerged \/ Launch \/ LauncherEnded \/ Record \/ RecordInterrupt
        \/ MergeReads \/ MergeWrites \/ MergeLeft
        \/ StartTeachers \/ InitialEnded \/ StartMerge \/ MergeSucceeded
        \/ GiveUp \/ TopUp \/ TopUpEnded \/ Audit
        \/ StatusReads \/ StatusChecks \/ StatusWrites
        \/ OperatorStops \/ CliKilled \/ LauncherKilled \/ MergeKilled \/ Blackout
        \/ \E a \in Artifacts : ShardKilled(a) \/ ShardWrites(a) \/ ShardFails(a)
BY DEF Next, Command, Merge, Launcher, Status, Kills, Shard

(* Every variable keeps its type: the manifest first.                      *)
LEMMA WordsTypedStep ==
  ASSUME TypeOK, Next
  PROVE  WordsTyped'
<1> USE DEF TypeOK, WordsTyped, Words, words
<1>1. CASE StartRun
  BY <1>1 DEF StartRun, Say
<1>2. CASE Resume
  BY <1>2 DEF Resume
<1>3. CASE ResumeMerged
  BY <1>3 DEF ResumeMerged, Say, MergeEnded
<1>4. CASE Launch
  BY <1>4 DEF Launch, Persisted
<1>5. CASE LauncherEnded
  BY <1>5 DEF LauncherEnded
<1>6. CASE Record
  BY <1>6 DEF Record, Say
<1>7. CASE RecordInterrupt
  BY <1>7 DEF RecordInterrupt, Say
<1>8. CASE MergeReads
  BY <1>8 DEF MergeReads, Outcome
<1>9. CASE MergeWrites
  BY <1>9 DEF MergeWrites
<1>10. CASE MergeLeft
  BY <1>10 DEF MergeLeft, MergeEnded
<1>11. CASE StartTeachers
  BY <1>11 DEF StartTeachers, Exit, Goto, Started
<1>12. CASE InitialEnded
  BY <1>12 DEF InitialEnded, Exit, Goto
<1>13. CASE StartMerge
  BY <1>13 DEF StartMerge, Goto
<1>14. CASE MergeSucceeded
  BY <1>14 DEF MergeSucceeded, Goto
<1>15. CASE GiveUp
  BY <1>15 DEF GiveUp, Exit
<1>16. CASE TopUp
  BY <1>16 DEF TopUp, Started
<1>17. CASE TopUpEnded
  BY <1>17 DEF TopUpEnded, Goto
<1>18. CASE Audit
  BY <1>18 DEF Audit, Exit
<1>19. CASE StatusReads
  BY <1>19 DEF StatusReads
<1>20. CASE StatusChecks
  BY <1>20 DEF StatusChecks, Owned
<1>21. CASE StatusWrites
  BY <1>21 DEF StatusWrites
<1>22. CASE OperatorStops
  BY <1>22 DEF OperatorStops, Kill, Group
<1>23. CASE CliKilled
  BY <1>23 DEF CliKilled, Kill
<1>24. CASE LauncherKilled
  BY <1>24 DEF LauncherKilled, Kill
<1>25. CASE MergeKilled
  BY <1>25 DEF MergeKilled, Kill
<1>26. CASE Blackout
  BY <1>26 DEF Blackout, Kill
<1>27. ASSUME NEW a \in Artifacts, ShardKilled(a) PROVE WordsTyped'
  BY <1>27 DEF ShardKilled, Kill
<1>28. ASSUME NEW a \in Artifacts, ShardWrites(a) PROVE WordsTyped'
  BY <1>28 DEF ShardWrites
<1>29. ASSUME NEW a \in Artifacts, ShardFails(a) PROVE WordsTyped'
  BY <1>29 DEF ShardFails
<1> QED
  BY NextCases, <1>1, <1>2, <1>3, <1>4, <1>5, <1>6, <1>7, <1>8, <1>9, <1>10, <1>11, <1>12, <1>13, <1>14, <1>15,
    <1>16, <1>17, <1>18, <1>19, <1>20, <1>21, <1>22, <1>23, <1>24, <1>25, <1>26, <1>27, <1>28, <1>29

(* The places of the command line and of the launcher.                     *)
LEMMA OwnersTypedStep ==
  ASSUME TypeOK, Next
  PROVE  OwnersTyped'
<1> USE DEF TypeOK, OwnersTyped, DataTyped, CliPlaces, Places, Off, owners
<1>1. CASE StartRun
  BY <1>1 DEF StartRun, Say
<1>2. CASE Resume
  BY <1>2 DEF Resume
<1>3. CASE ResumeMerged
  BY <1>3 DEF ResumeMerged, Say, MergeEnded
<1>4. CASE Launch
  <2>1. PICK r \in Rounds :
          launcher' = [Off EXCEPT !.pc = "start", !.resumed = launches > 1, !.persisted = r]
    BY <1>4 DEF Launch
  <2>2. r \in Nat
    BY RunAssumption DEF Rounds
  <2>3. (launches > 1) \in BOOLEAN
    OBVIOUS
  <2>4. launcher' = [pc |-> "start", resumed |-> (launches > 1), persisted |-> r, topups |-> 0, code |-> 0]
    BY <2>1
  <2>5. launcher' \in [pc : Places, resumed : BOOLEAN, persisted : Nat, topups : Nat, code : Nat]
    BY <2>2, <2>3, <2>4
  <2> QED
    BY <2>5, <1>4 DEF Launch
<1>5. CASE LauncherEnded
  BY <1>5 DEF LauncherEnded
<1>6. CASE Record
  BY <1>6 DEF Record, Say
<1>7. CASE RecordInterrupt
  BY <1>7 DEF RecordInterrupt, Say
<1>8. CASE MergeReads
  BY <1>8 DEF MergeReads, Outcome
<1>9. CASE MergeWrites
  BY <1>9 DEF MergeWrites
<1>10. CASE MergeLeft
  BY <1>10 DEF MergeLeft, MergeEnded
<1>11. CASE StartTeachers
  <2>1. launcher' \in [pc : Places, resumed : BOOLEAN, persisted : Nat, topups : Nat, code : Nat]
    BY <1>11, Going, Exiting DEF StartTeachers
  <2> QED
    BY <2>1, <1>11 DEF StartTeachers
<1>12. CASE InitialEnded
  <2>1. launcher' \in [pc : Places, resumed : BOOLEAN, persisted : Nat, topups : Nat, code : Nat]
    BY <1>12, Going, Exiting DEF InitialEnded
  <2> QED
    BY <2>1, <1>12 DEF InitialEnded
<1>13. CASE StartMerge
  BY <1>13 DEF StartMerge, Goto
<1>14. CASE MergeSucceeded
  BY <1>14 DEF MergeSucceeded, Goto
<1>15. CASE GiveUp
  BY <1>15 DEF GiveUp, Exit
<1>16. CASE TopUp
  <2>1. launcher' = [launcher EXCEPT !.pc = "topup", !.topups = launcher.topups + 1]
    BY <1>16 DEF TopUp
  <2>2. launcher.topups + 1 \in Nat
    OBVIOUS
  <2> QED
    BY <2>1, <2>2, <1>16 DEF TopUp
<1>17. CASE TopUpEnded
  BY <1>17 DEF TopUpEnded, Goto
<1>18. CASE Audit
  <2>1. launcher' \in [pc : Places, resumed : BOOLEAN, persisted : Nat, topups : Nat, code : Nat]
    BY <1>18, Exiting DEF Audit
  <2> QED
    BY <2>1, <1>18 DEF Audit
<1>19. CASE StatusReads
  BY <1>19 DEF StatusReads
<1>20. CASE StatusChecks
  BY <1>20 DEF StatusChecks, Owned
<1>21. CASE StatusWrites
  BY <1>21 DEF StatusWrites
<1>22. CASE OperatorStops
  BY <1>22 DEF OperatorStops, Kill, Group
<1>23. CASE CliKilled
  BY <1>23 DEF CliKilled, Kill
<1>24. CASE LauncherKilled
  BY <1>24 DEF LauncherKilled, Kill
<1>25. CASE MergeKilled
  BY <1>25 DEF MergeKilled, Kill
<1>26. CASE Blackout
  BY <1>26 DEF Blackout, Kill
<1>27. ASSUME NEW a \in Artifacts, ShardKilled(a) PROVE OwnersTyped'
  BY <1>27 DEF ShardKilled, Kill
<1>28. ASSUME NEW a \in Artifacts, ShardWrites(a) PROVE OwnersTyped'
  BY <1>28 DEF ShardWrites
<1>29. ASSUME NEW a \in Artifacts, ShardFails(a) PROVE OwnersTyped'
  BY <1>29 DEF ShardFails
<1> QED
  BY NextCases, <1>1, <1>2, <1>3, <1>4, <1>5, <1>6, <1>7, <1>8, <1>9, <1>10, <1>11, <1>12, <1>13, <1>14, <1>15,
    <1>16, <1>17, <1>18, <1>19, <1>20, <1>21, <1>22, <1>23, <1>24, <1>25, <1>26, <1>27, <1>28, <1>29

(* The shards, and what is on disk of each.                                *)
LEMMA PoolTypedStep ==
  ASSUME TypeOK, Next
  PROVE  PoolTyped'
<1> USE DEF TypeOK, PoolTyped, FileStates, pool
<1>1. CASE StartRun
  BY <1>1 DEF StartRun, Say
<1>2. CASE Resume
  BY <1>2 DEF Resume
<1>3. CASE ResumeMerged
  BY <1>3 DEF ResumeMerged, Say, MergeEnded
<1>4. CASE Launch
  BY <1>4 DEF Launch, Persisted
<1>5. CASE LauncherEnded
  BY <1>5 DEF LauncherEnded
<1>6. CASE Record
  BY <1>6 DEF Record, Say
<1>7. CASE RecordInterrupt
  BY <1>7 DEF RecordInterrupt, Say
<1>8. CASE MergeReads
  BY <1>8 DEF MergeReads, Outcome
<1>9. CASE MergeWrites
  BY <1>9 DEF MergeWrites
<1>10. CASE MergeLeft
  BY <1>10 DEF MergeLeft, MergeEnded
<1>11. CASE StartTeachers
  <2>1. CASE UNCHANGED pool
    BY <2>1
  <2>2. CASE Started(Round(0))
    BY <2>2, Starting
  <2> QED
    BY <2>1, <2>2, <1>11 DEF StartTeachers
<1>12. CASE InitialEnded
  BY <1>12 DEF InitialEnded, Exit, Goto
<1>13. CASE StartMerge
  BY <1>13 DEF StartMerge, Goto
<1>14. CASE MergeSucceeded
  BY <1>14 DEF MergeSucceeded, Goto
<1>15. CASE GiveUp
  BY <1>15 DEF GiveUp, Exit
<1>16. CASE TopUp
  <2>1. CurrentRound + 1 \in Nat
    BY RoundNumbers
  <2> QED
    BY <2>1, <1>16, Starting DEF TopUp
<1>17. CASE TopUpEnded
  BY <1>17 DEF TopUpEnded, Goto
<1>18. CASE Audit
  BY <1>18 DEF Audit, Exit
<1>19. CASE StatusReads
  BY <1>19 DEF StatusReads
<1>20. CASE StatusChecks
  BY <1>20 DEF StatusChecks, Owned
<1>21. CASE StatusWrites
  BY <1>21 DEF StatusWrites
<1>22. CASE OperatorStops
  BY <1>22 DEF OperatorStops, Kill, Group
<1>23. CASE CliKilled
  BY <1>23 DEF CliKilled, Kill
<1>24. CASE LauncherKilled
  BY <1>24 DEF LauncherKilled, Kill
<1>25. CASE MergeKilled
  BY <1>25 DEF MergeKilled, Kill
<1>26. CASE Blackout
  BY <1>26 DEF Blackout, Kill
<1>27. ASSUME NEW a \in Artifacts, ShardKilled(a) PROVE PoolTyped'
  BY <1>27 DEF ShardKilled, Kill
<1>28. ASSUME NEW a \in Artifacts, ShardWrites(a) PROVE PoolTyped'
  <2>1. NextFile[file[a]] \in FileStates
    BY DEF NextFile
  <2>2. file' = [file EXCEPT ![a] = NextFile[file[a]]] /\ found' \in [Artifacts -> Findings]
    BY <1>28 DEF ShardWrites, Contents, Findings
  <2>3. alive' \subseteq alive /\ spawned' = spawned
    BY <1>28 DEF ShardWrites
  <2>4. file' \in [Artifacts -> FileStates]
    BY <2>1, <2>2
  <2> QED
    BY <2>2, <2>3, <2>4
<1>29. ASSUME NEW a \in Artifacts, ShardFails(a) PROVE PoolTyped'
  BY <1>29 DEF ShardFails
<1> QED
  BY NextCases, <1>1, <1>2, <1>3, <1>4, <1>5, <1>6, <1>7, <1>8, <1>9, <1>10, <1>11, <1>12, <1>13, <1>14, <1>15,
    <1>16, <1>17, <1>18, <1>19, <1>20, <1>21, <1>22, <1>23, <1>24, <1>25, <1>26, <1>27, <1>28, <1>29

(* The merge, and what it writes.                                          *)
LEMMA DataTypedStep ==
  ASSUME TypeOK, Next
  PROVE  DataTyped'
<1> USE DEF TypeOK, DataTyped, MergePlaces, data, bounds
<1>1. CASE StartRun
  BY <1>1 DEF StartRun, Say
<1>2. CASE Resume
  BY <1>2 DEF Resume
<1>3. CASE ResumeMerged
  BY <1>3 DEF ResumeMerged, Say, MergeEnded
<1>4. CASE Launch
  BY <1>4 DEF Launch, Persisted
<1>5. CASE LauncherEnded
  BY <1>5 DEF LauncherEnded
<1>6. CASE Record
  BY <1>6 DEF Record, Say
<1>7. CASE RecordInterrupt
  BY <1>7 DEF RecordInterrupt, Say
<1>8. CASE MergeReads
  BY <1>8 DEF MergeReads, Outcome
<1>9. CASE MergeWrites
  BY <1>9 DEF MergeWrites
<1>10. CASE MergeLeft
  BY <1>10 DEF MergeLeft, MergeEnded
<1>11. CASE StartTeachers
  BY <1>11 DEF StartTeachers, Exit, Goto, Started
<1>12. CASE InitialEnded
  BY <1>12 DEF InitialEnded, Exit, Goto
<1>13. CASE StartMerge
  BY <1>13 DEF StartMerge, Goto
<1>14. CASE MergeSucceeded
  BY <1>14 DEF MergeSucceeded, Goto
<1>15. CASE GiveUp
  BY <1>15 DEF GiveUp, Exit
<1>16. CASE TopUp
  BY <1>16 DEF TopUp, Started
<1>17. CASE TopUpEnded
  BY <1>17 DEF TopUpEnded, Goto
<1>18. CASE Audit
  BY <1>18 DEF Audit, Exit
<1>19. CASE StatusReads
  BY <1>19 DEF StatusReads
<1>20. CASE StatusChecks
  BY <1>20 DEF StatusChecks, Owned
<1>21. CASE StatusWrites
  BY <1>21 DEF StatusWrites
<1>22. CASE OperatorStops
  BY <1>22 DEF OperatorStops, Kill, Group
<1>23. CASE CliKilled
  BY <1>23 DEF CliKilled, Kill
<1>24. CASE LauncherKilled
  BY <1>24 DEF LauncherKilled, Kill
<1>25. CASE MergeKilled
  BY <1>25 DEF MergeKilled, Kill
<1>26. CASE Blackout
  BY <1>26 DEF Blackout, Kill
<1>27. ASSUME NEW a \in Artifacts, ShardKilled(a) PROVE DataTyped'
  BY <1>27 DEF ShardKilled, Kill
<1>28. ASSUME NEW a \in Artifacts, ShardWrites(a) PROVE DataTyped'
  BY <1>28 DEF ShardWrites
<1>29. ASSUME NEW a \in Artifacts, ShardFails(a) PROVE DataTyped'
  BY <1>29 DEF ShardFails
<1> QED
  BY NextCases, <1>1, <1>2, <1>3, <1>4, <1>5, <1>6, <1>7, <1>8, <1>9, <1>10, <1>11, <1>12, <1>13, <1>14, <1>15,
    <1>16, <1>17, <1>18, <1>19, <1>20, <1>21, <1>22, <1>23, <1>24, <1>25, <1>26, <1>27, <1>28, <1>29

(* The processes stay apart.                                              *)
LEMMA TogetherStep ==
  ASSUME IInv, Next
  PROVE  Together'
<1> USE DEF IInv, TypeOK, OwnersTyped, DataTyped, Together, NoneSpawned, CliUp, LauncherUp, Off, owners, pool,
  data, words, bounds
<1>1. CASE StartRun
  BY <1>1 DEF StartRun, Say
<1>2. CASE Resume
  BY <1>2 DEF Resume
<1>3. CASE ResumeMerged
  BY <1>3 DEF ResumeMerged, Say, MergeEnded
<1>4. CASE Launch
  BY <1>4 DEF Launch, Persisted
<1>5. CASE LauncherEnded
  BY <1>5 DEF LauncherEnded
<1>6. CASE Record
  BY <1>6 DEF Record, Say
<1>7. CASE RecordInterrupt
  BY <1>7 DEF RecordInterrupt, Say
<1>8. CASE MergeReads
  BY <1>8 DEF MergeReads, Outcome
<1>9. CASE MergeWrites
  BY <1>9 DEF MergeWrites
<1>10. CASE MergeLeft
  BY <1>10 DEF MergeLeft, MergeEnded
<1>11. CASE StartTeachers
  BY <1>11 DEF StartTeachers, Exit, Goto, Started
<1>12. CASE InitialEnded
  BY <1>12 DEF InitialEnded, Exit, Goto
<1>13. CASE StartMerge
  BY <1>13 DEF StartMerge, Goto
<1>14. CASE MergeSucceeded
  BY <1>14 DEF MergeSucceeded, Goto
<1>15. CASE GiveUp
  BY <1>15 DEF GiveUp, Exit
<1>16. CASE TopUp
  BY <1>16 DEF TopUp, Started
<1>17. CASE TopUpEnded
  BY <1>17 DEF TopUpEnded, Goto
<1>18. CASE Audit
  BY <1>18 DEF Audit, Exit
<1>19. CASE StatusReads
  BY <1>19 DEF StatusReads
<1>20. CASE StatusChecks
  BY <1>20 DEF StatusChecks, Owned
<1>21. CASE StatusWrites
  BY <1>21 DEF StatusWrites
<1>22. CASE OperatorStops
  BY <1>22 DEF OperatorStops, Kill, Group
<1>23. CASE CliKilled
  BY <1>23 DEF CliKilled, Kill
<1>24. CASE LauncherKilled
  BY <1>24 DEF LauncherKilled, Kill
<1>25. CASE MergeKilled
  BY <1>25 DEF MergeKilled, Kill
<1>26. CASE Blackout
  BY <1>26 DEF Blackout, Kill
<1>27. ASSUME NEW a \in Artifacts, ShardKilled(a) PROVE Together'
  BY <1>27 DEF ShardKilled, Kill
<1>28. ASSUME NEW a \in Artifacts, ShardWrites(a) PROVE Together'
  BY <1>28 DEF ShardWrites
<1>29. ASSUME NEW a \in Artifacts, ShardFails(a) PROVE Together'
  BY <1>29 DEF ShardFails
<1> QED
  BY NextCases, <1>1, <1>2, <1>3, <1>4, <1>5, <1>6, <1>7, <1>8, <1>9, <1>10, <1>11, <1>12, <1>13, <1>14, <1>15,
    <1>16, <1>17, <1>18, <1>19, <1>20, <1>21, <1>22, <1>23, <1>24, <1>25, <1>26, <1>27, <1>28, <1>29

(* No round is numbered twice.                                            *)
LEMMA NumberingStep ==
  ASSUME IInv, Next
  PROVE  Numbering'
<1> USE DEF IInv, TypeOK, OwnersTyped, DataTyped, Together, Numbering, CurrentRound, NoneSpawned, CliUp, LauncherUp,
  Off,  owners, pool, data, words, bounds
<1>1. CASE StartRun
  BY <1>1 DEF StartRun, Say
<1>2. CASE Resume
  BY <1>2 DEF Resume
<1>3. CASE ResumeMerged
  BY <1>3 DEF ResumeMerged, Say, MergeEnded
<1>4. CASE Launch
  <2>1. ~LauncherUp /\ UNCHANGED << pool, launches >> /\ cli'.pc # "launch"
    BY <1>4 DEF Launch
  <2>2. PICK r \in Rounds :
          /\ IF launches > 1 THEN Persisted(r) ELSE r = 0
          /\ launcher' = [Off EXCEPT !.pc = "start", !.resumed = launches > 1, !.persisted = r]
    BY <1>4 DEF Launch
  <2>3. CurrentRound' = r
    BY <2>2, RunAssumption DEF Rounds
  <2>4. \A a \in Artifacts : spawned[a] > 0 => a[1] <= r
    BY <2>2, <1>4 DEF Launch, Persisted
  <2>5. launcher'.pc = "start" /\ launcher'.resumed = (launches > 1)
    BY <2>2
  <2>6. ~launcher'.resumed => NoneSpawned
    <3>1. launches > 1 => launcher'.resumed
      BY <2>5
    <3> QED
      BY <3>1, <1>4 DEF Launch
  <2> QED
    BY <2>1, <2>3, <2>4, <2>5, <2>6
<1>5. CASE LauncherEnded
  BY <1>5 DEF LauncherEnded
<1>6. CASE Record
  BY <1>6 DEF Record, Say
<1>7. CASE RecordInterrupt
  BY <1>7 DEF RecordInterrupt, Say
<1>8. CASE MergeReads
  BY <1>8 DEF MergeReads, Outcome
<1>9. CASE MergeWrites
  BY <1>9 DEF MergeWrites
<1>10. CASE MergeLeft
  BY <1>10 DEF MergeLeft, MergeEnded
<1>11. CASE StartTeachers
  <2>1. cli.pc # "launch" /\ cli' = cli
    BY <1>11 DEF StartTeachers
  <2>2. CASE Exit(1) /\ UNCHANGED pool
    BY <2>1, <2>2, <1>11, Exiting DEF StartTeachers
  <2>3. CASE launcher.resumed /\ Goto("merge") /\ UNCHANGED pool
    BY <2>1, <2>3, <1>11, Going DEF StartTeachers, Places
  <2>4. CASE ~launcher.resumed /\ Goto("initial") /\ Started(Round(0))
    <3>1. launcher'.pc = "initial" /\ CurrentRound' = CurrentRound /\ CurrentRound \in Nat
      BY <2>4, Going, RoundNumbers DEF Places
    <3>2. \A a \in Artifacts : spawned'[a] <= 1 /\ (a[1] # 0 => spawned'[a] = 0)
      BY <2>4, Starting, <1>11 DEF StartTeachers
    <3> QED
      BY <2>1, <3>1, <3>2
  <2> QED
    BY <2>2, <2>3, <2>4, <1>11 DEF StartTeachers
<1>12. CASE InitialEnded
  <2>1. cli.pc # "launch" /\ cli' = cli /\ UNCHANGED pool
    BY <1>12 DEF InitialEnded
  <2>2. CASE Exit(1)
    BY <2>1, <2>2, <1>12, Exiting DEF InitialEnded
  <2>3. CASE Goto("merge")
    BY <2>1, <2>3, <1>12, Going DEF InitialEnded, Places
  <2> QED
    BY <2>2, <2>3, <1>12 DEF InitialEnded
<1>13. CASE StartMerge
  BY <1>13 DEF StartMerge, Goto
<1>14. CASE MergeSucceeded
  BY <1>14 DEF MergeSucceeded, Goto
<1>15. CASE GiveUp
  BY <1>15 DEF GiveUp, Exit
<1>16. CASE TopUp
  <2>1. LauncherUp /\ cli.pc # "launch" /\ launcher'.pc = "topup" /\ cli' = cli
    BY <1>16 DEF TopUp
  <2>2. CurrentRound \in Nat /\ CurrentRound' = CurrentRound + 1
    BY <1>16, RoundNumbers DEF TopUp
  <2>3. /\ \A a \in Artifacts : a[1] # CurrentRound + 1 => spawned'[a] = spawned[a]
        /\ \A a \in Artifacts : spawned[a] = 0 => spawned'[a] <= 1
    BY <2>2, <1>16, Starting DEF TopUp
  <2>4. \A a \in Artifacts : a[1] = CurrentRound + 1 => spawned[a] = 0
    BY <2>1, <2>2 DEF PoolTyped
  <2>5. \A a \in Artifacts : spawned'[a] <= 1
    BY <2>3, <2>4
  <2>6. \A a \in Artifacts : spawned'[a] > 0 => a[1] <= CurrentRound'
    <3> SUFFICES ASSUME NEW a \in Artifacts, spawned'[a] > 0 PROVE a[1] <= CurrentRound + 1
      BY <2>2
    <3>1. CASE a[1] = CurrentRound + 1
      BY <3>1, <2>2
    <3>2. CASE a[1] # CurrentRound + 1
      <4>1. spawned[a] > 0
        BY <3>2, <2>3
      <4>2. a[1] <= CurrentRound
        BY <4>1, <2>1
      <4>3. a[1] \in Nat
        BY ArtifactSets DEF Sets
      <4> QED
        BY <4>2, <4>3, <2>2
    <3> QED
      BY <3>1, <3>2
  <2> QED
    BY <2>1, <2>5, <2>6
<1>17. CASE TopUpEnded
  BY <1>17 DEF TopUpEnded, Goto
<1>18. CASE Audit
  <2>1. cli.pc # "launch" /\ cli' = cli /\ UNCHANGED pool
    BY <1>18 DEF Audit
  <2> QED
    BY <2>1, <1>18, Exiting DEF Audit
<1>19. CASE StatusReads
  BY <1>19 DEF StatusReads
<1>20. CASE StatusChecks
  BY <1>20 DEF StatusChecks, Owned
<1>21. CASE StatusWrites
  BY <1>21 DEF StatusWrites
<1>22. CASE OperatorStops
  BY <1>22 DEF OperatorStops, Kill, Group
<1>23. CASE CliKilled
  BY <1>23 DEF CliKilled, Kill
<1>24. CASE LauncherKilled
  BY <1>24 DEF LauncherKilled, Kill
<1>25. CASE MergeKilled
  BY <1>25 DEF MergeKilled, Kill
<1>26. CASE Blackout
  BY <1>26 DEF Blackout, Kill
<1>27. ASSUME NEW a \in Artifacts, ShardKilled(a) PROVE Numbering'
  BY <1>27 DEF ShardKilled, Kill
<1>28. ASSUME NEW a \in Artifacts, ShardWrites(a) PROVE Numbering'
  BY <1>28 DEF ShardWrites
<1>29. ASSUME NEW a \in Artifacts, ShardFails(a) PROVE Numbering'
  BY <1>29 DEF ShardFails
<1> QED
  BY NextCases, <1>1, <1>2, <1>3, <1>4, <1>5, <1>6, <1>7, <1>8, <1>9, <1>10, <1>11, <1>12, <1>13, <1>14, <1>15,
    <1>16, <1>17, <1>18, <1>19, <1>20, <1>21, <1>22, <1>23, <1>24, <1>25, <1>26, <1>27, <1>28, <1>29

(* The splits of a run are whole when a step of it has succeeded.          *)
LEMMA SplitsStep ==
  ASSUME IInv, Next
  PROVE  Splits'
<1> USE DEF IInv, TypeOK, OwnersTyped, DataTyped, Together, Splits, RunWhole, CliUp, LauncherUp, Off, owners,
  data, words, bounds
<1>1. CASE StartRun
  BY <1>1 DEF StartRun, Say
<1>2. CASE Resume
  BY <1>2 DEF Resume
<1>3. CASE ResumeMerged
  BY <1>3 DEF ResumeMerged, Say, MergeEnded
<1>4. CASE Launch
  BY <1>4 DEF Launch, Persisted
<1>5. CASE LauncherEnded
  BY <1>5 DEF LauncherEnded
<1>6. CASE Record
  BY <1>6 DEF Record, Say
<1>7. CASE RecordInterrupt
  BY <1>7 DEF RecordInterrupt, Say
<1>8. CASE MergeReads
  BY <1>8 DEF MergeReads, Outcome
<1>9. CASE MergeWrites
  BY <1>9 DEF MergeWrites
<1>10. CASE MergeLeft
  BY <1>10 DEF MergeLeft, MergeEnded
<1>11. CASE StartTeachers
  <2>1. /\ UNCHANGED << cli, merge, run, manifest >>
        /\ launcher'.pc \in {"off", "exited", "merge", "initial"}
        /\ launcher'.pc = "exited" => launcher'.code = 1
    BY <1>11, Going, Exiting DEF StartTeachers, Places
  <2> QED
    BY <2>1, <1>11 DEF StartTeachers
<1>12. CASE InitialEnded
  <2>1. /\ UNCHANGED << cli, merge, run, manifest >>
        /\ launcher'.pc \in {"off", "exited", "merge"}
        /\ launcher'.pc = "exited" => launcher'.code = 1
    BY <1>12, Going, Exiting DEF InitialEnded, Places
  <2> QED
    BY <2>1, <1>12 DEF InitialEnded
<1>13. CASE StartMerge
  BY <1>13 DEF StartMerge, Goto
<1>14. CASE MergeSucceeded
  BY <1>14 DEF MergeSucceeded, Goto
<1>15. CASE GiveUp
  BY <1>15 DEF GiveUp, Exit
<1>16. CASE TopUp
  BY <1>16 DEF TopUp, Started
<1>17. CASE TopUpEnded
  BY <1>17 DEF TopUpEnded, Goto
<1>18. CASE Audit
  BY <1>18 DEF Audit, Exit
<1>19. CASE StatusReads
  BY <1>19 DEF StatusReads
<1>20. CASE StatusChecks
  BY <1>20 DEF StatusChecks, Owned
<1>21. CASE StatusWrites
  BY <1>21 DEF StatusWrites
<1>22. CASE OperatorStops
  BY <1>22 DEF OperatorStops, Kill, Group
<1>23. CASE CliKilled
  BY <1>23 DEF CliKilled, Kill
<1>24. CASE LauncherKilled
  BY <1>24 DEF LauncherKilled, Kill
<1>25. CASE MergeKilled
  BY <1>25 DEF MergeKilled, Kill
<1>26. CASE Blackout
  BY <1>26 DEF Blackout, Kill
<1>27. ASSUME NEW a \in Artifacts, ShardKilled(a) PROVE Splits'
  BY <1>27 DEF ShardKilled, Kill
<1>28. ASSUME NEW a \in Artifacts, ShardWrites(a) PROVE Splits'
  BY <1>28 DEF ShardWrites
<1>29. ASSUME NEW a \in Artifacts, ShardFails(a) PROVE Splits'
  BY <1>29 DEF ShardFails
<1> QED
  BY NextCases, <1>1, <1>2, <1>3, <1>4, <1>5, <1>6, <1>7, <1>8, <1>9, <1>10, <1>11, <1>12, <1>13, <1>14, <1>15,
    <1>16, <1>17, <1>18, <1>19, <1>20, <1>21, <1>22, <1>23, <1>24, <1>25, <1>26, <1>27, <1>28, <1>29

(* Only a status command that was overtaken says what its owner did not.   *)
LEMMA TruthStep ==
  ASSUME IInv, Next
  PROVE  Truth'
<1> USE DEF IInv, TypeOK, WordsTyped, Words, OwnersTyped, Together, Truth, StatusTruthful, CliUp, LauncherUp, Off,
  owners, words
<1>1. CASE StartRun
  BY <1>1 DEF StartRun, Say
<1>2. CASE Resume
  BY <1>2 DEF Resume
<1>3. CASE ResumeMerged
  BY <1>3 DEF ResumeMerged, Say, MergeEnded
<1>4. CASE Launch
  BY <1>4 DEF Launch, Persisted
<1>5. CASE LauncherEnded
  BY <1>5 DEF LauncherEnded
<1>6. CASE Record
  BY <1>6 DEF Record, Say
<1>7. CASE RecordInterrupt
  BY <1>7 DEF RecordInterrupt, Say
<1>8. CASE MergeReads
  BY <1>8 DEF MergeReads, Outcome
<1>9. CASE MergeWrites
  BY <1>9 DEF MergeWrites
<1>10. CASE MergeLeft
  BY <1>10 DEF MergeLeft, MergeEnded
<1>11. CASE StartTeachers
  BY <1>11 DEF StartTeachers, Exit, Goto, Started
<1>12. CASE InitialEnded
  BY <1>12 DEF InitialEnded, Exit, Goto
<1>13. CASE StartMerge
  BY <1>13 DEF StartMerge, Goto
<1>14. CASE MergeSucceeded
  BY <1>14 DEF MergeSucceeded, Goto
<1>15. CASE GiveUp
  BY <1>15 DEF GiveUp, Exit
<1>16. CASE TopUp
  BY <1>16 DEF TopUp, Started
<1>17. CASE TopUpEnded
  BY <1>17 DEF TopUpEnded, Goto
<1>18. CASE Audit
  BY <1>18 DEF Audit, Exit
<1>19. CASE StatusReads
  BY <1>19 DEF StatusReads
<1>20. CASE StatusChecks
  BY <1>20 DEF StatusChecks, Owned
<1>21. CASE StatusWrites
  BY <1>21 DEF StatusWrites
<1>22. CASE OperatorStops
  BY <1>22 DEF OperatorStops, Kill, Group
<1>23. CASE CliKilled
  BY <1>23 DEF CliKilled, Kill
<1>24. CASE LauncherKilled
  BY <1>24 DEF LauncherKilled, Kill
<1>25. CASE MergeKilled
  BY <1>25 DEF MergeKilled, Kill
<1>26. CASE Blackout
  BY <1>26 DEF Blackout, Kill
<1>27. ASSUME NEW a \in Artifacts, ShardKilled(a) PROVE Truth'
  BY <1>27 DEF ShardKilled, Kill
<1>28. ASSUME NEW a \in Artifacts, ShardWrites(a) PROVE Truth'
  BY <1>28 DEF ShardWrites
<1>29. ASSUME NEW a \in Artifacts, ShardFails(a) PROVE Truth'
  BY <1>29 DEF ShardFails
<1> QED
  BY NextCases, <1>1, <1>2, <1>3, <1>4, <1>5, <1>6, <1>7, <1>8, <1>9, <1>10, <1>11, <1>12, <1>13, <1>14, <1>15,
    <1>16, <1>17, <1>18, <1>19, <1>20, <1>21, <1>22, <1>23, <1>24, <1>25, <1>26, <1>27, <1>28, <1>29

(* A pool that is not fatal and has a row is mixed, and the other way      *)
(* round.                                                                  *)
LEMMA MixedNotFatal == Mixed => ~Fatal(InTrain)
<1> SUFFICES ASSUME Mixed, NEW e \in EnvironmentIssues, InTrain = {e} PROVE FALSE
  BY DEF Fatal
<1>1. \A a \in TrainFiles : \A i \in found[a].train : i = e
  BY DEF InTrain
<1> QED
  BY <1>1 DEF Mixed

LEMMA NotFatalMixed ==
  ASSUME NEW a \in TrainFiles, found[a].train # {}, ~Fatal(InTrain)
  PROVE  Mixed
<1>1. PICK i : i \in found[a].train
  OBVIOUS
<1>2. CASE i \notin EnvironmentIssues
  BY <1>1, <1>2 DEF Mixed
<1>3. CASE i \in EnvironmentIssues
  <2>1. InTrain # {i}
    BY <1>3 DEF Fatal
  <2>2. i \in InTrain
    BY <1>1 DEF InTrain
  <2>3. PICK j : j \in InTrain /\ j # i
    BY <2>1, <2>2
  <2>4. PICK b \in TrainFiles : j \in found[b].train
    BY <2>3 DEF InTrain
  <2> QED
    BY <1>1, <2>3, <2>4 DEF Mixed
<1> QED
  BY <1>2, <1>3

(* A short pool stays mixed.                                               *)
LEMMA CandidatesStep ==
  ASSUME IInv, Next
  PROVE  Candidates'
<1> USE DEF IInv, TypeOK, PoolTyped, FileStates, DataTyped, Together, Numbering, Candidates, TrainFiles, Mixed,
  With, LauncherUp, pool, data
<1>1. CASE StartRun
  BY <1>1 DEF StartRun, Say
<1>2. CASE Resume
  BY <1>2 DEF Resume
<1>3. CASE ResumeMerged
  BY <1>3 DEF ResumeMerged, Say, MergeEnded
<1>4. CASE Launch
  BY <1>4 DEF Launch, Persisted
<1>5. CASE LauncherEnded
  BY <1>5 DEF LauncherEnded
<1>6. CASE Record
  BY <1>6 DEF Record, Say
<1>7. CASE RecordInterrupt
  BY <1>7 DEF RecordInterrupt, Say
<1>8. CASE MergeReads
  <2>1. UNCHANGED << spawned, alive, file, found >>
    BY <1>8 DEF MergeReads
  <2>2. CASE report' = report
    BY <2>1, <2>2
  <2>3. CASE report' = "short" /\ Outcome = "short"
    <3>1. ValFiles # {} /\ ~Fatal(InTrain)
      BY <2>3 DEF Outcome
    <3>2. PICK a \in TrainFiles : found[a].train # {}
      BY <3>1 DEF ValFiles
    <3>3. Mixed
      BY <3>1, <3>2, NotFatalMixed
    <3> QED
      BY <2>1, <3>3
  <2>4. CASE report' # "short"
    BY <2>1, <2>4
  <2> QED
    BY <2>2, <2>3, <2>4, <1>8 DEF MergeReads
<1>9. CASE MergeWrites
  BY <1>9 DEF MergeWrites
<1>10. CASE MergeLeft
  BY <1>10 DEF MergeLeft, MergeEnded
<1>11. CASE StartTeachers
  <2>1. report' = report
    BY <1>11 DEF StartTeachers
  <2>2. CASE UNCHANGED pool
    BY <2>1, <2>2
  <2>3. CASE ~launcher.resumed /\ Started(Round(0))
    <3>1. /\ alive' = alive \union Round(0) /\ UNCHANGED << file, found >>
          /\ \A a \in Round(0) : a \in Artifacts /\ spawned'[a] > 0
          /\ \A a \in Artifacts : spawned'[a] >= spawned[a] /\ spawned'[a] \in 0 .. 2
      BY <2>3, Starting, ArtifactSets DEF Sets
    <3>2. \A a \in Round(0) : file[a] = "none"
      BY <2>3, <3>1, <1>11 DEF StartTeachers, NoneSpawned
    <3> QED
      BY <2>1, <3>1, <3>2
  <2> QED
    BY <2>2, <2>3, <1>11 DEF StartTeachers
<1>12. CASE InitialEnded
  BY <1>12 DEF InitialEnded, Exit, Goto
<1>13. CASE StartMerge
  BY <1>13 DEF StartMerge, Goto
<1>14. CASE MergeSucceeded
  BY <1>14 DEF MergeSucceeded, Goto
<1>15. CASE GiveUp
  BY <1>15 DEF GiveUp, Exit
<1>16. CASE TopUp
  <2>1. report' = report /\ LauncherUp /\ CurrentRound \in Nat
    BY <1>16, RoundNumbers DEF TopUp
  <2>2. /\ alive' = alive \union Round(CurrentRound + 1) /\ UNCHANGED << file, found >>
        /\ \A a \in Round(CurrentRound + 1) : a \in Artifacts /\ a[1] = CurrentRound + 1 /\ spawned'[a] > 0
        /\ \A a \in Artifacts : spawned'[a] >= spawned[a] /\ spawned'[a] \in 0 .. 2
    BY <2>1, <1>16, Starting, ArtifactSets DEF TopUp, Sets
  <2>3. \A a \in Round(CurrentRound + 1) : spawned[a] = 0
    BY <2>1, <2>2
  <2>4. \A a \in Round(CurrentRound + 1) : file[a] = "none"
    BY <2>2, <2>3
  <2> QED
    BY <2>1, <2>2, <2>4
<1>17. CASE TopUpEnded
  BY <1>17 DEF TopUpEnded, Goto
<1>18. CASE Audit
  BY <1>18 DEF Audit, Exit
<1>19. CASE StatusReads
  BY <1>19 DEF StatusReads
<1>20. CASE StatusChecks
  BY <1>20 DEF StatusChecks, Owned
<1>21. CASE StatusWrites
  BY <1>21 DEF StatusWrites
<1>22. CASE OperatorStops
  BY <1>22 DEF OperatorStops, Kill, Group
<1>23. CASE CliKilled
  BY <1>23 DEF CliKilled, Kill
<1>24. CASE LauncherKilled
  BY <1>24 DEF LauncherKilled, Kill
<1>25. CASE MergeKilled
  BY <1>25 DEF MergeKilled, Kill
<1>26. CASE Blackout
  BY <1>26 DEF Blackout, Kill
<1>27. ASSUME NEW a \in Artifacts, ShardKilled(a) PROVE Candidates'
  BY <1>27 DEF ShardKilled, Kill
<1>28. ASSUME NEW a \in Artifacts, ShardWrites(a) PROVE Candidates'
  <2>1. /\ file' = [file EXCEPT ![a] = NextFile[file[a]]]
        /\ \A c \in Artifacts : c # a \/ file'[a] # "train" => found'[c] = found[c]
        /\ file'[a] = "train" => found'[a].train # {}
        /\ alive' = IF file'[a] = "whole" THEN alive \ {a} ELSE alive
        /\ UNCHANGED << spawned, report >> /\ a \in alive
    BY <1>28, ContentsAssumption DEF ShardWrites, Contents
  <2>2. \A c \in Artifacts : c # a => file'[c] = file[c]
    BY <2>1
  <2>3. \A c \in Artifacts : spawned'[c] = 0 => file'[c] = "none" /\ c \notin alive'
    BY <2>1, <2>2
  <2>4. \A c \in alive' : file'[c] # "whole"
    BY <2>1, <2>2
  <2>5. ASSUME NEW c \in TrainFiles PROVE c \in TrainFiles' /\ found'[c] = found[c]
    <3>1. CASE c # a
      BY <2>1, <2>2, <3>1
    <3>2. CASE c = a
      <4>1. file'[a] = NextFile[file[a]] /\ file[a] \in {"train", "tornVal"}
        BY <2>1, <3>2
      <4>2. file'[a] \in {"tornVal", "whole"}
        BY <4>1 DEF NextFile
      <4> QED
        BY <2>1, <3>2, <4>2
    <3> QED
      BY <3>1, <3>2
  <2>6. ASSUME NEW c \in TrainFiles' PROVE found'[c].train # {}
    <3>1. CASE c # a
      BY <2>1, <2>2, <3>1
    <3>2. CASE c = a /\ file'[a] = "train"
      BY <2>1, <3>2
    <3>3. CASE c = a /\ file'[a] # "train"
      <4>1. file'[a] = NextFile[file[a]] /\ file'[a] \in {"tornVal", "whole"}
        BY <2>1, <3>3
      <4>2. file[a] \in {"train", "tornVal"}
        BY <4>1 DEF NextFile
      <4> QED
        BY <2>1, <3>3, <4>2
    <3> QED
      BY <3>1, <3>2, <3>3
  <2>7. ASSUME Mixed PROVE Mixed'
    BY <2>5, <2>7
  <2> QED
    BY <2>1, <2>3, <2>4, <2>6, <2>7
<1>29. ASSUME NEW a \in Artifacts, ShardFails(a) PROVE Candidates'
  BY <1>29 DEF ShardFails
<1> QED
  BY NextCases, <1>1, <1>2, <1>3, <1>4, <1>5, <1>6, <1>7, <1>8, <1>9, <1>10, <1>11, <1>12, <1>13, <1>14, <1>15,
    <1>16, <1>17, <1>18, <1>19, <1>20, <1>21, <1>22, <1>23, <1>24, <1>25, <1>26, <1>27, <1>28, <1>29

(***************************************************************************)
(* The invariant of a run, and what follows from it.                       *)
(***************************************************************************)

(* Every step of the run keeps the invariant.                               *)
LEMMA Step == ASSUME IInv, [Next]_vars PROVE IInv'
<1>1. CASE Next
  <2>1. TypeOK'
    BY <1>1, WordsTypedStep, OwnersTypedStep, PoolTypedStep, DataTypedStep DEF IInv, TypeOK
  <2> QED
    BY <1>1, <2>1, TogetherStep, NumberingStep, SplitsStep, TruthStep, CandidatesStep DEF IInv
<1>2. CASE UNCHANGED vars
  <2> USE <1>2 DEF IInv, vars, owners, pool, data, words, bounds, CliUp, LauncherUp
  <2>1. TypeOK'
    BY DEF TypeOK, WordsTyped, OwnersTyped, PoolTyped, DataTyped
  <2>2. Together' /\ Numbering'
    BY DEF Together, Numbering, NoneSpawned, CurrentRound
  <2>3. Splits' /\ Truth'
    BY DEF Splits, RunWhole, Truth, StatusTruthful
  <2>4. Candidates'
    BY DEF Candidates, Mixed, TrainFiles, With
  <2> QED
    BY <2>1, <2>2, <2>3, <2>4
<1> QED
  BY <1>1, <1>2

(* So it holds throughout, for any number of launches, shards and kills.    *)
LEMMA Invariant == Spec => []IInv
BY Initially, Step, PTL DEF Spec

(* No shard of a run is started twice, however often the run was killed    *)
(* and resumed: the launcher counts on from the last round on disk.        *)
THEOREM Once == Spec => []ArtifactsOnce
<1>1. IInv => ArtifactsOnce
  BY DEF IInv, Numbering, ArtifactsOnce
<1> QED
  BY <1>1, Invariant, PTL

(* A run recorded as completed has two whole splits: the command line      *)
(* records it only after the return code of a launcher that passed a merge. *)
THEOREM FilesWhole == Spec => []CompletedHasFiles
<1>1. IInv => CompletedHasFiles
  BY DEF IInv, TypeOK, DataTyped, Splits, RunWhole, CompletedHasFiles
<1> QED
  BY <1>1, Invariant, PTL

(* The manifest says what its owner wrote, unless a status command was     *)
(* overtaken between its read and its write.                               *)
THEOREM Truthful == Spec => []StatusTruthful
<1>1. IInv => StatusTruthful
  BY DEF IInv, Truth
<1> QED
  BY <1>1, Invariant, PTL

(* No top-up round is started while all candidates there are fail one and  *)
(* the same environment contract, although the report it is decided by may *)
(* be of an earlier merge (merge_vllm_with_topups, launcher.sh).           *)
THEOREM NoFatalTopUp == Spec => NoTopUpOfFatalPool
<1> DEFINE Good == \A a \in Artifacts \ Round(0) : spawned'[a] > spawned[a] => ~Fatal(InTrain)
<1>1. ASSUME IInv, Next PROVE Good
  <2>1. CASE UNCHANGED spawned
    BY <1>1, <2>1 DEF IInv, TypeOK, PoolTyped
  <2>2. CASE StartTeachers
    <3>1. CASE Started(Round(0))
      <4>1. \A a \in Artifacts \ Round(0) : a[1] # 0
        BY DEF Round
      <4>2. \A a \in Artifacts : a[1] # 0 => spawned'[a] = spawned[a]
        BY <1>1, <3>1, Starting DEF IInv
      <4> QED
        BY <1>1, <4>1, <4>2 DEF IInv, TypeOK, PoolTyped
    <3> QED
      BY <2>1, <2>2, <3>1 DEF StartTeachers, pool
  <2>3. CASE TopUp
    BY <1>1, <2>3, MixedNotFatal DEF IInv, Candidates, TopUp, MayTopUp
  <2>4. CASE \E a \in Artifacts : ShardKilled(a) \/ ShardWrites(a) \/ ShardFails(a)
    BY <2>1, <2>4 DEF ShardKilled, ShardWrites, ShardFails
  <2>5. CASE \/ StartRun \/ Resume \/ ResumeMerged \/ Launch \/ LauncherEnded \/ Record \/ RecordInterrupt
             \/ MergeReads \/ MergeWrites \/ MergeLeft
    BY <2>1, <2>5 DEF StartRun, Resume, ResumeMerged, Launch, LauncherEnded, Record, RecordInterrupt,
      MergeReads, MergeWrites, MergeLeft, pool
  <2>6. CASE \/ InitialEnded \/ StartMerge \/ MergeSucceeded \/ GiveUp \/ TopUpEnded \/ Audit
             \/ StatusReads \/ StatusChecks \/ StatusWrites
             \/ OperatorStops \/ CliKilled \/ LauncherKilled \/ MergeKilled \/ Blackout
    BY <2>1, <2>6 DEF InitialEnded, StartMerge, MergeSucceeded, GiveUp, TopUpEnded, Audit, StatusReads,
      StatusChecks, StatusWrites, OperatorStops, CliKilled, LauncherKilled, MergeKilled, Blackout, pool
  <2> QED
    BY <1>1, NextCases, <2>2, <2>3, <2>4, <2>5, <2>6
<1>2. ASSUME IInv, [Next]_vars PROVE [Good]_vars
  BY <1>1, <1>2
<1> QED
  BY <1>2, Invariant, PTL DEF Spec, NoTopUpOfFatalPool

-----------------------------------------------------------------------------
(* The end of a launch.  Who waits for a merge has one: the command line   *)
(* waits for its own, and the launcher for its own.                        *)
WaitsForMerge ==
  /\ cli.pc = "merge" => merge.by = "cli" /\ merge.pc # "off"
  /\ launcher.pc = "merging" => merge.by = "launcher" /\ merge.pc # "off"

(* Where a run stands: what comes later in it is larger.                   *)
CliStage(p) ==
  CASE p = "merge" -> 0 [] p = "launch" -> 1 [] p = "wait" -> 2 [] p = "record" -> 3
    [] p = "interrupt" -> 3 [] OTHER -> 4
LauncherStage(p) ==
  CASE p = "start" -> 0 [] p \in {"initial", "topup"} -> 1 [] p = "merge" -> 2
    [] p = "merging" -> 3 [] p = "audit" -> 4 [] OTHER -> 5
Ended(p) == IF p \in {"off", "exited"} THEN 1 ELSE 0
MergeStage(p) ==
  CASE p = "read" -> 0 [] p = "train" -> 1 [] p = "val" -> 2
    [] p \in {"ok", "fatal", "failed"} -> 3 [] OTHER -> 4

Standing ==
  << CliStage(cli.pc), Ended(launcher.pc), launcher.topups, LauncherStage(launcher.pc),
     MergeStage(merge.pc), Cardinality(Artifacts \ alive),
     Cardinality(With({"tornTrain", "train", "tornVal", "whole"})),
     Cardinality(With({"train", "tornVal", "whole"})), Cardinality(With({"tornVal", "whole"})) >>
Count == 0 .. Cardinality(Artifacts)
Standings ==
  (0 .. 4) \X (0 .. 1) \X (0 .. TopUpRounds) \X (0 .. 5) \X (0 .. 4)
  \X Count \X Count \X Count \X Count

Later(x, y) == \E i \in 1 .. 9 : x[i] < y[i] /\ \A j \in 1 .. i - 1 : x[j] = y[j]

(* What the processes of a run do, kills and commands of the operator apart. *)
Work == Command \/ Launcher \/ Merge \/ \E a \in Artifacts : Shard(a)

(* Every step of a process brings the run further in an order of finitely  *)
(* many places: between two commands or kills there are only so many.      *)
WorkAdvances == [][Work => Standing' \in Standings /\ Later(Standing, Standing')]_vars

LInv == WaitsForMerge /\ launcher.topups <= TopUpRounds

LEMMA InitLInv == Init => LInv
BY RunAssumption DEF Init, LInv, WaitsForMerge, Off

(* How a step of the launcher changes it.                                  *)
LEMMA LauncherMoves ==
  ASSUME TypeOK
  PROVE  /\ \A place \in Places : Goto(place) =>
              launcher'.pc = place /\ launcher'.topups = launcher.topups
         /\ \A code \in Nat : Exit(code) =>
              /\ launcher'.pc \in {"exited", "off"}
              /\ launcher'.topups \in {0, launcher.topups}
         /\ TopUp => launcher'.pc = "topup" /\ launcher'.topups = launcher.topups + 1
<1>1. launcher \in [pc : Places, resumed : BOOLEAN, persisted : Nat, topups : Nat, code : Nat]
  BY DEF TypeOK, OwnersTyped
<1>2. ASSUME NEW place \in Places, Goto(place)
      PROVE  launcher'.pc = place /\ launcher'.topups = launcher.topups
  BY <1>1, <1>2 DEF Goto
<1>3. ASSUME NEW code \in Nat, Exit(code)
      PROVE  launcher'.pc \in {"exited", "off"} /\ launcher'.topups \in {0, launcher.topups}
  <2>1. CASE cli.pc = "wait"
    BY <1>1, <1>3, <2>1 DEF Exit
  <2>2. CASE cli.pc # "wait"
    BY <1>3, <2>2 DEF Exit, Off
  <2>3. QED
    BY <2>1, <2>2
<1>4. ASSUME TopUp
      PROVE  launcher'.pc = "topup" /\ launcher'.topups = launcher.topups + 1
  BY <1>1, <1>4 DEF TopUp
<1>5. QED
  BY <1>2, <1>3, <1>4

LEMMA LInvStep ==
  ASSUME IInv, LInv, Next
  PROVE  LInv'
<1>1. TypeOK /\ Together /\ WaitsForMerge /\ launcher.topups \in Nat /\ launcher.topups <= TopUpRounds
  BY DEF IInv, LInv, TypeOK, OwnersTyped
<1>2. TopUpRounds \in Nat
  BY RunAssumption
<1>3. /\ cli \in [pc : CliPlaces, code : Nat]
      /\ merge \in [pc : MergePlaces, by : {"cli", "launcher"}]
      /\ launcher \in [pc : Places, resumed : BOOLEAN, persisted : Nat, topups : Nat, code : Nat]
  BY <1>1 DEF TypeOK, OwnersTyped, DataTyped
<1> DEFINE Good == LInv'
<1>4. CASE UNCHANGED << cli, launcher, merge >>
  BY <1>1, <1>4 DEF LInv, WaitsForMerge
<1>5. CASE StartRun
  <2>1. cli'.pc = "launch" /\ launcher' = launcher /\ launcher.pc = "off"
    BY <1>1, <1>5 DEF StartRun, Together, LauncherUp
  <2>2. QED
    BY <1>1, <2>1 DEF LInv, WaitsForMerge
<1>6. CASE Resume
  <2>1. merge' = [pc |-> "read", by |-> "cli"] /\ launcher' = launcher /\ launcher.pc = "off"
    BY <1>6 DEF Resume, LauncherUp
  <2>2. QED
    BY <1>1, <2>1 DEF LInv, WaitsForMerge
<1>7. CASE ResumeMerged
  <2>1. cli'.pc \in {"launch", "idle"} /\ launcher' = launcher /\ launcher.pc = "off"
    BY <1>1, <1>3, <1>7 DEF ResumeMerged, Together, LauncherUp
  <2>2. QED
    BY <1>1, <2>1 DEF LInv, WaitsForMerge
<1>8. CASE Launch
  <2>1. cli'.pc = "wait" /\ launcher'.pc = "start" /\ launcher'.topups = 0
    BY <1>3, <1>8 DEF Launch, Off
  <2>2. QED
    BY <1>2, <2>1 DEF LInv, WaitsForMerge
<1>9. CASE LauncherEnded
  <2>1. cli'.pc = "record" /\ launcher'.pc = "off" /\ launcher'.topups = 0
    BY <1>9 DEF LauncherEnded, Off
  <2>2. QED
    BY <1>2, <2>1 DEF LInv, WaitsForMerge
<1>10. CASE Record \/ RecordInterrupt
  <2>1. cli'.pc = "idle" /\ launcher' = launcher /\ merge' = merge
    BY <1>3, <1>10 DEF Record, RecordInterrupt
  <2>2. QED
    BY <1>1, <2>1 DEF LInv, WaitsForMerge
<1>11. CASE MergeReads \/ MergeWrites \/ MergeKilled
  <2>1. /\ merge'.by = merge.by /\ merge'.pc # "off"
        /\ cli' = cli /\ launcher' = launcher
    BY <1>3, <1>11 DEF MergeReads, MergeWrites, MergeKilled, owners
  <2>2. QED
    BY <1>1, <2>1 DEF LInv, WaitsForMerge
<1>12. CASE MergeLeft
  <2>1. /\ cli' = cli /\ launcher' = launcher
        /\ \/ merge.by = "cli" /\ cli.pc # "merge"
           \/ merge.by = "launcher" /\ launcher.pc # "merging"
    BY <1>12 DEF MergeLeft, MergeEnded, owners
  <2>2. cli.pc # "merge" /\ launcher.pc # "merging"
    BY <1>1, <2>1 DEF WaitsForMerge
  <2>3. QED
    BY <1>1, <2>1, <2>2 DEF LInv, WaitsForMerge
<1>13. CASE \/ StartTeachers \/ InitialEnded \/ MergeSucceeded \/ GiveUp \/ TopUp \/ TopUpEnded \/ Audit
  <2>1. cli' = cli
    BY <1>13 DEF StartTeachers, InitialEnded, MergeSucceeded, GiveUp, TopUp, TopUpEnded, Audit
  <2>2. LauncherUp
    BY <1>13 DEF LauncherUp, StartTeachers, InitialEnded, MergeSucceeded, GiveUp, TopUp, TopUpEnded,
      Audit
  <2>3. cli.pc # "merge"
    BY <1>1, <2>2 DEF Together
  <2>4. \/ \E place \in Places \ {"merging"} : Goto(place)
        \/ \E code \in Nat : Exit(code)
        \/ TopUp
    <3>1. StartTeachers \/ InitialEnded => Goto("initial") \/ Goto("merge") \/ Exit(1)
      BY DEF StartTeachers, InitialEnded
    <3>2. MergeSucceeded \/ TopUpEnded => Goto("audit") \/ Goto("merge")
      BY DEF MergeSucceeded, TopUpEnded
    <3>3. GiveUp \/ Audit => Exit(0) \/ Exit(1) \/ Exit(2)
      BY DEF GiveUp, Audit
    <3>4. QED
      BY <1>13, <3>1, <3>2, <3>3 DEF Places
  <2>5. launcher'.pc # "merging"
    BY <1>1, <2>4, LauncherMoves
  <2>6. launcher'.topups <= TopUpRounds
    <3>1. TopUp => launcher.topups < TopUpRounds
      BY DEF TopUp, MayTopUp
    <3>2. launcher'.topups \in {0, launcher.topups} \/ (TopUp /\ launcher'.topups = launcher.topups + 1)
      BY <1>1, <2>4, LauncherMoves
    <3>3. QED
      BY <1>1, <1>2, <3>1, <3>2
  <2>7. QED
    BY <2>1, <2>3, <2>5, <2>6 DEF LInv, WaitsForMerge
<1>14. CASE StartMerge
  <2>1. cli' = cli /\ Goto("merging") /\ merge' = [pc |-> "read", by |-> "launcher"] /\ LauncherUp
    BY <1>14 DEF StartMerge, LauncherUp
  <2>2. cli.pc # "merge"
    BY <1>1, <2>1 DEF Together
  <2>3. launcher'.topups = launcher.topups
    BY <1>1, <2>1, LauncherMoves DEF Places
  <2>4. QED
    BY <1>1, <2>1, <2>2, <2>3 DEF LInv, WaitsForMerge
<1>15. CASE OperatorStops \/ CliKilled \/ LauncherKilled \/ Blackout
  <2>1. /\ cli'.pc # "merge" \/ (cli' = cli /\ merge' = merge)
        /\ \/ launcher' = Off
           \/ launcher' = launcher /\ merge' = merge
    BY <1>3, <1>15 DEF OperatorStops, CliKilled, LauncherKilled, Blackout
  <2>2. QED
    BY <1>1, <1>2, <2>1 DEF LInv, WaitsForMerge, Off
<1>16. CASE \/ StatusReads \/ StatusChecks \/ StatusWrites
            \/ \E a \in Artifacts : ShardKilled(a) \/ ShardWrites(a) \/ ShardFails(a)
  BY <1>4, <1>16 DEF StatusReads, StatusChecks, StatusWrites, ShardKilled, ShardWrites, ShardFails,
    owners
<1>17. QED
  BY NextCases, <1>5, <1>6, <1>7, <1>8, <1>9, <1>10, <1>11, <1>12, <1>13, <1>14, <1>15, <1>16

LEMMA LInvariance == Spec => []LInv
<1>1. IInv /\ LInv /\ [Next]_vars => LInv'
  <2>1. LInv /\ UNCHANGED vars => LInv'
    BY DEF LInv, WaitsForMerge, vars, owners
  <2>2. QED
    BY <2>1, LInvStep
<1>2. QED
  BY <1>1, InitLInv, Invariant, PTL DEF Spec

(* The command line and the launcher wait for a merge only while there is  *)
(* one of theirs, whoever was killed: no launch hangs on a merge nobody    *)
(* runs.                                                                   *)
THEOREM MergeAwaited == Spec => []WaitsForMerge
BY LInvariance, PTL DEF LInv

(* Every variable of a run keeps its type.                                 *)
THEOREM TypeCorrect == Spec => []TypeOK
BY Invariant, PTL DEF IInv

LEMMA ArtifactsFinite == IsFiniteSet(Artifacts)
<1>1. PICK n \in Nat : n = TopUpRounds * MaxLaunches
  BY RunAssumption
<1>2. IsFiniteSet({0})
  BY FS_Singleton
<1>3. PICK z : z = 0
  OBVIOUS
<1>4. z \in Int /\ n \in Int
  BY <1>3
<1>5. IsFiniteSet(z .. n)
  BY <1>4, FS_Interval
<1>6. PICK later : later = (z .. n) \ {0}
  OBVIOUS
<1>7. IsFiniteSet(later)
  BY <1>5, <1>6, FS_Difference
<1>8. IsFiniteSet(InitialChunks) /\ IsFiniteSet(TopUpChunks)
  BY RunAssumption
<1>9. IsFiniteSet({0} \X InitialChunks)
  BY <1>2, <1>8, FS_Product
<1>10. IsFiniteSet(later \X TopUpChunks)
  BY <1>7, <1>8, FS_Product
<1>11. IsFiniteSet(({0} \X InitialChunks) \union (later \X TopUpChunks))
  BY <1>9, <1>10, FS_Union
<1>12. QED
  BY <1>1, <1>3, <1>6, <1>11 DEF Artifacts, Rounds

LEMMA CountFacts ==
  /\ Cardinality(Artifacts) \in Nat
  /\ \A S \in SUBSET Artifacts : IsFiniteSet(S) /\ Cardinality(S) \in Nat /\ Cardinality(S) \in Count
<1>1. Cardinality(Artifacts) \in Nat
  BY ArtifactsFinite, FS_CardinalityType
<1>2. ASSUME NEW S \in SUBSET Artifacts
      PROVE  IsFiniteSet(S) /\ Cardinality(S) \in Nat /\ Cardinality(S) <= Cardinality(Artifacts)
  BY ArtifactsFinite, FS_Subset, FS_CardinalityType
<1>3. QED
  BY <1>1, <1>2 DEF Count

LEMMA StandingBounded ==
  ASSUME TypeOK, LInv
  PROVE  Standing \in Standings
<1>1. launcher.topups \in 0 .. TopUpRounds
  BY RunAssumption DEF TypeOK, OwnersTyped, LInv
<1>2. CliStage(cli.pc) \in 0 .. 4 /\ Ended(launcher.pc) \in 0 .. 1
  BY DEF CliStage, Ended
<1>3. LauncherStage(launcher.pc) \in 0 .. 5 /\ MergeStage(merge.pc) \in 0 .. 4
  BY DEF LauncherStage, MergeStage
<1>4. /\ Artifacts \ alive \in SUBSET Artifacts
      /\ \A states : With(states) \in SUBSET Artifacts
  BY DEF With
<1>5. /\ Cardinality(Artifacts \ alive) \in Count
      /\ \A states : Cardinality(With(states)) \in Count
  BY <1>4, CountFacts
<1>6. QED
  BY <1>1, <1>2, <1>3, <1>5 DEF Standing, Standings

LEMMA LaterAt ==
  ASSUME NEW x, NEW y
  PROVE  /\ x[1] < y[1] => Later(x, y)
         /\ x[1] = y[1] /\ x[2] < y[2] => Later(x, y)
         /\ x[1] = y[1] /\ x[2] = y[2] /\ x[3] < y[3] => Later(x, y)
         /\ x[1] = y[1] /\ x[2] = y[2] /\ x[3] = y[3] /\ x[4] < y[4] => Later(x, y)
         /\ /\ x[1] = y[1] /\ x[2] = y[2] /\ x[3] = y[3] /\ x[4] = y[4]
            /\ \/ x[5] < y[5]
               \/ x[5] = y[5] /\ x[6] < y[6]
               \/ x[5] = y[5] /\ x[6] = y[6] /\ x[7] < y[7]
               \/ x[5] = y[5] /\ x[6] = y[6] /\ x[7] = y[7] /\ x[8] < y[8]
               \/ x[5] = y[5] /\ x[6] = y[6] /\ x[7] = y[7] /\ x[8] = y[8] /\ x[9] < y[9]
            => Later(x, y)
<1>1. /\ 1 .. 0 = {} /\ 1 .. 1 = {1} /\ 1 .. 2 = {1, 2} /\ 1 .. 3 = {1, 2, 3}
      /\ 1 .. 4 = {1, 2, 3, 4} /\ 1 .. 5 = {1, 2, 3, 4, 5} /\ 1 .. 6 = {1, 2, 3, 4, 5, 6}
      /\ 1 .. 7 = {1, 2, 3, 4, 5, 6, 7} /\ 1 .. 8 = {1, 2, 3, 4, 5, 6, 7, 8}
      /\ 1 .. 9 = {1, 2, 3, 4, 5, 6, 7, 8, 9}
  OBVIOUS
<1>2. /\ 1 - 1 = 0 /\ 2 - 1 = 1 /\ 3 - 1 = 2 /\ 4 - 1 = 3 /\ 5 - 1 = 4 /\ 6 - 1 = 5
      /\ 7 - 1 = 6 /\ 8 - 1 = 7 /\ 9 - 1 = 8
  OBVIOUS
<1>3. QED
  BY <1>1, <1>2 DEF Later

(* A shard ends, or one of its files goes on.                              *)
LEMMA ShardMoves ==
  ASSUME TypeOK, Candidates, NEW a \in Artifacts, Shard(a)
  PROVE  \/ Cardinality(Artifacts \ alive) < Cardinality(Artifacts \ alive')
         \/ /\ alive' = alive
            /\ \/ Cardinality(With({"tornTrain", "train", "tornVal", "whole"}))
                    < Cardinality(With({"tornTrain", "train", "tornVal", "whole"})')
               \/ /\ With({"tornTrain", "train", "tornVal", "whole"})'
                       = With({"tornTrain", "train", "tornVal", "whole"})
                  /\ \/ Cardinality(With({"train", "tornVal", "whole"}))
                          < Cardinality(With({"train", "tornVal", "whole"})')
                     \/ /\ With({"train", "tornVal", "whole"})' = With({"train", "tornVal", "whole"})
                        /\ Cardinality(With({"tornVal", "whole"}))
                             < Cardinality(With({"tornVal", "whole"})')
<1>1. ASSUME NEW S \in SUBSET Artifacts, NEW b \in Artifacts, b \notin S
      PROVE  Cardinality(S) < Cardinality(S \union {b})
  <2>1. IsFiniteSet(S) /\ Cardinality(S) \in Nat
    BY CountFacts
  <2>2. Cardinality(S \union {b}) = Cardinality(S) + 1
    BY <1>1, <2>1, FS_AddElement
  <2>3. QED
    BY <2>1, <2>2
<1>2. a \in alive /\ alive \subseteq Artifacts
  BY DEF Shard, ShardWrites, ShardFails, TypeOK, PoolTyped
<1>3. CASE alive' = alive \ {a}
  <2>1. Artifacts \ alive' = (Artifacts \ alive) \union {a} /\ a \notin Artifacts \ alive
    BY <1>2, <1>3
  <2>2. QED
    BY <1>1, <2>1
<1>4. CASE alive' # alive \ {a}
  <2>1. ShardWrites(a)
    BY <1>4 DEF Shard, ShardFails
  <2>2. PICK old, new : old = file[a] /\ new = file'[a]
    OBVIOUS
  <2>3. file \in [Artifacts -> FileStates] /\ old # "whole"
    BY <1>2, <2>2 DEF TypeOK, PoolTyped, Candidates
  <2>4. file' = [file EXCEPT ![a] = NextFile[file[a]]] /\ new # "whole" /\ alive' = alive
    BY <1>4, <2>1, <2>2 DEF ShardWrites
  <2>5. new = NextFile[old] /\ \A b \in Artifacts : b # a => file'[b] = file[b]
    BY <2>2, <2>3, <2>4
  <2>6. << old, new >> \in {<< "none", "tornTrain" >>, << "tornTrain", "train" >>, << "train", "tornVal" >>}
    <3>1. old \in {"none", "tornTrain", "train", "tornVal"}
      BY <2>2, <2>3 DEF FileStates
    <3>2. QED
      BY <2>4, <2>5, <3>1 DEF NextFile
  <2>7. ASSUME NEW S
        PROVE  /\ old \notin S /\ new \in S => With(S)' = With(S) \union {a} /\ a \notin With(S)
               /\ (old \in S <=> new \in S) => With(S)' = With(S)
    <3>1. With(S)' = {b \in Artifacts : file'[b] \in S}
      BY DEF With
    <3>2. QED
      BY <2>2, <2>5, <3>1 DEF With
  <2>8. \A S : old \notin S /\ new \in S => Cardinality(With(S)) < Cardinality(With(S)')
    <3> SUFFICES ASSUME NEW S, old \notin S, new \in S
                 PROVE  Cardinality(With(S)) < Cardinality(With(S)')
      OBVIOUS
    <3>1. PICK X, Y : X = With(S) /\ Y = With(S)'
      OBVIOUS
    <3>2. Y = X \union {a} /\ a \notin X /\ X \in SUBSET Artifacts
      BY <2>7, <3>1 DEF With
    <3>3. QED
      BY <1>1, <3>1, <3>2
  <2>9. CASE old = "none" /\ new = "tornTrain"
    <3>1. /\ old \notin {"tornTrain", "train", "tornVal", "whole"}
          /\ new \in {"tornTrain", "train", "tornVal", "whole"}
      BY <2>9
    <3>2. QED
      BY <2>4, <2>8, <3>1
  <2>10. CASE old = "tornTrain" /\ new = "train"
    <3>1. /\ old \in {"tornTrain", "train", "tornVal", "whole"}
          /\ new \in {"tornTrain", "train", "tornVal", "whole"}
          /\ old \notin {"train", "tornVal", "whole"} /\ new \in {"train", "tornVal", "whole"}
      BY <2>10
    <3>2. With({"tornTrain", "train", "tornVal", "whole"})'
            = With({"tornTrain", "train", "tornVal", "whole"})
      BY <2>7, <3>1
    <3>3. QED
      BY <2>4, <2>8, <3>1, <3>2
  <2>11. CASE old = "train" /\ new = "tornVal"
    <3>1. /\ old \in {"tornTrain", "train", "tornVal", "whole"}
          /\ new \in {"tornTrain", "train", "tornVal", "whole"}
          /\ old \in {"train", "tornVal", "whole"} /\ new \in {"train", "tornVal", "whole"}
          /\ old \notin {"tornVal", "whole"} /\ new \in {"tornVal", "whole"}
      BY <2>11
    <3>2. With({"tornTrain", "train", "tornVal", "whole"})'
            = With({"tornTrain", "train", "tornVal", "whole"})
      BY <2>7, <3>1
    <3>3. With({"train", "tornVal", "whole"})' = With({"train", "tornVal", "whole"})
      BY <2>7, <3>1
    <3>4. QED
      BY <2>4, <2>8, <3>1, <3>2, <3>3
  <2>12. QED
    BY <2>6, <2>9, <2>10, <2>11
<1>5. QED
  BY <1>3, <1>4

LEMMA WorkStep ==
  ASSUME IInv, LInv, Work
  PROVE  Later(Standing, Standing')
<1>1. TypeOK /\ Together /\ Candidates
  BY DEF IInv
<1>2. /\ cli \in [pc : CliPlaces, code : Nat]
      /\ merge \in [pc : MergePlaces, by : {"cli", "launcher"}]
      /\ launcher \in [pc : Places, resumed : BOOLEAN, persisted : Nat, topups : Nat, code : Nat]
  BY <1>1 DEF TypeOK, OwnersTyped, DataTyped
<1>3. PICK x, y, r, s, d, e, t, u, l, k, m, n, h, i, f, g, p, q, v, w :
        /\ x = Standing /\ y = Standing'
        /\ r = CliStage(cli.pc) /\ s = CliStage(cli.pc)'
        /\ d = Ended(launcher.pc) /\ e = Ended(launcher.pc)'
        /\ t = launcher.topups /\ u = launcher'.topups
        /\ l = LauncherStage(launcher.pc) /\ k = LauncherStage(launcher.pc)'
        /\ m = MergeStage(merge.pc) /\ n = MergeStage(merge.pc)'
        /\ h = Cardinality(Artifacts \ alive) /\ i = Cardinality(Artifacts \ alive')
        /\ f = Cardinality(With({"tornTrain", "train", "tornVal", "whole"}))
        /\ g = Cardinality(With({"tornTrain", "train", "tornVal", "whole"})')
        /\ p = Cardinality(With({"train", "tornVal", "whole"}))
        /\ q = Cardinality(With({"train", "tornVal", "whole"})')
        /\ v = Cardinality(With({"tornVal", "whole"}))
        /\ w = Cardinality(With({"tornVal", "whole"})')
  OBVIOUS
<1>4. x = << r, d, t, l, m, h, f, p, v >> /\ y = << s, e, u, k, n, i, g, q, w >>
  BY <1>3 DEF Standing
<1>5. /\ x[1] = r /\ x[2] = d /\ x[3] = t /\ x[4] = l /\ x[5] = m /\ x[6] = h /\ x[7] = f
      /\ x[8] = p /\ x[9] = v
      /\ y[1] = s /\ y[2] = e /\ y[3] = u /\ y[4] = k /\ y[5] = n /\ y[6] = i /\ y[7] = g
      /\ y[8] = q /\ y[9] = w
  BY <1>4
<1>6. /\ r = CliStage(cli.pc) /\ s = CliStage(cli'.pc)
      /\ d = Ended(launcher.pc) /\ e = Ended(launcher'.pc)
      /\ l = LauncherStage(launcher.pc) /\ k = LauncherStage(launcher'.pc)
      /\ m = MergeStage(merge.pc) /\ n = MergeStage(merge'.pc)
      /\ t = launcher.topups /\ u = launcher'.topups
  BY <1>3 DEF CliStage, Ended, LauncherStage, MergeStage
<1> SUFFICES \/ r < s
             \/ r = s /\ d < e
             \/ r = s /\ d = e /\ t < u
             \/ r = s /\ d = e /\ t = u /\ l < k
             \/ /\ r = s /\ d = e /\ t = u /\ l = k
                /\ \/ m < n
                   \/ m = n /\ h < i
                   \/ m = n /\ h = i /\ f < g
                   \/ m = n /\ h = i /\ f = g /\ p < q
                   \/ m = n /\ h = i /\ f = g /\ p = q /\ v < w
  BY <1>3, <1>5, LaterAt
<1>7. CASE Command
  <2>1. << cli.pc, cli'.pc >> \in {<< "merge", "launch" >>, << "merge", "idle" >>, << "launch", "wait" >>,
          << "wait", "record" >>, << "record", "idle" >>, << "interrupt", "idle" >>}
    <3>1. CASE ResumeMerged
      BY <1>2, <3>1 DEF ResumeMerged
    <3>2. CASE Launch
      BY <1>2, <3>2 DEF Launch
    <3>3. CASE LauncherEnded
      BY <1>2, <3>3 DEF LauncherEnded
    <3>4. CASE Record
      BY <1>2, <3>4 DEF Record
    <3>5. CASE RecordInterrupt
      BY <1>2, <3>5 DEF RecordInterrupt
    <3>6. QED
      BY <1>7, <3>1, <3>2, <3>3, <3>4, <3>5 DEF Command
  <2>2. PICK a, b : a = cli.pc /\ b = cli'.pc
    OBVIOUS
  <2>3. CliStage(a) < CliStage(b)
    BY <2>1, <2>2 DEF CliStage
  <2>4. QED
    BY <1>6, <2>2, <2>3
<1>8. CASE Launcher
  <2>1. cli' = cli
    BY <1>8 DEF Launcher, StartTeachers, InitialEnded, StartMerge, MergeSucceeded, GiveUp, TopUp,
      TopUpEnded, Audit
  <2>2. launcher.pc \in {"start", "initial", "merge", "merging", "topup", "audit"}
    BY <1>8 DEF Launcher, StartTeachers, InitialEnded, StartMerge, MergeSucceeded, GiveUp, TopUp,
      TopUpEnded, Audit
  <2>3. r = s /\ d = 0
    BY <1>6, <2>1, <2>2 DEF Ended
  <2>4. \/ Exit(0) \/ Exit(1) \/ Exit(2)
        \/ launcher.pc = "start" /\ (Goto("merge") \/ Goto("initial"))
        \/ launcher.pc = "initial" /\ Goto("merge")
        \/ launcher.pc = "merge" /\ Goto("merging")
        \/ launcher.pc = "merging" /\ (Goto("audit") \/ TopUp)
        \/ launcher.pc = "topup" /\ Goto("merge")
    BY <1>8 DEF Launcher, StartTeachers, InitialEnded, StartMerge, MergeSucceeded, GiveUp, TopUp,
      TopUpEnded, Audit
  <2>5. CASE Exit(0) \/ Exit(1) \/ Exit(2)
    <3>1. launcher'.pc \in {"exited", "off"}
      BY <1>1, <2>5, LauncherMoves
    <3>2. e = 1
      BY <1>6, <3>1 DEF Ended
    <3>3. QED
      BY <2>3, <3>2
  <2>6. CASE TopUp
    <3>1. launcher'.pc = "topup" /\ u = t + 1 /\ t \in Nat
      BY <1>1, <1>2, <1>6, <2>6, LauncherMoves
    <3>2. e = 0
      BY <1>6, <3>1 DEF Ended
    <3>3. QED
      BY <2>3, <3>1, <3>2
  <2>7. ASSUME NEW from \in Places, NEW to \in Places, launcher.pc = from, Goto(to),
               LauncherStage(from) < LauncherStage(to), to \notin {"off", "exited"}
        PROVE  r = s /\ d = e /\ t = u /\ l < k
    <3>1. launcher'.pc = to /\ u = t
      BY <1>1, <1>6, <2>7, LauncherMoves
    <3>2. e = 0
      BY <1>6, <2>7, <3>1 DEF Ended
    <3>3. QED
      BY <1>6, <2>3, <2>7, <3>1, <3>2
  <2>8. /\ LauncherStage("start") = 0 /\ LauncherStage("initial") = 1 /\ LauncherStage("topup") = 1
        /\ LauncherStage("merge") = 2 /\ LauncherStage("merging") = 3 /\ LauncherStage("audit") = 4
    BY DEF LauncherStage
  <2>9. {"start", "initial", "topup", "merge", "merging", "audit"} \subseteq Places
    BY DEF Places
  <2>10. QED
    BY <2>4, <2>5, <2>6, <2>7, <2>8, <2>9
<1>9. CASE Merge
  <2>1. cli' = cli /\ launcher' = launcher
    BY <1>9 DEF Merge, MergeReads, MergeWrites, MergeLeft, owners
  <2>2. << merge.pc, merge'.pc >> \in {<< "read", "train" >>, << "read", "fatal" >>, << "read", "failed" >>,
          << "train", "val" >>, << "val", "ok" >>, << "ok", "off" >>, << "fatal", "off" >>,
          << "failed", "off" >>}
    BY <1>2, <1>9 DEF Merge, MergeReads, MergeWrites, MergeLeft, MergeEnded
  <2>3. PICK a, b : a = merge.pc /\ b = merge'.pc
    OBVIOUS
  <2>4. MergeStage(a) < MergeStage(b)
    BY <2>2, <2>3 DEF MergeStage
  <2>5. QED
    BY <1>6, <2>1, <2>3, <2>4
<1>10. ASSUME NEW a \in Artifacts, Shard(a)
       PROVE  /\ r = s /\ d = e /\ t = u /\ l = k /\ m = n
              /\ \/ h < i
                 \/ h = i /\ f < g
                 \/ h = i /\ f = g /\ p < q
                 \/ h = i /\ f = g /\ p = q /\ v < w
  <2>1. cli' = cli /\ launcher' = launcher /\ merge' = merge
    BY <1>10 DEF Shard, ShardWrites, ShardFails, owners
  <2>2. r = s /\ d = e /\ t = u /\ l = k /\ m = n
    BY <1>6, <2>1
  <2>3. \/ h < i
        \/ h = i /\ f < g
        \/ h = i /\ f = g /\ p < q
        \/ h = i /\ f = g /\ p = q /\ v < w
    BY <1>1, <1>3, <1>10, ShardMoves
  <2>4. QED
    BY <2>2, <2>3
<1>11. QED
  BY <1>7, <1>8, <1>9, <1>10 DEF Work

THEOREM Advances == Spec => WorkAdvances
<1>1. IInv /\ LInv => Standing \in Standings
  BY StandingBounded DEF IInv
<1>2. ASSUME IInv, LInv, (Standing \in Standings)', [Next]_vars
      PROVE  [Work => Standing' \in Standings /\ Later(Standing, Standing')]_vars
  <2>1. Standing' \in Standings
    BY <1>2 DEF Standings, Count
  <2>2. QED
    BY <1>2, <2>1, WorkStep
<1>3. QED
  BY Invariant, LInvariance, <1>1, <1>2, PTL DEF Spec, WorkAdvances

=============================================================================
