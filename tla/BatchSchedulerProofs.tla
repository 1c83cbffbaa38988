-------------------------- MODULE BatchSchedulerProofs --------------------------
(***************************************************************************)
(* Proofs about a generation request and its failure log (BatchScheduler   *)
(* with FailureLog), for any requests, workers, and any number of kills.   *)
(*                                                                         *)
(* As long as no append was cut off the log is clean: it has no line that  *)
(* is not JSON, its last line is whole between two appends, and what the   *)
(* process believes recorded is on file (Clean).  Then every rejected      *)
(* candidate is on file or is the one being recorded (RejectedKnown).      *)
(*                                                                         *)
(* A candidate is left out when its stratum or its domain is full or given *)
(* up, and counts only grow (LeftOut); that a full domain has no stratum   *)
(* short of its quota is a fact about two sums (KeptWithinQuota).          *)
(*                                                                         *)
(* A request that is not killed takes only so many steps (WorkAdvances),   *)
(* and its coordinator never waits for nothing (WaitsForFuture).           *)
(***************************************************************************)
EXTENDS BatchScheduler, FiniteSetTheorems, TLAPS

CandidateStates ==
  {"untried", "skipped", "running", "task", "failed", "kept", "surplus", "rejected"}

Typed ==
  /\ request \in Requests
  /\ candidate \in [Index -> CandidateStates]
  /\ done \subseteq Index
  /\ irrelevance.tried \in Nat
  /\ lines \in [Records \union {Garbage} -> Nat]
  /\ known \subseteq Records
  /\ written \in {"no", "part", "glued"}
  /\ pc = "record" => /\ recording.record \in Records
                      /\ recording.next \in {"collect", "irrelevance", "batch", "raising"}

Clean ==
  /\ pc = "down" => written = "no"
  /\ ~ cutOff => /\ lines[Garbage] = 0
                 /\ written # "glued"
                 /\ written = "no" => fragment = Nothing
                 /\ \A r \in known : lines[r] > 0

OnRecord(i) == \E reason \in Reasons : lines[NormalRecord(i, reason)] > 0

BeingRecorded(i) ==
  /\ pc = "record" /\ recording.next = "collect"
  /\ \E reason \in Reasons : recording.record = NormalRecord(i, reason)

RejectedKnown ==
  ~ cutOff /\ pc \notin {"raising", "raised"} =>
    \A i \in Index : candidate[i] = "rejected" => OnRecord(i) \/ BeingRecorded(i)

IInv == Typed /\ Clean /\ RejectedKnown /\ QuotasRespected /\ BlockedOnlyByDamage

-----------------------------------------------------------------------------
(* What a request of the assumption offers. *)
LEMMA RequestFacts ==
  ASSUME request \in Requests
  PROVE  /\ Len(Specs) \in Nat /\ Index = DOMAIN Specs
         /\ \A i \in Index : Specs[i].domain \in Domains /\ Specs[i].difficulty \in Levels
         /\ \A d \in Domains, l \in Levels : Quota[d][l] \in Nat
         /\ \A i \in Index, reason \in Reasons : NormalRecord(i, reason) \in Records
<1>1. request.schedule \in Seq(SpecType) /\ request.quota \in [Domains -> [Levels -> Nat]]
  BY RequestsAssumption
<1>2. Len(Specs) \in Nat /\ Index = DOMAIN Specs
  BY <1>1 DEF Specs, Index
<1>3. ASSUME NEW i \in Index
      PROVE  Specs[i].domain \in Domains /\ Specs[i].difficulty \in Levels
  <2>1. Specs[i] \in SpecType
    BY <1>1, <1>2 DEF Specs, Index
  <2>2. QED
    BY <2>1 DEF SpecType
<1>4. ASSUME NEW i \in Index, NEW reason \in Reasons
      PROVE  NormalRecord(i, reason) \in Records
  BY <1>2, RecordsAssumption DEF NormalRecord, Specs
<1>5. QED
  BY <1>1, <1>2, <1>3, <1>4 DEF Quota

LEMMA TriedInRange ==
  ASSUME request \in Requests, irrelevance.tried \in Nat, MoreIrrelevance
  PROVE  irrelevance.tried \in 0 .. 5 * request.irrelevant + 3
<1>1. request.irrelevant \in Nat
  BY RequestsAssumption
<1> DEFINE a == 5 * request.irrelevant
           b == request.irrelevant + 4
<1>2. a \in Nat /\ b \in Nat
  BY <1>1
<1>3. Max({a, b}) = IF a >= b THEN a ELSE b
  <2> HIDE DEF a, b
  <2>1. CASE a >= b
    BY <1>2, <2>1 DEF Max
  <2>2. CASE a < b
    BY <1>2, <2>2 DEF Max
  <2>3. QED
    BY <1>2, <2>1, <2>2
<1>4. IrrelevanceAttempts <= a + 4 /\ IrrelevanceAttempts \in Nat
  BY <1>1, <1>2, <1>3 DEF IrrelevanceAttempts
<1>5. QED
  BY <1>1, <1>4 DEF MoreIrrelevance

LEMMA IrrelevanceRecorded ==
  ASSUME request \in Requests, irrelevance.tried \in Nat, MoreIrrelevance,
         NEW reason \in Reasons
  PROVE  IrrelevanceRecord(irrelevance.tried, reason) \in Records
BY TriedInRange, RecordsAssumption DEF IrrelevanceRecord

(* The writes of the log keep its shape, and no record is ever taken back. *)
LEMMA WriteFacts ==
  ASSUME Typed, NEW r \in Records, Written(r)
  PROVE  /\ lines' \in [Records \union {Garbage} -> Nat]
         /\ \A x \in Records : lines[x] > 0 => lines'[x] > 0
         /\ written = "part" \/ fragment = Nothing =>
              lines'[r] > 0 /\ lines'[Garbage] = lines[Garbage]
         /\ fragment' = Nothing
BY LogAssumption DEF Written, Typed

-----------------------------------------------------------------------------
LEMMA InitIInv == Init => IInv
<1> SUFFICES ASSUME Init
             PROVE  IInv
  OBVIOUS
<1>1. Typed
  BY DEF Init, LogInit, Typed, CandidateStates
<1>2. Clean /\ RejectedKnown /\ BlockedOnlyByDamage
  BY DEF Init, LogInit, Clean, RejectedKnown, BlockedOnlyByDamage
<1>3. QuotasRespected
  <2>1. With({"kept"}) = {}
    BY DEF Init, With
  <2> SUFFICES ASSUME NEW d \in Domains, NEW l \in Levels
               PROVE  Ok(d, l) <= Quota[d][l]
    BY DEF QuotasRespected
  <2>2. Ok(d, l) = Cardinality({})
    BY <2>1 DEF Ok
  <2>3. Quota[d][l] \in Nat
    BY RequestFacts DEF Init
  <2>4. QED
    BY <2>2, <2>3, FS_EmptySet
<1>4. QED
  BY <1>1, <1>2, <1>3 DEF IInv

(* The request is fixed, and with it everything read of it.                *)
LEMMA RequestFixed ==
  ASSUME [Next]_vars
  PROVE  request' = request /\ Specs' = Specs /\ Quota' = Quota /\ Index' = Index
<1>1. request' = request
  BY DEF Next, Coordinator, vars, process, StartProcess, Submit, SubmitEnds, CandidateEnds, Wait,
     CollectFailure, CollectSurplus, CollectTask, CollectEnds, IrrelevanceMade,
     IrrelevanceRejected, Return, Raise, AppendPart, AppendLast, AppendFails, Kill
<1>2. QED
  BY <1>1 DEF Specs, Quota, Index

(* Steps of the pool: the log is not touched, nothing is recorded, and no  *)
(* candidate becomes a rejected one.                                       *)
PoolStep ==
  \/ Submit \/ SubmitEnds \/ Wait \/ CollectEnds
  \/ \E i \in Index : CandidateEnds(i) \/ CollectSurplus(i) \/ CollectTask(i)
  \/ IrrelevanceMade \/ Return \/ Raise \/ UNCHANGED vars

LEMMA PoolStepIInv ==
  ASSUME IInv, PoolStep, Index' = Index, request' = request
  PROVE  Typed' /\ Clean' /\ RejectedKnown' /\ BlockedOnlyByDamage'
<1> USE DEF IInv
<1>1. /\ UNCHANGED << lines, fragment, known, written, separated, cutOff, recording >>
      /\ pc' = pc \/ (pc # "record" /\ pc' \notin {"record", "blocked", "down"})
  BY DEF PoolStep, Submit, SubmitEnds, Wait, CollectEnds, CandidateEnds, CollectSurplus,
     CollectTask, IrrelevanceMade, MoreIrrelevance, Return, Raise, vars, coordinator, process, log
<1>2. /\ candidate' \in [Index -> CandidateStates]
      /\ \A i \in Index : candidate'[i] = "rejected" => candidate[i] = "rejected"
  <2>1. CASE candidate' = candidate
    BY <2>1 DEF Typed
  <2>2. ASSUME NEW i \in Index, NEW s \in CandidateStates \ {"rejected"},
               candidate' = [candidate EXCEPT ![i] = s]
        PROVE  /\ candidate' \in [Index -> CandidateStates]
               /\ \A j \in Index : candidate'[j] = "rejected" => candidate[j] = "rejected"
    BY <2>2 DEF Typed
  <2>3. \/ candidate' = candidate
        \/ \E i \in Index, s \in CandidateStates \ {"rejected"} :
             candidate' = [candidate EXCEPT ![i] = s]
    BY DEF PoolStep, Submit, SubmitEnds, Wait, CollectEnds, CandidateEnds, CollectSurplus,
       CollectTask, IrrelevanceMade, Return, Raise, vars, CandidateStates
  <2>4. QED
    BY <2>1, <2>2, <2>3
<1>3. done' \subseteq Index
  BY DEF PoolStep, Submit, SubmitEnds, Wait, CollectEnds, CandidateEnds, CollectSurplus,
     CollectTask, IrrelevanceMade, Return, Raise, vars, coordinator, Typed, Ended, With
<1>4. irrelevance'.tried \in Nat
  BY DEF PoolStep, Submit, SubmitEnds, Wait, CollectEnds, CandidateEnds, CollectSurplus,
     CollectTask, IrrelevanceMade, Return, Raise, vars, coordinator, Typed, Tried
<1>5. Typed'
  BY <1>1, <1>2, <1>3, <1>4 DEF Typed
<1>6. Clean' /\ BlockedOnlyByDamage'
  BY <1>1 DEF Clean, BlockedOnlyByDamage
<1>7. RejectedKnown'
  <2>1. pc' \notin {"raising", "raised"} => pc \notin {"raising", "raised"}
    BY DEF PoolStep, Submit, SubmitEnds, Wait, CollectEnds, CandidateEnds, CollectSurplus,
       CollectTask, IrrelevanceMade, MoreIrrelevance, Return, Raise, vars, coordinator
  <2>2. \A i \in Index : OnRecord(i) => OnRecord(i)'
    BY <1>1 DEF OnRecord, NormalRecord, Specs
  <2>3. \A i \in Index : BeingRecorded(i) => BeingRecorded(i)'
    BY <1>1 DEF BeingRecorded, NormalRecord, Specs
  <2>4. QED
    BY <1>1, <1>2, <2>1, <2>2, <2>3 DEF RejectedKnown
<1>8. QED
  BY <1>5, <1>6, <1>7

(* A failure, recorded as the next step: of a candidate, of an irrelevance *)
(* attempt.                                                                *)
LEMMA CollectFailureIInv ==
  ASSUME IInv, NEW i \in Index, CollectFailure(i), Index' = Index, request' = request
  PROVE  Typed' /\ Clean' /\ RejectedKnown' /\ BlockedOnlyByDamage'
<1> USE DEF IInv
<1>1. PICK reason \in Reasons :
        /\ pc = "collect" /\ pc' = "record"
        /\ recording' = [record |-> NormalRecord(i, reason), next |-> "collect"]
        /\ candidate' = [candidate EXCEPT ![i] = "rejected"]
        /\ done' = done \ {i}
        /\ UNCHANGED << irrelevance, cutOff, lines, fragment, known, written >>
  BY DEF CollectFailure, Record, process, log
<1>2. recording'.record = NormalRecord(i, reason) /\ recording'.next = "collect"
  BY <1>1
<1>3. NormalRecord(i, reason) \in Records
  BY RequestFacts DEF Typed
<1>4. Typed'
  BY <1>1, <1>2, <1>3 DEF Typed, CandidateStates
<1>5. Clean' /\ BlockedOnlyByDamage'
  BY <1>1 DEF Clean, BlockedOnlyByDamage
<1>6. \A j \in Index, x \in Reasons : NormalRecord(j, x)' = NormalRecord(j, x)
  BY DEF NormalRecord, Specs
<1>7. ASSUME NEW j \in Index, candidate'[j] = "rejected", ~ cutOff
      PROVE  OnRecord(j)' \/ BeingRecorded(j)'
  <2>1. CASE j = i
    BY <1>1, <1>2, <1>6, <2>1 DEF BeingRecorded
  <2>2. CASE j # i
    <3>1. candidate[j] = "rejected"
      BY <1>1, <1>7, <2>2 DEF Typed
    <3>2. OnRecord(j)
      BY <1>1, <1>7, <3>1 DEF RejectedKnown, BeingRecorded
    <3>3. QED
      BY <1>1, <1>6, <3>2 DEF OnRecord
  <2>3. QED
    BY <2>1, <2>2
<1>8. RejectedKnown'
  BY <1>1, <1>7 DEF RejectedKnown
<1>9. QED
  BY <1>4, <1>5, <1>8

LEMMA IrrelevanceRejectedIInv ==
  ASSUME IInv, IrrelevanceRejected, Index' = Index, request' = request
  PROVE  Typed' /\ Clean' /\ RejectedKnown' /\ BlockedOnlyByDamage'
<1> USE DEF IInv
<1>1. PICK reason \in Reasons, next \in {"irrelevance", "batch"} :
        /\ pc = "irrelevance" /\ pc' = "record"
        /\ recording' = [record |-> IrrelevanceRecord(irrelevance.tried, reason), next |-> next]
        /\ irrelevance' = [made |-> irrelevance.made, tried |-> irrelevance.tried + 1]
        /\ UNCHANGED << candidate, done, cutOff, lines, fragment, known, written >>
  BY DEF IrrelevanceRejected, MoreIrrelevance, Tried, Record, process, log
<1>2. /\ recording'.record \in Records /\ recording'.next = next
      /\ irrelevance'.tried \in Nat
  BY <1>1, IrrelevanceRecorded DEF Typed, IrrelevanceRejected
<1>3. Typed'
  BY <1>1, <1>2 DEF Typed
<1>4. Clean' /\ BlockedOnlyByDamage'
  BY <1>1 DEF Clean, BlockedOnlyByDamage
<1>5. RejectedKnown'
  BY <1>1 DEF RejectedKnown, OnRecord, BeingRecorded, NormalRecord, Specs
<1>6. QED
  BY <1>3, <1>4, <1>5

-----------------------------------------------------------------------------
(* A start: with a clean log nothing blocks it, and what it reads back is  *)
(* what is on file.                                                        *)
LEMMA StartProcessIInv ==
  ASSUME IInv, StartProcess, Index' = Index, request' = request
  PROVE  Typed' /\ Clean' /\ RejectedKnown' /\ BlockedOnlyByDamage'
<1> USE DEF IInv
<1>1. /\ pc = "down" /\ pc' \in {"submit", "blocked"}
      /\ UNCHANGED << lines, fragment, written, separated, candidate, done, recording, irrelevance, cutOff >>
      /\ known' = known \/ known' = OnFile
      /\ pc' = "blocked" => ~ Loads
  BY DEF StartProcess, Load, log
<1>2. Typed'
  BY <1>1 DEF Typed, OnFile
<1>3. ~ cutOff => lines[Garbage] = 0 /\ fragment = Nothing
  BY <1>1 DEF Clean
<1>4. BlockedOnlyByDamage'
  BY <1>1, <1>3, LogAssumption DEF BlockedOnlyByDamage, Loads
<1>5. Clean'
  BY <1>1, <1>3, LogAssumption DEF Clean, OnFile
<1>6. RejectedKnown'
  <2>1. \A i \in Index : OnRecord(i)' = OnRecord(i)
    BY <1>1 DEF OnRecord, NormalRecord, Specs
  <2>2. \A i \in Index : ~ BeingRecorded(i)
    BY <1>1 DEF BeingRecorded
  <2>3. QED
    BY <1>1, <2>1, <2>2 DEF RejectedKnown
<1>7. QED
  BY <1>2, <1>4, <1>5, <1>6

(* A part of a record: on a clean log it starts a line.                    *)
LEMMA AppendPartIInv ==
  ASSUME IInv, AppendPart, Index' = Index, request' = request
  PROVE  Typed' /\ Clean' /\ RejectedKnown' /\ BlockedOnlyByDamage'
<1> USE DEF IInv
<1>1. /\ pc = "record" /\ written = "no"
      /\ UNCHANGED << pc, lines, known, candidate, done, recording, irrelevance, cutOff >>
      /\ \/ fragment = Nothing /\ written' = "part"
         \/ fragment # Nothing /\ written' = "glued"
  BY DEF AppendPart, WritePart, coordinator, process
<1>2. Typed'
  BY <1>1 DEF Typed
<1>3. Clean' /\ BlockedOnlyByDamage'
  BY <1>1 DEF Clean, BlockedOnlyByDamage
<1>4. RejectedKnown'
  BY <1>1 DEF RejectedKnown, OnRecord, BeingRecorded, NormalRecord, Specs
<1>5. QED
  BY <1>2, <1>3, <1>4

(* What follows a recorded failure.                                        *)
LEMMA RecordedFacts ==
  ASSUME Typed, pc = "record", Recorded
  PROVE  /\ recording.next = "batch" =>
              pc' = "record" /\ recording'.record \in Records /\ recording'.next = "raising"
         /\ recording.next # "batch" =>
              pc' = recording.next /\ pc' \in {"collect", "irrelevance", "raising"}
<1>1. CASE recording.next = "batch"
  BY <1>1, RecordsAssumption DEF Recorded, Record
<1>2. CASE recording.next # "batch"
  BY <1>2 DEF Recorded, Typed
<1>3. QED
  BY <1>1, <1>2

(* The last write: the record of a clean log is on file when the request   *)
(* goes on.                                                                *)
LEMMA AppendLastIInv ==
  ASSUME IInv, AppendLast, Index' = Index, request' = request
  PROVE  Typed' /\ Clean' /\ RejectedKnown' /\ BlockedOnlyByDamage'
<1> USE DEF IInv
<1> DEFINE r == recording.record
<1>1. /\ pc = "record" /\ Recorded /\ r \in Records
      /\ UNCHANGED << candidate, done, irrelevance, cutOff >>
  BY DEF AppendLast, process, Typed
<1>2. \/ Written(r) /\ known' = known \union {r} /\ written' = "no"
      \/ r \in known /\ UNCHANGED << lines, fragment, known, written, separated >>
  BY DEF AppendLast, WriteLast, Suppressed, log
<1> HIDE DEF r
<1>3. /\ lines' \in [Records \union {Garbage} -> Nat]
      /\ \A x \in Records : lines[x] > 0 => lines'[x] > 0
  <2>1. CASE Written(r)
    BY <1>1, <2>1, WriteFacts
  <2>2. CASE lines' = lines
    BY <2>2 DEF Typed
  <2>3. QED
    BY <1>2, <2>1, <2>2
<1>4. ~ cutOff => /\ lines'[r] > 0 /\ lines'[Garbage] = lines[Garbage]
                  /\ written' = "no" => fragment' = Nothing
                  /\ written' # "glued"
  <2>1. CASE Written(r) /\ written' = "no"
    BY <1>1, <2>1, WriteFacts DEF Clean, Typed
  <2>2. CASE r \in known /\ UNCHANGED << lines, fragment, known, written >>
    BY <2>2 DEF Clean
  <2>3. QED
    BY <1>2, <2>1, <2>2
<1>5. /\ recording.next = "batch" =>
           pc' = "record" /\ recording'.record \in Records /\ recording'.next = "raising"
      /\ recording.next # "batch" =>
           pc' = recording.next /\ pc' \in {"collect", "irrelevance", "raising"}
  BY <1>1, RecordedFacts
<1>6. Typed'
  <2>1. known' \subseteq Records /\ written' \in {"no", "part", "glued"}
    BY <1>1, <1>2 DEF Typed
  <2>2. pc' = "record" => /\ recording'.record \in Records
                          /\ recording'.next \in {"collect", "irrelevance", "batch", "raising"}
    BY <1>5
  <2>3. QED
    BY <1>1, <1>3, <2>1, <2>2 DEF Typed
<1>7. Clean'
  <2>1. pc' # "down"
    BY <1>5
  <2>2. ~ cutOff => \A x \in known' : lines'[x] > 0
    BY <1>1, <1>2, <1>3, <1>4 DEF Clean, Typed
  <2>3. QED
    BY <1>1, <1>4, <2>1, <2>2 DEF Clean
<1>8. BlockedOnlyByDamage'
  BY <1>5 DEF BlockedOnlyByDamage
<1>9. RejectedKnown'
  <2>1. ASSUME NEW i \in Index, candidate[i] = "rejected", ~ cutOff
        PROVE  \E reason \in Reasons : lines'[NormalRecord(i, reason)] > 0
    <3>1. CASE OnRecord(i)
      BY <1>3, <3>1, RequestFacts DEF OnRecord, Typed
    <3>2. CASE BeingRecorded(i)
      BY <1>4, <2>1, <3>2 DEF BeingRecorded, r
    <3>3. QED
      BY <1>1, <2>1, <3>1, <3>2 DEF RejectedKnown
  <2>2. QED
    BY <1>1, <2>1 DEF RejectedKnown, OnRecord, NormalRecord, Specs
<1>10. QED
  BY <1>6, <1>7, <1>8, <1>9

(* A failing write leaves a clean log, or is the cut-off that is           *)
(* remembered; and the request does not go on to another candidate.        *)
LEMMA AppendFailsIInv ==
  ASSUME IInv, AppendFails, Index' = Index, request' = request
  PROVE  Typed' /\ Clean' /\ RejectedKnown' /\ BlockedOnlyByDamage'
<1> USE DEF IInv
<1> DEFINE r == recording.record
<1>1. /\ pc = "record" /\ r \in Records
      /\ UNCHANGED << candidate, irrelevance, known >>
      /\ written' = "no"
      /\ cutOff' = (cutOff \/ fragment' # Nothing)
      /\ done' = done \/ done' = {}
  BY DEF AppendFails, WriteFails, Typed
<1>2. UNCHANGED << lines, fragment >> \/ Written(r)
  BY DEF AppendFails, WriteFails
<1>3. \/ /\ pc' = "record" /\ recording.next # "collect"
         /\ recording'.record \in Records /\ recording'.next = "raising"
      \/ pc' = "raising"
  BY RecordsAssumption DEF AppendFails, Record
<1> HIDE DEF r
<1>4. /\ lines' \in [Records \union {Garbage} -> Nat]
      /\ \A x \in Records : lines[x] > 0 => lines'[x] > 0
  <2>1. CASE Written(r)
    BY <1>1, <2>1, WriteFacts
  <2>2. CASE lines' = lines
    BY <2>2 DEF Typed
  <2>3. QED
    BY <1>2, <2>1, <2>2
<1>5. ~ cutOff => lines'[Garbage] = lines[Garbage]
  <2>1. CASE Written(r)
    BY <1>1, <2>1, WriteFacts DEF Clean, Typed
  <2>2. CASE lines' = lines
    BY <2>2
  <2>3. QED
    BY <1>2, <2>1, <2>2
<1>6. Typed'
  BY <1>1, <1>3, <1>4 DEF Typed
<1>7. Clean'
  <2>1. ~ cutOff => \A x \in known' : lines'[x] > 0
    BY <1>1, <1>4 DEF Clean, Typed
  <2>2. ~ cutOff' => ~ cutOff /\ fragment' = Nothing
    BY <1>1 DEF BlockedOnlyByDamage
  <2>3. QED
    BY <1>1, <1>3, <1>5, <2>1, <2>2 DEF Clean
<1>8. BlockedOnlyByDamage'
  BY <1>3 DEF BlockedOnlyByDamage
<1>9. RejectedKnown'
  <2> SUFFICES ASSUME ~ cutOff', pc' = "record", NEW i \in Index', candidate'[i] = "rejected"
               PROVE  OnRecord(i)'
    BY <1>3 DEF RejectedKnown
  <2>1. ~ cutOff /\ i \in Index /\ candidate[i] = "rejected"
    BY <1>1
  <2>2. OnRecord(i)
    BY <1>1, <1>3, <2>1 DEF RejectedKnown, BeingRecorded
  <2>3. QED
    BY <1>4, <2>1, <2>2, RequestFacts DEF OnRecord, NormalRecord, Specs, Typed
<1>10. QED
  BY <1>6, <1>7, <1>8, <1>9

(* A kill forgets the candidates; the log it leaves is clean unless the    *)
(* kill cut an append off.                                                 *)
LEMMA KillIInv ==
  ASSUME IInv, Kill, Index' = Index, request' = request
  PROVE  Typed' /\ Clean' /\ RejectedKnown' /\ BlockedOnlyByDamage'
<1> USE DEF IInv
<1>1. /\ pc' = "down" /\ done' = {} /\ irrelevance' = [made |-> {}, tried |-> 0]
      /\ candidate' = [i \in Index |-> "untried"]
      /\ known' = {} /\ written' = "no" /\ UNCHANGED << lines, fragment >>
      /\ cutOff' = (cutOff \/ written # "no")
  BY DEF Kill, Forget
<1>2. Typed'
  BY <1>1 DEF Typed, CandidateStates
<1>3. Clean'
  <2>1. ~ cutOff' => ~ cutOff /\ written = "no"
    BY <1>1
  <2>2. QED
    BY <1>1, <2>1 DEF Clean
<1>4. RejectedKnown' /\ BlockedOnlyByDamage'
  BY <1>1 DEF RejectedKnown, BlockedOnlyByDamage
<1>5. QED
  BY <1>2, <1>3, <1>4

-----------------------------------------------------------------------------
(* What is counted against a stratum's quota.                              *)
Kept(d, l) == Stratum(d, l) \intersect With({"kept"})

LEMMA KeptFacts ==
  ASSUME Typed, NEW d \in Domains, NEW l \in Levels
  PROVE  /\ Kept(d, l) = {i \in Index : /\ Specs[i].domain = d /\ Specs[i].difficulty = l
                                        /\ candidate[i] = "kept"}
         /\ IsFiniteSet(Kept(d, l)) /\ Cardinality(Kept(d, l)) \in Nat
         /\ Ok(d, l) = Cardinality(Kept(d, l))
<1>1. Kept(d, l) = {i \in Index : /\ Specs[i].domain = d /\ Specs[i].difficulty = l
                                  /\ candidate[i] = "kept"}
  BY DEF Kept, Stratum, With
<1>2. Len(Specs) \in Nat
  BY RequestFacts DEF Typed
<1>3. IsFiniteSet(Index)
  BY <1>2, FS_Interval DEF Index
<1>4. IsFiniteSet(Kept(d, l))
  BY <1>1, <1>3, FS_Subset
<1>5. Cardinality(Kept(d, l)) \in Nat
  BY <1>4, FS_CardinalityType
<1>6. QED
  BY <1>1, <1>4, <1>5 DEF Ok, Kept

(* A task is kept only while its stratum is short of its quota, counted    *)
(* when the task is collected; no other action keeps one.                  *)
LEMMA QuotasNext ==
  ASSUME IInv, [Next]_vars, Typed'
  PROVE  QuotasRespected'
<1> USE DEF IInv
<1> SUFFICES ASSUME NEW d \in Domains, NEW l \in Levels
             PROVE  Ok(d, l)' <= Quota[d][l]'
  BY DEF QuotasRespected
<1>1. Ok(d, l) = Cardinality(Kept(d, l)) /\ IsFiniteSet(Kept(d, l)) /\ Cardinality(Kept(d, l)) \in Nat
  BY KeptFacts
<1>2. Ok(d, l)' = Cardinality(Kept(d, l)')
  BY DEF Ok, Kept
<1>3. Ok(d, l) <= Quota[d][l] /\ Quota[d][l] \in Nat /\ Quota' = Quota
  BY RequestFixed, RequestFacts DEF QuotasRespected, Typed
<1>4. Kept(d, l)' = {i \in Index : /\ Specs[i].domain = d /\ Specs[i].difficulty = l
                                   /\ candidate'[i] = "kept"}
  BY RequestFixed DEF Kept, Stratum, With
<1>5. ASSUME NEW i \in Index, CollectTask(i)
      PROVE  Ok(d, l)' <= Quota[d][l]'
  <2>1. candidate' = [candidate EXCEPT ![i] = "kept"] /\ candidate[i] = "task" /\ ~ Full(i)
    BY <1>5 DEF CollectTask
  <2>2. CASE Specs[i].domain = d /\ Specs[i].difficulty = l
    <3>1. ~ (Ok(d, l) >= Quota[d][l])
      BY <2>1, <2>2 DEF Full
    <3>2. Kept(d, l)' = Kept(d, l) \union {i} /\ i \notin Kept(d, l)
      BY <1>4, <2>1, <2>2, KeptFacts DEF Typed
    <3>3. Cardinality(Kept(d, l)') = Cardinality(Kept(d, l)) + 1
      BY <1>1, <3>2, FS_AddElement
    <3>4. QED
      BY <1>1, <1>2, <1>3, <3>1, <3>3
  <2>3. CASE ~ (Specs[i].domain = d /\ Specs[i].difficulty = l)
    <3>1. Kept(d, l)' = Kept(d, l)
      BY <1>4, <2>1, <2>3, KeptFacts DEF Typed
    <3>2. QED
      BY <1>1, <1>2, <1>3, <3>1
  <2>4. QED
    BY <2>2, <2>3
<1>6. CASE Kill
  <2>1. Kept(d, l)' = {}
    BY <1>4, <1>6 DEF Kill
  <2>2. QED
    BY <1>2, <1>3, <2>1, FS_EmptySet
<1>7. CASE \A i \in Index : candidate'[i] = "kept" => candidate[i] = "kept"
  <2>1. Kept(d, l)' \subseteq Kept(d, l)
    BY <1>4, <1>7, KeptFacts
  <2>2. Cardinality(Kept(d, l)') <= Cardinality(Kept(d, l)) /\ Cardinality(Kept(d, l)') \in Nat
    BY <1>1, <2>1, FS_Subset, FS_CardinalityType
  <2>3. QED
    BY <1>1, <1>2, <1>3, <2>2
<1>8. ASSUME NEW i \in Index, NEW s \in CandidateStates \ {"kept"},
             candidate' = [candidate EXCEPT ![i] = s]
      PROVE  \A j \in Index : candidate'[j] = "kept" => candidate[j] = "kept"
  BY <1>8 DEF Typed
<1>9. \/ candidate' = candidate \/ Kill \/ Submit
      \/ \E i \in Index : CollectTask(i) \/ CandidateEnds(i) \/ CollectFailure(i) \/ CollectSurplus(i)
  BY DEF Next, Coordinator, vars, StartProcess, SubmitEnds, Wait, CollectEnds, IrrelevanceMade,
     IrrelevanceRejected, Return, Raise, AppendPart, AppendLast, AppendFails
<1>10. CASE candidate' = candidate
  BY <1>7, <1>10
<1>11. ASSUME NEW i \in Index, CandidateEnds(i) \/ CollectFailure(i) \/ CollectSurplus(i)
       PROVE  Ok(d, l)' <= Quota[d][l]'
  <2>1. \E s \in CandidateStates \ {"kept"} : candidate' = [candidate EXCEPT ![i] = s]
    BY <1>11 DEF CandidateEnds, CollectFailure, CollectSurplus, CandidateStates
  <2>2. QED
    BY <1>7, <1>8, <2>1
<1>12. CASE Submit
  <2>1. specIndex \in Index
    BY <1>12 DEF Submit
  <2>2. \/ candidate' = [candidate EXCEPT ![specIndex] = "skipped"]
        \/ candidate' = [candidate EXCEPT ![specIndex] = "running"]
    BY <1>12 DEF Submit
  <2>3. {"skipped", "running"} \subseteq CandidateStates \ {"kept"}
    BY DEF CandidateStates
  <2>4. QED
    BY <1>7, <1>8, <2>1, <2>2, <2>3
<1>13. QED
  BY <1>5, <1>6, <1>9, <1>10, <1>11, <1>12

-----------------------------------------------------------------------------
LEMMA NextIInv == IInv /\ [Next]_vars => IInv'
<1> SUFFICES ASSUME IInv, [Next]_vars
             PROVE  IInv'
  OBVIOUS
<1>1. Index' = Index /\ request' = request
  BY RequestFixed
<1>2. Typed' /\ Clean' /\ RejectedKnown' /\ BlockedOnlyByDamage'
  <2>1. CASE PoolStep
    BY <1>1, <2>1, PoolStepIInv
  <2>2. CASE StartProcess
    BY <1>1, <2>2, StartProcessIInv
  <2>3. CASE \E i \in Index : CollectFailure(i)
    BY <1>1, <2>3, CollectFailureIInv
  <2>4. CASE IrrelevanceRejected
    BY <1>1, <2>4, IrrelevanceRejectedIInv
  <2>5. CASE AppendPart
    BY <1>1, <2>5, AppendPartIInv
  <2>6. CASE AppendLast
    BY <1>1, <2>6, AppendLastIInv
  <2>7. CASE AppendFails
    BY <1>1, <2>7, AppendFailsIInv
  <2>8. CASE Kill
    BY <1>1, <2>8, KillIInv
  <2>9. QED
    BY <2>1, <2>2, <2>3, <2>4, <2>5, <2>6, <2>7, <2>8 DEF Next, Coordinator, PoolStep
<1>3. QuotasRespected'
  BY <1>2, QuotasNext
<1>4. QED
  BY <1>2, <1>3 DEF IInv

(* Whatever is submitted, killed or cut off, the invariant holds.          *)
THEOREM Invariance == Spec => []IInv
BY InitIInv, NextIInv, PTL DEF Spec

(* No stratum ever keeps more tasks than its quota, for any number of      *)
(* workers in flight (generate_many, batch.py).                            *)
THEOREM QuotasKept == Spec => []QuotasRespected
<1>1. IInv => QuotasRespected
  BY DEF IInv
<1>2. QED
  BY <1>1, Invariance, PTL

(* A request that goes on has every rejected candidate on file, unless an  *)
(* append was once cut off (GenerationFailureWriter, failure_records.py).  *)
THEOREM RejectionsOnFile == Spec => []RejectionsRecorded
<1>1. IInv => RejectionsRecorded
  BY DEF IInv, RejectedKnown, RejectionsRecorded, BeingRecorded, OnRecord, With
<1>2. QED
  BY <1>1, Invariance, PTL

(* A process that is refused by its own log was cut off in the middle of   *)
(* an append before, or has a record on file whose text splitlines takes   *)
(* apart (_load_known_ids and append, failure_records.py); no number of    *)
(* kills and failing writes elsewhere blocks it.                           *)
THEOREM BlockedByDamage == Spec => []BlockedOnlyByDamage
<1>1. IInv => BlockedOnlyByDamage
  BY DEF IInv
<1>2. QED
  BY <1>1, Invariance, PTL

-----------------------------------------------------------------------------
(* Sums of quotas.  DomainQuota folds over the levels in an order nobody   *)
(* knows; the number of pairs of a level and a place of its quota is the   *)
(* same sum without an order.                                              *)
Places(d, s) == {p \in s \X Nat : p[2] \in 1 .. Quota[d][p[1]]}

LEMMA SmallestSubset ==
  ASSUME NEW S, IsFiniteSet(S), NEW T \in SUBSET SUBSET S, T # {}
  PROVE  \E m \in T : \A s \in T : s \subseteq m => s = m
<1>1. IsWellFoundedOn(StrictSubsetOrdering(S), SUBSET S)
  BY FS_StrictSubsetOrderingWellFounded, FS_FiniteSubsetsOfFinite
<1>2. PICK m \in T : \A s \in T : << s, m >> \notin StrictSubsetOrdering(S)
  BY <1>1, WFMin
<1>3. QED
  BY <1>2 DEF StrictSubsetOrdering

LEMMA PlacesOfLevel ==
  ASSUME request \in Requests, NEW d \in Domains, NEW s \in SUBSET Levels, NEW l \in s,
         IsFiniteSet(Places(d, s \ {l}))
  PROVE  /\ IsFiniteSet(Places(d, s))
         /\ Cardinality(Places(d, s)) = Cardinality(Places(d, s \ {l})) + Quota[d][l]
<1> DEFINE one == {l} \X (1 .. Quota[d][l])
           rest == Places(d, s \ {l})
<1>1. Quota[d][l] \in Nat
  BY RequestFacts
<1>2. IsFiniteSet(one) /\ Cardinality(one) = Quota[d][l]
  <2>1. IsFiniteSet(1 .. Quota[d][l]) /\ Cardinality(1 .. Quota[d][l]) = Quota[d][l]
    <3> DEFINE q == Quota[d][l]
    <3>1. q \in Int
      BY <1>1
    <3> HIDE DEF q
    <3>2. IsFiniteSet(1 .. q) /\ Cardinality(1 .. q) = IF 1 > q THEN 0 ELSE q - 1 + 1
      BY <3>1, FS_Interval
    <3>3. (IF 1 > q THEN 0 ELSE q - 1 + 1) = q
      BY <1>1 DEF q
    <3>4. QED
      BY <3>2, <3>3 DEF q
  <2>2. IsFiniteSet({l}) /\ Cardinality({l}) = 1
    BY FS_Singleton
  <2>3. IsFiniteSet(one) /\ Cardinality(one) = 1 * Quota[d][l]
    BY <2>1, <2>2, FS_Product
  <2> HIDE DEF one
  <2>4. QED
    BY <1>1, <2>3
<1>3. Places(d, s) = rest \union one /\ rest \intersect one = {}
  BY <1>1 DEF Places
<1>4. Cardinality(rest) \in Nat
  BY FS_CardinalityType
<1> HIDE DEF one, rest
<1>5. /\ IsFiniteSet(rest \union one)
      /\ Cardinality(rest \union one) = Cardinality(rest) + Cardinality(one) - Cardinality({})
  BY <1>2, <1>3, FS_Union DEF rest
<1>6. QED
  BY <1>1, <1>2, <1>3, <1>4, <1>5, FS_EmptySet DEF rest

LEMMA PlacesFinite ==
  ASSUME request \in Requests, NEW d \in Domains, NEW s \in SUBSET Levels
  PROVE  IsFiniteSet(Places(d, s))
<1> DEFINE Infinite == {t \in SUBSET Levels : ~ IsFiniteSet(Places(d, t))}
<1>1. ASSUME Infinite # {}
      PROVE  FALSE
  <2>1. Infinite \in SUBSET SUBSET Levels
    OBVIOUS
  <2>2. PICK m \in Infinite : \A t \in Infinite : t \subseteq m => t = m
    <3> HIDE DEF Infinite
    <3>1. QED
      BY <1>1, <2>1, SmallestSubset, RequestsAssumption
  <2>3. CASE m = {}
    <3>1. Places(d, m) = {}
      BY <2>3 DEF Places
    <3>2. QED
      BY <3>1, FS_EmptySet
  <2>4. CASE m # {}
    <3>1. PICK l \in m : TRUE
      BY <2>4
    <3>2. IsFiniteSet(Places(d, m \ {l}))
      BY <2>2, <3>1
    <3>3. QED
      BY <3>1, <3>2, PlacesOfLevel
  <2>5. QED
    BY <2>3, <2>4
<1>2. QED
  BY <1>1

(* The fold's recursion has a solution, so the fold is the value of one.   *)
LEMMA DomainQuotaRuns ==
  ASSUME request \in Requests, NEW d \in Domains
  PROVE  \E iter : /\ iter = [s \in SUBSET Levels |->
                        IF s = {} THEN 0
                        ELSE iter[s \ {CHOOSE l \in s : TRUE}] + Quota[d][CHOOSE l \in s : TRUE]]
                   /\ DomainQuota(d) = iter[Levels]
<1> DEFINE Solves(iter) ==
      iter = [s \in SUBSET Levels |->
               IF s = {} THEN 0
               ELSE iter[s \ {CHOOSE l \in s : TRUE}] + Quota[d][CHOOSE l \in s : TRUE]]
           g == [s \in SUBSET Levels |-> Cardinality(Places(d, s))]
<1>1. Solves(g)
  <2> DEFINE value(s) == IF s = {} THEN 0
               ELSE g[s \ {CHOOSE l \in s : TRUE}] + Quota[d][CHOOSE l \in s : TRUE]
  <2>1. ASSUME NEW s \in SUBSET Levels
        PROVE  g[s] = value(s)
    <3>1. CASE s = {}
      <4>1. Places(d, s) = {}
        BY <3>1 DEF Places
      <4>2. QED
        BY <3>1, <4>1, FS_EmptySet
    <3>2. CASE s # {}
      <4> DEFINE x == CHOOSE l \in s : TRUE
      <4>1. x \in s
        BY <3>2
      <4>2. g[s \ {x}] = Cardinality(Places(d, s \ {x})) /\ g[s] = Cardinality(Places(d, s))
        OBVIOUS
      <4>3. Cardinality(Places(d, s)) = Cardinality(Places(d, s \ {x})) + Quota[d][x]
        BY <4>1, PlacesOfLevel, PlacesFinite
      <4> HIDE DEF g
      <4>4. QED
        BY <3>2, <4>2, <4>3
    <3>3. QED
      BY <3>1, <3>2
  <2>2. g = [s \in SUBSET Levels |-> value(s)]
    <3> HIDE DEF value
    <3>1. QED
      BY <2>1
  <2>3. QED
    BY <2>2
<1>2. DomainQuota(d) = (CHOOSE iter : Solves(iter))[Levels]
  BY DEF DomainQuota, FoldSet, MapThenFoldSet
<1>3. Solves(CHOOSE iter : Solves(iter))
  <2> HIDE DEF Solves, g
  <2>1. QED
    BY <1>1
<1>4. QED
  BY <1>2, <1>3

(* The kept tasks of some levels of a domain.                              *)
KeptOf(d, s) == {i \in Index : /\ Specs[i].domain = d /\ Specs[i].difficulty \in s
                               /\ candidate[i] = "kept"}

LEMMA KeptOfLevel ==
  ASSUME Typed, NEW d \in Domains, NEW s \in SUBSET Levels, NEW l \in s
  PROVE  /\ Cardinality(KeptOf(d, s)) = Cardinality(KeptOf(d, s \ {l})) + Ok(d, l)
         /\ Cardinality(KeptOf(d, s)) \in Nat /\ Cardinality(KeptOf(d, s \ {l})) \in Nat
         /\ Ok(d, l) \in Nat
<1>1. /\ Kept(d, l) = {i \in Index : /\ Specs[i].domain = d /\ Specs[i].difficulty = l
                                     /\ candidate[i] = "kept"}
      /\ IsFiniteSet(Kept(d, l)) /\ Cardinality(Kept(d, l)) \in Nat
      /\ Ok(d, l) = Cardinality(Kept(d, l))
  BY KeptFacts
<1>2. IsFiniteSet(Index)
  BY RequestFacts, FS_Interval DEF Index, Typed
<1>3. IsFiniteSet(KeptOf(d, s)) /\ IsFiniteSet(KeptOf(d, s \ {l}))
  BY <1>2, FS_Subset DEF KeptOf
<1>4. Cardinality(KeptOf(d, s)) \in Nat /\ Cardinality(KeptOf(d, s \ {l})) \in Nat
  BY <1>3, FS_CardinalityType
<1>5. /\ KeptOf(d, s) = KeptOf(d, s \ {l}) \union Kept(d, l)
      /\ KeptOf(d, s \ {l}) \intersect Kept(d, l) = {}
  BY <1>1 DEF KeptOf
<1> DEFINE rest == KeptOf(d, s \ {l})
           of_l == Kept(d, l)
<1>6. Cardinality(rest \union of_l) = Cardinality(rest) + Cardinality(of_l)
  <2>1. IsFiniteSet(rest) /\ IsFiniteSet(of_l) /\ rest \intersect of_l = {}
    BY <1>1, <1>3, <1>5
  <2>2. Cardinality(rest) \in Nat /\ Cardinality(of_l) \in Nat
    BY <1>1, <1>4
  <2> HIDE DEF rest, of_l
  <2>3. Cardinality(rest \union of_l) =
          Cardinality(rest) + Cardinality(of_l) - Cardinality(rest \intersect of_l)
    BY <2>1, FS_Union
  <2>4. Cardinality(rest \intersect of_l) = 0
    BY <2>1, FS_EmptySet
  <2>5. QED
    BY <2>2, <2>3, <2>4
<1>7. QED
  BY <1>1, <1>4, <1>5, <1>6

(* A domain with a stratum short of its quota is short of its own.         *)
LEMMA KeptWithinQuota ==
  ASSUME Typed, QuotasRespected, NEW d \in Domains, NEW l
  PROVE  /\ DomainOk(d) \in Nat /\ DomainQuota(d) \in Nat
         /\ l \in Levels /\ Ok(d, l) # Quota[d][l] => DomainOk(d) < DomainQuota(d)
<1>1. request \in Requests
  BY DEF Typed
<1>2. PICK iter :
        /\ iter = [s \in SUBSET Levels |->
             IF s = {} THEN 0
             ELSE iter[s \ {CHOOSE x \in s : TRUE}] + Quota[d][CHOOSE x \in s : TRUE]]
        /\ DomainQuota(d) = iter[Levels]
  BY <1>1, DomainQuotaRuns
<1> DEFINE Bounded(s) == /\ iter[s] \in Nat
                         /\ Cardinality(KeptOf(d, s)) <= iter[s]
                         /\ l \in s /\ Ok(d, l) # Quota[d][l] =>
                              Cardinality(KeptOf(d, s)) < iter[s]
           Wrong == {s \in SUBSET Levels : ~ Bounded(s)}
<1>3. ASSUME NEW x \in Levels
      PROVE  Ok(d, x) <= Quota[d][x] /\ Quota[d][x] \in Nat
  BY <1>1, RequestFacts DEF QuotasRespected
<1>4. ASSUME Wrong # {}
      PROVE  FALSE
  <2>1. Wrong \in SUBSET SUBSET Levels
    OBVIOUS
  <2>2. PICK m \in Wrong : \A s \in Wrong : s \subseteq m => s = m
    <3> HIDE DEF Wrong
    <3>1. QED
      BY <1>4, <2>1, SmallestSubset, RequestsAssumption
  <2>3. m \in SUBSET Levels /\ ~ Bounded(m)
    OBVIOUS
  <2>4. CASE m = {}
    <3>1. KeptOf(d, m) = {} /\ iter[m] = 0
      BY <1>2, <2>3, <2>4 DEF KeptOf
    <3>2. QED
      BY <2>3, <2>4, <3>1, FS_EmptySet
  <2>5. CASE m # {}
    <3> DEFINE x == CHOOSE y \in m : TRUE
    <3>1. x \in m
      BY <2>5
    <3>2. iter[m] = iter[m \ {x}] + Quota[d][x]
      BY <1>2, <2>3, <2>5
    <3> HIDE DEF x
    <3>3. m \ {x} \in SUBSET Levels /\ m \ {x} # m /\ m \ {x} \subseteq m
      BY <2>3, <3>1
    <3>4. Bounded(m \ {x})
      <4> HIDE DEF Bounded
      <4>1. QED
        BY <2>2, <3>3
    <3>5. /\ Cardinality(KeptOf(d, m)) = Cardinality(KeptOf(d, m \ {x})) + Ok(d, x)
          /\ Cardinality(KeptOf(d, m \ {x})) \in Nat /\ Ok(d, x) \in Nat
      BY <2>3, <3>1, KeptOfLevel
    <3>6. Ok(d, x) <= Quota[d][x] /\ Quota[d][x] \in Nat
      BY <1>3, <2>3, <3>1
    <3>7. iter[m] \in Nat /\ Cardinality(KeptOf(d, m)) <= iter[m]
      BY <3>2, <3>4, <3>5, <3>6
    <3>8. l \in m /\ Ok(d, l) # Quota[d][l] => Cardinality(KeptOf(d, m)) < iter[m]
      <4>1. CASE x = l
        BY <3>2, <3>4, <3>5, <3>6, <4>1
      <4>2. CASE x # l /\ l \in m /\ Ok(d, l) # Quota[d][l]
        BY <3>2, <3>4, <3>5, <3>6, <4>2
      <4>3. QED
        BY <4>1, <4>2
    <3>9. QED
      BY <2>3, <3>7, <3>8
  <2>6. QED
    BY <2>4, <2>5
<1>5. Bounded(Levels)
  BY <1>4
<1>6. DomainOk(d) = Cardinality(KeptOf(d, Levels))
  <2>1. KeptOf(d, Levels) = Candidates(d) \intersect With({"kept"})
    BY <1>1, RequestFacts DEF KeptOf, Candidates, With
  <2>2. QED
    BY <2>1 DEF DomainOk
<1>7. Cardinality(KeptOf(d, Levels)) \in Nat
  <2>1. IsFiniteSet(Index)
    BY <1>1, RequestFacts, FS_Interval DEF Index
  <2>2. IsFiniteSet(KeptOf(d, Levels))
    BY <2>1, FS_Subset DEF KeptOf
  <2>3. QED
    BY <2>2, FS_CardinalityType
<1>8. QED
  BY <1>2, <1>5, <1>6, <1>7

-----------------------------------------------------------------------------
(* Exhaustion.  A request passes over its candidates once (Passed), leaves *)
(* the pool with none of them in flight (Drained), and what it left out    *)
(* was full or given up, and still is (LeftOut).                           *)
Passed ==
  /\ specIndex \in Nat \ {0}
  /\ \A i \in Index : candidate[i] = "untried" <=> i >= specIndex

Drained ==
  \/ pc \in {"irrelevance", "returned"}
  \/ pc = "record" /\ recording.next = "irrelevance"
  => specIndex \notin Index /\ Futures = {}

LeftOut ==
  \A i \in Index : candidate[i] \in {"skipped", "surplus"} =>
    Full(i) \/ GivenUp(Specs[i].domain)

EInv == Passed /\ Drained /\ LeftOut

(* Counts of kept and of rejected candidates only grow.                    *)
LEMMA CountsGrow ==
  ASSUME Typed, QuotasRespected, request' = request, Index' = Index, Specs' = Specs,
         With({"kept"}) \subseteq With({"kept"})',
         With({"rejected"}) \subseteq With({"rejected"})',
         NEW i \in Index, Full(i) \/ GivenUp(Specs[i].domain)
  PROVE  Full(i)' \/ GivenUp(Specs[i].domain)'
<1>0. PICK d \in Domains, l \in Levels : d = Specs[i].domain /\ l = Specs[i].difficulty
  BY RequestFacts DEF Typed
<1>1. Quota[d][l] \in Nat /\ IsFiniteSet(Index)
  <2>1. Quota[d][l] \in Nat /\ Len(Specs) \in Nat
    BY RequestFacts DEF Typed
  <2>2. QED
    BY <2>1, FS_Interval DEF Index
<1>2. ASSUME NEW A \in SUBSET Index, NEW B \in SUBSET Index, A \subseteq B
      PROVE  Cardinality(A) \in Nat /\ Cardinality(B) \in Nat /\ Cardinality(A) <= Cardinality(B)
  <2>1. IsFiniteSet(B)
    BY <1>1, FS_Subset
  <2>2. IsFiniteSet(A) /\ Cardinality(A) <= Cardinality(B)
    BY <1>2, <2>1, FS_Subset
  <2>3. QED
    BY <2>1, <2>2, FS_CardinalityType
<1>3. With({"kept"})' \subseteq Index /\ With({"rejected"})' \subseteq Index
  BY DEF With
<1>4. Stratum(d, l)' = Stratum(d, l) /\ Stratum(d, l) \subseteq Index
  BY DEF Stratum
<1>5. Candidates(d)' = Candidates(d) /\ Candidates(d) \subseteq Index
  BY DEF Candidates
<1>6. Quota' = Quota
  BY DEF Quota
<1>7. DomainQuota(d)' = DomainQuota(d) /\ DomainQuota(d) \in Nat
  <2>1. DomainQuota(d)' = DomainQuota(d)
    BY <1>6 DEF DomainQuota, FoldSet, MapThenFoldSet
  <2>2. QED
    BY <1>1, <2>1, KeptWithinQuota
<1>8. Ok(d, l) \in Nat /\ Ok(d, l)' \in Nat /\ Ok(d, l) <= Ok(d, l)'
  <2>1. Stratum(d, l) \intersect With({"kept"}) \subseteq Stratum(d, l) \intersect With({"kept"})'
    OBVIOUS
  <2>2. QED
    BY <1>2, <1>3, <1>4, <1>6, <2>1 DEF Ok
<1>9. DomainOk(d) \in Nat /\ DomainOk(d)' \in Nat /\ DomainOk(d) <= DomainOk(d)'
  BY <1>2, <1>3, <1>5, <1>6 DEF DomainOk
<1>10. /\ DomainFailed(d) \in Nat /\ DomainFailed(d)' \in Nat
       /\ DomainFailed(d) <= DomainFailed(d)'
  BY <1>2, <1>3, <1>5, <1>6 DEF DomainFailed
<1>11. MaxFailures(d)' = MaxFailures(d) /\ MaxFailures(d) \in Int
  BY <1>2, <1>5, <1>6, <1>7 DEF MaxFailures
<1>12. CASE Full(i)
  <2>1. DomainOk(d) >= DomainQuota(d) \/ Ok(d, l) >= Quota[d][l]
    BY <1>0, <1>12 DEF Full
  <2>2. DomainOk(d)' >= DomainQuota(d) \/ Ok(d, l)' >= Quota[d][l]
    <3>1. CASE DomainOk(d) >= DomainQuota(d)
      BY <1>7, <1>9, <3>1
    <3>2. CASE Ok(d, l) >= Quota[d][l]
      BY <1>1, <1>8, <3>2
    <3>3. QED
      BY <2>1, <3>1, <3>2
  <2>3. QED
    BY <1>0, <1>6, <1>7, <2>2 DEF Full
<1>13. CASE GivenUp(Specs[i].domain)
  BY <1>0, <1>10, <1>11, <1>13 DEF GivenUp
<1>14. QED
  BY <1>12, <1>13

(* What a step does with the candidates, unless the process is killed.     *)
LEMMA CandidateStep ==
  ASSUME Typed, Passed, [Next]_vars, ~ Kill
  PROVE  /\ \A i \in Index : candidate[i] \in {"kept", "rejected"} => candidate'[i] = candidate[i]
         /\ \A i \in Index : candidate'[i] \in {"skipped", "surplus"} =>
              candidate[i] \in {"skipped", "surplus"} \/ Full(i) \/ GivenUp(Specs[i].domain)
         /\ specIndex' \in Nat \ {0}
         /\ \A i \in Index : candidate'[i] = "untried" <=> i >= specIndex'
<1>1. CASE UNCHANGED << candidate, specIndex >>
  BY <1>1 DEF Passed
<1>2. CASE Submit
  <2>1. PICK s \in {"skipped", "running"} :
          /\ specIndex \in Index /\ specIndex' = specIndex + 1
          /\ candidate' = [candidate EXCEPT ![specIndex] = s]
          /\ s = "skipped" => Full(specIndex) \/ GivenUp(Specs[specIndex].domain)
    BY <1>2 DEF Submit
  <2>2. candidate[specIndex] = "untried" /\ specIndex \in Nat \ {0}
    BY <2>1 DEF Passed
  <2>3. /\ candidate'[specIndex] = s
        /\ \A i \in Index : i # specIndex => candidate'[i] = candidate[i]
    BY <2>1 DEF Typed
  <2>4. ASSUME NEW i \in Index
        PROVE  candidate'[i] = "untried" <=> i >= specIndex'
    <3>1. i \in Nat
      BY DEF Index
    <3>2. CASE i = specIndex
      BY <2>1, <2>2, <2>3, <3>2
    <3>3. CASE i # specIndex
      <4>1. candidate[i] = "untried" <=> i >= specIndex
        BY DEF Passed
      <4>2. i >= specIndex <=> i >= specIndex + 1
        BY <2>2, <3>1, <3>3
      <4>3. QED
        BY <2>1, <2>3, <3>3, <4>1, <4>2
    <3>4. QED
      BY <3>2, <3>3
  <2>5. QED
    BY <2>1, <2>2, <2>3, <2>4
<1>3. ASSUME NEW j \in Index,
             CandidateEnds(j) \/ CollectFailure(j) \/ CollectSurplus(j) \/ CollectTask(j)
      PROVE  /\ \A i \in Index : candidate[i] \in {"kept", "rejected"} => candidate'[i] = candidate[i]
             /\ \A i \in Index : candidate'[i] \in {"skipped", "surplus"} =>
                  candidate[i] \in {"skipped", "surplus"} \/ Full(i) \/ GivenUp(Specs[i].domain)
             /\ specIndex' \in Nat \ {0}
             /\ \A i \in Index : candidate'[i] = "untried" <=> i >= specIndex'
  <2>1. PICK s \in CandidateStates \ {"untried", "skipped"} :
          /\ candidate' = [candidate EXCEPT ![j] = s]
          /\ s = "surplus" => Full(j)
    BY <1>3 DEF CandidateEnds, CollectFailure, CollectSurplus, CollectTask, CandidateStates
  <2>2. candidate[j] \in {"running", "task", "failed"} /\ specIndex' = specIndex
    BY <1>3 DEF CandidateEnds, CollectFailure, CollectSurplus, CollectTask, coordinator
  <2>3. candidate'[j] = s /\ \A i \in Index : i # j => candidate'[i] = candidate[i]
    BY <2>1 DEF Typed
  <2>4. QED
    BY <2>1, <2>2, <2>3 DEF Passed
<1>4. QED
  BY <1>1, <1>2, <1>3 DEF Next, Coordinator, vars, coordinator, StartProcess, SubmitEnds, Wait,
     CollectEnds, IrrelevanceMade, IrrelevanceRejected, Return, Raise, AppendPart, AppendLast,
     AppendFails

LEMMA SomeWorker ==
  ASSUME request \in Requests
  PROVE  Workers \in Nat \ {0}
<1> DEFINE n == Len(Specs)
           m == Max({1, n})
<1>1. n \in Nat
  BY RequestFacts
<1>2. m \in {1, n} /\ m >= 1
  <2>1. CASE n <= 1
    BY <1>1, <2>1 DEF Max
  <2>2. CASE n > 1
    BY <1>1, <2>2 DEF Max
  <2>3. QED
    BY <1>1, <2>1, <2>2
<1>3. m \in Nat \ {0}
  BY <1>1, <1>2
<1> HIDE DEF m
<1>4. Min({MaxWorkers, m}) \in {MaxWorkers, m}
  <2>1. CASE MaxWorkers <= m
    BY <1>3, <2>1, BatchLimitsAssumption DEF Min
  <2>2. CASE MaxWorkers > m
    BY <1>3, <2>2, BatchLimitsAssumption DEF Min
  <2>3. QED
    BY <1>3, <2>1, <2>2, BatchLimitsAssumption
<1>5. QED
  BY <1>3, <1>4, BatchLimitsAssumption DEF Workers, m

LEMMA InitEInv == Init => EInv
BY DEF Init, EInv, Passed, Drained, LeftOut, Index

LEMMA NextEInv == IInv /\ EInv /\ [Next]_vars => EInv'
<1> SUFFICES ASSUME IInv, EInv, [Next]_vars
             PROVE  EInv'
  OBVIOUS
<1>1. Typed /\ QuotasRespected /\ Passed /\ Drained /\ LeftOut
  BY DEF IInv, EInv
<1>2. Index' = Index /\ request' = request /\ Specs' = Specs
  BY RequestFixed
<1>3. CASE Kill
  <2>1. pc' = "down" /\ specIndex' = 1 /\ candidate' = [i \in Index |-> "untried"]
    BY <1>3 DEF Kill
  <2>2. QED
    BY <1>2, <2>1 DEF EInv, Passed, Drained, LeftOut, Index
<1>4. CASE ~ Kill
  <2>1. Passed'
    BY <1>1, <1>2, <1>4, CandidateStep DEF Passed
  <2>2. LeftOut'
    <3>1. /\ With({"kept"}) \subseteq With({"kept"})'
          /\ With({"rejected"}) \subseteq With({"rejected"})'
      BY <1>1, <1>2, <1>4, CandidateStep DEF With
    <3>2. ASSUME NEW i \in Index, candidate'[i] \in {"skipped", "surplus"}
          PROVE  Full(i)' \/ GivenUp(Specs[i].domain)'
      <4>1. Full(i) \/ GivenUp(Specs[i].domain)
        BY <1>1, <1>4, <3>2, CandidateStep DEF LeftOut
      <4>2. QED
        BY <1>1, <1>2, <3>1, <4>1, CountsGrow
    <3>3. QED
      BY <1>2, <3>2 DEF LeftOut
  <2>3. Drained'
    <3> DEFINE past == \/ pc \in {"irrelevance", "returned"}
                       \/ pc = "record" /\ recording.next = "irrelevance"
    <3> SUFFICES ASSUME past'
                 PROVE  specIndex' \notin Index /\ Futures' = {}
      BY <1>2 DEF Drained
    <3>1. CASE SubmitEnds
      <4>1. /\ specIndex \notin Index \/ Cardinality(Futures) >= Workers
            /\ Futures = {}
            /\ UNCHANGED << specIndex, candidate >>
        BY <3>1 DEF SubmitEnds
      <4>2. Cardinality(Futures) = 0
        BY <4>1, FS_EmptySet
      <4>3. ~ (0 >= Workers)
        BY <1>1, SomeWorker DEF Typed
      <4>4. Futures' = Futures
        BY <1>2, <4>1 DEF Futures, With
      <4>5. QED
        BY <4>1, <4>2, <4>3, <4>4
    <3>2. ASSUME past, UNCHANGED << specIndex, candidate >>
          PROVE  specIndex' \notin Index /\ Futures' = {}
      BY <1>1, <1>2, <3>2 DEF Drained, Futures, With
    <3>3. ASSUME NEW i \in Index, CandidateEnds(i)
          PROVE  FALSE
      <4>1. past /\ candidate[i] = "running"
        BY <3>3 DEF CandidateEnds, coordinator
      <4>2. i \in Futures
        BY <4>1 DEF Futures, With
      <4>3. QED
        BY <1>1, <4>1, <4>2 DEF Drained
    <3>4. ASSUME NEW i \in Index, CollectFailure(i)
          PROVE  FALSE
      BY <3>4 DEF CollectFailure, Record
    <3>5. \/ SubmitEnds \/ (\E i \in Index : CandidateEnds(i) \/ CollectFailure(i))
          \/ past /\ UNCHANGED << specIndex, candidate >>
      BY <1>1, <1>4 DEF Next, Coordinator, vars, coordinator, StartProcess, Submit, Wait, CollectEnds,
         CollectSurplus, CollectTask, IrrelevanceMade, IrrelevanceRejected, MoreIrrelevance, Return,
         Raise, AppendPart, AppendLast, AppendFails, Recorded, Record, Typed
    <3>6. QED
      BY <3>1, <3>2, <3>3, <3>4, <3>5
  <2>4. QED
    BY <2>1, <2>2, <2>3 DEF EInv
<1>5. QED
  BY <1>3, <1>4

THEOREM ExhaustionInvariance == Spec => []EInv
<1>1. IInv /\ EInv /\ [Next]_vars => EInv'
  BY NextEInv
<1>2. QED
  BY <1>1, InitEInv, Invariance, PTL DEF Spec

(* A domain is given up when so many of it failed that the others are not  *)
(* more than it was asked for.                                             *)
LEMMA GivenUpLeavesQuota ==
  ASSUME Typed, QuotasRespected, NEW d \in Domains, GivenUp(d)
  PROVE  ~request.fixed /\ Cardinality(Candidates(d) \ With({"rejected"})) <= DomainQuota(d)
<1> DEFINE C == Candidates(d)
           R == With({"rejected"})
<1>1. IsFiniteSet(C)
  <2>1. Len(Specs) \in Nat
    BY RequestFacts DEF Typed
  <2>2. IsFiniteSet(Index)
    BY <2>1, FS_Interval DEF Index
  <2> QED
    BY <2>2, FS_Subset DEF Candidates
<1>2. Cardinality(C \ R) = Cardinality(C) - Cardinality(C \intersect R)
  BY <1>1, FS_Difference
<1>3. Cardinality(C) \in Nat /\ Cardinality(C \intersect R) \in Nat
  <2>1. IsFiniteSet(C \intersect R)
    BY <1>1, FS_Subset
  <2> QED
    BY <1>1, <2>1, FS_CardinalityType
<1>4. DomainQuota(d) \in Nat
  BY KeptWithinQuota DEF Typed
<1>5. ~request.fixed /\ Cardinality(C \intersect R) >= Cardinality(C) - DomainQuota(d)
  BY DEF GivenUp, DomainFailed, MaxFailures
<1> HIDE DEF C, R
<1>6. Cardinality(C \ R) <= DomainQuota(d)
  BY <1>2, <1>3, <1>4, <1>5
<1> QED
  BY <1>5, <1>6 DEF C, R

(* The accepted prefix is short of a stratum only if every candidate of it *)
(* was tried or its domain has no more left than its quota, although       *)
(* candidates are left out for the whole domain's sake (submit_until_full  *)
(* and _full, batch.py).                                                   *)
THEOREM ShortIsExhausted == Spec => []ShortOnlyWhenExhausted
<1>1. ASSUME IInv, EInv, pc \in {"irrelevance", "returned"},
             NEW d \in Domains, NEW l \in Levels
      PROVE  \/ Ok(d, l) = Quota[d][l]
             \/ Stratum(d, l) \subseteq With({"kept", "rejected"})
             \/ /\ ~request.fixed
                /\ Cardinality(Candidates(d) \ With({"rejected"})) <= DomainQuota(d)
  <2>1. Typed /\ QuotasRespected /\ Passed /\ Drained /\ LeftOut
    BY <1>1 DEF IInv, EInv
  <2> SUFFICES ASSUME Ok(d, l) # Quota[d][l],
                      NEW i \in Stratum(d, l), i \notin With({"kept", "rejected"})
               PROVE  GivenUp(d)
    BY <2>1, GivenUpLeavesQuota
  <2>2. i \in Index /\ Specs[i].domain = d /\ Specs[i].difficulty = l
    BY DEF Stratum
  <2>3. candidate[i] \notin {"kept", "rejected", "running", "task", "failed"}
    BY <1>1, <2>1, <2>2 DEF Drained, Futures, With
  <2>4. candidate[i] # "untried"
    <3>1. Len(Specs) \in Nat
      BY <2>1, RequestFacts DEF Typed
    <3>2. ~ (i >= specIndex)
      BY <1>1, <2>1, <2>2, <3>1 DEF Drained, Passed, Index
    <3>3. QED
      BY <2>1, <2>2, <3>2 DEF Passed
  <2>5. Full(i) \/ GivenUp(d)
    BY <2>1, <2>2, <2>3, <2>4 DEF Typed, CandidateStates, LeftOut
  <2>6. ~ Full(i)
    <3>1. /\ DomainOk(d) \in Nat /\ DomainQuota(d) \in Nat
          /\ DomainOk(d) < DomainQuota(d)
      BY <2>1, KeptWithinQuota
    <3>2. Ok(d, l) <= Quota[d][l] /\ Quota[d][l] \in Nat /\ Ok(d, l) \in Nat
      BY <2>1, KeptFacts, RequestFacts DEF QuotasRespected, Typed
    <3>3. ~ (DomainOk(d) >= DomainQuota(d)) /\ ~ (Ok(d, l) >= Quota[d][l])
      BY <3>1, <3>2
    <3>4. QED
      BY <2>2, <3>3 DEF Full
  <2>7. QED
    BY <2>5, <2>6
<1>2. IInv /\ EInv => ShortOnlyWhenExhausted
  BY <1>1 DEF ShortOnlyWhenExhausted
<1>3. QED
  BY <1>2, Invariance, ExhaustionInvariance, PTL

-----------------------------------------------------------------------------
(* The promise.  Yielded and OutcomeOf are what the refinement mapping of  *)
(* Promised substitutes.                                                   *)
KindOf(i) == << Specs[i].domain, Specs[i].difficulty >>

Yielded ==
  {<< << Specs[i].domain, Specs[i].difficulty >>, Specs[i].seed >> : i \in With({"kept"})}
  \union ({IrrelevanceKind} \X irrelevance.made)

OutcomeOf ==
  CASE pc = "down" -> "idle"
    [] pc \in {"returned", "raised"} -> pc
    [] pc = "blocked" -> "raised"
    [] OTHER -> "open"

MadeBefore == irrelevance.tried \in Nat /\ irrelevance.made \subseteq 0 .. irrelevance.tried - 1

LEMMA MadeBeforeKept == MadeBefore /\ [Next]_vars => MadeBefore'
<1> SUFFICES ASSUME MadeBefore, [Next]_vars
             PROVE  MadeBefore'
  OBVIOUS
<1>1. CASE irrelevance' = irrelevance
  BY <1>1 DEF MadeBefore
<1>2. ASSUME NEW made, Tried(made), made \subseteq irrelevance.made \union {irrelevance.tried}
      PROVE  MadeBefore'
  <2>1. irrelevance'.tried = irrelevance.tried + 1 /\ irrelevance'.made = made
    BY <1>2 DEF Tried
  <2>2. 0 .. irrelevance.tried - 1 \subseteq 0 .. irrelevance'.tried - 1
    BY <2>1 DEF MadeBefore
  <2>3. irrelevance.tried \in 0 .. irrelevance'.tried - 1 /\ irrelevance'.tried \in Nat
    BY <2>1 DEF MadeBefore
  <2>4. QED
    BY <1>2, <2>1, <2>2, <2>3 DEF MadeBefore
<1>3. CASE Kill
  BY <1>3 DEF Kill, MadeBefore
<1>4. \/ irrelevance' = irrelevance \/ Kill
      \/ Tried(irrelevance.made) \/ Tried(irrelevance.made \union {irrelevance.tried})
  BY DEF Next, Coordinator, vars, coordinator, StartProcess, Submit, SubmitEnds, CandidateEnds, Wait,
     CollectFailure, CollectSurplus, CollectTask, CollectEnds, IrrelevanceMade,
     IrrelevanceRejected, Return, Raise, AppendPart, AppendLast, AppendFails
<1>5. QED
  BY <1>1, <1>2, <1>3, <1>4

(* Tasks of a kind are at most as many as what the request counts.         *)
LEMMA YieldedOfStratum ==
  ASSUME Typed, NEW d \in Domains, NEW l \in Levels
  PROVE  /\ IsFiniteSet({c \in Yielded : c[1] = << d, l >>})
         /\ Cardinality({c \in Yielded : c[1] = << d, l >>}) <= Ok(d, l)
<1> DEFINE T == {c \in Yielded : c[1] = << d, l >>}
           f == [i \in Kept(d, l) |-> << << d, l >>, Specs[i].seed >>]
<1>1. << d, l >> # IrrelevanceKind
  BY RequestsAssumption DEF IrrelevanceKind
<1>2. T = {<< << d, l >>, Specs[i].seed >> : i \in Kept(d, l)}
  <2>1. \A i \in With({"kept"}) : KindOf(i) = << d, l >> <=> i \in Kept(d, l)
    BY KeptFacts DEF KindOf, With
  <2>2. Kept(d, l) \subseteq With({"kept"})
    BY DEF Kept
  <2>3. \A c \in {IrrelevanceKind} \X irrelevance.made : c[1] # << d, l >>
    BY <1>1
  <2>4. ASSUME NEW c \in T
        PROVE  c \in {<< << d, l >>, Specs[i].seed >> : i \in Kept(d, l)}
    BY <2>1, <2>3 DEF Yielded, KindOf
  <2>5. ASSUME NEW i \in Kept(d, l)
        PROVE  << << d, l >>, Specs[i].seed >> \in T
    BY <2>1, <2>2 DEF Yielded, KindOf
  <2>6. QED
    BY <2>4, <2>5
<1>3. f \in Surjection(Kept(d, l), T)
  <2> HIDE DEF T
  <2>1. QED
    BY <1>2 DEF Surjection
<1>4. IsFiniteSet(Kept(d, l)) /\ Ok(d, l) = Cardinality(Kept(d, l))
  BY KeptFacts
<1> HIDE DEF T, f
<1>5. IsFiniteSet(T) /\ Cardinality(T) <= Cardinality(Kept(d, l))
  BY <1>3, <1>4, FS_Surjection
<1>6. QED
  BY <1>4, <1>5 DEF T

LEMMA YieldedOfIrrelevance ==
  ASSUME Typed, MadeBefore
  PROVE  /\ IsFiniteSet({c \in Yielded : c[1] = IrrelevanceKind})
         /\ IsFiniteSet(irrelevance.made)
         /\ Cardinality({c \in Yielded : c[1] = IrrelevanceKind}) <= Cardinality(irrelevance.made)
<1> DEFINE T == {c \in Yielded : c[1] = IrrelevanceKind}
           f == [m \in irrelevance.made |-> << IrrelevanceKind, m >>]
<1>1. T = {IrrelevanceKind} \X irrelevance.made
  <2>1. \A i \in With({"kept"}) : << Specs[i].domain, Specs[i].difficulty >> # IrrelevanceKind
    BY RequestFacts, RequestsAssumption DEF With, IrrelevanceKind, Typed
  <2>2. QED
    BY <2>1 DEF Yielded
<1>2. f \in Surjection(irrelevance.made, T)
  <2> HIDE DEF T
  <2>1. QED
    BY <1>1 DEF Surjection
<1>3. IsFiniteSet(irrelevance.made)
  <2>1. IsFiniteSet(0 .. irrelevance.tried - 1)
    BY FS_Interval DEF MadeBefore
  <2>2. QED
    BY <2>1, FS_Subset DEF MadeBefore
<1> HIDE DEF T, f
<1>4. IsFiniteSet(T) /\ Cardinality(T) <= Cardinality(irrelevance.made)
  BY <1>2, <1>3, FS_Surjection
<1>5. QED
  BY <1>3, <1>4 DEF T

(* A kept task is one more of its stratum, from a seed not used before.    *)
Yields ==
  /\ OutcomeOf = "open" /\ OutcomeOf' = "open"
  /\ \E k \in Kinds : \E n \in Promise(request).seeds[k] :
       /\ << k, n >> \notin Yielded
       /\ Cardinality({c \in Yielded : c[1] = k}) < Promise(request).target[k]
       /\ Yielded' = Yielded \union {<< k, n >>}

LEMMA CollectTaskYields ==
  ASSUME IInv, [Next]_vars, NEW i \in Index, CollectTask(i)
  PROVE  Yields
<1> USE DEF IInv
<1>1. /\ pc = "collect" /\ pc' \in {"collect", "raising"}
      /\ candidate[i] = "task" /\ ~ Full(i) /\ irrelevance' = irrelevance
      /\ candidate' = [candidate EXCEPT ![i] = "kept"]
  BY DEF CollectTask
<1>2. OutcomeOf = "open" /\ OutcomeOf' = "open"
  BY <1>1 DEF OutcomeOf
<1>3. PICK d \in Domains, l \in Levels : d = Specs[i].domain /\ l = Specs[i].difficulty
  BY RequestFacts DEF Typed
<1> DEFINE k == << d, l >>
           n == Specs[i].seed
<1>4. k \in Kinds /\ k # IrrelevanceKind
  BY RequestsAssumption DEF Kinds, IrrelevanceKind
<1>5. /\ Promise(request).target[k] = Quota[d][l]
      /\ Promise(request).seeds[k] =
           {request.schedule[j].seed : j \in
              {x \in DOMAIN request.schedule :
                 << request.schedule[x].domain, request.schedule[x].difficulty >> = k}}
  BY <1>4 DEF Promise, Quota
<1>6. n \in Promise(request).seeds[k]
  BY <1>3, <1>5, RequestFacts DEF Specs, Typed
<1>7. Cardinality({c \in Yielded : c[1] = k}) < Promise(request).target[k]
  <2>1. ~ (Ok(d, l) >= Quota[d][l]) /\ Ok(d, l) \in Nat /\ Quota[d][l] \in Nat
    BY <1>1, <1>3, KeptFacts, RequestFacts DEF Full, Typed
  <2>2. /\ IsFiniteSet({c \in Yielded : c[1] = k})
        /\ Cardinality({c \in Yielded : c[1] = k}) <= Ok(d, l)
    BY YieldedOfStratum
  <2>3. Cardinality({c \in Yielded : c[1] = k}) \in Nat
    BY <2>2, FS_CardinalityType
  <2> HIDE DEF k
  <2>4. QED
    BY <1>5, <2>1, <2>2, <2>3
<1>8. << k, n >> \notin Yielded
  <2>1. \A j \in With({"kept"}) : Specs[j].seed # n
    <3>1. \A j \in Index : Specs[j].seed = Specs[i].seed => j = i
      BY RequestsAssumption, RequestFacts DEF Specs, Typed
    <3>2. QED
      BY <1>1, <3>1 DEF With
  <2>2. << k, n >> \notin {IrrelevanceKind} \X irrelevance.made
    BY <1>4
  <2> HIDE DEF k, n
  <2>3. QED
    BY <2>1, <2>2 DEF Yielded
<1>9. Yielded' = Yielded \union {<< k, n >>}
  <2>1. Specs' = Specs /\ Index' = Index
    BY RequestFixed
  <2>2. With({"kept"})' = With({"kept"}) \union {i}
    BY <1>1, <2>1 DEF With, Typed
  <2>3. QED
    BY <1>1, <1>3, <2>1, <2>2 DEF Yielded
<1> HIDE DEF k, n
<1>10. QED
  BY <1>2, <1>4, <1>6, <1>7, <1>8, <1>9 DEF Yields

LEMMA IrrelevanceMadeYields ==
  ASSUME IInv, MadeBefore, [Next]_vars, IrrelevanceMade
  PROVE  Yields
<1> USE DEF IInv
<1> DEFINE k == IrrelevanceKind
           n == irrelevance.tried
<1>1. /\ pc = "irrelevance" /\ pc' = pc /\ candidate' = candidate
      /\ irrelevance'.made = irrelevance.made \union {n}
      /\ Cardinality(irrelevance.made) < request.irrelevant
  BY DEF IrrelevanceMade, MoreIrrelevance, Tried
<1>2. OutcomeOf = "open" /\ OutcomeOf' = "open"
  BY <1>1 DEF OutcomeOf
<1>3. /\ k \in Kinds
      /\ Promise(request).target[k] = request.irrelevant
      /\ Promise(request).seeds[k] = 0 .. 5 * request.irrelevant + 3
  BY DEF Kinds, Promise
<1>4. n \in Promise(request).seeds[k]
  BY <1>3, TriedInRange DEF Typed, IrrelevanceMade
<1>5. Cardinality({c \in Yielded : c[1] = k}) < Promise(request).target[k]
  <2>1. /\ IsFiniteSet({c \in Yielded : c[1] = k}) /\ IsFiniteSet(irrelevance.made)
        /\ Cardinality({c \in Yielded : c[1] = k}) <= Cardinality(irrelevance.made)
    BY YieldedOfIrrelevance
  <2>2. Cardinality({c \in Yielded : c[1] = k}) \in Nat /\ Cardinality(irrelevance.made) \in Nat
    BY <2>1, FS_CardinalityType
  <2>3. request.irrelevant \in Nat
    BY RequestsAssumption DEF Typed
  <2> HIDE DEF k
  <2>4. QED
    BY <1>1, <1>3, <2>1, <2>2, <2>3
<1>6. << k, n >> \notin Yielded
  <2>1. n \notin irrelevance.made
    BY DEF MadeBefore
  <2>2. \A i \in With({"kept"}) : << Specs[i].domain, Specs[i].difficulty >> # k
    BY RequestFacts, RequestsAssumption DEF With, IrrelevanceKind, Typed
  <2> HIDE DEF k, n
  <2>3. QED
    BY <2>1, <2>2 DEF Yielded
<1>7. Yielded' = Yielded \union {<< k, n >>}
  <2>1. Specs' = Specs /\ Index' = Index
    BY RequestFixed
  <2>2. With({"kept"})' = With({"kept"})
    BY <1>1, <2>1 DEF With
  <2>3. QED
    BY <1>1, <2>1, <2>2 DEF Yielded
<1> HIDE DEF k, n
<1>8. QED
  BY <1>2, <1>3, <1>4, <1>5, <1>6, <1>7 DEF Yields

LEMMA SubmitKeepsNothing ==
  ASSUME Typed, Passed, Submit, Index' = Index
  PROVE  With({"kept"})' = With({"kept"})
<1>1. PICK s \in {"skipped", "running"} :
        specIndex \in Index /\ candidate' = [candidate EXCEPT ![specIndex] = s]
  BY DEF Submit
<1>2. candidate[specIndex] = "untried"
  BY <1>1 DEF Passed
<1>3. QED
  BY <1>1, <1>2 DEF With, Typed

(* Every other step yields nothing: it opens or ends the request, or is    *)
(* not seen.                                                               *)
LEMMA OtherSteps ==
  ASSUME IInv, EInv, [Next]_vars, ~ IrrelevanceMade, \A i \in Index : ~ CollectTask(i)
  PROVE  \/ Yielded' = Yielded /\ OutcomeOf' = OutcomeOf
         \/ Yielded' = Yielded /\ OutcomeOf = "idle" /\ OutcomeOf' \in {"open", "raised"}
         \/ Yielded' = Yielded /\ OutcomeOf = "open" /\ OutcomeOf' \in {"returned", "raised"}
         \/ Yielded' = {} /\ OutcomeOf # "idle" /\ OutcomeOf' = "idle"
<1> USE DEF IInv
<1>1. Specs' = Specs /\ Index' = Index
  BY RequestFixed
<1>2. CASE Kill
  <2>1. /\ pc \notin {"down", "blocked"} /\ pc' = "down"
        /\ candidate' = [i \in Index |-> "untried"] /\ irrelevance'.made = {}
    BY <1>2 DEF Kill
  <2>2. With({"kept"})' = {}
    BY <1>1, <2>1 DEF With
  <2>3. QED
    BY <2>1, <2>2 DEF Yielded, OutcomeOf
<1>3. CASE ~ Kill
  <2>1. With({"kept"})' = With({"kept"})
    <3>1. ASSUME NEW i \in Index, NEW s \in CandidateStates \ {"kept"},
                 candidate[i] # "kept", candidate' = [candidate EXCEPT ![i] = s]
          PROVE  With({"kept"})' = With({"kept"})
      BY <1>1, <3>1 DEF With, Typed
    <3>2. CASE candidate' = candidate
      BY <1>1, <3>2 DEF With
    <3>3. \/ candidate' = candidate
          \/ Submit
          \/ \E i \in Index : CandidateEnds(i) \/ CollectFailure(i) \/ CollectSurplus(i)
      BY <1>3 DEF Next, Coordinator, vars, StartProcess, SubmitEnds, Wait, CollectEnds,
         IrrelevanceRejected, Return, Raise, AppendPart, AppendLast, AppendFails
    <3>4. ASSUME NEW i \in Index, CandidateEnds(i) \/ CollectFailure(i) \/ CollectSurplus(i)
          PROVE  With({"kept"})' = With({"kept"})
      BY <3>1, <3>4 DEF CandidateEnds, CollectFailure, CollectSurplus, CandidateStates
    <3>5. QED
      BY <1>1, <3>2, <3>3, <3>4, SubmitKeepsNothing DEF EInv
  <2>2. irrelevance'.made = irrelevance.made
    BY <1>3 DEF Next, Coordinator, vars, coordinator, StartProcess, Submit, SubmitEnds, CandidateEnds,
       Wait, CollectFailure, CollectSurplus, CollectEnds, IrrelevanceRejected, Tried, Return, Raise,
       AppendPart, AppendLast, AppendFails
  <2>3. Yielded' = Yielded
    BY <1>1, <2>1, <2>2 DEF Yielded
  <2>4. CASE StartProcess
    BY <2>3, <2>4 DEF StartProcess, OutcomeOf
  <2>5. CASE Return \/ Raise
    BY <2>3, <2>5 DEF Return, Raise, OutcomeOf
  <2>6. CASE pc' = pc
    BY <2>3, <2>6 DEF OutcomeOf
  <2>7. CASE /\ pc \in {"submit", "wait", "collect", "record", "irrelevance"}
             /\ pc' \in {"submit", "wait", "collect", "record", "irrelevance", "raising"}
    BY <2>3, <2>7 DEF OutcomeOf
  <2>8. \/ StartProcess \/ Return \/ Raise \/ pc' = pc
        \/ /\ pc \in {"submit", "wait", "collect", "record", "irrelevance"}
           /\ pc' \in {"submit", "wait", "collect", "record", "irrelevance", "raising"}
    BY <1>3 DEF Next, Coordinator, vars, coordinator, Submit, SubmitEnds, CandidateEnds,
       Wait, CollectFailure, CollectSurplus, CollectEnds, IrrelevanceRejected, MoreIrrelevance,
       AppendPart, AppendLast, AppendFails, Recorded, Record, Typed
  <2>9. QED
    BY <2>4, <2>5, <2>6, <2>7, <2>8
<1>4. QED
  BY <1>2, <1>3

(* A request keeps the promise ShardRecovery is built on, its end apart:   *)
(* it hands over tasks of distinct candidates, no more of a kind than      *)
(* asked for, and nothing after it returned or raised (generate_many).     *)
THEOREM KeepsPromise ==
  Spec => Promised!RequestInit /\ [][Promised!RequestNext]_(Promised!requestVars)
<1>1. Init => Promised!RequestInit /\ MadeBefore
  <2> SUFFICES ASSUME Init
               PROVE  Promised!RequestInit /\ MadeBefore
    OBVIOUS
  <2>1. With({"kept"}) = {} /\ irrelevance.made = {} /\ irrelevance.tried = 0 /\ pc = "down"
    BY DEF Init, With
  <2>2. Yielded = {} /\ OutcomeOf = "idle" /\ MadeBefore
    BY <2>1 DEF Yielded, OutcomeOf, MadeBefore
  <2>3. Promise(request) \in {Promise(r) : r \in Requests}
    BY DEF Init
  <2>4. QED
    BY <2>2, <2>3 DEF Promised!RequestInit, Yielded, OutcomeOf
<1>2. IInv /\ EInv /\ MadeBefore /\ [Next]_vars =>
        MadeBefore' /\ [Promised!RequestNext]_(Promised!requestVars)
  <2> SUFFICES ASSUME IInv, EInv, MadeBefore, [Next]_vars
               PROVE  [Promised!RequestNext]_(Promised!requestVars)
    BY MadeBeforeKept
  <2>1. Promise(request)' = Promise(request)
    BY RequestFixed DEF Promise
  <2>2. CASE Yields
    <3>1. PICK k \in Kinds : \E n \in Promise(request).seeds[k] :
            /\ << k, n >> \notin Yielded
            /\ Cardinality({c \in Yielded : c[1] = k}) < Promise(request).target[k]
            /\ Yielded' = Yielded \union {<< k, n >>}
      BY <2>2 DEF Yields
    <3>2. PICK n \in Promise(request).seeds[k] :
            /\ << k, n >> \notin Yielded
            /\ Cardinality({c \in Yielded : c[1] = k}) < Promise(request).target[k]
            /\ Yielded' = Yielded \union {<< k, n >>}
      BY <3>1
    <3> DEFINE c == << k, n >>
    <3>3. c \in Promised!Candidates /\ c[1] = k
      BY DEF Promised!Candidates
    <3>4. OutcomeOf = "open" /\ OutcomeOf' = OutcomeOf
      BY <2>2 DEF Yields
    <3>5. Promised!Yield(c)
      <4>1. Promised!OfKind(k) = {x \in Yielded : x[1] = k}
        BY DEF Promised!OfKind, Yielded
      <4>1a. Promised!Cardinality(Promised!OfKind(k)) = Cardinality(Promised!OfKind(k))
        BY DEF Promised!Cardinality, Cardinality
      <4>2. /\ c \notin Yielded /\ Yielded' = Yielded \union {c}
            /\ Cardinality(Promised!OfKind(c[1])) < Promise(request).target[c[1]]
        BY <3>2, <3>3, <4>1
      <4> HIDE DEF c
      <4>3. QED
        BY <3>3, <3>4, <4>1a, <4>2 DEF Promised!Yield, Yielded, OutcomeOf
    <3>6. QED
      BY <2>1, <3>3, <3>5 DEF Promised!RequestNext
  <2>3. CASE Yielded' = Yielded /\ OutcomeOf' = OutcomeOf
    BY <2>1, <2>3 DEF Promised!requestVars, Yielded, OutcomeOf
  <2>4. CASE Yielded' = Yielded /\ OutcomeOf = "idle" /\ OutcomeOf' \in {"open", "raised"}
    BY <2>1, <2>4 DEF Promised!RequestNext, Promised!Begin, Promised!Raise, Yielded, OutcomeOf
  <2>5. CASE Yielded' = Yielded /\ OutcomeOf = "open" /\ OutcomeOf' \in {"returned", "raised"}
    BY <2>1, <2>5 DEF Promised!RequestNext, Promised!Return, Promised!Raise, Yielded, OutcomeOf
  <2>6. CASE Yielded' = {} /\ OutcomeOf # "idle" /\ OutcomeOf' = "idle"
    BY <2>1, <2>6 DEF Promised!RequestNext, Promised!Abandon, Yielded, OutcomeOf
  <2>7. QED
    BY <2>2, <2>3, <2>4, <2>5, <2>6, OtherSteps, CollectTaskYields, IrrelevanceMadeYields
<1>3. QED
  BY <1>1, <1>2, Invariance, ExhaustionInvariance, PTL DEF Spec

-----------------------------------------------------------------------------
(* The pool.  The coordinator holds only futures that ended, has no more   *)
(* in flight than workers, and never waits when nothing is in flight.      *)
WaitsForFuture == pc = "wait" => Futures # {}

Pool ==
  /\ Cardinality(Futures) <= Workers
  /\ done \subseteq Ended
  /\ done # {} => pc = "collect" \/ (pc = "record" /\ recording.next = "collect")
  /\ WaitsForFuture

PcValues == {"down", "submit", "wait", "collect", "record", "irrelevance", "raising",
           "returned", "raised", "blocked"}
RecordingType == [record : Records, next : {"collect", "irrelevance", "batch", "raising"}]

Numbers ==
  /\ pc \in PcValues /\ cutOff \in BOOLEAN
  /\ pc = "record" => recording \in RecordingType
  /\ pc # "record" => recording = NoRecord
  /\ runs \in 0 .. MaxRuns[request]
  /\ specIndex \in 1 .. Len(Specs) + 1
  /\ irrelevance.tried \in 0 .. IrrelevanceAttempts
  /\ MadeBefore
  /\ Cardinality(irrelevance.made) <= request.irrelevant

PInv == Pool /\ Numbers

LEMMA CountFacts ==
  ASSUME request \in Requests
  PROVE  /\ IsFiniteSet(Index) /\ Cardinality(Index) = Len(Specs) /\ Len(Specs) \in Nat
         /\ \A S \in SUBSET Index : IsFiniteSet(S) /\ Cardinality(S) \in 0 .. Len(Specs)
<1>1. PICK n \in Nat : n = Len(Specs)
  BY RequestFacts
<1>2. IsFiniteSet(1 .. n) /\ Cardinality(1 .. n) = n
  BY FS_Interval
<1>3. IsFiniteSet(Index) /\ Cardinality(Index) = n
  BY <1>1, <1>2 DEF Index
<1>4. ASSUME NEW S \in SUBSET Index
      PROVE  IsFiniteSet(S) /\ Cardinality(S) \in 0 .. n
  <2>1. IsFiniteSet(S) /\ Cardinality(S) <= n
    BY <1>3, FS_Subset
  <2>2. QED
    BY <1>1, <2>1, FS_CardinalityType
<1>5. QED
  BY <1>1, <1>3, <1>4

LEMMA AttemptsBounded ==
  ASSUME request \in Requests
  PROVE  IrrelevanceAttempts \in Nat /\ request.irrelevant \in Nat
<1>1. request.irrelevant \in Nat
  BY RequestsAssumption
<1>2. PICK a, b \in Nat : a = 5 * request.irrelevant /\ b = request.irrelevant + 4
  BY <1>1
<1>3. Max({a, b}) \in Nat
  <2>1. CASE a >= b
    BY <2>1 DEF Max
  <2>2. CASE a < b
    BY <2>2 DEF Max
  <2>3. QED
    BY <2>1, <2>2
<1>4. QED
  BY <1>1, <1>2, <1>3 DEF IrrelevanceAttempts

(* Moving one candidate to another state.                                  *)
LEMMA Moved ==
  ASSUME Typed, Index' = Index, NEW i \in Index, NEW s,
         candidate' = [candidate EXCEPT ![i] = s], NEW S
  PROVE  With(S)' = IF s \in S THEN With(S) \union {i} ELSE With(S) \ {i}
<1>1. candidate'[i] = s /\ \A j \in Index : j # i => candidate'[j] = candidate[j]
  BY DEF Typed
<1>2. With(S)' = {j \in Index : candidate'[j] \in S}
  BY DEF With
<1>3. QED
  BY <1>1, <1>2 DEF With

(* What the steps do with the candidates.                                  *)
LEMMA CandidateMoves ==
  ASSUME Typed, Passed, [Next]_vars, ~ Kill
  PROVE  \/ candidate' = candidate
         \/ \E i \in Index :
              \/ /\ Submit /\ candidate[i] = "untried" /\ Cardinality(Futures) < Workers
                 /\ \E s \in {"skipped", "running"} : candidate' = [candidate EXCEPT ![i] = s]
              \/ /\ CandidateEnds(i) /\ candidate[i] = "running"
                 /\ \E s \in {"task", "failed"} : candidate' = [candidate EXCEPT ![i] = s]
              \/ /\ CollectFailure(i) \/ CollectSurplus(i) \/ CollectTask(i)
                 /\ i \in done /\ candidate[i] \in {"task", "failed"}
                 /\ \E s \in {"kept", "surplus", "rejected"} : candidate' = [candidate EXCEPT ![i] = s]
<1>1. CASE Submit
  <2>1. specIndex \in Index /\ candidate[specIndex] = "untried"
    BY <1>1 DEF Submit, Passed
  <2>2. \E s \in {"skipped", "running"} : candidate' = [candidate EXCEPT ![specIndex] = s]
    BY <1>1 DEF Submit
  <2>3. QED
    BY <1>1, <2>1, <2>2 DEF Submit
<1>2. ASSUME NEW i \in Index, CandidateEnds(i)
      PROVE  /\ candidate[i] = "running"
             /\ \E s \in {"task", "failed"} : candidate' = [candidate EXCEPT ![i] = s]
  BY <1>2 DEF CandidateEnds
<1>3. ASSUME NEW i \in Index, CollectFailure(i) \/ CollectSurplus(i) \/ CollectTask(i)
      PROVE  /\ i \in done /\ candidate[i] \in {"task", "failed"}
             /\ \E s \in {"kept", "surplus", "rejected"} : candidate' = [candidate EXCEPT ![i] = s]
  BY <1>3 DEF CollectFailure, CollectSurplus, CollectTask
<1>4. \/ candidate' = candidate \/ Submit
      \/ \E i \in Index : CandidateEnds(i) \/ CollectFailure(i) \/ CollectSurplus(i) \/ CollectTask(i)
  BY DEF Next, Coordinator, vars, StartProcess, SubmitEnds, Wait, CollectEnds, IrrelevanceMade,
     IrrelevanceRejected, Return, Raise, AppendPart, AppendLast, AppendFails
<1>5. QED
  BY <1>1, <1>2, <1>3, <1>4

LEMMA InitPInv == Init => PInv
<1> SUFFICES ASSUME Init
             PROVE  PInv
  OBVIOUS
<1>1. request \in Requests
  BY DEF Init
<1>2. With({"running", "task", "failed"}) = {} /\ done = {} /\ pc = "down"
  BY DEF Init, With
<1>3. Workers \in Nat /\ Len(Specs) \in Nat /\ IrrelevanceAttempts \in Nat /\ request.irrelevant \in Nat
  BY <1>1, SomeWorker, CountFacts, AttemptsBounded
<1>4. Pool
  <2>1. Futures = {}
    BY <1>2 DEF Futures
  <2>2. Cardinality(Futures) = 0
    BY <2>1, FS_EmptySet
  <2>3. Cardinality(Futures) <= Workers
    BY <1>3, <2>2
  <2>4. QED
    BY <1>2, <2>3 DEF Pool, WaitsForFuture
<1>5. MaxRuns[request] \in Nat
  BY <1>1, BatchLimitsAssumption
<1>6. irrelevance.made = {} /\ irrelevance.tried = 0
  BY DEF Init
<1>7. Numbers
  <2>1. pc = "down" /\ recording = NoRecord /\ cutOff = FALSE /\ runs = 0 /\ specIndex = 1
    BY DEF Init
  <2>2. runs \in 0 .. MaxRuns[request] /\ specIndex \in 1 .. Len(Specs) + 1
    BY <1>3, <1>5, <2>1
  <2>3. irrelevance.tried \in 0 .. IrrelevanceAttempts /\ MadeBefore
    BY <1>3, <1>6 DEF MadeBefore
  <2>4. Cardinality(irrelevance.made) = 0
    BY <1>6, FS_EmptySet
  <2>5. Cardinality(irrelevance.made) <= request.irrelevant
    BY <1>3, <2>4
  <2>6. QED
    BY <2>1, <2>2, <2>3, <2>5 DEF Numbers, PcValues
<1>8. QED
  BY <1>4, <1>7 DEF PInv

LEMMA PoolNext ==
  ASSUME IInv, EInv, PInv, [Next]_vars
  PROVE  Pool'
<1>1. Typed /\ Passed /\ Pool /\ Numbers
  BY DEF IInv, EInv, PInv
<1>2. request' = request /\ Index' = Index /\ Specs' = Specs /\ Workers' = Workers
  BY RequestFixed DEF Workers
<1>3. Workers \in Nat \ {0} /\ IsFiniteSet(Futures) /\ Cardinality(Futures) \in Nat
  <2>1. Futures \in SUBSET Index
    BY DEF Futures, With
  <2>2. QED
    BY <1>1, <2>1, SomeWorker, CountFacts DEF Typed
<1>3a. PICK F, G, w : F = Futures /\ G = Futures' /\ w = Workers
  OBVIOUS
<1>4. CASE Kill
  <2>1. pc' = "down" /\ done' = {} /\ candidate' = [i \in Index |-> "untried"]
    BY <1>4 DEF Kill
  <2>2. With({"running", "task", "failed"})' = {}
    BY <1>2, <2>1 DEF With
  <2>3. Futures' = {} /\ Cardinality({}) = 0
    BY <2>2, FS_EmptySet DEF Futures
  <2>4. Cardinality(Futures') <= Workers
    BY <1>3, <2>3
  <2>5. QED
    BY <1>2, <2>1, <2>4 DEF Pool, WaitsForFuture
<1>5. CASE ~ Kill
  <2>1. /\ Cardinality(Futures') <= Workers
        /\ done' \subseteq Ended'
        /\ Futures # {} /\ pc = "wait" /\ pc' = "wait" => Futures' # {}
    <3>1. CASE candidate' = candidate
      <4>1. Futures' = Futures /\ Ended' = Ended
        BY <1>2, <3>1 DEF Futures, Ended, With
      <4>2. done' \subseteq done \/ done' \subseteq Ended
        BY DEF Next, Coordinator, vars, coordinator, StartProcess, Submit, SubmitEnds,
           CandidateEnds, Wait, CollectFailure, CollectSurplus, CollectTask, CollectEnds,
           IrrelevanceMade, IrrelevanceRejected, Return, Raise, AppendPart, AppendLast,
           AppendFails, Kill
      <4>3. QED
        BY <1>1, <4>1, <4>2 DEF Pool
    <3>2. ASSUME NEW i \in Index, Submit, candidate[i] = "untried", Cardinality(Futures) < Workers,
                 NEW s \in {"skipped", "running"}, candidate' = [candidate EXCEPT ![i] = s]
          PROVE  /\ Cardinality(Futures') <= Workers
                 /\ done' \subseteq Ended'
                 /\ pc # "wait"
      <4>1. Futures' = Futures \union {i} \/ Futures' = Futures \ {i}
        BY <1>1, <1>2, <3>2, Moved DEF Futures
      <4>2. i \notin Futures
        BY <3>2 DEF Futures, With
      <4>3. Cardinality(G) <= Cardinality(F) + 1 /\ IsFiniteSet(G)
        <5>1. IsFiniteSet(F) /\ Cardinality(F) \in Nat /\ i \notin F /\ (G = F \union {i} \/ G = F)
          BY <1>3, <1>3a, <4>1, <4>2
        <5>2. CASE G = F \union {i}
          <6>1. Cardinality(G) = Cardinality(F) + 1 /\ IsFiniteSet(G)
            BY <5>1, <5>2, FS_AddElement
          <6>2. QED
            BY <5>1, <6>1
        <5>3. CASE G = F
          BY <5>1, <5>3
        <5>4. QED
          BY <5>1, <5>2, <5>3
      <4>4. Ended' = Ended \ {i} /\ i \notin Ended
        BY <1>1, <1>2, <3>2, Moved DEF Ended, With
      <4>5. done' = done /\ pc = "submit"
        BY <3>2 DEF Submit
      <4>6. Cardinality(G) \in Nat
        BY <4>3, FS_CardinalityType
      <4>7. QED
        BY <1>1, <1>3, <1>3a, <3>2, <4>3, <4>4, <4>5, <4>6 DEF Pool
    <3>3. ASSUME NEW i \in Index, CandidateEnds(i), candidate[i] = "running",
                 NEW s \in {"task", "failed"}, candidate' = [candidate EXCEPT ![i] = s]
          PROVE  /\ Cardinality(Futures') <= Workers
                 /\ done' \subseteq Ended'
                 /\ Futures' # {}
      <4>1. Futures' = Futures \union {i} /\ Ended' = Ended \union {i}
        <5>1. \A S : With(S)' = IF s \in S THEN With(S) \union {i} ELSE With(S) \ {i}
          BY <1>1, <1>2, <3>3, Moved
        <5>2. Futures' = Futures \union {i}
          BY <5>1 DEF Futures
        <5>3. Ended' = Ended \union {i}
          BY <5>1 DEF Ended
        <5>4. QED
          BY <5>2, <5>3
      <4>2. i \in Futures
        BY <3>3 DEF Futures, With
      <4>3. Futures' = Futures
        BY <4>1, <4>2
      <4>4. done' = done
        BY <3>3 DEF CandidateEnds, coordinator
      <4>5. QED
        BY <1>1, <4>1, <4>2, <4>3, <4>4 DEF Pool
    <3>4. ASSUME NEW i \in Index, CollectFailure(i) \/ CollectSurplus(i) \/ CollectTask(i),
                 i \in done, candidate[i] \in {"task", "failed"},
                 NEW s \in {"kept", "surplus", "rejected"}, candidate' = [candidate EXCEPT ![i] = s]
          PROVE  /\ Cardinality(Futures') <= Workers
                 /\ done' \subseteq Ended'
                 /\ pc # "wait"
      <4>1. Futures' = Futures \ {i} /\ Ended' = Ended \ {i}
        <5>1. \A S : With(S)' = IF s \in S THEN With(S) \union {i} ELSE With(S) \ {i}
          BY <1>1, <1>2, <3>4, Moved
        <5>2. Futures' = Futures \ {i}
          BY <5>1 DEF Futures
        <5>3. Ended' = Ended \ {i}
          BY <5>1 DEF Ended
        <5>4. QED
          BY <5>2, <5>3
      <4>2. Cardinality(Futures') <= Cardinality(Futures) /\ Cardinality(Futures') \in Nat
        BY <1>3, <4>1, FS_RemoveElement, FS_Subset, FS_CardinalityType
      <4>3. done' \subseteq done \ {i} /\ pc = "collect"
        BY <3>4 DEF CollectFailure, CollectSurplus, CollectTask
      <4>4. QED
        BY <1>1, <1>3, <4>1, <4>2, <4>3 DEF Pool
    <3>5. QED
      BY <1>1, <1>5, <3>1, <3>2, <3>3, <3>4, CandidateMoves
  <2>2. done' # {} => pc' = "collect" \/ (pc' = "record" /\ recording'.next = "collect")
    <3>1. CASE UNCHANGED << pc, done, recording >>
      BY <1>1, <3>1 DEF Pool
    <3>2. CASE AppendLast
      <4>1. pc = "record" /\ Recorded /\ done' = done
        BY <3>2 DEF AppendLast
      <4>2. QED
        BY <1>1, <4>1, RecordedFacts DEF Pool
    <3>3. CASE AppendFails
      <4>1. recording.next \in {"irrelevance", "batch"} \/ done' = {}
        BY <3>3 DEF AppendFails
      <4>2. pc = "record" /\ (done' = done \/ done' = {})
        BY <3>3 DEF AppendFails
      <4>3. QED
        BY <1>1, <4>1, <4>2 DEF Pool
    <3>4. ASSUME NEW i \in Index, CollectFailure(i)
          PROVE  pc' = "record" /\ recording'.next = "collect"
      BY <3>4 DEF CollectFailure, Record
    <3>5. ASSUME NEW i \in Index, CollectSurplus(i) \/ CollectTask(i)
          PROVE  done' = {} \/ pc' = "collect"
      BY <3>5 DEF CollectSurplus, CollectTask
    <3>6. CASE Wait
      BY <3>6 DEF Wait
    <3>7. CASE \/ StartProcess \/ SubmitEnds \/ CollectEnds
               \/ IrrelevanceMade \/ IrrelevanceRejected \/ Return \/ Raise
      BY <1>1, <3>7 DEF Pool, StartProcess, SubmitEnds, CollectEnds, IrrelevanceMade,
         IrrelevanceRejected, MoreIrrelevance, Return, Raise
    <3>8. CASE AppendPart \/ Submit \/ UNCHANGED vars \/ \E i \in Index : CandidateEnds(i)
      BY <3>1, <3>8 DEF AppendPart, Submit, CandidateEnds, coordinator, vars
    <3>9. QED
      BY <1>5, <3>2, <3>3, <3>4, <3>5, <3>6, <3>7, <3>8 DEF Next, Coordinator
  <2>3. WaitsForFuture'
    <3>1. CASE SubmitEnds
      <4>1. pc' = "wait" => Futures # {}
        BY <3>1 DEF SubmitEnds
      <4>2. Futures' = Futures
        BY <1>2, <3>1 DEF SubmitEnds, Futures, With
      <4>3. QED
        BY <4>1, <4>2 DEF WaitsForFuture
    <3>2. CASE pc' = "wait" /\ ~ SubmitEnds
      <4>1. pc = "wait"
        <5>1. CASE AppendLast
          BY <1>1, <3>2, <5>1, RecordedFacts DEF AppendLast
        <5>2. QED
          BY <1>5, <3>2, <5>1 DEF Next, Coordinator, vars, coordinator, StartProcess, Submit,
             CandidateEnds, Wait, CollectFailure, CollectSurplus, CollectTask, CollectEnds,
             IrrelevanceMade, MoreIrrelevance, IrrelevanceRejected, Return, Raise, AppendPart,
             AppendFails, Record
      <4>2. QED
        BY <1>1, <2>1, <3>2, <4>1 DEF Pool, WaitsForFuture
    <3>3. QED
      BY <3>1, <3>2 DEF WaitsForFuture
  <2>4. QED
    BY <1>2, <2>1, <2>2, <2>3 DEF Pool
<1>6. QED
  BY <1>4, <1>5

LEMMA NumbersNext ==
  ASSUME IInv, EInv, PInv, [Next]_vars
  PROVE  Numbers'
<1>1. Typed /\ Passed /\ Numbers /\ Typed'
  BY NextIInv DEF IInv, EInv, PInv
<1>2. request' = request /\ Index' = Index /\ Specs' = Specs
  BY RequestFixed
<1>2a. IrrelevanceAttempts' = IrrelevanceAttempts
  BY <1>2 DEF IrrelevanceAttempts
<1>3. /\ IrrelevanceAttempts \in Nat /\ request.irrelevant \in Nat
      /\ Len(Specs) \in Nat /\ MaxRuns[request] \in Nat
  BY <1>1, AttemptsBounded, CountFacts, BatchLimitsAssumption DEF Typed
<1>4. pc' \in PcValues /\ (pc' = "record" => recording' \in RecordingType)
                     /\ (pc' # "record" => recording' = NoRecord)
  <2>1. CASE UNCHANGED << pc, recording >>
    BY <1>1, <2>1 DEF Numbers
  <2>2. ASSUME NEW r \in Records, NEW next \in {"collect", "irrelevance", "batch", "raising"},
               Record(r, next)
        PROVE  pc' \in PcValues /\ (pc' = "record" => recording' \in RecordingType)
                              /\ (pc' # "record" => recording' = NoRecord)
    BY <2>2 DEF Record, RecordingType, PcValues
  <2>3. ASSUME NEW i \in Index, CollectFailure(i)
        PROVE  \E r \in Records, next \in {"collect", "irrelevance", "batch", "raising"} : Record(r, next)
    BY <1>1, <2>3, RequestFacts DEF CollectFailure, Typed
  <2>4. CASE IrrelevanceRejected
    <3>1. MoreIrrelevance
      BY <2>4 DEF IrrelevanceRejected
    <3>2. \A reason \in Reasons : IrrelevanceRecord(irrelevance.tried, reason) \in Records
      BY <1>1, <3>1, IrrelevanceRecorded DEF Typed
    <3>3. \E r \in Records, next \in {"collect", "irrelevance", "batch", "raising"} : Record(r, next)
      BY <2>4, <3>2 DEF IrrelevanceRejected
    <3>4. QED
      BY <2>2, <3>3
  <2>5. CASE AppendLast \/ AppendFails
    <3>1. Recorded \/ Record(BatchRecord, "raising") \/ (pc' = "raising" /\ recording' = NoRecord)
      BY <2>5 DEF AppendLast, AppendFails
    <3>2. pc = "record" /\ recording.next \in {"collect", "irrelevance", "batch", "raising"}
      BY <1>1, <2>5 DEF AppendLast, AppendFails, Typed
    <3>3. \/ \E r \in Records, next \in {"collect", "irrelevance", "batch", "raising"} : Record(r, next)
          \/ pc' \in PcValues \ {"record"} /\ recording' = NoRecord
      BY <3>1, <3>2, RecordsAssumption DEF Recorded, PcValues
    <3>4. QED
      BY <2>2, <3>3
  <2>6. CASE \/ StartProcess \/ SubmitEnds \/ Wait \/ CollectEnds \/ Return \/ Raise \/ Kill
             \/ \E i \in Index : CollectTask(i)
    <3>1. /\ pc # "record" \/ Kill
          /\ recording' = recording \/ recording' = NoRecord
          /\ pc' \in PcValues \ {"record"}
      BY <1>1, <2>6 DEF StartProcess, SubmitEnds, Wait, CollectEnds, Return, Raise, Kill,
         CollectTask, PcValues, Numbers
    <3>2. recording' = NoRecord
      BY <1>1, <2>6, <3>1 DEF Numbers, Kill
    <3>3. QED
      BY <3>1, <3>2
  <2>7. CASE \/ Submit \/ IrrelevanceMade \/ AppendPart \/ UNCHANGED vars
             \/ \E i \in Index : CandidateEnds(i) \/ CollectSurplus(i)
    BY <2>1, <2>7 DEF Submit, IrrelevanceMade, AppendPart, CandidateEnds, CollectSurplus,
       coordinator, vars
  <2>8. QED
    BY <2>2, <2>3, <2>4, <2>5, <2>6, <2>7 DEF Next, Coordinator
<1>5. runs' \in 0 .. MaxRuns[request] /\ cutOff' \in BOOLEAN
  <2>1. runs' = runs \/ (runs < MaxRuns[request] /\ runs' = runs + 1)
    BY DEF Next, Coordinator, vars, process, StartProcess, Submit, SubmitEnds, CandidateEnds, Wait,
       CollectFailure, CollectSurplus, CollectTask, CollectEnds, IrrelevanceMade,
       IrrelevanceRejected, Return, Raise, AppendPart, AppendLast, AppendFails, Kill
  <2>2. cutOff' = cutOff \/ cutOff' \in BOOLEAN
    BY DEF Next, Coordinator, vars, process, StartProcess, Submit, SubmitEnds, CandidateEnds, Wait,
       CollectFailure, CollectSurplus, CollectTask, CollectEnds, IrrelevanceMade,
       IrrelevanceRejected, Return, Raise, AppendPart, AppendLast, AppendFails, Kill
  <2>3. QED
    BY <1>1, <1>3, <2>1, <2>2 DEF Numbers
<1>6. specIndex' \in 1 .. Len(Specs) + 1
  <2>1. \/ specIndex' = specIndex \/ specIndex' = 1
        \/ specIndex \in Index /\ specIndex' = specIndex + 1
    BY DEF Next, Coordinator, vars, coordinator, StartProcess, Submit, SubmitEnds, CandidateEnds,
       Wait, CollectFailure, CollectSurplus, CollectTask, CollectEnds, IrrelevanceMade,
       IrrelevanceRejected, Return, Raise, AppendPart, AppendLast, AppendFails, Kill
  <2>2. QED
    BY <1>1, <1>3, <2>1 DEF Numbers, Index
<1>7. MadeBefore'
  BY <1>1, MadeBeforeKept DEF Numbers
<1>8. /\ irrelevance'.tried \in 0 .. IrrelevanceAttempts
      /\ Cardinality(irrelevance'.made) <= request.irrelevant
  <2>1. CASE irrelevance' = irrelevance
    BY <1>1, <2>1 DEF Numbers
  <2>2. CASE irrelevance' = [made |-> {}, tried |-> 0]
    <3>1. irrelevance'.made = {} /\ irrelevance'.tried = 0
      BY <2>2
    <3>2. Cardinality(irrelevance'.made) = 0
      BY <3>1, FS_EmptySet
    <3>3. QED
      BY <1>3, <3>1, <3>2
  <2>3. ASSUME MoreIrrelevance,
               Tried(irrelevance.made) \/ Tried(irrelevance.made \union {irrelevance.tried})
        PROVE  /\ irrelevance'.tried \in 0 .. IrrelevanceAttempts
               /\ Cardinality(irrelevance'.made) <= request.irrelevant
    <3>1. PICK t, M : t = irrelevance.tried /\ M = irrelevance.made
      OBVIOUS
    <3>2. /\ t \in Nat /\ M \subseteq 0 .. t - 1
          /\ Cardinality(M) < request.irrelevant /\ t < IrrelevanceAttempts
      BY <1>1, <2>3, <3>1 DEF Numbers, MadeBefore, MoreIrrelevance
    <3>3. irrelevance'.tried = t + 1 /\ irrelevance'.made \in {M, M \union {t}}
      BY <2>3, <3>1 DEF Tried
    <3>4. IsFiniteSet(M) /\ Cardinality(M) \in Nat /\ t \notin M
      <4>1. t - 1 \in Int /\ t \notin 0 .. t - 1
        BY <3>2
      <4>2. IsFiniteSet(0 .. t - 1)
        BY <4>1, FS_Interval
      <4>3. IsFiniteSet(M)
        BY <3>2, <4>2, FS_Subset
      <4>4. QED
        BY <3>2, <4>1, <4>3, FS_CardinalityType
    <3>5. Cardinality(M \union {t}) = Cardinality(M) + 1
      BY <3>4, FS_AddElement
    <3>6. irrelevance'.tried \in 0 .. IrrelevanceAttempts
      BY <1>3, <3>2, <3>3
    <3>7. Cardinality(irrelevance'.made) <= request.irrelevant
      <4>1. PICK N, c, n : N = irrelevance'.made /\ c = Cardinality(M) /\ n = request.irrelevant
        OBVIOUS
      <4>2. c \in Nat /\ n \in Nat /\ c < n /\ Cardinality(M \union {t}) = c + 1
        BY <1>3, <3>2, <3>4, <3>5, <4>1
      <4>3. N = M \/ N = M \union {t}
        BY <3>3, <4>1
      <4>4. Cardinality(N) <= n
        BY <4>1, <4>2, <4>3
      <4>5. QED
        BY <4>1, <4>4
    <3>8. QED
      BY <3>6, <3>7
  <2>4. \/ irrelevance' = irrelevance \/ irrelevance' = [made |-> {}, tried |-> 0]
        \/ /\ MoreIrrelevance
           /\ Tried(irrelevance.made) \/ Tried(irrelevance.made \union {irrelevance.tried})
    BY DEF Next, Coordinator, vars, coordinator, StartProcess, Submit, SubmitEnds, CandidateEnds,
       Wait, CollectFailure, CollectSurplus, CollectTask, CollectEnds, IrrelevanceMade,
       IrrelevanceRejected, Return, Raise, AppendPart, AppendLast, AppendFails, Kill
  <2>5. QED
    BY <2>1, <2>2, <2>3, <2>4
<1>9. QED
  BY <1>2, <1>2a, <1>4, <1>5, <1>6, <1>7, <1>8 DEF Numbers

(* The pool never has more candidates in flight than workers, collects     *)
(* only what ended, and the coordinator never waits for nothing: a request *)
(* cannot hang between its quotas and its pool (generate_many).            *)
THEOREM PoolInvariance == Spec => []PInv
<1>1. IInv /\ EInv /\ PInv /\ [Next]_vars => PInv'
  BY PoolNext, NumbersNext DEF PInv
<1>2. QED
  BY <1>1, InitPInv, Invariance, ExhaustionInvariance, PTL DEF Spec

THEOREM NeverWaitsForNothing == Spec => []WaitsForFuture
BY PoolInvariance, PTL DEF PInv, Pool

(* Every variable keeps its type.                                          *)
THEOREM TypeCorrect == Spec => []TypeOK
<1>1. IInv /\ PInv => TypeOK
  <2> SUFFICES ASSUME IInv, PInv
               PROVE  TypeOK
    OBVIOUS
  <2>1. Typed /\ Pool /\ Numbers
    BY DEF IInv, PInv
  <2>2. request \in Requests /\ candidate \in [Index -> CandidateStates]
    BY <2>1 DEF Typed
  <2>3. (recording = NoRecord) <=> (pc # "record")
    BY <2>1, RecordingAssumption DEF Numbers, RecordingType
  <2>4. QED
    BY <2>1, <2>2, <2>3 DEF TypeOK, Pool, Numbers, PcValues, MadeBefore, CandidateStates
<1>2. QED
  BY <1>1, Invariance, PoolInvariance, PTL

-----------------------------------------------------------------------------
(* The end.  Where a request stands: what comes later in it is larger.     *)
EndedEver == With({"task", "failed", "kept", "surplus", "rejected"})
Collected == With({"kept", "surplus", "rejected"})

(* The part of the request, by the place and by what follows a record.     *)
StageOf(p, next) ==
  CASE p = "down" -> 0
    [] p \in {"submit", "wait", "collect"} -> 1
    [] p = "record" -> IF next = "collect" THEN 1 ELSE 2
    [] p = "irrelevance" -> 2
    [] p = "raising" -> 3
    [] OTHER -> 4

(* The place between two collected candidates, or between two irrelevance  *)
(* candidates.                                                             *)
PlaceOf(p, next, futures) ==
  CASE p = "record" -> IF next = "raising" THEN 1 ELSE 0
    [] p = "irrelevance" -> 1
    [] p = "collect" -> IF futures = {} THEN 1 ELSE 4
    [] p = "submit" -> 2
    [] p = "wait" -> 3
    [] OTHER -> 5

BytesWritten == IF written = "no" THEN 0 ELSE 1

Standing ==
  << StageOf(pc, recording.next), Cardinality(EndedEver), Cardinality(Collected),
     irrelevance.tried, PlaceOf(pc, recording.next, done), specIndex, BytesWritten >>
Standings ==
  (0 .. 4) \X (0 .. Len(Specs)) \X (0 .. Len(Specs)) \X (0 .. IrrelevanceAttempts)
  \X (0 .. 5) \X (1 .. Len(Specs) + 1) \X (0 .. 1)

Later(x, y) == \E i \in 1 .. 7 : x[i] < y[i] /\ \A j \in 1 .. i - 1 : x[j] = y[j]

Work == Coordinator \/ \E i \in Index : CandidateEnds(i)

(* Every step of the coordinator and of its workers brings the request     *)
(* further in an order of finitely many places: between two kills it takes *)
(* only so many steps.                                                     *)
WorkAdvances == [][Work => Standing' \in Standings /\ Later(Standing, Standing')]_vars

LEMMA StandingBounded ==
  ASSUME IInv, PInv
  PROVE  Standing \in Standings
<1>1. Typed /\ Numbers /\ request \in Requests
  BY DEF IInv, PInv, Typed
<1>2. EndedEver \in SUBSET Index /\ Collected \in SUBSET Index
  BY DEF EndedEver, Collected, With
<1>3. Cardinality(EndedEver) \in 0 .. Len(Specs) /\ Cardinality(Collected) \in 0 .. Len(Specs)
  BY <1>1, <1>2, CountFacts
<1>4. StageOf(pc, recording.next) \in 0 .. 4
  BY DEF StageOf
<1>5. PlaceOf(pc, recording.next, done) \in 0 .. 5 /\ BytesWritten \in 0 .. 1
  BY DEF PlaceOf, BytesWritten
<1>6. QED
  BY <1>1, <1>3, <1>4, <1>5 DEF Standing, Standings, Numbers

LEMMA LaterAt ==
  ASSUME NEW x, NEW y
  PROVE  /\ x[1] < y[1] => Later(x, y)
         /\ x[1] = y[1] /\ x[2] < y[2] => Later(x, y)
         /\ x[1] = y[1] /\ x[2] = y[2] /\ x[3] < y[3] => Later(x, y)
         /\ x[1] = y[1] /\ x[2] = y[2] /\ x[3] = y[3] /\ x[4] < y[4] => Later(x, y)
         /\ /\ x[1] = y[1] /\ x[2] = y[2] /\ x[3] = y[3] /\ x[4] = y[4]
            /\ x[5] < y[5] \/ (x[5] = y[5] /\ (x[6] < y[6] \/ (x[6] = y[6] /\ x[7] < y[7])))
            => Later(x, y)
<1>1. /\ 1 .. 0 = {} /\ 1 .. 1 = {1} /\ 1 .. 2 = {1, 2} /\ 1 .. 3 = {1, 2, 3}
      /\ 1 .. 4 = {1, 2, 3, 4} /\ 1 .. 5 = {1, 2, 3, 4, 5} /\ 1 .. 6 = {1, 2, 3, 4, 5, 6}
      /\ 1 .. 7 = {1, 2, 3, 4, 5, 6, 7}
  OBVIOUS
<1>2. 1 - 1 = 0 /\ 2 - 1 = 1 /\ 3 - 1 = 2 /\ 4 - 1 = 3 /\ 5 - 1 = 4 /\ 6 - 1 = 5 /\ 7 - 1 = 6
  OBVIOUS
<1>3. QED
  BY <1>1, <1>2 DEF Later

(* What a step leaves of the two counts.                                   *)
LEMMA CountsMove ==
  ASSUME Typed, Passed, Index' = Index, Work, ~ Kill
  PROVE  /\ Cardinality(EndedEver) \in Nat /\ Cardinality(Collected) \in Nat
         /\ candidate' = candidate \/ Submit =>
              /\ Cardinality(EndedEver') = Cardinality(EndedEver)
              /\ Cardinality(Collected') = Cardinality(Collected)
         /\ (\E i \in Index : CandidateEnds(i)) =>
              Cardinality(EndedEver') = Cardinality(EndedEver) + 1
         /\ (\E i \in Index : CollectFailure(i) \/ CollectSurplus(i) \/ CollectTask(i)) =>
              /\ Cardinality(EndedEver') = Cardinality(EndedEver)
              /\ Cardinality(Collected') = Cardinality(Collected) + 1
<1>1. PICK E, C, F, D : E = EndedEver /\ C = Collected /\ F = EndedEver' /\ D = Collected'
  OBVIOUS
<1>2. E \in SUBSET Index /\ C \in SUBSET Index
  BY <1>1 DEF EndedEver, Collected, With
<1>3. /\ IsFiniteSet(E) /\ IsFiniteSet(C)
      /\ Cardinality(E) \in Nat /\ Cardinality(C) \in Nat
  BY <1>2, CountFacts, FS_CardinalityType DEF Typed
<1>4. ASSUME NEW i \in Index, NEW s, candidate' = [candidate EXCEPT ![i] = s]
      PROVE  /\ F = IF s \in {"task", "failed", "kept", "surplus", "rejected"}
                    THEN E \union {i} ELSE E \ {i}
             /\ D = IF s \in {"kept", "surplus", "rejected"} THEN C \union {i} ELSE C \ {i}
             /\ i \in E <=> candidate[i] \in {"task", "failed", "kept", "surplus", "rejected"}
             /\ i \in C <=> candidate[i] \in {"kept", "surplus", "rejected"}
  <2>1. \A S : With(S)' = IF s \in S THEN With(S) \union {i} ELSE With(S) \ {i}
    BY <1>4, Moved
  <2>2. /\ EndedEver' = IF s \in {"task", "failed", "kept", "surplus", "rejected"}
                        THEN EndedEver \union {i} ELSE EndedEver \ {i}
        /\ Collected' = IF s \in {"kept", "surplus", "rejected"}
                        THEN Collected \union {i} ELSE Collected \ {i}
    BY <2>1 DEF EndedEver, Collected
  <2>3. QED
    BY <1>1, <2>2 DEF EndedEver, Collected, With
<1>5. candidate' = candidate => F = E /\ D = C
  BY <1>1 DEF EndedEver, Collected, With
<1>6. Submit => F = E /\ D = C
  <2> SUFFICES ASSUME Submit
               PROVE  F = E /\ D = C
    OBVIOUS
  <2>0. specIndex \in Index /\ candidate[specIndex] = "untried"
    BY DEF Submit, Passed
  <2>01. \E s \in {"skipped", "running"} : candidate' = [candidate EXCEPT ![specIndex] = s]
    BY DEF Submit
  <2>1. PICK i \in Index, s \in {"skipped", "running"} :
          candidate' = [candidate EXCEPT ![i] = s] /\ candidate[i] = "untried"
    BY <2>0, <2>01
  <2>2. F = E \ {i} /\ D = C \ {i} /\ i \notin E /\ i \notin C
    BY <1>4, <2>1
  <2>3. QED
    BY <2>2
<1>7. ASSUME NEW i \in Index, CandidateEnds(i)
      PROVE  Cardinality(F) = Cardinality(E) + 1
  <2>1. PICK s \in {"task", "failed"} : candidate' = [candidate EXCEPT ![i] = s]
    BY <1>7 DEF CandidateEnds
  <2>2. candidate[i] = "running"
    BY <1>7 DEF CandidateEnds
  <2>3. F = E \union {i} /\ i \notin E
    BY <1>4, <2>1, <2>2
  <2>4. QED
    BY <1>3, <2>3, FS_AddElement
<1>8. ASSUME NEW i \in Index, CollectFailure(i) \/ CollectSurplus(i) \/ CollectTask(i)
      PROVE  F = E /\ Cardinality(D) = Cardinality(C) + 1
  <2>1. PICK s \in {"kept", "surplus", "rejected"} : candidate' = [candidate EXCEPT ![i] = s]
    BY <1>8 DEF CollectFailure, CollectSurplus, CollectTask
  <2>2. candidate[i] \in {"task", "failed"}
    BY <1>8 DEF CollectFailure, CollectSurplus, CollectTask
  <2>3. F = E \union {i} /\ i \in E /\ D = C \union {i} /\ i \notin C
    BY <1>4, <2>1, <2>2
  <2>4. Cardinality(D) = Cardinality(C) + 1
    BY <1>3, <2>3, FS_AddElement
  <2>5. QED
    BY <2>3, <2>4
<1>9. QED
  BY <1>1, <1>3, <1>5, <1>6, <1>7, <1>8

LEMMA WorkStep ==
  ASSUME IInv, EInv, PInv, Work, [Next]_vars
  PROVE  Later(Standing, Standing')
<1>1. Typed /\ Passed /\ Numbers /\ Pool
  BY DEF IInv, EInv, PInv
<1>2. Index' = Index
  BY RequestFixed
<1>3. ~ Kill
  <2> SUFFICES ASSUME Kill
               PROVE  FALSE
    OBVIOUS
  <2>1. pc # "down" /\ pc' = "down"
    BY DEF Kill
  <2>2. AppendLast => pc' # "down"
    BY <1>1, RecordedFacts DEF AppendLast
  <2>3. QED
    BY <2>1, <2>2 DEF Work, Coordinator, coordinator, StartProcess, Submit, SubmitEnds,
       CandidateEnds, Wait, CollectFailure, CollectSurplus, CollectTask, CollectEnds,
       IrrelevanceMade, MoreIrrelevance, IrrelevanceRejected, Return, Raise, AppendPart,
       AppendFails, Record
<1> SUFFICES ASSUME ~ Kill
             PROVE  Later(Standing, Standing')
  BY <1>3
<1>4. PICK x, y, a, b, e, f, c, d, t, u, p, q, m, n, v, w :
        /\ x = Standing /\ y = Standing'
        /\ a = StageOf(pc, recording.next) /\ b = StageOf(pc, recording.next)'
        /\ e = Cardinality(EndedEver) /\ f = Cardinality(EndedEver')
        /\ c = Cardinality(Collected) /\ d = Cardinality(Collected')
        /\ t = irrelevance.tried /\ u = irrelevance'.tried
        /\ p = PlaceOf(pc, recording.next, done) /\ q = PlaceOf(pc, recording.next, done)'
        /\ m = specIndex /\ n = specIndex'
        /\ v = BytesWritten /\ w = BytesWritten'
  OBVIOUS
<1>5. x = << a, e, c, t, p, m, v >> /\ y = << b, f, d, u, q, n, w >>
  BY <1>4 DEF Standing
<1>6. /\ x[1] = a /\ x[2] = e /\ x[3] = c /\ x[4] = t /\ x[5] = p /\ x[6] = m /\ x[7] = v
      /\ y[1] = b /\ y[2] = f /\ y[3] = d /\ y[4] = u /\ y[5] = q /\ y[6] = n /\ y[7] = w
  BY <1>5
<1>7. PICK z, k : z = recording.next /\ k = recording'.next
  OBVIOUS
<1>8. /\ a = StageOf(pc, z) /\ b = StageOf(pc', k)
      /\ p = PlaceOf(pc, z, done) /\ q = PlaceOf(pc', k, done')
  BY <1>4, <1>7 DEF StageOf, PlaceOf
<1>9. v = (IF written = "no" THEN 0 ELSE 1) /\ w = (IF written' = "no" THEN 0 ELSE 1)
  BY <1>4 DEF BytesWritten
<1>10. e \in Nat /\ c \in Nat /\ t \in Nat /\ m \in Nat
  BY <1>1, <1>2, <1>4, CountsMove DEF Typed, Passed
<1>11. /\ candidate' = candidate \/ Submit => f = e /\ d = c
       /\ (\E i \in Index : CandidateEnds(i)) => f = e + 1
       /\ (\E i \in Index : CollectFailure(i) \/ CollectSurplus(i) \/ CollectTask(i)) =>
            f = e /\ d = c + 1
  BY <1>1, <1>2, <1>4, CountsMove
<1> HIDE <1>4
<1> SUFFICES \/ a < b
             \/ a = b /\ e < f
             \/ a = b /\ e = f /\ c < d
             \/ a = b /\ e = f /\ c = d /\ t < u
             \/ /\ a = b /\ e = f /\ c = d /\ t = u
                /\ p < q \/ (p = q /\ (m < n \/ (m = n /\ v < w)))
  BY <1>4, <1>6, LaterAt
<1>12. CASE StartProcess
  <2>1. pc = "down" /\ pc' \in {"submit", "blocked"}
    BY <1>12 DEF StartProcess
  <2>2. a = 0 /\ b \in {1, 4}
    BY <1>8, <2>1 DEF StageOf
  <2>3. QED
    BY <2>2
<1>13. CASE Submit
  <2>1. /\ pc = "submit" /\ pc' = "submit" /\ n = m + 1 /\ u = t
    BY <1>4, <1>13 DEF Submit
  <2>2. a = 1 /\ b = 1 /\ p = 2 /\ q = 2
    BY <1>8, <2>1 DEF StageOf, PlaceOf
  <2>3. QED
    BY <1>10, <1>11, <1>13, <2>1, <2>2
<1>14. CASE SubmitEnds
  <2>1. pc = "submit" /\ pc' \in {"irrelevance", "wait"} /\ u = t /\ candidate' = candidate
    BY <1>4, <1>14 DEF SubmitEnds
  <2>2. a = 1 /\ p = 2 /\ (b = 2 \/ (b = 1 /\ q = 3))
    BY <1>8, <2>1 DEF StageOf, PlaceOf
  <2>3. QED
    BY <1>11, <2>1, <2>2
<1>15. ASSUME NEW i \in Index, CandidateEnds(i)
       PROVE  a = b /\ e < f
  <2>1. pc' = pc /\ k = z
    BY <1>7, <1>15 DEF CandidateEnds, coordinator
  <2>2. QED
    BY <1>8, <1>10, <1>11, <1>15, <2>1
<1>16. CASE Wait
  <2>1. pc = "wait" /\ pc' = "collect" /\ done' # {} /\ u = t /\ candidate' = candidate
    BY <1>4, <1>16 DEF Wait
  <2>2. a = 1 /\ b = 1 /\ p = 3 /\ q = 4
    BY <1>8, <2>1 DEF StageOf, PlaceOf
  <2>3. QED
    BY <1>11, <2>1, <2>2
<1>17. ASSUME NEW i \in Index, CollectFailure(i) \/ CollectSurplus(i) \/ CollectTask(i)
       PROVE  a < b \/ (a = b /\ e = f /\ c < d)
  <2>1. /\ pc = "collect"
        /\ pc' \in {"collect", "raising"} \/ (pc' = "record" /\ k = "collect")
    BY <1>7, <1>17 DEF CollectFailure, CollectSurplus, CollectTask, Record
  <2>2. a = 1 /\ b \in {1, 3}
    BY <1>8, <2>1 DEF StageOf
  <2>3. QED
    BY <1>10, <1>11, <1>17, <2>2
<1>18. CASE CollectEnds
  <2>1. pc = "collect" /\ done = {} /\ pc' = "submit" /\ u = t /\ candidate' = candidate
    BY <1>4, <1>18 DEF CollectEnds
  <2>2. a = 1 /\ b = 1 /\ p = 1 /\ q = 2
    BY <1>8, <2>1 DEF StageOf, PlaceOf
  <2>3. QED
    BY <1>11, <2>1, <2>2
<1>19. CASE IrrelevanceMade \/ IrrelevanceRejected
  <2>1. /\ pc = "irrelevance" /\ candidate' = candidate
        /\ pc' = "irrelevance" \/ (pc' = "record" /\ k # "collect")
        /\ \E made : Tried(made)
    BY <1>7, <1>19 DEF IrrelevanceMade, IrrelevanceRejected, MoreIrrelevance, Record
  <2>2. u = t + 1
    BY <1>4, <2>1 DEF Tried
  <2>3. a = 2 /\ b = 2
    BY <1>8, <2>1 DEF StageOf
  <2>4. QED
    BY <1>10, <1>11, <2>1, <2>2, <2>3
<1>20. CASE Return \/ Raise
  <2>1. pc \in {"irrelevance", "raising"} /\ pc' \in {"raised", "returned"}
    BY <1>20 DEF Return, Raise
  <2>2. a \in {2, 3} /\ b = 4
    BY <1>8, <2>1 DEF StageOf
  <2>3. QED
    BY <2>2
<1>21. CASE AppendPart
  <2>1. /\ pc' = pc /\ k = z /\ done' = done /\ u = t /\ n = m /\ candidate' = candidate
        /\ written = "no" /\ written' # "no"
    BY <1>4, <1>7, <1>21 DEF AppendPart, WritePart, coordinator
  <2>2. a = b /\ p = q /\ v = 0 /\ w = 1
    BY <1>8, <1>9, <2>1
  <2>3. QED
    BY <1>11, <2>1, <2>2
<1>22. CASE AppendLast
  <2>1. /\ pc = "record" /\ u = t /\ candidate' = candidate
        /\ z \in {"collect", "irrelevance", "batch", "raising"}
    BY <1>1, <1>4, <1>7, <1>22 DEF AppendLast, Typed
  <2>2. /\ z = "batch" => pc' = "record" /\ k = "raising"
        /\ z # "batch" => pc' = z
    BY <1>1, <1>7, <1>22, RecordedFacts DEF AppendLast
  <2>3. CASE z = "collect"
    <3>1. a = 1 /\ b = 1 /\ p = 0 /\ q \in {1, 4}
      BY <1>8, <2>1, <2>2, <2>3 DEF StageOf, PlaceOf
    <3>2. QED
      BY <1>11, <2>1, <3>1
  <2>4. CASE z = "batch"
    <3>1. a = 2 /\ b = 2 /\ p = 0 /\ q = 1
      BY <1>8, <2>1, <2>2, <2>4 DEF StageOf, PlaceOf
    <3>2. QED
      BY <1>11, <2>1, <3>1
  <2>5. CASE z = "irrelevance"
    <3>1. a = 2 /\ b = 2 /\ p = 0 /\ q = 1
      BY <1>8, <2>1, <2>2, <2>5 DEF StageOf, PlaceOf
    <3>2. QED
      BY <1>11, <2>1, <3>1
  <2>6. CASE z = "raising"
    <3>1. a = 2 /\ b = 3
      BY <1>8, <2>1, <2>2, <2>6 DEF StageOf
    <3>2. QED
      BY <3>1
  <2>7. QED
    BY <2>1, <2>3, <2>4, <2>5, <2>6
<1>23. CASE AppendFails
  <2>1. /\ pc = "record" /\ u = t /\ candidate' = candidate
        /\ z \in {"collect", "irrelevance", "batch", "raising"}
        /\ z \in {"irrelevance", "batch"} => pc' = "record" /\ k = "raising"
        /\ z \notin {"irrelevance", "batch"} => pc' = "raising"
    BY <1>1, <1>4, <1>7, <1>23 DEF AppendFails, Typed, Record
  <2>2. CASE z \in {"irrelevance", "batch"}
    <3>1. a = 2 /\ b = 2 /\ p = 0 /\ q = 1
      BY <1>8, <2>1, <2>2 DEF StageOf, PlaceOf
    <3>2. QED
      BY <1>11, <2>1, <3>1
  <2>3. CASE z \in {"collect", "raising"}
    <3>1. a \in {1, 2} /\ b = 3
      BY <1>8, <2>1, <2>3 DEF StageOf
    <3>2. QED
      BY <3>1
  <2>4. QED
    BY <2>1, <2>2, <2>3
<1>24. QED
  BY <1>12, <1>13, <1>14, <1>15, <1>16, <1>17, <1>18, <1>19, <1>20, <1>21, <1>22, <1>23
     DEF Work, Coordinator

THEOREM Advances == Spec => WorkAdvances
<1>1. IInv /\ PInv => Standing \in Standings
  BY StandingBounded
<1>2. ASSUME IInv, EInv, PInv, (Standing \in Standings)', [Next]_vars
      PROVE  [Work => Standing' \in Standings /\ Later(Standing, Standing')]_vars
  <2>1. Standings' = Standings
    BY <1>2, RequestFixed DEF Standings, IrrelevanceAttempts
  <2>2. Standing' \in Standings
    BY <1>2, <2>1
  <2>3. QED
    BY <1>2, <2>2, WorkStep
<1>3. QED
  BY Invariance, ExhaustionInvariance, PoolInvariance, <1>1, <1>2, PTL DEF Spec, WorkAdvances
=============================================================================
