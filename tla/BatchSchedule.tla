----------------------------- MODULE BatchSchedule -----------------------------
(***************************************************************************)
(* The candidates of a generation request: the schedule generate_many      *)
(* (generation/batch.py) computes from the quotas before its pool starts.  *)
(***************************************************************************)
EXTENDS Integers, Sequences, FiniteSets, SequencesExt

CONSTANTS
  Servers,             \* the domains of the request, in order
  Difficulties,        \* the difficulties, sorted
  Quota                \* difficulty_quotas_by_domain: [domain -> [difficulty -> tasks]]

(* The attempts of a stratum: its quota and, unless the budget is fixed,   *)
(* half of it again, at least two.                                         *)
Attempts(q, isFixed) ==
  IF q = 0 THEN 0 ELSE IF isFixed THEN q ELSE q + Max({(q + 1) \div 2, 2})

(* Pairs in the order of their first and then of their second component:   *)
(* one attempt of each, then a second of each that has one, and so on.     *)
Before(p, q) == p[1] < q[1] \/ (p[1] = q[1] /\ p[2] < q[2])
Interleaved(pairs) ==
  [i \in 1 .. Cardinality(pairs) |->
    CHOOSE p \in pairs : Cardinality({q \in pairs : Before(q, p)}) = i - 1]

DifficultySchedule(d, isFixed) ==
  LET n(j)  == Attempts(Quota[d][Difficulties[j]], isFixed)
      order == Interleaved(UNION {(1 .. n(j)) \X {j} : j \in DOMAIN Difficulties})
  IN  [i \in DOMAIN order |-> Difficulties[order[i][2]]]

(* Seeds are dealt domain by domain; then the candidates are interleaved.  *)
ScheduleOf(isFixed) ==
  LET schedule  == [s \in DOMAIN Servers |-> DifficultySchedule(Servers[s], isFixed)]
      offset(s) == FoldSeq(LAMBDA t, n : n + Len(schedule[t]), 0, [t \in 1 .. s - 1 |-> t])
      order     == Interleaved(UNION {(DOMAIN schedule[s]) \X {s} : s \in DOMAIN Servers})
  IN  [i \in DOMAIN order |->
        [domain     |-> Servers[order[i][2]],
         difficulty |-> schedule[order[i][2]][order[i][1]],
         seed       |-> offset(order[i][2]) + order[i][1] - 1]]
=============================================================================
