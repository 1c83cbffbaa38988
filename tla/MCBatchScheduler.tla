---------------------------- MODULE MCBatchScheduler ----------------------------
(* Finite instances of BatchScheduler: two domains and two difficulties.   *)
(* The requests' schedules are written out and compared with what          *)
(* BatchSchedule computes.                                                 *)
EXTENDS BatchScheduler, TLC

CONSTANTS bank, shop

MCDomains == {bank, shop}
MCLevels  == {"complete", "minimal"}
Quotas(bankComplete, bankMinimal, shopComplete) ==
  (bank :> ("complete" :> bankComplete @@ "minimal" :> bankMinimal)) @@
  (shop :> ("complete" :> shopComplete @@ "minimal" :> 0))
At(d, l, n) == [domain |-> d, difficulty |-> l, seed |-> n]

(* Two strata that share a failure limit.                                  *)
TwoStrata ==
  [quota |-> Quotas(1, 1, 0), irrelevant |-> 0, fixed |-> FALSE,
   schedule |-> << At(bank, "complete", 0), At(bank, "minimal", 1), At(bank, "complete", 2),
                   At(bank, "minimal", 3), At(bank, "complete", 4), At(bank, "minimal", 5) >>]
(* One stratum, and irrelevance tasks.                                     *)
OneStratum ==
  [quota |-> Quotas(1, 0, 0), irrelevant |-> 1, fixed |-> FALSE,
   schedule |-> << At(bank, "complete", 0), At(bank, "complete", 1), At(bank, "complete", 2) >>]
(* A fixed budget of attempts over two domains.                            *)
FixedBudget ==
  [quota |-> Quotas(1, 1, 1), irrelevant |-> 1, fixed |-> TRUE,
   schedule |-> << At(bank, "complete", 0), At(shop, "complete", 2), At(bank, "minimal", 1) >>]
MCRequests == {TwoStrata, OneStratum, FixedBudget}
MCMaxRuns  == [r \in MCRequests |-> IF r = TwoStrata THEN 1 ELSE 2]

Computed(q) == INSTANCE BatchSchedule WITH
  Servers <- << bank, shop >>, Difficulties <- << "complete", "minimal" >>, Quota <- q
ASSUME ScheduleComputed ==
  \A r \in MCRequests : r.schedule = Computed(r.quota)!ScheduleOf(r.fixed)

MCRecords == ({"normal", "irrelevance"} \X (0 .. 8) \X Reasons) \union {BatchRecord}
=============================================================================
