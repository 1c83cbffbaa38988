------------------------------ MODULE MCPayments ------------------------------
(* A finite instance of Payments: one seeded invoice and one created later, *)
(* up to three payments, three refunds and two disputes.                    *)
EXTENDS Payments, TLC

CONSTANTS p1

MCSeedPayment == [i \in Seeded |-> p1]
MCSymmetry ==
  Permutations(RefundIds) \cup Permutations(DisputeIds) \cup Permutations(PaymentIds \ {p1})
=============================================================================
