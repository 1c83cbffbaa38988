------------------------------ MODULE Payments ------------------------------
(* The state of one session of the payments server: invoices, payments,     *)
(* refunds and disputes, and the five tools that change them.  A server     *)
(* serves its calls one at a time and restores the session's state when a   *)
(* handler raises (server_base._call_tool), so a call either takes one of   *)
(* the steps below or changes nothing.                                      *)
(*                                                                          *)
(* Amounts are in mills, tenths of a cent: the handlers round to cents and  *)
(* compare with a tolerance of one cent, so what happens below a cent       *)
(* matters.  The amounts are floats; where the exact values are equal, what *)
(* a float comparison answers depends on their binary forms, and both       *)
(* answers are possible (DiffersByMoreThanACent, Exceeds, RoundToCents).    *)
(* Webhooks are not modelled: they share no state with the rest.            *)
EXTENDS Integers, FiniteSets, FiniteSetsExt, Functions

CONSTANTS InvoiceIds,   \* names invoices may have; the handlers number them afresh
          PaymentIds, RefundIds, DisputeIds,
          Seeded,       \* the invoices of the seeded state, each with at most one payment
          Prices,       \* invoice amounts of the seeded state and of create_invoice
          Amounts,      \* amounts given to pay_invoice and refund_invoice
          NoPayment,    \* an invoice's payment_id when none is linked
          SeedPayment   \* the name of the payment seeded for an invoice

ASSUME PaymentsAssumption ==
  /\ Seeded \subseteq InvoiceIds
  /\ Prices \subseteq Nat \ {0}
  /\ Amounts \subseteq Nat \ {0}
  /\ NoPayment \notin PaymentIds
  /\ SeedPayment \in [Seeded -> PaymentIds]
  /\ \A i, j \in Seeded : SeedPayment[i] = SeedPayment[j] => i = j

VARIABLES invoices, payments, refunds, disputes

vars == << invoices, payments, refunds, disputes >>

Cent == 10

Statuses == {"pending", "overdue", "paid", "partially_refunded", "refunded", "disputed"}

Invoice == [amount : Nat, status : Statuses,
            payment_id : PaymentIds \cup {NoPayment},
            refunded : Nat,           \* total_refunded, what the server has added up
            has_refund : BOOLEAN]     \* refund_id is set
Payment == [invoice : InvoiceIds, amount : Nat,
            status : {"pending", "settled", "cancelled"}]
Refund == [invoice : InvoiceIds, amount : Nat]

PartialFunction(f, S, T) == DOMAIN f \subseteq S /\ f \in [DOMAIN f -> T]
Extend(f, k, v) == [x \in DOMAIN f \cup {k} |-> IF x = k THEN v ELSE f[x]]
-----------------------------------------------------------------------------
(* What the seeder can put an invoice in: unpaid, with a payment that has   *)
(* not settled, paid, or paid and refunded by a quarter.                    *)
Kinds == {"pending", "overdue", "pending_payment", "paid", "partially_refunded"}

SeededInvoice(i, kind, price) ==
  [amount |-> price,
   status |-> IF kind = "pending_payment" THEN "pending" ELSE kind,
   payment_id |-> IF kind \in {"pending", "overdue"} THEN NoPayment ELSE SeedPayment[i],
   refunded |-> IF kind = "partially_refunded" THEN price \div 4 ELSE 0,
   has_refund |-> kind = "partially_refunded"]

Init ==
  \E kind \in [Seeded -> Kinds], price \in [Seeded -> Prices], ref \in [Seeded -> RefundIds] :
    LET withPayment == {i \in Seeded : kind[i] \notin {"pending", "overdue"}}
        withRefund == {i \in Seeded : kind[i] = "partially_refunded"}
    IN /\ \A i, j \in withRefund : ref[i] = ref[j] => i = j
       /\ \A i \in withRefund : price[i] % (4 * Cent) = 0
       /\ invoices = [i \in Seeded |-> SeededInvoice(i, kind[i], price[i])]
       /\ payments = [p \in {SeedPayment[i] : i \in withPayment} |->
            LET i == CHOOSE j \in withPayment : SeedPayment[j] = p
            IN [invoice |-> i, amount |-> price[i],
                status |-> IF kind[i] = "pending_payment" THEN "pending" ELSE "settled"]]
       /\ refunds = [r \in {ref[i] : i \in withRefund} |->
            LET i == CHOOSE j \in withRefund : ref[j] = r
            IN [invoice |-> i, amount |-> price[i] \div 4]]
       /\ disputes = << >>
-----------------------------------------------------------------------------
(* Float arithmetic on amounts, as the set of what it may yield.            *)
Distance(a, b) == IF a >= b THEN a - b ELSE b - a

\* abs(a - b) > 0.01
DiffersByMoreThanACent(a, b) ==
  IF Distance(a, b) = Cent THEN BOOLEAN ELSE {Distance(a, b) > Cent}

\* amount + total > limit; exact when the total is zero
Exceeds(amount, total, limit) ==
  IF total # 0 /\ amount + total = limit THEN BOOLEAN ELSE {amount + total > limit}

\* round(x, 2): a nearest multiple of a cent, either one of a tie
RoundToCents(x) ==
  {c \in {(x \div Cent) * Cent, (x \div Cent) * Cent + Cent} : 2 * Distance(x, c) <= Cent}

OpenDispute(i) == \E d \in DOMAIN disputes : disputes[d] = i
-----------------------------------------------------------------------------
(* The tools.                                                               *)
create_invoice(i, amount) ==
  /\ i \in InvoiceIds \ DOMAIN invoices
  /\ amount > 0
  /\ invoices' = Extend(invoices, i,
       [amount |-> amount, status |-> "pending", payment_id |-> NoPayment,
        refunded |-> 0, has_refund |-> FALSE])
  /\ UNCHANGED << payments, refunds, disputes >>

\* the dispute not looked for, the status taken for the whole story
PayableUnderDispute(i) ==
  /\ invoices[i].status \in {"pending", "overdue"}
  /\ invoices[i].payment_id = NoPayment

\* the linked payment not looked at
PayableTwice(i) ==
  /\ invoices[i].status \in {"pending", "overdue"}
  /\ ~OpenDispute(i)

Payable(i) ==
  /\ invoices[i].status \in {"pending", "overdue"}
  /\ ~OpenDispute(i)
  /\ invoices[i].payment_id = NoPayment

pay_invoice(i, amount, p) ==
  /\ i \in DOMAIN invoices /\ Payable(i)
  /\ FALSE \in DiffersByMoreThanACent(amount, invoices[i].amount)
  /\ p \in PaymentIds \ DOMAIN payments
  /\ invoices' = [invoices EXCEPT ![i].status = "paid", ![i].payment_id = p]
  /\ payments' = Extend(payments, p,
       [invoice |-> i, amount |-> amount, status |-> "settled"])
  /\ UNCHANGED << refunds, disputes >>

Refundable(i) ==
  /\ invoices[i].status \in {"paid", "partially_refunded"}
  /\ invoices[i].payment_id \in DOMAIN payments
  /\ payments[invoices[i].payment_id].status = "settled"

\* a bound forgotten: each refund is held against the invoice alone
WithinRefundableEach(i, amount) == amount <= invoices[i].amount

WithinRefundable(i, amount) ==
  /\ amount <= invoices[i].amount
  /\ FALSE \in Exceeds(amount, invoices[i].refunded, invoices[i].amount)

refund_invoice(i, amount, r) ==
  /\ i \in DOMAIN invoices /\ Refundable(i)
  /\ WithinRefundable(i, amount)
  /\ r \in RefundIds \ DOMAIN refunds
  /\ \E total \in RoundToCents(invoices[i].refunded + amount) :
       \E partial \in DiffersByMoreThanACent(total, invoices[i].amount) :
         invoices' = [invoices EXCEPT
           ![i].status = IF partial THEN "partially_refunded" ELSE "refunded",
           ![i].has_refund = TRUE, ![i].refunded = total]
  /\ refunds' = Extend(refunds, r, [invoice |-> i, amount |-> amount])
  /\ UNCHANGED << payments, disputes >>

\* the status test reversed by a slip: any payment not yet cancelled
CancellableNotCancelled(p) ==
  /\ payments[p].status # "cancelled"
  /\ ~invoices[payments[p].invoice].has_refund

Cancellable(p) ==
  /\ payments[p].status = "pending"
  /\ ~invoices[payments[p].invoice].has_refund

cancel_payment(p) ==
  /\ p \in DOMAIN payments /\ Cancellable(p)
  /\ payments' = [payments EXCEPT ![p].status = "cancelled"]
  /\ invoices' = [invoices EXCEPT ![payments[p].invoice].status = "pending",
                                  ![payments[p].invoice].payment_id = NoPayment]
  /\ UNCHANGED << refunds, disputes >>

Disputable(i) == invoices[i].status \in {"paid", "pending"}

dispute_invoice(i, d) ==
  /\ i \in DOMAIN invoices /\ Disputable(i)
  /\ d \in DisputeIds \ DOMAIN disputes
  /\ disputes' = Extend(disputes, d, i)
  /\ invoices' = [invoices EXCEPT ![i].status = "disputed"]
  /\ UNCHANGED << payments, refunds >>

Next ==
  \/ \E i \in InvoiceIds, amount \in Prices : create_invoice(i, amount)
  \/ \E i \in InvoiceIds, amount \in Amounts, p \in PaymentIds : pay_invoice(i, amount, p)
  \/ \E i \in InvoiceIds, amount \in Amounts, r \in RefundIds : refund_invoice(i, amount, r)
  \/ \E p \in PaymentIds : cancel_payment(p)
  \/ \E i \in InvoiceIds, d \in DisputeIds : dispute_invoice(i, d)

Spec == Init /\ [][Next]_vars
-----------------------------------------------------------------------------
(* Properties.                                                              *)
RefundsOf(i) == {r \in DOMAIN refunds : refunds[r].invoice = i}
RefundTotal(i) == MapThenSumSet(LAMBDA r : refunds[r].amount, RefundsOf(i))
SettledPaymentsOf(i) ==
  {p \in DOMAIN payments : payments[p].invoice = i /\ payments[p].status = "settled"}

(* Every record has its shape, and every payment, refund and dispute names  *)
(* an invoice that exists (cancel_payment reads it without a test).         *)
TypeOK ==
  /\ PartialFunction(invoices, InvoiceIds, Invoice)
  /\ PartialFunction(payments, PaymentIds, Payment)
  /\ PartialFunction(refunds, RefundIds, Refund)
  /\ PartialFunction(disputes, DisputeIds, InvoiceIds)
  /\ \A p \in DOMAIN payments : payments[p].invoice \in DOMAIN invoices
  /\ \A r \in DOMAIN refunds : refunds[r].invoice \in DOMAIN invoices
  /\ \A d \in DOMAIN disputes : disputes[d] \in DOMAIN invoices

(* The seeder's rule "Invoice and payment lifecycle must agree", kept by    *)
(* every tool: an invoice that counts as paid or refunded is linked to a    *)
(* settled payment of its own, and a payment that has not settled is the    *)
(* one its unpaid invoice is linked to, so cancelling it drops no other.    *)
LifecyclesAgree ==
  /\ \A i \in DOMAIN invoices :
       invoices[i].status \in {"paid", "partially_refunded", "refunded"} =>
         invoices[i].payment_id \in SettledPaymentsOf(i)
  /\ \A p \in DOMAIN payments :
       payments[p].status = "pending" =>
         /\ invoices[payments[p].invoice].payment_id = p
         /\ invoices[payments[p].invoice].status \in {"pending", "disputed"}

(* No double payment, over any sequence of pay, cancel and dispute calls:   *)
(* at most one payment of an invoice is pending or settled.                 *)
NoDoublePayment ==
  \A p, q \in DOMAIN payments :
    /\ payments[p].invoice = payments[q].invoice
    /\ payments[p].status # "cancelled" /\ payments[q].status # "cancelled"
    => p = q

(* What refund_invoice's comment promises, "Track cumulative refunds to     *)
(* prevent over-refunding": an invoice's refunds never add up to more than  *)
(* its amount.  It holds when every amount is a whole number of cents.      *)
RefundsWithinInvoice ==
  \A i \in DOMAIN invoices : RefundTotal(i) <= invoices[i].amount

(* While a dispute on an invoice is open no money moves on it: it gains no  *)
(* settled payment and no refund.  pay_invoice tests for a dispute, but     *)
(* refund_invoice only tests the status, which cancel_payment sets back to  *)
(* "pending" under an open dispute.                                         *)
DisputeFreezesMoney ==
  [][\A i \in DOMAIN invoices : OpenDispute(i) =>
       /\ SettledPaymentsOf(i)' = SettledPaymentsOf(i)
       /\ RefundsOf(i)' = RefundsOf(i)]_vars

(* A settled payment is final: it stays settled and stays the payment its   *)
(* invoice is linked to, whatever is disputed, cancelled or refunded later. *)
SettledIsFinal ==
  [][\A p \in DOMAIN payments : payments[p].status = "settled" =>
       /\ payments'[p] = payments[p]
       /\ invoices'[payments[p].invoice].payment_id =
            invoices[payments[p].invoice].payment_id]_vars
=============================================================================
