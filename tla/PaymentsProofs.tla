--------------------------- MODULE PaymentsProofs ---------------------------
(***************************************************************************)
(* Proofs about the payments server, for every set of identifiers, prices  *)
(* and amounts, and however often the tools are called; amounts are whole  *)
(* cents only where cumulative refunds are concerned (WholeCents).         *)
(*                                                                         *)
(* NoDoublePayment and the action properties follow from the links between *)
(* an invoice and its payments, which have to be stated in both directions *)
(* to be inductive: the payment an invoice is linked to is its own and not *)
(* cancelled (LinkIsLive), and a payment not cancelled is the one its      *)
(* invoice is linked to (LiveIsLinked).  DisputesHold is what keeps an     *)
(* invoice with an open dispute out of the statuses refund_invoice accepts.*)
(***************************************************************************)
EXTENDS Payments, FiniteSetTheorems, TLAPS

LinkIsLive ==
  \A i \in DOMAIN invoices : invoices[i].payment_id # NoPayment =>
    /\ invoices[i].payment_id \in DOMAIN payments
    /\ payments[invoices[i].payment_id].invoice = i
    /\ payments[invoices[i].payment_id].status # "cancelled"

LiveIsLinked ==
  \A p \in DOMAIN payments : payments[p].status # "cancelled" =>
    invoices[payments[p].invoice].payment_id = p

DisputesHold ==
  \A i \in DOMAIN invoices : OpenDispute(i) => invoices[i].status \in {"pending", "disputed"}

IInv ==
  /\ TypeOK
  /\ LinkIsLive
  /\ LiveIsLinked
  /\ LifecyclesAgree
  /\ DisputesHold

USE DEF Cent

(* What round(x, 2) yields is an amount again.                             *)
LEMMA RoundedIsAmount ==
  ASSUME NEW x \in Nat, NEW c \in RoundToCents(x)
  PROVE  c \in Nat
<1>1. x \div 10 \in Nat
  OBVIOUS
<1>2. QED
  BY <1>1 DEF RoundToCents

(* The seeder's invoices and payments agree from the start.                *)
LEMMA InitInv == Init => IInv
<1> SUFFICES ASSUME Init
             PROVE  IInv
  OBVIOUS
<1> USE PaymentsAssumption
<1>1. PICK kind \in [Seeded -> Kinds], price \in [Seeded -> Prices], ref \in [Seeded -> RefundIds] :
        LET withPayment == {i \in Seeded : kind[i] \notin {"pending", "overdue"}}
            withRefund == {i \in Seeded : kind[i] = "partially_refunded"}
        IN /\ \A i, j \in withRefund : ref[i] = ref[j] => i = j
           /\ \A i \in withRefund : price[i] % (4 * Cent) = 0
           /\ invoices = [i \in Seeded |-> SeededInvoice(i, kind[i], price[i])]
           /\ payments = [p \in {SeedPayment[i] : i \in withPayment} |->
                LET i == CHOOSE j \in withPayment : SeedPayment[j] = p
                IN [invoice |-> i, amount |-> price[i],
                    status |-> IF kind[i] = "pending_payment" THEN "pending" ELSE "settled"]]
           /\ refunds = [r \in {ref[i] : i \in withRefund} |->
                LET i == CHOOSE j \in withRefund : ref[j] = r
                IN [invoice |-> i, amount |-> price[i] \div 4]]
           /\ disputes = << >>
  BY DEF Init
<1> DEFINE withPayment == {i \in Seeded : kind[i] \notin {"pending", "overdue"}}
           withRefund == {i \in Seeded : kind[i] = "partially_refunded"}
<1>2. \A i \in Seeded : price[i] \in Nat /\ price[i] \div 4 \in Nat
  <2>1. \A i \in Seeded : price[i] \in Nat
    OBVIOUS
  <2>2. QED
    BY <2>1
<1>3. /\ DOMAIN invoices = Seeded
      /\ \A i \in Seeded : invoices[i] = SeededInvoice(i, kind[i], price[i])
  BY <1>1
<1>4. \A i \in withPayment :
        /\ SeedPayment[i] \in DOMAIN payments
        /\ payments[SeedPayment[i]] =
             [invoice |-> i, amount |-> price[i],
              status |-> IF kind[i] = "pending_payment" THEN "pending" ELSE "settled"]
  <2> SUFFICES ASSUME NEW i \in withPayment
               PROVE  /\ SeedPayment[i] \in DOMAIN payments
                      /\ payments[SeedPayment[i]] =
                           [invoice |-> i, amount |-> price[i],
                            status |-> IF kind[i] = "pending_payment" THEN "pending" ELSE "settled"]
    OBVIOUS
  <2>1. (CHOOSE j \in withPayment : SeedPayment[j] = SeedPayment[i]) = i
    OBVIOUS
  <2>2. QED
    BY <1>1, <2>1
<1>4a. ASSUME NEW i \in Seeded, kind[i] \notin {"pending", "overdue"}
       PROVE  /\ SeedPayment[i] \in DOMAIN payments
              /\ payments[SeedPayment[i]].invoice = i
              /\ payments[SeedPayment[i]].status =
                   IF kind[i] = "pending_payment" THEN "pending" ELSE "settled"
  <2>1. i \in withPayment
    BY <1>4a
  <2>2. payments[SeedPayment[i]] =
          [invoice |-> i, amount |-> price[i],
           status |-> IF kind[i] = "pending_payment" THEN "pending" ELSE "settled"]
    BY <1>4, <2>1
  <2>3. QED
    BY <1>4, <2>1, <2>2
<1>5. \A p \in DOMAIN payments : \E i \in withPayment : p = SeedPayment[i]
  BY <1>1
<1>6. \A r \in DOMAIN refunds : r \in RefundIds /\ refunds[r] \in Refund
  <2> SUFFICES ASSUME NEW r \in DOMAIN refunds
               PROVE  r \in RefundIds /\ refunds[r] \in Refund
    OBVIOUS
  <2>1. PICK i \in withRefund : r = ref[i]
    BY <1>1
  <2>2. (CHOOSE j \in withRefund : ref[j] = r) = i
    BY <1>1, <2>1
  <2>3. refunds[r] = [invoice |-> i, amount |-> price[i] \div 4]
    BY <1>1, <2>1, <2>2
  <2>4. QED
    BY <1>2, <2>1, <2>3 DEF Refund
<1>7. \A r \in DOMAIN refunds : refunds[r].invoice \in Seeded
  <2> SUFFICES ASSUME NEW r \in DOMAIN refunds
               PROVE  refunds[r].invoice \in Seeded
    OBVIOUS
  <2>1. PICK i \in withRefund : r = ref[i]
    BY <1>1
  <2>2. (CHOOSE j \in withRefund : ref[j] = r) = i
    BY <1>1, <2>1
  <2>3. QED
    BY <1>1, <2>1, <2>2
<1>8. ASSUME NEW i \in Seeded
      PROVE  invoices[i] \in Invoice
  <2>1. kind[i] \in Kinds /\ SeedPayment[i] \in PaymentIds
    OBVIOUS
  <2>2. (kind[i] = "partially_refunded") \in BOOLEAN
    OBVIOUS
  <2>3. invoices[i] = SeededInvoice(i, kind[i], price[i])
    BY <1>3
  <2>4. QED
    BY <1>2, <2>1, <2>2, <2>3 DEF SeededInvoice, Invoice, Statuses, Kinds
<1>9. ASSUME NEW p \in DOMAIN payments
      PROVE  p \in PaymentIds /\ payments[p] \in Payment /\ payments[p].invoice \in Seeded
  <2>1. PICK i \in withPayment : p = SeedPayment[i]
    BY <1>5
  <2>2. payments[p] = [invoice |-> i, amount |-> price[i],
                       status |-> IF kind[i] = "pending_payment" THEN "pending" ELSE "settled"]
    BY <1>4, <2>1
  <2>3. QED
    BY <1>2, <2>1, <2>2 DEF Payment
<1>10. TypeOK
  <2>1. invoices \in [DOMAIN invoices -> Invoice]
    BY <1>1, <1>3, <1>8
  <2>2. payments \in [DOMAIN payments -> Payment]
    BY <1>1, <1>9
  <2>3. refunds \in [DOMAIN refunds -> Refund]
    BY <1>1, <1>6
  <2>4. disputes \in [DOMAIN disputes -> InvoiceIds] /\ DOMAIN disputes = {}
    BY <1>1
  <2>5. \A p \in DOMAIN payments : payments[p].invoice \in DOMAIN invoices
    BY <1>3, <1>9
  <2>6. QED
    BY <2>1, <2>2, <2>3, <2>4, <2>5, <1>3, <1>6, <1>7, <1>9 DEF TypeOK, PartialFunction
<1>11. LinkIsLive
  <2> SUFFICES ASSUME NEW i \in Seeded, invoices[i].payment_id # NoPayment
               PROVE  /\ invoices[i].payment_id \in DOMAIN payments
                      /\ payments[invoices[i].payment_id].invoice = i
                      /\ payments[invoices[i].payment_id].status # "cancelled"
    BY <1>3 DEF LinkIsLive
  <2>1. invoices[i].payment_id =
          IF kind[i] \in {"pending", "overdue"} THEN NoPayment ELSE SeedPayment[i]
    BY <1>3 DEF SeededInvoice
  <2>2. QED
    BY <1>4a, <2>1
<1>12. LiveIsLinked /\ LifecyclesAgree
  <2>1. ASSUME NEW p \in DOMAIN payments
        PROVE  /\ invoices[payments[p].invoice].payment_id = p
               /\ payments[p].status = "pending" =>
                    invoices[payments[p].invoice].status \in {"pending", "disputed"}
    <3>1. PICK i \in withPayment : p = SeedPayment[i]
      BY <1>5
    <3>2. payments[p] = [invoice |-> i, amount |-> price[i],
                         status |-> IF kind[i] = "pending_payment" THEN "pending" ELSE "settled"]
      BY <1>4, <3>1
    <3>3. /\ invoices[i].payment_id = p
          /\ invoices[i].status = IF kind[i] = "pending_payment" THEN "pending" ELSE kind[i]
      BY <1>3, <3>1 DEF SeededInvoice
    <3>4. QED
      BY <3>2, <3>3
  <2>2. ASSUME NEW i \in Seeded,
               invoices[i].status \in {"paid", "partially_refunded", "refunded"}
        PROVE  invoices[i].payment_id \in SettledPaymentsOf(i)
    <3>1. /\ invoices[i].status = IF kind[i] = "pending_payment" THEN "pending" ELSE kind[i]
          /\ invoices[i].payment_id =
               IF kind[i] \in {"pending", "overdue"} THEN NoPayment ELSE SeedPayment[i]
      BY <1>3 DEF SeededInvoice
    <3>2. kind[i] \in {"paid", "partially_refunded"}
      BY <2>2, <3>1 DEF Kinds
    <3>3. QED
      BY <1>4a, <3>1, <3>2 DEF SettledPaymentsOf
  <2>3. QED
    BY <1>3, <2>1, <2>2 DEF LiveIsLinked, LifecyclesAgree
<1>13. DisputesHold
  BY <1>1 DEF DisputesHold, OpenDispute
<1>14. QED
  BY <1>10, <1>11, <1>12, <1>13 DEF IInv

(* One lemma per tool: a call that takes effect keeps the invariant.  Each *)
(* begins with what the call leaves of the other records.                  *)
LEMMA CreateInvoiceKeepsInv ==
  ASSUME IInv, NEW i \in InvoiceIds, NEW amount \in Prices, create_invoice(i, amount)
  PROVE  IInv'
<1> USE PaymentsAssumption
<1> DEFINE new == [amount |-> amount, status |-> "pending", payment_id |-> NoPayment,
                   refunded |-> 0, has_refund |-> FALSE]
<1>1. /\ DOMAIN invoices' = DOMAIN invoices \cup {i}
      /\ i \notin DOMAIN invoices
      /\ invoices' = [j \in DOMAIN invoices \cup {i} |-> IF j = i THEN new ELSE invoices[j]]
      /\ payments' = payments /\ refunds' = refunds /\ disputes' = disputes
  BY DEF create_invoice, Extend
<1>2. new \in Invoice
  BY DEF Invoice, Statuses
<1>3. \A j \in DOMAIN invoices : invoices'[j] = invoices[j]
  BY <1>1
<1>4. invoices'[i].payment_id = NoPayment /\ invoices'[i].status = "pending"
  BY <1>1
<1> HIDE DEF new
<1>5. TypeOK'
  <2>1. invoices' \in [DOMAIN invoices' -> Invoice]
    BY <1>1, <1>2 DEF IInv, TypeOK, PartialFunction
  <2>2. QED
    BY <1>1, <2>1 DEF IInv, TypeOK, PartialFunction
<1>6. LinkIsLive'
  BY <1>1, <1>3, <1>4 DEF IInv, LinkIsLive
<1>7. LiveIsLinked'
  BY <1>1, <1>3 DEF IInv, TypeOK, LiveIsLinked
<1>8. LifecyclesAgree'
  <2>1. \A j \in DOMAIN invoices : SettledPaymentsOf(j)' = SettledPaymentsOf(j)
    BY <1>1 DEF SettledPaymentsOf
  <2>2. QED
    BY <1>1, <1>3, <1>4, <2>1 DEF IInv, TypeOK, LifecyclesAgree
<1>9. DisputesHold'
  BY <1>1, <1>3, <1>4 DEF IInv, TypeOK, DisputesHold, OpenDispute
<1>10. QED
  BY <1>5, <1>6, <1>7, <1>8, <1>9 DEF IInv

LEMMA PayInvoiceKeepsInv ==
  ASSUME IInv, NEW i \in InvoiceIds, NEW amount \in Amounts, NEW p \in PaymentIds,
         pay_invoice(i, amount, p)
  PROVE  IInv'
<1> USE PaymentsAssumption
<1> DEFINE new == [invoice |-> i, amount |-> amount, status |-> "settled"]
<1>1. /\ i \in DOMAIN invoices /\ p \notin DOMAIN payments
      /\ invoices[i].payment_id = NoPayment /\ ~OpenDispute(i)
      /\ invoices' = [invoices EXCEPT ![i].status = "paid", ![i].payment_id = p]
      /\ payments' = [x \in DOMAIN payments \cup {p} |-> IF x = p THEN new ELSE payments[x]]
      /\ refunds' = refunds /\ disputes' = disputes
  BY DEF pay_invoice, Payable, Extend
<1>2. /\ DOMAIN invoices' = DOMAIN invoices
      /\ \A j \in DOMAIN invoices : j # i => invoices'[j] = invoices[j]
      /\ invoices'[i] = [invoices[i] EXCEPT !.status = "paid", !.payment_id = p]
  BY <1>1 DEF IInv, TypeOK, PartialFunction
<1>3. invoices[i] \in Invoice
  BY <1>1 DEF IInv, TypeOK, PartialFunction
<1>4. /\ invoices'[i] \in Invoice
      /\ invoices'[i].status = "paid" /\ invoices'[i].payment_id = p
  BY <1>2, <1>3 DEF Invoice, Statuses
<1>5. /\ DOMAIN payments' = DOMAIN payments \cup {p}
      /\ payments'[p] = new
      /\ \A q \in DOMAIN payments : payments'[q] = payments[q]
  BY <1>1
<1>6. new \in Payment /\ new.invoice = i /\ new.status = "settled"
  BY DEF Payment
<1> HIDE DEF new
<1>7. \A q \in DOMAIN payments :
        payments[q].invoice = i => payments[q].status = "cancelled"
  BY <1>1 DEF IInv, LiveIsLinked, TypeOK, PartialFunction
<1>8. TypeOK'
  <2>1. invoices' \in [DOMAIN invoices' -> Invoice]
    <3>1. \A j \in DOMAIN invoices : invoices'[j] \in Invoice
      BY <1>2, <1>4 DEF IInv, TypeOK, PartialFunction
    <3>2. QED
      BY <1>1, <1>2, <3>1
  <2>2. payments' \in [DOMAIN payments' -> Payment]
    BY <1>1, <1>6 DEF IInv, TypeOK, PartialFunction
  <2>3. QED
    BY <1>1, <1>2, <1>5, <1>6, <2>1, <2>2 DEF IInv, TypeOK, PartialFunction
<1>9. LinkIsLive'
  BY <1>1, <1>2, <1>4, <1>5, <1>6 DEF IInv, LinkIsLive
<1>10. LiveIsLinked'
  <2> SUFFICES ASSUME NEW q \in DOMAIN payments', payments'[q].status # "cancelled"
               PROVE  invoices'[payments'[q].invoice].payment_id = q
    BY DEF LiveIsLinked
  <2>1. CASE q = p
    BY <1>4, <1>5, <1>6, <2>1
  <2>2. CASE q # p
    <3>1. q \in DOMAIN payments /\ payments'[q] = payments[q] /\ payments[q].invoice # i
      BY <1>5, <1>7, <2>2
    <3>2. QED
      BY <1>2, <3>1 DEF IInv, TypeOK, LiveIsLinked
  <2>3. QED
    BY <2>1, <2>2
<1>11. LifecyclesAgree'
  <2>1. p \in SettledPaymentsOf(i)'
    BY <1>5, <1>6 DEF SettledPaymentsOf
  <2>2. \A q \in DOMAIN payments' : payments'[q].status = "pending" =>
          /\ q \in DOMAIN payments /\ payments'[q] = payments[q] /\ payments[q].invoice # i
    BY <1>5, <1>6, <1>7
  <2>3. ASSUME NEW j \in DOMAIN invoices',
               invoices'[j].status \in {"paid", "partially_refunded", "refunded"}
        PROVE  invoices'[j].payment_id \in SettledPaymentsOf(j)'
    <3>1. CASE j = i
      BY <1>4, <2>1, <3>1
    <3>2. CASE j # i
      <4>1. invoices'[j] = invoices[j] /\ j \in DOMAIN invoices
        BY <1>2, <2>3, <3>2
      <4>2. invoices[j].payment_id \in SettledPaymentsOf(j)
        BY <2>3, <4>1 DEF IInv, LifecyclesAgree
      <4>3. QED
        BY <1>5, <4>1, <4>2 DEF SettledPaymentsOf
    <3>3. QED
      BY <3>1, <3>2
  <2>4. ASSUME NEW q \in DOMAIN payments', payments'[q].status = "pending"
        PROVE  /\ invoices'[payments'[q].invoice].payment_id = q
               /\ invoices'[payments'[q].invoice].status \in {"pending", "disputed"}
    BY <1>2, <2>2, <2>4 DEF IInv, TypeOK, LifecyclesAgree
  <2>5. QED
    BY <2>3, <2>4 DEF LifecyclesAgree
<1>12. DisputesHold'
  BY <1>1, <1>2 DEF IInv, DisputesHold, OpenDispute
<1>13. QED
  BY <1>8, <1>9, <1>10, <1>11, <1>12 DEF IInv

LEMMA RefundInvoiceKeepsInv ==
  ASSUME IInv, NEW i \in InvoiceIds, NEW amount \in Amounts, NEW r \in RefundIds,
         refund_invoice(i, amount, r)
  PROVE  IInv'
<1> USE PaymentsAssumption
<1>1. PICK total \in RoundToCents(invoices[i].refunded + amount), partial \in BOOLEAN :
        invoices' = [invoices EXCEPT
          ![i].status = IF partial THEN "partially_refunded" ELSE "refunded",
          ![i].has_refund = TRUE, ![i].refunded = total]
  BY DEF refund_invoice, DiffersByMoreThanACent
<1>2. /\ i \in DOMAIN invoices /\ r \notin DOMAIN refunds
      /\ invoices[i].status \in {"paid", "partially_refunded"}
      /\ refunds' = [x \in DOMAIN refunds \cup {r} |->
                       IF x = r THEN [invoice |-> i, amount |-> amount] ELSE refunds[x]]
      /\ payments' = payments /\ disputes' = disputes
  BY DEF refund_invoice, Refundable, Extend
<1>3. invoices[i] \in Invoice
  BY <1>2 DEF IInv, TypeOK, PartialFunction
<1>4. total \in Nat
  <2>1. invoices[i].refunded + amount \in Nat
    BY <1>3 DEF Invoice
  <2>2. QED
    BY <2>1, RoundedIsAmount
<1>5. /\ DOMAIN invoices' = DOMAIN invoices
      /\ \A j \in DOMAIN invoices : j # i => invoices'[j] = invoices[j]
      /\ invoices'[i] = [invoices[i] EXCEPT
           !.status = IF partial THEN "partially_refunded" ELSE "refunded",
           !.has_refund = TRUE, !.refunded = total]
  BY <1>1, <1>2 DEF IInv, TypeOK, PartialFunction
<1>6. /\ invoices'[i] \in Invoice
      /\ invoices'[i].status \in {"partially_refunded", "refunded"}
      /\ invoices'[i].payment_id = invoices[i].payment_id
  BY <1>3, <1>4, <1>5 DEF Invoice, Statuses
<1>7. ~OpenDispute(i)
  BY <1>2 DEF IInv, DisputesHold
<1>8. TypeOK'
  <2>1. invoices' \in [DOMAIN invoices' -> Invoice]
    <3>1. \A j \in DOMAIN invoices : invoices'[j] \in Invoice
      BY <1>5, <1>6 DEF IInv, TypeOK, PartialFunction
    <3>2. QED
      BY <1>1, <1>5, <3>1
  <2>2. refunds' \in [DOMAIN refunds' -> Refund]
    <3>1. [invoice |-> i, amount |-> amount] \in Refund
      BY DEF Refund
    <3>2. QED
      BY <1>2, <3>1 DEF IInv, TypeOK, PartialFunction
  <2>3. \A x \in DOMAIN refunds' : x \in RefundIds /\ refunds'[x].invoice \in DOMAIN invoices
    BY <1>2 DEF IInv, TypeOK, PartialFunction
  <2>4. QED
    BY <1>2, <1>5, <2>1, <2>2, <2>3 DEF IInv, TypeOK, PartialFunction
<1>9. LinkIsLive'
  <2> SUFFICES ASSUME NEW j \in DOMAIN invoices, invoices'[j].payment_id # NoPayment
               PROVE  /\ invoices'[j].payment_id \in DOMAIN payments
                      /\ payments[invoices'[j].payment_id].invoice = j
                      /\ payments[invoices'[j].payment_id].status # "cancelled"
    BY <1>2, <1>5 DEF LinkIsLive
  <2>1. invoices'[j].payment_id = invoices[j].payment_id
    BY <1>5, <1>6
  <2>2. QED
    BY <2>1 DEF IInv, LinkIsLive
<1>10. LiveIsLinked'
  BY <1>2, <1>5, <1>6 DEF IInv, TypeOK, LiveIsLinked
<1>11. LifecyclesAgree'
  <2>1. \A p \in DOMAIN payments : payments[p].status = "pending" => payments[p].invoice # i
    BY <1>2 DEF IInv, LifecyclesAgree
  <2>2. ASSUME NEW j \in DOMAIN invoices',
               invoices'[j].status \in {"paid", "partially_refunded", "refunded"}
        PROVE  invoices'[j].payment_id \in SettledPaymentsOf(j)'
    <3>1. /\ j \in DOMAIN invoices
          /\ invoices[j].status \in {"paid", "partially_refunded", "refunded"}
          /\ invoices'[j].payment_id = invoices[j].payment_id
      BY <1>2, <1>5, <1>6, <2>2
    <3>2. invoices[j].payment_id \in SettledPaymentsOf(j)
      BY <3>1 DEF IInv, LifecyclesAgree
    <3>3. QED
      BY <1>2, <3>1, <3>2 DEF SettledPaymentsOf
  <2>3. ASSUME NEW p \in DOMAIN payments, payments[p].status = "pending"
        PROVE  /\ invoices'[payments[p].invoice].payment_id = p
               /\ invoices'[payments[p].invoice].status \in {"pending", "disputed"}
    BY <1>5, <2>1, <2>3 DEF IInv, TypeOK, LifecyclesAgree
  <2>4. QED
    BY <1>2, <2>2, <2>3 DEF LifecyclesAgree
<1>12. DisputesHold'
  BY <1>2, <1>5, <1>7 DEF IInv, DisputesHold, OpenDispute
<1>13. QED
  BY <1>8, <1>9, <1>10, <1>11, <1>12 DEF IInv

LEMMA CancelPaymentKeepsInv ==
  ASSUME IInv, NEW p \in PaymentIds, cancel_payment(p)
  PROVE  IInv'
<1> USE PaymentsAssumption
<1> DEFINE i == payments[p].invoice
<1>1. /\ p \in DOMAIN payments /\ payments[p].status = "pending"
      /\ payments' = [payments EXCEPT ![p].status = "cancelled"]
      /\ invoices' = [invoices EXCEPT ![i].status = "pending", ![i].payment_id = NoPayment]
      /\ refunds' = refunds /\ disputes' = disputes
  BY DEF cancel_payment, Cancellable
<1>2. i \in DOMAIN invoices /\ payments[p] \in Payment /\ invoices[i] \in Invoice
  BY <1>1 DEF IInv, TypeOK, PartialFunction
<1> HIDE DEF i
<1>3. /\ DOMAIN invoices' = DOMAIN invoices
      /\ \A j \in DOMAIN invoices : j # i => invoices'[j] = invoices[j]
      /\ invoices'[i] = [invoices[i] EXCEPT !.status = "pending", !.payment_id = NoPayment]
  BY <1>1, <1>2 DEF IInv, TypeOK, PartialFunction
<1>4. /\ invoices'[i] \in Invoice
      /\ invoices'[i].status = "pending" /\ invoices'[i].payment_id = NoPayment
  BY <1>2, <1>3 DEF Invoice, Statuses
<1>5. /\ DOMAIN payments' = DOMAIN payments
      /\ \A q \in DOMAIN payments : q # p => payments'[q] = payments[q]
      /\ payments'[p] = [payments[p] EXCEPT !.status = "cancelled"]
  BY <1>1 DEF IInv, TypeOK, PartialFunction
<1>6. /\ payments'[p] \in Payment
      /\ payments'[p].status = "cancelled" /\ payments'[p].invoice = i
  BY <1>2, <1>5 DEF Payment, i
<1>7. \A q \in DOMAIN payments :
        q # p /\ payments[q].status # "cancelled" => payments[q].invoice # i
  BY <1>1 DEF IInv, LiveIsLinked, i
<1>8. TypeOK'
  <2>1. invoices' \in [DOMAIN invoices' -> Invoice]
    <3>1. \A j \in DOMAIN invoices : invoices'[j] \in Invoice
      BY <1>3, <1>4 DEF IInv, TypeOK, PartialFunction
    <3>2. QED
      BY <1>1, <1>3, <3>1
  <2>2. payments' \in [DOMAIN payments' -> Payment]
    <3>1. \A q \in DOMAIN payments : payments'[q] \in Payment
      BY <1>5, <1>6 DEF IInv, TypeOK, PartialFunction
    <3>2. QED
      BY <1>1, <1>5, <3>1
  <2>3. \A q \in DOMAIN payments : payments'[q].invoice = payments[q].invoice
    BY <1>5, <1>6 DEF i
  <2>4. QED
    BY <1>1, <1>3, <1>5, <2>1, <2>2, <2>3 DEF IInv, TypeOK, PartialFunction
<1>9. LinkIsLive'
  <2> SUFFICES ASSUME NEW j \in DOMAIN invoices, invoices'[j].payment_id # NoPayment
               PROVE  /\ invoices'[j].payment_id \in DOMAIN payments'
                      /\ payments'[invoices'[j].payment_id].invoice = j
                      /\ payments'[invoices'[j].payment_id].status # "cancelled"
    BY <1>3 DEF LinkIsLive
  <2>1. j # i /\ invoices'[j] = invoices[j]
    BY <1>3, <1>4
  <2>2. /\ invoices[j].payment_id \in DOMAIN payments
        /\ payments[invoices[j].payment_id].invoice = j
        /\ payments[invoices[j].payment_id].status # "cancelled"
    BY <2>1 DEF IInv, LinkIsLive
  <2>3. invoices[j].payment_id # p
    BY <2>1, <2>2 DEF i
  <2>4. QED
    BY <1>5, <2>1, <2>2, <2>3
<1>10. LiveIsLinked'
  <2> SUFFICES ASSUME NEW q \in DOMAIN payments', payments'[q].status # "cancelled"
               PROVE  invoices'[payments'[q].invoice].payment_id = q
    BY DEF LiveIsLinked
  <2>1. q # p /\ q \in DOMAIN payments /\ payments'[q] = payments[q]
    BY <1>5, <1>6
  <2>2. payments[q].invoice # i /\ payments[q].invoice \in DOMAIN invoices
    BY <1>7, <2>1 DEF IInv, TypeOK
  <2>3. QED
    BY <1>3, <2>1, <2>2 DEF IInv, LiveIsLinked
<1>11. LifecyclesAgree'
  <2>1. ASSUME NEW j \in DOMAIN invoices',
               invoices'[j].status \in {"paid", "partially_refunded", "refunded"}
        PROVE  invoices'[j].payment_id \in SettledPaymentsOf(j)'
    <3>1. invoices'[j] = invoices[j]
      BY <1>3, <1>4, <2>1
    <3>2. invoices[j].payment_id \in SettledPaymentsOf(j)
      BY <1>3, <2>1, <3>1 DEF IInv, LifecyclesAgree
    <3>3. invoices[j].payment_id # p
      BY <1>1, <3>2 DEF SettledPaymentsOf
    <3>4. QED
      BY <1>5, <3>1, <3>2, <3>3 DEF SettledPaymentsOf
  <2>2. ASSUME NEW q \in DOMAIN payments', payments'[q].status = "pending"
        PROVE  /\ invoices'[payments'[q].invoice].payment_id = q
               /\ invoices'[payments'[q].invoice].status \in {"pending", "disputed"}
    <3>1. q # p /\ q \in DOMAIN payments /\ payments'[q] = payments[q]
      BY <1>5, <1>6, <2>2
    <3>2. payments[q].invoice # i /\ payments[q].invoice \in DOMAIN invoices
      BY <1>7, <2>2, <3>1 DEF IInv, TypeOK
    <3>3. QED
      BY <1>3, <2>2, <3>1, <3>2 DEF IInv, LifecyclesAgree
  <2>3. QED
    BY <2>1, <2>2 DEF LifecyclesAgree
<1>12. DisputesHold'
  BY <1>1, <1>3, <1>4 DEF IInv, DisputesHold, OpenDispute
<1>13. QED
  BY <1>8, <1>9, <1>10, <1>11, <1>12 DEF IInv

LEMMA DisputeInvoiceKeepsInv ==
  ASSUME IInv, NEW i \in InvoiceIds, NEW d \in DisputeIds, dispute_invoice(i, d)
  PROVE  IInv'
<1> USE PaymentsAssumption
<1>1. /\ i \in DOMAIN invoices /\ invoices[i].status \in {"paid", "pending"}
      /\ invoices' = [invoices EXCEPT ![i].status = "disputed"]
      /\ disputes' = [x \in DOMAIN disputes \cup {d} |-> IF x = d THEN i ELSE disputes[x]]
      /\ payments' = payments /\ refunds' = refunds
  BY DEF dispute_invoice, Disputable, Extend
<1>2. invoices[i] \in Invoice
  BY <1>1 DEF IInv, TypeOK, PartialFunction
<1>3. /\ DOMAIN invoices' = DOMAIN invoices
      /\ \A j \in DOMAIN invoices : j # i => invoices'[j] = invoices[j]
      /\ invoices'[i] = [invoices[i] EXCEPT !.status = "disputed"]
  BY <1>1 DEF IInv, TypeOK, PartialFunction
<1>4. /\ invoices'[i] \in Invoice /\ invoices'[i].status = "disputed"
      /\ invoices'[i].payment_id = invoices[i].payment_id
  BY <1>2, <1>3 DEF Invoice, Statuses
<1>5. \A j \in DOMAIN invoices : invoices'[j].payment_id = invoices[j].payment_id
  BY <1>3, <1>4
<1>6. TypeOK'
  <2>1. invoices' \in [DOMAIN invoices' -> Invoice]
    <3>1. \A j \in DOMAIN invoices : invoices'[j] \in Invoice
      BY <1>3, <1>4 DEF IInv, TypeOK, PartialFunction
    <3>2. QED
      BY <1>1, <1>3, <3>1
  <2>2. PartialFunction(disputes', DisputeIds, InvoiceIds)
    BY <1>1 DEF IInv, TypeOK, PartialFunction
  <2>3. \A x \in DOMAIN disputes' : disputes'[x] \in DOMAIN invoices
    BY <1>1 DEF IInv, TypeOK
  <2>4. QED
    BY <1>1, <1>3, <2>1, <2>2, <2>3 DEF IInv, TypeOK, PartialFunction
<1>7. LinkIsLive'
  BY <1>1, <1>3, <1>5 DEF IInv, LinkIsLive
<1>8. LiveIsLinked'
  BY <1>1, <1>5 DEF IInv, TypeOK, LiveIsLinked
<1>9. LifecyclesAgree'
  <2>1. ASSUME NEW j \in DOMAIN invoices',
               invoices'[j].status \in {"paid", "partially_refunded", "refunded"}
        PROVE  invoices'[j].payment_id \in SettledPaymentsOf(j)'
    <3>1. j \in DOMAIN invoices /\ invoices'[j] = invoices[j]
      BY <1>3, <1>4, <2>1
    <3>2. invoices[j].payment_id \in SettledPaymentsOf(j)
      BY <2>1, <3>1 DEF IInv, LifecyclesAgree
    <3>3. QED
      BY <1>1, <3>1, <3>2 DEF SettledPaymentsOf
  <2>2. ASSUME NEW p \in DOMAIN payments, payments[p].status = "pending"
        PROVE  /\ invoices'[payments[p].invoice].payment_id = p
               /\ invoices'[payments[p].invoice].status \in {"pending", "disputed"}
    <3>1. /\ payments[p].invoice \in DOMAIN invoices
          /\ invoices[payments[p].invoice].payment_id = p
          /\ invoices[payments[p].invoice].status \in {"pending", "disputed"}
      BY <2>2 DEF IInv, TypeOK, LifecyclesAgree
    <3>2. QED
      BY <1>3, <1>4, <1>5, <3>1
  <2>3. QED
    BY <1>1, <2>1, <2>2 DEF LifecyclesAgree
<1>10. DisputesHold'
  BY <1>1, <1>3, <1>4 DEF IInv, DisputesHold, OpenDispute
<1>11. QED
  BY <1>6, <1>7, <1>8, <1>9, <1>10 DEF IInv

LEMMA NextKeepsInv == IInv /\ [Next]_vars => IInv'
<1> SUFFICES ASSUME IInv, [Next]_vars
             PROVE  IInv'
  OBVIOUS
<1>1. ASSUME NEW i \in InvoiceIds, NEW amount \in Prices, create_invoice(i, amount)
      PROVE  IInv'
  BY <1>1, CreateInvoiceKeepsInv
<1>2. ASSUME NEW i \in InvoiceIds, NEW amount \in Amounts, NEW p \in PaymentIds,
             pay_invoice(i, amount, p)
      PROVE  IInv'
  BY <1>2, PayInvoiceKeepsInv
<1>3. ASSUME NEW i \in InvoiceIds, NEW amount \in Amounts, NEW r \in RefundIds,
             refund_invoice(i, amount, r)
      PROVE  IInv'
  BY <1>3, RefundInvoiceKeepsInv
<1>4. ASSUME NEW p \in PaymentIds, cancel_payment(p)
      PROVE  IInv'
  BY <1>4, CancelPaymentKeepsInv
<1>5. ASSUME NEW i \in InvoiceIds, NEW d \in DisputeIds, dispute_invoice(i, d)
      PROVE  IInv'
  BY <1>5, DisputeInvoiceKeepsInv
<1>6. CASE UNCHANGED vars
  BY <1>6 DEF vars, IInv, TypeOK, PartialFunction, LinkIsLive, LiveIsLinked,
              LifecyclesAgree, SettledPaymentsOf, DisputesHold, OpenDispute
<1>7. QED
  BY <1>1, <1>2, <1>3, <1>4, <1>5, <1>6 DEF Next

LEMMA Inductive == Spec => []IInv
<1>1. QED
  BY InitInv, NextKeepsInv, PTL DEF Spec

(* Every record keeps its shape and names records that exist.              *)
THEOREM TypeCorrect == Spec => []TypeOK
<1>1. IInv => TypeOK
  BY DEF IInv
<1>2. QED
  BY <1>1, Inductive, PTL

(* Invoice and payment lifecycles agree after any calls.                   *)
THEOREM Lifecycles == Spec => []LifecyclesAgree
<1>1. IInv => LifecyclesAgree
  BY DEF IInv
<1>2. QED
  BY <1>1, Inductive, PTL

(* No invoice ever has two payments that are pending or settled.           *)
THEOREM PaidOnce == Spec => []NoDoublePayment
<1>1. IInv => NoDoublePayment
  BY DEF IInv, LiveIsLinked, NoDoublePayment
<1>2. QED
  BY <1>1, Inductive, PTL

(* No money moves on an invoice under dispute: pay_invoice looks for the   *)
(* dispute, and refund_invoice is kept away by the status.                 *)
THEOREM Frozen == Spec => DisputeFreezesMoney
<1> DEFINE Kept == \A i \in DOMAIN invoices : OpenDispute(i) =>
       /\ SettledPaymentsOf(i)' = SettledPaymentsOf(i)
       /\ RefundsOf(i)' = RefundsOf(i)
<1>1. ASSUME IInv, [Next]_vars
      PROVE  Kept \/ UNCHANGED vars
  <2>1. ASSUME NEW i \in InvoiceIds, NEW amount \in Prices, create_invoice(i, amount)
        PROVE  Kept
    BY <2>1 DEF create_invoice, SettledPaymentsOf, RefundsOf
  <2>2. ASSUME NEW i \in InvoiceIds, NEW amount \in Amounts, NEW p \in PaymentIds,
               pay_invoice(i, amount, p)
        PROVE  Kept
    <3>1. /\ ~OpenDispute(i) /\ p \notin DOMAIN payments /\ refunds' = refunds
          /\ payments' = Extend(payments, p,
               [invoice |-> i, amount |-> amount, status |-> "settled"])
      BY <2>2 DEF pay_invoice, Payable
    <3>2. \A j \in DOMAIN invoices : j # i => SettledPaymentsOf(j)' = SettledPaymentsOf(j)
      BY <3>1 DEF SettledPaymentsOf, Extend
    <3>3. QED
      BY <3>1, <3>2 DEF RefundsOf
  <2>3. ASSUME NEW i \in InvoiceIds, NEW amount \in Amounts, NEW r \in RefundIds,
               refund_invoice(i, amount, r)
        PROVE  Kept
    <3>1. /\ i \in DOMAIN invoices
          /\ invoices[i].status \in {"paid", "partially_refunded"}
          /\ r \notin DOMAIN refunds /\ payments' = payments
          /\ refunds' = Extend(refunds, r, [invoice |-> i, amount |-> amount])
      BY <2>3 DEF refund_invoice, Refundable
    <3>2. ~OpenDispute(i)
      BY <1>1, <3>1 DEF IInv, DisputesHold
    <3>3. \A j \in DOMAIN invoices : j # i => RefundsOf(j)' = RefundsOf(j)
      BY <3>1 DEF RefundsOf, Extend
    <3>4. QED
      BY <3>1, <3>2, <3>3 DEF SettledPaymentsOf
  <2>4. ASSUME NEW p \in PaymentIds, cancel_payment(p)
        PROVE  Kept
    <3>1. /\ p \in DOMAIN payments /\ payments[p].status = "pending"
          /\ payments' = [payments EXCEPT ![p].status = "cancelled"] /\ refunds' = refunds
      BY <2>4 DEF cancel_payment, Cancellable
    <3>2. /\ DOMAIN payments' = DOMAIN payments
          /\ \A q \in DOMAIN payments : q # p => payments'[q] = payments[q]
          /\ payments'[p].status # "settled"
      BY <1>1, <3>1 DEF IInv, TypeOK, PartialFunction, Payment
    <3>3. \A j \in DOMAIN invoices : SettledPaymentsOf(j)' = SettledPaymentsOf(j)
      BY <3>1, <3>2 DEF SettledPaymentsOf
    <3>4. QED
      BY <3>1, <3>3 DEF RefundsOf
  <2>5. ASSUME NEW i \in InvoiceIds, NEW d \in DisputeIds, dispute_invoice(i, d)
        PROVE  Kept
    BY <2>5 DEF dispute_invoice, SettledPaymentsOf, RefundsOf
  <2>6. QED
    BY <1>1, <2>1, <2>2, <2>3, <2>4, <2>5 DEF Next
<1>2. IInv /\ [Next]_vars => [Kept]_vars
  BY <1>1
<1>3. QED
  BY <1>2, Inductive, PTL DEF Spec, DisputeFreezesMoney

(* A settled payment stays as it is and stays linked to its invoice.       *)
THEOREM Final == Spec => SettledIsFinal
<1> DEFINE Stays == \A p \in DOMAIN payments : payments[p].status = "settled" =>
       /\ payments'[p] = payments[p]
       /\ invoices'[payments[p].invoice].payment_id =
            invoices[payments[p].invoice].payment_id
<1>1. ASSUME IInv, [Next]_vars
      PROVE  Stays \/ UNCHANGED vars
  <2> SUFFICES ASSUME Next, NEW q \in DOMAIN payments, payments[q].status = "settled"
               PROVE  /\ payments'[q] = payments[q]
                      /\ invoices'[payments[q].invoice].payment_id =
                           invoices[payments[q].invoice].payment_id
    BY <1>1
  <2> DEFINE k == payments[q].invoice
  <2>1. /\ k \in DOMAIN invoices /\ invoices[k].payment_id = q
        /\ invoices \in [DOMAIN invoices -> Invoice]
        /\ payments \in [DOMAIN payments -> Payment]
    BY <1>1 DEF IInv, TypeOK, PartialFunction, LiveIsLinked
  <2>2. q # NoPayment
    BY <1>1, PaymentsAssumption DEF IInv, TypeOK, PartialFunction
  <2> HIDE DEF k
  <2>3. ASSUME NEW i \in InvoiceIds, NEW amount \in Prices, create_invoice(i, amount)
        PROVE  payments'[q] = payments[q] /\ invoices'[k].payment_id = invoices[k].payment_id
    BY <2>1, <2>3 DEF create_invoice, Extend
  <2>4. ASSUME NEW i \in InvoiceIds, NEW amount \in Amounts, NEW p \in PaymentIds,
               pay_invoice(i, amount, p)
        PROVE  payments'[q] = payments[q] /\ invoices'[k].payment_id = invoices[k].payment_id
    <3>1. i # k /\ q # p
      BY <2>1, <2>2, <2>4 DEF pay_invoice, Payable
    <3>2. QED
      BY <2>1, <2>4, <3>1 DEF pay_invoice, Extend
  <2>5. ASSUME NEW i \in InvoiceIds, NEW amount \in Amounts, NEW r \in RefundIds,
               refund_invoice(i, amount, r)
        PROVE  payments'[q] = payments[q] /\ invoices'[k].payment_id = invoices[k].payment_id
    <3>1. PICK total, partial :
            invoices' = [invoices EXCEPT
              ![i].status = IF partial THEN "partially_refunded" ELSE "refunded",
              ![i].has_refund = TRUE, ![i].refunded = total]
      BY <2>5 DEF refund_invoice
    <3>2. payments' = payments
      BY <2>5 DEF refund_invoice
    <3>3. QED
      BY <2>1, <3>1, <3>2 DEF Invoice
  <2>6. ASSUME NEW p \in PaymentIds, cancel_payment(p)
        PROVE  payments'[q] = payments[q] /\ invoices'[k].payment_id = invoices[k].payment_id
    <3>1. /\ p \in DOMAIN payments /\ payments[p].status = "pending"
          /\ payments' = [payments EXCEPT ![p].status = "cancelled"]
          /\ invoices' = [invoices EXCEPT ![payments[p].invoice].status = "pending",
                                          ![payments[p].invoice].payment_id = NoPayment]
      BY <2>6 DEF cancel_payment, Cancellable
    <3>2. invoices[payments[p].invoice].payment_id = p /\ p # q
      BY <1>1, <3>1 DEF IInv, LiveIsLinked
    <3>3. QED
      BY <2>1, <3>1, <3>2
  <2>7. ASSUME NEW i \in InvoiceIds, NEW d \in DisputeIds, dispute_invoice(i, d)
        PROVE  payments'[q] = payments[q] /\ invoices'[k].payment_id = invoices[k].payment_id
    <3>1. payments' = payments /\ invoices' = [invoices EXCEPT ![i].status = "disputed"]
      BY <2>7 DEF dispute_invoice
    <3>2. QED
      BY <2>1, <3>1 DEF Invoice
  <2>8. QED
    BY <2>3, <2>4, <2>5, <2>6, <2>7 DEF Next, k
<1>2. IInv /\ [Next]_vars => [Stays]_vars
  BY <1>1
<1>3. QED
  BY <1>2, Inductive, PTL DEF Spec, SettledIsFinal

-----------------------------------------------------------------------------
(* Sums.  RefundTotal is a fold that takes the refunds in an order nobody  *)
(* knows.  A function g on the subsets of S Adds if taking out any element *)
(* takes its amount off; there is one, and the fold agrees with it.        *)
Total(f, S) == MapThenSumSet(LAMBDA r : f[r].amount, S)

Adds(f, S, g) ==
  /\ g \in [SUBSET S -> Nat]
  /\ g[{}] = 0
  /\ \A s \in SUBSET S : \A x \in s : g[s] = f[x].amount + g[s \ {x}]

(* A non-empty set of subsets of a finite set has a smallest one.          *)
LEMMA SmallestSubset ==
  ASSUME NEW S, IsFiniteSet(S), NEW T \in SUBSET SUBSET S, T # {}
  PROVE  \E m \in T : \A s \in T : s \subseteq m => s = m
<1>1. IsWellFoundedOn(StrictSubsetOrdering(S), SUBSET S)
  BY FS_StrictSubsetOrderingWellFounded, FS_FiniteSubsetsOfFinite
<1>2. PICK m \in T : \A s \in T : << s, m >> \notin StrictSubsetOrdering(S)
  BY <1>1, WFMin
<1>3. QED
  BY <1>2 DEF StrictSubsetOrdering

LEMMA AddsExtend ==
  ASSUME NEW S, NEW f, NEW a \in S, NEW h, Adds(f, S \ {a}, h),
         \A x \in S : f[x].amount \in Nat
  PROVE  \E g : Adds(f, S, g)
<1> DEFINE g == [s \in SUBSET S |-> IF a \in s THEN f[a].amount + h[s \ {a}] ELSE h[s]]
<1>1. \A s \in SUBSET S : s \ {a} \in SUBSET (S \ {a}) /\ (a \notin s => s \in SUBSET (S \ {a}))
  OBVIOUS
<1>2. \A s \in SUBSET (S \ {a}) : h[s] \in Nat
  BY DEF Adds
<1>3. g \in [SUBSET S -> Nat]
  BY <1>1, <1>2
<1>4. g[{}] = 0
  BY DEF Adds
<1>5. ASSUME NEW s \in SUBSET S, NEW x \in s
      PROVE  g[s] = f[x].amount + g[s \ {x}]
  <2>1. /\ x \in S /\ s \ {x} \in SUBSET S
        /\ f[x].amount \in Nat /\ f[a].amount \in Nat
    OBVIOUS
  <2>2. CASE x = a
    BY <1>1, <2>1, <2>2
  <2>3. CASE x # a /\ a \notin s
    BY <1>1, <2>1, <2>3 DEF Adds
  <2>4. CASE x # a /\ a \in s
    <3>1. h[s \ {a}] = f[x].amount + h[(s \ {a}) \ {x}]
      BY <1>1, <2>4 DEF Adds
    <3>2. (s \ {a}) \ {x} = (s \ {x}) \ {a}
      OBVIOUS
    <3>3. g[s] = f[a].amount + h[s \ {a}]
      BY <2>4
    <3>4. g[s \ {x}] = f[a].amount + h[(s \ {a}) \ {x}]
      BY <2>1, <2>4, <3>2
    <3>5. (s \ {a}) \ {x} \in SUBSET (S \ {a})
      OBVIOUS
    <3>6. h[s \ {a}] \in Nat /\ h[(s \ {a}) \ {x}] \in Nat
      BY <1>1, <1>2, <3>5
    <3> DEFINE fa == f[a].amount
               fx == f[x].amount
               rest == h[(s \ {a}) \ {x}]
               gx == g[s \ {x}]
    <3>7. fa \in Nat /\ fx \in Nat /\ rest \in Nat /\ gx = fa + rest
      BY <2>1, <3>4, <3>6
    <3>8. g[s] = fa + (fx + rest)
      BY <3>1, <3>3
    <3> HIDE DEF g, fa, fx, rest, gx
    <3>9. g[s] = fx + gx
      BY <3>7, <3>8
    <3>10. QED
      BY <3>9 DEF fx, gx
  <2>5. QED
    BY <2>2, <2>3, <2>4
<1>6. Adds(f, S, g)
  BY <1>3, <1>4, <1>5 DEF Adds
<1>7. QED
  BY <1>6

LEMMA AddsExists ==
  ASSUME NEW S, IsFiniteSet(S), NEW f, \A x \in S : f[x].amount \in Nat
  PROVE  \E g : Adds(f, S, g)
<1> DEFINE Without == {s \in SUBSET S : ~ \E g : Adds(f, s, g)}
<1>1. CASE Without = {}
  BY <1>1
<1>2. CASE Without # {}
  <2>1. Without \in SUBSET SUBSET S
    OBVIOUS
  <2>2. PICK m \in Without : \A s \in Without : s \subseteq m => s = m
    <3> HIDE DEF Without
    <3>1. QED
      BY <1>2, <2>1, SmallestSubset
  <2>3. m # {}
    <3>1. Adds(f, {}, [s \in SUBSET {} |-> 0])
      BY DEF Adds
    <3>2. QED
      BY <3>1
  <2>4. PICK a \in m : TRUE
    BY <2>3
  <2>5. m \in SUBSET S /\ m \ {a} \notin Without
    BY <2>2, <2>4
  <2>6. PICK h : Adds(f, m \ {a}, h)
    BY <2>5
  <2>7. \E g : Adds(f, m, g)
    BY <2>5, <2>6, AddsExtend
  <2>8. QED
    BY <2>7
<1>3. QED
  BY <1>1, <1>2

(* The fold's recursion has a solution, so the fold is the value of one.   *)
LEMMA TotalRuns ==
  ASSUME NEW S, NEW f, NEW g, Adds(f, S, g)
  PROVE  \E iter : /\ iter = [s \in SUBSET S |->
                        IF s = {} THEN 0
                        ELSE f[CHOOSE x \in s : TRUE].amount + iter[s \ {CHOOSE x \in s : TRUE}]]
                   /\ Total(f, S) = iter[S]
<1> DEFINE Solves(iter) ==
      iter = [s \in SUBSET S |->
               IF s = {} THEN 0
               ELSE f[CHOOSE x \in s : TRUE].amount + iter[s \ {CHOOSE x \in s : TRUE}]]
<1>1. Solves(g)
  <2> DEFINE value(s) == IF s = {} THEN 0
               ELSE f[CHOOSE x \in s : TRUE].amount + g[s \ {CHOOSE x \in s : TRUE}]
  <2>1. ASSUME NEW s \in SUBSET S
        PROVE  g[s] = value(s)
    <3>1. CASE s = {}
      BY <3>1 DEF Adds
    <3>2. CASE s # {}
      <4>1. (CHOOSE x \in s : TRUE) \in s
        BY <3>2
      <4>2. QED
        BY <3>2, <4>1 DEF Adds
    <3>3. QED
      BY <3>1, <3>2
  <2>2. g \in [SUBSET S -> Nat]
    BY DEF Adds
  <2>3. g = [s \in SUBSET S |-> value(s)]
    <3> HIDE DEF value
    <3>1. QED
      BY <2>1, <2>2
  <2>4. QED
    BY <2>3
<1>2. Total(f, S) = (CHOOSE iter : Solves(iter))[S]
  BY DEF Total, MapThenSumSet, MapThenFoldSet
<1>3. Solves(CHOOSE iter : Solves(iter))
  <2> HIDE DEF Solves
  <2>1. QED
    BY <1>1
<1>4. QED
  BY <1>2, <1>3

LEMMA TotalAdds ==
  ASSUME NEW S, IsFiniteSet(S), NEW f, NEW g, Adds(f, S, g)
  PROVE  Total(f, S) = g[S]
<1>1. PICK iter :
        /\ iter = [s \in SUBSET S |->
             IF s = {} THEN 0
             ELSE f[CHOOSE x \in s : TRUE].amount + iter[s \ {CHOOSE x \in s : TRUE}]]
        /\ Total(f, S) = iter[S]
  BY TotalRuns
<1> DEFINE Differ == {s \in SUBSET S : iter[s] # g[s]}
<1>2. ASSUME Differ # {}
      PROVE  FALSE
  <2>1. Differ \in SUBSET SUBSET S
    OBVIOUS
  <2>2. PICK m \in Differ : \A s \in Differ : s \subseteq m => s = m
    <3> HIDE DEF Differ
    <3>1. QED
      BY <1>2, <2>1, SmallestSubset
  <2>3. m \in SUBSET S /\ iter[m] # g[m]
    OBVIOUS
  <2>4. m # {}
    BY <1>1, <2>3 DEF Adds
  <2> DEFINE x == CHOOSE y \in m : TRUE
  <2>5. x \in m
    BY <2>4
  <2>6. iter[m \ {x}] = g[m \ {x}]
    BY <2>2, <2>5
  <2>7. iter[m] = f[x].amount + iter[m \ {x}]
    BY <1>1, <2>3, <2>4
  <2>8. g[m] = f[x].amount + g[m \ {x}]
    BY <2>3, <2>5 DEF Adds
  <2>9. QED
    BY <2>3, <2>6, <2>7, <2>8
<1>3. QED
  BY <1>1, <1>2

(* One refund more adds its amount; the others only need to stay.          *)
LEMMA TotalOfOneMore ==
  ASSUME NEW S, IsFiniteSet(S), NEW f, NEW h, NEW r, r \notin S,
         \A x \in S : h[x] = f[x] /\ f[x].amount \in Nat, h[r].amount \in Nat
  PROVE  /\ Total(h, S \cup {r}) = h[r].amount + Total(f, S)
         /\ Total(f, S) \in Nat
<1> DEFINE R == S \cup {r}
<1>1. IsFiniteSet(R)
  BY FS_AddElement
<1>2. PICK g : Adds(h, R, g)
  <2>1. \A x \in R : h[x].amount \in Nat
    OBVIOUS
  <2> HIDE DEF R
  <2>2. QED
    BY <1>1, <2>1, AddsExists
<1>3. Total(h, R) = g[R]
  <2> HIDE DEF R
  <2>1. QED
    BY <1>1, <1>2, TotalAdds
<1> DEFINE k == [s \in SUBSET S |-> g[s]]
<1>4. Adds(f, S, k)
  <2>1. \A s \in SUBSET S : s \in SUBSET R /\ \A x \in s : s \ {x} \in SUBSET S
    OBVIOUS
  <2>2. k \in [SUBSET S -> Nat] /\ k[{}] = 0
    BY <1>2, <2>1 DEF Adds
  <2>3. ASSUME NEW s \in SUBSET S, NEW x \in s
        PROVE  k[s] = f[x].amount + k[s \ {x}]
    <3>1. g[s] = h[x].amount + g[s \ {x}]
      BY <1>2, <2>1 DEF Adds
    <3>2. QED
      BY <2>1, <3>1
  <2> HIDE DEF k
  <2>4. QED
    BY <2>2, <2>3 DEF Adds
<1>5. Total(f, S) = k[S] /\ k[S] = g[S] /\ g[S] \in Nat
  <2>1. Total(f, S) = k[S]
    <3> HIDE DEF k
    <3>1. QED
      BY <1>4, TotalAdds
  <2>2. QED
    BY <1>2, <2>1 DEF Adds
<1>6. g[R] = h[r].amount + g[R \ {r}] /\ R \ {r} = S
  BY <1>2 DEF Adds
<1>7. QED
  BY <1>3, <1>5, <1>6

LEMMA TotalDependsOn ==
  ASSUME NEW S, IsFiniteSet(S), NEW f, NEW h,
         \A x \in S : h[x] = f[x] /\ f[x].amount \in Nat
  PROVE  Total(h, S) = Total(f, S)
<1>1. PICK g : Adds(f, S, g)
  BY AddsExists
<1>2. Adds(h, S, g)
  BY <1>1 DEF Adds
<1>3. QED
  BY <1>1, <1>2, TotalAdds

LEMMA TotalOfNone ==
  ASSUME NEW f
  PROVE  Total(f, {}) = 0
<1>1. Adds(f, {}, [s \in SUBSET {} |-> 0])
  BY DEF Adds
<1>2. QED
  BY <1>1, TotalAdds, FS_EmptySet

-----------------------------------------------------------------------------
(* Refunds.  What the server has added up is what it has refunded, as long *)
(* as rounding changes nothing.                                            *)
WholeCents == \A amount \in Amounts : amount % Cent = 0

Accounted ==
  \A i \in DOMAIN invoices :
    /\ IsFiniteSet(RefundsOf(i))
    /\ invoices[i].refunded = Total(refunds, RefundsOf(i))
    /\ invoices[i].refunded % Cent = 0
    /\ invoices[i].refunded <= invoices[i].amount

LEMMA RoundingIsExact ==
  ASSUME NEW x \in Nat, x % Cent = 0, NEW c \in RoundToCents(x)
  PROVE  c = x
<1>1. (x \div 10) * 10 = x /\ Distance(x, x) = 0
  BY DEF Distance
<1>2. Distance(x, x + 10) = 10
  BY DEF Distance
<1>3. QED
  BY <1>1, <1>2 DEF RoundToCents

LEMMA QuarterIsWhole ==
  ASSUME NEW price \in Nat, price % (4 * Cent) = 0
  PROVE  /\ price \div 4 \in Nat
         /\ (price \div 4) % Cent = 0
         /\ price \div 4 <= price
<1>1. PICK k \in Nat : price = 40 * k
  OBVIOUS
<1>2. price \div 4 = 10 * k
  BY <1>1
<1>3. QED
  BY <1>1, <1>2

LEMMA InitAccounted == Init => Accounted
<1> SUFFICES ASSUME Init, NEW i \in DOMAIN invoices
             PROVE  /\ IsFiniteSet(RefundsOf(i))
                    /\ invoices[i].refunded = Total(refunds, RefundsOf(i))
                    /\ invoices[i].refunded % Cent = 0
                    /\ invoices[i].refunded <= invoices[i].amount
  BY DEF Accounted
<1> USE PaymentsAssumption
<1>1. PICK kind \in [Seeded -> Kinds], price \in [Seeded -> Prices], ref \in [Seeded -> RefundIds] :
        LET withPayment == {j \in Seeded : kind[j] \notin {"pending", "overdue"}}
            withRefund == {j \in Seeded : kind[j] = "partially_refunded"}
        IN /\ \A j, k \in withRefund : ref[j] = ref[k] => j = k
           /\ \A j \in withRefund : price[j] % (4 * Cent) = 0
           /\ invoices = [j \in Seeded |-> SeededInvoice(j, kind[j], price[j])]
           /\ payments = [p \in {SeedPayment[j] : j \in withPayment} |->
                LET j == CHOOSE k \in withPayment : SeedPayment[k] = p
                IN [invoice |-> j, amount |-> price[j],
                    status |-> IF kind[j] = "pending_payment" THEN "pending" ELSE "settled"]]
           /\ refunds = [r \in {ref[j] : j \in withRefund} |->
                LET j == CHOOSE k \in withRefund : ref[k] = r
                IN [invoice |-> j, amount |-> price[j] \div 4]]
           /\ disputes = << >>
  BY DEF Init
<1> DEFINE withRefund == {j \in Seeded : kind[j] = "partially_refunded"}
<1>2. i \in Seeded /\ invoices[i] = SeededInvoice(i, kind[i], price[i]) /\ price[i] \in Nat
  BY <1>1
<1>3. /\ DOMAIN refunds = {ref[j] : j \in withRefund}
      /\ \A j \in withRefund : refunds[ref[j]] = [invoice |-> j, amount |-> price[j] \div 4]
  <2>1. DOMAIN refunds = {ref[j] : j \in withRefund}
    BY <1>1
  <2>2. ASSUME NEW j \in withRefund
        PROVE  refunds[ref[j]] = [invoice |-> j, amount |-> price[j] \div 4]
    <3>1. (CHOOSE k \in withRefund : ref[k] = ref[j]) = j
      BY <1>1
    <3>2. QED
      BY <1>1, <3>1
  <2>3. QED
    BY <2>1, <2>2
<1>3a. /\ \A r \in DOMAIN refunds : \E j \in withRefund : r = ref[j] /\ refunds[r].invoice = j
       /\ \A j \in withRefund : /\ ref[j] \in DOMAIN refunds
                                /\ refunds[ref[j]].invoice = j
                                /\ refunds[ref[j]].amount = price[j] \div 4
  <2>1. ASSUME NEW j \in withRefund
        PROVE  /\ ref[j] \in DOMAIN refunds
               /\ refunds[ref[j]].invoice = j
               /\ refunds[ref[j]].amount = price[j] \div 4
    <3>1. refunds[ref[j]] = [invoice |-> j, amount |-> price[j] \div 4]
      BY <1>3
    <3>2. ref[j] \in DOMAIN refunds
      BY <1>3
    <3>3. QED
      BY <3>1, <3>2
  <2>2. \A r \in DOMAIN refunds : \E j \in withRefund : r = ref[j]
    BY <1>3
  <2> HIDE DEF withRefund
  <2>3. QED
    BY <2>1, <2>2
<1> HIDE DEF withRefund
<1>4. CASE i \in withRefund
  <2>1. price[i] \div 4 \in Nat /\ (price[i] \div 4) % Cent = 0 /\ price[i] \div 4 <= price[i]
    BY <1>1, <1>2, <1>4, QuarterIsWhole DEF withRefund
  <2>2. RefundsOf(i) = {} \cup {ref[i]}
    BY <1>3a, <1>4 DEF RefundsOf
  <2>3. refunds[ref[i]].amount = price[i] \div 4
    BY <1>3a, <1>4
  <2>4. Total(refunds, {} \cup {ref[i]}) = refunds[ref[i]].amount + Total(refunds, {})
    BY <2>1, <2>3, TotalOfOneMore, FS_EmptySet
  <2>5. Total(refunds, RefundsOf(i)) = price[i] \div 4
    BY <2>1, <2>2, <2>3, <2>4, TotalOfNone
  <2>6. invoices[i].refunded = price[i] \div 4 /\ invoices[i].amount = price[i]
    BY <1>2, <1>4 DEF SeededInvoice, withRefund
  <2>7. IsFiniteSet(RefundsOf(i))
    <3>1. IsFiniteSet({} \cup {ref[i]})
      BY FS_AddElement, FS_EmptySet
    <3>2. QED
      BY <2>2, <3>1
  <2>8. QED
    BY <2>1, <2>5, <2>6, <2>7
<1>5. CASE i \notin withRefund
  <2>1. RefundsOf(i) = {}
    BY <1>3a, <1>5 DEF RefundsOf
  <2>2. invoices[i].refunded = 0 /\ invoices[i].amount = price[i]
    BY <1>2, <1>5 DEF SeededInvoice, withRefund
  <2>3. QED
    BY <1>2, <2>1, <2>2, TotalOfNone, FS_EmptySet
<1>6. QED
  BY <1>4, <1>5

LEMMA RefundKeepsAccounts ==
  ASSUME IInv, Accounted, WholeCents, NEW i \in InvoiceIds, NEW amount \in Amounts,
         NEW r \in RefundIds, refund_invoice(i, amount, r)
  PROVE  Accounted'
<1>1. PICK total \in RoundToCents(invoices[i].refunded + amount), partial \in BOOLEAN :
        invoices' = [invoices EXCEPT
          ![i].status = IF partial THEN "partially_refunded" ELSE "refunded",
          ![i].has_refund = TRUE, ![i].refunded = total]
  BY DEF refund_invoice, DiffersByMoreThanACent
<1>2. /\ i \in DOMAIN invoices /\ r \notin DOMAIN refunds /\ WithinRefundable(i, amount)
      /\ refunds' = [x \in DOMAIN refunds \cup {r} |->
                       IF x = r THEN [invoice |-> i, amount |-> amount] ELSE refunds[x]]
  BY DEF refund_invoice, Extend
<1>3. /\ invoices \in [DOMAIN invoices -> Invoice] /\ invoices[i] \in Invoice
      /\ refunds \in [DOMAIN refunds -> Refund]
  BY <1>2 DEF IInv, TypeOK, PartialFunction
<1> DEFINE so_far == invoices[i].refunded
           limit == invoices[i].amount
<1>4. so_far \in Nat /\ limit \in Nat /\ amount \in Nat /\ amount % Cent = 0 /\ so_far % Cent = 0
  BY <1>2, <1>3, PaymentsAssumption DEF Invoice, WholeCents, Accounted
<1>5. so_far + amount <= limit
  <2>1. FALSE \in Exceeds(amount, so_far, limit)
    BY <1>2 DEF WithinRefundable
  <2> HIDE DEF so_far, limit
  <2>2. CASE so_far # 0 /\ amount + so_far = limit
    BY <1>4, <2>2
  <2>3. CASE ~ (so_far # 0 /\ amount + so_far = limit)
    <3>1. Exceeds(amount, so_far, limit) = {amount + so_far > limit}
      BY <2>3 DEF Exceeds
    <3>2. ~ (amount + so_far > limit)
      BY <2>1, <3>1, Zenon
    <3>3. QED
      BY <1>4, <3>2
  <2>4. QED
    BY <2>2, <2>3
<1>6. total = so_far + amount
  <2>1. so_far + amount \in Nat /\ (so_far + amount) % Cent = 0
    <3> HIDE DEF so_far
    <3>1. QED
      BY <1>4
  <2>2. QED
    BY <1>1, <2>1, RoundingIsExact
<1>7. /\ DOMAIN invoices' = DOMAIN invoices
      /\ \A j \in DOMAIN invoices : j # i => invoices'[j] = invoices[j]
      /\ invoices'[i].refunded = total /\ invoices'[i].amount = limit
  BY <1>1, <1>2, <1>3 DEF Invoice
<1>8. RefundsOf(i)' = RefundsOf(i) \cup {r} /\ r \notin RefundsOf(i)
  BY <1>2 DEF RefundsOf
<1>9. \A x \in DOMAIN refunds : refunds'[x] = refunds[x] /\ refunds[x].amount \in Nat
  BY <1>2, <1>3 DEF Refund
<1>10. refunds'[r].amount = amount
  BY <1>2
<1>11. ASSUME NEW j \in DOMAIN invoices
       PROVE  /\ IsFiniteSet(RefundsOf(j)')
              /\ invoices'[j].refunded = Total(refunds', RefundsOf(j)')
              /\ invoices'[j].refunded % Cent = 0
              /\ invoices'[j].refunded <= invoices'[j].amount
  <2>1. IsFiniteSet(RefundsOf(j)) /\ RefundsOf(j) \subseteq DOMAIN refunds
    BY DEF Accounted, RefundsOf
  <2>2. CASE j = i
    <3>1. Total(refunds', RefundsOf(i) \cup {r}) = amount + Total(refunds, RefundsOf(i))
      BY <1>4, <1>8, <1>9, <1>10, <2>1, <2>2, TotalOfOneMore
    <3>2. Total(refunds, RefundsOf(i)) = so_far
      BY <1>2 DEF Accounted
    <3> HIDE DEF so_far, limit
    <3>3. IsFiniteSet(RefundsOf(i) \cup {r})
      BY <2>1, <2>2, FS_AddElement
    <3>4. amount + so_far = so_far + amount /\ (so_far + amount) % Cent = 0
      BY <1>4
    <3>5. QED
      BY <1>5, <1>6, <1>7, <1>8, <2>2, <3>1, <3>2, <3>3, <3>4
  <2>3. CASE j # i
    <3>1. RefundsOf(j)' = RefundsOf(j)
      BY <1>2, <2>3 DEF RefundsOf
    <3>2. Total(refunds', RefundsOf(j)) = Total(refunds, RefundsOf(j))
      BY <1>9, <2>1, TotalDependsOn
    <3>3. QED
      BY <1>7, <2>1, <2>3, <3>1, <3>2 DEF Accounted
  <2>4. QED
    BY <2>2, <2>3
<1>12. QED
  BY <1>7, <1>11 DEF Accounted

(* Every other tool leaves the refunds and what is recorded of them.       *)
LEMMA NextKeepsAccounts ==
  ASSUME IInv, Accounted, WholeCents, [Next]_vars
  PROVE  Accounted'
<1>1. invoices \in [DOMAIN invoices -> Invoice] /\ payments \in [DOMAIN payments -> Payment]
  BY DEF IInv, TypeOK, PartialFunction
<1>2. ASSUME refunds' = refunds, DOMAIN invoices \subseteq DOMAIN invoices',
             \A j \in DOMAIN invoices : /\ invoices'[j].refunded = invoices[j].refunded
                                        /\ invoices'[j].amount = invoices[j].amount,
             \A j \in DOMAIN invoices' \ DOMAIN invoices :
                invoices'[j].refunded = 0 /\ invoices'[j].amount \in Nat
      PROVE  Accounted'
  <2> SUFFICES ASSUME NEW j \in DOMAIN invoices'
               PROVE  /\ IsFiniteSet(RefundsOf(j))
                      /\ invoices'[j].refunded = Total(refunds, RefundsOf(j))
                      /\ invoices'[j].refunded % Cent = 0
                      /\ invoices'[j].refunded <= invoices'[j].amount
    BY <1>2 DEF Accounted, RefundsOf
  <2>1. CASE j \in DOMAIN invoices
    BY <1>2, <2>1 DEF Accounted
  <2>2. CASE j \notin DOMAIN invoices
    <3>1. RefundsOf(j) = {}
      BY <2>2 DEF RefundsOf, IInv, TypeOK
    <3>2. QED
      BY <1>2, <2>2, <3>1, TotalOfNone, FS_EmptySet
  <2>3. QED
    BY <2>1, <2>2
<1>3. ASSUME NEW i \in InvoiceIds, NEW amount \in Prices, create_invoice(i, amount)
      PROVE  Accounted'
  BY <1>2, <1>3, PaymentsAssumption DEF create_invoice, Extend
<1>4. ASSUME NEW i \in InvoiceIds, NEW amount \in Amounts, NEW p \in PaymentIds,
             pay_invoice(i, amount, p)
      PROVE  Accounted'
  BY <1>1, <1>2, <1>4 DEF pay_invoice, Invoice
<1>5. ASSUME NEW i \in InvoiceIds, NEW amount \in Amounts, NEW r \in RefundIds,
             refund_invoice(i, amount, r)
      PROVE  Accounted'
  BY <1>5, RefundKeepsAccounts
<1>6. ASSUME NEW p \in PaymentIds, cancel_payment(p)
      PROVE  Accounted'
  <2>1. payments[p].invoice \in DOMAIN invoices
    BY <1>6 DEF cancel_payment, IInv, TypeOK
  <2>2. QED
    BY <1>1, <1>2, <1>6, <2>1 DEF cancel_payment, Invoice
<1>7. ASSUME NEW i \in InvoiceIds, NEW d \in DisputeIds, dispute_invoice(i, d)
      PROVE  Accounted'
  BY <1>1, <1>2, <1>7 DEF dispute_invoice, Invoice
<1>8. CASE UNCHANGED vars
  BY <1>2, <1>8 DEF vars
<1>9. QED
  BY <1>3, <1>4, <1>5, <1>6, <1>7, <1>8 DEF Next

(* Cumulative refunds stay within the invoice when every amount given to   *)
(* the tools is a whole number of cents; without that they do not.         *)
THEOREM RefundsBounded ==
  ASSUME WholeCents
  PROVE  Spec => []RefundsWithinInvoice
<1>1. IInv /\ Accounted /\ [Next]_vars => IInv' /\ Accounted'
  BY NextKeepsInv, NextKeepsAccounts
<1>2. IInv /\ Accounted => RefundsWithinInvoice
  BY DEF Accounted, RefundsWithinInvoice, RefundTotal, Total
<1>3. QED
  BY <1>1, <1>2, InitInv, InitAccounted, PTL DEF Spec
=============================================================================
