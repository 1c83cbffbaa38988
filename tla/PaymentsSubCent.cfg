CONSTANTS
  InvoiceIds = {i1}
  Seeded = {i1}
  p1 = p1
  PaymentIds = {p1, p2}
  RefundIds = {r1, r2}
  DisputeIds = {d1}
  Prices = {40}
  Amounts = {4, 40}
  NoPayment = none
  SeedPayment <- MCSeedPayment
SPECIFICATION Spec
CHECK_DEADLOCK FALSE
INVARIANT RefundsWithinInvoice
