CONSTANTS
  InvoiceIds = {i1, i2}
  Seeded = {i1}
  p1 = p1
  PaymentIds = {p1, p2, p3}
  RefundIds = {r1, r2, r3}
  DisputeIds = {d1, d2}
  Prices = {40, 50}
  Amounts = {10, 20, 30, 40, 50}
  NoPayment = none
  SeedPayment <- MCSeedPayment
SYMMETRY MCSymmetry
SPECIFICATION Spec
INVARIANTS
  LifecyclesAgree
  NoDoublePayment
  RefundsWithinInvoice
PROPERTIES
  DisputeFreezesMoney
  SettledIsFinal
CHECK_DEADLOCK FALSE
