CONSTANTS
  Products = {cable, lamp}
  o1 = o1
  o2 = o2
  o3 = o3
  r1 = r1
  r2 = r2
  OrderIds = {o1, o2, o3}
  SeededOrders = {o1}
  SeededReturn <- MCSeededReturn
  ReturnIds = {r1, r2}
  MaxQuantity = 2
SYMMETRY MCSymmetry
SPECIFICATION Spec
INVARIANTS
  ReviewsEarned
PROPERTIES
  StockConserved
CHECK_DEADLOCK FALSE
