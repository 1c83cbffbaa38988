------------------------------ MODULE MCShopping ------------------------------
(* A finite instance of Shopping: two products, one seeded order and two    *)
(* placed later.                                                            *)
EXTENDS Shopping, TLC

CONSTANTS o1, o2, o3, r1, r2

MCSeededReturn == [o \in SeededOrders |-> IF o = o1 THEN r1 ELSE r2]
MCSymmetry == Permutations(OrderIds \ SeededOrders)
=============================================================================
