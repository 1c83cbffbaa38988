----------------------------- MODULE ShoppingProofs -----------------------------
(***************************************************************************)
(* Proofs about a session of the shopping server (Shopping), for any       *)
(* products, orders, quantities and seeded state.                          *)
(*                                                                         *)
(* A review is earned by an order that was shipped; that no call takes     *)
(* such an order back rests on the two sets of statuses being apart        *)
(* (Cancellable, ShippedOnce).  Conservation is about sizes of sets: the   *)
(* items of an order are as many as it says (ItemsCounted), a checkout     *)
(* adds those of the cart, a cancellation takes those of the order away,   *)
(* and what the other calls do leaves the set as it is (OrderedMoves).     *)
(***************************************************************************)
EXTENDS Shopping, FiniteSetTheorems, TLAPS

ShippedOnce == {"shipped", "returning", "returned"}

(* A return is of products of an order that was shipped.                   *)
ReturnsOfShipped ==
  \A r \in DOMAIN returns :
    /\ returns[r].order \in DOMAIN orders
    /\ orders[returns[r].order].status \in ShippedOnce
    /\ returns[r].items # {}
    /\ \A p \in returns[r].items : p \in Products /\ orders[returns[r].order].items[p] > 0

FinitelyMany == IsFiniteSet(DOMAIN orders)

IInv == TypeOK /\ FinitelyMany /\ ReturnsOfShipped /\ ReviewsEarned

Order  == [items : Lines, status : OrderStatuses]
Return == [order : OrderIds, items : SUBSET Products]

-----------------------------------------------------------------------------
(* Partial functions.                                                      *)
LEMMA Extended ==
  ASSUME NEW f, NEW S, NEW T, PartialFunction(f, S, T), NEW k \in S, NEW v \in T
  PROVE  /\ PartialFunction(Extend(f, k, v), S, T)
         /\ DOMAIN Extend(f, k, v) = DOMAIN f \cup {k}
         /\ Extend(f, k, v)[k] = v
         /\ \A x \in DOMAIN f : x # k => Extend(f, k, v)[x] = f[x]
BY DEF PartialFunction, Extend

(* An order with another status is what it was otherwise.                  *)
LEMMA StatusChanged ==
  ASSUME TypeOK, NEW o \in DOMAIN orders, NEW status \in OrderStatuses,
         orders' = [orders EXCEPT ![o].status = status]
  PROVE  /\ PartialFunction(orders', OrderIds, Order) /\ DOMAIN orders' = DOMAIN orders
         /\ orders'[o].status = status
         /\ \A x \in DOMAIN orders : orders'[x].items = orders[x].items
         /\ \A x \in DOMAIN orders : x # o => orders'[x] = orders[x]
<1>1. orders \in [DOMAIN orders -> Order] /\ DOMAIN orders \subseteq OrderIds
  BY DEF TypeOK, PartialFunction, Order
<1>2. ASSUME NEW x \in DOMAIN orders
      PROVE  orders'[x] = IF x = o THEN [orders[x] EXCEPT !.status = status] ELSE orders[x]
  BY <1>1
<1>3. ASSUME NEW q \in Order
      PROVE  /\ [q EXCEPT !.status = status] \in Order
             /\ [q EXCEPT !.status = status].status = status
             /\ [q EXCEPT !.status = status].items = q.items
  BY DEF Order
<1>4. DOMAIN orders' = DOMAIN orders
  BY <1>1
<1>5. orders' \in [DOMAIN orders -> Order]
  <2>1. orders' = [x \in DOMAIN orders |-> orders'[x]]
    BY <1>1
  <2>2. ASSUME NEW x \in DOMAIN orders PROVE orders'[x] \in Order
    BY <1>1, <1>2, <1>3
  <2> QED
    BY <2>1, <2>2
<1> QED
  BY <1>1, <1>2, <1>3, <1>4, <1>5 DEF PartialFunction

(* Sums of quantities.                                                     *)
LEMMA LinesAdd ==
  ASSUME NEW f \in Lines, NEW g \in Lines
  PROVE  Plus(f, g) \in Lines /\ \A p \in Products : Plus(f, g)[p] = f[p] + g[p]
BY DEF Lines, Plus

-----------------------------------------------------------------------------
(* The first state.                                                        *)
LEMMA Initially == Init => IInv
<1> SUFFICES ASSUME Init PROVE IInv
  OBVIOUS
<1>0. PICK status \in [SeededOrders -> {"pending", "shipped", "returning", "returned"}],
         items \in [SeededOrders -> (SUBSET Products) \ {{}}],
         early \in SUBSET SeededOrders :
      LET Returned == {o \in SeededOrders :
            status[o] \in {"returning", "returned"} \/ (o \in early /\ status[o] = "shipped")}
      IN /\ stock \in [Products -> Quantities]
         /\ cart \in [Products -> 0 .. 1]
         /\ orders = [o \in SeededOrders |->
              [items |-> [p \in Products |-> IF p \in items[o] THEN 1 ELSE 0],
               status |-> status[o]]]
         /\ returns = [r \in {SeededReturn[o] : o \in Returned} |->
              LET o == CHOOSE x \in Returned : SeededReturn[x] = r
              IN [order |-> o, items |-> {CHOOSE p \in items[o] : TRUE}]]
         /\ reviews \in {{}} \cup {{p} : p \in UNION {items[o] :
              o \in {x \in SeededOrders : status[x] = "shipped"}}}
  BY DEF Init
<1> DEFINE Returned == {o \in SeededOrders :
             status[o] \in {"returning", "returned"} \/ (o \in early /\ status[o] = "shipped")}
           OrderOf(r) == CHOOSE x \in Returned : SeededReturn[x] = r
           One(o) == CHOOSE p \in items[o] : TRUE
<1>p. /\ items \in [SeededOrders -> (SUBSET Products) \ {{}}]
      /\ orders = [o \in DOMAIN orders |-> orders[o]]
      /\ returns = [r \in DOMAIN returns |-> returns[r]]
  BY <1>0
<1>1. /\ DOMAIN orders = SeededOrders
      /\ \A o \in SeededOrders :
           /\ orders[o].items = [p \in Products |-> IF p \in items[o] THEN 1 ELSE 0]
           /\ orders[o].status = status[o]
           /\ orders[o] \in Order
  BY <1>0 DEF Order, Lines, OrderStatuses
<1>2. \A o \in SeededOrders : ProductsOf(o) = items[o] /\ items[o] # {} /\ items[o] \subseteq Products
  <2> SUFFICES ASSUME NEW o \in SeededOrders
               PROVE  ProductsOf(o) = items[o] /\ items[o] # {} /\ items[o] \subseteq Products
    OBVIOUS
  <2>1. items[o] # {} /\ items[o] \subseteq Products
    BY <1>p
  <2>2. ASSUME NEW p \in Products
        PROVE  orders[o].items[p] > 0 <=> p \in items[o]
    <3>1. orders[o].items[p] = IF p \in items[o] THEN 1 ELSE 0
      BY <1>1
    <3> QED
      BY <3>1
  <2> QED
    BY <2>1, <2>2 DEF ProductsOf
<1>3. /\ DOMAIN returns = {SeededReturn[o] : o \in Returned}
      /\ \A r \in DOMAIN returns :
           returns[r] = [order |-> OrderOf(r), items |-> {One(OrderOf(r))}]
  BY <1>0
<1>4. \A r \in DOMAIN returns : OrderOf(r) \in Returned
  BY <1>3
<1>5. \A o \in SeededOrders : One(o) \in items[o]
  BY <1>2
<1>6. PartialFunction(orders, OrderIds, [items : Lines, status : OrderStatuses])
  BY <1>1, <1>p, ShoppingAssumption DEF PartialFunction, Order
<1>7. PartialFunction(returns, ReturnIds, Return)
  <2>1. DOMAIN returns \subseteq ReturnIds
    BY <1>3, ShoppingAssumption
  <2>2. ASSUME NEW r \in DOMAIN returns PROVE returns[r] \in Return
    <3>0. OrderOf(r) \in SeededOrders
      BY <1>4
    <3>1. OrderOf(r) \in SeededOrders /\ One(OrderOf(r)) \in Products
      <4> HIDE DEF OrderOf, One
      <4> QED
        BY <1>2, <1>5, <3>0
    <3>2. OrderOf(r) \in OrderIds
      BY <3>1, ShoppingAssumption
    <3>3. returns[r] = [order |-> OrderOf(r), items |-> {One(OrderOf(r))}]
      BY <1>3, <2>2
    <3> HIDE DEF OrderOf, One
    <3> QED
      BY <2>2, <3>1, <3>2, <3>3 DEF Return
  <2> QED
    BY <1>p, <2>1, <2>2 DEF PartialFunction
<1>8. ReturnsOfShipped
  <2> SUFFICES ASSUME NEW r \in DOMAIN returns
               PROVE  /\ returns[r].order \in DOMAIN orders
                      /\ orders[returns[r].order].status \in ShippedOnce
                      /\ returns[r].items # {}
                      /\ \A p \in returns[r].items :
                           p \in Products /\ orders[returns[r].order].items[p] > 0
    BY DEF ReturnsOfShipped
  <2>1. OrderOf(r) \in Returned
    BY <1>4
  <2>2. returns[r].order = OrderOf(r) /\ returns[r].items = {One(OrderOf(r))}
    <3>1. returns[r] = [order |-> OrderOf(r), items |-> {One(OrderOf(r))}]
      BY <1>3
    <3> HIDE DEF OrderOf, One
    <3> QED
      BY <3>1
  <2>3. OrderOf(r) \in SeededOrders /\ status[OrderOf(r)] \in ShippedOnce
    <3>1. \A x \in Returned : x \in SeededOrders /\ status[x] \in ShippedOnce
      BY DEF ShippedOnce
    <3> HIDE DEF OrderOf, Returned
    <3> QED
      BY <2>1, <3>1
  <2>4. ASSUME NEW o \in SeededOrders
        PROVE  /\ One(o) \in Products /\ orders[o].items[One(o)] > 0
               /\ orders[o].status = status[o] /\ o \in DOMAIN orders
    <3>1. One(o) \in items[o] /\ ProductsOf(o) = items[o]
      BY <1>2, <1>5, <2>4
    <3> HIDE DEF One
    <3> QED
      BY <1>1, <2>4, <3>1 DEF ProductsOf
  <2>5. PICK o \in SeededOrders, p \in Products :
          /\ o = OrderOf(r) /\ p = One(o) /\ status[o] \in ShippedOnce
          /\ orders[o].items[p] > 0 /\ orders[o].status = status[o] /\ o \in DOMAIN orders
    <3> HIDE DEF OrderOf, One
    <3> QED
      BY <2>3, <2>4
  <2>6. returns[r].order = o /\ returns[r].items = {p}
    <3> HIDE DEF OrderOf, One
    <3> QED
      BY <2>2, <2>5
  <2> HIDE DEF OrderOf, One
  <2> QED
    BY <2>5, <2>6
<1>9. ReviewsEarned /\ reviews \subseteq Products
  <2>1. ASSUME NEW p \in reviews
        PROVE  p \in Products /\ ReviewEligible(p)
    <3>1. PICK o \in SeededOrders : status[o] = "shipped" /\ p \in items[o]
      BY <1>0, <2>1
    <3> QED
      BY <1>1, <1>2, <3>1 DEF ReviewEligible
  <2> QED
    BY <2>1 DEF ReviewsEarned
<1>10. stock \in Lines /\ cart \in Lines
  BY <1>0, ShoppingAssumption DEF Lines, Quantities
<1> QED
  BY <1>1, <1>6, <1>7, <1>8, <1>9, <1>10, ShoppingAssumption
  DEF IInv, TypeOK, FinitelyMany, Return

-----------------------------------------------------------------------------
(* What a call does to the orders: nothing, one more, or another status.   *)
SameOrders == UNCHANGED orders
NewOrder   == \E o \in OrderIds : checkout(o)
NewStatus(o, status) ==
  /\ o \in DOMAIN orders /\ status \in OrderStatuses
  /\ orders' = [orders EXCEPT ![o].status = status]

(* Orders that were shipped stay so, with their products.                  *)
LEMMA ShippedStays ==
  ASSUME IInv, Next \/ UNCHANGED vars,
         NEW x \in DOMAIN orders, orders[x].status \in ShippedOnce
  PROVE  /\ x \in DOMAIN orders'
         /\ orders'[x].status \in ShippedOnce
         /\ orders'[x].items = orders[x].items
<1> USE DEF ShippedOnce
<1>1. TypeOK /\ PartialFunction(orders, OrderIds, Order)
  BY DEF IInv, TypeOK, Order
<1>2. ASSUME NEW o \in OrderIds, checkout(o)
      PROVE  x # o /\ orders'[x] = orders[x] /\ x \in DOMAIN orders'
  BY <1>2 DEF checkout, Extend
<1>3. ASSUME NEW o \in OrderIds, cancel_order(o)
      PROVE  x # o /\ orders'[x] = orders[x] /\ x \in DOMAIN orders'
  <2>1. o \in DOMAIN orders /\ o # x
    BY <1>3 DEF cancel_order, Cancellable
  <2>2. orders' = [orders EXCEPT ![o].status = "cancelled"]
    BY <1>3 DEF cancel_order
  <2> QED
    BY <1>1, <2>1, <2>2, StatusChanged DEF OrderStatuses
<1>4. ASSUME NEW o \in OrderIds, NEW S \in SUBSET Products, NEW r \in ReturnIds, return_order(o, S, r)
      PROVE  /\ x \in DOMAIN orders'
             /\ orders'[x].status \in ShippedOnce /\ orders'[x].items = orders[x].items
  <2>1. o \in DOMAIN orders /\ orders' = [orders EXCEPT ![o].status = "returning"]
    BY <1>4 DEF return_order
  <2> QED
    BY <1>1, <2>1, StatusChanged DEF OrderStatuses
<1>5. ASSUME UNCHANGED orders
      PROVE  x \in DOMAIN orders' /\ orders'[x] = orders[x]
  BY <1>5
<1> QED
  BY <1>2, <1>3, <1>4, <1>5 DEF Next, add_to_cart, update_cart_quantity, remove_from_cart,
     clear_cart, add_review, vars

-----------------------------------------------------------------------------
(* Types, call by call.                                                    *)
LEMMA TypeStep == ASSUME IInv, Next \/ UNCHANGED vars PROVE TypeOK' /\ FinitelyMany'
<1>0. TypeOK /\ FinitelyMany
  BY DEF IInv
<1>1. stock \in Lines /\ cart \in Lines /\ reviews \subseteq Products
      /\ PartialFunction(orders, OrderIds, Order) /\ PartialFunction(returns, ReturnIds, Return)
  BY <1>0 DEF TypeOK, Order, Return
<1>2. ASSUME NEW f \in Lines, NEW p \in Products
      PROVE  f[p] \in Nat /\ \A n \in Nat : [f EXCEPT ![p] = n] \in Lines
  BY DEF Lines
<1>3. ASSUME stock' \in Lines, cart' \in Lines, UNCHANGED << orders, returns, reviews >>
      PROVE  TypeOK' /\ FinitelyMany'
  BY <1>0, <1>1, <1>3 DEF TypeOK, FinitelyMany
<1>4. Empty \in Lines
  BY DEF Empty, Lines
<1>5. CASE \E p \in Products, quantity \in Quantities : add_to_cart(p, quantity)
  <2>1. PICK p \in Products, quantity \in Quantities : add_to_cart(p, quantity)
    BY <1>5
  <2>2. stock[p] \in Nat /\ cart[p] \in Nat /\ quantity \in Nat
    <3>1. quantity \in Nat
      BY ShoppingAssumption DEF Quantities
    <3> QED
      BY <1>1, <1>2, <3>1
  <2>3. stock[p] - quantity \in Nat /\ cart[p] + quantity \in Nat
    BY <2>1, <2>2 DEF add_to_cart
  <2>4. stock' \in Lines /\ cart' \in Lines
    BY <1>1, <1>2, <2>1, <2>3 DEF add_to_cart
  <2> QED
    BY <1>3, <2>1, <2>4 DEF add_to_cart
<1>6. CASE \E p \in Products, quantity \in Quantities : update_cart_quantity(p, quantity)
  <2>1. PICK p \in Products, quantity \in Quantities : update_cart_quantity(p, quantity)
    BY <1>6
  <2>2. stock[p] \in Nat /\ cart[p] \in Nat /\ quantity \in Nat
    <3>1. quantity \in Nat
      BY ShoppingAssumption DEF Quantities
    <3> QED
      BY <1>1, <1>2, <3>1
  <2>3. stock[p] - (quantity - cart[p]) \in Nat
    BY <2>1, <2>2 DEF update_cart_quantity
  <2> QED
    BY <1>1, <1>2, <1>3, <2>1, <2>2, <2>3 DEF update_cart_quantity
<1>7. CASE \E p \in Products : remove_from_cart(p)
  <2>1. PICK p \in Products : remove_from_cart(p)
    BY <1>7
  <2>2. stock[p] \in Nat /\ cart[p] \in Nat
    BY <1>1, <1>2
  <2>3. stock[p] + cart[p] \in Nat
    BY <2>2
  <2> QED
    BY <1>1, <1>2, <1>3, <2>1, <2>3 DEF remove_from_cart
<1>8. CASE clear_cart
  BY <1>1, <1>3, <1>4, <1>8, LinesAdd DEF clear_cart
<1>9. CASE \E o \in OrderIds : checkout(o)
  <2>1. PICK o \in OrderIds : checkout(o)
    BY <1>9
  <2>2. [items |-> cart, status |-> "placed"] \in Order
    BY <1>1 DEF Order, OrderStatuses
  <2>3. /\ PartialFunction(orders', OrderIds, Order)
        /\ DOMAIN orders' = DOMAIN orders \cup {o}
    <3>1. PICK v : v = [items |-> cart, status |-> "placed"]
      OBVIOUS
    <3>2. v \in Order /\ orders' = Extend(orders, o, v)
      BY <2>1, <2>2, <3>1 DEF checkout
    <3> QED
      BY <1>1, <3>2, Extended
  <2>4. IsFiniteSet(DOMAIN orders')
    BY <1>0, <2>3, FS_AddElement DEF FinitelyMany
  <2> QED
    BY <1>1, <1>4, <2>1, <2>3, <2>4 DEF TypeOK, FinitelyMany, checkout, Order, Return
<1>10. CASE \E o \in OrderIds : cancel_order(o)
  <2>1. PICK o \in OrderIds : cancel_order(o)
    BY <1>10
  <2>2. PartialFunction(orders', OrderIds, Order) /\ DOMAIN orders' = DOMAIN orders
    BY <1>0, <2>1, StatusChanged DEF cancel_order, OrderStatuses
  <2>3. orders[o].items \in Lines
    BY <1>1, <2>1 DEF cancel_order, PartialFunction, Order
  <2>4. stock' \in Lines
    BY <1>1, <2>1, <2>3, LinesAdd DEF cancel_order
  <2> QED
    BY <1>0, <1>1, <2>1, <2>2, <2>4 DEF TypeOK, FinitelyMany, cancel_order, Order, Return
<1>11. CASE \E o \in OrderIds, S \in SUBSET Products, r \in ReturnIds : return_order(o, S, r)
  <2>1. PICK o \in OrderIds, S \in SUBSET Products, r \in ReturnIds : return_order(o, S, r)
    BY <1>11
  <2>2. PartialFunction(orders', OrderIds, Order) /\ DOMAIN orders' = DOMAIN orders
    BY <1>0, <2>1, StatusChanged DEF return_order, OrderStatuses
  <2>3. PartialFunction(returns', ReturnIds, Return)
    BY <1>1, <2>1, Extended DEF return_order, Return
  <2> QED
    BY <1>0, <1>1, <2>1, <2>2, <2>3 DEF TypeOK, FinitelyMany, return_order, Order, Return
<1>12. CASE \E p \in Products : add_review(p)
  BY <1>0, <1>1, <1>12 DEF TypeOK, FinitelyMany, add_review
<1>13. CASE UNCHANGED vars
  BY <1>0, <1>13 DEF TypeOK, FinitelyMany, vars
<1> QED
  BY <1>5, <1>6, <1>7, <1>8, <1>9, <1>10, <1>11, <1>12, <1>13 DEF Next

-----------------------------------------------------------------------------
LEMMA ReturnsStep == ASSUME IInv, Next \/ UNCHANGED vars PROVE ReturnsOfShipped'
<1>1. TypeOK /\ ReturnsOfShipped
  BY DEF IInv
<1> DEFINE Good(ret, q) == /\ q.status \in ShippedOnce
                           /\ ret.items # {}
                           /\ \A p \in ret.items : p \in Products /\ q.items[p] > 0
<1> SUFFICES ASSUME NEW r \in DOMAIN returns'
             PROVE  /\ returns'[r].order \in DOMAIN orders'
                    /\ Good(returns'[r], orders'[returns'[r].order])
  BY DEF ReturnsOfShipped
<1>2. CASE r \in DOMAIN returns /\ returns'[r] = returns[r]
  <2>1. PICK o : o = returns[r].order
    OBVIOUS
  <2>2. o \in DOMAIN orders /\ Good(returns[r], orders[o])
    BY <1>1, <1>2, <2>1 DEF ReturnsOfShipped
  <2>3. o \in DOMAIN orders' /\ orders'[o].status \in ShippedOnce /\ orders'[o].items = orders[o].items
    BY <2>2, ShippedStays
  <2> QED
    BY <1>2, <2>1, <2>2, <2>3
<1>3. CASE ~ (r \in DOMAIN returns /\ returns'[r] = returns[r])
  <2>1. PICK o \in OrderIds, S \in SUBSET Products, k \in ReturnIds : return_order(o, S, k)
    BY <1>3 DEF Next, add_to_cart, update_cart_quantity, remove_from_cart, clear_cart, checkout,
       cancel_order, add_review, vars
  <2>2. returns'[r] = [order |-> o, items |-> S]
    BY <1>3, <2>1 DEF return_order, Extend
  <2>3. o \in DOMAIN orders /\ orders[o].status \in ShippedOnce
    BY <2>1 DEF return_order, ShippedOnce
  <2>4. o \in DOMAIN orders' /\ orders'[o].status \in ShippedOnce /\ orders'[o].items = orders[o].items
    BY <2>3, ShippedStays
  <2>5. S # {} /\ \A p \in S : p \in Products /\ orders[o].items[p] > 0
    BY <2>1 DEF return_order, ProductsOf
  <2> QED
    BY <2>2, <2>4, <2>5
<1> QED
  BY <1>2, <1>3

LEMMA ReviewsStep == ASSUME IInv, Next \/ UNCHANGED vars PROVE ReviewsEarned'
<1> SUFFICES ASSUME NEW p \in reviews' PROVE ReviewEligible(p)'
  BY DEF ReviewsEarned
<1>1. ReviewEligible(p)
  <2>1. CASE p \in reviews
    BY <2>1 DEF IInv, ReviewsEarned
  <2>2. CASE p \notin reviews
    BY <2>2 DEF Next, add_to_cart, update_cart_quantity, remove_from_cart, clear_cart, checkout,
       cancel_order, return_order, add_review, vars
  <2> QED
    BY <2>1, <2>2
<1>2. PICK o \in DOMAIN orders : orders[o].status \in ShippedOnce /\ p \in ProductsOf(o)
  BY <1>1 DEF ReviewEligible, ShippedOnce
<1>3. o \in DOMAIN orders' /\ orders'[o].status \in ShippedOnce /\ orders'[o].items = orders[o].items
  BY <1>2, ShippedStays
<1>4. p \in ProductsOf(o)'
  BY <1>2, <1>3 DEF ProductsOf
<1> QED
  BY <1>3, <1>4 DEF ReviewEligible, ShippedOnce

LEMMA Invariant == Spec => []IInv
<1>1. IInv /\ [Next]_vars => IInv'
  BY TypeStep, ReturnsStep, ReviewsStep DEF IInv
<1> QED
  BY Initially, <1>1, PTL DEF Spec

(* Every record keeps its shape; in particular no stock is ever negative,  *)
(* although a cart may be changed to any quantity.                         *)
THEOREM TypeCorrect == Spec => []TypeOK
<1>1. IInv => TypeOK
  BY DEF IInv
<1> QED
  BY Invariant, <1>1, PTL

(* A review stays earned: no later cancellation or return takes away the   *)
(* shipped order that made add_review accept it.                           *)
THEOREM Earned == Spec => []ReviewsEarned
<1>1. IInv => ReviewsEarned
  BY DEF IInv
<1> QED
  BY Invariant, <1>1, PTL

(* What is being returned was shipped, and is part of its order, whichever *)
(* calls came since return_order.                                          *)
THEOREM ReturnsShipped == Spec => []ReturnsOfShipped
<1>1. IInv => ReturnsOfShipped
  BY DEF IInv
<1> QED
  BY Invariant, <1>1, PTL

-----------------------------------------------------------------------------
(* Sizes.  The items of an order are as many as it says.                   *)
LEMMA ItemsCounted ==
  ASSUME NEW x, NEW n \in Nat
  PROVE  IsFiniteSet({x} \X (1 .. n)) /\ Cardinality({x} \X (1 .. n)) = n
<1> DEFINE A == {x}
           B == 1 .. n
<1>1. IsFiniteSet(A) /\ Cardinality(A) = 1
  BY FS_Singleton
<1>2. IsFiniteSet(B) /\ Cardinality(B) = n
  BY FS_Interval
<1> HIDE DEF A, B
<1>3. IsFiniteSet(A \X B) /\ Cardinality(A \X B) = Cardinality(A) * Cardinality(B)
  BY <1>1, <1>2, FS_Product
<1>4. Cardinality(A \X B) = n
  BY <1>1, <1>2, <1>3
<1> QED
  BY <1>3, <1>4 DEF A, B

(* What is apart adds up.                                                  *)
LEMMA DisjointUnion ==
  ASSUME NEW S, NEW T, IsFiniteSet(S), IsFiniteSet(T), NEW U, U = S \cup T,
         \A x : ~ (x \in S /\ x \in T)
  PROVE  IsFiniteSet(U) /\ Cardinality(U) = Cardinality(S) + Cardinality(T)
<1>1. IsFiniteSet(S \cup T)
      /\ Cardinality(S \cup T) = Cardinality(S) + Cardinality(T) - Cardinality(S \cap T)
  BY FS_Union
<1>2. S \cap T = {}
  OBVIOUS
<1>3. Cardinality(S \cap T) = 0
  BY <1>2, FS_EmptySet
<1>4. Cardinality(S) \in Nat /\ Cardinality(T) \in Nat
  BY FS_CardinalityType
<1> QED
  BY <1>1, <1>3, <1>4

(* The items of a product in a live order, now and after the call.         *)
LEMMA OrderedIs ==
  ASSUME NEW p, NEW e
  PROVE  /\ e \in Ordered(p) <=>
              \E o \in DOMAIN orders :
                /\ orders[o].status # "cancelled"
                /\ e \in {o} \X (1 .. orders[o].items[p])
         /\ e \in Ordered(p)' <=>
              \E o \in DOMAIN orders' :
                /\ orders'[o].status # "cancelled"
                /\ e \in {o} \X (1 .. orders'[o].items[p])
BY DEF Ordered, ItemsOf

OrderedFinite == \A p \in Products : IsFiniteSet(Ordered(p))

(* The seeded orders hold at most one of each product.                     *)
LEMMA FiniteAtFirst == Init => OrderedFinite
<1> SUFFICES ASSUME Init, NEW p \in Products PROVE IsFiniteSet(Ordered(p))
  BY DEF OrderedFinite
<1>1. orders \in [SeededOrders -> [items : [Products -> 0 .. 1], status : OrderStatuses]]
  BY DEF Init, OrderStatuses
<1>2. IsFiniteSet(SeededOrders \X (1 .. 1))
  <2>1. IsFiniteSet(1 .. 1)
    <3>1. PICK n \in Nat : n = 1
      OBVIOUS
    <3>2. IsFiniteSet(1 .. n)
      BY FS_Interval
    <3> QED
      BY <3>1, <3>2
  <2> QED
    BY <2>1, FS_Product, ShoppingAssumption
<1>3. Ordered(p) \subseteq SeededOrders \X (1 .. 1)
  <2> SUFFICES ASSUME NEW e \in Ordered(p) PROVE e \in SeededOrders \X (1 .. 1)
    OBVIOUS
  <2>1. PICK o \in DOMAIN orders : e \in {o} \X (1 .. orders[o].items[p])
    BY OrderedIs
  <2>2. o \in SeededOrders /\ orders[o].items[p] \in 0 .. 1
    BY <1>1
  <2> QED
    BY <2>1, <2>2
<1> QED
  BY <1>2, <1>3, FS_Subset

(* A checkout adds the items of the cart, a cancellation takes those of    *)
(* its order away, and no other call touches the items of live orders.     *)
LEMMA OrderedMoves ==
  ASSUME IInv, Next \/ UNCHANGED vars, NEW p \in Products
  PROVE  \/ /\ stock'[p] + cart'[p] = stock[p] + cart[p]
            /\ Ordered(p)' = Ordered(p)
         \/ \E o \in OrderIds \ DOMAIN orders :
              /\ stock'[p] = stock[p] /\ cart'[p] = 0
              /\ Ordered(p)' = Ordered(p) \cup ({o} \X (1 .. cart[p]))
              /\ \A x : ~ (x \in Ordered(p) /\ x \in {o} \X (1 .. cart[p]))
         \/ \E o \in DOMAIN orders :
              /\ stock'[p] = stock[p] + orders[o].items[p] /\ cart'[p] = cart[p]
              /\ Ordered(p) = Ordered(p)' \cup ({o} \X (1 .. orders[o].items[p]))
              /\ \A x : ~ (x \in Ordered(p)' /\ x \in {o} \X (1 .. orders[o].items[p]))
<1>0. TypeOK
  BY DEF IInv
<1>1. stock \in Lines /\ cart \in Lines /\ PartialFunction(orders, OrderIds, Order)
  BY <1>0 DEF TypeOK, Order
<1>2. stock[p] \in Nat /\ cart[p] \in Nat
  BY <1>1 DEF Lines
<1>3. ASSUME UNCHANGED orders PROVE Ordered(p)' = Ordered(p)
  BY <1>3 DEF Ordered, ItemsOf
<1>4. ASSUME NEW f \in Lines, NEW q \in Products, NEW n
      PROVE  [f EXCEPT ![q] = n][p] = IF p = q THEN n ELSE f[p]
  BY DEF Lines
<1>5. CASE \E q \in Products, quantity \in Quantities : add_to_cart(q, quantity)
  <2>1. PICK q \in Products, quantity \in Quantities : add_to_cart(q, quantity)
    BY <1>5
  <2>2. quantity \in Nat
    BY ShoppingAssumption DEF Quantities
  <2>3. /\ stock'[p] = IF p = q THEN stock[p] - quantity ELSE stock[p]
        /\ cart'[p] = IF p = q THEN cart[p] + quantity ELSE cart[p]
    BY <1>1, <1>4, <2>1 DEF add_to_cart
  <2> QED
    BY <1>2, <1>3, <2>1, <2>2, <2>3 DEF add_to_cart
<1>6. CASE \E q \in Products, quantity \in Quantities : update_cart_quantity(q, quantity)
  <2>1. PICK q \in Products, quantity \in Quantities : update_cart_quantity(q, quantity)
    BY <1>6
  <2>2. quantity \in Nat
    BY ShoppingAssumption DEF Quantities
  <2>3. /\ stock'[p] = IF p = q THEN stock[p] - (quantity - cart[p]) ELSE stock[p]
        /\ cart'[p] = IF p = q THEN quantity ELSE cart[p]
    BY <1>1, <1>4, <2>1 DEF update_cart_quantity
  <2> QED
    BY <1>2, <1>3, <2>1, <2>2, <2>3 DEF update_cart_quantity
<1>7. CASE \E q \in Products : remove_from_cart(q)
  <2>1. PICK q \in Products : remove_from_cart(q)
    BY <1>7
  <2>2. /\ stock'[p] = IF p = q THEN stock[p] + cart[p] ELSE stock[p]
        /\ cart'[p] = IF p = q THEN 0 ELSE cart[p]
    BY <1>1, <1>4, <2>1 DEF remove_from_cart
  <2> QED
    BY <1>2, <1>3, <2>1, <2>2 DEF remove_from_cart
<1>8. CASE clear_cart
  <2>1. stock'[p] = stock[p] + cart[p] /\ cart'[p] = 0
    BY <1>1, <1>8, LinesAdd DEF clear_cart, Empty
  <2> QED
    BY <1>2, <1>3, <1>8, <2>1 DEF clear_cart
<1>9. CASE \E o \in OrderIds : checkout(o)
  <2>1. PICK o \in OrderIds : checkout(o)
    BY <1>9
  <2>2. o \in OrderIds \ DOMAIN orders /\ stock'[p] = stock[p] /\ cart'[p] = 0
    BY <2>1 DEF checkout, Empty
  <2>3. /\ DOMAIN orders' = DOMAIN orders \cup {o}
        /\ \A x \in DOMAIN orders : orders'[x] = orders[x]
        /\ orders'[o].items = cart /\ orders'[o].status = "placed"
    BY <2>1, <2>2 DEF checkout, Extend
  <2>4. ASSUME NEW e
        PROVE  e \in Ordered(p)' <=> e \in Ordered(p) \/ e \in {o} \X (1 .. cart[p])
    <3>1. e \in Ordered(p)' <=>
            \E x \in DOMAIN orders' :
              orders'[x].status # "cancelled" /\ e \in {x} \X (1 .. orders'[x].items[p])
      BY OrderedIs
    <3>2. e \in Ordered(p) <=>
            \E x \in DOMAIN orders :
              orders[x].status # "cancelled" /\ e \in {x} \X (1 .. orders[x].items[p])
      BY OrderedIs
    <3> QED
      BY <2>3, <3>1, <3>2
  <2>5. ASSUME NEW e, e \in Ordered(p), e \in {o} \X (1 .. cart[p]) PROVE FALSE
    BY <2>2, <2>5, OrderedIs
  <2> QED
    BY <2>2, <2>4, <2>5
<1>10. CASE \E o \in OrderIds : cancel_order(o)
  <2>1. PICK o \in OrderIds : cancel_order(o)
    BY <1>10
  <2>2. o \in DOMAIN orders /\ orders[o].status # "cancelled" /\ cart'[p] = cart[p]
    BY <2>1 DEF cancel_order, Cancellable
  <2>3. orders[o].items \in Lines
    BY <1>1, <2>2 DEF PartialFunction, Order
  <2>4. stock'[p] = stock[p] + orders[o].items[p]
    BY <1>1, <2>1, <2>3, LinesAdd DEF cancel_order
  <2>5. /\ DOMAIN orders' = DOMAIN orders
        /\ orders'[o].status = "cancelled"
        /\ \A x \in DOMAIN orders : x # o => orders'[x] = orders[x]
    BY <1>0, <2>1, <2>2, StatusChanged DEF cancel_order, OrderStatuses
  <2>6. ASSUME NEW e
        PROVE  /\ e \in Ordered(p) <=> e \in Ordered(p)' \/ e \in {o} \X (1 .. orders[o].items[p])
               /\ ~ (e \in Ordered(p)' /\ e \in {o} \X (1 .. orders[o].items[p]))
    <3>1. e \in Ordered(p)' <=>
            \E x \in DOMAIN orders' :
              orders'[x].status # "cancelled" /\ e \in {x} \X (1 .. orders'[x].items[p])
      BY OrderedIs
    <3>2. e \in Ordered(p) <=>
            \E x \in DOMAIN orders :
              orders[x].status # "cancelled" /\ e \in {x} \X (1 .. orders[x].items[p])
      BY OrderedIs
    <3>3. ASSUME NEW x \in DOMAIN orders, e \in {x} \X (1 .. orders[x].items[p]),
                 e \in {o} \X (1 .. orders[o].items[p])
          PROVE  x = o
      BY <3>3
    <3>4. ASSUME NEW x \in DOMAIN orders, x # o
          PROVE  orders'[x] = orders[x]
      BY <2>5, <3>4
    <3> QED
      BY <2>2, <2>5, <3>1, <3>2, <3>3, <3>4
  <2> QED
    BY <2>2, <2>4, <2>6
<1>11. CASE \E o \in OrderIds, S \in SUBSET Products, r \in ReturnIds : return_order(o, S, r)
  <2>1. PICK o \in OrderIds, S \in SUBSET Products, r \in ReturnIds : return_order(o, S, r)
    BY <1>11
  <2>2. o \in DOMAIN orders /\ orders[o].status = "shipped" /\ UNCHANGED << stock, cart >>
    BY <2>1 DEF return_order
  <2>3. /\ DOMAIN orders' = DOMAIN orders
        /\ orders'[o].status = "returning"
        /\ \A x \in DOMAIN orders : orders'[x].items = orders[x].items
        /\ \A x \in DOMAIN orders : x # o => orders'[x] = orders[x]
    BY <1>0, <2>1, <2>2, StatusChanged DEF return_order, OrderStatuses
  <2>4. ASSUME NEW x \in DOMAIN orders
        PROVE  /\ orders'[x].status # "cancelled" <=> orders[x].status # "cancelled"
               /\ orders'[x].items = orders[x].items
    BY <2>2, <2>3
  <2>5. ASSUME NEW e PROVE e \in Ordered(p)' <=> e \in Ordered(p)
    <3>1. e \in Ordered(p)' <=>
            \E x \in DOMAIN orders' :
              orders'[x].status # "cancelled" /\ e \in {x} \X (1 .. orders'[x].items[p])
      BY OrderedIs
    <3>2. e \in Ordered(p) <=>
            \E x \in DOMAIN orders :
              orders[x].status # "cancelled" /\ e \in {x} \X (1 .. orders[x].items[p])
      BY OrderedIs
    <3> QED
      BY <2>3, <2>4, <3>1, <3>2
  <2> QED
    BY <1>2, <2>2, <2>5
<1>12. CASE \E q \in Products : add_review(q)
  BY <1>3, <1>12 DEF add_review
<1>13. CASE UNCHANGED vars
  BY <1>3, <1>13 DEF vars
<1> QED
  BY <1>5, <1>6, <1>7, <1>8, <1>9, <1>10, <1>11, <1>12, <1>13 DEF Next

(* So the items of live orders stay finite, and the sum what it was.       *)
LEMMA HeldStep ==
  ASSUME IInv, OrderedFinite, Next \/ UNCHANGED vars, NEW p \in Products
  PROVE  IsFiniteSet(Ordered(p)') /\ Held(p)' = Held(p)
<1>1. PICK S, T : S = Ordered(p) /\ T = Ordered(p)'
  OBVIOUS
<1>2. IsFiniteSet(S) /\ Cardinality(S) \in Nat
  BY <1>1, FS_CardinalityType DEF OrderedFinite
<1>3. stock[p] \in Nat /\ cart[p] \in Nat
  BY DEF IInv, TypeOK, Lines
<1>4. stock'[p] \in Nat /\ cart'[p] \in Nat
  BY TypeStep DEF TypeOK, Lines
<1>5. /\ Held(p) = stock[p] + cart[p] + Cardinality(S)
      /\ Held(p)' = stock'[p] + cart'[p] + Cardinality(T)
  BY <1>1 DEF Held
<1>6. CASE stock'[p] + cart'[p] = stock[p] + cart[p] /\ T = S
  BY <1>2, <1>5, <1>6, <1>1
<1>7. ASSUME NEW o \in OrderIds \ DOMAIN orders,
             stock'[p] = stock[p], cart'[p] = 0, T = S \cup ({o} \X (1 .. cart[p])),
             \A x : ~ (x \in S /\ x \in {o} \X (1 .. cart[p]))
      PROVE  IsFiniteSet(T) /\ Held(p)' = Held(p)
  <2>1. PICK C : C = {o} \X (1 .. cart[p])
    OBVIOUS
  <2>2. IsFiniteSet(C) /\ Cardinality(C) = cart[p]
    BY <1>3, <2>1, ItemsCounted
  <2>3. IsFiniteSet(T) /\ Cardinality(T) = Cardinality(S) + Cardinality(C)
    BY <1>2, <1>7, <2>1, <2>2, DisjointUnion
  <2> QED
    BY <1>2, <1>3, <1>5, <1>7, <2>2, <2>3
<1>8. ASSUME NEW o \in DOMAIN orders,
             stock'[p] = stock[p] + orders[o].items[p], cart'[p] = cart[p],
             S = T \cup ({o} \X (1 .. orders[o].items[p])),
             \A x : ~ (x \in T /\ x \in {o} \X (1 .. orders[o].items[p]))
      PROVE  IsFiniteSet(T) /\ Held(p)' = Held(p)
  <2>1. PICK C : C = {o} \X (1 .. orders[o].items[p])
    OBVIOUS
  <2>2. orders[o].items[p] \in Nat
    BY DEF IInv, TypeOK, PartialFunction, Lines
  <2>3. IsFiniteSet(C) /\ Cardinality(C) = orders[o].items[p]
    BY <2>1, <2>2, ItemsCounted
  <2>4. IsFiniteSet(T)
    BY <1>2, <1>8, FS_Subset
  <2>5. Cardinality(S) = Cardinality(T) + Cardinality(C) /\ Cardinality(T) \in Nat
    BY <1>8, <2>1, <2>3, <2>4, DisjointUnion, FS_CardinalityType
  <2> QED
    BY <1>3, <1>5, <1>8, <2>2, <2>3, <2>4, <2>5
<1> QED
  BY <1>1, <1>6, <1>7, <1>8, OrderedMoves

LEMMA FiniteInvariant == Spec => [](IInv /\ OrderedFinite)
<1>1. Init => IInv /\ OrderedFinite
  BY Initially, FiniteAtFirst
<1>2. IInv /\ OrderedFinite /\ [Next]_vars => IInv' /\ OrderedFinite'
  BY TypeStep, ReturnsStep, ReviewsStep, HeldStep DEF IInv, OrderedFinite
<1> QED
  BY <1>1, <1>2, PTL DEF Spec

(* No call makes or loses an item: what is in stock, in the cart and in    *)
(* orders not cancelled is the same number of items after it as before.    *)
THEOREM Conserved == Spec => StockConserved
<1>1. IInv /\ OrderedFinite /\ [Next]_vars => [\A p \in Products : Held(p)' = Held(p)]_vars
  BY HeldStep
<1> QED
  BY FiniteInvariant, <1>1, PTL DEF Spec, StockConserved
=============================================================================
