------------------------------ MODULE Shopping ------------------------------
(* The state of one session of the shopping server that its tools can get   *)
(* wrong together: stock, cart, orders, returns and the current user's      *)
(* reviews.  A call that raises changes nothing (server_base._call_tool),   *)
(* so every step below is a call that takes effect.                         *)
(*                                                                          *)
(* Stock leaves a product when it enters the cart, not at checkout, and     *)
(* comes back when it leaves the cart or its order is cancelled.  Prices,   *)
(* coupons and the wishlist are left out: no other step reads them.         *)
EXTENDS Integers, FiniteSets

CONSTANTS Products,
          OrderIds, ReturnIds,  \* names; the handlers number them afresh
          SeededOrders,         \* the orders of the seeded state
          SeededReturn,         \* the name of the return seeded for an order, if any
          MaxQuantity           \* bound on stock, and on one call's quantity

ASSUME ShoppingAssumption ==
  /\ SeededOrders \subseteq OrderIds /\ IsFiniteSet(SeededOrders)
  /\ SeededReturn \in [SeededOrders -> ReturnIds]
  /\ \A o, p \in SeededOrders : SeededReturn[o] = SeededReturn[p] => o = p
  /\ MaxQuantity \in Nat \ {0}

VARIABLES
  stock,     \* products: stock of each product
  cart,      \* cart: quantity of each product, 0 when it has no line
  orders,    \* orders: order_id -> line quantities and status
  returns,   \* returns: return_id -> order and the products returned
  reviews    \* reviews: products reviewed by the current user

vars == << stock, cart, orders, returns, reviews >>

Quantities == 1 .. MaxQuantity
OrderStatuses == {"placed", "pending", "shipped", "returning", "returned", "cancelled"}
Lines == [Products -> Nat]

PartialFunction(f, S, T) == DOMAIN f \subseteq S /\ f \in [DOMAIN f -> T]
Extend(f, k, v) == [x \in DOMAIN f \cup {k} |-> IF x = k THEN v ELSE f[x]]
ProductsOf(o) == {p \in Products : orders[o].items[p] > 0}
Empty == [p \in Products |-> 0]
Plus(f, g) == [p \in Products |-> f[p] + g[p]]
-----------------------------------------------------------------------------
(* The seeder's orders hold one of each of their products; an order being   *)
(* returned, or returned, has its return, and some orders still marked as   *)
(* shipped have one too.                                                    *)
Init ==
  \E status \in [SeededOrders -> {"pending", "shipped", "returning", "returned"}],
     items \in [SeededOrders -> (SUBSET Products) \ {{}}],
     early \in SUBSET SeededOrders :
    LET Returned == {o \in SeededOrders :
          status[o] \in {"returning", "returned"} \/ (o \in early /\ status[o] = "shipped")}
    IN /\ stock \in [Products -> Quantities]
       /\ cart \in [Products -> 0 .. 1]
       /\ orders = [o \in SeededOrders |->
            [items |-> [p \in Products |-> IF p \in items[o] THEN 1 ELSE 0],
             status |-> status[o]]]
       /\ returns = [r \in {SeededReturn[o] : o \in Returned} |->
            LET o == CHOOSE x \in Returned : SeededReturn[x] = r
            IN [order |-> o, items |-> {CHOOSE p \in items[o] : TRUE}]]
       /\ reviews \in {{}} \cup {{p} : p \in UNION {items[o] :
            o \in {x \in SeededOrders : status[x] = "shipped"}}}
-----------------------------------------------------------------------------
(* The cart.                                                                *)
add_to_cart(p, quantity) ==
  /\ stock[p] >= quantity
  /\ stock' = [stock EXCEPT ![p] = @ - quantity]
  /\ cart' = [cart EXCEPT ![p] = @ + quantity]
  /\ UNCHANGED << orders, returns, reviews >>

update_cart_quantity(p, quantity) ==
  /\ cart[p] > 0
  /\ quantity - cart[p] > 0 => stock[p] >= quantity - cart[p]
  /\ stock' = [stock EXCEPT ![p] = @ - (quantity - cart[p])]
  /\ cart' = [cart EXCEPT ![p] = quantity]
  /\ UNCHANGED << orders, returns, reviews >>

remove_from_cart(p) ==
  /\ cart[p] > 0
  /\ stock' = [stock EXCEPT ![p] = @ + cart[p]]
  /\ cart' = [cart EXCEPT ![p] = 0]
  /\ UNCHANGED << orders, returns, reviews >>

clear_cart ==
  /\ stock' = Plus(stock, cart)
  /\ cart' = Empty
  /\ UNCHANGED << orders, returns, reviews >>

checkout(o) ==
  /\ cart # Empty
  /\ o \in OrderIds \ DOMAIN orders
  /\ orders' = Extend(orders, o, [items |-> cart, status |-> "placed"])
  /\ cart' = Empty
  /\ UNCHANGED << stock, returns, reviews >>
-----------------------------------------------------------------------------
(* Orders, returns and reviews.                                             *)

\* a cancelled order taken for one that was never shipped
CancellableAgain(o) == orders[o].status \in {"placed", "pending", "cancelled"}

Cancellable(o) == orders[o].status \in {"placed", "pending"}

cancel_order(o) ==
  /\ o \in DOMAIN orders /\ Cancellable(o)
  /\ stock' = Plus(stock, orders[o].items)
  /\ orders' = [orders EXCEPT ![o].status = "cancelled"]
  /\ UNCHANGED << cart, returns, reviews >>

return_order(o, S, r) ==
  /\ o \in DOMAIN orders
  /\ orders[o].status = "shipped"
  /\ S # {} /\ S \subseteq ProductsOf(o)
  /\ r \in ReturnIds \ DOMAIN returns
  /\ returns' = Extend(returns, r, [order |-> o, items |-> S])
  /\ orders' = [orders EXCEPT ![o].status = "returning"]
  /\ UNCHANGED << stock, cart, reviews >>

\* any order that was not cancelled makes its products reviewable
ReviewEligibleOrdered(p) ==
  \E o \in DOMAIN orders : orders[o].status # "cancelled" /\ p \in ProductsOf(o)

ReviewEligible(p) ==
  \E o \in DOMAIN orders :
    orders[o].status \in {"shipped", "returning", "returned"} /\ p \in ProductsOf(o)

add_review(p) ==
  /\ ReviewEligible(p)
  /\ p \notin reviews
  /\ reviews' = reviews \cup {p}
  /\ UNCHANGED << stock, cart, orders, returns >>

Next ==
  \/ \E p \in Products, quantity \in Quantities : add_to_cart(p, quantity)
  \/ \E p \in Products, quantity \in Quantities : update_cart_quantity(p, quantity)
  \/ \E p \in Products : remove_from_cart(p)
  \/ clear_cart
  \/ \E o \in OrderIds : checkout(o)
  \/ \E o \in OrderIds : cancel_order(o)
  \/ \E o \in OrderIds, S \in SUBSET Products, r \in ReturnIds : return_order(o, S, r)
  \/ \E p \in Products : add_review(p)

Spec == Init /\ [][Next]_vars
-----------------------------------------------------------------------------
(* Properties.                                                              *)
(* Every record has its shape; in particular no stock is ever negative.     *)
TypeOK ==
  /\ stock \in Lines
  /\ cart \in Lines
  /\ PartialFunction(orders, OrderIds, [items : Lines, status : OrderStatuses])
  /\ PartialFunction(returns, ReturnIds, [order : OrderIds, items : SUBSET Products])
  /\ reviews \subseteq Products

(* The items of a product in orders that were not cancelled, one by one.    *)
ItemsOf(o, p) == {o} \X (1 .. orders[o].items[p])
Ordered(p) == UNION {ItemsOf(o, p) : o \in {x \in DOMAIN orders : orders[x].status # "cancelled"}}
Held(p)    == stock[p] + cart[p] + Cardinality(Ordered(p))

(* "Safety: stock consistency": what is in stock, in the cart and in orders *)
(* not cancelled is the same number of items before and after every call,   *)
(* although add_to_cart takes the stock and checkout does not.              *)
StockConserved == [][\A p \in Products : Held(p)' = Held(p)]_vars

(* A review stays earned: the product is in an order that was shipped, and  *)
(* no later cancellation or return takes that order away.                   *)
ReviewsEarned == \A p \in reviews : ReviewEligible(p)

=============================================================================
