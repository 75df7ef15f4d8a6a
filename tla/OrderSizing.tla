----------------------------- MODULE OrderSizing -----------------------------
(***************************************************************************)
(* How much an order is for (calculateQuantity of order.service.ts), and   *)
(* what becomes of it on the exchange: an account that locks the funds of  *)
(* open orders, which are filled, cancelled or refused.                    *)
(*                                                                         *)
(* Quantities, prices and fees are whole numbers of their smallest units.  *)
(***************************************************************************)
EXTENDS Integers, FiniteSets

CONSTANTS
    Id,             \* of orders
    Price,          \* limits and prices of fills
    Quantity,       \* [type, value] records rules ask for
    Stake,          \* ORDER_STAKE
    Funds,          \* of the account at first: quote and base
    MinQty, MaxQty, \* limits of the market
    Fee,            \* of each fill
    MarketKnown     \* may loadMarkets succeed, may it fail

ASSUME SizingAssumption ==
    /\ IsFiniteSet(Id)
    /\ Price \subseteq Nat \ {0}
    /\ Quantity \subseteq [type : {"fixed", "percent"}, value : Nat]
    /\ {Stake, MinQty, MaxQty, Fee} \subseteq Nat
    /\ Funds \in [quote : Nat, base : Nat]
    /\ MarketKnown \subseteq BOOLEAN

VARIABLES
    orders,         \* what is known of each order; "none": not yet wanted
    free,           \* balances that no open order locks
    spent           \* history: quote currency the account paid on balance

Status == {"none", "sized", "unfunded", "open", "closed", "canceled", "rejected"}
Side == {"buy", "sell"}
Unplaced == [status |-> "none", side |-> "buy", type |-> "fixed", price |-> 0,
             amount |-> 0, filled |-> 0, cost |-> 0, fee |-> 0, known |-> TRUE,
             alone |-> TRUE]

InitAccount ==
    /\ orders = [o \in Id |-> Unplaced]
    /\ free = Funds
    /\ spent = 0

-----------------------------------------------------------------------------
(* calculateQuantity *)

Least(a, b) == IF a < b THEN a ELSE b
BalanceOf(side) == IF side = "buy" THEN free.quote ELSE free.base

Available(side) ==
    IF side = "buy" THEN Least(free.quote, Stake) ELSE free.base

(* calculateDesiredQuantity, a fraction.                                   *)
(* Mutant: a percentage of the balance is taken for a quantity.            *)
Desired_OfBalance(q, available, price, side) ==
    IF q.type = "fixed" THEN <<q.value, 1>> ELSE <<available * q.value, 100>>
Desired(q, available, price, side) ==
    CASE q.type = "fixed" -> <<q.value, 1>>
      [] q.type = "percent" /\ side = "buy" -> <<available * q.value, price * 100>>
      [] q.type = "percent" /\ side = "sell" -> <<available * q.value, 100>>

WithinLimits(d) == d[1] >= MinQty * d[2] /\ d[1] <= MaxQty * d[2]

(* Without the market's data (loadMarkets fails) limits are not looked at. *)
(* The amount is cut to whole units, by this code or else by the exchange. *)
CalculateQuantity(q, price, side, known) ==
    LET d == Desired(q, Available(side), price, side) IN
    IF BalanceOf(side) <= 0 \/ (known /\ ~WithinLimits(d)) THEN 0 ELSE d[1] \div d[2]

(* The balance is asked for; a quantity of nothing fails the order.        *)
Sizing(o) == orders[o].status = "sized"
Size(o, q, price, side, known) ==
    /\ orders[o].status = "none"
    /\ LET n == CalculateQuantity(q, price, side, known) IN
       orders' = [x \in Id |->
           IF x = o
           THEN IF n = 0 THEN [Unplaced EXCEPT !.status = "unfunded"]
                ELSE [Unplaced EXCEPT !.status = "sized", !.side = side, !.type = q.type,
                      !.price = price, !.amount = n, !.known = known,
                      !.alone = ~\E y \in Id : Sizing(y)]
           ELSE IF Sizing(x) THEN [orders[x] EXCEPT !.alone = FALSE] ELSE orders[x]]
    /\ UNCHANGED <<free, spent>>

-----------------------------------------------------------------------------
(* The exchange *)

Worth(o) == IF orders[o].side = "buy" THEN orders[o].amount * orders[o].price
                                       ELSE orders[o].amount
Moved(side, quote, base) ==
    free' = IF side = "buy" THEN [free EXCEPT !.quote = @ + quote]
                            ELSE [free EXCEPT !.base = @ + base]

(* createOrder: refused when the free balance does not cover the order.    *)
Funded(o) == Worth(o) <= BalanceOf(orders[o].side)
Submit(o) ==
    /\ Sizing(o)
    /\ IF Funded(o)
       THEN /\ orders' = [orders EXCEPT ![o].status = "open"]
            /\ Moved(orders[o].side, -Worth(o), -Worth(o))
       ELSE orders' = [orders EXCEPT ![o].status = "rejected"] /\ UNCHANGED free
    /\ UNCHANGED spent

(* A fill at the limit or at a better price; fees are paid in the quote    *)
(* currency, and what was locked above the price of a buy is free again.   *)
FairPrice(o, p) == IF orders[o].side = "buy" THEN p <= orders[o].price
                                              ELSE p >= orders[o].price
Fill(o, n, p) ==
    /\ orders[o].status = "open" /\ FairPrice(o, p)
    /\ n \in 1..(orders[o].amount - orders[o].filled)
    /\ orders' = [orders EXCEPT
           ![o].filled = @ + n, ![o].cost = @ + n * p, ![o].fee = @ + Fee,
           ![o].status = IF orders[o].filled + n = orders[o].amount THEN "closed" ELSE @]
    /\ IF orders[o].side = "buy"
       THEN /\ free' = [quote |-> free.quote + n * (orders[o].price - p), base |-> free.base + n]
            /\ spent' = spent + n * p + Fee
       ELSE /\ free' = [free EXCEPT !.quote = @ + n * p]
            /\ spent' = spent - n * p + Fee

(* Cancelled, or expired: the funds of what was not filled are free again. *)
Ended(o) ==
    /\ orders[o].status = "open"
    /\ orders' = [orders EXCEPT ![o].status = "canceled"]
    /\ LET left == orders[o].amount - orders[o].filled IN
       Moved(orders[o].side, left * orders[o].price, left)
    /\ UNCHANGED spent

AccountNext == \E o \in Id :
    \/ \E q \in Quantity, p \in Price, side \in Side, known \in MarketKnown :
          Size(o, q, p, side, known)
    \/ Submit(o)
    \/ \E p \in Price, n \in 1..MaxQty : Fill(o, n, p)
    \/ Ended(o)
=============================================================================
