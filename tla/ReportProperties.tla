-------------------------- MODULE ReportProperties --------------------------
(* What the sizes of orders and the report about them promise.             *)
EXTENDS ApiOrders

(* What the variables range over.                                          *)
AccountTypeOK ==
    /\ \A o \in Id :
          /\ orders[o].status \in Status /\ orders[o].side \in Side
          /\ orders[o].filled \in 0..orders[o].amount
          /\ orders[o].cost \in Nat /\ orders[o].fee \in Nat
    /\ free \in [quote : Nat, base : Nat] /\ spent \in Int
    /\ LET p == Performance(Placed) IN
          p.activeOrders \in 0..p.totalOrders /\ p.fees \in Nat

(* order.service.ts:330: an order of a percentage is sized from the free   *)
(* balance, so the exchange takes it, unless another order was sized       *)
(* before one of the two was submitted.                                    *)
PercentIsFunded == \A o \in Id :
    orders[o].status = "rejected" /\ orders[o].type = "percent" => ~orders[o].alone

(* api.orders.service.ts:171: over a history in which all that was bought  *)
(* was sold, the profit reported is what the account gained, through any   *)
(* partial fills and prices, if no cancelled order had been partly filled. *)
WholeFills == \A o \in Placed : Cancelled(o) => orders[o].filled = 0
RoundTripIsCash ==
    LET p == Performance(Placed).profit
        n == Volume(Placed, "buy") IN
    WholeFills /\ n > 0 /\ n = Volume(Placed, "sell") => p.num = -spent * p.den

(* api.orders.service.ts:180: the anticipated profit is the profit there   *)
(* will be when all open orders are filled at their limits: a fill at the  *)
(* limit changes it by the fee only, however it is split.                  *)
AtLimit(o) == orders'[o].cost - orders[o].cost =
              (orders'[o].filled - orders[o].filled) * orders[o].price
AnticipationIsKept == [][\A o \in Id :
    orders'[o].filled # orders[o].filled /\ AtLimit(o) =>
        LET p == Performance(Placed).anticipatedProfit
            q == Performance(Placed)'.anticipatedProfit IN
        /\ q.den = p.den
        /\ q.num = p.num - Fee * p.den]_orders
=============================================================================
