------------------------------ MODULE ApiOrders ------------------------------
(***************************************************************************)
(* src/api/orders/api.orders.service.ts: the list of the exchange's orders *)
(* and the performance computed from it.  Averages are kept as fractions:  *)
(* cost over volume.  Rounding to cents is left out.                       *)
(***************************************************************************)
EXTENDS OrderSizing, Functions

(* fetchOrders of the exchange: orders it has taken, or refused.           *)
Placed == {o \in Id : orders[o].status \notin {"none", "sized", "unfunded"}}

(* Orders as computePerformance finds them; "canceled" and "expired" are   *)
(* one to it, and so are "open" and "new".                                 *)
Active(o) == orders[o].status = "open"
Cancelled(o) == orders[o].status = "canceled"

Counted(S) == {o \in S : ~Cancelled(o)}

OfSide(S, side) == {o \in Counted(S) : orders[o].side = side}

VolumeOf == [o \in Id |-> orders[o].filled]
(* Mutant: the cost is taken at the limit.                                 *)
CostOf_AtLimit == [o \in Id |-> orders[o].filled * orders[o].price]
CostOf == [o \in Id |-> IF orders[o].cost # 0 THEN orders[o].cost
                        ELSE orders[o].filled * orders[o].price]
FeeOf == [o \in Id |-> orders[o].fee]
RemainingOf == [o \in Id |-> orders[o].amount - orders[o].filled]
AnticipatedCostOf == [o \in Id |-> RemainingOf[o] * orders[o].price]

Volume(S, side) == SumFunctionOnSet(VolumeOf, OfSide(S, side))
Cost(S, side) == SumFunctionOnSet(CostOf, OfSide(S, side))
Fees(S) == SumFunctionOnSet(FeeOf, Counted(S))

(* Mutant: what remains of a partly filled order is not anticipated.       *)
FinalVolume_Unfilled(S, side) == Volume(S, side) +
    SumFunctionOnSet(RemainingOf, {o \in OfSide(S, side) : orders[o].filled = 0})
FinalVolume(S, side) ==
    Volume(S, side) + SumFunctionOnSet(RemainingOf, OfSide(S, side))
FinalCost(S, side) ==
    Cost(S, side) + SumFunctionOnSet(AnticipatedCostOf, OfSide(S, side))

(* Sales less their share of the cost of purchases and less fees, as a     *)
(* numerator over the volume bought; without purchases the average is 0.   *)
Gain(sold, soldFor, bought, boughtFor, fees) ==
    [num |-> IF bought = 0 THEN soldFor - fees
             ELSE (soldFor - fees) * bought - boughtFor * sold,
     den |-> IF bought = 0 THEN 1 ELSE bought]

Performance(S) == [
    profit |-> Gain(Volume(S, "sell"), Cost(S, "sell"),
                    Volume(S, "buy"), Cost(S, "buy"), Fees(S)),
    anticipatedProfit |-> Gain(FinalVolume(S, "sell"), FinalCost(S, "sell"),
                               FinalVolume(S, "buy"), FinalCost(S, "buy"), Fees(S)),
    fees |-> Fees(S),
    totalOrders |-> Cardinality(S) - Cardinality({o \in S : Cancelled(o)}),
    cancelledOrders |-> Cardinality({o \in S : Cancelled(o)}),
    activeOrders |-> Cardinality({o \in S : Active(o)}),
    volume |-> Volume(S, "buy") + Volume(S, "sell")]

vars == <<orders, free, spent>>
Init == InitAccount
Next == AccountNext
Spec == Init /\ [][Next]_vars
=============================================================================
