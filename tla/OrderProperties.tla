-------------------------- MODULE OrderProperties --------------------------
(***************************************************************************)
(* What the order service promises, over the states of OrderService.       *)
(***************************************************************************)
EXTENDS OrderService, Functions

TaskState == [pc : Locations, order : Obj \cup {NoObj}, row : Order, ext : Nat,
              write : [kind : {"none", "open", "resize", "close"}, qty : Nat],
              todo : SUBSET Obj]
Position == [isOpen : BOOLEAN, qty : Nat]
ExchangeOrder == [uid : Uid, by : Obj, life : Nat, amount : Nat, filled : Nat,
                  status : {"open", "closed", "canceled"}]

(* The type invariant. *)
TypeOK ==
    /\ up \in BOOLEAN /\ mode \in Modes
    /\ orders \subseteq Obj
    /\ heap \in [Obj -> Order]
    /\ task \in [Task -> TaskState]
    /\ rows \in [Uid -> Order]
    /\ positions \in [Pair -> Position]
    /\ exch \in Seq(ExchangeOrder)
    /\ faults \in [crash : Nat, db : Nat, net : Nat]
    /\ credits \in [1..MaxExchangeOrders -> Nat]
    /\ ledger \in [Pair -> Nat]

-----------------------------------------------------------------------------
(* Properties of the code as it is: ticks may overlap placements, the      *)
(* process may crash, calls may fail.                                      *)

(* The synchronous uid check of placeOrder, made after its last await, and *)
(* the primary key of the table together keep two objects with one uid out *)
(* of this.orders, so the removal by uid in orderProcessor is of one order.*)
UniqueInMemory ==
    \A o, p \in orders : heap[o].uid = heap[p].uid => o = p

(* An order leaves this.orders while the process runs only when it has     *)
(* reached the end of its life: nothing else is dropped from tracking.     *)
LeavesOnlyWhenEnded ==
    [][\A o \in orders \ orders' : up' => IsTerminal(heap[o])]_vars

(* Every pending order, in memory and in the table, carries the id of an   *)
(* exchange order that was created for its own uid: trackOrder never skips *)
(* it for lack of an id and never asks for somebody else's order.          *)
TracksItsOwn(o) ==
    o.status = "pending" =>
        o.ext \in 1..Len(exch) /\ exch[o.ext].uid = o.uid
PendingIsTrackable ==
    /\ \A o \in orders : TracksItsOwn(heap[o])
    /\ \A u \in Uid : TracksItsOwn(rows[u])

(* One process credits an exchange order to a position at most once,       *)
(* however often and by whomever its order object is submitted, tracked,   *)
(* failed and saved again.                                                 *)
CreditedOnce == \A x \in 1..MaxExchangeOrders : credits[x] <= 1

(* The position row of a pair is the net of all fills ever credited to it: *)
(* no read-modify-write of handleOrderCompletion loses another one's fill. *)
Held(p) == IF positions[p].isOpen THEN positions[p].qty ELSE 0
PositionIsLedger == \A p \in Pair : Held(p) = ledger[p]

(* An order in this.orders comes to its end and leaves, whatever finitely  *)
(* many calls fail on the way and however the cron run is aborted.         *)
OrdersDrain == \A o \in Obj : (o \in orders) ~> (o \notin orders)

-----------------------------------------------------------------------------
(* Properties of the code when every placement ends between two ticks.     *)

(* An order object is sent to the exchange at most once by one process.    *)
SubmittedOnce ==
    \A x, y \in 1..Len(exch) :
        exch[x].by = exch[y].by /\ exch[x].life = exch[y].life => x = y

(* A completed, cancelled or failed row changes only when placeOrder       *)
(* reuses its uid for a new order: no late write revives it.               *)
TerminalIsFinal ==
    [][\A u \in Uid : IsTerminal(rows[u]) /\ rows'[u] # rows[u] =>
          \E c \in Call : task[c].pc = "create" /\ task[c].row.uid = u]_vars

(* With no database failure, every active row has its object in memory:    *)
(* the cron job will come to it, and the guard on the action it blocks     *)
(* will open again.                                                        *)
ActiveRows == {u \in Uid : IsActive(rows[u])}
ActiveRowIsTracked ==
    up => \A u \in ActiveRows : \E o \in orders : heap[o].uid = u

(* With no crash and no failed call: when nothing is left to do, the       *)
(* position of a pair that was only bought is the sum of the exchange      *)
(* orders that were closed.                                                *)
Settled == /\ up /\ orders = {}
           /\ \A t \in Task : task[t].pc \in {"idle", "done"}
           /\ \A x \in 1..Len(exch) : exch[x].status # "open"
OrdersOf(p) == {x \in 1..Len(exch) : PairOf[exch[x].uid[1]] = p}
OnlyBought(p) == \A x \in OrdersOf(p) : SideOf[exch[x].uid[1]] = "buy"
Closed == {x \in 1..Len(exch) : exch[x].status = "closed"}
FilledOf == [x \in 1..Len(exch) |-> exch[x].filled]
NoFault == \A f \in DOMAIN faults : faults[f] = 0
ClosedFillsAreHeld ==
    Settled /\ NoFault => \A p \in Pair : OnlyBought(p) =>
        Held(p) = SumFunctionOnSet(FilledOf, OrdersOf(p) \cap Closed)

=============================================================================
