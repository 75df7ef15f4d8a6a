--------------------------- MODULE OrderInvariant ---------------------------
(***************************************************************************)
(* The inductive invariant of OrderService, from which its safety          *)
(* properties follow.  It says what each object, row, task in flight and   *)
(* exchange order may assume of the others.                                *)
(***************************************************************************)
EXTENDS OrderProperties

CallLocations == {"idle", "find", "create", "quantity", "submit", "saveTry",
                  "saveFailed", "done"}
OnOrder == {"quantity", "submit", "saveTry", "saveFailed", "track",
            "findPosition", "writePosition", "saveTracked", "reap"}
Writing == {"create", "saveTry", "saveFailed", "saveTracked"}
Asking == {"track", "findPosition", "writePosition"}
Crediting == {"findPosition", "writePosition"}

(* An external id is that of an exchange order sent for the same uid, and  *)
(* a pending order has one.                                                *)
OwnId(o) ==
    /\ o.ext \in 0..Len(exch)
    /\ o.ext # NoId => exch[o.ext].uid = o.uid
    /\ o.status = "pending" => o.ext # NoId

(* An order that placeOrder has accepted.                                  *)
Placed(o) == o.uid \in Uid /\ o.status # "none"

(* Objects: those in this.orders are real, a call not yet made has none,   *)
(* and no two share an exchange order.                                     *)
HeapOK ==
    /\ \A o \in Obj : OwnId(heap[o])
    /\ \A o \in orders : Placed(heap[o])
    /\ \A c \in Call : task[c].pc = "idle" => heap[c] = Blank
    /\ \A o, p \in Obj : heap[o].ext = heap[p].ext /\ heap[o].ext # NoId => o = p

RowsOK ==
    \A u \in Uid : /\ OwnId(rows[u])
                   /\ rows[u].status = "none" => rows[u] = Blank
                   /\ rows[u].status # "none" => rows[u].uid = u

(* Tasks: where each may be, and what it holds there.                      *)
CallsOK ==
    \A c \in Call : /\ task[c].pc \in CallLocations
                    /\ task[c].pc \notin {"idle", "done"} => heap[c].uid \in Uid
CronsOK ==
    \A k \in Cron :
        /\ task[k].pc \in OnOrder \cup {"idle", "loop"}
        /\ task[k].pc \in OnOrder => /\ task[k].order \in Obj
                                     /\ Placed(heap[task[k].order])
        /\ task[k].pc # "idle" => \A o \in task[k].todo : Placed(heap[o])
WritesOK ==
    \A t \in Task : task[t].pc \in Writing =>
        Placed(task[t].row) /\ OwnId(task[t].row)
TasksOK == CallsOK /\ CronsOK /\ WritesOK

(* A process that is down has no calls in flight; one that is up has at    *)
(* most one cron run going.                                                *)
ProcessOK ==
    /\ ~up => /\ \A t \in Task : task[t].pc \in {"idle", "done"}
              /\ \A x \in 1..MaxExchangeOrders : credits[x] = 0
    /\ \A j, k \in Cron : task[j].pc # "idle" /\ task[k].pc # "idle" => j = k

(* Credits: an exchange order that may still be credited has not been.     *)
CreditOK ==
    /\ Len(exch) <= MaxExchangeOrders
    /\ \A x \in 1..MaxExchangeOrders : x > Len(exch) => credits[x] = 0
    /\ \A o \in Obj : heap[o].status = "pending" => credits[heap[o].ext] = 0
    /\ \A k \in Cron : task[k].pc \in Asking =>
          /\ task[k].ext \in 1..Len(exch)
          /\ credits[task[k].ext] = 0
          /\ \A o \in Obj : heap[o].ext = task[k].ext => o = task[k].order
    /\ \A k \in Cron :
          /\ task[k].pc \in Crediting
          /\ heap[task[k].order].ext = task[k].ext
          => heap[task[k].order].status # "pending"
    /\ CreditedOnce

(* A position write in flight is still the one the position calls for.     *)
PositionOK ==
    /\ PositionIsLedger
    /\ \A k \in Cron : task[k].pc = "writePosition" =>
          LET o == heap[task[k].order] IN
          /\ task[k].write # NoWrite
          /\ task[k].write = PlannedWrite(SideOfOrder(o),
                                 positions[PairOfOrder(o)], o.filled)

IInv == /\ TypeOK /\ HeapOK /\ RowsOK /\ TasksOK /\ ProcessOK
        /\ CreditOK /\ PositionOK /\ UniqueInMemory

(* Cron runs: only a run takes objects out of this.orders, and only the    *)
(* one it works on, so what it still has to visit is still there.  A       *)
(* process that is down has no objects.  (Kept given IInv.)                *)
RunOK ==
    /\ ~up => orders = {}
    /\ \A k \in Cron : task[k].pc # "idle" =>
          /\ task[k].todo \subseteq orders
          /\ task[k].pc \in OnOrder => task[k].order \in orders \ task[k].todo
-----------------------------------------------------------------------------
(* What holds besides when every placement ends between two ticks: an      *)
(* object has one task at a time.                                          *)
Doing == OnOrder \ {"reap"}
Works(t) == task[t].pc \in Doing \cup {"create"}
Unsubmitted(o) == o.status \in {"none", "new"}

(* Whom a cron run works on or has still to visit is being placed by       *)
(* nobody, and what is being placed is in this.orders.                     *)
OneTaskOK ==
    /\ \A k \in Cron : \A o \in Call :
          \/ task[k].pc # "idle" /\ o \in task[k].todo
          \/ task[k].pc \in OnOrder /\ task[k].order = o
          => task[o].pc = "done"
    /\ \A c \in Call : c \in orders => task[c].pc \notin {"idle", "find"}
    /\ \A c \in Call : Works(c) => c \in orders

(* What is about to be sent has not been; what is about to be saved is the *)
(* object as it is.                                                        *)
AheadOK ==
    /\ \A c \in Call : task[c].pc = "find" => Unsubmitted(heap[c])
    /\ \A t \in Task : task[t].pc \in {"create", "quantity", "submit"} =>
          heap[ObjOf(t)].status = "new"
    /\ \A t \in Task : task[t].pc \in Writing => task[t].row = heap[ObjOf(t)]
    /\ \A k \in Cron : task[k].pc = "track" => heap[task[k].order].status = "pending"

(* No object has an exchange order of this life before it is submitted.    *)
SentOK ==
    /\ \A x \in 1..Len(exch) : exch[x].life <= faults.crash
    /\ ~up => \A x \in 1..Len(exch) : exch[x].life < faults.crash
    /\ \A x \in 1..Len(exch) : exch[x].life = faults.crash =>
          ~Unsubmitted(heap[exch[x].by])
    /\ SubmittedOnce

(* Without a failed call of the database, the row of an object in          *)
(* this.orders is active until the end of the object is saved.             *)
Busy(o) == \E t \in Task : Works(t) /\ ObjOf(t) = o
RowsFollow ==
    /\ \A t \in Task : task[t].pc \in Doing => IsActive(rows[heap[ObjOf(t)].uid])
    /\ \A o \in orders : ~Busy(o) =>
          (IsActive(rows[heap[o].uid]) <=> ~IsTerminal(heap[o]))
    /\ ActiveRowIsTracked

(* Kept given IInv and RunOK, if OverlapAllowed is FALSE.                  *)
QuietOK == /\ OneTaskOK /\ AheadOK /\ SentOK
           /\ MaxDbFaults = 0 => RowsFollow
-----------------------------------------------------------------------------
(* What holds besides while the process has not ended and no call has      *)
(* failed: the fill of an exchange order finds its way to the position.    *)

(* The answer a run is handling is about the object's exchange order, and  *)
(* what it is about to credit is all that was filled.                      *)
AnswersOK ==
    \A k \in Cron :
        LET o == heap[task[k].order] IN
        /\ task[k].pc \in Asking => task[k].ext = o.ext
        /\ task[k].pc \in Crediting =>
              /\ o.status = "completed" /\ o.filled = exch[o.ext].filled
              /\ exch[o.ext].status = "closed"

(* An exchange order is tracked, being credited, cancelled or credited.    *)
Booked(x) == credits[x] = 1 \/ SideOf[exch[x].uid[1]] = "sell"
FollowedOK ==
    \A x \in 1..Len(exch) :
        LET o == exch[x].by IN
        /\ heap[o].ext = x
        /\ \/ heap[o].status = "pending" /\ o \in orders
           \/ \E k \in Cron : task[k].pc \in Crediting /\ task[k].order = o
           \/ exch[x].status = "canceled"
           \/ exch[x].status = "closed" /\ Booked(x)

(* The ledger of a pair that was only bought is the sum of what was        *)
(* credited.                                                               *)
Share(p) == [x \in 1..MaxExchangeOrders |->
    IF credits[x] = 1 /\ PairOf[exch[x].uid[1]] = p THEN exch[x].filled ELSE 0]
LedgerOK ==
    /\ \A x \in 1..Len(exch) : credits[x] = 1 => exch[x].status = "closed"
    /\ \A p \in Pair : OnlyBought(p) =>
          ledger[p] = SumFunctionOnSet(Share(p), 1..MaxExchangeOrders)

(* Kept given IInv, RunOK and QuietOK.                                     *)
FillsOK == NoFault => AnswersOK /\ FollowedOK /\ LedgerOK
=============================================================================
