---------------------------- MODULE OrderService ----------------------------
(***************************************************************************)
(* src/order/order.service.ts with its two repositories.                   *)
(*                                                                         *)
(* A task is one activation of the service: a placeOrder call, started by  *)
(* an order event, or a run of the cron job orderProcessor.  Tasks run on  *)
(* one JavaScript thread and interleave where they await the database or   *)
(* the exchange, so a task's control location (its pc) names the call it   *)
(* awaits.  One action is the effect of that call together with the code   *)
(* the task then runs up to its next await.  What the call was given when  *)
(* it was issued (a row, an exchange id) is kept in the task, because the  *)
(* order object may change before the call takes effect.                   *)
(***************************************************************************)
EXTENDS Integers, Sequences, FiniteSets

CONSTANTS
    Call,               \* order events; each starts one placeOrder call
    Cron,               \* names for runs of the cron job
    Action, Candle,     \* an order's uid is its rule action and its candle
    Pair, PairOf,       \* the pair each action trades
    SideOf,             \* "buy" or "sell" for each action
    Lots,               \* quantities the service may compute for an order
    Modes,              \* values of MODE the process may be started with
    OverlapAllowed,     \* FALSE: no tick falls while a placeOrder is running
    MaxExchangeOrders, MaxCrashes, MaxDbFaults, MaxNetFaults      \* bounds

Uid == Action \X Candle
Task == Call \cup Cron

(* An order object is named by the call that created it, or, when it was   *)
(* loaded from the database at start-up, by its uid.                       *)
Obj == Call \cup Uid

CONSTANTS NoUid, NoObj

ASSUME TaskAssumption ==
    /\ Call \cap Cron = {} /\ Call \cap Uid = {}
    /\ NoUid \notin Uid /\ NoObj \notin Obj
ASSUME ActionAssumption ==
    /\ PairOf \in [Action -> Pair] /\ SideOf \in [Action -> {"buy", "sell"}]
ASSUME BoundAssumption ==
    /\ Lots \subseteq Nat \ {0} /\ Modes \subseteq {"idle", "plane", "live"}
    /\ OverlapAllowed \in BOOLEAN
    /\ MaxExchangeOrders \in Nat /\ MaxCrashes \in Nat
    /\ MaxDbFaults \in Nat /\ MaxNetFaults \in Nat

VARIABLES
    up, mode,       \* is the process running, and in which mode
    orders,         \* this.orders, a set of objects
    heap,           \* the order object each name stands for
    task,           \* the state of each task
    rows,           \* table orders, by uid
    positions,      \* table positions, by pair
    exch,           \* the exchange's orders, in order of creation
    faults,         \* faults so far, by kind
    credits,        \* times this process credited each exchange order
    ledger          \* the net of all fills credited to each pair
                    \* (credits and ledger are history variables)

vars == <<up, mode, orders, heap, task, rows, positions, exch, faults,
          credits, ledger>>
memory == <<up, mode, orders>>
history == <<credits, ledger>>

-----------------------------------------------------------------------------
Statuses == {"none", "new", "pending", "completed", "cancelled", "failed"}
NoId == 0       \* externalUid not set

(* An order, as an object and as a row.  Status "none" is a row that is    *)
(* absent, or the dto of an event before it has become an order.           *)
Order == [uid : Uid \cup {NoUid}, status : Statuses, ext : Nat, filled : Nat]
Blank == [uid |-> NoUid, status |-> "none", ext |-> NoId, filled |-> 0]

Locations == {"idle", "find", "create", "quantity", "submit", "saveTry",
              "saveFailed", "loop", "track", "findPosition",
              "writePosition", "saveTracked", "reap", "done"}
NoWrite == [kind |-> "none", qty |-> 0]
Idle == [pc |-> "idle", order |-> NoObj, row |-> Blank, ext |-> NoId,
         write |-> NoWrite, todo |-> {}]
Done == [Idle EXCEPT !.pc = "done"]

IsActive(o) == o.status \in {"new", "pending"}

(* Mutant: the end of a failed order is not recognised.                    *)
IsTerminal_ButFailed(o) == o.status \in {"completed", "cancelled"}
IsTerminal(o) == o.status \in {"completed", "cancelled", "failed"}
PairOfOrder(o) == PairOf[o.uid[1]]
SideOfOrder(o) == SideOf[o.uid[1]]

(* TypeORM leaves a column alone when the entity's field is undefined.     *)
Merge(row, o) ==
    [o EXCEPT !.ext = IF o.ext = NoId THEN row.ext ELSE o.ext,
              !.filled = IF o.filled = 0 THEN row.filled ELSE o.filled]
Saved(o) == [rows EXCEPT ![o.uid] = Merge(@, o)]
Updated(o) == IF rows[o.uid].status = "none" THEN rows ELSE Saved(o)

(* The object a task works on, and where a task goes when submitOrder      *)
(* returns to it.                                                          *)
ObjOf(t) == IF t \in Call THEN t ELSE task[t].order
AfterSubmit(t) == IF t \in Call THEN Done ELSE [task[t] EXCEPT !.pc = "reap"]
Rejected(t) == IF t \in Call THEN Done ELSE Idle

DbFault == /\ faults.db < MaxDbFaults
           /\ faults' = [faults EXCEPT !.db = @ + 1]
NetFault == /\ faults.net < MaxNetFaults
            /\ faults' = [faults EXCEPT !.net = @ + 1]

Init ==
    /\ up = FALSE /\ mode \in Modes
    /\ orders = {}
    /\ heap = [o \in Obj |-> Blank]
    /\ task = [t \in Task |-> Idle]
    /\ rows = [u \in Uid |-> Blank]
    /\ positions = [p \in Pair |-> [isOpen |-> FALSE, qty |-> 0]]
    /\ exch = <<>>
    /\ faults = [crash |-> 0, db |-> 0, net |-> 0]
    /\ credits = [x \in 1..MaxExchangeOrders |-> 0]
    /\ ledger = [p \in Pair |-> 0]

-----------------------------------------------------------------------------
(* placeOrder *)

(* An order event arrives.  Outside live mode placeOrder returns at once.  *)
PlaceOrder(c, u) ==
    /\ up /\ mode = "live" /\ task[c].pc = "idle"
    /\ heap' = [heap EXCEPT ![c] = [Blank EXCEPT !.uid = u]]
    /\ task' = [task EXCEPT ![c].pc = "find"]
    /\ UNCHANGED <<memory, rows, positions, exch, faults, history>>

ActionHasActiveRow(a) == \E u \in Uid : u[1] = a /\ IsActive(rows[u])

(* Mutant: no check in memory.                                             *)
UidInMemory_Unchecked(u) == FALSE
UidInMemory(u) == \E o \in orders : heap[o].uid = u

(* The answer of findActiveByActionId, then the check in memory.           *)
CheckDuplicates(c) ==
    /\ task[c].pc = "find"
    /\ IF ActionHasActiveRow(heap[c].uid[1]) \/ UidInMemory(heap[c].uid)
       THEN /\ task' = [task EXCEPT ![c] = Done]
            /\ UNCHANGED <<heap, orders>>
       ELSE /\ heap' = [heap EXCEPT ![c].status = "new"]
            /\ orders' = orders \cup {c}
            /\ task' = [task EXCEPT ![c].pc = "create", ![c].row = heap'[c]]
    /\ UNCHANGED <<up, mode, rows, positions, exch, faults, history>>

Create(c) ==
    /\ task[c].pc = "create"
    /\ rows' = Saved(task[c].row)
    /\ task' = [task EXCEPT ![c].pc = "quantity", ![c].row = Blank]
    /\ UNCHANGED <<memory, heap, positions, exch, faults, history>>

-----------------------------------------------------------------------------
(* submitOrder, for a placeOrder call and for the cron job *)

(* order.status = s, and the update call issued with the order as it is    *)
(* then; the update is awaited at l.                                       *)
SetAndSave(t, s, l) ==
    /\ heap' = [heap EXCEPT ![ObjOf(t)].status = s]
    /\ task' = [task EXCEPT ![t].pc = l, ![t].row = heap'[ObjOf(t)]]

CalculateQuantity(t) ==
    /\ task[t].pc = "quantity"
    /\ \/ /\ task' = [task EXCEPT ![t].pc = "submit"]
          /\ UNCHANGED heap
       \/ SetAndSave(t, "failed", "saveTry")        \* quantity <= 0
       \/ SetAndSave(t, "failed", "saveFailed")     \* getBalance threw
    /\ UNCHANGED <<memory, rows, positions, exch, faults, history>>

(* The exchange accepts an order.  by, life and uid are history: the       *)
(* object it was sent for, in which life of the process, and its uid.      *)
NewExchangeOrder(t) ==
    /\ Len(exch) < MaxExchangeOrders
    /\ \E lot \in Lots :
          exch' = Append(exch, [uid |-> heap[ObjOf(t)].uid, by |-> ObjOf(t),
                                life |-> faults.crash, amount |-> lot,
                                filled |-> 0, status |-> "open"])

(* Mutant: the exchange's id is not kept.                                  *)
Submitted_WithoutId(o, id) == [o EXCEPT !.status = "pending"]
Submitted(o, id) == [o EXCEPT !.ext = id, !.status = "pending"]

(* createMarketOrder or createLimitOrder answers with the exchange's id.   *)
Accepted(t) ==
    /\ task[t].pc = "submit"
    /\ NewExchangeOrder(t)
    /\ heap' = [heap EXCEPT ![ObjOf(t)] = Submitted(@, Len(exch'))]
    /\ task' = [task EXCEPT ![t].pc = "saveTry", ![t].row = heap'[ObjOf(t)]]
    /\ UNCHANGED <<memory, rows, positions, faults, history>>

(* The exchange refuses the order, or its acceptance is lost on the way.   *)
Refused(t) ==
    /\ task[t].pc = "submit"
    /\ SetAndSave(t, "failed", "saveFailed")
    /\ UNCHANGED <<memory, rows, positions, exch, faults, history>>

AcceptanceLost(t) ==
    /\ task[t].pc = "submit"
    /\ NetFault
    /\ NewExchangeOrder(t)
    /\ SetAndSave(t, "failed", "saveFailed")
    /\ UNCHANGED <<memory, rows, positions, history>>

SaveSubmitted(t) ==
    /\ task[t].pc \in {"saveTry", "saveFailed"}
    /\ rows' = Updated(task[t].row)
    /\ task' = [task EXCEPT ![t] = [AfterSubmit(t) EXCEPT !.row = Blank]]
    /\ UNCHANGED <<memory, heap, positions, exch, faults, history>>

-----------------------------------------------------------------------------
(* orderProcessor, the cron job *)

(* waitForCompletion: a tick starts no run while another one is going.     *)
(* Mutant: without it.                                                     *)
NoRunGoing_Ignored == TRUE
NoRunGoing == \A k \in Cron : task[k].pc = "idle"
NoPlacementGoing == \A c \in Call : task[c].pc \in {"idle", "done"}

CronTick(k) ==
    /\ up /\ task[k].pc = "idle"
    /\ NoRunGoing
    /\ OverlapAllowed \/ NoPlacementGoing
    /\ task' = IF orders = {} THEN task ELSE
                   [task EXCEPT ![k].pc = "loop", ![k].todo = orders]
    /\ UNCHANGED <<memory, heap, rows, positions, exch, faults, history>>

(* Where the loop body takes an order; trackOrder returns at once when the *)
(* order has no external id.                                               *)
(* Mutants: no recovery of new orders; failed orders are tried again.      *)
Visit_NoRecovery(o) ==
    IF o.status = "pending" /\ o.ext # NoId THEN "track" ELSE "reap"
Visit_RetryFailed(o) == CASE o.status \in {"new", "failed"} -> "quantity"
                          [] o.status = "pending" /\ o.ext # NoId -> "track"
                          [] OTHER -> "reap"
Visit(o) == CASE o.status = "new" -> "quantity"
              [] o.status = "pending" /\ o.ext # NoId -> "track"
              [] OTHER -> "reap"

CronVisit(k) ==
    /\ task[k].pc = "loop"
    /\ \E o \in task[k].todo :
          task' = [task EXCEPT ![k] =
                      [pc |-> Visit(heap[o]), order |-> o, row |-> Blank,
                       ext |-> heap[o].ext, write |-> NoWrite,
                       todo |-> task[k].todo \ {o}]]
    /\ UNCHANGED <<memory, heap, rows, positions, exch, faults, history>>

(* An order that has come to its end leaves this.orders, by its uid.       *)
CronReap(k) ==
    /\ task[k].pc = "reap"
    /\ LET o == heap[task[k].order] IN
       orders' = IF IsTerminal(o) THEN {p \in orders : heap[p].uid # o.uid}
                                  ELSE orders
    /\ task' = [task EXCEPT ![k] = IF @.todo = {} THEN Idle ELSE
                   [Idle EXCEPT !.pc = "loop", !.todo = task[k].todo]]
    /\ UNCHANGED <<up, mode, heap, rows, positions, exch, faults, history>>

-----------------------------------------------------------------------------
(* trackOrder and handleOrderCompletion *)

(* getOrder answers for the id it was asked for.                           *)
Tracked(k) ==
    /\ task[k].pc = "track"
    /\ LET o == task[k].order
           x == exch[task[k].ext]
       IN \/ /\ x.status = "closed"
             /\ heap' = [heap EXCEPT ![o].status = "completed",
                                     ![o].filled = x.filled]
             /\ task' = [task EXCEPT ![k].pc = "findPosition"]
          \/ /\ x.status = "canceled"
             /\ SetAndSave(k, "cancelled", "saveTracked")
          \/ /\ x.status = "open" /\ x.filled > 0 /\ x.filled # heap[o].filled
             /\ heap' = [heap EXCEPT ![o].filled = x.filled]
             /\ task' = [task EXCEPT ![k].pc = "saveTracked",
                                     ![k].row = heap'[o]]
          \/ /\ x.status = "open" /\ x.filled \in {0, heap[o].filled}
             /\ task' = [task EXCEPT ![k].pc = "reap"]
             /\ UNCHANGED heap
    /\ UNCHANGED <<memory, rows, positions, exch, faults, history>>

TrackFails(k) ==
    /\ task[k].pc = "track"
    /\ NetFault
    /\ task' = [task EXCEPT ![k].pc = "reap"]
    /\ UNCHANGED <<memory, heap, rows, positions, exch, history>>

(* The position write that answers a fill f, given the open position.      *)
(* Mutants: a sell only ever reduces; a second buy replaces the first.     *)
PlannedWrite_NeverClose(side, p, f) ==
    CASE side = "buy" /\ p.isOpen -> [kind |-> "resize", qty |-> p.qty + f]
      [] side = "buy" /\ ~p.isOpen -> [kind |-> "open", qty |-> f]
      [] side = "sell" /\ p.isOpen -> [kind |-> "resize", qty |-> p.qty - f]
      [] OTHER -> NoWrite
PlannedWrite_Replace(side, p, f) ==
    IF side = "buy" THEN [kind |-> "open", qty |-> f] ELSE NoWrite
PlannedWrite(side, p, f) ==
    CASE side = "buy" /\ p.isOpen -> [kind |-> "resize", qty |-> p.qty + f]
      [] side = "buy" /\ ~p.isOpen -> [kind |-> "open", qty |-> f]
      [] side = "sell" /\ p.isOpen /\ f > 0 /\ f >= p.qty ->
            [kind |-> "close", qty |-> 0]
      [] side = "sell" /\ p.isOpen /\ f > 0 /\ f < p.qty ->
            [kind |-> "resize", qty |-> p.qty - f]
      [] OTHER -> NoWrite

FindPosition(k) ==
    /\ task[k].pc = "findPosition"
    /\ LET o == heap[task[k].order]
           w == PlannedWrite(SideOfOrder(o), positions[PairOfOrder(o)],
                             o.filled)
       IN task' = IF w = NoWrite
                  THEN [task EXCEPT ![k].pc = "saveTracked", ![k].row = o]
                  ELSE [task EXCEPT ![k].pc = "writePosition", ![k].write = w]
    /\ UNCHANGED <<memory, heap, rows, positions, exch, faults, history>>

(* updatePosition and closePosition touch the row only while it is open.   *)
Written(p, w) ==
    CASE w.kind = "open" -> [isOpen |-> TRUE, qty |-> w.qty]
      [] w.kind = "resize" /\ p.isOpen -> [p EXCEPT !.qty = w.qty]
      [] w.kind = "close" -> [p EXCEPT !.isOpen = FALSE]
      [] OTHER -> p

WritePosition(k) ==
    /\ task[k].pc = "writePosition"
    /\ LET o == heap[task[k].order]
           p == PairOfOrder(o)
       IN /\ positions' = [positions EXCEPT ![p] = Written(@, task[k].write)]
          /\ credits' = [credits EXCEPT ![task[k].ext] = @ + 1]
          /\ ledger' = [ledger EXCEPT ![p] =
                 IF SideOfOrder(o) = "buy" THEN @ + o.filled
                 ELSE IF o.filled >= @ THEN 0 ELSE @ - o.filled]
          /\ task' = [task EXCEPT ![k].pc = "saveTracked", ![k].row = o,
                                  ![k].write = NoWrite]
    /\ UNCHANGED <<memory, heap, rows, exch, faults>>

SaveTracked(k) ==
    /\ task[k].pc = "saveTracked"
    /\ rows' = Updated(task[k].row)
    /\ task' = [task EXCEPT ![k].pc = "reap", ![k].row = Blank]
    /\ UNCHANGED <<memory, heap, positions, exch, faults, history>>

-----------------------------------------------------------------------------
(* A database call fails.  placeOrder's promise is rejected and its error  *)
(* logged; submitOrder's catch marks the order failed and saves it, and    *)
(* when that save fails the error leaves submitOrder, ending the call or   *)
(* the cron run; handleOrderCompletion and trackOrder log and go on.       *)
DbFails(t) ==
    /\ DbFault
    /\ \/ /\ task[t].pc \in {"find", "create", "saveFailed"}
          /\ task' = [task EXCEPT ![t] = Rejected(t)]
          /\ UNCHANGED heap
       \/ /\ task[t].pc = "saveTry"
          /\ SetAndSave(t, "failed", "saveFailed")
       \/ /\ task[t].pc \in {"findPosition", "writePosition"}
          /\ task' = [task EXCEPT ![t].pc = "saveTracked",
                          ![t].row = heap[ObjOf(t)], ![t].write = NoWrite]
          /\ UNCHANGED heap
       \/ /\ task[t].pc = "saveTracked"
          /\ task' = [task EXCEPT ![t].pc = "reap", ![t].row = Blank]
          /\ UNCHANGED heap
    /\ UNCHANGED <<memory, rows, positions, exch, history>>

-----------------------------------------------------------------------------
(* The process ends, losing its memory and the calls in flight, and starts *)
(* again: onModuleInit loads the active rows before any event or tick.     *)
Crash ==
    /\ up /\ faults.crash < MaxCrashes
    /\ faults' = [faults EXCEPT !.crash = @ + 1]
    /\ up' = FALSE
    /\ orders' = {}
    /\ heap' = [o \in Obj |-> Blank]
    /\ task' = [t \in Task |-> IF t \in Cron \/ task[t].pc = "idle"
                               THEN Idle ELSE Done]
    /\ credits' = [x \in 1..MaxExchangeOrders |-> 0]
    /\ UNCHANGED <<mode, rows, positions, exch, ledger>>

(* Mutant: only pending orders are loaded.                                 *)
FindActive_Pending == {u \in Uid : rows[u].status = "pending"}
FindActive == {u \in Uid : IsActive(rows[u])}

Start ==
    /\ ~up /\ up' = TRUE
    /\ mode' \in Modes
    /\ orders' = FindActive
    /\ heap' = [o \in Obj |-> IF o \in FindActive THEN rows[o] ELSE Blank]
    /\ UNCHANGED <<task, rows, positions, exch, faults, history>>

(* The exchange fills an order a little more, or ends it unfilled: a user  *)
(* cancels it, or the exchange rejects it or lets it expire.               *)
Fill(x) ==
    /\ exch[x].status = "open"
    /\ exch' = [exch EXCEPT ![x].filled = @ + 1,
           ![x].status = IF exch[x].filled + 1 = exch[x].amount
                         THEN "closed" ELSE "open"]
    /\ UNCHANGED <<memory, heap, task, rows, positions, faults, history>>

EndUnfilled(x) ==
    /\ exch[x].status = "open"
    /\ exch' = [exch EXCEPT ![x].status = "canceled"]
    /\ UNCHANGED <<memory, heap, task, rows, positions, faults, history>>

-----------------------------------------------------------------------------
PlaceStep(c) == CheckDuplicates(c) \/ Create(c)
SubmitStep(t) == \/ CalculateQuantity(t) \/ Accepted(t) \/ Refused(t)
                 \/ AcceptanceLost(t) \/ SaveSubmitted(t) \/ DbFails(t)
CronStep(k) == \/ CronVisit(k) \/ CronReap(k) \/ Tracked(k) \/ TrackFails(k)
               \/ FindPosition(k) \/ WritePosition(k) \/ SaveTracked(k)
ExchangeStep(x) == Fill(x) \/ EndUnfilled(x)

Next ==
    \/ \E c \in Call : PlaceStep(c) \/ \E u \in Uid : PlaceOrder(c, u)
    \/ \E t \in Task : SubmitStep(t)
    \/ \E k \in Cron : CronTick(k) \/ CronStep(k)
    \/ \E x \in 1..Len(exch) : ExchangeStep(x)
    \/ Crash \/ Start

Spec == Init /\ [][Next]_vars

(* Calls to the database and the exchange are answered, the scheduler goes *)
(* on ticking, a process that is down is started again, and the exchange   *)
(* does not keep an order open for ever.                                   *)
Fairness ==
    /\ WF_vars(Start)
    /\ WF_vars(\E k \in Cron : CronTick(k))
    /\ \A c \in Call : WF_vars(PlaceStep(c) \/ SubmitStep(c))
    /\ \A k \in Cron : WF_vars(SubmitStep(k) \/ CronStep(k))
    /\ \A x \in 1..MaxExchangeOrders :
          WF_vars(x \in 1..Len(exch) /\ ExchangeStep(x))
FairSpec == Spec /\ Fairness
=============================================================================
