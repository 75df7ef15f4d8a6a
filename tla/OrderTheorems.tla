--------------------------- MODULE OrderTheorems ---------------------------
(***************************************************************************)
(* What is proved of OrderService, for any calls, actions, candles, pairs, *)
(* lots, modes and bounds.  First that every action keeps IInv, one lemma  *)
(* per action: what the action changes, then one step per conjunct of      *)
(* IInv.  Then the theorems, which name the property each of them proves   *)
(* and rest on Invariance, that IInv holds of every reachable state.       *)
(* After them, in the same manner, what holds besides when no tick falls   *)
(* into a placement (QuietOK), and when no call fails either (FillsOK).    *)
(***************************************************************************)
EXTENDS OrderInvariant, Sums

USE TaskAssumption, ActionAssumption, BoundAssumption DEF Placed

-----------------------------------------------------------------------------
(* Lemmas about the pieces the actions are built from. *)

LEMMA LocationFacts ==
    /\ "idle" \in Locations /\ "find" \in Locations /\ "create" \in Locations
    /\ "quantity" \in Locations /\ "submit" \in Locations
    /\ "saveTry" \in Locations /\ "saveFailed" \in Locations
    /\ "loop" \in Locations /\ "track" \in Locations
    /\ "findPosition" \in Locations /\ "writePosition" \in Locations
    /\ "saveTracked" \in Locations /\ "reap" \in Locations
    /\ "done" \in Locations
BY DEF Locations

LEMMA StatusFacts ==
    /\ "none" \in Statuses /\ "new" \in Statuses /\ "pending" \in Statuses
    /\ "completed" \in Statuses /\ "cancelled" \in Statuses
    /\ "failed" \in Statuses
BY DEF Statuses

LEMMA SetFacts ==
    /\ Call \subseteq Task /\ Cron \subseteq Task
    /\ Call \subseteq Obj /\ Uid \subseteq Obj
    /\ \A c \in Call, k \in Cron : c # k
BY DEF Task, Obj

LEMMA IdleTask ==
    /\ Idle \in TaskState /\ Idle.pc = "idle" /\ Idle.todo = {}
    /\ Done \in TaskState /\ Done.pc = "done" /\ Done.todo = {}
BY DEF Blank, Order, Statuses, NoId, Idle, Done, TaskState, Locations, NoWrite

LEMMA BlankOrder == Blank \in Order /\ Blank.uid = NoUid /\ Blank.ext = 0
                    /\ Blank.status = "none" /\ Blank.filled = 0
BY DEF Blank, Order, Statuses, NoId

LEMMA RowState ==
    ASSUME NEW q \in TaskState, NEW l \in Locations, NEW r \in Order
    PROVE  [q EXCEPT !.pc = l, !.row = r] \in TaskState
BY DEF TaskState

(* What an assignment to a task's pc and row does. *)
LEMMA TaskRow ==
    ASSUME task \in [Task -> TaskState], NEW t \in Task, NEW l \in Locations,
           NEW r \in Order, task' = [task EXCEPT ![t].pc = l, ![t].row = r]
    PROVE  /\ task' \in [Task -> TaskState]
           /\ task'[t].pc = l /\ task'[t].row = r
           /\ task'[t].order = task[t].order /\ task'[t].ext = task[t].ext
           /\ task'[t].todo = task[t].todo /\ task'[t].write = task[t].write
           /\ \A s \in Task \ {t} : task'[s] = task[s]
<1>1. [task[t] EXCEPT !.pc = l, !.row = r] \in TaskState
  BY RowState
<1>2. task' = [task EXCEPT ![t] = [task[t] EXCEPT !.pc = l, !.row = r]]
  OBVIOUS
<1>3. /\ task' \in [Task -> TaskState]
      /\ task'[t] = [task[t] EXCEPT !.pc = l, !.row = r]
      /\ \A s \in Task \ {t} : task'[s] = task[s]
  BY <1>1, <1>2
<1>4. task[t] \in TaskState
  OBVIOUS
<1> QED
  BY <1>3, <1>4 DEF TaskState

LEMMA TaskPc ==
    ASSUME task \in [Task -> TaskState], NEW t \in Task, NEW l \in Locations,
           task' = [task EXCEPT ![t].pc = l]
    PROVE  /\ task' \in [Task -> TaskState]
           /\ task'[t].pc = l /\ task'[t].row = task[t].row
           /\ task'[t].order = task[t].order /\ task'[t].ext = task[t].ext
           /\ task'[t].todo = task[t].todo /\ task'[t].write = task[t].write
           /\ \A s \in Task \ {t} : task'[s] = task[s]
BY DEF TaskState

WriteState == [kind : {"none", "open", "resize", "close"}, qty : Nat]

LEMMA WriteFits ==
    ASSUME NEW q \in TaskState, NEW l \in Locations, NEW w \in WriteState
    PROVE  [q EXCEPT !.pc = l, !.write = w] \in TaskState
<1> DEFINE W == {"none", "open", "resize", "close"}
<1>1. w \in [kind : W, qty : Nat]
  BY DEF WriteState
<1> HIDE DEF W
<1>2. q \in [pc : Locations, order : Obj \cup {NoObj}, row : Order, ext : Nat,
             write : [kind : W, qty : Nat], todo : SUBSET Obj]
  BY DEF TaskState, W
<1>3. [q EXCEPT !.pc = l, !.write = w] \in
        [pc : Locations, order : Obj \cup {NoObj}, row : Order, ext : Nat,
         write : [kind : W, qty : Nat], todo : SUBSET Obj]
  BY <1>1, <1>2
<1> QED
  BY <1>3 DEF TaskState, W

LEMMA TaskWrite ==
    ASSUME task \in [Task -> TaskState], NEW t \in Task, NEW w \in WriteState,
           task' = [task EXCEPT ![t].pc = "writePosition", ![t].write = w]
    PROVE  /\ task' \in [Task -> TaskState]
           /\ task'[t].pc = "writePosition"
           /\ task'[t].order = task[t].order /\ task'[t].ext = task[t].ext
           /\ task'[t].todo = task[t].todo /\ task'[t].write = w
           /\ \A s \in Task \ {t} : task'[s] = task[s]
<1>1. [task[t] EXCEPT !.pc = "writePosition", !.write = w] \in TaskState
  BY WriteFits, LocationFacts
<1>2. task' = [task EXCEPT ![t] =
                 [task[t] EXCEPT !.pc = "writePosition", !.write = w]]
  OBVIOUS
<1>3. /\ task' \in [Task -> TaskState]
      /\ task'[t] = [task[t] EXCEPT !.pc = "writePosition", !.write = w]
      /\ \A s \in Task \ {t} : task'[s] = task[s]
  BY <1>1, <1>2
<1>4. task[t] \in TaskState
  OBVIOUS
<1> QED
  BY <1>3, <1>4 DEF TaskState

LEMMA TaskSaving ==
    ASSUME task \in [Task -> TaskState], NEW t \in Task, NEW r \in Order,
           task' = [task EXCEPT ![t].pc = "saveTracked", ![t].row = r]
    PROVE  /\ task' \in [Task -> TaskState]
           /\ task'[t].pc = "saveTracked" /\ task'[t].row = r
           /\ task'[t].order = task[t].order /\ task'[t].ext = task[t].ext
           /\ task'[t].todo = task[t].todo
           /\ \A s \in Task \ {t} : task'[s] = task[s]
<1>1. [task[t] EXCEPT !.pc = "saveTracked", !.row = r] \in TaskState
  BY RowState, LocationFacts
<1>2. task' = [task EXCEPT ![t] = [task[t] EXCEPT !.pc = "saveTracked", !.row = r]]
  OBVIOUS
<1>3. /\ task' \in [Task -> TaskState]
      /\ task'[t] = [task[t] EXCEPT !.pc = "saveTracked", !.row = r]
      /\ \A s \in Task \ {t} : task'[s] = task[s]
  BY <1>1, <1>2
<1>4. task[t] \in TaskState
  OBVIOUS
<1> QED
  BY <1>3, <1>4 DEF TaskState

LEMMA LoopState ==
    ASSUME NEW q \in TaskState, NEW l \in Locations, NEW S \in SUBSET Obj
    PROVE  [q EXCEPT !.pc = l, !.todo = S] \in TaskState
BY DEF TaskState

LEMMA TaskWhole ==
    ASSUME task \in [Task -> TaskState], NEW t \in Task, NEW r \in TaskState,
           task' = [task EXCEPT ![t] = r]
    PROVE  /\ task' \in [Task -> TaskState] /\ task'[t] = r
           /\ \A s \in Task \ {t} : task'[s] = task[s]
OBVIOUS

(* What an assignment to an order object's status does. *)
LEMMA HeapStatus ==
    ASSUME heap \in [Obj -> Order], NEW o \in Obj, NEW s \in Statuses,
           heap' = [heap EXCEPT ![o].status = s]
    PROVE  /\ heap' \in [Obj -> Order]
           /\ heap'[o].status = s /\ heap'[o].uid = heap[o].uid
           /\ heap'[o].ext = heap[o].ext /\ heap'[o].filled = heap[o].filled
           /\ \A p \in Obj \ {o} : heap'[p] = heap[p]
BY DEF Order

LEMMA HeapCompleted ==
    ASSUME heap \in [Obj -> Order], NEW o \in Obj, NEW f \in Nat,
           heap' = [heap EXCEPT ![o].status = "completed", ![o].filled = f]
    PROVE  /\ heap' \in [Obj -> Order]
           /\ heap'[o].status = "completed" /\ heap'[o].uid = heap[o].uid
           /\ heap'[o].ext = heap[o].ext
           /\ \A p \in Obj \ {o} : heap'[p] = heap[p]
<1>1. [heap[o] EXCEPT !.status = "completed", !.filled = f] \in Order
  BY StatusFacts DEF Order
<1>2. heap' = [heap EXCEPT ![o] =
                 [heap[o] EXCEPT !.status = "completed", !.filled = f]]
  OBVIOUS
<1>3. heap[o] \in Order
  OBVIOUS
<1> QED
  BY <1>1, <1>2, <1>3 DEF Order

(* The exchange's orders keep their numbers and uids. *)
ExchangeGrows ==
    /\ exch' \in Seq(ExchangeOrder)
    /\ Len(exch) \in Nat /\ Len(exch') \in Nat
    /\ Len(exch) <= Len(exch') /\ Len(exch') <= MaxExchangeOrders
    /\ \A x \in 1..Len(exch) : exch'[x].uid = exch[x].uid

LEMMA ExchangeSame == ASSUME IInv, exch' = exch PROVE ExchangeGrows
BY DEF IInv, TypeOK, CreditOK, ExchangeGrows

LEMMA ExchangeAppended ==
    ASSUME IInv, NEW t \in Task, NewExchangeOrder(t),
           ObjOf(t) \in Obj, heap[ObjOf(t)].uid \in Uid
    PROVE  /\ ExchangeGrows /\ Len(exch') = Len(exch) + 1
           /\ exch'[Len(exch')].uid = heap[ObjOf(t)].uid
<1>1. PICK lot \in Lots :
        exch' = Append(exch, [uid |-> heap[ObjOf(t)].uid, by |-> ObjOf(t),
                              life |-> faults.crash, amount |-> lot,
                              filled |-> 0, status |-> "open"])
  BY DEF NewExchangeOrder
<1>2. [uid |-> heap[ObjOf(t)].uid, by |-> ObjOf(t), life |-> faults.crash,
       amount |-> lot, filled |-> 0, status |-> "open"] \in ExchangeOrder
  BY DEF ExchangeOrder, IInv, TypeOK
<1>3. exch \in Seq(ExchangeOrder) /\ Len(exch) < MaxExchangeOrders
  BY DEF IInv, TypeOK, NewExchangeOrder
<1> QED
  BY <1>1, <1>2, <1>3 DEF ExchangeGrows

LEMMA OwnIdKept ==
    ASSUME ExchangeGrows, NEW o \in Order, OwnId(o)
    PROVE  OwnId(o)'
BY DEF ExchangeGrows, OwnId, NoId, Order

(* A save of a task's row leaves the table well formed. *)
LEMMA SaveKeepsRows ==
    ASSUME IInv, NEW t \in Task, task[t].pc \in Writing, exch' = exch,
           rows' \in {Saved(task[t].row), Updated(task[t].row)}
    PROVE  rows' \in [Uid -> Order] /\ RowsOK'
<1>1. task[t].row \in Order /\ task[t].row.uid \in Uid
      /\ task[t].row.status # "none" /\ OwnId(task[t].row)
  BY DEF IInv, TypeOK, TasksOK, CallsOK, CronsOK, WritesOK, TaskState
<1>2. CASE rows' = rows
  BY <1>2 DEF IInv, TypeOK, RowsOK, OwnId
<1>3. CASE rows' = Saved(task[t].row)
  <2>1. PICK u \in Uid : u = task[t].row.uid
    BY <1>1
  <2>2. /\ rows' = [rows EXCEPT ![u] = Merge(rows[u], task[t].row)]
        /\ rows[u] \in Order
    BY <1>1, <1>3, <2>1 DEF Saved, IInv, TypeOK
  <2>3. /\ OwnId(rows[u]) /\ rows[u].ext \in Nat
        /\ rows[u].ext # NoId => rows[u].uid = u
    BY <2>2 DEF IInv, RowsOK, OwnId, Blank, NoId, Order
  <2>4. /\ Merge(rows[u], task[t].row) \in Order
        /\ Merge(rows[u], task[t].row).status # "none"
        /\ Merge(rows[u], task[t].row).uid = u
        /\ OwnId(Merge(rows[u], task[t].row))
    BY <1>1, <2>1, <2>2, <2>3 DEF Merge, Order, OwnId, NoId
  <2> QED
    BY <2>2, <2>4 DEF IInv, TypeOK, RowsOK, OwnId
<1> QED
  BY <1>2, <1>3 DEF Updated

-----------------------------------------------------------------------------
LEMMA PlaceOrderOK ==
    ASSUME IInv, NEW c \in Call, NEW u \in Uid, PlaceOrder(c, u) PROVE IInv'
<1>a. /\ c \in Task /\ c \in Obj /\ task \in [Task -> TaskState]
      /\ heap \in [Obj -> Order] /\ up /\ task[c].pc = "idle"
  BY SetFacts DEF IInv, TypeOK, PlaceOrder
<1>e. /\ heap' = [heap EXCEPT ![c] = [Blank EXCEPT !.uid = u]]
      /\ task' = [task EXCEPT ![c].pc = "find"]
      /\ UNCHANGED <<up, mode, orders, rows, positions, exch, faults, credits,
                     ledger>>
  BY DEF PlaceOrder, memory, history
<1>b. /\ task' \in [Task -> TaskState]
      /\ task'[c].pc = "find" /\ task'[c].todo = task[c].todo
      /\ \A t \in Task \ {c} : task'[t] = task[t]
  BY <1>a, <1>e, TaskPc, LocationFacts
<1>h. /\ heap' \in [Obj -> Order]
      /\ heap'[c].uid = u /\ heap'[c].ext = 0 /\ heap'[c].status = "none"
      /\ \A p \in Obj \ {c} : heap'[p] = heap[p]
  BY <1>a, <1>e DEF Blank, Order, NoId, Statuses
<1>n. heap[c] = Blank /\ heap[c].uid = NoUid /\ heap[c].ext = 0 /\ c \notin orders
  BY <1>a, BlankOrder DEF IInv, HeapOK
<1>1. TypeOK'
  BY <1>a, <1>b, <1>h, <1>e DEF IInv, TypeOK
<1>2. HeapOK'
  BY <1>a, <1>b, <1>h, <1>n, <1>e DEF HeapOK, OwnId, IInv, Task, TypeOK, NoId
<1>3. RowsOK'
  BY <1>e DEF IInv, RowsOK, OwnId
<1>4. TasksOK'
  <2>1. CallsOK'
    <3>1. /\ task'[c].pc \in CallLocations /\ heap'[c].uid \in Uid
      BY <1>b, <1>h DEF CallLocations
    <3>2. \A d \in Call \ {c} : task'[d] = task[d] /\ heap'[d] = heap[d]
      BY <1>b, <1>h, SetFacts
    <3>3. CallsOK
      BY DEF IInv, TasksOK
    <3> QED
      BY <3>1, <3>2, <3>3 DEF CallsOK
  <2>2. CronsOK'
    <3>1. CronsOK
      BY DEF IInv, TasksOK
    <3>2. \A o \in Obj : Placed(heap[o]) => Placed(heap'[o])
      BY <1>h, <1>n, BlankOrder DEF Placed
    <3>3. \A k \in Cron : task'[k] = task[k] /\ task[k].todo \subseteq Obj
      BY <1>a, <1>b, SetFacts DEF TaskState
    <3> QED
      BY <3>1, <3>2, <3>3 DEF CronsOK
  <2>3. WritesOK'
    BY <1>a, <1>b, <1>e DEF IInv, TasksOK, WritesOK, Writing, Placed, OwnId
  <2> QED
    BY <2>1, <2>2, <2>3 DEF TasksOK
<1>5. ProcessOK'
  BY <1>a, <1>b, <1>e DEF IInv, ProcessOK, Task
<1>6. CreditOK'
  BY <1>a, <1>b, <1>h, <1>n, <1>e
     DEF IInv, CreditOK, CreditedOnce, Asking, Crediting, Task, TasksOK, CallsOK, CronsOK, WritesOK, OnOrder
<1>7. PositionOK'
  BY <1>a, <1>b, <1>h, <1>n, <1>e
     DEF IInv, PositionOK, PositionIsLedger, Held, Task, TasksOK, CallsOK, CronsOK, WritesOK, OnOrder
<1>8. UniqueInMemory'
  BY <1>a, <1>e, <1>h, <1>n DEF IInv, UniqueInMemory, TypeOK
<1> QED BY <1>1, <1>2, <1>3, <1>4, <1>5, <1>6, <1>7, <1>8 DEF IInv

(* What IInv asks of one task, in a state t of it. *)
TaskFits(t, r) ==
    /\ t \in Call => /\ r.pc \in CallLocations \ {"idle"}
                     /\ r.pc # "done" => heap[t].uid \in Uid
    /\ t \in Cron =>
          /\ r.pc \in OnOrder \cup {"idle", "loop"}
          /\ r.pc \in OnOrder => r.order \in Obj /\ Placed(heap[r.order])
          /\ r.pc # "idle" => \A o \in r.todo : Placed(heap[o])
          /\ r.pc \in Asking =>
                /\ r.ext \in 1..Len(exch) /\ credits[r.ext] = 0
                /\ \A o \in Obj : heap[o].ext = r.ext => o = r.order
          /\ r.pc \in Crediting /\ heap[r.order].ext = r.ext =>
                heap[r.order].status # "pending"
          /\ r.pc = "writePosition" =>
                LET o == heap[r.order] IN
                /\ r.write # NoWrite
                /\ r.write = PlannedWrite(SideOfOrder(o),
                                 positions[PairOfOrder(o)], o.filled)
    /\ r.pc \in Writing => Placed(r.row) /\ OwnId(r.row)

(* A step of one task that changes its state and the table, and may take   *)
(* objects out of this.orders.                                             *)
LEMMA TaskStepOK ==
    ASSUME IInv, up, NEW t \in Task,
           task[t].pc # "idle" \/ (t \in Cron /\ NoRunGoing),
           task' \in [Task -> TaskState],
           \A q \in Task \ {t} : task'[q] = task[q],
           TaskFits(t, task'[t]),
           rows' \in [Uid -> Order], RowsOK',
           faults' \in [crash : Nat, db : Nat, net : Nat],
           orders' \subseteq orders,
           UNCHANGED <<up, mode, heap, positions, exch, credits, ledger>>
    PROVE  IInv'
<1>1. TypeOK'
  BY DEF IInv, TypeOK
<1>2. HeapOK'
  <2>1. \A c \in Call : task'[c].pc = "idle" => task[c].pc = "idle"
    BY SetFacts DEF TaskFits
  <2> QED
    BY <2>1 DEF IInv, HeapOK, OwnId
<1>4. TasksOK'
  <2>1. CallsOK'
    BY SetFacts DEF IInv, TasksOK, CallsOK, TaskFits
  <2>2. CronsOK'
    BY SetFacts DEF IInv, TasksOK, CronsOK, TaskFits
  <2>3. WritesOK'
    <3>1. task'[t].pc \in Writing => Placed(task'[t].row) /\ OwnId(task'[t].row)
      BY DEF TaskFits
    <3>2. \A q \in Task \ {t} : task[q].pc \in Writing =>
             Placed(task[q].row) /\ OwnId(task[q].row)
      BY DEF IInv, TasksOK, WritesOK
    <3>3. \A q \in Task : task'[q].pc \in Writing =>
             Placed(task'[q].row) /\ OwnId(task'[q].row)
      BY <3>1, <3>2
    <3> QED
      BY <3>3 DEF WritesOK, OwnId
  <2> QED
    BY <2>1, <2>2, <2>3 DEF TasksOK
<1>5. ProcessOK'
  BY SetFacts DEF IInv, ProcessOK, NoRunGoing
<1>6. CreditOK'
  BY SetFacts DEF IInv, CreditOK, CreditedOnce, TaskFits
<1>7. PositionOK'
  <2>1. PositionIsLedger'
    BY DEF IInv, PositionOK, PositionIsLedger, Held
  <2>2. ASSUME NEW k \in Cron, task'[k].pc = "writePosition"
        PROVE  /\ task'[k].write # NoWrite
               /\ task'[k].write = PlannedWrite(
                      SideOfOrder(heap[task'[k].order]),
                      positions[PairOfOrder(heap[task'[k].order])],
                      heap[task'[k].order].filled)
    <3>1. CASE k = t
      BY <2>2, <3>1 DEF TaskFits
    <3>2. CASE k # t
      <4>1. task'[k] = task[k]
        BY <3>2, SetFacts
      <4> QED
        BY <2>2, <4>1 DEF IInv, PositionOK
    <3> QED
      BY <3>1, <3>2
  <2> QED
    BY <2>1, <2>2 DEF PositionOK, SideOfOrder, PairOfOrder
<1>8. UniqueInMemory'
  BY DEF IInv, UniqueInMemory
<1> QED BY <1>1, <1>2, <1>4, <1>5, <1>6, <1>7, <1>8 DEF IInv

LEMMA CheckDuplicatesOK ==
    ASSUME IInv, NEW c \in Call, CheckDuplicates(c) PROVE IInv'
<1>a. /\ c \in Task /\ c \in Obj /\ task \in [Task -> TaskState]
      /\ heap \in [Obj -> Order] /\ task[c].pc = "find"
      /\ UNCHANGED <<up, mode, rows, positions, exch, faults, credits, ledger>>
  BY SetFacts DEF IInv, TypeOK, CheckDuplicates, history
<1>u. heap[c].uid \in Uid
  BY <1>a DEF IInv, TasksOK, CallsOK, CronsOK, WritesOK
<1>1. CASE /\ task' = [task EXCEPT ![c] = Done] /\ heap' = heap
           /\ orders' = orders
  <2>b. /\ task' \in [Task -> TaskState]
        /\ task'[c].pc = "done" /\ task'[c].todo = {}
        /\ \A t \in Task \ {c} : task'[t] = task[t]
    BY <1>a, <1>1, TaskWhole, IdleTask
  <2>1. TaskFits(c, task'[c])
    BY <1>u, <2>b, SetFacts DEF TaskFits, CallLocations, Writing
  <2>2. up /\ rows' \in [Uid -> Order] /\ RowsOK'
        /\ faults' \in [crash : Nat, db : Nat, net : Nat]
    BY <1>a DEF IInv, TypeOK, ProcessOK, RowsOK, OwnId
  <2> QED
    BY <1>a, <1>1, <2>b, <2>1, <2>2, TaskStepOK
<1>2. CASE /\ ~UidInMemory(heap[c].uid)
           /\ heap' = [heap EXCEPT ![c].status = "new"]
           /\ orders' = orders \cup {c}
           /\ task' = [task EXCEPT ![c].pc = "create", ![c].row = heap'[c]]
  <2>h. /\ heap' \in [Obj -> Order]
        /\ heap'[c].status = "new" /\ heap'[c].uid = heap[c].uid
        /\ heap'[c].ext = heap[c].ext /\ heap'[c].filled = heap[c].filled
        /\ \A p \in Obj \ {c} : heap'[p] = heap[p]
    BY <1>a, <1>2, HeapStatus, StatusFacts
  <2>g. heap'[c] \in Order
    BY <1>a, <2>h
  <2>r. PICK r \in Order : r = heap'[c]
    BY <2>g
  <2>s. /\ task' = [task EXCEPT ![c] =
                       [task[c] EXCEPT !.pc = "create", !.row = r]]
        /\ task[c] \in TaskState
    BY <1>a, <1>2, <2>r
  <2>t. [task[c] EXCEPT !.pc = "create", !.row = r] \in TaskState
    BY <2>s, RowState, LocationFacts
  <2>z. /\ task' \in [Task -> TaskState]
        /\ task'[c] = [task[c] EXCEPT !.pc = "create", !.row = r]
        /\ \A t \in Task \ {c} : task'[t] = task[t]
    BY <1>a, <2>s, <2>t
  <2>b. /\ task' \in [Task -> TaskState] /\ task'[c].row = r
        /\ task'[c].pc = "create" /\ task'[c].todo = task[c].todo
        /\ \A t \in Task \ {c} : task'[t] = task[t]
    BY <2>s, <2>z DEF TaskState
  <2>n. \A o \in orders : heap[o].uid # heap[c].uid
    BY <1>2 DEF UidInMemory
  <2>1. TypeOK'
    BY <1>a, <1>2, <2>b, <2>h DEF IInv, TypeOK
  <2>2. HeapOK'
    <3>1. \A o \in Obj : OwnId(heap[o])'
      BY <1>a, <2>h DEF IInv, HeapOK, OwnId
    <3>2. \A o \in orders' : Placed(heap'[o])
      BY <1>a, <1>2, <1>u, <2>h DEF IInv, HeapOK, TypeOK
    <3>3. \A d \in Call : task'[d].pc = "idle" => heap'[d] = Blank
      BY <1>a, <2>b, <2>h, SetFacts DEF IInv, HeapOK
    <3>4. \A o, p \in Obj :
             heap'[o].ext = heap'[p].ext /\ heap'[o].ext # NoId => o = p
      BY <1>a, <2>h DEF IInv, HeapOK
    <3> QED
      BY <3>1, <3>2, <3>3, <3>4 DEF HeapOK
  <2>3. RowsOK'
    BY <1>a DEF IInv, RowsOK, OwnId
  <2>w. OwnId(heap[c])'
    BY <1>a, <2>2 DEF HeapOK
  <2>i. \A o \in Obj : /\ heap'[o].uid = heap[o].uid
                       /\ heap'[o].filled = heap[o].filled
                       /\ heap[o].status # "none" => heap'[o].status # "none"
    BY <2>h
  <2>4. TasksOK'
    <3>1. CallsOK'
      BY <1>a, <1>u, <2>b, <2>i, SetFacts
         DEF IInv, TasksOK, CallsOK, CallLocations
    <3>2. /\ \A k \in Cron : task'[k] = task[k]
          /\ \A k \in Cron : task[k].todo \subseteq Obj
      BY <1>a, <2>b, SetFacts DEF TaskState
    <3>3. CronsOK'
      BY <3>2, <2>i DEF IInv, TasksOK, CronsOK
    <3>4. WritesOK'
      BY <1>a, <1>u, <2>b, <2>h, <2>r, <2>w
         DEF IInv, TasksOK, WritesOK, Writing, OwnId
    <3> QED
      BY <3>1, <3>3, <3>4 DEF TasksOK
  <2>5. ProcessOK'
    BY <1>a, <2>b DEF IInv, ProcessOK, Task
  <2>6. CreditOK'
    <3>1. \A k \in Cron : task'[k] = task[k]
      BY <1>a, <2>b, SetFacts
    <3>2. \A o \in Obj : /\ heap'[o].ext = heap[o].ext
                         /\ heap'[o].status = "pending" =>
                               heap[o].status = "pending"
      BY <2>h
    <3>3. \A k \in Cron : task[k].pc \in Crediting => task[k].order \in Obj
      BY DEF IInv, TasksOK, CronsOK, Crediting, OnOrder
    <3>4. UNCHANGED <<exch, credits>>
      BY <1>a
    <3> QED
      BY <3>1, <3>2, <3>3, <3>4 DEF IInv, CreditOK, CreditedOnce
  <2>7. PositionOK'
    <3>1. \A k \in Cron : task'[k] = task[k]
      BY <1>a, <2>b, SetFacts
    <3>2. \A k \in Cron : task[k].pc = "writePosition" =>
             /\ task[k].order \in Obj
             /\ PairOfOrder(heap[task[k].order])' = PairOfOrder(heap[task[k].order])
             /\ SideOfOrder(heap[task[k].order])' = SideOfOrder(heap[task[k].order])
      BY <2>i, <3>1 DEF IInv, TasksOK, CallsOK, CronsOK, WritesOK, OnOrder, SideOfOrder, PairOfOrder
    <3> QED
      BY <1>a, <2>i, <3>1, <3>2 DEF IInv, PositionOK, PositionIsLedger, Held
  <2>8. UniqueInMemory'
    BY <1>a, <1>2, <2>h, <2>n DEF IInv, UniqueInMemory, TypeOK
  <2> QED BY <2>1, <2>2, <2>3, <2>4, <2>5, <2>6, <2>7, <2>8 DEF IInv
<1> QED
  BY <1>1, <1>2 DEF CheckDuplicates

LEMMA CreateOK == ASSUME IInv, NEW c \in Call, Create(c) PROVE IInv'
<1>a. /\ c \in Task /\ task \in [Task -> TaskState] /\ task[c].pc = "create"
  BY SetFacts DEF IInv, TypeOK, Create
<1>e. /\ task' = [task EXCEPT ![c].pc = "quantity", ![c].row = Blank]
      /\ rows' = Saved(task[c].row)
      /\ UNCHANGED <<up, mode, orders, heap, positions, exch, faults, credits,
                     ledger>>
  BY DEF Create, memory, history
<1>b. /\ task' \in [Task -> TaskState]
      /\ task'[c].pc = "quantity" /\ task'[c].todo = task[c].todo
      /\ \A t \in Task \ {c} : task'[t] = task[t]
  BY <1>a, <1>e, BlankOrder, TaskRow, LocationFacts
<1>c. rows' \in [Uid -> Order] /\ RowsOK'
  BY <1>a, <1>e, SaveKeepsRows DEF Writing
<1>d. /\ up /\ heap[c].uid \in Uid
      /\ faults \in [crash : Nat, db : Nat, net : Nat]
  BY <1>a DEF IInv, TypeOK, ProcessOK, TasksOK, CallsOK
<1>f. TaskFits(c, task'[c])
  BY <1>a, <1>b, <1>d, SetFacts DEF TaskFits, CallLocations, Writing
<1> QED BY <1>a, <1>b, <1>c, <1>d, <1>e, <1>f, TaskStepOK

-----------------------------------------------------------------------------
(* submitOrder.  Its failures and trackOrder's cancellation all set the    *)
(* status of the task's order and issue a save of it.                      *)
LEMMA OnOrderFacts ==
    ASSUME IInv, NEW t \in Task, task[t].pc \in OnOrder
    PROVE  /\ ObjOf(t) \in Obj /\ heap[ObjOf(t)].uid \in Uid
           /\ heap[ObjOf(t)] \in Order
<1>1. CASE t \in Call
  BY <1>1, SetFacts DEF IInv, TypeOK, TasksOK, CallsOK, OnOrder, ObjOf
<1>2. CASE t \in Cron
  BY <1>2, SetFacts DEF IInv, TypeOK, TasksOK, CronsOK, ObjOf
<1> QED
  BY <1>1, <1>2 DEF Task

LEMMA SetAndSaveOK ==
    ASSUME IInv, NEW t \in Task, NEW s \in {"failed", "cancelled"},
           NEW l \in {"saveTry", "saveFailed", "saveTracked"},
           task[t].pc \in {"quantity", "submit", "saveTry", "track"},
           t \in Call => l # "saveTracked",
           SetAndSave(t, s, l), ExchangeGrows,
           faults' \in [crash : Nat, db : Nat, net : Nat],
           UNCHANGED <<up, mode, orders, rows, positions, credits, ledger>>
    PROVE  IInv'
<1>o. PICK o \in Obj : o = ObjOf(t) /\ heap[o].uid \in Uid /\ heap[o] \in Order
  BY OnOrderFacts DEF OnOrder
<1>a. /\ task \in [Task -> TaskState] /\ heap \in [Obj -> Order]
      /\ s \in Statuses /\ l \in Locations
  BY StatusFacts, LocationFacts DEF IInv, TypeOK
<1>h. /\ heap' \in [Obj -> Order]
      /\ heap'[o].status = s /\ heap'[o].uid = heap[o].uid
      /\ heap'[o].ext = heap[o].ext /\ heap'[o].filled = heap[o].filled
      /\ \A p \in Obj \ {o} : heap'[p] = heap[p]
  <2>1. heap' = [heap EXCEPT ![o].status = s]
    BY <1>o DEF SetAndSave
  <2> QED
    BY <1>a, <2>1, HeapStatus
<1>i. \A p \in Obj : /\ heap'[p].uid = heap[p].uid /\ heap'[p].ext = heap[p].ext
                     /\ heap'[p].filled = heap[p].filled
                     /\ heap'[p].status = "pending" => heap'[p] = heap[p]
                     /\ heap[p].status # "none" => heap'[p].status # "none"
  BY <1>h
<1>r. PICK r \in Order : r = heap'[o]
  BY <1>h
<1>b. /\ task' \in [Task -> TaskState] /\ task'[t].row = r
      /\ task'[t].pc = l /\ task'[t].todo = task[t].todo
      /\ task'[t].order = task[t].order
      /\ \A q \in Task \ {t} : task'[q] = task[q]
  <2>1. task' = [task EXCEPT ![t].pc = l, ![t].row = r]
    BY <1>o, <1>r DEF SetAndSave
  <2>2. l \in Locations /\ task \in [Task -> TaskState]
    BY <1>a
  <2>3. [task[t] EXCEPT !.pc = l, !.row = r] \in TaskState
    <3>1. task[t] \in TaskState
      BY <2>2
    <3> QED
      BY <2>2, <3>1, RowState
  <2>4. task' = [task EXCEPT ![t] = [task[t] EXCEPT !.pc = l, !.row = r]]
    BY <2>1, <2>2
  <2>5. /\ task' \in [Task -> TaskState]
        /\ task'[t] = [task[t] EXCEPT !.pc = l, !.row = r]
        /\ \A q \in Task \ {t} : task'[q] = task[q]
    BY <2>2, <2>3, <2>4
  <2> QED
    BY <2>2, <2>5 DEF TaskState
<1>x. \A p \in Order : OwnId(p) => OwnId(p)'
  BY OwnIdKept
<1>1. TypeOK'
  BY <1>b, <1>h DEF IInv, TypeOK, ExchangeGrows
<1>2. HeapOK'
  <2>1. \A p \in Obj : OwnId(heap[p])'
    <3> TAKE p \in Obj
    <3>1. OwnId(heap[p]) /\ heap[p] \in Order
      BY <1>a DEF IInv, HeapOK
    <3>2. OwnId(heap[p])'
      <4>1. /\ heap[p].ext \in 0..Len(exch) /\ Len(exch) \in Nat
            /\ heap[p].ext # NoId => exch[heap[p].ext].uid = heap[p].uid
            /\ heap[p].status = "pending" => heap[p].ext # NoId
        BY <3>1 DEF OwnId, ExchangeGrows
      <4>2. /\ heap'[p].ext = heap[p].ext /\ heap'[p].uid = heap[p].uid
            /\ heap'[p].status = "pending" => heap[p].status = "pending"
        BY <1>i
      <4>3. heap'[p].ext \in 0..Len(exch')
        BY <4>1, <4>2 DEF ExchangeGrows
      <4>4. heap'[p].ext # NoId => exch'[heap'[p].ext].uid = heap'[p].uid
        BY <4>1, <4>2 DEF ExchangeGrows, NoId
      <4> QED
        BY <4>1, <4>2, <4>3, <4>4 DEF OwnId
    <3> QED
      BY <3>2
  <2>2. \A c \in Call : task'[c].pc = "idle" => heap'[c] = Blank
    <3> TAKE c \in Call
    <3> HAVE task'[c].pc = "idle"
    <3>1. c # t /\ task[c].pc = "idle"
      BY <1>b, SetFacts
    <3>2. heap[c] = Blank /\ c # o
      BY <1>o, <3>1, BlankOrder DEF IInv, HeapOK
    <3> QED
      BY <1>h, <3>2, SetFacts
  <2> QED
    <3>1. \A p \in orders' : Placed(heap'[p])
      BY <1>i DEF IInv, HeapOK, TypeOK
    <3>2. \A p, q \in Obj :
             heap'[p].ext = heap'[q].ext /\ heap'[p].ext # NoId => p = q
      BY <1>i DEF IInv, HeapOK
    <3> QED
      BY <2>1, <2>2, <3>1, <3>2 DEF HeapOK
<1>3. RowsOK'
  BY <1>x DEF IInv, TypeOK, RowsOK
<1>4. TasksOK'
  <2>1. CallsOK'
    BY <1>b, <1>i, SetFacts DEF IInv, TasksOK, CallsOK, CallLocations
  <2>2. CronsOK'
    <3>1. \A k \in Cron : /\ task'[k].todo = task[k].todo
                          /\ task[k].todo \subseteq Obj
                          /\ task'[k].order = task[k].order
                          /\ task'[k].pc # "idle" => task[k].pc # "idle"
                          /\ task'[k].pc # task[k].pc =>
                                /\ task'[k].pc \in OnOrder /\ task[k].pc \in OnOrder
      BY <1>a, <1>b, SetFacts DEF TaskState, OnOrder
    <3> QED
      BY <1>i, <3>1 DEF IInv, TasksOK, CronsOK
  <2>3. WritesOK'
    <3>1. OwnId(r)'
      BY <1>2, <1>r DEF HeapOK
    <3>2. \A q \in Task : task[q].row \in Order
      BY <1>a DEF TaskState
    <3> QED
      BY <1>o, <1>b, <1>h, <1>r, <1>x, <3>1, <3>2 DEF IInv, TasksOK, WritesOK
  <2> QED
    BY <2>1, <2>2, <2>3 DEF TasksOK
<1>5. ProcessOK'
  BY <1>b, SetFacts DEF IInv, ProcessOK
<1>6. CreditOK'
  <2>1. \A k \in Cron : task'[k].pc \in Asking =>
           task'[k] = task[k] /\ task[k].order \in Obj
    BY <1>b, SetFacts DEF Asking, IInv, TasksOK, CronsOK, OnOrder
  <2>2. \A p \in Obj : heap'[p].status = "pending" => credits[heap'[p].ext] = 0
    BY <1>i DEF IInv, CreditOK
  <2>3. \A k \in Cron : task'[k].pc \in Asking =>
           /\ task'[k].ext \in 1..Len(exch')
           /\ credits[task'[k].ext] = 0
           /\ \A p \in Obj : heap'[p].ext = task'[k].ext => p = task'[k].order
    BY <1>i, <2>1 DEF IInv, CreditOK, ExchangeGrows
  <2>4. \A k \in Cron : /\ task'[k].pc \in Crediting
                        /\ heap'[task'[k].order].ext = task'[k].ext
                        => heap'[task'[k].order].status # "pending"
    BY <1>i, <2>1 DEF IInv, CreditOK, Asking, Crediting
  <2> QED
    BY <2>2, <2>3, <2>4 DEF IInv, CreditOK, CreditedOnce, ExchangeGrows
<1>7. PositionOK'
  <2>1. \A k \in Cron : task'[k].pc = "writePosition" =>
           /\ task'[k] = task[k] /\ task[k].order \in Obj
    BY <1>b, SetFacts DEF IInv, TasksOK, CronsOK, OnOrder
  <2>2. \A p \in Obj : /\ PairOfOrder(heap[p])' = PairOfOrder(heap[p])
                       /\ SideOfOrder(heap[p])' = SideOfOrder(heap[p])
    BY <1>i DEF PairOfOrder, SideOfOrder
  <2> QED
    BY <1>i, <2>1, <2>2 DEF IInv, PositionOK, PositionIsLedger, Held
<1>8. UniqueInMemory'
  BY <1>i DEF IInv, UniqueInMemory, TypeOK
<1> QED BY <1>1, <1>2, <1>3, <1>4, <1>5, <1>6, <1>7, <1>8 DEF IInv

LEMMA Same == ASSUME IInv, UNCHANGED <<rows, exch>>
              PROVE  rows' \in [Uid -> Order] /\ RowsOK'
BY DEF IInv, TypeOK, RowsOK, OwnId

LEMMA Running == ASSUME IInv, NEW t \in Task, task[t].pc \notin {"idle", "done"}
                 PROVE  up /\ task \in [Task -> TaskState]
                        /\ faults \in [crash : Nat, db : Nat, net : Nat]
BY DEF IInv, TypeOK, ProcessOK

LEMMA CalculateQuantityOK ==
    ASSUME IInv, NEW t \in Task, CalculateQuantity(t) PROVE IInv'
<1>a. /\ task[t].pc = "quantity"
      /\ UNCHANGED <<up, mode, orders, rows, positions, exch, faults, credits,
                     ledger>>
  BY DEF CalculateQuantity, memory, history
<1>b. up /\ task \in [Task -> TaskState]
      /\ faults \in [crash : Nat, db : Nat, net : Nat]
  BY <1>a, Running
<1>1. CASE task' = [task EXCEPT ![t].pc = "submit"] /\ heap' = heap
  <2>1. /\ task' \in [Task -> TaskState]
        /\ task'[t].pc = "submit" /\ task'[t].order = task[t].order
        /\ task'[t].todo = task[t].todo
        /\ \A s \in Task \ {t} : task'[s] = task[s]
    BY <1>b, <1>1, TaskPc, LocationFacts
  <2>2. TaskFits(t, task'[t])
    BY <1>a, <2>1, SetFacts
       DEF TaskFits, IInv, TasksOK, CallsOK, CronsOK, CallLocations, OnOrder,
           Asking, Crediting, Writing
  <2> QED
    BY <1>a, <1>b, <1>1, <2>1, <2>2, Same, TaskStepOK
<1>2. ASSUME NEW l \in {"saveTry", "saveFailed"}, SetAndSave(t, "failed", l)
      PROVE  IInv'
  BY <1>a, <1>b, <1>2, ExchangeSame, SetAndSaveOK
<1> QED
  BY <1>1, <1>2 DEF CalculateQuantity

LEMMA RefusedOK == ASSUME IInv, NEW t \in Task, Refused(t) PROVE IInv'
<1>1. /\ task[t].pc = "submit" /\ SetAndSave(t, "failed", "saveFailed")
      /\ UNCHANGED <<up, mode, orders, rows, positions, exch, faults, credits,
                     ledger>>
  BY DEF Refused, memory, history
<1> QED
  BY <1>1, Running, ExchangeSame, SetAndSaveOK

LEMMA AcceptanceLostOK ==
    ASSUME IInv, NEW t \in Task, AcceptanceLost(t) PROVE IInv'
<1>1. /\ task[t].pc = "submit" /\ SetAndSave(t, "failed", "saveFailed")
      /\ NewExchangeOrder(t) /\ NetFault
      /\ UNCHANGED <<up, mode, orders, rows, positions, credits, ledger>>
  BY DEF AcceptanceLost, memory, history
<1>2. ExchangeGrows
  BY <1>1, OnOrderFacts, ExchangeAppended DEF OnOrder
<1>3. faults' \in [crash : Nat, db : Nat, net : Nat]
  BY <1>1, Running DEF NetFault
<1> QED
  BY <1>1, <1>2, <1>3, SetAndSaveOK

LEMMA SaveSubmittedOK ==
    ASSUME IInv, NEW t \in Task, SaveSubmitted(t) PROVE IInv'
<1>a. /\ task[t].pc \in {"saveTry", "saveFailed"}
      /\ rows' = Updated(task[t].row)
      /\ task' = [task EXCEPT ![t] = [AfterSubmit(t) EXCEPT !.row = Blank]]
      /\ UNCHANGED <<up, mode, orders, heap, positions, exch, faults, credits,
                     ledger>>
  BY DEF SaveSubmitted, memory, history
<1>b. /\ up /\ task \in [Task -> TaskState]
      /\ faults \in [crash : Nat, db : Nat, net : Nat]
      /\ rows' \in [Uid -> Order] /\ RowsOK'
  BY <1>a, Running, SaveKeepsRows DEF Writing
<1>1. /\ [AfterSubmit(t) EXCEPT !.row = Blank] \in TaskState
      /\ t \in Call => [AfterSubmit(t) EXCEPT !.row = Blank].pc = "done"
      /\ t \notin Call =>
            /\ [AfterSubmit(t) EXCEPT !.row = Blank].pc = "reap"
            /\ [AfterSubmit(t) EXCEPT !.row = Blank].order = task[t].order
            /\ [AfterSubmit(t) EXCEPT !.row = Blank].todo = task[t].todo
  <2>1. CASE t \in Call
    <3>1. AfterSubmit(t) = Done
      BY <2>1 DEF AfterSubmit
    <3> QED
      BY <2>1, <3>1, BlankOrder, IdleTask DEF TaskState
  <2>2. CASE t \notin Call
    <3>1. [AfterSubmit(t) EXCEPT !.row = Blank] =
            [task[t] EXCEPT !.pc = "reap", !.row = Blank]
      BY <2>2 DEF AfterSubmit
    <3>2. task[t] \in TaskState
      BY <1>b
    <3>3. [task[t] EXCEPT !.pc = "reap", !.row = Blank] \in TaskState
      BY <3>2, RowState, BlankOrder, LocationFacts
    <3>4. LET q == [task[t] EXCEPT !.pc = "reap", !.row = Blank]
          IN  q.pc = "reap" /\ q.order = task[t].order /\ q.todo = task[t].todo
      BY <3>2 DEF TaskState
    <3> QED
      BY <2>2, <3>1, <3>3, <3>4
  <2> QED
    BY <2>1, <2>2
<1>2. /\ task' \in [Task -> TaskState]
      /\ task'[t] = [AfterSubmit(t) EXCEPT !.row = Blank]
      /\ \A s \in Task \ {t} : task'[s] = task[s]
  BY <1>a, <1>b, <1>1, TaskWhole
<1>3. TaskFits(t, task'[t])
  BY <1>a, <1>1, <1>2, SetFacts
     DEF TaskFits, IInv, TasksOK, CronsOK, CallLocations, OnOrder, Asking,
         Crediting, Writing
<1> QED
  BY <1>a, <1>b, <1>2, <1>3, TaskStepOK

-----------------------------------------------------------------------------
(* The cron job. *)

LEMMA StutterOK == ASSUME IInv, UNCHANGED vars PROVE IInv'
<1> USE DEF vars
<1>1. TypeOK' BY DEF IInv, TypeOK
<1>2. HeapOK' BY DEF IInv, HeapOK, OwnId
<1>3. RowsOK' BY DEF IInv, RowsOK, OwnId
<1>4. TasksOK' BY DEF IInv, TasksOK, CallsOK, CronsOK, WritesOK, OwnId
<1>5. ProcessOK' BY DEF IInv, ProcessOK
<1>6. CreditOK' BY DEF IInv, CreditOK, CreditedOnce
<1>7. PositionOK'
  BY DEF IInv, PositionOK, PositionIsLedger, Held, SideOfOrder, PairOfOrder
<1>8. UniqueInMemory' BY DEF IInv, UniqueInMemory
<1> QED BY <1>1, <1>2, <1>3, <1>4, <1>5, <1>6, <1>7, <1>8 DEF IInv

LEMMA CronTickOK == ASSUME IInv, NEW k \in Cron, CronTick(k) PROVE IInv'
<1>a. /\ k \in Task /\ up /\ task[k].pc = "idle" /\ NoRunGoing
      /\ orders \in SUBSET Obj /\ task \in [Task -> TaskState]
      /\ faults \in [crash : Nat, db : Nat, net : Nat]
      /\ UNCHANGED <<up, mode, orders, heap, rows, positions, exch, faults,
                     credits, ledger>>
  BY SetFacts DEF CronTick, memory, history, IInv, TypeOK
<1>1. CASE task' = task
  BY <1>a, <1>1, StutterOK DEF vars
<1>2. CASE task' = [task EXCEPT ![k].pc = "loop", ![k].todo = orders]
  <2>1. /\ task' \in [Task -> TaskState]
        /\ task'[k].pc = "loop" /\ task'[k].todo = orders
        /\ \A s \in Task \ {k} : task'[s] = task[s]
    <3>1. /\ task' = [task EXCEPT ![k] =
                        [task[k] EXCEPT !.pc = "loop", !.todo = orders]]
          /\ task[k] \in TaskState
      BY <1>a, <1>2
    <3>2. [task[k] EXCEPT !.pc = "loop", !.todo = orders] \in TaskState
      BY <1>a, <3>1, LoopState, LocationFacts
    <3>3. /\ task' \in [Task -> TaskState]
          /\ task'[k] = [task[k] EXCEPT !.pc = "loop", !.todo = orders]
          /\ \A s \in Task \ {k} : task'[s] = task[s]
      BY <1>a, <3>1, <3>2
    <3> QED
      BY <3>1, <3>3 DEF TaskState
  <2>2. TaskFits(k, task'[k])
    BY <2>1, SetFacts
       DEF TaskFits, IInv, HeapOK, OnOrder, Asking, Crediting, Writing
  <2> QED
    BY <1>a, <2>1, <2>2, Same, TaskStepOK
<1> QED
  BY <1>1, <1>2 DEF CronTick

LEMMA CronVisitOK == ASSUME IInv, NEW k \in Cron, CronVisit(k) PROVE IInv'
<1>a. /\ k \in Task /\ task[k].pc = "loop"
      /\ UNCHANGED <<up, mode, orders, heap, rows, positions, exch, faults,
                     credits, ledger>>
  BY SetFacts DEF CronVisit, memory, history
<1>b. /\ up /\ task \in [Task -> TaskState] /\ heap \in [Obj -> Order]
      /\ faults \in [crash : Nat, db : Nat, net : Nat]
  BY <1>a, Running DEF IInv, TypeOK
<1>c. PICK o \in task[k].todo :
         task' = [task EXCEPT ![k] =
                    [pc |-> Visit(heap[o]), order |-> o, row |-> Blank,
                     ext |-> heap[o].ext, write |-> NoWrite,
                     todo |-> task[k].todo \ {o}]]
  BY DEF CronVisit
<1>d. o \in Obj /\ task[k].todo \subseteq Obj /\ heap[o] \in Order
      /\ heap[o].ext \in Nat
  BY <1>a, <1>b DEF TaskState, Order
<1>e. /\ Visit(heap[o]) \in {"quantity", "track", "reap"}
      /\ Visit(heap[o]) = "track" =>
            heap[o].status = "pending" /\ heap[o].ext # NoId
  BY DEF Visit
<1>f. [pc |-> Visit(heap[o]), order |-> o, row |-> Blank,
       ext |-> heap[o].ext, write |-> NoWrite,
       todo |-> task[k].todo \ {o}] \in TaskState
  BY <1>d, <1>e, BlankOrder, LocationFacts DEF TaskState, NoWrite
<1>1. /\ task' \in [Task -> TaskState]
      /\ task'[k].pc = Visit(heap[o]) /\ task'[k].order = o
      /\ task'[k].ext = heap[o].ext /\ task'[k].todo = task[k].todo \ {o}
      /\ \A s \in Task \ {k} : task'[s] = task[s]
  BY <1>a, <1>b, <1>c, <1>f, TaskWhole
<1>2. TaskFits(k, task'[k])
  <2>1. Placed(heap[o]) /\ \A p \in task[k].todo : Placed(heap[p])
    BY <1>a DEF IInv, TasksOK, CronsOK
  <2>2. Visit(heap[o]) = "track" =>
           /\ heap[o].ext \in 1..Len(exch) /\ credits[heap[o].ext] = 0
           /\ \A p \in Obj : heap[p].ext = heap[o].ext => p = o
    BY <1>d, <1>e DEF IInv, HeapOK, OwnId, CreditOK, NoId
  <2> QED
    BY <1>1, <1>d, <1>e, <2>1, <2>2, SetFacts
       DEF TaskFits, OnOrder, Asking, Crediting, Writing
<1> QED
  BY <1>a, <1>b, <1>1, <1>2, Same, TaskStepOK

LEMMA TrackFailsOK == ASSUME IInv, NEW k \in Cron, TrackFails(k) PROVE IInv'
<1>a. /\ k \in Task /\ task[k].pc = "track" /\ NetFault
      /\ task' = [task EXCEPT ![k].pc = "reap"]
      /\ UNCHANGED <<up, mode, orders, heap, rows, positions, exch, credits,
                     ledger>>
  BY SetFacts DEF TrackFails, memory, history
<1>b. /\ up /\ task \in [Task -> TaskState]
      /\ faults' \in [crash : Nat, db : Nat, net : Nat]
  BY <1>a, Running DEF NetFault
<1>1. /\ task' \in [Task -> TaskState]
      /\ task'[k].pc = "reap" /\ task'[k].order = task[k].order
      /\ task'[k].todo = task[k].todo
      /\ \A s \in Task \ {k} : task'[s] = task[s]
  BY <1>a, <1>b, TaskPc, LocationFacts
<1>2. TaskFits(k, task'[k])
  BY <1>a, <1>1, SetFacts
     DEF TaskFits, IInv, TasksOK, CronsOK, OnOrder, Asking, Crediting, Writing
<1> QED
  BY <1>a, <1>b, <1>1, <1>2, Same, TaskStepOK

LEMMA SaveTrackedOK == ASSUME IInv, NEW k \in Cron, SaveTracked(k) PROVE IInv'
<1>a. /\ k \in Task /\ task[k].pc = "saveTracked"
      /\ rows' = Updated(task[k].row)
      /\ task' = [task EXCEPT ![k].pc = "reap", ![k].row = Blank]
      /\ UNCHANGED <<up, mode, orders, heap, positions, exch, faults, credits,
                     ledger>>
  BY SetFacts DEF SaveTracked, memory, history
<1>b. /\ up /\ task \in [Task -> TaskState]
      /\ faults \in [crash : Nat, db : Nat, net : Nat]
      /\ rows' \in [Uid -> Order] /\ RowsOK'
  BY <1>a, Running, SaveKeepsRows DEF Writing
<1>1. /\ task' \in [Task -> TaskState]
      /\ task'[k].pc = "reap" /\ task'[k].order = task[k].order
      /\ task'[k].todo = task[k].todo
      /\ \A s \in Task \ {k} : task'[s] = task[s]
  <2>1. /\ task' = [task EXCEPT ![k] =
                      [task[k] EXCEPT !.pc = "reap", !.row = Blank]]
        /\ task[k] \in TaskState
    BY <1>a, <1>b
  <2>2. [task[k] EXCEPT !.pc = "reap", !.row = Blank] \in TaskState
    BY <2>1, RowState, BlankOrder, LocationFacts
  <2>3. /\ task' \in [Task -> TaskState]
        /\ task'[k] = [task[k] EXCEPT !.pc = "reap", !.row = Blank]
        /\ \A s \in Task \ {k} : task'[s] = task[s]
    BY <1>a, <1>b, <2>1, <2>2
  <2> QED
    BY <2>1, <2>3 DEF TaskState
<1>2. TaskFits(k, task'[k])
  BY <1>a, <1>1, SetFacts
     DEF TaskFits, IInv, TasksOK, CronsOK, OnOrder, Asking, Crediting, Writing
<1> QED
  BY <1>a, <1>b, <1>1, <1>2, TaskStepOK

(* A step of a cron run that sets the status or the filled quantity of the *)
(* order it works on, and nothing else outside the task.                   *)
LEMMA TrackStepOK ==
    ASSUME IInv, NEW k \in Cron, task[k].pc = "track",
           NEW o \in Obj, o = task[k].order,
           heap' \in [Obj -> Order],
           heap'[o].uid = heap[o].uid, heap'[o].ext = heap[o].ext,
           heap'[o].status # "none",
           heap'[o].status = "pending" => heap[o].status = "pending",
           \A p \in Obj \ {o} : heap'[p] = heap[p],
           task' \in [Task -> TaskState],
           \A q \in Task \ {k} : task'[q] = task[q],
           task'[k].order = o, task'[k].ext = task[k].ext,
           task'[k].todo = task[k].todo,
           \/ task'[k].pc = "saveTracked" /\ task'[k].row = heap'[o]
           \/ task'[k].pc = "findPosition" /\ heap'[o].status # "pending",
           UNCHANGED <<up, mode, orders, rows, positions, exch, faults, credits,
                       ledger>>
    PROVE  IInv'
<1>a. /\ Placed(heap[o]) /\ up /\ k \in Task
      /\ task[k].todo \subseteq Obj /\ task \in [Task -> TaskState]
      /\ \A j \in Cron : task[j].pc # "idle" => j = k
  <2>1. task \in [Task -> TaskState] /\ k \in Task
    BY SetFacts DEF IInv, TypeOK
  <2>2. task[k].todo \subseteq Obj
    BY <2>1 DEF TaskState
  <2>3. Placed(heap[o])
    BY DEF IInv, TasksOK, CronsOK, OnOrder
  <2>4. up /\ \A j \in Cron : task[j].pc # "idle" => j = k
    BY <2>1 DEF IInv, ProcessOK
  <2> QED
    BY <2>1, <2>2, <2>3, <2>4
<1>i. \A p \in Obj : /\ heap'[p].uid = heap[p].uid /\ heap'[p].ext = heap[p].ext
                     /\ heap'[p].status = "pending" => heap[p].status = "pending"
                     /\ heap[p].status # "none" => heap'[p].status # "none"
  OBVIOUS
<1>j. \A j \in Cron \ {k} : task'[j].pc = "idle" /\ task'[j] = task[j]
  BY <1>a, SetFacts
<1>1. TypeOK'
  BY DEF IInv, TypeOK
<1>2. HeapOK'
  <2>1. \A p \in Obj : OwnId(heap[p])'
    BY <1>i DEF IInv, HeapOK, OwnId
  <2>2. \A p \in orders' : Placed(heap'[p])
    BY <1>i DEF IInv, HeapOK, TypeOK
  <2>3. \A c \in Call : task'[c].pc = "idle" => heap'[c] = Blank
    <3>1. \A c \in Call : task'[c].pc = "idle" => task[c].pc = "idle" /\ c # o
      BY <1>a, SetFacts, BlankOrder DEF IInv, HeapOK
    <3> QED
      BY <3>1, SetFacts DEF IInv, HeapOK
  <2>4. \A p, q \in Obj :
           heap'[p].ext = heap'[q].ext /\ heap'[p].ext # NoId => p = q
    BY <1>i DEF IInv, HeapOK
  <2> QED
    BY <2>1, <2>2, <2>3, <2>4 DEF HeapOK
<1>3. RowsOK'
  BY DEF IInv, RowsOK, OwnId
<1>4. TasksOK'
  <2>1. CallsOK'
    BY <1>i, SetFacts DEF IInv, TasksOK, CallsOK
  <2>2. CronsOK'
    <3>1. \A j \in Cron : task[j].todo \subseteq Obj
      BY <1>a, SetFacts DEF TaskState
    <3> QED
      BY <1>a, <1>i, <1>j, <3>1 DEF IInv, TasksOK, CronsOK, OnOrder
  <2>3. WritesOK'
    <3>1. OwnId(heap[o])'
      BY <1>2 DEF HeapOK
    <3> QED
      BY <1>a, <1>i, <3>1 DEF IInv, TasksOK, WritesOK, Writing, OwnId
  <2> QED
    BY <2>1, <2>2, <2>3 DEF TasksOK
<1>5. ProcessOK'
  BY <1>a, <1>j DEF IInv, ProcessOK
<1>6. CreditOK'
  BY <1>a, <1>i, <1>j DEF IInv, CreditOK, CreditedOnce, Asking, Crediting
<1>7. PositionOK'
  BY <1>a, <1>j DEF IInv, PositionOK, PositionIsLedger, Held
<1>8. UniqueInMemory'
  BY <1>i DEF IInv, UniqueInMemory, TypeOK
<1> QED BY <1>1, <1>2, <1>3, <1>4, <1>5, <1>6, <1>7, <1>8 DEF IInv

LEMMA TrackedOK == ASSUME IInv, NEW k \in Cron, Tracked(k) PROVE IInv'
<1>a. /\ k \in Task /\ task[k].pc = "track"
      /\ UNCHANGED <<up, mode, orders, rows, positions, exch, faults, credits,
                     ledger>>
  BY SetFacts DEF Tracked, memory, history
<1>b. /\ up /\ task \in [Task -> TaskState] /\ heap \in [Obj -> Order]
      /\ faults \in [crash : Nat, db : Nat, net : Nat]
  BY <1>a, Running DEF IInv, TypeOK
<1>c. PICK o \in Obj : o = task[k].order /\ Placed(heap[o])
  BY <1>a DEF IInv, TasksOK, CronsOK, OnOrder
<1>d. exch[task[k].ext] \in ExchangeOrder
  BY <1>a DEF IInv, TypeOK, CreditOK, Asking
<1>e. PICK f \in Nat : f = exch[task[k].ext].filled
  BY <1>d DEF ExchangeOrder
<1>1. CASE /\ heap' = [heap EXCEPT ![o].status = "completed", ![o].filled = f]
           /\ task' = [task EXCEPT ![k].pc = "findPosition"]
  <2>1. /\ heap' \in [Obj -> Order]
        /\ heap'[o].status = "completed" /\ heap'[o].uid = heap[o].uid
        /\ heap'[o].ext = heap[o].ext
        /\ \A p \in Obj \ {o} : heap'[p] = heap[p]
    BY <1>b, <1>1, HeapCompleted
  <2>2. /\ task' \in [Task -> TaskState] /\ task'[k].pc = "findPosition"
        /\ task'[k].order = task[k].order /\ task'[k].ext = task[k].ext
        /\ task'[k].todo = task[k].todo
        /\ \A s \in Task \ {k} : task'[s] = task[s]
    BY <1>a, <1>b, <1>1, TaskPc, LocationFacts
  <2> QED
    BY <1>a, <1>c, <2>1, <2>2, TrackStepOK
<1>2. CASE SetAndSave(k, "cancelled", "saveTracked")
  BY <1>a, <1>b, <1>2, SetFacts, ExchangeSame, SetAndSaveOK
<1>3. CASE /\ heap' = [heap EXCEPT ![o].filled = f]
           /\ task' = [task EXCEPT ![k].pc = "saveTracked", ![k].row = heap'[o]]
  <2>1. /\ heap' \in [Obj -> Order]
        /\ heap'[o].status = heap[o].status /\ heap'[o].uid = heap[o].uid
        /\ heap'[o].ext = heap[o].ext
        /\ \A p \in Obj \ {o} : heap'[p] = heap[p]
    BY <1>b, <1>3 DEF Order
  <2>2. PICK r \in Order : r = heap'[o]
    BY <2>1
  <2>3. task' = [task EXCEPT ![k].pc = "saveTracked", ![k].row = r]
    BY <1>3, <2>2
  <2>4. /\ task' \in [Task -> TaskState] /\ task'[k].pc = "saveTracked"
        /\ task'[k].row = r
        /\ task'[k].order = task[k].order /\ task'[k].ext = task[k].ext
        /\ task'[k].todo = task[k].todo
        /\ \A s \in Task \ {k} : task'[s] = task[s]
    BY <1>a, <1>b, <2>3, TaskSaving
  <2> QED
    BY <1>a, <1>c, <2>1, <2>2, <2>4, TrackStepOK
<1>4. CASE task' = [task EXCEPT ![k].pc = "reap"] /\ heap' = heap
  <2>1. /\ task' \in [Task -> TaskState]
        /\ task'[k].pc = "reap" /\ task'[k].order = task[k].order
        /\ task'[k].todo = task[k].todo
        /\ \A s \in Task \ {k} : task'[s] = task[s]
    BY <1>a, <1>b, <1>4, TaskPc, LocationFacts
  <2>2. TaskFits(k, task'[k])
    BY <1>a, <2>1, SetFacts
       DEF TaskFits, IInv, TasksOK, CronsOK, OnOrder, Asking, Crediting, Writing
  <2> QED
    BY <1>a, <1>b, <1>4, <2>1, <2>2, Same, TaskStepOK
<1> QED
  BY <1>1, <1>2, <1>3, <1>4, <1>c, <1>e DEF Tracked

LEMMA FindPositionOK == ASSUME IInv, NEW k \in Cron, FindPosition(k) PROVE IInv'
<1>a. /\ k \in Task /\ task[k].pc = "findPosition"
      /\ UNCHANGED <<up, mode, orders, heap, rows, positions, exch, faults,
                     credits, ledger>>
  BY SetFacts DEF FindPosition, memory, history
<1>b. /\ up /\ task \in [Task -> TaskState] /\ heap \in [Obj -> Order]
      /\ faults \in [crash : Nat, db : Nat, net : Nat]
      /\ positions \in [Pair -> Position]
  BY <1>a, Running DEF IInv, TypeOK
<1>c. PICK o \in Order : /\ o = heap[task[k].order] /\ Placed(o) /\ OwnId(o)
                         /\ task[k].order \in Obj
  BY <1>a, <1>b DEF IInv, TasksOK, CronsOK, OnOrder, HeapOK
<1>d. PICK w \in WriteState :
        w = PlannedWrite(SideOfOrder(o), positions[PairOfOrder(o)], o.filled)
  <2>1. positions[PairOfOrder(o)] \in Position
    <3>1. o.uid[1] \in Action
      BY <1>c DEF Uid
    <3> QED
      BY <1>b, <3>1 DEF PairOfOrder
  <2>2. ASSUME NEW p \in Position, NEW f \in Nat, NEW s
        PROVE  PlannedWrite(s, p, f) \in WriteState
    BY DEF PlannedWrite, Position, NoWrite, WriteState
  <2> QED
    BY <2>1, <2>2, <1>c DEF Order
<1>1. CASE task' = [task EXCEPT ![k].pc = "saveTracked", ![k].row = o]
  <2>1. /\ task' \in [Task -> TaskState] /\ task'[k].row = o
        /\ task'[k].pc = "saveTracked" /\ task'[k].order = task[k].order
        /\ task'[k].todo = task[k].todo
        /\ \A s \in Task \ {k} : task'[s] = task[s]
    BY <1>a, <1>b, <1>1, TaskSaving
  <2>2. TaskFits(k, task'[k])
    BY <1>a, <1>c, <2>1, SetFacts
       DEF TaskFits, IInv, TasksOK, CronsOK, OnOrder, Asking, Crediting, Writing
  <2> QED
    BY <1>a, <1>b, <2>1, <2>2, Same, TaskStepOK
<1>2. CASE /\ w # NoWrite
           /\ task' = [task EXCEPT ![k].pc = "writePosition", ![k].write = w]
  <2>1. /\ task' \in [Task -> TaskState] /\ task'[k].write = w
        /\ task'[k].pc = "writePosition" /\ task'[k].order = task[k].order
        /\ task'[k].ext = task[k].ext /\ task'[k].todo = task[k].todo
        /\ \A s \in Task \ {k} : task'[s] = task[s]
    BY <1>a, <1>b, <1>2, TaskWrite
  <2>2. TaskFits(k, task'[k])
    <3>1. /\ task[k].ext \in 1..Len(exch) /\ credits[task[k].ext] = 0
          /\ \A p \in Obj : heap[p].ext = task[k].ext => p = task[k].order
          /\ heap[task[k].order].ext = task[k].ext =>
                heap[task[k].order].status # "pending"
      BY <1>a DEF IInv, CreditOK, Asking, Crediting
    <3>2. k \notin Call
      BY SetFacts
    <3>3. \A p \in task[k].todo : Placed(heap[p])
      BY <1>a DEF IInv, TasksOK, CronsOK
    <3> QED
      BY <1>c, <1>d, <1>2, <2>1, <3>1, <3>2, <3>3
         DEF TaskFits, OnOrder, Asking, Crediting, Writing
  <2> QED
    BY <1>a, <1>b, <2>1, <2>2, Same, TaskStepOK
<1> QED
  BY <1>1, <1>2, <1>c, <1>d DEF FindPosition

(* createMarketOrder or createLimitOrder succeeds: the new exchange order  *)
(* is nobody else's and has no credit yet.                                 *)
LEMMA AcceptedOK == ASSUME IInv, NEW t \in Task, Accepted(t) PROVE IInv'
<1>a. /\ task[t].pc = "submit" /\ NewExchangeOrder(t)
      /\ UNCHANGED <<up, mode, orders, rows, positions, faults, credits, ledger>>
  BY DEF Accepted, memory, history
<1>b. /\ task \in [Task -> TaskState] /\ heap \in [Obj -> Order]
      /\ faults \in [crash : Nat, db : Nat, net : Nat] /\ up
  BY <1>a, Running DEF IInv, TypeOK
<1>o. PICK o \in Obj : o = ObjOf(t) /\ heap[o].uid \in Uid /\ heap[o] \in Order
  BY <1>a, OnOrderFacts DEF OnOrder
<1>x. PICK x \in Nat : /\ x = Len(exch') /\ x = Len(exch) + 1 /\ x # 0
                       /\ x \in 1..MaxExchangeOrders
                       /\ exch'[x].uid = heap[o].uid
                       /\ ExchangeGrows
  BY <1>a, <1>o, ExchangeAppended DEF OnOrder, ExchangeGrows
<1>h. /\ heap' \in [Obj -> Order]
      /\ heap'[o].status = "pending" /\ heap'[o].uid = heap[o].uid
      /\ heap'[o].ext = x /\ heap'[o].filled = heap[o].filled
      /\ \A p \in Obj \ {o} : heap'[p] = heap[p]
  <2>1. heap' = [heap EXCEPT ![o] = Submitted(heap[o], x)]
    BY <1>o, <1>x DEF Accepted
  <2> QED
    BY <1>b, <1>o, <2>1, StatusFacts DEF Submitted, Order
<1>i. \A p \in Obj : /\ heap'[p].uid = heap[p].uid
                     /\ heap'[p].filled = heap[p].filled
                     /\ heap[p].status # "none" => heap'[p].status # "none"
                     /\ heap'[p].ext \in {heap[p].ext, x}
                     /\ heap'[p].ext = x => p = o
  <2>1. \A p \in Obj : heap[p].ext \in Nat /\ heap[p].ext # x
    BY <1>b, <1>x DEF IInv, HeapOK, OwnId, ExchangeGrows, Order
  <2> QED
    BY <1>h, <2>1
<1>r. PICK r \in Order : r = heap'[o]
  BY <1>h
<1>t. /\ task' \in [Task -> TaskState] /\ task'[t].row = r
      /\ task'[t].pc = "saveTry" /\ task'[t].todo = task[t].todo
      /\ task'[t].order = task[t].order
      /\ \A q \in Task \ {t} : task'[q] = task[q]
  <2>1. task' = [task EXCEPT ![t].pc = "saveTry", ![t].row = r]
    BY <1>o, <1>r DEF Accepted
  <2>2. [task[t] EXCEPT !.pc = "saveTry", !.row = r] \in TaskState
    BY <1>b, RowState, LocationFacts
  <2>3. task' = [task EXCEPT ![t] = [task[t] EXCEPT !.pc = "saveTry", !.row = r]]
    BY <1>b, <2>1
  <2>4. /\ task' \in [Task -> TaskState]
        /\ task'[t] = [task[t] EXCEPT !.pc = "saveTry", !.row = r]
        /\ \A q \in Task \ {t} : task'[q] = task[q]
    BY <1>b, <2>2, <2>3
  <2> QED
    BY <1>b, <2>4 DEF TaskState
<1>k. \A p \in Order : OwnId(p) => OwnId(p)'
  BY <1>x, OwnIdKept
<1>1. TypeOK'
  BY <1>a, <1>t, <1>h, <1>x DEF IInv, TypeOK, ExchangeGrows
<1>2. HeapOK'
  <2>1. \A p \in Obj : OwnId(heap[p])'
    <3>1. OwnId(heap[o])'
      BY <1>h, <1>x DEF OwnId, NoId
    <3>2. ASSUME NEW p \in Obj \ {o} PROVE OwnId(heap[p])'
      <4>1. OwnId(heap[p]) /\ heap[p] \in Order /\ heap'[p] = heap[p]
        BY <1>b, <1>h DEF IInv, HeapOK
      <4> QED
        BY <4>1, <1>x DEF OwnId, ExchangeGrows, NoId, Order
    <3> QED
      BY <3>1, <3>2
  <2>2. \A c \in Call : task'[c].pc = "idle" => heap'[c] = Blank
    <3> TAKE c \in Call
    <3> HAVE task'[c].pc = "idle"
    <3>1. c # t /\ task[c].pc = "idle"
      BY <1>t, SetFacts
    <3>2. heap[c] = Blank /\ c # o
      BY <1>o, <3>1, BlankOrder DEF IInv, HeapOK
    <3> QED
      BY <1>h, <3>2, SetFacts
  <2>3. \A p \in orders' : Placed(heap'[p])
    BY <1>a, <1>i DEF IInv, HeapOK, TypeOK
  <2>4. \A p, q \in Obj :
           heap'[p].ext = heap'[q].ext /\ heap'[p].ext # NoId => p = q
    BY <1>h, <1>i DEF IInv, HeapOK
  <2> QED
    BY <2>1, <2>2, <2>3, <2>4 DEF HeapOK
<1>3. RowsOK'
  BY <1>a, <1>k DEF IInv, TypeOK, RowsOK
<1>4. TasksOK'
  <2>1. CallsOK'
    BY <1>a, <1>t, <1>i, SetFacts DEF IInv, TasksOK, CallsOK, CallLocations
  <2>2. CronsOK'
    <3>1. \A k \in Cron : /\ task'[k].todo = task[k].todo
                          /\ task[k].todo \subseteq Obj
                          /\ task'[k].order = task[k].order
                          /\ task'[k].pc # "idle" => task[k].pc # "idle"
                          /\ task'[k].pc # task[k].pc =>
                                /\ task'[k].pc \in OnOrder /\ task[k].pc \in OnOrder
      BY <1>a, <1>b, <1>t, SetFacts DEF TaskState, OnOrder
    <3> QED
      BY <1>i, <3>1 DEF IInv, TasksOK, CronsOK
  <2>3. WritesOK'
    <3>1. OwnId(r)'
      BY <1>2, <1>r DEF HeapOK
    <3>2. \A q \in Task : task[q].row \in Order
      BY <1>b DEF TaskState
    <3> QED
      BY <1>o, <1>t, <1>h, <1>r, <1>k, <3>1, <3>2 DEF IInv, TasksOK, WritesOK
  <2> QED
    BY <2>1, <2>2, <2>3 DEF TasksOK
<1>5. ProcessOK'
  BY <1>a, <1>b, <1>t, SetFacts DEF IInv, ProcessOK
<1>6. CreditOK'
  <2>1. \A k \in Cron : task'[k].pc \in Asking =>
           /\ task'[k] = task[k] /\ task[k].order \in Obj
           /\ task[k].ext # x /\ task[k].ext \in 1..Len(exch')
    BY <1>t, <1>x, SetFacts DEF Asking, IInv, TasksOK, CronsOK, OnOrder, CreditOK
  <2>2. \A p \in Obj : heap'[p].status = "pending" => credits[heap'[p].ext] = 0
    <3>1. credits[x] = 0
      BY <1>x DEF IInv, CreditOK, ExchangeGrows
    <3> QED
      BY <1>h, <3>1 DEF IInv, CreditOK
  <2>3. \A k \in Cron : task'[k].pc \in Asking =>
           /\ credits[task'[k].ext] = 0
           /\ \A p \in Obj : heap'[p].ext = task'[k].ext => p = task'[k].order
    BY <1>i, <2>1 DEF IInv, CreditOK
  <2>4. \A k \in Cron : /\ task'[k].pc \in Crediting
                        /\ heap'[task'[k].order].ext = task'[k].ext
                        => heap'[task'[k].order].status # "pending"
    BY <1>h, <2>1 DEF IInv, CreditOK, Asking, Crediting
  <2>5. /\ Len(exch') <= MaxExchangeOrders
        /\ \A y \in 1..MaxExchangeOrders : y > Len(exch') => credits[y] = 0
    BY <1>x DEF IInv, CreditOK, ExchangeGrows
  <2> QED
    BY <1>a, <2>1, <2>2, <2>3, <2>4, <2>5 DEF IInv, CreditOK, CreditedOnce
<1>7. PositionOK'
  <2>1. \A k \in Cron : task'[k].pc = "writePosition" =>
           /\ task'[k] = task[k] /\ task[k].order \in Obj
    BY <1>t, SetFacts DEF IInv, TasksOK, CronsOK, OnOrder
  <2>2. \A p \in Obj : /\ PairOfOrder(heap[p])' = PairOfOrder(heap[p])
                       /\ SideOfOrder(heap[p])' = SideOfOrder(heap[p])
    BY <1>i DEF PairOfOrder, SideOfOrder
  <2> QED
    BY <1>a, <1>i, <2>1, <2>2 DEF IInv, PositionOK, PositionIsLedger, Held
<1>8. UniqueInMemory'
  BY <1>a, <1>i DEF IInv, UniqueInMemory, TypeOK
<1> QED BY <1>1, <1>2, <1>3, <1>4, <1>5, <1>6, <1>7, <1>8 DEF IInv

LEMMA CronReapOK == ASSUME IInv, NEW k \in Cron, CronReap(k) PROVE IInv'
<1>a. /\ k \in Task /\ task[k].pc = "reap"
      /\ UNCHANGED <<up, mode, heap, rows, positions, exch, faults, credits,
                     ledger>>
  BY SetFacts DEF CronReap, memory, history
<1>b. /\ up /\ task \in [Task -> TaskState]
      /\ faults \in [crash : Nat, db : Nat, net : Nat]
      /\ task[k].todo \subseteq Obj
  BY <1>a, Running DEF TaskState
<1>c. orders' \subseteq orders
  BY DEF CronReap
<1>d. PICK r \in TaskState :
         /\ task' = [task EXCEPT ![k] = r] /\ r.pc \in {"idle", "loop"}
         /\ r.todo \subseteq task[k].todo
  <2>1. CASE task[k].todo = {}
    BY <1>a, <1>b, <2>1, IdleTask DEF CronReap
  <2>2. CASE task[k].todo # {}
    <3>1. [Idle EXCEPT !.pc = "loop", !.todo = task[k].todo] \in TaskState
      BY <1>b, IdleTask, LocationFacts DEF TaskState
    <3>2. /\ [Idle EXCEPT !.pc = "loop", !.todo = task[k].todo].pc = "loop"
          /\ [Idle EXCEPT !.pc = "loop", !.todo = task[k].todo].todo
               = task[k].todo
      BY DEF Idle
    <3>3. task' = [task EXCEPT ![k] =
                     [Idle EXCEPT !.pc = "loop", !.todo = task[k].todo]]
      BY <1>a, <1>b, <2>2 DEF CronReap
    <3> QED
      BY <3>1, <3>2, <3>3
  <2> QED
    BY <2>1, <2>2
<1>1. /\ task' \in [Task -> TaskState] /\ task'[k] = r
      /\ \A s \in Task \ {k} : task'[s] = task[s]
  BY <1>a, <1>b, <1>d, TaskWhole
<1>2. TaskFits(k, task'[k])
  BY <1>a, <1>d, <1>1, SetFacts
     DEF TaskFits, IInv, TasksOK, CronsOK, OnOrder, Asking, Crediting, Writing
<1> QED
  BY <1>a, <1>b, <1>c, <1>1, <1>2, Same, TaskStepOK

(* handleOrderCompletion gives up, and trackOrder goes on to its save.     *)
GivesUp(k) ==
    /\ task[k].pc \in Crediting
    /\ faults' \in [crash : Nat, db : Nat, net : Nat]
    /\ task' = [task EXCEPT ![k].pc = "saveTracked",
                     ![k].row = heap[ObjOf(k)], ![k].write = NoWrite]
    /\ UNCHANGED <<up, mode, orders, heap, rows, positions, exch, credits,
                   ledger>>

LEMMA GivesUpOK == ASSUME IInv, NEW k \in Cron, GivesUp(k) PROVE IInv'
<1>p. /\ k \in Task /\ task[k].pc \in OnOrder /\ ObjOf(k) = task[k].order
      /\ task[k].pc \notin {"idle", "done"}
      /\ faults' \in [crash : Nat, db : Nat, net : Nat]
      /\ UNCHANGED <<up, mode, orders, heap, rows, positions, exch, credits,
                     ledger>>
  BY SetFacts DEF ObjOf, Crediting, OnOrder, GivesUp
<1>a. task \in [Task -> TaskState] /\ up
  BY <1>p, Running
<1>b. PICK o \in Order : /\ o = heap[task[k].order] /\ Placed(o) /\ OwnId(o)
                         /\ task[k].order \in Obj
  BY <1>p DEF IInv, TypeOK, TasksOK, CronsOK, HeapOK
<1>c. PICK w \in WriteState : w = NoWrite
  BY DEF NoWrite, WriteState
<1>d. PICK q \in TaskState : q = [task[k] EXCEPT !.pc = "saveTracked", !.row = o]
  BY <1>p, <1>a, RowState, LocationFacts
<1>e. [q EXCEPT !.pc = "saveTracked", !.write = w] \in TaskState
  BY WriteFits, LocationFacts
<1>f. task[k] \in TaskState
  BY <1>p, <1>a
<1>g. PICK n \in TaskState :
         /\ n = [task[k] EXCEPT !.pc = "saveTracked", !.row = o, !.write = w]
         /\ n.pc = "saveTracked" /\ n.row = o
         /\ n.todo = task[k].todo /\ n.order = task[k].order
  <2>1. [q EXCEPT !.pc = "saveTracked", !.write = w]
           = [task[k] EXCEPT !.pc = "saveTracked", !.row = o, !.write = w]
    BY <1>d, <1>f DEF TaskState
  <2> QED
    BY <1>e, <1>f, <2>1 DEF TaskState
<1>h. task' = [task EXCEPT ![k] = n]
  BY <1>p, <1>a, <1>b, <1>c, <1>g DEF GivesUp
<1>1. /\ task' \in [Task -> TaskState] /\ task'[k].row = o
      /\ task'[k].pc = "saveTracked" /\ task'[k].todo = task[k].todo
      /\ task'[k].order = task[k].order
      /\ \A s \in Task \ {k} : task'[s] = task[s]
  BY <1>p, <1>a, <1>g, <1>h
<1>2. TaskFits(k, task'[k])
  BY <1>p, <1>b, <1>1, SetFacts
     DEF TaskFits, IInv, TasksOK, CronsOK, OnOrder, Asking, Crediting, Writing
<1> QED
  BY <1>p, <1>a, <1>1, <1>2, Same, TaskStepOK

LEMMA DbFailsOK == ASSUME IInv, NEW t \in Task, DbFails(t) PROVE IInv'
<1>a. /\ DbFault
      /\ UNCHANGED <<up, mode, orders, rows, positions, exch, credits, ledger>>
  BY DEF DbFails, memory, history
<1>b. /\ task \in [Task -> TaskState] /\ heap \in [Obj -> Order]
      /\ faults' \in [crash : Nat, db : Nat, net : Nat]
  <2>1. /\ task \in [Task -> TaskState] /\ heap \in [Obj -> Order]
        /\ faults \in [crash : Nat, db : Nat, net : Nat]
    BY DEF IInv, TypeOK
  <2> QED
    BY <1>a, <2>1 DEF DbFault
<1>1. CASE /\ task[t].pc \in {"find", "create", "saveFailed"}
           /\ task' = [task EXCEPT ![t] = Rejected(t)] /\ UNCHANGED heap
  <2>1. /\ task' \in [Task -> TaskState] /\ task'[t] = Rejected(t)
        /\ \A s \in Task \ {t} : task'[s] = task[s]
    BY <1>b, <1>1, IdleTask, TaskWhole DEF Rejected
  <2>2. TaskFits(t, task'[t])
    BY <2>1, IdleTask, SetFacts
       DEF TaskFits, Rejected, Task, CallLocations, OnOrder, Asking, Crediting,
           Writing
  <2> QED
    BY <1>a, <1>b, <1>1, <2>1, <2>2, Running, Same, TaskStepOK
<1>2. CASE task[t].pc = "saveTry" /\ SetAndSave(t, "failed", "saveFailed")
  BY <1>a, <1>b, <1>2, ExchangeSame, SetAndSaveOK
<1>3. CASE /\ task[t].pc \in {"findPosition", "writePosition"}
           /\ task' = [task EXCEPT ![t].pc = "saveTracked",
                           ![t].row = heap[ObjOf(t)], ![t].write = NoWrite]
           /\ UNCHANGED heap
  <2>1. t \in Cron
    BY <1>3 DEF IInv, TasksOK, CallsOK, CallLocations, Task
  <2> QED
    BY <1>a, <1>b, <1>3, <2>1, GivesUpOK DEF GivesUp, Crediting
<1>4. CASE /\ task[t].pc = "saveTracked"
           /\ task' = [task EXCEPT ![t].pc = "reap", ![t].row = Blank]
           /\ UNCHANGED heap
  <2>1. t \in Cron
    BY <1>4 DEF IInv, TasksOK, CallsOK, CallLocations, Task
  <2>2. /\ task' \in [Task -> TaskState]
        /\ task'[t].pc = "reap" /\ task'[t].order = task[t].order
        /\ task'[t].todo = task[t].todo
        /\ \A s \in Task \ {t} : task'[s] = task[s]
    BY <1>b, <1>4, TaskRow, BlankOrder, LocationFacts
  <2>3. TaskFits(t, task'[t])
    BY <1>4, <2>1, <2>2, SetFacts
       DEF TaskFits, IInv, TasksOK, CronsOK, OnOrder, Asking, Crediting, Writing
  <2> QED
    BY <1>a, <1>b, <1>4, <2>2, <2>3, Running, Same, TaskStepOK
<1> QED
  BY <1>1, <1>2, <1>3, <1>4 DEF DbFails

(* A planned write does to the held quantity what the fill should do.      *)
HeldBy(p) == IF p.isOpen THEN p.qty ELSE 0
Credited(side, h, f) ==
    IF side = "buy" THEN h + f ELSE IF f >= h THEN 0 ELSE h - f

LEMMA WriteMatches ==
    ASSUME NEW p \in Position, NEW f \in Nat, NEW side \in {"buy", "sell"},
           NEW w, w = PlannedWrite(side, p, f), w # NoWrite
    PROVE  /\ Written(p, w) \in Position
           /\ HeldBy(Written(p, w)) = Credited(side, HeldBy(p), f)
           /\ Credited(side, HeldBy(p), f) \in Nat
<1>p. p.isOpen \in BOOLEAN /\ p.qty \in Nat
  BY DEF Position
<1>1. CASE side = "buy" /\ p.isOpen
  <2>1. w = [kind |-> "resize", qty |-> p.qty + f]
    BY <1>1 DEF PlannedWrite
  <2>2. Written(p, w) = [p EXCEPT !.qty = p.qty + f]
    BY <1>1, <2>1 DEF Written
  <2> QED
    BY <1>1, <1>p, <2>2 DEF Position, HeldBy, Credited
<1>2. CASE side = "buy" /\ ~p.isOpen
  <2>1. w = [kind |-> "open", qty |-> f]
    BY <1>2 DEF PlannedWrite
  <2>2. Written(p, w) = [isOpen |-> TRUE, qty |-> f]
    BY <2>1 DEF Written
  <2>3. Written(p, w) \in Position /\ HeldBy(Written(p, w)) = f
    BY <2>2 DEF Position, HeldBy
  <2>4. Credited(side, HeldBy(p), f) = f
    BY <1>2 DEF HeldBy, Credited
  <2> QED
    BY <2>3, <2>4
<1>3. CASE side = "sell" /\ p.isOpen /\ f > 0 /\ f >= p.qty
  <2>1. w = [kind |-> "close", qty |-> 0]
    BY <1>3, <1>p DEF PlannedWrite
  <2>2. Written(p, w) = [p EXCEPT !.isOpen = FALSE]
    <3>1. w.kind = "close"
      BY <2>1
    <3>2. w.kind # "open" /\ ~(w.kind = "resize" /\ p.isOpen)
      BY <3>1
    <3> QED
      BY <3>1, <3>2, Zenon DEF Written
  <2> QED
    BY <1>3, <1>p, <2>2 DEF Position, HeldBy, Credited
<1>4. CASE side = "sell" /\ p.isOpen /\ f > 0 /\ f < p.qty
  <2>1. w = [kind |-> "resize", qty |-> p.qty - f]
    BY <1>4, <1>p DEF PlannedWrite
  <2>2. Written(p, w) = [p EXCEPT !.qty = p.qty - f]
    BY <1>4, <2>1 DEF Written
  <2> QED
    BY <1>4, <1>p, <2>2 DEF Position, HeldBy, Credited
<1>5. CASE side = "sell" /\ (~p.isOpen \/ f = 0)
  BY <1>5, <1>p DEF PlannedWrite
<1> QED
  BY <1>1, <1>2, <1>3, <1>4, <1>5, <1>p

LEMMA WritePositionOK == ASSUME IInv, NEW k \in Cron, WritePosition(k) PROVE IInv'
<1>a. /\ k \in Task /\ task[k].pc = "writePosition"
      /\ task[k].pc \notin {"idle", "done"}
      /\ UNCHANGED <<up, mode, orders, heap, rows, exch, faults>>
  BY SetFacts DEF WritePosition, memory
<1>b. /\ up /\ task \in [Task -> TaskState] /\ heap \in [Obj -> Order]
      /\ positions \in [Pair -> Position] /\ ledger \in [Pair -> Nat]
      /\ credits \in [1..MaxExchangeOrders -> Nat]
  <2>1. up /\ task \in [Task -> TaskState]
    BY <1>a, Running
  <2> QED
    BY <2>1 DEF IInv, TypeOK
<1>c. PICK o \in Order : /\ o = heap[task[k].order] /\ Placed(o) /\ OwnId(o)
                         /\ task[k].order \in Obj
  BY <1>a, <1>b DEF IInv, TasksOK, CronsOK, OnOrder, HeapOK
<1>d. PICK p \in Pair : p = PairOfOrder(o)
  <2>1. o.uid[1] \in Action
    BY <1>c DEF Uid
  <2> QED
    BY <2>1 DEF PairOfOrder
<1>s. PICK side \in {"buy", "sell"} : side = SideOfOrder(o)
  <2>1. o.uid[1] \in Action
    BY <1>c DEF Uid
  <2> QED
    BY <2>1 DEF SideOfOrder
<1>f. PICK f \in Nat : f = o.filled
  BY <1>c DEF Order
<1>w. PICK w : /\ w = task[k].write /\ w # NoWrite
               /\ w = PlannedWrite(side, positions[p], f)
  BY <1>a, <1>c, <1>d, <1>s, <1>f DEF IInv, PositionOK
<1>m. /\ positions[p] \in Position
      /\ Written(positions[p], w) \in Position
      /\ HeldBy(Written(positions[p], w)) = Credited(side, HeldBy(positions[p]), f)
      /\ Credited(side, HeldBy(positions[p]), f) \in Nat
  BY <1>b, <1>w, WriteMatches
<1>x. PICK x \in 1..MaxExchangeOrders :
         /\ x = task[k].ext /\ credits[x] = 0 /\ x <= Len(exch) /\ x # 0
         /\ \A q \in Obj : heap[q].ext = x => q = task[k].order
  BY <1>a DEF IInv, CreditOK, Asking
<1>l. HeldBy(positions[p]) = ledger[p]
  BY DEF IInv, PositionOK, PositionIsLedger, Held, HeldBy
<1>e. /\ positions' = [positions EXCEPT ![p] = Written(positions[p], w)]
      /\ credits' = [credits EXCEPT ![x] = 1]
      /\ ledger' = [ledger EXCEPT ![p] = Credited(side, ledger[p], f)]
  <2>1. positions' = [positions EXCEPT ![p] = Written(positions[p], w)]
    BY <1>c, <1>d, <1>w DEF WritePosition
  <2>2. credits' = [credits EXCEPT ![x] = 1]
    <3>1. credits' = [credits EXCEPT ![x] = credits[x] + 1]
      BY <1>x DEF WritePosition
    <3> QED
      BY <1>x, <3>1
  <2>3. ledger' = [ledger EXCEPT ![p] = Credited(side, ledger[p], f)]
    BY <1>c, <1>d, <1>s, <1>f DEF WritePosition, Credited
  <2> QED
    BY <2>1, <2>2, <2>3
<1>t. /\ task' \in [Task -> TaskState] /\ task'[k].row = o
      /\ task'[k].pc = "saveTracked" /\ task'[k].todo = task[k].todo
      /\ task'[k].order = task[k].order
      /\ \A q \in Task \ {k} : task'[q] = task[q]
  <2>1. PICK v \in WriteState : v = NoWrite
    BY DEF NoWrite, WriteState
  <2>2. PICK q \in TaskState : q = [task[k] EXCEPT !.pc = "saveTracked", !.row = o]
    BY <1>a, <1>b, RowState, LocationFacts
  <2>3. [q EXCEPT !.pc = "saveTracked", !.write = v] \in TaskState
    BY WriteFits, LocationFacts
  <2>4. task[k] \in TaskState
    BY <1>a, <1>b
  <2>5. PICK n \in TaskState :
           /\ n = [task[k] EXCEPT !.pc = "saveTracked", !.row = o, !.write = v]
           /\ n.pc = "saveTracked" /\ n.row = o
           /\ n.todo = task[k].todo /\ n.order = task[k].order
    <3>1. [q EXCEPT !.pc = "saveTracked", !.write = v]
             = [task[k] EXCEPT !.pc = "saveTracked", !.row = o, !.write = v]
      BY <2>2, <2>4 DEF TaskState
    <3> QED
      BY <2>3, <2>4, <3>1 DEF TaskState
  <2>6. task' = [task EXCEPT ![k] = n]
    BY <1>b, <1>c, <2>1, <2>5 DEF WritePosition
  <2> QED
    BY <1>a, <1>b, <2>5, <2>6
<1>j. \A j \in Cron \ {k} : task'[j].pc = "idle" /\ task[j].pc = "idle"
  BY <1>a, <1>t, SetFacts DEF IInv, ProcessOK
<1>1. TypeOK'
  <2>1. /\ positions' \in [Pair -> Position] /\ ledger' \in [Pair -> Nat]
        /\ credits' \in [1..MaxExchangeOrders -> Nat]
    BY <1>b, <1>e, <1>m, <1>l
  <2> QED
    BY <1>a, <1>t, <2>1 DEF IInv, TypeOK
<1>2. HeapOK'
  <2>1. \A c \in Call : task'[c].pc = "idle" => task[c].pc = "idle"
    BY <1>t, SetFacts
  <2> QED
    BY <1>a, <2>1 DEF IInv, HeapOK, OwnId
<1>3. RowsOK'
  BY <1>a DEF IInv, RowsOK, OwnId
<1>4. TasksOK'
  <2>1. CallsOK'
    BY <1>a, <1>t, SetFacts DEF IInv, TasksOK, CallsOK
  <2>2. CronsOK'
    BY <1>a, <1>t, SetFacts DEF IInv, TasksOK, CronsOK, OnOrder
  <2>3. WritesOK'
    BY <1>a, <1>c, <1>t DEF IInv, TasksOK, WritesOK, OwnId
  <2> QED
    BY <2>1, <2>2, <2>3 DEF TasksOK
<1>5. ProcessOK'
  BY <1>a, <1>b, <1>j DEF IInv, ProcessOK
<1>6. CreditOK'
  <2>1. \A y \in 1..MaxExchangeOrders : credits'[y] = IF y = x THEN 1 ELSE credits[y]
    BY <1>b, <1>e
  <2>2. \A q \in Obj : heap[q].status = "pending" => credits'[heap[q].ext] = 0
    <3> TAKE q \in Obj
    <3> HAVE heap[q].status = "pending"
    <3>1. heap[q].ext # x
      BY <1>a, <1>x DEF IInv, CreditOK, Crediting
    <3>2. heap[q].ext \in 1..MaxExchangeOrders /\ credits[heap[q].ext] = 0
      BY <1>b DEF IInv, TypeOK, HeapOK, OwnId, CreditOK, NoId
    <3> QED
      BY <2>1, <3>1, <3>2
  <2>3. \A j \in Cron : task'[j].pc \notin Asking
    BY <1>t, <1>j DEF Asking
  <2>4. /\ \A y \in 1..MaxExchangeOrders : y > Len(exch) => credits'[y] = 0
        /\ \A y \in 1..MaxExchangeOrders : credits'[y] <= 1
    <3>1. /\ \A y \in 1..MaxExchangeOrders : y > Len(exch) => credits[y] = 0
          /\ \A y \in 1..MaxExchangeOrders : credits[y] <= 1
          /\ Len(exch) \in Nat
      BY DEF IInv, TypeOK, CreditOK, CreditedOnce
    <3> QED
      BY <1>x, <2>1, <3>1
  <2> QED
    BY <1>a, <2>2, <2>3, <2>4 DEF IInv, CreditOK, CreditedOnce, Asking, Crediting
<1>7. PositionOK'
  <2>1. \A q \in Pair : HeldBy(positions'[q]) = ledger'[q]
    <3>1. \A q \in Pair : HeldBy(positions[q]) = ledger[q]
      BY DEF IInv, PositionOK, PositionIsLedger, Held, HeldBy
    <3> QED
      BY <1>b, <1>e, <1>m, <1>l, <3>1
  <2>2. PositionIsLedger'
    BY <2>1 DEF PositionIsLedger, Held, HeldBy
  <2>3. \A j \in Cron : task'[j].pc # "writePosition"
    BY <1>t, <1>j
  <2> QED
    BY <2>2, <2>3 DEF PositionOK
<1>8. UniqueInMemory'
  BY <1>a DEF IInv, UniqueInMemory
<1> QED BY <1>1, <1>2, <1>3, <1>4, <1>5, <1>6, <1>7, <1>8 DEF IInv

-----------------------------------------------------------------------------
(* The process and the exchange. *)

LEMMA CrashOK == ASSUME IInv, Crash PROVE IInv'
<1>a. /\ up' = FALSE /\ orders' = {} /\ heap' = [o \in Obj |-> Blank]
      /\ credits' = [x \in 1..MaxExchangeOrders |-> 0]
      /\ UNCHANGED <<mode, rows, positions, exch, ledger>>
  BY DEF Crash
<1>b. faults' \in [crash : Nat, db : Nat, net : Nat]
  <2>1. faults \in [crash : Nat, db : Nat, net : Nat]
    BY DEF IInv, TypeOK
  <2>2. faults' = [faults EXCEPT !.crash = faults.crash + 1]
    BY DEF Crash
  <2> QED
    BY <2>1, <2>2
<1>c. /\ task' \in [Task -> TaskState]
      /\ \A t \in Task : task'[t] \in {Idle, Done}
      /\ \A k \in Cron : task'[k] = Idle
  BY SetFacts, IdleTask DEF Crash
<1>h. /\ heap' \in [Obj -> Order] /\ \A o \in Obj : heap'[o] = Blank
  BY <1>a, BlankOrder
<1>1. TypeOK'
  BY <1>a, <1>b, <1>c, <1>h DEF IInv, TypeOK
<1>2. HeapOK'
  <2>1. OwnId(Blank)'
    BY <1>1, BlankOrder DEF OwnId, NoId, TypeOK
  <2> QED
    BY <1>a, <1>h, <2>1, BlankOrder, SetFacts DEF HeapOK, NoId
<1>3. RowsOK'
  BY <1>a DEF IInv, RowsOK, OwnId
<1>4. TasksOK'
  <2>1. \A t \in Task : task'[t].pc \in {"idle", "done"}
    BY <1>c, IdleTask
  <2>2. CallsOK' /\ WritesOK'
    BY <2>1, SetFacts DEF CallsOK, WritesOK, CallLocations, Writing
  <2>3. CronsOK'
    BY <1>c, IdleTask DEF CronsOK, OnOrder
  <2> QED
    BY <2>2, <2>3 DEF TasksOK
<1>5. ProcessOK'
  BY <1>a, <1>c, IdleTask DEF ProcessOK
<1>6. CreditOK'
  <2>1. \A k \in Cron : task'[k].pc = "idle"
    BY <1>c, IdleTask
  <2> QED
    BY <1>a, <1>h, <2>1, BlankOrder
       DEF IInv, CreditOK, CreditedOnce, Asking, Crediting
<1>7. PositionOK'
  <2>1. \A k \in Cron : task'[k].pc = "idle"
    BY <1>c, IdleTask
  <2> QED
    BY <1>a, <2>1 DEF IInv, PositionOK, PositionIsLedger, Held
<1>8. UniqueInMemory'
  BY <1>a DEF UniqueInMemory
<1> QED BY <1>1, <1>2, <1>3, <1>4, <1>5, <1>6, <1>7, <1>8 DEF IInv

LEMMA StartOK == ASSUME IInv, Start PROVE IInv'
<1>a. /\ ~up /\ up' = TRUE /\ mode' \in Modes /\ orders' = FindActive
      /\ heap' = [o \in Obj |-> IF o \in FindActive THEN rows[o] ELSE Blank]
      /\ UNCHANGED <<task, rows, positions, exch, faults, credits, ledger>>
  BY DEF Start, history
<1>f. /\ FindActive \subseteq Uid /\ FindActive \subseteq Obj
      /\ \A u \in FindActive : /\ rows[u] \in Order /\ rows[u].uid = u
                               /\ OwnId(rows[u]) /\ rows[u].status # "none"
  BY SetFacts DEF FindActive, IsActive, IInv, TypeOK, RowsOK
<1>h. /\ heap' \in [Obj -> Order]
      /\ \A u \in FindActive : heap'[u] = rows[u]
      /\ \A o \in Obj \ FindActive : heap'[o] = Blank
  BY <1>a, <1>f, BlankOrder
<1>i. \A t \in Task : task[t].pc \in {"idle", "done"}
  BY <1>a DEF IInv, ProcessOK
<1>j. \A k \in Cron : task[k].pc = "idle"
  BY <1>i, SetFacts DEF IInv, TasksOK, CronsOK, OnOrder
<1>c. \A x \in 1..MaxExchangeOrders : credits[x] = 0
  BY <1>a DEF IInv, ProcessOK
<1>u. \A u \in FindActive : rows[u].ext \in 0..Len(exch)
        /\ (rows[u].ext # 0 => exch[rows[u].ext].uid = u)
        /\ (rows[u].status = "pending" => rows[u].ext # 0)
  BY <1>f DEF OwnId, NoId
<1>1. TypeOK'
  BY <1>a, <1>f, <1>h DEF IInv, TypeOK
<1>2. HeapOK'
  <2>1. OwnId(Blank)'
    BY <1>1, BlankOrder DEF OwnId, NoId, TypeOK
  <2>2. \A u \in FindActive : OwnId(rows[u])'
    BY <1>a, <1>f DEF OwnId
  <2>3. \A o \in Obj : OwnId(heap[o])'
    <3> TAKE o \in Obj
    <3>1. CASE o \in FindActive
      <4>1. heap'[o] = rows'[o]
        BY <1>a, <1>h, <3>1
      <4> QED
        BY <2>2, <3>1, <4>1 DEF OwnId
    <3>2. CASE o \notin FindActive
      <4>1. heap'[o] = Blank
        BY <1>h, <3>2
      <4> QED
        BY <2>1, <4>1 DEF OwnId
    <3> QED
      BY <3>1, <3>2
  <2>4. \A o \in orders' : Placed(heap'[o])
    BY <1>a, <1>f, <1>h
  <2>5. \A d \in Call : task'[d].pc = "idle" => heap'[d] = Blank
    BY <1>f, <1>h, SetFacts
  <2>6. \A o, p \in Obj : heap'[o].ext = heap'[p].ext /\ heap'[o].ext # NoId => o = p
    <3> SUFFICES ASSUME NEW o \in Obj, NEW p \in Obj,
                        heap'[o].ext = heap'[p].ext, heap'[o].ext # 0
                 PROVE  o = p
      BY DEF NoId
    <3>1. o \in FindActive /\ p \in FindActive
      BY <1>h, BlankOrder
    <3> QED
      BY <1>h, <1>u, <3>1
  <2> QED
    BY <2>3, <2>4, <2>5, <2>6 DEF HeapOK
<1>3. RowsOK'
  BY <1>a DEF IInv, RowsOK, OwnId
<1>4. TasksOK'
  <2>1. CallsOK' /\ WritesOK'
    BY <1>a, <1>i, SetFacts DEF CallsOK, WritesOK, CallLocations, Writing
  <2>2. CronsOK'
    BY <1>a, <1>j DEF CronsOK, OnOrder
  <2> QED
    BY <2>1, <2>2 DEF TasksOK
<1>5. ProcessOK'
  BY <1>a, <1>j DEF ProcessOK
<1>6. CreditOK'
  <2>1. \A o \in Obj : heap'[o].status = "pending" => credits[heap'[o].ext] = 0
    <3> SUFFICES ASSUME NEW o \in Obj, heap'[o].status = "pending"
                 PROVE  credits[heap'[o].ext] = 0
      OBVIOUS
    <3>1. o \in FindActive /\ heap'[o] = rows[o]
      BY <1>h, BlankOrder
    <3>2. rows[o].ext \in 1..MaxExchangeOrders
      BY <1>u, <3>1 DEF IInv, TypeOK, CreditOK
    <3> QED
      BY <1>c, <3>1, <3>2
  <2> QED
    BY <1>a, <1>j, <2>1 DEF IInv, CreditOK, CreditedOnce, Asking, Crediting
<1>7. PositionOK'
  BY <1>a, <1>j DEF IInv, PositionOK, PositionIsLedger, Held
<1>8. UniqueInMemory'
  BY <1>a, <1>f, <1>h DEF UniqueInMemory
<1> QED BY <1>1, <1>2, <1>3, <1>4, <1>5, <1>6, <1>7, <1>8 DEF IInv

(* A step of the exchange alone leaves everything as it was.               *)
LEMMA ExchangeAloneOK ==
    ASSUME IInv, ExchangeGrows, Len(exch') = Len(exch),
           UNCHANGED <<up, mode, orders, heap, task, rows, positions, faults,
                       credits, ledger>>
    PROVE  IInv'
<1>k. \A o \in Order : OwnId(o) => OwnId(o)'
  BY OwnIdKept
<1>t. /\ heap \in [Obj -> Order] /\ rows \in [Uid -> Order]
      /\ \A t \in Task : task[t].row \in Order
  BY DEF IInv, TypeOK, TaskState
<1>1. TypeOK'
  BY DEF IInv, TypeOK, ExchangeGrows
<1>2. HeapOK'
  <2>1. \A o \in Obj : OwnId(heap[o])'
    BY <1>k, <1>t DEF IInv, HeapOK
  <2> QED
    BY <2>1 DEF IInv, HeapOK
<1>3. RowsOK'
  <2>1. \A u \in Uid : OwnId(rows[u])'
    BY <1>k, <1>t DEF IInv, RowsOK
  <2> QED
    BY <2>1 DEF IInv, RowsOK
<1>4. TasksOK'
  <2>1. \A t \in Task : task[t].pc \in Writing => OwnId(task[t].row)'
    BY <1>k, <1>t DEF IInv, TasksOK, WritesOK
  <2> QED
    BY <2>1 DEF IInv, TasksOK, CallsOK, CronsOK, WritesOK
<1>5. ProcessOK'
  BY DEF IInv, ProcessOK
<1>6. CreditOK'
  BY DEF IInv, CreditOK, CreditedOnce
<1>7. PositionOK'
  BY DEF IInv, PositionOK, PositionIsLedger, Held, SideOfOrder, PairOfOrder
<1>8. UniqueInMemory'
  BY DEF IInv, UniqueInMemory
<1> QED BY <1>1, <1>2, <1>3, <1>4, <1>5, <1>6, <1>7, <1>8 DEF IInv

LEMMA FilledOrder ==
    ASSUME NEW e \in ExchangeOrder, NEW n \in Nat,
           NEW s \in {"open", "closed", "canceled"}
    PROVE  /\ [e EXCEPT !.filled = n, !.status = s] \in ExchangeOrder
           /\ [e EXCEPT !.filled = n, !.status = s].uid = e.uid
<1> DEFINE S == {"open", "closed", "canceled"}
<1>1. s \in S /\ e \in [uid : Uid, by : Obj, life : Nat, amount : Nat,
                        filled : Nat, status : S]
  BY DEF ExchangeOrder
<1> HIDE DEF S
<1>2. /\ [e EXCEPT !.filled = n, !.status = s] \in
            [uid : Uid, by : Obj, life : Nat, amount : Nat, filled : Nat,
             status : S]
      /\ [e EXCEPT !.filled = n, !.status = s].uid = e.uid
  BY <1>1
<1> QED
  BY <1>2 DEF ExchangeOrder, S

LEMMA ExchangeStepOK ==
    ASSUME IInv, NEW x \in 1..Len(exch), ExchangeStep(x) PROVE IInv'
<1>a. UNCHANGED <<up, mode, orders, heap, task, rows, positions, faults,
                  credits, ledger>>
  BY DEF ExchangeStep, Fill, EndUnfilled, memory, history
<1>b. exch \in Seq(ExchangeOrder) /\ exch[x] \in ExchangeOrder
      /\ Len(exch) \in Nat /\ Len(exch) <= MaxExchangeOrders
  BY DEF IInv, TypeOK, CreditOK
<1>c. PICK e \in ExchangeOrder : exch' = [exch EXCEPT ![x] = e] /\ e.uid = exch[x].uid
  <2>1. CASE Fill(x)
    <3>1. PICK s \in {"open", "closed", "canceled"} :
             s = IF exch[x].filled + 1 = exch[x].amount
                 THEN "closed" ELSE "open"
      OBVIOUS
    <3>2. PICK n \in Nat : n = exch[x].filled + 1
      BY <1>b DEF ExchangeOrder
    <3>3. exch' = [exch EXCEPT ![x] = [exch[x] EXCEPT !.filled = n, !.status = s]]
      BY <2>1, <1>b, <3>1, <3>2 DEF Fill
    <3>4. /\ [exch[x] EXCEPT !.filled = n, !.status = s] \in ExchangeOrder
          /\ [exch[x] EXCEPT !.filled = n, !.status = s].uid = exch[x].uid
      BY <1>b, FilledOrder
    <3> QED
      BY <3>3, <3>4
  <2>2. CASE EndUnfilled(x)
    <3>1. [exch[x] EXCEPT !.status = "canceled"] \in ExchangeOrder
      BY <1>b DEF ExchangeOrder
    <3>2. exch' = [exch EXCEPT ![x] = [exch[x] EXCEPT !.status = "canceled"]]
      BY <2>2, <1>b DEF EndUnfilled
    <3>3. [exch[x] EXCEPT !.status = "canceled"].uid = exch[x].uid
      BY <1>b DEF ExchangeOrder
    <3> QED
      BY <3>1, <3>2, <3>3
  <2> QED
    BY <2>1, <2>2 DEF ExchangeStep
<1>d. ExchangeGrows /\ Len(exch') = Len(exch)
  BY <1>b, <1>c DEF ExchangeGrows
<1> QED
  BY <1>a, <1>d, ExchangeAloneOK

-----------------------------------------------------------------------------
LEMMA InitOK == ASSUME Init PROVE IInv
<1>a. /\ up = FALSE /\ mode \in Modes /\ orders = {} /\ exch = <<>>
      /\ heap = [o \in Obj |-> Blank] /\ task = [t \in Task |-> Idle]
      /\ rows = [u \in Uid |-> Blank]
      /\ positions = [p \in Pair |-> [isOpen |-> FALSE, qty |-> 0]]
      /\ faults = [crash |-> 0, db |-> 0, net |-> 0]
      /\ credits = [x \in 1..MaxExchangeOrders |-> 0]
      /\ ledger = [p \in Pair |-> 0]
  BY DEF Init
<1>e. exch \in Seq(ExchangeOrder) /\ Len(exch) = 0
  BY <1>a
<1>b. OwnId(Blank)
  BY <1>e, BlankOrder DEF OwnId, NoId
<1>t. \A t \in Task : task[t] = Idle
  BY <1>a
<1>k. \A k \in Cron : task[k] = Idle
  BY <1>t, SetFacts
<1>1. TypeOK
  <2>1. task \in [Task -> TaskState] /\ heap \in [Obj -> Order]
        /\ rows \in [Uid -> Order]
    BY <1>a, IdleTask, BlankOrder
  <2>2. positions \in [Pair -> Position]
    BY <1>a DEF Position
  <2>3. /\ faults \in [crash : Nat, db : Nat, net : Nat]
        /\ credits \in [1..MaxExchangeOrders -> Nat] /\ ledger \in [Pair -> Nat]
    BY <1>a
  <2> QED
    BY <1>a, <1>e, <2>1, <2>2, <2>3 DEF TypeOK
<1>2. HeapOK
  <2>1. \A o \in Obj : heap[o] = Blank
    BY <1>a
  <2>2. \A o \in Obj : OwnId(heap[o])
    BY <2>1, <1>b
  <2>3. \A o \in Obj : heap[o].ext = NoId
    BY <2>1, BlankOrder DEF NoId
  <2>4. \A c \in Call : heap[c] = Blank
    BY <2>1, SetFacts
  <2> QED
    BY <1>a, <2>2, <2>3, <2>4 DEF HeapOK
<1>3. RowsOK
  BY <1>a, <1>b, BlankOrder DEF RowsOK
<1>4. TasksOK
  <2>1. CallsOK /\ WritesOK
    BY <1>t, IdleTask, SetFacts DEF CallsOK, WritesOK, CallLocations, Writing
  <2>2. CronsOK
    BY <1>k, IdleTask DEF CronsOK, OnOrder
  <2> QED
    BY <2>1, <2>2 DEF TasksOK
<1>5. ProcessOK
  BY <1>a, <1>t, <1>k, IdleTask DEF ProcessOK
<1>6. CreditOK
  BY <1>a, <1>e, <1>k, IdleTask, BlankOrder
     DEF CreditOK, CreditedOnce, Asking, Crediting
<1>7. PositionOK
  BY <1>a, <1>k, IdleTask DEF PositionOK, PositionIsLedger, Held
<1>8. UniqueInMemory
  BY <1>a DEF UniqueInMemory
<1> QED BY <1>1, <1>2, <1>3, <1>4, <1>5, <1>6, <1>7, <1>8 DEF IInv

LEMMA NextOK == ASSUME IInv, [Next]_vars PROVE IInv'
<1>1. ASSUME NEW c \in Call, PlaceStep(c) PROVE IInv'
  BY <1>1, CheckDuplicatesOK, CreateOK DEF PlaceStep
<1>2. ASSUME NEW c \in Call, NEW u \in Uid, PlaceOrder(c, u) PROVE IInv'
  BY <1>2, PlaceOrderOK
<1>3. ASSUME NEW t \in Task, SubmitStep(t) PROVE IInv'
  BY <1>3, CalculateQuantityOK, AcceptedOK, RefusedOK, AcceptanceLostOK,
     SaveSubmittedOK, DbFailsOK DEF SubmitStep
<1>4. ASSUME NEW k \in Cron, CronTick(k) PROVE IInv'
  BY <1>4, CronTickOK
<1>5. ASSUME NEW k \in Cron, CronStep(k) PROVE IInv'
  BY <1>5, CronVisitOK, CronReapOK, TrackedOK, TrackFailsOK, FindPositionOK,
     WritePositionOK, SaveTrackedOK DEF CronStep
<1>6. ASSUME NEW x \in 1..Len(exch), ExchangeStep(x) PROVE IInv'
  BY <1>6, ExchangeStepOK
<1>7. CASE Crash \/ Start
  BY <1>7, CrashOK, StartOK
<1>8. CASE UNCHANGED vars
  BY <1>8, StutterOK
<1> QED
  BY <1>1, <1>2, <1>3, <1>4, <1>5, <1>6, <1>7, <1>8 DEF Next

(* The inductive invariant holds of every state the service can reach.     *)
THEOREM Invariance == Spec => []IInv
BY InitOK, NextOK, PTL DEF Spec

-----------------------------------------------------------------------------
(* Every variable keeps its type: no object, row or task takes a shape the *)
(* code does not expect, and no position or ledger goes below zero.        *)
THEOREM TypeCorrect == Spec => []TypeOK
BY Invariance, PTL DEF IInv

(* No two objects in this.orders have the same uid, although placeOrder    *)
(* awaits the table between a call's start and its check in memory.        *)
THEOREM OrdersAreUnique == Spec => []UniqueInMemory
<1>1. IInv => UniqueInMemory
  BY DEF IInv
<1> QED
  BY <1>1, Invariance, PTL

(* A pending order, in memory or in the table, has the id of an exchange   *)
(* order that was created for its uid, also after a crash, a lost answer   *)
(* or a second submission.                                                 *)
THEOREM PendingOrdersAreTrackable == Spec => []PendingIsTrackable
<1>1. ASSUME IInv PROVE PendingIsTrackable
  <2>1. ASSUME NEW o \in Order, OwnId(o) PROVE TracksItsOwn(o)
    BY <1>1, <2>1 DEF IInv, TypeOK, OwnId, NoId, TracksItsOwn
  <2>2. /\ \A o \in orders : heap[o] \in Order /\ OwnId(heap[o])
        /\ \A u \in Uid : rows[u] \in Order /\ OwnId(rows[u])
    BY <1>1 DEF IInv, TypeOK, HeapOK, RowsOK
  <2> QED
    BY <2>1, <2>2 DEF PendingIsTrackable
<1> QED
  BY <1>1, Invariance, PTL

(* One process adds the fill of an exchange order to a position at most    *)
(* once, whichever objects came to hold its id and however often they were *)
(* tracked.                                                                *)
THEOREM FillsAreCreditedOnce == Spec => []CreditedOnce
<1>1. IInv => CreditedOnce
  BY DEF IInv, CreditOK
<1> QED
  BY <1>1, Invariance, PTL

(* handleOrderCompletion's read and its later write of a position row are  *)
(* never separated by another write of it: the row is the net of all fills *)
(* credited, in spite of crashes and failed calls between the two.         *)
THEOREM PositionsAreLedgers == Spec => []PositionIsLedger
<1>1. IInv => PositionIsLedger
  BY DEF IInv, PositionOK
<1> QED
  BY <1>1, Invariance, PTL

-----------------------------------------------------------------------------
(* What a cron run still has to visit stays in this.orders.                *)

(* A step that takes no object from this.orders, and after which each run  *)
(* going works on what it worked on before, or on nothing.                 *)
LEMMA RunKept ==
    ASSUME IInv, RunOK, up' = up, up \/ orders' = orders, orders \subseteq orders',
           \A k \in Cron : task'[k].pc # "idle" =>
               /\ task[k].pc # "idle" /\ task'[k].todo = task[k].todo
               /\ task'[k].pc \in OnOrder =>
                     task[k].pc \in OnOrder /\ task'[k].order = task[k].order
    PROVE  RunOK'
BY DEF RunOK

LEMMA CallStepRuns ==
    ASSUME IInv, RunOK, NEW c \in Call,
           PlaceStep(c) \/ \E u \in Uid : PlaceOrder(c, u)
    PROVE  RunOK' /\ orders \subseteq orders'
<1>1. task \in [Task -> TaskState] /\ c \in Task
  BY SetFacts DEF IInv, TypeOK
<1>2. \A k \in Cron : task'[k] = task[k]
  BY <1>1, SetFacts DEF PlaceStep, CheckDuplicates, Create, PlaceOrder
<1>3. up' = up /\ orders \subseteq orders'
  BY DEF PlaceStep, CheckDuplicates, Create, PlaceOrder, memory
<1>4. up \/ orders' = orders
  <2>1. task[c].pc = "find" => up
    BY <1>1 DEF IInv, ProcessOK
  <2> QED
    BY <2>1 DEF PlaceStep, CheckDuplicates, Create, PlaceOrder, memory
<1> QED
  BY <1>2, <1>3, <1>4, RunKept

LEMMA SubmitStepRuns ==
    ASSUME IInv, RunOK, NEW t \in Task, SubmitStep(t)
    PROVE  RunOK' /\ orders' = orders
<1>1. task \in [Task -> TaskState]
  BY DEF IInv, TypeOK
<1>2. UNCHANGED <<up, orders>>
  BY DEF SubmitStep, CalculateQuantity, Accepted, Refused, AcceptanceLost,
         SaveSubmitted, DbFails, memory
<1>3. \A s \in Task \ {t} : task'[s] = task[s]
  BY <1>1 DEF SubmitStep, CalculateQuantity, Accepted, Refused, AcceptanceLost,
              SaveSubmitted, DbFails, SetAndSave
<1>4. t \in Cron /\ task'[t].pc # "idle" =>
         /\ task[t].pc \in OnOrder
         /\ task'[t].todo = task[t].todo /\ task'[t].order = task[t].order
  <2>0. task[t] \in TaskState
    BY <1>1
  <2>1. CASE CalculateQuantity(t) \/ Accepted(t) \/ Refused(t) \/ AcceptanceLost(t)
    BY <1>1, <2>0, <2>1 DEF CalculateQuantity, Accepted, Refused, AcceptanceLost,
                      SetAndSave, OnOrder, TaskState
  <2>2. CASE SaveSubmitted(t)
    BY <1>1, <2>0, <2>2, SetFacts DEF SaveSubmitted, AfterSubmit, OnOrder, TaskState
  <2>3. CASE DbFails(t)
    <3>1. CASE task'[t] = Rejected(t)
      BY <3>1, IdleTask, SetFacts DEF Rejected
    <3>2. CASE task'[t] # Rejected(t)
      BY <1>1, <2>0, <2>3, <3>2 DEF DbFails, SetAndSave, OnOrder, TaskState
    <3> QED
      BY <3>1, <3>2
  <2> QED
    BY <2>1, <2>2, <2>3 DEF SubmitStep
<1>5. "idle" \notin OnOrder
  BY DEF OnOrder
<1> QED
  BY <1>2, <1>3, <1>4, <1>5, SetFacts, RunKept

LEMMA CronStepRuns ==
    ASSUME IInv, RunOK, NEW k \in Cron, CronTick(k) \/ CronStep(k)
    PROVE  /\ RunOK'
           /\ orders' # orders => CronReap(k)
<1>1. task \in [Task -> TaskState] /\ k \in Task /\ task[k] \in TaskState
  BY SetFacts DEF IInv, TypeOK
<1>2. /\ up' = up
      /\ orders' # orders => CronReap(k)
  BY DEF CronTick, CronStep, CronVisit, CronReap, Tracked, TrackFails,
         FindPosition, WritePosition, SaveTracked, memory
<1>3. \A j \in Cron \ {k} : task'[j] = task[j]
  BY <1>1, SetFacts
     DEF CronTick, CronStep, CronVisit, CronReap, Tracked, TrackFails,
         FindPosition, WritePosition, SaveTracked, SetAndSave
<1>u. task[k].pc # "idle" => up
  BY <1>1 DEF IInv, ProcessOK, TasksOK, CronsOK, OnOrder
<1>4. CASE CronTick(k)
  <2>1. \/ task'[k] = task[k]
        \/ task'[k].pc = "loop" /\ task'[k].todo = orders
    BY <1>1, <1>4 DEF CronTick, TaskState
  <2>2. up /\ orders' = orders
    BY <1>4 DEF CronTick, memory
  <2> QED
    BY <1>2, <1>3, <2>1, <2>2 DEF RunOK, OnOrder
<1>5. CASE CronVisit(k)
  <2>1. PICK o \in task[k].todo :
           /\ task'[k].todo = task[k].todo \ {o} /\ task'[k].order = o
    BY <1>1, <1>5 DEF CronVisit
  <2>2. up /\ orders' = orders /\ task[k].pc # "idle"
    BY <1>5, <1>u DEF CronVisit, memory
  <2> QED
    BY <1>2, <1>3, <2>1, <2>2 DEF RunOK
<1>6. CASE CronReap(k)
  <2>1. up /\ task[k].pc = "reap" /\ task[k].pc # "idle" /\ task[k].pc \in OnOrder
    BY <1>6, <1>u DEF CronReap, OnOrder
  <2>2. \A j \in Cron \ {k} : task[j].pc = "idle"
    BY <2>1 DEF IInv, ProcessOK
  <2>3. task'[k].pc # "idle" =>
           task'[k].pc = "loop" /\ task'[k].todo = task[k].todo
    BY <1>1, <1>6, IdleTask DEF CronReap, Idle
  <2>4. task[k].todo \subseteq orders'
    <3>1. task[k].order \in orders /\ task[k].order \notin task[k].todo
          /\ task[k].todo \subseteq orders
      BY <2>1 DEF RunOK
    <3>2. \A o \in task[k].todo : heap[o].uid # heap[task[k].order].uid
      BY <3>1 DEF IInv, UniqueInMemory
    <3> QED
      BY <1>6, <3>1, <3>2 DEF CronReap
  <2> QED
    BY <1>2, <1>3, <2>1, <2>2, <2>3, <2>4 DEF RunOK, OnOrder
<1>7. CASE Tracked(k) \/ TrackFails(k) \/ FindPosition(k) \/ WritePosition(k)
           \/ SaveTracked(k)
  <2>1. /\ task[k].pc \in OnOrder /\ task[k].pc # "idle"
        /\ task'[k].todo = task[k].todo /\ task'[k].order = task[k].order
        /\ orders' = orders
    <3>1. orders' = orders
      BY <1>7 DEF Tracked, TrackFails, FindPosition, WritePosition,
                  SaveTracked, memory
    <3>2. CASE Tracked(k)
      BY <1>1, <3>1, <3>2 DEF Tracked, SetAndSave, OnOrder, TaskState
    <3>3. CASE TrackFails(k)
      BY <1>1, <3>1, <3>3 DEF TrackFails, OnOrder, TaskState
    <3>4. CASE FindPosition(k)
      BY <1>1, <3>1, <3>4 DEF FindPosition, OnOrder, TaskState
    <3>5. CASE WritePosition(k)
      BY <1>1, <3>1, <3>5 DEF WritePosition, OnOrder, TaskState
    <3>6. CASE SaveTracked(k)
      BY <1>1, <3>1, <3>6 DEF SaveTracked, OnOrder, TaskState
    <3> QED
      BY <1>7, <3>2, <3>3, <3>4, <3>5, <3>6
  <2> QED
    BY <1>2, <1>3, <1>u, <2>1, RunKept
<1> QED
  BY <1>2, <1>4, <1>5, <1>6, <1>7 DEF CronStep

LEMMA RunInit == ASSUME Init PROVE RunOK
<1>1. \A k \in Cron : task[k].pc = "idle"
  BY SetFacts, IdleTask DEF Init
<1> QED
  BY <1>1 DEF Init, RunOK

(* An object that a reap takes away has come to its end: it is the one the *)
(* run works on, since no other has its uid.                               *)
LEMMA RunStep ==
    ASSUME IInv, RunOK, [Next]_vars
    PROVE  RunOK' /\ \A o \in orders \ orders' : up' => IsTerminal(heap[o])
<1>1. ASSUME NEW c \in Call, PlaceStep(c) \/ \E u \in Uid : PlaceOrder(c, u)
      PROVE  RunOK' /\ orders \subseteq orders'
  BY <1>1, CallStepRuns
<1>2. ASSUME NEW t \in Task, SubmitStep(t) PROVE RunOK' /\ orders' = orders
  BY <1>2, SubmitStepRuns
<1>3. ASSUME NEW k \in Cron, CronTick(k) \/ CronStep(k)
      PROVE  RunOK' /\ \A o \in orders \ orders' : IsTerminal(heap[o])
  <2>1. RunOK' /\ (orders' # orders => CronReap(k))
    BY <1>3, CronStepRuns
  <2>2. CASE CronReap(k)
    <3>1. task[k].pc = "reap" /\ task[k].order \in orders
      BY <2>2 DEF CronReap, RunOK, OnOrder
    <3>2. \A o \in orders : heap[o].uid = heap[task[k].order].uid =>
             o = task[k].order
      BY <3>1 DEF IInv, UniqueInMemory
    <3>3. \A o \in orders \ orders' :
             /\ IsTerminal(heap[task[k].order])
             /\ heap[o].uid = heap[task[k].order].uid
      BY <2>2 DEF CronReap
    <3> QED
      BY <2>1, <3>2, <3>3
  <2> QED
    BY <2>1, <2>2
<1>4. ASSUME NEW x \in 1..Len(exch), ExchangeStep(x)
      PROVE  RunOK' /\ orders' = orders
  <2>1. UNCHANGED <<up, orders, task>>
    BY <1>4 DEF ExchangeStep, Fill, EndUnfilled, memory
  <2> QED
    BY <2>1 DEF RunOK
<1>5. CASE Crash
  <2>1. /\ up' = FALSE /\ orders' = {}
        /\ \A k \in Cron : task'[k].pc = "idle"
    BY <1>5, SetFacts, IdleTask DEF Crash
  <2> QED
    BY <2>1 DEF RunOK
<1>6. CASE Start
  <2>1. ~up /\ orders = {} /\ up' /\ task' = task
    BY <1>6 DEF Start, RunOK
  <2>2. \A k \in Cron : task'[k].pc = "idle"
    BY <2>1, SetFacts DEF IInv, ProcessOK, TasksOK, CronsOK, OnOrder
  <2> QED
    BY <2>1, <2>2 DEF RunOK
<1>7. CASE UNCHANGED vars
  BY <1>7 DEF vars, RunOK
<1> QED
  BY <1>1, <1>2, <1>3, <1>4, <1>5, <1>6, <1>7 DEF Next

(* An object leaves this.orders, while the process runs, only when it has  *)
(* reached the end of its life; the removal by uid in orderProcessor never *)
(* takes another order with it.                                            *)
THEOREM OrdersLeaveWhenEnded == Spec => LeavesOnlyWhenEnded
<1>1. Spec => [](IInv /\ RunOK)
  <2>1. IInv /\ RunOK /\ [Next]_vars => (IInv /\ RunOK)'
    BY NextOK, RunStep
  <2> QED
    BY InitOK, RunInit, <2>1, PTL DEF Spec
<1>2. IInv /\ RunOK /\ [Next]_vars
        => [\A o \in orders \ orders' : up' => IsTerminal(heap[o])]_vars
  BY RunStep
<1> QED
  BY <1>1, <1>2, PTL DEF Spec, LeavesOnlyWhenEnded

-----------------------------------------------------------------------------
(* Quiet schedules: every placement ends between two ticks.  A task is     *)
(* then alone with its object, and while it works on it the row of the     *)
(* object waits for it.                                                    *)
All == IInv /\ RunOK /\ QuietOK

-----------------------------------------------------------------------------
(* Lemmas about tasks and their objects *)

LEMMA Typing ==
    ASSUME IInv
    PROVE  /\ task \in [Task -> TaskState] /\ heap \in [Obj -> Order]
           /\ rows \in [Uid -> Order] /\ orders \subseteq Obj
           /\ exch \in Seq(ExchangeOrder)
           /\ faults \in [crash : Nat, db : Nat, net : Nat]
BY DEF IInv, TypeOK

LEMMA DoingFacts ==
    /\ Doing = {"quantity", "submit", "saveTry", "saveFailed", "track",
                "findPosition", "writePosition", "saveTracked"}
    /\ Doing \subseteq OnOrder
    /\ "idle" \notin OnOrder /\ "loop" \notin OnOrder /\ "reap" \in OnOrder
    /\ "create" \notin OnOrder /\ "find" \notin OnOrder /\ "done" \notin OnOrder
BY DEF Doing, OnOrder

(* A task at work has an object of its own, in this.orders.                *)
LEMMA AtWork ==
    ASSUME All, NEW t \in Task, Works(t)
    PROVE  /\ ObjOf(t) \in orders /\ ObjOf(t) \in Obj
           /\ up /\ heap[ObjOf(t)].uid \in Uid
           /\ t \in Cron => task[t].pc \in OnOrder /\ task[t].order = ObjOf(t)
           /\ t \in Call => t = ObjOf(t)
<1>1. CASE t \in Call
  <2>1. ObjOf(t) = t /\ t \in orders /\ t \in Obj
    BY <1>1, SetFacts DEF All, QuietOK, OneTaskOK, ObjOf
  <2>2. task[t].pc \notin {"idle", "done"}
    BY DoingFacts DEF Works
  <2>3. up /\ heap[t].uid \in Uid
    BY <2>1, <2>2 DEF All, IInv, ProcessOK, HeapOK, Placed
  <2>4. QED  BY <1>1, <2>1, <2>3, SetFacts
<1>2. CASE t \in Cron
  <2>1. task[t].pc \in OnOrder
    BY <1>2, DoingFacts DEF All, IInv, TasksOK, CronsOK, Works
  <2>2. t \notin Call /\ ObjOf(t) = task[t].order
    BY <1>2, SetFacts DEF ObjOf
  <2>3. ObjOf(t) \in orders
    BY <1>2, <2>1, <2>2, DoingFacts DEF All, RunOK
  <2>4. up
    BY <1>2, <2>1, DoingFacts DEF All, IInv, ProcessOK
  <2>5. ObjOf(t) \in Obj /\ heap[ObjOf(t)].uid \in Uid
    BY <2>3 DEF All, IInv, TypeOK, HeapOK, Placed
  <2>6. QED
    BY <1>2, <2>1, <2>2, <2>3, <2>4, <2>5
<1>3. QED  BY <1>1, <1>2 DEF Task

LEMMA Alone ==
    ASSUME All, NEW t \in Task, Works(t), NEW s \in Task, s # t,
           Works(s) \/ task[s].pc = "find"
    PROVE  ObjOf(s) # ObjOf(t) /\ ObjOf(s) \in Obj
<1>1. CASE Works(s)
  <2>1. ObjOf(s) \in Obj
    BY <1>1, AtWork
  <2>2. CASE s \in Call /\ t \in Call
    BY <2>1, <2>2 DEF ObjOf
  <2>3. CASE s \in Cron /\ t \in Cron
    BY <1>1, <2>3, AtWork, DoingFacts DEF All, IInv, ProcessOK
  <2>4. CASE s \in Cron /\ t \in Call
    <3>1. task[s].pc \in OnOrder /\ task[s].order = ObjOf(s) /\ ObjOf(t) = t
      BY <1>1, <2>4, AtWork
    <3>2. task[t].pc # "done"
      BY DoingFacts DEF Works
    <3>3. QED  BY <2>1, <2>4, <3>1, <3>2 DEF All, QuietOK, OneTaskOK
  <2>5. CASE s \in Call /\ t \in Cron
    <3>1. task[t].pc \in OnOrder /\ task[t].order = ObjOf(t) /\ ObjOf(s) = s
      BY <1>1, <2>5, AtWork
    <3>2. task[s].pc # "done"
      BY <1>1, DoingFacts DEF Works
    <3>3. QED  BY <2>1, <2>5, <3>1, <3>2 DEF All, QuietOK, OneTaskOK
  <2>6. QED  BY <2>2, <2>3, <2>4, <2>5 DEF Task
<1>2. CASE task[s].pc = "find"
  <2>1. s \in Call /\ ObjOf(s) = s /\ s \in Obj
    <3>1. s \notin Cron
      BY <1>2, DoingFacts DEF All, IInv, TasksOK, CronsOK
    <3>2. QED  BY <3>1, SetFacts DEF Task, ObjOf
  <2>2. t \in Cron => task[t].pc \in OnOrder /\ task[t].order = ObjOf(t)
    BY AtWork
  <2>3. t \in Call => ObjOf(t) = t
    BY AtWork
  <2>4. QED
    BY <1>2, <2>1, <2>2, <2>3 DEF Task, All, QuietOK, OneTaskOK
<1>3. QED  BY <1>1, <1>2

(* Hence two tasks at work are at two rows.                                *)
LEMMA OwnRow ==
    ASSUME All, NEW t \in Task, Works(t), NEW o \in orders, o # ObjOf(t)
    PROVE  heap[o].uid # heap[ObjOf(t)].uid
BY AtWork DEF All, IInv, UniqueInMemory

-----------------------------------------------------------------------------
(* A task at work takes a step with its object h and comes to state s.     *)

Local(t, s, h) ==
    /\ task' = [task EXCEPT ![t] = s]
    /\ heap' = [heap EXCEPT ![ObjOf(t)] = h]
    /\ h.uid = heap[ObjOf(t)].uid
    /\ UNCHANGED <<up, orders>> /\ faults'.crash = faults.crash

Onwards(t, s, h) ==
    /\ t \in Call => s.pc \in Doing \cup {"done"}
    /\ t \in Cron => \/ s.pc = "idle"
                     \/ s.pc \in OnOrder /\ s.order = task[t].order /\ s.todo = task[t].todo
    /\ s.pc # "track"
    /\ s.pc \in {"quantity", "submit"} => h.status = "new"
    /\ s.pc \in Writing => s.row = h

Submits(t, h) ==
    /\ exch' # exch => heap[ObjOf(t)].status = "new" /\ ~Unsubmitted(h)
    /\ Unsubmitted(h) => Unsubmitted(heap[ObjOf(t)])
    /\ \/ exch' = exch
       \/ \E x : exch' = Append(exch, x) /\ x.by = ObjOf(t) /\ x.life = faults.crash

Saves(t, s, h) ==
    /\ \A u \in Uid : u # h.uid => rows'[u] = rows[u]
    /\ s.pc \in Doing => IsActive(rows'[h.uid])
    /\ s.pc \notin Doing => (IsActive(rows'[h.uid]) <=> ~IsTerminal(h))

LEMMA LocalFrame ==
    ASSUME All, NEW t \in Task, Works(t), NEW s, NEW h, Local(t, s, h)
    PROVE  /\ task'[t] = s /\ \A r \in Task : r # t => task'[r] = task[r]
           /\ heap'[ObjOf(t)] = h
           /\ \A o \in Obj : o # ObjOf(t) => heap'[o] = heap[o]
           /\ \A r \in Task : r # t => ObjOf(r)' = ObjOf(r)
BY AtWork, Typing DEF All, Local, ObjOf

LEMMA LocalOneTask ==
    ASSUME All, NEW t \in Task, Works(t), NEW s, NEW h, Local(t, s, h),
           Onwards(t, s, h)
    PROVE  OneTaskOK'
<1>1. task'[t] = s /\ \A r \in Task : r # t => task'[r] = task[r]
  BY LocalFrame
<1>2. orders' = orders
  BY DEF Local
<1>3. OneTaskOK
  BY DEF All, QuietOK
<1>4. ASSUME NEW k \in Cron, NEW o \in Call,
             \/ task'[k].pc # "idle" /\ o \in task'[k].todo
             \/ task'[k].pc \in OnOrder /\ task'[k].order = o
      PROVE  task'[o].pc = "done"
  <2>1. \/ task[k].pc # "idle" /\ o \in task[k].todo
        \/ task[k].pc \in OnOrder /\ task[k].order = o
    <3>1. CASE k = t
      BY <1>1, <1>4, <3>1, AtWork, DoingFacts DEF Onwards
    <3>2. CASE k # t
      BY <1>1, <1>4, <3>2, SetFacts
    <3>3. QED  BY <3>1, <3>2
  <2>2. task[o].pc = "done"
    BY <1>3, <2>1 DEF OneTaskOK
  <2>3. o # t
    BY <2>2, DoingFacts DEF Works
  <2>4. QED  BY <1>1, <2>2, <2>3, SetFacts
<1>5. ASSUME NEW c \in Call, c \in orders' PROVE task'[c].pc \notin {"idle", "find"}
  <2>1. CASE c = t
    BY <1>1, <2>1, DoingFacts DEF Onwards
  <2>2. CASE c # t
    BY <1>1, <1>2, <1>3, <1>5, <2>2, SetFacts DEF OneTaskOK
  <2>3. QED  BY <2>1, <2>2
<1>6. ASSUME NEW c \in Call, Works(c)' PROVE c \in orders'
  <2>1. CASE c = t
    BY <1>2, <2>1, AtWork
  <2>2. CASE c # t
    BY <1>1, <1>2, <1>3, <1>6, <2>2, SetFacts DEF OneTaskOK, Works
  <2>3. QED  BY <2>1, <2>2
<1>7. QED  BY <1>4, <1>5, <1>6 DEF OneTaskOK

LEMMA LocalAhead ==
    ASSUME All, NEW t \in Task, Works(t), NEW s, NEW h, Local(t, s, h),
           Onwards(t, s, h)
    PROVE  AheadOK'
<1>1. /\ task'[t] = s /\ \A r \in Task : r # t => task'[r] = task[r]
      /\ heap'[ObjOf(t)] = h
      /\ \A o \in Obj : o # ObjOf(t) => heap'[o] = heap[o]
      /\ \A r \in Task : r # t => ObjOf(r)' = ObjOf(r)
  BY LocalFrame
<1>2. AheadOK
  BY DEF All, QuietOK
<1>3. t \in Call \/ t \in Cron
  BY DEF Task
<1>4. s.pc \in OnOrder \cup {"done", "idle"}
  BY <1>3, DoingFacts DEF Onwards
<1>5. ObjOf(t)' = ObjOf(t) \/ s.pc \in {"done", "idle"}
  BY <1>1, <1>3, DoingFacts, AtWork DEF Onwards, ObjOf
<1>6. ASSUME NEW r \in Task, r # t, Works(r) \/ task[r].pc = "find"
      PROVE  heap'[ObjOf(r)'] = heap[ObjOf(r)]
  BY <1>1, <1>6, Alone
<1>7. ASSUME NEW c \in Call, task'[c].pc = "find" PROVE Unsubmitted(heap'[c])
  <2>1. c # t
    BY <1>1, <1>4, <1>7, DoingFacts
  <2>2. task[c].pc = "find" /\ c \in Task /\ ObjOf(c)' = c /\ ObjOf(c) = c
    BY <1>1, <1>7, <2>1, SetFacts DEF ObjOf
  <2>3. QED  BY <1>2, <1>6, <2>1, <2>2 DEF AheadOK
<1>8. ASSUME NEW r \in Task, task'[r].pc \in {"create", "quantity", "submit"}
      PROVE  heap'[ObjOf(r)'].status = "new"
  <2>1. CASE r = t
    <3>1. s.pc \in {"quantity", "submit"}
      BY <1>1, <1>4, <1>8, <2>1, DoingFacts
    <3>2. QED  BY <1>1, <1>5, <2>1, <3>1 DEF Onwards
  <2>2. CASE r # t
    <3>1. Works(r) /\ task[r].pc \in {"create", "quantity", "submit"}
      BY <1>1, <1>8, <2>2, DoingFacts DEF Works
    <3>2. QED  BY <1>2, <1>6, <2>2, <3>1 DEF AheadOK
  <2>3. QED  BY <2>1, <2>2
<1>9. ASSUME NEW r \in Task, task'[r].pc \in Writing
      PROVE  task'[r].row = heap'[ObjOf(r)']
  <2>1. CASE r = t
    BY <1>1, <1>5, <1>9, <2>1 DEF Onwards, Writing
  <2>2. CASE r # t
    <3>1. Works(r) /\ task[r].pc \in Writing
      BY <1>1, <1>9, <2>2, DoingFacts DEF Works, Writing
    <3>2. QED  BY <1>1, <1>2, <1>6, <2>2, <3>1 DEF AheadOK
  <2>3. QED  BY <2>1, <2>2
<1>10. ASSUME NEW k \in Cron, task'[k].pc = "track"
       PROVE  heap'[task'[k].order].status = "pending"
  <2>1. k # t /\ k \in Task
    BY <1>1, <1>10, SetFacts DEF Onwards
  <2>2. task[k].pc = "track" /\ task'[k] = task[k] /\ Works(k)
    BY <1>1, <1>10, <2>1, DoingFacts DEF Works
  <2>3. ObjOf(k)' = task[k].order /\ ObjOf(k) = task[k].order
    BY <2>1, <2>2, SetFacts DEF ObjOf
  <2>4. QED  BY <1>2, <1>6, <2>1, <2>2, <2>3 DEF AheadOK
<1>11. QED  BY <1>7, <1>8, <1>9, <1>10 DEF AheadOK

LEMMA LocalSent ==
    ASSUME All, NEW t \in Task, Works(t), NEW s, NEW h, Local(t, s, h), Submits(t, h)
    PROVE  SentOK'
<1>1. /\ heap'[ObjOf(t)] = h
      /\ \A o \in Obj : o # ObjOf(t) => heap'[o] = heap[o]
  BY LocalFrame
<1>2. /\ SentOK /\ exch \in Seq(ExchangeOrder) /\ faults.crash \in Nat
      /\ \A x \in 1..Len(exch) : exch[x].by \in Obj /\ exch[x].life \in Nat
  <2>1. \A x \in 1..Len(exch) : exch[x] \in ExchangeOrder
    BY Typing DEF All
  <2>2. QED  BY <2>1, Typing DEF All, QuietOK, ExchangeOrder
<1>3. up /\ up' = up /\ faults'.crash = faults.crash /\ ObjOf(t) \in Obj
  BY AtWork DEF Local
<1>4. ASSUME NEW o \in Obj, Unsubmitted(heap'[o]) PROVE Unsubmitted(heap[o])
  BY <1>1, <1>4 DEF Submits
<1>5. CASE exch' = exch
  BY <1>2, <1>3, <1>4, <1>5 DEF SentOK, SubmittedOnce
<1>6. ASSUME NEW x, exch' = Append(exch, x), x.by = ObjOf(t), x.life = faults.crash,
             exch' # exch
      PROVE  SentOK'
  <2> DEFINE n == Len(exch) + 1
  <2>1. /\ Len(exch') = n /\ n \in Nat /\ exch'[n] = x
        /\ \A y \in 1..Len(exch) : exch'[y] = exch[y]
        /\ Len(exch) \in Nat
    BY <1>2, <1>6
  <2>2. \A y \in 1..Len(exch') : y = n \/ y \in 1..Len(exch)
    BY <2>1
  <2> HIDE DEF n
  <2>3. heap[ObjOf(t)].status = "new" /\ ~Unsubmitted(h)
    BY <1>6 DEF Submits
  <2>4. \A y \in 1..Len(exch) : exch[y].life = faults.crash => exch[y].by # ObjOf(t)
    BY <1>2, <2>3 DEF SentOK, Unsubmitted
  <2>5. SubmittedOnce'
    BY <1>2, <1>6, <2>1, <2>2, <2>4 DEF SentOK, SubmittedOnce
  <2>6. \A y \in 1..Len(exch') : /\ exch'[y].life <= faults'.crash
                                 /\ exch'[y].life = faults'.crash =>
                                       ~Unsubmitted(heap'[exch'[y].by])
    BY <1>1, <1>2, <1>3, <1>4, <1>6, <2>1, <2>2, <2>3 DEF SentOK
  <2>7. QED  BY <1>3, <2>5, <2>6 DEF SentOK
<1>7. QED  BY <1>5, <1>6 DEF Submits

LEMMA LocalRows ==
    ASSUME All, NEW t \in Task, Works(t), NEW s, NEW h, Local(t, s, h),
           Onwards(t, s, h), RowsFollow, Saves(t, s, h)
    PROVE  RowsFollow'
<1>1. /\ task'[t] = s /\ \A r \in Task : r # t => task'[r] = task[r]
      /\ heap'[ObjOf(t)] = h
      /\ \A o \in Obj : o # ObjOf(t) => heap'[o] = heap[o]
      /\ \A r \in Task : r # t => ObjOf(r)' = ObjOf(r)
  BY LocalFrame
<1>2. /\ orders' = orders /\ ObjOf(t) \in orders /\ orders \subseteq Obj
      /\ h.uid = heap[ObjOf(t)].uid /\ h.uid \in Uid /\ up /\ up'
  BY AtWork, Typing DEF Local, All
<1>3. s.pc \in Doing => ObjOf(t)' = ObjOf(t)
  BY <1>1, AtWork, DoingFacts DEF Onwards, ObjOf, Task
<1>4. s.pc # "create"
  BY DoingFacts DEF Onwards, Task
<1>5. ASSUME NEW o \in orders, o # ObjOf(t)
      PROVE  heap'[o] = heap[o] /\ rows'[heap[o].uid] = rows[heap[o].uid]
  <2>1. heap[o].uid # h.uid /\ heap[o].uid \in Uid
    BY <1>2, <1>5, OwnRow DEF All, IInv, HeapOK, Placed
  <2>2. QED  BY <1>1, <1>2, <2>1 DEF Saves
<1>6. ASSUME NEW r \in Task, task'[r].pc \in Doing
      PROVE  IsActive(rows'[heap'[ObjOf(r)'].uid])
  <2>1. CASE r = t
    BY <1>1, <1>3, <1>6, <2>1 DEF Saves
  <2>2. CASE r # t
    <3>1. Works(r) /\ ObjOf(r)' = ObjOf(r) /\ task[r].pc \in Doing
      BY <1>1, <1>6, <2>2 DEF Works
    <3>2. ObjOf(r) \in orders /\ ObjOf(r) # ObjOf(t)
      BY <2>2, <3>1, AtWork, Alone
    <3>3. QED  BY <1>5, <3>1, <3>2 DEF RowsFollow
  <2>3. QED  BY <2>1, <2>2
<1>7. ASSUME NEW o \in orders', ~Busy(o)'
      PROVE  IsActive(rows'[heap'[o].uid]) <=> ~IsTerminal(heap'[o])
  <2>1. CASE o = ObjOf(t)
    <3>1. s.pc \notin Doing
      BY <1>1, <1>3, <1>7, <2>1 DEF Busy, Works
    <3>2. QED  BY <1>1, <2>1, <3>1 DEF Saves
  <2>2. CASE o # ObjOf(t)
    <3>1. ~Busy(o)
      BY <1>1, <1>7, <2>2 DEF Busy, Works
    <3>2. QED  BY <1>2, <1>5, <1>7, <2>2, <3>1 DEF RowsFollow
  <2>3. QED  BY <2>1, <2>2
<1>8. ActiveRowIsTracked'
  <2>1. ASSUME NEW u \in Uid, IsActive(rows'[u]) PROVE \E o \in orders' : heap'[o].uid = u
    <3>1. CASE u = h.uid
      BY <1>1, <1>2, <3>1
    <3>2. CASE u # h.uid
      <4>1. IsActive(rows[u])
        BY <2>1, <3>2 DEF Saves
      <4>2. PICK o \in orders : heap[o].uid = u
        BY <1>2, <4>1 DEF RowsFollow, ActiveRowIsTracked, ActiveRows
      <4>3. o # ObjOf(t)
        BY <1>2, <3>2, <4>2
      <4>4. QED  BY <1>2, <1>5, <4>2, <4>3
    <3>3. QED  BY <3>1, <3>2
  <2>2. QED  BY <2>1 DEF ActiveRowIsTracked, ActiveRows
<1>9. QED  BY <1>6, <1>7, <1>8 DEF RowsFollow

LEMMA LocalOK ==
    ASSUME All, NEW t \in Task, Works(t), NEW s, NEW h, Local(t, s, h),
           Onwards(t, s, h), Submits(t, h), MaxDbFaults = 0 => Saves(t, s, h)
    PROVE  QuietOK'
<1>1. OneTaskOK' /\ AheadOK' /\ SentOK'
  BY LocalOneTask, LocalAhead, LocalSent
<1>2. MaxDbFaults = 0 => RowsFollow'
  BY LocalRows DEF All, QuietOK
<1>3. QED  BY <1>1, <1>2 DEF QuietOK

-----------------------------------------------------------------------------
(* The steps of a task at work *)

(* What a step that writes no row needs of it.                             *)
LEMMA NoSave ==
    ASSUME All, RowsFollow, NEW t \in Task, task[t].pc \in Doing, NEW s, NEW h,
           Local(t, s, h), rows' = rows,
           s.pc \in Doing \/ ~IsTerminal(h)
    PROVE  Saves(t, s, h)
BY DEF Saves, Local, RowsFollow

(* What a step that saves the object needs of it.                          *)
LEMMA Saving ==
    ASSUME All, RowsFollow, NEW t \in Task, task[t].pc \in Doing, NEW s, NEW h,
           Local(t, s, h), task[t].pc \in Writing, h = heap[ObjOf(t)],
           rows' = Updated(task[t].row), s.pc \notin Doing
    PROVE  Saves(t, s, h)
<1>1. task[t].row = h /\ h.uid \in Uid /\ h \in Order /\ h.status # "none"
  <2>1. Works(t)
    BY DEF Works
  <2>2. task[t].row = h /\ Placed(h)
    BY DEF All, QuietOK, AheadOK, IInv, TasksOK, WritesOK
  <2>3. QED  BY <2>1, <2>2, AtWork, Typing DEF All, Placed
<1>2. IsActive(rows[h.uid])
  BY DEF RowsFollow
<1>3. rows' = Saved(h)
  BY <1>1, <1>2 DEF Updated, IsActive
<1>4. /\ rows'[h.uid] = Merge(rows[h.uid], h)
      /\ \A u \in Uid : u # h.uid => rows'[u] = rows[u]
  BY <1>1, <1>3, Typing DEF Saved, All
<1>5. rows'[h.uid].status = h.status
  BY <1>1, <1>4 DEF Merge, Order
<1>6. IsActive(rows'[h.uid]) <=> ~IsTerminal(h)
  BY <1>1, <1>5 DEF IsActive, IsTerminal, Order, Statuses
<1>7. QED  BY <1>4, <1>6 DEF Saves

(* The object is left as it is.                                            *)
LEMMA HeapSame ==
    ASSUME All, NEW t \in Task, Works(t), heap' = heap
    PROVE  heap' = [heap EXCEPT ![ObjOf(t)] = heap[ObjOf(t)]]
BY AtWork, Typing DEF All

LEMMA CreateQuiet == ASSUME All, NEW c \in Call, Create(c) PROVE QuietOK'
<1> DEFINE s == [task[c] EXCEPT !.pc = "quantity", !.row = Blank]
           h == heap[c]
<1>1. /\ task[c].pc = "create" /\ rows' = Saved(task[c].row)
      /\ task' = [task EXCEPT ![c] = s] /\ heap' = heap
      /\ UNCHANGED <<up, orders, exch, faults>>
  BY DEF Create, memory
<1>2. c \in Task /\ Works(c) /\ ObjOf(c) = c /\ c \notin Cron
  BY <1>1, SetFacts DEF Works, ObjOf
<1>3. s.pc = "quantity"
  BY <1>2, Typing DEF All, TaskState
<1>4. h.status = "new" /\ task[c].row = h /\ h.uid \in Uid /\ h \in Order
  BY <1>1, <1>2, AtWork, Typing DEF All, QuietOK, AheadOK, Writing
<1> HIDE DEF s, h
<1>5. Local(c, s, h)
  BY <1>1, <1>2, HeapSame DEF Local, h
<1>6. Onwards(c, s, h)
  BY <1>2, <1>3, <1>4, DoingFacts DEF Onwards, Writing
<1>7. Submits(c, h)
  BY <1>1, <1>2 DEF Submits, h
<1>8. Saves(c, s, h)
  <2>1. /\ rows'[h.uid] = Merge(rows[h.uid], h)
        /\ \A u \in Uid : u # h.uid => rows'[u] = rows[u]
    BY <1>1, <1>4, Typing DEF Saved, All
  <2>2. IsActive(rows'[h.uid])
    BY <1>4, <2>1 DEF Merge, Order, IsActive
  <2>3. QED  BY <1>3, <2>1, <2>2, DoingFacts DEF Saves
<1>9. QED  BY <1>2, <1>5, <1>6, <1>7, <1>8, LocalOK

(* Where a task that goes on goes to.                                      *)
LEMMA GoesOn ==
    ASSUME All, NEW t \in Task, Works(t), NEW s, NEW h,
           s.order = task[t].order, s.todo = task[t].todo,
           \/ s.pc \in {"quantity", "submit"} /\ h.status = "new"
           \/ s.pc \in {"saveTry", "saveFailed"} /\ s.row = h
           \/ t \in Cron /\ s.pc \in {"findPosition", "writePosition", "reap"}
           \/ t \in Cron /\ s.pc = "saveTracked" /\ s.row = h
    PROVE  Onwards(t, s, h)
<1>1. t \in Cron => t \notin Call
  BY SetFacts
<1>2. QED  BY <1>1, DoingFacts DEF Onwards, Writing, OnOrder

(* order.status = st, and the update of the row is issued at l.            *)
LEMMA SetAndSaveQuiet ==
    ASSUME All, NEW t \in Task, task[t].pc \in Doing,
           NEW st \in {"failed", "cancelled"}, NEW l, SetAndSave(t, st, l),
           \/ l \in {"saveTry", "saveFailed"}
           \/ t \in Cron /\ l = "saveTracked",
           UNCHANGED <<up, orders, rows>>, faults'.crash = faults.crash,
           \/ exch' = exch
           \/ task[t].pc = "submit" /\ NewExchangeOrder(t)
    PROVE  QuietOK'
<1> DEFINE h == [heap[ObjOf(t)] EXCEPT !.status = st]
           s == [task[t] EXCEPT !.pc = l, !.row = h]
<1>1. Works(t) /\ ObjOf(t) \in Obj /\ heap[ObjOf(t)] \in Order /\ task[t] \in TaskState
  BY AtWork, Typing DEF All, Works
<1>2. h.status = st /\ h.uid = heap[ObjOf(t)].uid
  BY <1>1 DEF Order
<1>3. heap' = [heap EXCEPT ![ObjOf(t)] = h]
  BY DEF SetAndSave
<1>4. heap'[ObjOf(t)] = h
  BY <1>1, <1>3, Typing DEF All
<1> HIDE DEF h
<1>5. task' = [task EXCEPT ![t] = s]
  <2>1. task' = [task EXCEPT ![t].pc = l, ![t].row = heap'[ObjOf(t)]]
    BY DEF SetAndSave
  <2>2. QED  BY <1>4, <2>1
<1>6. s.pc = l /\ s.row = h /\ s.order = task[t].order /\ s.todo = task[t].todo
  BY <1>1 DEF TaskState
<1> HIDE DEF s
<1>7. Local(t, s, h)
  BY <1>2, <1>3, <1>5 DEF Local
<1>8. Onwards(t, s, h)
  BY <1>1, <1>6, GoesOn
<1>9. Submits(t, h)
  <2>1. ~Unsubmitted(h)
    BY <1>2 DEF Unsubmitted
  <2>2. task[t].pc = "submit" => heap[ObjOf(t)].status = "new"
    BY DEF All, QuietOK, AheadOK
  <2>3. CASE exch' = exch
    BY <2>1, <2>3 DEF Submits
  <2>4. CASE task[t].pc = "submit" /\ NewExchangeOrder(t)
    <3>1. \E x : exch' = Append(exch, x) /\ x.by = ObjOf(t) /\ x.life = faults.crash
      BY <2>4 DEF NewExchangeOrder
    <3>2. QED  BY <2>1, <2>2, <2>4, <3>1 DEF Submits
  <2>5. QED  BY <2>3, <2>4
<1>10. MaxDbFaults = 0 => Saves(t, s, h)
  BY <1>6, <1>7, NoSave, DoingFacts DEF All, QuietOK
<1>11. QED  BY <1>1, <1>7, <1>8, <1>9, <1>10, LocalOK

(* A step that leaves the object alone and writes no row.                  *)
LEMMA PassingQuiet ==
    ASSUME All, NEW t \in Task, task[t].pc \in Doing, NEW s,
           task' = [task EXCEPT ![t] = s], heap' = heap,
           UNCHANGED <<up, orders, rows, exch>>, faults'.crash = faults.crash,
           Onwards(t, s, heap[ObjOf(t)]),
           MaxDbFaults = 0 => s.pc \in Doing \/ ~IsTerminal(heap[ObjOf(t)])
    PROVE  QuietOK'
<1> DEFINE h == heap[ObjOf(t)]
<1>1. Works(t)
  BY DEF Works
<1>2. Local(t, s, h)
  BY <1>1, HeapSame DEF Local
<1>3. Submits(t, h)
  BY DEF Submits
<1>4. MaxDbFaults = 0 => Saves(t, s, h)
  BY <1>2, NoSave DEF All, QuietOK
<1>5. QED  BY <1>1, <1>2, <1>3, <1>4, LocalOK

(* A step that saves the object.                                           *)
LEMMA SavingQuiet ==
    ASSUME All, NEW t \in Task, task[t].pc \in Doing \cap Writing, NEW s,
           task' = [task EXCEPT ![t] = s], heap' = heap, rows' = Updated(task[t].row),
           UNCHANGED <<up, orders, exch, faults>>,
           Onwards(t, s, heap[ObjOf(t)]), s.pc \notin Doing
    PROVE  QuietOK'
<1> DEFINE h == heap[ObjOf(t)]
<1>1. Works(t)
  BY DEF Works
<1>2. Local(t, s, h)
  BY <1>1, HeapSame DEF Local
<1>3. Submits(t, h)
  BY DEF Submits
<1>4. MaxDbFaults = 0 => Saves(t, s, h)
  BY <1>2, Saving DEF All, QuietOK
<1>5. QED  BY <1>1, <1>2, <1>3, <1>4, LocalOK

LEMMA CalculateQuantityQuiet ==
    ASSUME All, NEW t \in Task, CalculateQuantity(t) PROVE QuietOK'
<1>1. /\ task[t].pc = "quantity" /\ task[t].pc \in Doing
      /\ UNCHANGED <<up, orders, rows, exch, faults>>
  BY DoingFacts DEF CalculateQuantity, memory
<1>2. CASE SetAndSave(t, "failed", "saveTry") \/ SetAndSave(t, "failed", "saveFailed")
  BY <1>1, <1>2, SetAndSaveQuiet
<1>3. CASE task' = [task EXCEPT ![t].pc = "submit"] /\ heap' = heap
  <2> DEFINE s == [task[t] EXCEPT !.pc = "submit"]
  <2>1. /\ task' = [task EXCEPT ![t] = s]
        /\ s.pc = "submit" /\ s.order = task[t].order /\ s.todo = task[t].todo
    BY <1>3, Typing DEF All, TaskState
  <2> HIDE DEF s
  <2>2. heap[ObjOf(t)].status = "new" /\ Works(t)
    BY <1>1 DEF All, QuietOK, AheadOK, Works
  <2>3. Onwards(t, s, heap[ObjOf(t)])
    BY <2>1, <2>2, GoesOn
  <2>4. QED  BY <1>1, <1>3, <2>1, <2>3, DoingFacts, PassingQuiet
<1>4. QED  BY <1>2, <1>3 DEF CalculateQuantity

LEMMA AcceptedQuiet == ASSUME All, NEW t \in Task, Accepted(t) PROVE QuietOK'
<1> DEFINE h == [heap[ObjOf(t)] EXCEPT !.ext = Len(exch'), !.status = "pending"]
           s == [task[t] EXCEPT !.pc = "saveTry", !.row = h]
<1>1. /\ task[t].pc = "submit" /\ task[t].pc \in Doing /\ NewExchangeOrder(t)
      /\ UNCHANGED <<up, orders, rows, faults>>
      /\ heap' = [heap EXCEPT ![ObjOf(t)] = h]
      /\ task' = [task EXCEPT ![t].pc = "saveTry", ![t].row = heap'[ObjOf(t)]]
  BY DoingFacts DEF Accepted, memory, Submitted
<1>2. Works(t) /\ ObjOf(t) \in Obj /\ heap[ObjOf(t)] \in Order /\ task[t] \in TaskState
  BY <1>1, AtWork, Typing DEF All, Works
<1>3. h.status = "pending" /\ h.uid = heap[ObjOf(t)].uid
  BY <1>2 DEF Order
<1>4. heap'[ObjOf(t)] = h
  BY <1>1, <1>2, Typing DEF All
<1> HIDE DEF h
<1>5. task' = [task EXCEPT ![t] = s]
  BY <1>1, <1>4
<1>6. s.pc = "saveTry" /\ s.row = h /\ s.order = task[t].order /\ s.todo = task[t].todo
  BY <1>2 DEF TaskState
<1> HIDE DEF s
<1>7. Local(t, s, h)
  BY <1>1, <1>3, <1>5 DEF Local
<1>8. Onwards(t, s, h)
  BY <1>2, <1>6, GoesOn
<1>9. Submits(t, h)
  <2>1. ~Unsubmitted(h) /\ heap[ObjOf(t)].status = "new"
    BY <1>1, <1>3 DEF Unsubmitted, All, QuietOK, AheadOK
  <2>2. \E x : exch' = Append(exch, x) /\ x.by = ObjOf(t) /\ x.life = faults.crash
    BY <1>1 DEF NewExchangeOrder
  <2>3. QED  BY <2>1, <2>2 DEF Submits
<1>10. MaxDbFaults = 0 => Saves(t, s, h)
  BY <1>1, <1>6, <1>7, NoSave, DoingFacts DEF All, QuietOK
<1>11. QED  BY <1>2, <1>7, <1>8, <1>9, <1>10, LocalOK

LEMMA SaveSubmittedQuiet == ASSUME All, NEW t \in Task, SaveSubmitted(t) PROVE QuietOK'
<1> DEFINE a == AfterSubmit(t)
           s == [a EXCEPT !.row = Blank]
<1>1. /\ task[t].pc \in Doing \cap Writing /\ rows' = Updated(task[t].row)
      /\ task' = [task EXCEPT ![t] = s]
      /\ UNCHANGED <<up, orders, heap, exch, faults>>
  BY DoingFacts DEF SaveSubmitted, memory, Writing
<1>2. t \in Call => a = Done
  BY DEF AfterSubmit
<1>3. t \in Cron => a.pc = "reap" /\ a.order = task[t].order /\ a.todo = task[t].todo
                    /\ a \in TaskState
  <2>1. t \in Cron => a = [task[t] EXCEPT !.pc = "reap"]
    BY SetFacts DEF AfterSubmit
  <2>2. task[t] \in TaskState
    BY Typing DEF All
  <2>3. QED  BY <2>1, <2>2, LocationFacts DEF TaskState
<1> HIDE DEF a
<1>4. a \in TaskState
  BY <1>2, <1>3, IdleTask DEF Task
<1>5. s.pc = a.pc /\ s.order = a.order /\ s.todo = a.todo
  BY <1>4 DEF TaskState
<1> HIDE DEF s
<1>6. s.pc \notin Doing
  BY <1>2, <1>3, <1>5, IdleTask, DoingFacts DEF Task
<1>7. Onwards(t, s, heap[ObjOf(t)])
  <2>1. CASE t \in Call
    BY <1>2, <1>5, <2>1, IdleTask, SetFacts DEF Onwards, Writing
  <2>2. CASE t \in Cron
    BY <1>1, <1>3, <1>5, <2>2, GoesOn DEF Works
  <2>3. QED  BY <2>1, <2>2 DEF Task
<1>8. QED  BY <1>1, <1>6, <1>7, SavingQuiet


LEMMA RefusedQuiet ==
    ASSUME All, NEW t \in Task, Refused(t) \/ AcceptanceLost(t) PROVE QuietOK'
<1>1. /\ task[t].pc = "submit" /\ task[t].pc \in Doing
      /\ SetAndSave(t, "failed", "saveFailed")
      /\ UNCHANGED <<up, orders, rows>>
      /\ exch' = exch \/ NewExchangeOrder(t)
  BY DoingFacts DEF Refused, AcceptanceLost, memory
<1>2. faults'.crash = faults.crash
  BY Typing DEF Refused, AcceptanceLost, NetFault, All
<1>3. QED  BY <1>1, <1>2, SetAndSaveQuiet

(* What the exchange said of the order is noted in the object.             *)
LEMMA NotedQuiet ==
    ASSUME All, NEW k \in Cron, task[k].pc = "track",
           NEW h, h.uid = heap[ObjOf(k)].uid, h.status \in {"pending", "completed"},
           heap' = [heap EXCEPT ![ObjOf(k)] = h],
           NEW s, task' = [task EXCEPT ![k] = s],
           s.order = task[k].order, s.todo = task[k].todo,
           s.pc = "findPosition" \/ (s.pc = "saveTracked" /\ s.row = h),
           UNCHANGED <<up, orders, rows, exch, faults>>
    PROVE  QuietOK'
<1>1. k \in Task /\ Works(k) /\ task[k].pc \in Doing
  BY SetFacts, DoingFacts DEF Works
<1>2. Local(k, s, h)
  BY DEF Local
<1>3. Onwards(k, s, h)
  BY <1>1, GoesOn
<1>4. Submits(k, h)
  BY DEF Submits, Unsubmitted
<1>5. MaxDbFaults = 0 => Saves(k, s, h)
  BY <1>1, <1>2, NoSave, DoingFacts DEF All, QuietOK
<1>6. QED  BY <1>1, <1>2, <1>3, <1>4, <1>5, LocalOK

LEMMA TrackedQuiet == ASSUME All, NEW k \in Cron, Tracked(k) PROVE QuietOK'
<1> DEFINE o == task[k].order
           x == exch[task[k].ext]
<1>1. /\ task[k].pc = "track" /\ task[k].pc \in Doing /\ k \in Task
      /\ UNCHANGED <<up, orders, rows, exch, faults>>
  BY DoingFacts, SetFacts DEF Tracked, memory
<1>2. Works(k) /\ ObjOf(k) = o /\ o \in Obj /\ heap[o] \in Order /\ task[k] \in TaskState
  BY <1>1, AtWork, Typing DEF All, Works
<1>3. heap[o].status = "pending"
  BY <1>1 DEF All, QuietOK, AheadOK
<1>4. CASE /\ heap' = [heap EXCEPT ![o].status = "completed", ![o].filled = x.filled]
           /\ task' = [task EXCEPT ![k].pc = "findPosition"]
  <2> DEFINE h == [heap[o] EXCEPT !.status = "completed", !.filled = x.filled]
             s == [task[k] EXCEPT !.pc = "findPosition"]
  <2>1. heap' = [heap EXCEPT ![ObjOf(k)] = h] /\ task' = [task EXCEPT ![k] = s]
    BY <1>2, <1>4
  <2>2. h.uid = heap[ObjOf(k)].uid /\ h.status = "completed"
    BY <1>2 DEF Order
  <2>3. s.pc = "findPosition" /\ s.order = task[k].order /\ s.todo = task[k].todo
    BY <1>2 DEF TaskState
  <2> HIDE DEF h, s
  <2>4. QED  BY <1>1, <2>1, <2>2, <2>3, NotedQuiet
<1>5. CASE SetAndSave(k, "cancelled", "saveTracked")
  BY <1>1, <1>5, SetAndSaveQuiet
<1>6. CASE /\ heap' = [heap EXCEPT ![o].filled = x.filled]
           /\ task' = [task EXCEPT ![k].pc = "saveTracked", ![k].row = heap'[o]]
  <2> DEFINE h == [heap[o] EXCEPT !.filled = x.filled]
             s == [task[k] EXCEPT !.pc = "saveTracked", !.row = h]
  <2>1. heap' = [heap EXCEPT ![ObjOf(k)] = h]
    BY <1>2, <1>6
  <2>2. h.uid = heap[ObjOf(k)].uid /\ h.status = "pending"
    BY <1>2, <1>3 DEF Order
  <2>3. heap'[o] = h
    BY <1>2, <2>1, Typing DEF All
  <2> HIDE DEF h
  <2>4. task' = [task EXCEPT ![k] = s]
    <3>1. task' = [task EXCEPT ![k].pc = "saveTracked", ![k].row = h]
      BY <1>6, <2>3
    <3>2. QED  BY <3>1
  <2>5. /\ s.pc = "saveTracked" /\ s.row = h
        /\ s.order = task[k].order /\ s.todo = task[k].todo
    BY <1>2 DEF TaskState
  <2> HIDE DEF s
  <2>6. QED  BY <1>1, <2>1, <2>2, <2>4, <2>5, NotedQuiet
<1>7. CASE task' = [task EXCEPT ![k].pc = "reap"] /\ heap' = heap
  <2> DEFINE s == [task[k] EXCEPT !.pc = "reap"]
  <2>1. /\ task' = [task EXCEPT ![k] = s]
        /\ s.pc = "reap" /\ s.order = task[k].order /\ s.todo = task[k].todo
    BY <1>2, <1>7 DEF TaskState
  <2> HIDE DEF s
  <2>2. Onwards(k, s, heap[ObjOf(k)]) /\ ~IsTerminal(heap[ObjOf(k)])
    BY <1>1, <1>2, <1>3, <2>1, GoesOn DEF IsTerminal
  <2>3. QED  BY <1>1, <1>7, <2>1, <2>2, PassingQuiet
<1>8. QED  BY <1>4, <1>5, <1>6, <1>7 DEF Tracked

LEMMA TrackFailsQuiet == ASSUME All, NEW k \in Cron, TrackFails(k) PROVE QuietOK'
<1> DEFINE s == [task[k] EXCEPT !.pc = "reap"]
<1>1. /\ task[k].pc = "track" /\ task[k].pc \in Doing /\ k \in Task
      /\ UNCHANGED <<up, orders, rows, exch, heap>> /\ task' = [task EXCEPT ![k] = s]
  BY DoingFacts, SetFacts DEF TrackFails, memory
<1>2. Works(k) /\ ObjOf(k) = task[k].order /\ task[k] \in TaskState
  BY <1>1, AtWork, Typing DEF All, Works
<1>3. s.pc = "reap" /\ s.order = task[k].order /\ s.todo = task[k].todo
  BY <1>2 DEF TaskState
<1> HIDE DEF s
<1>4. Onwards(k, s, heap[ObjOf(k)])
  BY <1>1, <1>2, <1>3, GoesOn
<1>5. ~IsTerminal(heap[ObjOf(k)])
  BY <1>1, <1>2 DEF All, QuietOK, AheadOK, IsTerminal
<1>6. faults'.crash = faults.crash
  BY Typing DEF TrackFails, NetFault, All
<1>7. QED  BY <1>1, <1>4, <1>5, <1>6, PassingQuiet

(* A run that knows of a fill goes on to save the object.                  *)
LEMMA GivesUpQuiet ==
    ASSUME All, NEW k \in Cron, task[k].pc \in Crediting, NEW s \in TaskState,
           task' = [task EXCEPT ![k] = s],
           s.order = task[k].order, s.todo = task[k].todo,
           \/ s.pc = "writePosition"
           \/ s.pc = "saveTracked" /\ s.row = heap[ObjOf(k)],
           UNCHANGED <<up, orders, heap, rows, exch>>, faults'.crash = faults.crash
    PROVE  QuietOK'
<1>1. k \in Task /\ Works(k) /\ task[k].pc \in Doing
  BY SetFacts, DoingFacts DEF Works, Crediting
<1>2. Onwards(k, s, heap[ObjOf(k)])
  BY <1>1, GoesOn
<1>3. QED  BY <1>1, <1>2, DoingFacts, PassingQuiet

LEMMA FindPositionQuiet == ASSUME All, NEW k \in Cron, FindPosition(k) PROVE QuietOK'
<1> DEFINE o == heap[task[k].order]
           w == PlannedWrite(SideOfOrder(o), positions[PairOfOrder(o)], o.filled)
<1>1. /\ task[k].pc \in Crediting /\ k \in Task
      /\ UNCHANGED <<up, orders, heap, rows, exch, faults>>
  BY SetFacts DEF FindPosition, memory, Crediting
<1>2. ObjOf(k) = task[k].order /\ task[k] \in TaskState /\ o \in Order
  BY <1>1, AtWork, Typing, DoingFacts DEF All, Works, Crediting
<1>3. CASE task' = [task EXCEPT ![k].pc = "saveTracked", ![k].row = o]
  <2> DEFINE s == [task[k] EXCEPT !.pc = "saveTracked", !.row = o]
  <2>1. /\ s \in TaskState /\ s.pc = "saveTracked" /\ s.row = o
        /\ s.order = task[k].order /\ s.todo = task[k].todo
    BY <1>2, RowState, LocationFacts DEF TaskState
  <2>2. task' = [task EXCEPT ![k] = s]
    BY <1>3
  <2> HIDE DEF s, o
  <2>3. task' \in [Task -> TaskState] /\ task'[k] = s
    BY <1>1, <2>1, <2>2, Typing DEF All
  <2>4. QED  BY <1>1, <1>2, <2>1, <2>2, <2>3, GivesUpQuiet DEF o
<1>4. CASE task' = [task EXCEPT ![k].pc = "writePosition", ![k].write = w]
  <2> DEFINE s == [task[k] EXCEPT !.pc = "writePosition", !.write = w]
  <2>1. task' = [task EXCEPT ![k] = s]
    BY <1>4
  <2>2. s.pc = "writePosition" /\ s.order = task[k].order /\ s.todo = task[k].todo
    BY <1>2 DEF TaskState
  <2> HIDE DEF s
  <2>3. Works(k) /\ task[k].pc \in Doing
    BY <1>1, DoingFacts DEF Crediting, Works
  <2>4. Onwards(k, s, heap[ObjOf(k)])
    BY <1>1, <2>2, <2>3, GoesOn
  <2>5. QED  BY <1>1, <2>1, <2>2, <2>3, <2>4, DoingFacts, PassingQuiet
<1>5. QED  BY <1>3, <1>4 DEF FindPosition

LEMMA WritePositionQuiet == ASSUME All, NEW k \in Cron, WritePosition(k) PROVE QuietOK'
<1> DEFINE o == heap[task[k].order]
           s == [task[k] EXCEPT !.pc = "saveTracked", !.row = o, !.write = NoWrite]
<1>1. /\ task[k].pc \in Crediting /\ k \in Task /\ task' = [task EXCEPT ![k] = s]
      /\ UNCHANGED <<up, orders, heap, rows, exch, faults>>
  BY SetFacts DEF WritePosition, memory, Crediting
<1>2. ObjOf(k) = task[k].order /\ task[k] \in TaskState
  BY <1>1, AtWork, Typing, DoingFacts DEF All, Works, Crediting
<1>3. /\ s.pc = "saveTracked" /\ s.row = o
      /\ s.order = task[k].order /\ s.todo = task[k].todo
  BY <1>2 DEF TaskState
<1> HIDE DEF s
<1>4. Works(k) /\ task[k].pc \in Doing
  BY <1>1, DoingFacts DEF Crediting, Works
<1>5. Onwards(k, s, heap[ObjOf(k)])
  BY <1>1, <1>2, <1>3, <1>4, GoesOn
<1>6. QED  BY <1>1, <1>3, <1>4, <1>5, DoingFacts, PassingQuiet

LEMMA SaveTrackedQuiet == ASSUME All, NEW k \in Cron, SaveTracked(k) PROVE QuietOK'
<1> DEFINE s == [task[k] EXCEPT !.pc = "reap", !.row = Blank]
<1>1. /\ task[k].pc \in Doing \cap Writing /\ k \in Task /\ rows' = Updated(task[k].row)
      /\ task' = [task EXCEPT ![k] = s] /\ UNCHANGED <<up, orders, heap, exch, faults>>
  BY SetFacts, DoingFacts DEF SaveTracked, memory, Writing
<1>2. s.pc = "reap" /\ s.order = task[k].order /\ s.todo = task[k].todo
  BY <1>1, Typing DEF All, TaskState
<1> HIDE DEF s
<1>3. Onwards(k, s, heap[ObjOf(k)])
  BY <1>1, <1>2, GoesOn DEF Works
<1>4. QED  BY <1>1, <1>2, <1>3, DoingFacts, SavingQuiet

(* A call of the database fails: then RowsFollow is not asked for.         *)
LEMMA DbFailsQuiet == ASSUME All, NEW t \in Task, DbFails(t) PROVE QuietOK'
<1>1. /\ MaxDbFaults # 0 /\ faults'.crash = faults.crash
      /\ UNCHANGED <<up, orders, rows, exch>>
  BY Typing DEF DbFails, DbFault, memory, All
<1>2. CASE task[t].pc = "saveTry" /\ SetAndSave(t, "failed", "saveFailed")
  BY <1>1, <1>2, DoingFacts, SetAndSaveQuiet
<1>3. ASSUME Works(t), heap' = heap, NEW s, task' = [task EXCEPT ![t] = s],
             Onwards(t, s, heap[ObjOf(t)])
      PROVE  QuietOK'
  <2>1. Local(t, s, heap[ObjOf(t)])
    BY <1>1, <1>3, HeapSame DEF Local
  <2>2. Submits(t, heap[ObjOf(t)])
    BY <1>1 DEF Submits
  <2>3. QED  BY <1>1, <1>3, <2>1, <2>2, LocalOK
<1>4. CASE /\ task[t].pc \in {"create", "saveFailed"} /\ heap' = heap
           /\ task' = [task EXCEPT ![t] = Rejected(t)]
  <2>1. Works(t)
    BY <1>4, DoingFacts DEF Works
  <2>2. Onwards(t, Rejected(t), heap[ObjOf(t)])
    BY IdleTask, SetFacts DEF Onwards, Rejected, Writing
  <2>3. QED  BY <1>3, <1>4, <2>1, <2>2
<1>5. CASE /\ task[t].pc \in {"findPosition", "writePosition"} /\ heap' = heap
           /\ task' = [task EXCEPT ![t].pc = "saveTracked",
                           ![t].row = heap[ObjOf(t)], ![t].write = NoWrite]
  <2> DEFINE s == [task[t] EXCEPT !.pc = "saveTracked", !.row = heap[ObjOf(t)],
                                  !.write = NoWrite]
  <2>1. task' = [task EXCEPT ![t] = s]
    BY <1>5
  <2>2. /\ s.pc = "saveTracked" /\ s.row = heap[ObjOf(t)]
        /\ s.order = task[t].order /\ s.todo = task[t].todo
    BY Typing DEF All, TaskState
  <2> HIDE DEF s
  <2>3. Works(t)
    BY <1>5, DoingFacts DEF Works
  <2>4. t \in Cron
    BY <1>5 DEF All, IInv, TasksOK, CallsOK, CallLocations, Task
  <2>5. Onwards(t, s, heap[ObjOf(t)])
    BY <2>2, <2>3, <2>4, GoesOn
  <2>6. QED  BY <1>3, <1>5, <2>1, <2>3, <2>5
<1>6. CASE /\ task[t].pc = "saveTracked" /\ heap' = heap
           /\ task' = [task EXCEPT ![t].pc = "reap", ![t].row = Blank]
  <2> DEFINE s == [task[t] EXCEPT !.pc = "reap", !.row = Blank]
  <2>1. task' = [task EXCEPT ![t] = s]
    BY <1>6
  <2>2. s.pc = "reap" /\ s.order = task[t].order /\ s.todo = task[t].todo
    BY Typing DEF All, TaskState
  <2> HIDE DEF s
  <2>3. Works(t)
    BY <1>6, DoingFacts DEF Works
  <2>4. t \in Cron
    BY <1>6 DEF All, IInv, TasksOK, CallsOK, CallLocations, Task
  <2>5. Onwards(t, s, heap[ObjOf(t)])
    BY <2>2, <2>3, <2>4, GoesOn
  <2>6. QED  BY <1>3, <1>6, <2>1, <2>3, <2>5
<1>7. CASE /\ task[t].pc = "find" /\ heap' = heap
           /\ task' = [task EXCEPT ![t] = Rejected(t)]
  <2>1. t \in Call /\ t \notin Cron
    BY <1>7, SetFacts, DoingFacts DEF Task, All, IInv, TasksOK, CronsOK
  <2>2. /\ task'[t].pc = "done" /\ \A r \in Task : r # t => task'[r] = task[r]
        /\ \A r \in Task : ObjOf(r)' = ObjOf(r)
    BY <1>7, <2>1, IdleTask, Typing DEF All, Rejected, ObjOf
  <2>3. OneTaskOK'
    BY <1>1, <2>1, <2>2, SetFacts, DoingFacts DEF All, QuietOK, OneTaskOK, Works
  <2>4. AheadOK'
    BY <1>1, <1>7, <2>1, <2>2, SetFacts DEF All, QuietOK, AheadOK, Writing
  <2>5. SentOK'
    BY <1>1, <1>7 DEF All, QuietOK, SentOK, SubmittedOnce
  <2>6. QED  BY <1>1, <2>3, <2>4, <2>5 DEF QuietOK
<1>8. QED  BY <1>2, <1>4, <1>5, <1>6, <1>7 DEF DbFails


-----------------------------------------------------------------------------
(* Calls and runs begin and end *)

LEMMA PlaceOrderQuiet ==
    ASSUME All, NEW c \in Call, NEW u \in Uid, PlaceOrder(c, u) PROVE QuietOK'
<1>1. /\ task[c].pc = "idle" /\ UNCHANGED <<up, orders, rows, exch, faults>>
      /\ heap' = [heap EXCEPT ![c] = [Blank EXCEPT !.uid = u]]
      /\ task' = [task EXCEPT ![c].pc = "find"]
  BY DEF PlaceOrder, memory
<1>2. /\ c \in Task /\ c \in Obj /\ c \notin Cron /\ c \notin orders
      /\ \A k \in Cron : /\ task[k].pc # "idle" => c \notin task[k].todo
                         /\ task[k].pc \in OnOrder => task[k].order # c
  BY <1>1, SetFacts DEF All, QuietOK, OneTaskOK
<1>3. /\ heap'[c].status = "none" /\ \A o \in Obj : o # c => heap'[o] = heap[o]
  BY <1>1, <1>2, Typing DEF All, Blank
<1>4. /\ task'[c].pc = "find" /\ \A r \in Task : r # c => task'[r] = task[r]
      /\ task'[c].order = task[c].order
  BY <1>1, <1>2, Typing DEF All, TaskState
<1>5. ASSUME NEW r \in Task
      PROVE  ObjOf(r)' = ObjOf(r) /\ (Works(r)' <=> Works(r))
  BY <1>1, <1>2, <1>4, DoingFacts DEF ObjOf, Works
<1>6. ASSUME NEW r \in Task, Works(r)
      PROVE  r # c /\ ObjOf(r) # c /\ heap'[ObjOf(r)] = heap[ObjOf(r)]
  <2>1. r # c /\ ObjOf(r) \in orders /\ ObjOf(r) \in Obj
    BY <1>1, <1>6, AtWork, DoingFacts DEF Works
  <2>2. QED  BY <1>2, <1>3, <2>1
<1>7. OneTaskOK'
  BY <1>1, <1>2, <1>4, <1>5, SetFacts DEF All, QuietOK, OneTaskOK
<1>8. AheadOK'
  <2>1. AheadOK
    BY DEF All, QuietOK
  <2>2. ASSUME NEW d \in Call, task'[d].pc = "find" PROVE Unsubmitted(heap'[d])
    BY <1>3, <1>4, <2>1, <2>2, SetFacts DEF AheadOK, Unsubmitted
  <2>3. ASSUME NEW r \in Task, task'[r].pc \in {"create", "quantity", "submit"}
        PROVE  heap'[ObjOf(r)'].status = "new"
    <3>1. Works(r)'
      BY <2>3, DoingFacts DEF Works
    <3>2. Works(r) /\ task[r].pc \in {"create", "quantity", "submit"}
      BY <1>4, <1>5, <2>3, <3>1
    <3>3. QED  BY <1>5, <1>6, <2>1, <3>2 DEF AheadOK
  <2>4. ASSUME NEW r \in Task, task'[r].pc \in Writing
        PROVE  task'[r].row = heap'[ObjOf(r)']
    <3>1. Works(r)'
      BY <2>4, DoingFacts DEF Works, Writing
    <3>2. Works(r) /\ task'[r] = task[r]
      BY <1>4, <1>5, <1>6, <3>1
    <3>3. QED  BY <1>5, <1>6, <2>1, <2>4, <3>2 DEF AheadOK
  <2>5. ASSUME NEW k \in Cron, task'[k].pc = "track"
        PROVE  heap'[task'[k].order].status = "pending"
    <3>1. k # c /\ k \in Task /\ task'[k] = task[k] /\ Works(k) /\ ObjOf(k) = task[k].order
      BY <1>2, <1>4, <2>5, SetFacts, DoingFacts DEF Works, ObjOf
    <3>2. QED  BY <1>6, <2>1, <2>5, <3>1 DEF AheadOK
  <2>6. QED  BY <2>2, <2>3, <2>4, <2>5 DEF AheadOK
<1>9. SentOK'
  <2>1. \A x \in 1..Len(exch) : exch[x].by \in Obj
    <3>1. \A x \in 1..Len(exch) : exch[x] \in ExchangeOrder
      BY Typing DEF All
    <3>2. QED  BY <3>1 DEF ExchangeOrder
  <2>2. Unsubmitted(heap[c])
    BY <1>1, BlankOrder DEF All, IInv, HeapOK, Unsubmitted
  <2>3. QED
    BY <1>1, <1>3, <2>1, <2>2 DEF All, QuietOK, SentOK, SubmittedOnce
<1>10. ASSUME RowsFollow PROVE RowsFollow'
  <2>1. \A o \in orders : heap'[o] = heap[o] /\ (Busy(o)' <=> Busy(o))
    BY <1>2, <1>3, <1>5, Typing DEF Busy, All
  <2>2. \A r \in Task : task'[r].pc \in Doing => task[r].pc \in Doing /\ Works(r)
    BY <1>4, DoingFacts DEF Works
  <2>3. \A r \in Task : task'[r].pc \in Doing => IsActive(rows'[heap'[ObjOf(r)'].uid])
    BY <1>1, <1>5, <1>6, <1>10, <2>2 DEF RowsFollow
  <2>4. \A o \in orders' : ~Busy(o)' =>
            (IsActive(rows'[heap'[o].uid]) <=> ~IsTerminal(heap'[o]))
    BY <1>1, <1>10, <2>1 DEF RowsFollow
  <2>5. ActiveRowIsTracked'
    BY <1>1, <1>10, <2>1 DEF RowsFollow, ActiveRowIsTracked, ActiveRows
  <2>6. QED  BY <2>3, <2>4, <2>5 DEF RowsFollow
<1>11. QED  BY <1>7, <1>8, <1>9, <1>10 DEF All, QuietOK

LEMMA CheckDuplicatesQuiet ==
    ASSUME All, NEW c \in Call, CheckDuplicates(c) PROVE QuietOK'
<1>1. /\ task[c].pc = "find" /\ UNCHANGED <<up, rows, exch, faults>>
      /\ \/ task' = [task EXCEPT ![c] = Done] /\ UNCHANGED <<heap, orders>>
         \/ /\ heap' = [heap EXCEPT ![c].status = "new"] /\ orders' = orders \cup {c}
            /\ task' = [task EXCEPT ![c].pc = "create", ![c].row = heap'[c]]
  BY DEF CheckDuplicates
<1>2. /\ c \in Task /\ c \in Obj /\ c \notin Cron /\ c \notin orders
      /\ \A k \in Cron : /\ task[k].pc # "idle" => c \notin task[k].todo
                         /\ task[k].pc \in OnOrder => task[k].order # c
  BY <1>1, SetFacts DEF All, QuietOK, OneTaskOK
<1>3. \A o \in Obj : o # c => heap'[o] = heap[o]
  BY <1>1, <1>2, Typing DEF All
<1>4. /\ \A r \in Task : r # c => task'[r] = task[r]
      /\ \/ task'[c].pc = "done" /\ UNCHANGED <<heap, orders>>
         \/ /\ task'[c].pc = "create" /\ task'[c].row = heap'[c]
            /\ heap'[c].status = "new" /\ orders' = orders \cup {c}
  <2>1. task[c] \in TaskState /\ heap[c] \in Order /\ task \in [Task -> TaskState]
    BY <1>2, Typing DEF All
  <2>2. CASE task' = [task EXCEPT ![c] = Done] /\ UNCHANGED <<heap, orders>>
    BY <1>2, <2>1, <2>2, IdleTask
  <2>3. CASE /\ heap' = [heap EXCEPT ![c].status = "new"] /\ orders' = orders \cup {c}
             /\ task' = [task EXCEPT ![c].pc = "create", ![c].row = heap'[c]]
    <3>1. task'[c] = [task[c] EXCEPT !.pc = "create", !.row = heap'[c]]
      BY <1>2, <2>1, <2>3
    <3>2. task'[c].pc = "create" /\ task'[c].row = heap'[c]
      BY <2>1, <3>1 DEF TaskState
    <3>3. heap'[c] = [heap[c] EXCEPT !.status = "new"]
      BY <1>2, <2>3, Typing DEF All
    <3>4. heap'[c].status = "new"
      BY <2>1, <3>3 DEF Order
    <3>5. \A r \in Task : r # c => task'[r] = task[r]
      BY <1>2, <2>1, <2>3
    <3>6. QED  BY <2>3, <3>2, <3>4, <3>5
  <2>4. QED  BY <1>1, <2>2, <2>3
<1>5. ASSUME NEW r \in Task
      PROVE  /\ ObjOf(r)' = ObjOf(r)
             /\ r # c => (Works(r)' <=> Works(r))
  BY <1>2, <1>4 DEF ObjOf, Works
<1>6. ASSUME NEW r \in Task, Works(r)
      PROVE  r # c /\ ObjOf(r) # c /\ heap'[ObjOf(r)] = heap[ObjOf(r)] /\ task'[r] = task[r]
  <2>1. r # c /\ ObjOf(r) \in orders /\ ObjOf(r) \in Obj
    BY <1>1, <1>6, AtWork, DoingFacts DEF Works
  <2>2. QED  BY <1>2, <1>3, <1>4, <2>1
<1>7. OneTaskOK'
  BY <1>1, <1>2, <1>4, <1>5, SetFacts, DoingFacts DEF All, QuietOK, OneTaskOK, Works
<1>8. AheadOK'
  <2>1. AheadOK
    BY DEF All, QuietOK
  <2>2. ASSUME NEW d \in Call, task'[d].pc = "find" PROVE Unsubmitted(heap'[d])
    BY <1>3, <1>4, <2>1, <2>2, SetFacts DEF AheadOK
  <2>3. ASSUME NEW r \in Task, task'[r].pc \in {"create", "quantity", "submit"}
        PROVE  heap'[ObjOf(r)'].status = "new"
    <3>1. CASE r = c
      BY <1>2, <1>4, <2>3, <3>1 DEF ObjOf
    <3>2. CASE r # c
      <4>1. Works(r) /\ task[r].pc \in {"create", "quantity", "submit"}
        BY <1>4, <2>3, <3>2, DoingFacts DEF Works
      <4>2. QED  BY <1>5, <1>6, <2>1, <4>1 DEF AheadOK
    <3>3. QED  BY <3>1, <3>2
  <2>4. ASSUME NEW r \in Task, task'[r].pc \in Writing
        PROVE  task'[r].row = heap'[ObjOf(r)']
    <3>1. CASE r = c
      BY <1>2, <1>4, <2>4, <3>1 DEF ObjOf, Writing
    <3>2. CASE r # c
      <4>1. Works(r) /\ task[r].pc \in Writing
        BY <1>4, <2>4, <3>2, DoingFacts DEF Works, Writing
      <4>2. QED  BY <1>5, <1>6, <2>1, <4>1 DEF AheadOK
    <3>3. QED  BY <3>1, <3>2
  <2>5. ASSUME NEW k \in Cron, task'[k].pc = "track"
        PROVE  heap'[task'[k].order].status = "pending"
    <3>1. k # c /\ k \in Task /\ task'[k] = task[k] /\ Works(k) /\ ObjOf(k) = task[k].order
      BY <1>2, <1>4, <2>5, SetFacts, DoingFacts DEF Works, ObjOf
    <3>2. QED  BY <1>6, <2>1, <2>5, <3>1 DEF AheadOK
  <2>6. QED  BY <2>2, <2>3, <2>4, <2>5 DEF AheadOK
<1>9. SentOK'
  <2>1. \A x \in 1..Len(exch) : exch[x].by \in Obj
    <3>1. \A x \in 1..Len(exch) : exch[x] \in ExchangeOrder
      BY Typing DEF All
    <3>2. QED  BY <3>1 DEF ExchangeOrder
  <2>2. Unsubmitted(heap[c])
    BY <1>1 DEF All, QuietOK, AheadOK
  <2>3. QED
    BY <1>1, <1>3, <2>1, <2>2 DEF All, QuietOK, SentOK, SubmittedOnce
<1>10. ASSUME RowsFollow PROVE RowsFollow'
  <2>1. \A o \in orders : heap'[o] = heap[o]
    BY <1>2, <1>3, Typing DEF All
  <2>2. \A r \in Task : task'[r].pc \in Doing => task[r].pc \in Doing /\ Works(r)
    BY <1>4, DoingFacts DEF Works
  <2>3. \A o \in orders : Busy(o) => Busy(o)'
    BY <1>5, <1>6 DEF Busy
  <2>4. c \in orders' => Busy(c)'
    BY <1>2, <1>4 DEF Busy, Works, ObjOf
  <2>5. orders \subseteq orders' /\ orders' \subseteq orders \cup {c}
    BY <1>1
  <2>6. \A r \in Task : task'[r].pc \in Doing => IsActive(rows'[heap'[ObjOf(r)'].uid])
    BY <1>1, <1>5, <1>6, <1>10, <2>2 DEF RowsFollow
  <2>7. \A o \in orders' : ~Busy(o)' =>
            (IsActive(rows'[heap'[o].uid]) <=> ~IsTerminal(heap'[o]))
    BY <1>1, <1>10, <2>1, <2>3, <2>4, <2>5 DEF RowsFollow
  <2>8. ActiveRowIsTracked'
    BY <1>1, <1>10, <2>1, <2>5 DEF RowsFollow, ActiveRowIsTracked, ActiveRows
  <2>9. QED  BY <2>6, <2>7, <2>8 DEF RowsFollow
<1>11. QED  BY <1>7, <1>8, <1>9, <1>10 DEF All, QuietOK

(* A run of the cron job that is not at work comes to another state.       *)
LEMMA RunQuiet ==
    ASSUME All, NEW k \in Cron, ~Works(k), NEW s,
           task' = [task EXCEPT ![k] = s],
           UNCHANGED <<up, heap, rows, exch, faults>>,
           orders' \subseteq orders,
           \A o \in orders \ orders' : ~Busy(o) /\ IsTerminal(heap[o]),
           \A c \in Call : s.pc # "idle" /\ c \in s.todo => task[c].pc = "done",
           \A c \in Call : s.pc \in OnOrder /\ s.order = c => task[c].pc = "done",
           s.pc \in {"idle", "loop", "reap", "quantity", "track"},
           s.pc = "quantity" => heap[s.order].status = "new",
           s.pc = "track" => heap[s.order].status = "pending",
           s.pc \in {"quantity", "track"} => s.order \in orders /\ ~Busy(s.order)
    PROVE  QuietOK'
<1>1. k \in Task /\ k \notin Call
  BY SetFacts
<1>2. task'[k] = s /\ \A r \in Task : r # k => task'[r] = task[r]
  BY <1>1, Typing DEF All
<1>3. \A r \in Task : r # k => ObjOf(r)' = ObjOf(r) /\ (Works(r)' <=> Works(r))
  BY <1>2 DEF ObjOf, Works
<1>4. ObjOf(k)' = s.order
  BY <1>1, <1>2 DEF ObjOf
<1>5. \A c \in Call : task'[c] = task[c] /\ c # k
  BY <1>1, <1>2, SetFacts
<1>6. ASSUME NEW c \in Call, Works(c)' PROVE c \in orders'
  <2>1. Works(c) /\ c \in Task /\ ObjOf(c) = c
    BY <1>3, <1>5, <1>6, SetFacts DEF ObjOf
  <2>2. c \in orders /\ Busy(c)
    BY <2>1, AtWork DEF Busy
  <2>3. QED  BY <2>2
<1>7. OneTaskOK'
  BY <1>2, <1>5, <1>6, SetFacts DEF All, QuietOK, OneTaskOK
<1>8. AheadOK'
  <2>1. AheadOK
    BY DEF All, QuietOK
  <2>2. ASSUME NEW r \in Task, task'[r].pc \in {"create", "quantity", "submit"}
        PROVE  heap'[ObjOf(r)'].status = "new"
    BY <1>2, <1>3, <1>4, <2>1, <2>2 DEF AheadOK
  <2>3. ASSUME NEW r \in Task, task'[r].pc \in Writing
        PROVE  task'[r].row = heap'[ObjOf(r)']
    BY <1>2, <1>3, <2>1, <2>3 DEF AheadOK, Writing
  <2>4. ASSUME NEW j \in Cron, task'[j].pc = "track"
        PROVE  heap'[task'[j].order].status = "pending"
    BY <1>2, <2>1, <2>4, SetFacts DEF AheadOK
  <2>5. QED  BY <1>5, <2>1, <2>2, <2>3, <2>4 DEF AheadOK
<1>9. SentOK'
  BY DEF All, QuietOK, SentOK, SubmittedOnce
<1>10. ASSUME RowsFollow PROVE RowsFollow'
  <2>1. \A o \in orders : Busy(o) => Busy(o)'
    BY <1>3 DEF Busy
  <2>2. ASSUME NEW r \in Task, task'[r].pc \in Doing
        PROVE  IsActive(rows'[heap'[ObjOf(r)'].uid])
    <3>1. CASE r = k
      <4>1. s.pc \in {"quantity", "track"} /\ ~IsTerminal(heap[s.order])
        BY <1>2, <2>2, <3>1, DoingFacts DEF IsTerminal
      <4>2. QED  BY <1>4, <1>10, <3>1, <4>1 DEF RowsFollow
    <3>2. CASE r # k
      BY <1>2, <1>3, <1>10, <2>2, <3>2 DEF RowsFollow
    <3>3. QED  BY <3>1, <3>2
  <2>3. ASSUME NEW u \in Uid, up, IsActive(rows[u]) PROVE \E o \in orders' : heap[o].uid = u
    <3>1. PICK o \in orders : heap[o].uid = u
      BY <1>10, <2>3 DEF RowsFollow, ActiveRowIsTracked, ActiveRows
    <3>2. o \in orders'
      BY <1>10, <2>3, <3>1 DEF RowsFollow
    <3>3. QED  BY <3>1, <3>2
  <2>4. ActiveRowIsTracked'
    BY <2>3 DEF ActiveRowIsTracked, ActiveRows
  <2>5. \A o \in orders' : ~Busy(o)' =>
            (IsActive(rows'[heap'[o].uid]) <=> ~IsTerminal(heap'[o]))
    BY <1>10, <2>1 DEF RowsFollow
  <2>6. QED  BY <2>2, <2>4, <2>5 DEF RowsFollow
<1>11. QED  BY <1>7, <1>8, <1>9, <1>10 DEF All, QuietOK

LEMMA StandsQuiet ==
    ASSUME All, UNCHANGED <<up, orders, heap, task, rows, exch, faults>> PROVE QuietOK'
<1>1. \A t \in Task : ObjOf(t)' = ObjOf(t) /\ (Works(t)' <=> Works(t))
  BY DEF ObjOf, Works
<1>2. OneTaskOK'
  BY <1>1, SetFacts DEF All, QuietOK, OneTaskOK
<1>3. AheadOK'
  BY <1>1 DEF All, QuietOK, AheadOK
<1>4. SentOK'
  BY DEF All, QuietOK, SentOK, SubmittedOnce
<1>5. ASSUME RowsFollow PROVE RowsFollow'
  BY <1>1, <1>5 DEF RowsFollow, ActiveRowIsTracked, ActiveRows, Busy
<1>6. QED  BY <1>2, <1>3, <1>4, <1>5 DEF All, QuietOK

(* The tick takes this.orders when no call is placing one.                 *)
LEMMA CronTickQuiet ==
    ASSUME All, ~OverlapAllowed, NEW k \in Cron, CronTick(k) PROVE QuietOK'
<1>1. /\ task[k].pc = "idle" /\ NoPlacementGoing
      /\ UNCHANGED <<up, orders, heap, rows, exch, faults>>
      /\ task' = task \/ task' = [task EXCEPT ![k].pc = "loop", ![k].todo = orders]
  BY DEF CronTick, memory
<1>2. CASE task' = task
  BY <1>1, <1>2, StandsQuiet
<1>3. CASE task' = [task EXCEPT ![k].pc = "loop", ![k].todo = orders]
  <2> DEFINE s == [task[k] EXCEPT !.pc = "loop", !.todo = orders]
  <2>1. task' = [task EXCEPT ![k] = s]
    BY <1>3
  <2>2. s.pc = "loop" /\ s.todo = orders
    BY SetFacts, Typing DEF All, TaskState
  <2> HIDE DEF s
  <2>3. ~Works(k)
    BY <1>1, DoingFacts DEF Works
  <2>4. \A c \in Call : c \in orders => task[c].pc = "done"
    BY <1>1 DEF NoPlacementGoing, All, QuietOK, OneTaskOK
  <2>5. UNCHANGED <<up, heap, rows, exch, faults>> /\ orders' = orders
    BY <1>1
  <2>6. s.pc \notin OnOrder /\ s.pc \notin {"idle", "quantity", "track"}
    BY <2>2, DoingFacts
  <2>7. QED  BY <2>1, <2>2, <2>3, <2>4, <2>5, <2>6, RunQuiet
<1>4. QED  BY <1>1, <1>2, <1>3

(* A run that is not at work leaves every object it may visit to itself.   *)
LEMMA Unattended ==
    ASSUME All, NEW k \in Cron, task[k].pc # "idle", ~Works(k), NEW o \in orders,
           o \in task[k].todo \/ (task[k].pc = "reap" /\ task[k].order = o)
    PROVE  ~Busy(o)
<1>1. ASSUME NEW r \in Task, Works(r), ObjOf(r) = o PROVE FALSE
  <2>1. CASE r \in Cron
    BY <1>1, <2>1, AtWork, DoingFacts DEF All, IInv, ProcessOK
  <2>2. CASE r \in Call
    <3>1. r = o /\ task[o].pc = "done"
      BY <1>1, <2>2, AtWork, DoingFacts DEF All, QuietOK, OneTaskOK
    <3>2. QED  BY <1>1, <3>1, DoingFacts DEF Works
  <2>3. QED  BY <2>1, <2>2 DEF Task
<1>2. QED  BY <1>1 DEF Busy

LEMMA CronVisitQuiet == ASSUME All, NEW k \in Cron, CronVisit(k) PROVE QuietOK'
<1>1. /\ task[k].pc = "loop" /\ UNCHANGED <<up, orders, heap, rows, exch, faults>>
      /\ \E o \in task[k].todo :
            task' = [task EXCEPT ![k] =
                        [pc |-> Visit(heap[o]), order |-> o, row |-> Blank,
                         ext |-> heap[o].ext, write |-> NoWrite,
                         todo |-> task[k].todo \ {o}]]
  BY DEF CronVisit, memory
<1>2. PICK o \in task[k].todo :
          task' = [task EXCEPT ![k] =
                      [pc |-> Visit(heap[o]), order |-> o, row |-> Blank,
                       ext |-> heap[o].ext, write |-> NoWrite,
                       todo |-> task[k].todo \ {o}]]
  BY <1>1
<1> DEFINE s == [pc |-> Visit(heap[o]), order |-> o, row |-> Blank,
                 ext |-> heap[o].ext, write |-> NoWrite,
                 todo |-> task[k].todo \ {o}]
<1>3. /\ task' = [task EXCEPT ![k] = s]
      /\ s.pc = Visit(heap[o]) /\ s.order = o /\ s.todo \subseteq task[k].todo
  BY <1>2
<1> HIDE DEF s
<1>4. o \in orders /\ ~Works(k) /\ task[k].pc # "idle"
  BY <1>1, DoingFacts DEF Works, All, RunOK
<1>5. ~Busy(o)
  BY <1>4, Unattended
<1>6. /\ s.pc \in {"quantity", "track", "reap"}
      /\ s.pc = "quantity" => heap[o].status = "new"
      /\ s.pc = "track" => heap[o].status = "pending"
  BY <1>3 DEF Visit
<1>7. \A c \in Call : c \in task[k].todo => task[c].pc = "done"
  BY <1>4 DEF All, QuietOK, OneTaskOK
<1>8. \A c \in Call : c \in s.todo \/ c = s.order => task[c].pc = "done"
  BY <1>3, <1>7
<1>9. UNCHANGED <<up, heap, rows, exch, faults>> /\ orders' = orders
  BY <1>1
<1>10. QED  BY <1>3, <1>4, <1>5, <1>6, <1>8, <1>9, RunQuiet

(* What a reap takes from this.orders is the object of the run.            *)
LEMMA CronReapQuiet == ASSUME All, NEW k \in Cron, CronReap(k) PROVE QuietOK'
<1>1. /\ task[k].pc = "reap" /\ UNCHANGED <<up, heap, rows, exch, faults>>
      /\ LET o == heap[task[k].order] IN
         orders' = IF IsTerminal(o) THEN {p \in orders : heap[p].uid # o.uid}
                                    ELSE orders
      /\ \/ task' = [task EXCEPT ![k] = Idle]
         \/ task' = [task EXCEPT ![k] = [Idle EXCEPT !.pc = "loop",
                                                     !.todo = task[k].todo]]
  BY DEF CronReap
<1>2. /\ ~Works(k) /\ task[k].pc # "idle" /\ task[k].order \in orders
      /\ task[k].todo \subseteq orders
  BY <1>1, DoingFacts DEF Works, All, RunOK, Doing
<1>3. ~Busy(task[k].order)
  BY <1>1, <1>2, Unattended
<1>4. orders' \subseteq orders /\ \A o \in orders \ orders' : ~Busy(o) /\ IsTerminal(heap[o])
  <2>1. ASSUME NEW o \in orders, o \notin orders' PROVE ~Busy(o) /\ IsTerminal(heap[o])
    <3>1. IsTerminal(heap[task[k].order]) /\ heap[o].uid = heap[task[k].order].uid
      BY <1>1, <2>1
    <3>2. o = task[k].order
      BY <1>2, <3>1 DEF All, IInv, UniqueInMemory
    <3>3. QED  BY <1>3, <3>1, <3>2
  <2>2. QED  BY <1>1, <2>1
<1>5. \A c \in Call : c \in task[k].todo => task[c].pc = "done"
  BY <1>2 DEF All, QuietOK, OneTaskOK
<1>6. UNCHANGED <<up, heap, rows, exch, faults>>
  BY <1>1
<1>7. CASE task' = [task EXCEPT ![k] = Idle]
  <2> DEFINE s == Idle
  <2>1. task' = [task EXCEPT ![k] = s]
    BY <1>7
  <2>2. /\ s.pc = "idle" /\ s.pc \notin OnOrder
        /\ s.pc \notin {"quantity", "track"}
    BY IdleTask, DoingFacts
  <2> HIDE DEF s
  <2>3. QED  BY <1>2, <1>4, <1>6, <2>1, <2>2, RunQuiet
<1>8. CASE task' = [task EXCEPT ![k] = [Idle EXCEPT !.pc = "loop", !.todo = task[k].todo]]
  <2> DEFINE s == [Idle EXCEPT !.pc = "loop", !.todo = task[k].todo]
  <2>1. s.pc = "loop" /\ s.todo = task[k].todo
    BY IdleTask, Typing DEF TaskState
  <2>2. task' = [task EXCEPT ![k] = s]
    BY <1>8
  <2> HIDE DEF s
  <2>3. s.pc \notin OnOrder /\ s.pc \notin {"idle", "quantity", "track"}
    BY <2>1, DoingFacts
  <2>4. QED  BY <1>2, <1>4, <1>5, <1>6, <2>1, <2>2, <2>3, RunQuiet
<1>9. QED  BY <1>1, <1>7, <1>8

LEMMA ExchangeStepQuiet ==
    ASSUME All, NEW x \in 1..Len(exch), ExchangeStep(x) PROVE QuietOK'
<1>1. UNCHANGED <<up, orders, heap, task, rows, faults>>
  BY DEF ExchangeStep, Fill, EndUnfilled, memory
<1>2. /\ Len(exch') = Len(exch)
      /\ \A y \in 1..Len(exch) : exch'[y].by = exch[y].by /\ exch'[y].life = exch[y].life
  <2>1. exch \in Seq(ExchangeOrder) /\ \A y \in 1..Len(exch) : exch[y] \in ExchangeOrder
    BY Typing DEF All
  <2>2. ASSUME NEW q, exch' = [exch EXCEPT ![x] = q],
               q.by = exch[x].by, q.life = exch[x].life
        PROVE  /\ Len(exch') = Len(exch)
               /\ \A y \in 1..Len(exch) :
                     exch'[y].by = exch[y].by /\ exch'[y].life = exch[y].life
    <3>1. /\ Len(exch') = Len(exch) /\ exch'[x] = q
          /\ \A y \in 1..Len(exch) : y # x => exch'[y] = exch[y]
      <4> HIDE DEF ExchangeOrder
      <4>1. QED  BY <2>1, <2>2
    <3>2. QED  BY <2>2, <3>1
  <2>3. CASE Fill(x)
    <3> DEFINE n == exch[x].filled + 1
               c == IF n = exch[x].amount THEN "closed" ELSE "open"
               q == [exch[x] EXCEPT !.filled = n, !.status = c]
    <3>1. exch' = [exch EXCEPT ![x] = q]
      BY <2>3 DEF Fill
    <3>2. q.by = exch[x].by /\ q.life = exch[x].life
      BY <2>1 DEF ExchangeOrder
    <3>3. QED  BY <2>2, <3>1, <3>2
  <2>4. CASE EndUnfilled(x)
    <3> DEFINE q == [exch[x] EXCEPT !.status = "canceled"]
    <3>1. exch' = [exch EXCEPT ![x] = q]
      BY <2>4 DEF EndUnfilled
    <3>2. q.by = exch[x].by /\ q.life = exch[x].life
      BY <2>1 DEF ExchangeOrder
    <3>3. QED  BY <2>2, <3>1, <3>2
  <2>5. QED  BY <2>3, <2>4 DEF ExchangeStep
<1>3. \A t \in Task : ObjOf(t)' = ObjOf(t) /\ (Works(t)' <=> Works(t))
  BY <1>1 DEF ObjOf, Works
<1>4. OneTaskOK'
  BY <1>1, <1>3, SetFacts DEF All, QuietOK, OneTaskOK
<1>5. AheadOK'
  BY <1>1, <1>3 DEF All, QuietOK, AheadOK
<1>6. SentOK'
  BY <1>1, <1>2 DEF All, QuietOK, SentOK, SubmittedOnce
<1>7. ASSUME RowsFollow PROVE RowsFollow'
  BY <1>1, <1>3, <1>7 DEF RowsFollow, ActiveRowIsTracked, ActiveRows, Busy
<1>8. QED  BY <1>4, <1>5, <1>6, <1>7 DEF All, QuietOK

-----------------------------------------------------------------------------
(* The process ends and starts *)

(* Without tasks at work, only what was sent and what is loaded matter.    *)
LEMMA AtRestQuiet ==
    ASSUME \A t \in Task : task[t].pc \in {"idle", "done"},
           \A k \in Cron : task[k].pc = "idle",
           orders \cap Call = {}, SentOK, MaxDbFaults = 0 => RowsFollow
    PROVE  QuietOK
<1>1. \A t \in Task : ~Works(t)
  BY DoingFacts DEF Works
<1>2. OneTaskOK
  BY <1>1, SetFacts, DoingFacts DEF OneTaskOK
<1>3. AheadOK
  BY SetFacts DEF AheadOK, Writing
<1>4. QED  BY <1>2, <1>3 DEF QuietOK

LEMMA AtRestRows ==
    ASSUME \A t \in Task : task[t].pc \in {"idle", "done"}, ActiveRowIsTracked,
           \A o \in orders : IsActive(rows[heap[o].uid]) <=> ~IsTerminal(heap[o])
    PROVE  RowsFollow
BY DoingFacts DEF RowsFollow

LEMMA QuietInit == ASSUME Init PROVE QuietOK
<1>1. /\ \A t \in Task : task[t].pc = "idle"
      /\ orders = {} /\ ~up /\ exch = << >>
  BY IdleTask DEF Init
<1>2. SentOK
  BY <1>1 DEF SentOK, SubmittedOnce
<1>3. RowsFollow
  <2>1. ActiveRowIsTracked
    BY <1>1 DEF ActiveRowIsTracked
  <2>2. QED  BY <1>1, <2>1, AtRestRows
<1>4. QED  BY <1>1, <1>2, <1>3, SetFacts, AtRestQuiet

LEMMA CrashQuiet == ASSUME All, Crash PROVE QuietOK'
<1>1. /\ ~up' /\ orders' = {} /\ exch' = exch
      /\ faults' = [faults EXCEPT !.crash = @ + 1]
      /\ task' = [t \in Task |-> IF t \in Cron \/ task[t].pc = "idle"
                                 THEN Idle ELSE Done]
  BY DEF Crash
<1>2. /\ \A t \in Task : task'[t].pc \in {"idle", "done"}
      /\ \A k \in Cron : task'[k].pc = "idle"
  BY <1>1, IdleTask, SetFacts
<1>3. SentOK'
  <2>1. \A x \in 1..Len(exch) : exch[x] \in ExchangeOrder
    BY Typing DEF All
  <2>2. \A x \in 1..Len(exch) : exch[x].life \in Nat /\ exch[x].life <= faults.crash
    BY <2>1 DEF ExchangeOrder, All, QuietOK, SentOK
  <2>3. faults.crash \in Nat /\ faults'.crash = faults.crash + 1
    BY <1>1, Typing DEF All
  <2>4. SubmittedOnce'
    BY <1>1 DEF All, QuietOK, SentOK, SubmittedOnce
  <2>5. QED  BY <1>1, <2>2, <2>3, <2>4 DEF SentOK
<1>4. RowsFollow'
  <2>1. \A t \in Task : task'[t].pc \notin Doing
    BY <1>2, DoingFacts
  <2>2. QED  BY <1>1, <2>1 DEF RowsFollow, ActiveRowIsTracked
<1>5. OneTaskOK'
  BY <1>1, <1>2, SetFacts, DoingFacts DEF OneTaskOK, Works
<1>6. AheadOK'
  BY <1>2, SetFacts DEF AheadOK, Writing
<1>7. QED  BY <1>3, <1>4, <1>5, <1>6 DEF QuietOK

LEMMA StartQuiet == ASSUME All, Start PROVE QuietOK'
<1>1. /\ ~up /\ orders' = FindActive /\ UNCHANGED <<task, rows, exch, faults>>
      /\ heap' = [o \in Obj |-> IF o \in FindActive THEN rows[o] ELSE Blank]
  BY DEF Start
<1>2. /\ \A t \in Task : task[t].pc \in {"idle", "done"}
      /\ \A k \in Cron : task[k].pc = "idle"
  BY <1>1, SetFacts, DoingFacts DEF All, IInv, ProcessOK, TasksOK, CronsOK
<1>3. /\ FindActive \subseteq Uid /\ FindActive \cap Call = {}
      /\ \A o \in FindActive : IsActive(rows[o]) /\ heap'[o] = rows[o] /\ rows[o].uid = o
  <2>1. FindActive \subseteq Uid /\ FindActive \cap Call = {}
    BY TaskAssumption DEF FindActive
  <2>2. ASSUME NEW o \in FindActive
        PROVE  IsActive(rows[o]) /\ heap'[o] = rows[o] /\ rows[o].uid = o
    <3>1. o \in Uid /\ o \in Obj /\ IsActive(rows[o])
      BY <2>1, SetFacts DEF FindActive
    <3>2. rows[o].status # "none"
      BY <3>1 DEF IsActive
    <3>3. QED  BY <1>1, <3>1, <3>2 DEF All, IInv, RowsOK
  <2>3. QED  BY <2>1, <2>2
<1>4. SentOK'
  <2>1. \A x \in 1..Len(exch) : exch[x] \in ExchangeOrder
    BY Typing DEF All
  <2>2. \A x \in 1..Len(exch) : exch[x].life \in Nat /\ exch[x].life < faults.crash
    BY <1>1, <2>1 DEF ExchangeOrder, All, QuietOK, SentOK
  <2>3. faults.crash \in Nat
    BY Typing DEF All
  <2>4. SubmittedOnce'
    BY <1>1 DEF All, QuietOK, SentOK, SubmittedOnce
  <2>5. QED  BY <1>1, <2>2, <2>3, <2>4 DEF SentOK
<1>5. RowsFollow'
  <2>1. \A t \in Task : task'[t].pc \notin Doing
    BY <1>1, <1>2, DoingFacts
  <2>2. \A o \in orders' : IsActive(rows'[heap'[o].uid]) /\ ~IsTerminal(heap'[o])
    BY <1>1, <1>3 DEF IsActive, IsTerminal
  <2>3. ActiveRowIsTracked'
    BY <1>1, <1>3 DEF ActiveRowIsTracked, ActiveRows, FindActive
  <2>4. QED  BY <2>1, <2>2, <2>3 DEF RowsFollow
<1>6. OneTaskOK'
  BY <1>1, <1>2, <1>3, SetFacts, DoingFacts DEF OneTaskOK, Works
<1>7. AheadOK'
  BY <1>1, <1>2, SetFacts DEF AheadOK, Writing
<1>8. QED  BY <1>4, <1>5, <1>6, <1>7 DEF QuietOK

-----------------------------------------------------------------------------
(* What is kept, and the properties that follow *)

LEMMA QuietStep ==
    ASSUME ~OverlapAllowed, All, [Next]_vars PROVE All'
<1>1. IInv' /\ RunOK'
  BY NextOK, RunStep DEF All
<1>2. QuietOK'
  <2>1. ASSUME NEW c \in Call, PlaceStep(c) \/ \E u \in Uid : PlaceOrder(c, u)
        PROVE  QuietOK'
    BY <2>1, CheckDuplicatesQuiet, CreateQuiet, PlaceOrderQuiet DEF PlaceStep
  <2>2. ASSUME NEW t \in Task, SubmitStep(t) PROVE QuietOK'
    BY <2>2, CalculateQuantityQuiet, AcceptedQuiet, RefusedQuiet, SaveSubmittedQuiet,
       DbFailsQuiet DEF SubmitStep
  <2>3. ASSUME NEW k \in Cron, CronTick(k) \/ CronStep(k) PROVE QuietOK'
    BY <2>3, CronTickQuiet, CronVisitQuiet, CronReapQuiet, TrackedQuiet,
       TrackFailsQuiet, FindPositionQuiet, WritePositionQuiet, SaveTrackedQuiet
       DEF CronStep
  <2>4. CASE UNCHANGED vars
    BY <2>4, StandsQuiet DEF vars
  <2>5. QED
    BY <2>1, <2>2, <2>3, <2>4, ExchangeStepQuiet, CrashQuiet, StartQuiet DEF Next
<1>3. QED  BY <1>1, <1>2 DEF All

THEOREM QuietInvariance == ASSUME ~OverlapAllowed PROVE Spec => []All
<1>1. Init => All
  BY InitOK, RunInit, QuietInit DEF All
<1>2. All /\ [Next]_vars => All'
  BY QuietStep
<1>3. QED  BY <1>1, <1>2, PTL DEF Spec

(* When no tick falls into a placement, an order object is sent to the     *)
(* exchange at most once by one process: by its call or by a run of the    *)
(* cron job, and by a run only while it is new.                            *)
THEOREM OrdersAreSubmittedOnce ==
    ASSUME ~OverlapAllowed PROVE Spec => []SubmittedOnce
<1>1. All => SubmittedOnce
  BY DEF All, QuietOK, SentOK
<1>2. QED  BY <1>1, QuietInvariance, PTL

(* When besides no call of the database fails, every active row has its    *)
(* object in this.orders while the process runs, however the exchange      *)
(* answers and wherever the process is ended.                              *)
THEOREM ActiveRowsAreTracked ==
    ASSUME ~OverlapAllowed, MaxDbFaults = 0 PROVE Spec => []ActiveRowIsTracked
<1>1. All => ActiveRowIsTracked
  BY DEF All, QuietOK, RowsFollow
<1>2. QED  BY <1>1, QuietInvariance, PTL

LEMMA SavedRow ==
    ASSUME All, NEW o, rows' \in {Saved(o), Updated(o)}, NEW u \in Uid, rows'[u] # rows[u]
    PROVE  u = o.uid
BY Typing DEF All, Saved, Updated

(* Under the same assumptions no save in flight is late: it finds its row  *)
(* active, so a row that has ended changes only when a new order takes its *)
(* uid.                                                                    *)
THEOREM EndedRowsStay ==
    ASSUME ~OverlapAllowed, MaxDbFaults = 0 PROVE Spec => TerminalIsFinal
<1>1. ASSUME All, NEW u \in Uid, IsTerminal(rows[u]), rows'[u] # rows[u], Next
      PROVE  \E c \in Call : task[c].pc = "create" /\ task[c].row.uid = u
  <2>1. ASSUME NEW c \in Call, PlaceStep(c) \/ \E v \in Uid : PlaceOrder(c, v)
        PROVE  task[c].pc = "create" /\ task[c].row.uid = u
    <3>1. task[c].pc = "create" /\ rows' = Saved(task[c].row)
      BY <1>1, <2>1 DEF PlaceStep, CheckDuplicates, Create, PlaceOrder
    <3>2. QED  BY <1>1, <3>1, SavedRow
  <2>2. ASSUME NEW t \in Task, task[t].pc \in Doing \cap Writing,
               rows' = Updated(task[t].row)
        PROVE  FALSE
    <3>1. task[t].row.uid = u
      BY <1>1, <2>2, SavedRow
    <3>2. task[t].row = heap[ObjOf(t)] /\ IsActive(rows[heap[ObjOf(t)].uid])
      BY <1>1, <2>2 DEF All, QuietOK, AheadOK, RowsFollow
    <3>3. QED  BY <1>1, <3>1, <3>2 DEF IsActive, IsTerminal
  <2>3. ASSUME NEW t \in Task, SubmitStep(t) PROVE FALSE
    <3>1. CASE SaveSubmitted(t)
      BY <2>2, <3>1, DoingFacts DEF SaveSubmitted, Writing
    <3>2. CASE ~SaveSubmitted(t)
      BY <1>1, <2>3, <3>2
         DEF SubmitStep, CalculateQuantity, Accepted, Refused, AcceptanceLost, DbFails
    <3>3. QED  BY <3>1, <3>2
  <2>4. ASSUME NEW k \in Cron, CronTick(k) \/ CronStep(k) PROVE FALSE
    <3>1. CASE SaveTracked(k)
      BY <2>2, <3>1, SetFacts, DoingFacts DEF SaveTracked, Writing
    <3>2. CASE ~SaveTracked(k)
      <4>1. CASE CronTick(k) \/ CronVisit(k) \/ CronReap(k)
        BY <1>1, <4>1 DEF CronTick, CronVisit, CronReap
      <4>2. CASE Tracked(k) \/ TrackFails(k)
        BY <1>1, <4>2 DEF Tracked, TrackFails
      <4>3. CASE FindPosition(k) \/ WritePosition(k)
        BY <1>1, <4>3 DEF FindPosition, WritePosition
      <4>4. QED  BY <2>4, <3>2, <4>1, <4>2, <4>3 DEF CronStep
    <3>3. QED  BY <3>1, <3>2
  <2>5. ~Crash /\ ~Start /\ \A x \in 1..Len(exch) : ~ExchangeStep(x)
    BY <1>1 DEF Crash, Start, ExchangeStep, Fill, EndUnfilled
  <2>6. QED  BY <1>1, <2>1, <2>3, <2>4, <2>5 DEF Next
<1>2. All /\ [Next]_vars =>
          [\A u \in Uid : IsTerminal(rows[u]) /\ rows'[u] # rows[u] =>
              \E c \in Call : task[c].pc = "create" /\ task[c].row.uid = u]_vars
  BY <1>1
<1>3. QED  BY <1>2, QuietInvariance, PTL DEF Spec, TerminalIsFinal

-----------------------------------------------------------------------------
(* Fills, while the process has not ended and no call has failed. *)

LEMMA Faultless ==
    ASSUME faults \in [crash : Nat, db : Nat, net : Nat]
    PROVE  NoFault <=> faults.crash = 0 /\ faults.db = 0 /\ faults.net = 0
BY DEF NoFault

LEMMA FaultIsNoted ==
    ASSUME All, All', NEW n \in {"crash", "db", "net"},
           faults' = [faults EXCEPT ![n] = @ + 1]
    PROVE  ~NoFault'
<1>1. faults[n] \in Nat /\ faults'[n] = faults[n] + 1 /\ n \in DOMAIN faults'
  BY Typing DEF All
<1>2. QED  BY <1>1 DEF NoFault

(* The object an exchange order was created for.                           *)
LEMMA SentBy ==
    ASSUME All, NoFault, FollowedOK, NEW x \in 1..Len(exch)
    PROVE  /\ exch[x].by \in Obj /\ ~Unsubmitted(heap[exch[x].by])
           /\ heap[exch[x].by].ext = x /\ heap[exch[x].by].uid = exch[x].uid
           /\ exch[x].uid \in Uid /\ up
<1>1. exch[x] \in ExchangeOrder /\ x # 0
  BY Typing DEF All
<1>2. exch[x].by \in Obj /\ exch[x].life \in Nat /\ exch[x].uid \in Uid
  BY <1>1 DEF ExchangeOrder
<1>3. faults.crash = 0
  BY Faultless, Typing DEF All
<1>4. exch[x].life <= faults.crash /\ (~up => exch[x].life < faults.crash)
  BY DEF All, QuietOK, SentOK
<1>5. exch[x].life = faults.crash /\ up
  BY <1>2, <1>3, <1>4
<1>6. ~Unsubmitted(heap[exch[x].by])
  BY <1>5 DEF All, QuietOK, SentOK
<1>7. heap[exch[x].by].ext = x
  BY DEF FollowedOK
<1>8. OwnId(heap[exch[x].by])
  BY <1>2 DEF All, IInv, HeapOK
<1>9. QED  BY <1>1, <1>2, <1>5, <1>6, <1>7, <1>8 DEF OwnId, NoId

(* The object whose answer a run handles.                                  *)
LEMMA AskedOf ==
    ASSUME All, AnswersOK, NEW k \in Cron, task[k].pc \in Asking
    PROVE  /\ task[k].order \in Obj /\ ~Unsubmitted(heap[task[k].order])
           /\ task[k].ext = heap[task[k].order].ext
           /\ task[k].ext \in 1..Len(exch) /\ credits[task[k].ext] = 0
           /\ Works(k) /\ task[k].pc \in OnOrder
<1>1. task[k].pc \in OnOrder /\ Works(k)
  BY DoingFacts DEF Asking, Works
<1>2. task[k].order \in Obj
  BY <1>1 DEF All, IInv, TasksOK, CronsOK
<1>3. task[k].pc = "track" => heap[task[k].order].status = "pending"
  BY DEF All, QuietOK, AheadOK
<1>4. task[k].pc # "track" => heap[task[k].order].status = "completed"
  BY DEF AnswersOK, Asking, Crediting
<1>5. task[k].ext = heap[task[k].order].ext
  BY DEF AnswersOK
<1>6. task[k].ext \in 1..Len(exch) /\ credits[task[k].ext] = 0
  BY DEF All, IInv, CreditOK
<1>7. QED  BY <1>1, <1>2, <1>3, <1>4, <1>5, <1>6 DEF Unsubmitted

(* A step that credits nothing, leaves what was submitted as it is, and    *)
(* gives up no fill a run is crediting.                                    *)
LEMMA FillsStay ==
    ASSUME All, FillsOK, UNCHANGED <<exch, credits, ledger, faults>>,
           \A o \in Obj : Unsubmitted(heap[o]) \/ heap'[o] = heap[o],
           \A o \in orders : heap[o].status = "pending" => o \in orders',
           \A k \in Cron :
              /\ task'[k].pc \in Asking => task'[k].ext = heap'[task'[k].order].ext
              /\ task'[k].pc \in Crediting =>
                    task[k].pc \in Crediting /\ task'[k].order = task[k].order
              /\ task[k].pc \in Crediting =>
                    \/ task'[k].pc \in Crediting /\ task'[k].order = task[k].order
                    \/ SideOf[heap[task[k].order].uid[1]] = "sell"
    PROVE  FillsOK'
<1> SUFFICES ASSUME NoFault PROVE (AnswersOK /\ FollowedOK /\ LedgerOK)'
  BY DEF FillsOK, NoFault
<1>1. AnswersOK /\ FollowedOK /\ LedgerOK
  BY DEF FillsOK
<1>2. ASSUME NEW k \in Cron, task'[k].pc \in Crediting
      PROVE  LET o == heap'[task'[k].order] IN
             /\ o.status = "completed" /\ o.filled = exch'[o.ext].filled
             /\ exch'[o.ext].status = "closed"
  <2>1. task[k].pc \in Crediting /\ task'[k].order = task[k].order
    BY <1>2
  <2>2. heap'[task[k].order] = heap[task[k].order]
    BY <1>1, <2>1, AskedOf DEF Crediting, Asking
  <2>3. QED  BY <1>1, <2>1, <2>2 DEF AnswersOK
<1>3. AnswersOK'
  BY <1>2 DEF AnswersOK
<1>4. ASSUME NEW x \in 1..Len(exch)
      PROVE  LET o == exch[x].by IN
             /\ heap'[o].ext = x
             /\ \/ heap'[o].status = "pending" /\ o \in orders'
                \/ \E k \in Cron : task'[k].pc \in Crediting /\ task'[k].order = o
                \/ exch[x].status = "canceled"
                \/ exch[x].status = "closed" /\ Booked(x)
  <2> DEFINE o == exch[x].by
  <2>1. o \in Obj /\ heap'[o] = heap[o] /\ heap[o].ext = x /\ heap[o].uid = exch[x].uid
    BY <1>1, SentBy
  <2>2. CASE heap[o].status = "pending" /\ o \in orders
    BY <2>1, <2>2
  <2>3. ASSUME NEW k \in Cron, task[k].pc \in Crediting, task[k].order = o
        PROVE  \/ \E j \in Cron : task'[j].pc \in Crediting /\ task'[j].order = o
               \/ exch[x].status = "closed" /\ Booked(x)
    <3>1. exch[x].status = "closed"
      BY <1>1, <2>1, <2>3 DEF AnswersOK
    <3>2. QED  BY <2>1, <2>3, <3>1 DEF Booked
  <2>4. QED  BY <1>1, <2>1, <2>2, <2>3 DEF FollowedOK
<1>5. FollowedOK'
  BY <1>4 DEF FollowedOK, Booked
<1>6. LedgerOK'
  BY <1>1 DEF LedgerOK, OnlyBought, OrdersOf, Share
<1>7. QED  BY <1>3, <1>5, <1>6

(* A step of a task that is not crediting and does not come to ask.        *)
LEMMA FillsStayAside ==
    ASSUME All, FillsOK, NEW t \in Task, task[t].pc \notin Crediting,
           UNCHANGED <<exch, credits, ledger, faults>>,
           \A r \in Task \ {t} : task'[r] = task[r], task'[t].pc \notin Asking,
           \A o \in Obj : Unsubmitted(heap[o]) \/ heap'[o] = heap[o],
           \A o \in orders : heap[o].status = "pending" => o \in orders'
    PROVE  FillsOK'
<1> SUFFICES ASSUME NoFault' PROVE FillsOK'
  BY DEF FillsOK
<1>1. NoFault /\ AnswersOK
  BY DEF FillsOK, NoFault
<1>2. ASSUME NEW k \in Cron
      PROVE  /\ task'[k].pc \in Asking => task'[k].ext = heap'[task'[k].order].ext
             /\ task'[k].pc \in Crediting =>
                   task[k].pc \in Crediting /\ task'[k].order = task[k].order
             /\ task[k].pc \in Crediting =>
                   task'[k].pc \in Crediting /\ task'[k].order = task[k].order
  <2>1. CASE k = t
    BY <2>1 DEF Asking, Crediting
  <2>2. CASE k # t
    <3>1. task'[k] = task[k]
      BY <2>2, SetFacts
    <3>2. task[k].pc \in Asking => heap'[task[k].order] = heap[task[k].order]
      BY <1>1, AskedOf
    <3>3. QED  BY <1>1, <3>1, <3>2 DEF AnswersOK
  <2>3. QED  BY <2>1, <2>2
<1>3. QED  BY <1>2, FillsStay

LEMMA PlaceStepFills ==
    ASSUME All, FillsOK, NEW c \in Call, PlaceStep(c) \/ \E u \in Uid : PlaceOrder(c, u)
    PROVE  FillsOK'
<1>1. /\ c \in Task /\ c \in Obj /\ ObjOf(c) = c /\ UNCHANGED <<exch, credits, ledger, faults>>
      /\ task \in [Task -> TaskState] /\ heap \in [Obj -> Order]
  BY SetFacts, Typing
     DEF PlaceStep, PlaceOrder, CheckDuplicates, Create, memory, history, ObjOf, All
<1>2. /\ task[c].pc \notin Crediting
      /\ \A r \in Task \ {c} : task'[r] = task[r]
      /\ task'[c].pc \notin Asking
  <2>1. CASE \E u \in Uid : PlaceOrder(c, u)
    <3>1. task[c].pc = "idle" /\ task' = [task EXCEPT ![c].pc = "find"]
      BY <2>1 DEF PlaceOrder
    <3>2. QED  BY <1>1, <3>1, TaskPc, LocationFacts DEF Asking, Crediting
  <2>2. CASE CheckDuplicates(c)
    <3>1. /\ task[c].pc = "find"
          /\ \/ task' = [task EXCEPT ![c] = Done]
             \/ /\ task' = [task EXCEPT ![c].pc = "create", ![c].row = heap'[c]]
                /\ heap' = [heap EXCEPT ![c].status = "new"]
      BY <2>2 DEF CheckDuplicates
    <3>2. CASE task' = [task EXCEPT ![c] = Done]
      BY <1>1, <3>1, <3>2, IdleTask, TaskWhole DEF Asking, Crediting
    <3>3. CASE /\ task' = [task EXCEPT ![c].pc = "create", ![c].row = heap'[c]]
               /\ heap' = [heap EXCEPT ![c].status = "new"]
      <4>1. heap' \in [Obj -> Order]
        BY <1>1, <3>3, HeapStatus, StatusFacts
      <4>2. PICK r \in Order : r = heap'[c]
        BY <1>1, <4>1
      <4>3. task' = [task EXCEPT ![c].pc = "create", ![c].row = r]
        BY <3>3, <4>2
      <4>4. task'[c].pc = "create" /\ \A s \in Task \ {c} : task'[s] = task[s]
        BY <1>1, <4>3, LocationFacts, TaskRow
      <4>5. QED  BY <3>1, <4>4 DEF Asking, Crediting
    <3>4. QED  BY <3>1, <3>2, <3>3
  <2>3. CASE Create(c)
    <3>1. task[c].pc = "create" /\ task' = [task EXCEPT ![c].pc = "quantity", ![c].row = Blank]
      BY <2>3 DEF Create
    <3>2. task'[c].pc = "quantity" /\ \A s \in Task \ {c} : task'[s] = task[s]
      BY <1>1, <3>1, BlankOrder, LocationFacts, TaskRow
    <3>3. QED  BY <3>1, <3>2 DEF Asking, Crediting
  <2>4. QED  BY <2>1, <2>2, <2>3 DEF PlaceStep
<1>3. \A o \in Obj : Unsubmitted(heap[o]) \/ heap'[o] = heap[o]
  <2>1. CASE \E u \in Uid : PlaceOrder(c, u)
    <3>1. Unsubmitted(heap[c])
      BY <2>1, BlankOrder DEF PlaceOrder, All, IInv, HeapOK, Unsubmitted
    <3>2. \A o \in Obj : o # c => heap'[o] = heap[o]
      BY <1>1, <2>1 DEF PlaceOrder
    <3>3. QED  BY <3>1, <3>2
  <2>2. CASE CheckDuplicates(c)
    <3>1. Unsubmitted(heap[c])
      BY <2>2 DEF CheckDuplicates, All, QuietOK, AheadOK
    <3>2. \A o \in Obj : o # c => heap'[o] = heap[o]
      BY <1>1, <2>2 DEF CheckDuplicates
    <3>3. QED  BY <3>1, <3>2
  <2>3. CASE Create(c)
    BY <2>3 DEF Create
  <2>4. QED  BY <2>1, <2>2, <2>3 DEF PlaceStep
<1>4. orders \subseteq orders'
  BY DEF PlaceStep, PlaceOrder, CheckDuplicates, Create, memory
<1>5. QED  BY <1>1, <1>2, <1>3, <1>4, FillsStayAside

LEMMA SetAndSaveFills ==
    ASSUME All, FillsOK, NEW t \in Task, task[t].pc \in {"quantity", "submit"},
           NEW l \in {"saveTry", "saveFailed"}, SetAndSave(t, "failed", l),
           UNCHANGED <<orders, exch, credits, ledger, faults>>
    PROVE  FillsOK'
<1>1. /\ ObjOf(t) \in Obj /\ heap[ObjOf(t)].status = "new"
      /\ task \in [Task -> TaskState] /\ heap \in [Obj -> Order]
  <2>1. Works(t)
    BY DoingFacts DEF Works
  <2>2. QED  BY <2>1, AtWork, Typing DEF All, QuietOK, AheadOK
<1>2. heap' \in [Obj -> Order] /\ \A o \in Obj \ {ObjOf(t)} : heap'[o] = heap[o]
  <2>1. heap' = [heap EXCEPT ![ObjOf(t)].status = "failed"]
    BY DEF SetAndSave
  <2>2. QED  BY <1>1, <2>1, HeapStatus, StatusFacts
<1>3. heap'[ObjOf(t)] \in Order /\ l \in Locations
  BY <1>1, <1>2, LocationFacts
<1>4. /\ task'[t].pc = l /\ \A r \in Task \ {t} : task'[r] = task[r]
  <2>1. task' = [task EXCEPT ![t].pc = l, ![t].row = heap'[ObjOf(t)]]
    BY DEF SetAndSave
  <2>2. QED  BY <1>1, <1>3, <2>1, TaskRow
<1>5. \A o \in Obj : Unsubmitted(heap[o]) \/ heap'[o] = heap[o]
  BY <1>1, <1>2 DEF Unsubmitted
<1>6. task[t].pc \notin Crediting /\ task'[t].pc \notin Asking
  BY <1>4 DEF Crediting, Asking
<1>7. QED  BY <1>4, <1>5, <1>6, FillsStayAside

LEMMA CalculateQuantityFills ==
    ASSUME All, FillsOK, NEW t \in Task, CalculateQuantity(t) \/ Refused(t)
    PROVE  FillsOK'
<1>1. /\ task[t].pc \in {"quantity", "submit"}
      /\ UNCHANGED <<orders, exch, credits, ledger, faults>>
      /\ task \in [Task -> TaskState]
  BY Typing DEF CalculateQuantity, Refused, memory, history, All
<1>2. CASE SetAndSave(t, "failed", "saveTry") \/ SetAndSave(t, "failed", "saveFailed")
  BY <1>1, <1>2, SetAndSaveFills
<1>3. CASE task' = [task EXCEPT ![t].pc = "submit"] /\ heap' = heap
  <2>1. task'[t].pc = "submit" /\ \A r \in Task \ {t} : task'[r] = task[r]
    BY <1>1, <1>3, TaskPc, LocationFacts
  <2>2. task[t].pc \notin Crediting /\ task'[t].pc \notin Asking
    BY <1>1, <2>1 DEF Crediting, Asking
  <2>3. QED  BY <1>1, <1>3, <2>1, <2>2, FillsStayAside
<1>4. QED  BY <1>2, <1>3 DEF CalculateQuantity, Refused

LEMMA SaveFills ==
    ASSUME All, FillsOK, NEW t \in Task, SaveSubmitted(t) \/ (t \in Cron /\ SaveTracked(t))
    PROVE  FillsOK'
<1>1. /\ task[t].pc \in {"saveTry", "saveFailed", "saveTracked"}
      /\ UNCHANGED <<orders, heap, exch, credits, ledger, faults>>
      /\ task \in [Task -> TaskState]
  BY Typing DEF SaveSubmitted, SaveTracked, memory, history, All
<1>2. task'[t].pc \in {"reap", "done"} /\ \A r \in Task \ {t} : task'[r] = task[r]
  <2>1. CASE SaveSubmitted(t)
    <3>1. task' = [task EXCEPT ![t] = [AfterSubmit(t) EXCEPT !.row = Blank]]
      BY <2>1 DEF SaveSubmitted
    <3>2. AfterSubmit(t) \in TaskState /\ AfterSubmit(t).pc \in {"reap", "done"}
      <4>1. [task[t] EXCEPT !.pc = "reap"] \in TaskState
            /\ [task[t] EXCEPT !.pc = "reap"].pc = "reap"
        BY <1>1, LocationFacts DEF TaskState
      <4>2. QED  BY <4>1, IdleTask DEF AfterSubmit
    <3> DEFINE s == [AfterSubmit(t) EXCEPT !.row = Blank]
    <3>3. s.pc \in {"reap", "done"}
      BY <3>2 DEF TaskState
    <3>4. task' = [task EXCEPT ![t] = s]
      BY <3>1
    <3> HIDE DEF s
    <3>5. QED  BY <1>1, <3>3, <3>4
  <2>2. CASE SaveTracked(t)
    <3>1. task' = [task EXCEPT ![t].pc = "reap", ![t].row = Blank]
      BY <2>2 DEF SaveTracked
    <3>2. QED  BY <1>1, <3>1, TaskRow, BlankOrder, LocationFacts
  <2>3. QED  BY <2>1, <2>2
<1>3. task[t].pc \notin Crediting /\ task'[t].pc \notin Asking
  BY <1>1, <1>2 DEF Crediting, Asking
<1>4. QED  BY <1>1, <1>2, <1>3, FillsStayAside

LEMMA CronTickFills == ASSUME All, FillsOK, NEW k \in Cron, CronTick(k) PROVE FillsOK'
<1>1. /\ task[k].pc = "idle" /\ UNCHANGED <<orders, heap, exch, credits, ledger, faults>>
      /\ task \in [Task -> TaskState] /\ orders \subseteq Obj /\ k \in Task
  BY Typing, SetFacts DEF CronTick, memory, history, All
<1>2. CASE task' = task
  BY <1>1, <1>2, FillsStayAside, SetFacts DEF Crediting, Asking
<1>3. CASE task' = [task EXCEPT ![k].pc = "loop", ![k].todo = orders]
  <2> DEFINE s == [task[k] EXCEPT !.pc = "loop", !.todo = orders]
  <2>1. task' = [task EXCEPT ![k] = s] /\ s.pc = "loop"
    BY <1>1, <1>3 DEF TaskState
  <2> HIDE DEF s
  <2>2. task'[k].pc = "loop" /\ \A r \in Task \ {k} : task'[r] = task[r]
    BY <1>1, <2>1
  <2>3. task[k].pc \notin Crediting /\ task'[k].pc \notin Asking
    BY <1>1, <2>2 DEF Crediting, Asking
  <2>4. QED  BY <1>1, <2>2, <2>3, FillsStayAside
<1>4. QED  BY <1>2, <1>3 DEF CronTick

(* Only what has ended leaves this.orders.                                 *)
LEMMA CronReapFills == ASSUME All, FillsOK, NEW k \in Cron, CronReap(k) PROVE FillsOK'
<1>1. /\ task[k].pc = "reap" /\ UNCHANGED <<heap, exch, credits, ledger, faults>>
      /\ task \in [Task -> TaskState] /\ orders \subseteq Obj /\ k \in Task
      /\ LET o == heap[task[k].order] IN
         orders' = IF IsTerminal(o) THEN {p \in orders : heap[p].uid # o.uid}
                                    ELSE orders
  BY Typing, SetFacts DEF CronReap, memory, history, All
<1>2. task'[k].pc \in {"idle", "loop"} /\ \A r \in Task \ {k} : task'[r] = task[r]
  <2>1. CASE task' = [task EXCEPT ![k] = Idle]
    BY <1>1, <2>1, IdleTask
  <2>2. CASE task' = [task EXCEPT ![k] = [Idle EXCEPT !.pc = "loop", !.todo = task[k].todo]]
    <3> DEFINE s == [Idle EXCEPT !.pc = "loop", !.todo = task[k].todo]
    <3>1. task' = [task EXCEPT ![k] = s] /\ s.pc = "loop"
      BY <2>2, IdleTask DEF TaskState
    <3> HIDE DEF s
    <3>2. QED  BY <1>1, <3>1
  <2>3. QED  BY <2>1, <2>2 DEF CronReap
<1>3. task[k].order \in orders
  BY <1>1, DoingFacts DEF All, RunOK
<1>4. ASSUME NEW o \in orders, heap[o].status = "pending" PROVE o \in orders'
  <2>1. CASE ~IsTerminal(heap[task[k].order])
    BY <1>1, <2>1
  <2>2. CASE IsTerminal(heap[task[k].order])
    <3>1. o # task[k].order
      BY <1>4, <2>2 DEF IsTerminal
    <3>2. heap[o].uid # heap[task[k].order].uid
      BY <1>3, <3>1 DEF All, IInv, UniqueInMemory
    <3>3. QED  BY <1>1, <2>2, <3>2
  <2>3. QED  BY <2>1, <2>2
<1>5. task[k].pc \notin Crediting /\ task'[k].pc \notin Asking
  BY <1>1, <1>2 DEF Crediting, Asking
<1>6. QED  BY <1>1, <1>2, <1>4, <1>5, FillsStayAside

(* A visit asks for the exchange order the object names.                   *)
LEMMA CronVisitFills == ASSUME All, FillsOK, NEW k \in Cron, CronVisit(k) PROVE FillsOK'
<1> SUFFICES ASSUME NoFault' PROVE FillsOK'
  BY DEF FillsOK
<1>1. /\ task[k].pc = "loop" /\ UNCHANGED <<orders, heap, exch, credits, ledger, faults>>
      /\ task \in [Task -> TaskState] /\ k \in Task
  BY Typing, SetFacts DEF CronVisit, memory, history, All
<1>2. NoFault /\ AnswersOK
  BY <1>1 DEF FillsOK, NoFault
<1>3. PICK o \in task[k].todo :
          task' = [task EXCEPT ![k] =
                      [pc |-> Visit(heap[o]), order |-> o, row |-> Blank,
                       ext |-> heap[o].ext, write |-> NoWrite,
                       todo |-> task[k].todo \ {o}]]
  BY DEF CronVisit
<1> DEFINE s == [pc |-> Visit(heap[o]), order |-> o, row |-> Blank,
                 ext |-> heap[o].ext, write |-> NoWrite,
                 todo |-> task[k].todo \ {o}]
<1>4. task' = [task EXCEPT ![k] = s] /\ s.order = o /\ s.ext = heap[o].ext
      /\ s.pc = Visit(heap[o])
  BY <1>3
<1> HIDE DEF s
<1>5. task'[k] = s /\ \A r \in Task \ {k} : task'[r] = task[r]
  BY <1>1, <1>4
<1>6. s.pc \notin Crediting
  BY <1>4 DEF Visit, Crediting
<1>7. ASSUME NEW j \in Cron
      PROVE  /\ task'[j].pc \in Asking => task'[j].ext = heap'[task'[j].order].ext
             /\ task'[j].pc \in Crediting =>
                   task[j].pc \in Crediting /\ task'[j].order = task[j].order
             /\ task[j].pc \in Crediting =>
                   task'[j].pc \in Crediting /\ task'[j].order = task[j].order
  <2>1. CASE j = k
    BY <1>1, <1>4, <1>5, <1>6, <2>1 DEF Crediting
  <2>2. CASE j # k
    <3>1. task'[j] = task[j]
      BY <1>5, <2>2, SetFacts
    <3>2. QED  BY <1>1, <1>2, <3>1 DEF AnswersOK
  <2>3. QED  BY <2>1, <2>2
<1>8. QED  BY <1>1, <1>7, FillsStay

(* Only of a sale does a run find nothing to write.                        *)
LEMMA FindPositionFills ==
    ASSUME All, FillsOK, NEW k \in Cron, FindPosition(k) PROVE FillsOK'
<1> SUFFICES ASSUME NoFault' PROVE FillsOK'
  BY DEF FillsOK
<1>1. /\ task[k].pc = "findPosition"
      /\ UNCHANGED <<orders, heap, exch, credits, ledger, faults>>
      /\ task \in [Task -> TaskState] /\ k \in Task
  BY Typing, SetFacts DEF FindPosition, memory, history, All
<1>2. NoFault /\ AnswersOK
  BY <1>1 DEF FillsOK, NoFault
<1> DEFINE o == heap[task[k].order]
           w == PlannedWrite(SideOfOrder(o), positions[PairOfOrder(o)], o.filled)
<1>3. o \in Order /\ o.uid \in Uid
  <2>1. task[k].order \in Obj /\ Placed(o)
    BY <1>1 DEF All, IInv, TasksOK, CronsOK, OnOrder
  <2>2. heap[task[k].order] \in Order
    BY <2>1, Typing DEF All
  <2>3. QED  BY <2>1, <2>2
<1>4. w = NoWrite => SideOf[o.uid[1]] = "sell"
  <2> DEFINE a == o.uid[1]
  <2>1. a \in Action
    BY <1>3 DEF Uid
  <2>2. SideOf[a] \in {"buy", "sell"} /\ PairOf[a] \in Pair
    <3> HIDE DEF a
    <3>1. QED  BY <2>1
  <2>3. CASE SideOf[o.uid[1]] = "buy"
    <3>1. w = [kind |-> "resize", qty |-> positions[PairOfOrder(o)].qty + o.filled]
          \/ w = [kind |-> "open", qty |-> o.filled]
      <4>1. positions[PairOfOrder(o)].isOpen \in BOOLEAN
        <5>1. positions \in [Pair -> Position] /\ PairOfOrder(o) \in Pair
          BY <2>2 DEF All, IInv, TypeOK, PairOfOrder
        <5>2. QED  BY <5>1 DEF Position
      <4>2. QED  BY <2>3, <4>1 DEF PlannedWrite, SideOfOrder
    <3>2. w.kind # "none"
      BY <3>1
    <3>3. QED  BY <3>2 DEF NoWrite
  <2>4. QED  BY <2>2, <2>3
<1>5. /\ \A r \in Task \ {k} : task'[r] = task[r]
      /\ \/ task'[k].pc = "saveTracked" /\ SideOf[o.uid[1]] = "sell"
         \/ task'[k].pc = "writePosition" /\ task'[k].order = task[k].order
            /\ task'[k].ext = task[k].ext
  <2>1. CASE w = NoWrite
    <3>1. task' = [task EXCEPT ![k].pc = "saveTracked", ![k].row = o]
      BY <2>1 DEF FindPosition
    <3> HIDE DEF w, o
    <3>2. QED  BY <1>1, <1>3, <1>4, <2>1, <3>1, TaskSaving
  <2>2. CASE w # NoWrite
    <3>1. task' = [task EXCEPT ![k].pc = "writePosition", ![k].write = w]
      BY <2>2 DEF FindPosition
    <3> DEFINE s == [task[k] EXCEPT !.pc = "writePosition", !.write = w]
    <3>2. task' = [task EXCEPT ![k] = s]
      BY <3>1
    <3>3. task[k] \in TaskState
      BY <1>1
    <3> HIDE DEF w, o
    <3>4. s.pc = "writePosition" /\ s.order = task[k].order /\ s.ext = task[k].ext
      BY <3>3 DEF TaskState
    <3> HIDE DEF s
    <3>5. QED  BY <1>1, <3>2, <3>4
  <2>3. QED  BY <2>1, <2>2
<1>6. ASSUME NEW j \in Cron
      PROVE  /\ task'[j].pc \in Asking => task'[j].ext = heap'[task'[j].order].ext
             /\ task'[j].pc \in Crediting =>
                   task[j].pc \in Crediting /\ task'[j].order = task[j].order
             /\ task[j].pc \in Crediting =>
                   \/ task'[j].pc \in Crediting /\ task'[j].order = task[j].order
                   \/ SideOf[heap[task[j].order].uid[1]] = "sell"
  <2>1. CASE j = k
    BY <1>1, <1>2, <1>5, <2>1 DEF Crediting, Asking, AnswersOK
  <2>2. CASE j # k
    <3>1. task'[j] = task[j]
      BY <1>5, <2>2, SetFacts
    <3>2. QED  BY <1>1, <1>2, <3>1 DEF AnswersOK
  <2>3. QED  BY <2>1, <2>2
<1>7. QED  BY <1>1, <1>6, FillsStay

(* A run at work is the only one that is not idle.                         *)
LEMMA OneRun ==
    ASSUME All, NEW k \in Cron, task[k].pc \in Asking, NEW j \in Cron, j # k
    PROVE  task[j].pc = "idle" /\ task[j].pc \notin Asking /\ task[j].pc \notin Crediting
<1>1. task[k].pc # "idle"
  BY DEF Asking
<1>2. task[j].pc = "idle"
  BY <1>1 DEF All, IInv, ProcessOK
<1>3. QED  BY <1>2 DEF Asking, Crediting

(* What a run learns of an exchange order.                                 *)
LEMMA LearntFills ==
    ASSUME All, FillsOK, NEW k \in Cron, task[k].pc = "track",
           UNCHANGED <<orders, exch, credits, ledger, faults>>,
           \A r \in Task \ {k} : task'[r] = task[r],
           NEW o \in Obj, o = task[k].order,
           \A p \in Obj \ {o} : heap'[p] = heap[p],
           heap'[o].ext = heap[o].ext,
           \/ /\ task'[k].pc = "findPosition" /\ task'[k].order = o
              /\ task'[k].ext = task[k].ext
              /\ heap'[o].status = "completed"
              /\ heap'[o].filled = exch[task[k].ext].filled
              /\ exch[task[k].ext].status = "closed"
           \/ /\ task'[k].pc \notin Asking
              /\ exch[task[k].ext].status = "canceled" \/ heap'[o].status = "pending"
    PROVE  FillsOK'
<1> SUFFICES ASSUME NoFault PROVE (AnswersOK /\ FollowedOK /\ LedgerOK)'
  BY DEF FillsOK, NoFault
<1>1. AnswersOK /\ FollowedOK /\ LedgerOK /\ task[k].pc \in Asking
  BY DEF FillsOK, Asking
<1>2. /\ task[k].ext = heap[o].ext /\ Works(k) /\ o \in orders
  <2>1. task[k].ext = heap[o].ext /\ Works(k)
    BY <1>1, AskedOf
  <2>2. QED  BY <2>1, AtWork, SetFacts DEF All, RunOK
<1>3. \A j \in Cron \ {k} : task'[j] = task[j] /\ task[j].pc \notin Asking
                            /\ task[j].pc \notin Crediting
  BY <1>1, OneRun, SetFacts
<1>4. AnswersOK'
  <2>1. /\ task'[k].pc \in Asking => task'[k].ext = heap'[task'[k].order].ext
        /\ task'[k].pc \in Crediting =>
              LET q == heap'[task'[k].order] IN
              q.status = "completed" /\ q.filled = exch[q.ext].filled
              /\ exch[q.ext].status = "closed"
    BY <1>2 DEF Asking, Crediting
  <2>2. QED  BY <1>3, <2>1 DEF AnswersOK
<1>5. ASSUME NEW y \in 1..Len(exch)
      PROVE  LET q == exch[y].by IN
             /\ heap'[q].ext = y
             /\ \/ heap'[q].status = "pending" /\ q \in orders
                \/ \E j \in Cron : task'[j].pc \in Crediting /\ task'[j].order = q
                \/ exch[y].status = "canceled"
                \/ exch[y].status = "closed" /\ Booked(y)
  <2> DEFINE q == exch[y].by
  <2>1. q \in Obj /\ heap[q].ext = y
    BY <1>1, SentBy
  <2>2. CASE q = o
    <3>1. heap'[q].ext = y /\ task[k].ext = y
      BY <1>2, <2>1, <2>2
    <3>2. CASE task'[k].pc = "findPosition" /\ task'[k].order = o
      BY <2>2, <3>1, <3>2 DEF Crediting
    <3>3. QED  BY <1>2, <2>2, <3>1, <3>2
  <2>3. CASE q # o
    <3>1. heap'[q] = heap[q]
      BY <2>1, <2>3
    <3>2. ~\E j \in Cron : task[j].pc \in Crediting
      BY <1>3 DEF Crediting
    <3>3. QED  BY <1>1, <2>1, <3>1, <3>2 DEF FollowedOK
  <2>4. QED  BY <2>2, <2>3
<1>6. FollowedOK'
  BY <1>5 DEF FollowedOK, Booked
<1>7. LedgerOK'
  BY <1>1 DEF LedgerOK, OnlyBought, OrdersOf, Share
<1>8. QED  BY <1>4, <1>6, <1>7

LEMMA TrackedFills == ASSUME All, FillsOK, NEW k \in Cron, Tracked(k) PROVE FillsOK'
<1>1. /\ task[k].pc = "track" /\ UNCHANGED <<orders, exch, credits, ledger, faults>>
      /\ task \in [Task -> TaskState] /\ heap \in [Obj -> Order] /\ k \in Task
  BY Typing, SetFacts DEF Tracked, memory, history, All
<1>2. PICK o \in Obj : o = task[k].order /\ ObjOf(k) = o /\ heap[o].status = "pending"
  BY <1>1, SetFacts DEF All, IInv, TasksOK, CronsOK, OnOrder, QuietOK, AheadOK, ObjOf
<1>3. exch[task[k].ext] \in ExchangeOrder
  BY <1>1, Typing DEF All, IInv, CreditOK, Asking
<1>4. PICK f \in Nat : f = exch[task[k].ext].filled
  BY <1>3 DEF ExchangeOrder
<1>5. CASE /\ exch[task[k].ext].status = "closed"
           /\ heap' = [heap EXCEPT ![o].status = "completed", ![o].filled = f]
           /\ task' = [task EXCEPT ![k].pc = "findPosition"]
  <2>1. /\ heap'[o].status = "completed" /\ heap'[o].filled = f
        /\ heap'[o].ext = heap[o].ext
        /\ \A p \in Obj \ {o} : heap'[p] = heap[p]
    <3> DEFINE h == [heap[o] EXCEPT !.status = "completed", !.filled = f]
    <3>1. heap' = [heap EXCEPT ![o] = h] /\ heap[o] \in Order
      BY <1>1, <1>5
    <3>2. h.status = "completed" /\ h.filled = f /\ h.ext = heap[o].ext
      BY <3>1 DEF Order
    <3> HIDE DEF h
    <3>3. QED  BY <1>1, <3>1, <3>2
  <2>2. /\ task'[k].pc = "findPosition" /\ task'[k].order = o
        /\ task'[k].ext = task[k].ext
        /\ \A s \in Task \ {k} : task'[s] = task[s]
    BY <1>1, <1>2, <1>5, TaskPc, LocationFacts
  <2>3. QED  BY <1>1, <1>2, <1>4, <1>5, <2>1, <2>2, LearntFills
<1>6. CASE exch[task[k].ext].status = "canceled" /\ SetAndSave(k, "cancelled", "saveTracked")
  <2>1. heap' = [heap EXCEPT ![o].status = "cancelled"]
    BY <1>2, <1>6 DEF SetAndSave
  <2>2. /\ heap' \in [Obj -> Order] /\ heap'[o].ext = heap[o].ext
        /\ \A p \in Obj \ {o} : heap'[p] = heap[p]
    BY <1>1, <2>1, HeapStatus, StatusFacts
  <2>3. PICK r \in Order : r = heap'[o]
    BY <2>2
  <2>4. task' = [task EXCEPT ![k].pc = "saveTracked", ![k].row = r]
    BY <1>2, <1>6, <2>3 DEF SetAndSave
  <2>5. task'[k].pc = "saveTracked" /\ \A s \in Task \ {k} : task'[s] = task[s]
    BY <1>1, <2>4, TaskSaving
  <2>6. task'[k].pc \notin Asking
    BY <2>5 DEF Asking
  <2>7. QED  BY <1>1, <1>2, <1>6, <2>2, <2>5, <2>6, LearntFills
<1>7. CASE /\ heap' = [heap EXCEPT ![o].filled = f]
           /\ task' = [task EXCEPT ![k].pc = "saveTracked", ![k].row = heap'[o]]
  <2>1. /\ heap' \in [Obj -> Order]
        /\ heap'[o].status = "pending" /\ heap'[o].ext = heap[o].ext
        /\ \A p \in Obj \ {o} : heap'[p] = heap[p]
    BY <1>1, <1>2, <1>7 DEF Order
  <2>2. PICK r \in Order : r = heap'[o]
    BY <2>1
  <2>3. task' = [task EXCEPT ![k].pc = "saveTracked", ![k].row = r]
    BY <1>7, <2>2
  <2>4. task'[k].pc = "saveTracked" /\ \A s \in Task \ {k} : task'[s] = task[s]
    BY <1>1, <2>3, TaskSaving
  <2>5. task'[k].pc \notin Asking
    BY <2>4 DEF Asking
  <2>6. QED  BY <1>1, <1>2, <2>1, <2>4, <2>5, LearntFills
<1>8. CASE heap' = heap /\ task' = [task EXCEPT ![k].pc = "reap"]
  <2>1. task'[k].pc = "reap" /\ \A s \in Task \ {k} : task'[s] = task[s]
    BY <1>1, <1>8, TaskPc, LocationFacts
  <2>2. task'[k].pc \notin Asking
    BY <2>1 DEF Asking
  <2>3. QED  BY <1>1, <1>2, <1>8, <2>1, <2>2, LearntFills
<1>9. QED  BY <1>2, <1>4, <1>5, <1>6, <1>7, <1>8 DEF Tracked

LEMMA ExchangeNumbers == IsFiniteSet(1..MaxExchangeOrders)
<1>1. MaxExchangeOrders \in Nat
  OBVIOUS
<1>2. QED  BY <1>1, FS_Interval

(* As long as what was credited stays what it is, so do the sums.          *)
LEMMA SharesStay ==
    ASSUME All, LedgerOK,
           \A x \in 1..MaxExchangeOrders : credits'[x] = 1 <=> credits[x] = 1,
           \A x \in 1..Len(exch) : credits[x] = 1 =>
              exch'[x].filled = exch[x].filled /\ exch'[x].uid = exch[x].uid,
           NEW p \in Pair
    PROVE  SumFunctionOnSet(Share(p)', 1..MaxExchangeOrders)
             = SumFunctionOnSet(Share(p), 1..MaxExchangeOrders)
<1>1. Len(exch) \in Nat /\ MaxExchangeOrders \in Nat
  BY Typing DEF All
<1>2. \A x \in 1..MaxExchangeOrders : credits[x] = 1 => x \in 1..Len(exch)
  BY <1>1 DEF All, IInv, CreditOK
<1>3. \A x \in 1..MaxExchangeOrders : Share(p)'[x] = Share(p)[x]
  BY <1>2 DEF Share
<1>4. IsFiniteSet(1..MaxExchangeOrders)
  BY ExchangeNumbers
<1> DEFINE g == Share(p)'  h == Share(p)
<1>5. \A x \in 1..MaxExchangeOrders : g[x] = h[x]
  BY <1>3
<1> HIDE DEF g, h
<1>6. SumFunctionOnSet(g, 1..MaxExchangeOrders) = SumFunctionOnSet(h, 1..MaxExchangeOrders)
  BY <1>4, <1>5, SumEqual
<1>7. QED  BY <1>6 DEF g, h

LEMMA AcceptedFills == ASSUME All, FillsOK, NEW t \in Task, Accepted(t) PROVE FillsOK'
<1> SUFFICES ASSUME NoFault' PROVE (AnswersOK /\ FollowedOK /\ LedgerOK)'
  BY DEF FillsOK
<1> DEFINE o == ObjOf(t)  n == Len(exch')
           h == [heap[o] EXCEPT !.ext = n, !.status = "pending"]
<1>1. /\ task[t].pc = "submit" /\ NewExchangeOrder(t)
      /\ UNCHANGED <<orders, credits, ledger, faults>>
      /\ heap' = [heap EXCEPT ![o] = h]
      /\ task' = [task EXCEPT ![t].pc = "saveTry", ![t].row = heap'[o]]
      /\ task \in [Task -> TaskState] /\ heap \in [Obj -> Order]
  BY Typing DEF Accepted, memory, history, Submitted, All
<1>2. NoFault /\ AnswersOK /\ FollowedOK /\ LedgerOK
  BY <1>1 DEF FillsOK, NoFault
<1>3. o \in Obj /\ o \in orders /\ heap[o].status = "new" /\ heap[o].uid \in Uid
  <2>1. Works(t)
    BY <1>1, DoingFacts DEF Works
  <2>2. QED  BY <1>1, <2>1, AtWork DEF All, QuietOK, AheadOK
<1>4. PICK e : /\ exch' = Append(exch, e) /\ e.by = o
               /\ e.uid = heap[o].uid /\ e.status = "open" /\ e.filled = 0
  BY <1>1 DEF NewExchangeOrder
<1>5. /\ Len(exch) \in Nat /\ n = Len(exch) + 1 /\ n <= MaxExchangeOrders
      /\ exch'[n] = e
      /\ \A x \in 1..Len(exch) : exch'[x] = exch[x]
  <2>1. exch \in Seq(ExchangeOrder) /\ Len(exch) < MaxExchangeOrders
    BY <1>1, Typing DEF All, NewExchangeOrder
  <2>2. e \in ExchangeOrder
    <3>1. IInv'
      BY <1>1, NextOK DEF All, Next, SubmitStep
    <3>2. exch' \in Seq(ExchangeOrder)
      BY <3>1 DEF IInv, TypeOK
    <3>3. Len(exch') = Len(exch) + 1 /\ exch'[Len(exch) + 1] = e
      BY <1>4, <2>1
    <3>4. QED  BY <2>1, <3>2, <3>3
  <2>3. QED  BY <1>4, <2>1, <2>2
<1>6. /\ heap'[o] = h /\ \A p \in Obj \ {o} : heap'[p] = heap[p]
  BY <1>1, <1>3
<1>7. h.ext = n /\ h.status = "pending"
  BY <1>1, <1>3 DEF Order
<1>8. task'[t].pc = "saveTry" /\ \A s \in Task \ {t} : task'[s] = task[s]
  <2>1. h \in Order
    <3>1. n \in Nat /\ heap[o] \in Order
      BY <1>1, <1>3, <1>5
    <3> HIDE DEF n, o
    <3>2. QED  BY <3>1, StatusFacts DEF Order
  <2>2. PICK r \in Order : r = heap'[o]
    BY <1>6, <2>1
  <2>3. task' = [task EXCEPT ![t].pc = "saveTry", ![t].row = r]
    BY <1>1, <2>2
  <2>4. task \in [Task -> TaskState]
    BY <1>1
  <2> HIDE DEF h, n, o
  <2>5. QED  BY <2>3, <2>4, TaskRow, LocationFacts
<1> HIDE DEF h, n, o
<1>9. ASSUME NEW k \in Cron, task'[k].pc \in Asking
      PROVE  /\ task'[k] = task[k] /\ heap'[task[k].order] = heap[task[k].order]
             /\ heap[task[k].order].ext = task[k].ext /\ task[k].ext \in 1..Len(exch)
             /\ exch'[task[k].ext] = exch[task[k].ext]
  <2>1. k # t /\ task'[k] = task[k]
    BY <1>8, <1>9, SetFacts DEF Asking
  <2>2. /\ task[k].order \in Obj /\ ~Unsubmitted(heap[task[k].order])
        /\ task[k].ext = heap[task[k].order].ext /\ task[k].ext \in 1..Len(exch)
    BY <1>2, <1>9, <2>1, AskedOf
  <2>3. QED  BY <1>3, <1>5, <1>6, <2>1, <2>2 DEF Unsubmitted
<1>10. AnswersOK'
  <2>1. \A k \in Cron : task'[k].pc \in Crediting => task'[k].pc \in Asking
    BY DEF Asking, Crediting
  <2>2. QED  BY <1>2, <1>9, <2>1 DEF AnswersOK
<1>11. ASSUME NEW x \in 1..Len(exch)
       PROVE  LET q == exch'[x].by IN
              /\ heap'[q].ext = x
              /\ \/ heap'[q].status = "pending" /\ q \in orders'
                 \/ \E k \in Cron : task'[k].pc \in Crediting /\ task'[k].order = q
                 \/ exch'[x].status = "canceled"
                 \/ exch'[x].status = "closed" /\ Booked(x)'
  <2> DEFINE q == exch[x].by
  <2>1. q \in Obj /\ heap'[q] = heap[q] /\ heap[q].ext = x /\ exch'[x] = exch[x]
    <3>1. q \in Obj /\ ~Unsubmitted(heap[q]) /\ heap[q].ext = x
      BY <1>2, SentBy
    <3>2. QED  BY <1>3, <1>5, <1>6, <3>1 DEF Unsubmitted
  <2>2. \A k \in Cron : task[k].pc \in Crediting => task'[k] = task[k]
    BY <1>1, <1>8, SetFacts DEF Crediting
  <2>3. Booked(x)' <=> Booked(x)
    BY <1>1, <2>1 DEF Booked
  <2>4. \/ heap[q].status = "pending" /\ q \in orders
        \/ \E k \in Cron : task[k].pc \in Crediting /\ task[k].order = q
        \/ exch[x].status = "canceled"
        \/ exch[x].status = "closed" /\ Booked(x)
    BY <1>2 DEF FollowedOK
  <2>5. (\E k \in Cron : task[k].pc \in Crediting /\ task[k].order = q)
          => \E k \in Cron : task'[k].pc \in Crediting /\ task'[k].order = q
    BY <2>2
  <2>6. exch'[x].by = q /\ orders' = orders
    BY <1>1, <2>1
  <2> HIDE DEF q
  <2>7. QED  BY <2>1, <2>3, <2>4, <2>5, <2>6
<1>12. FollowedOK'
  <2>1. 1..Len(exch') = 1..Len(exch) \cup {n}
    BY <1>5 DEF n
  <2>2. heap'[exch'[n].by].ext = n /\ heap'[exch'[n].by].status = "pending"
        /\ exch'[n].by \in orders'
    BY <1>1, <1>3, <1>4, <1>5, <1>6, <1>7
  <2>3. QED  BY <1>11, <2>1, <2>2 DEF FollowedOK
<1>13. LedgerOK'
  <2>1. credits[n] = 0
    BY <1>5 DEF All, IInv, CreditOK
  <2>2. \A x \in 1..Len(exch') : credits'[x] = 1 => exch'[x].status = "closed"
    <3>1. \A x \in 1..Len(exch') : x \in 1..Len(exch) \/ x = n
      BY <1>5 DEF n
    <3>2. QED  BY <1>1, <1>2, <1>5, <2>1, <3>1 DEF LedgerOK
  <2>3. ASSUME NEW p \in Pair, OnlyBought(p)' PROVE OnlyBought(p)
    <3>1. 1..Len(exch) \subseteq 1..Len(exch')
      BY <1>5 DEF n
    <3>2. QED  BY <1>5, <2>3, <3>1 DEF OnlyBought, OrdersOf
  <2>4. \A p \in Pair : SumFunctionOnSet(Share(p)', 1..MaxExchangeOrders)
                          = SumFunctionOnSet(Share(p), 1..MaxExchangeOrders)
    BY <1>1, <1>2, <1>5, SharesStay
  <2>5. QED  BY <1>1, <1>2, <2>2, <2>3, <2>4 DEF LedgerOK
<1>14. QED  BY <1>10, <1>12, <1>13

(* A credit is the whole fill of the order, and only its pair's ledger     *)
(* takes it.                                                               *)
LEMMA CreditAdds ==
    ASSUME All, NoFault, LedgerOK, NEW x \in 1..Len(exch), credits[x] = 0,
           credits' = [credits EXCEPT ![x] = 1], exch' = exch,
           exch[x].status = "closed",
           NEW q \in Pair, q = PairOf[exch[x].uid[1]],
           ledger' = [ledger EXCEPT ![q] = Credited(SideOf[exch[x].uid[1]], @, exch[x].filled)]
    PROVE  LedgerOK'
<1> DEFINE S == 1..MaxExchangeOrders
<1>1. /\ Len(exch) \in Nat /\ Len(exch) <= MaxExchangeOrders /\ x \in S
      /\ credits \in [S -> Nat] /\ ledger \in [Pair -> Nat] /\ IsFiniteSet(S)
      /\ \A y \in 1..Len(exch) : exch[y].filled \in Nat
  <2>1. exch \in Seq(ExchangeOrder) /\ Len(exch) \in Nat /\ Len(exch) <= MaxExchangeOrders
    BY Typing DEF All, IInv, CreditOK
  <2>2. \A y \in 1..Len(exch) : exch[y] \in ExchangeOrder
    BY <2>1
  <2>3. \A y \in 1..Len(exch) : exch[y].filled \in Nat
    BY <2>2 DEF ExchangeOrder
  <2>4. IsFiniteSet(S)
    BY ExchangeNumbers
  <2>5. credits \in [S -> Nat] /\ ledger \in [Pair -> Nat]
    BY DEF All, IInv, TypeOK
  <2>6. QED  BY <2>1, <2>3, <2>4, <2>5
<1>2. credits'[x] = 1 /\ \A y \in S : y # x => credits'[y] = credits[y]
  BY <1>1
<1>3. \A y \in S : credits[y] = 1 => y \in 1..Len(exch)
  BY <1>1 DEF All, IInv, CreditOK
<1>4. \A y \in 1..Len(exch') : credits'[y] = 1 => exch'[y].status = "closed"
  <2>1. \A y \in 1..Len(exch) : y \in S
    BY <1>1
  <2>2. QED  BY <1>2, <2>1 DEF LedgerOK
<1>5. ASSUME NEW p \in Pair, OnlyBought(p)
      PROVE  ledger'[p] = SumFunctionOnSet(Share(p)', S)
  <2> DEFINE g == Share(p)  h == Share(p)'
  <2>1. \A y \in S : g[y] \in Int /\ h[y] \in Int
    BY <1>1, <1>2, <1>3 DEF Share
  <2>2. ledger[p] = SumFunctionOnSet(g, S)
    BY <1>5 DEF LedgerOK
  <2>3. \A y \in S : y # x => h[y] = g[y]
    BY <1>2 DEF Share
  <2>4. CASE p = q
    <3>1. SideOf[exch[x].uid[1]] = "buy"
      BY <1>5, <2>4 DEF OnlyBought, OrdersOf
    <3>2. ledger'[p] = ledger[p] + exch[x].filled
      BY <1>1, <2>4, <3>1 DEF Credited
    <3>3. h[x] = exch[x].filled /\ g[x] = 0
      BY <1>1, <1>2, <2>4 DEF Share
    <3>4. ledger[p] \in Int /\ exch[x].filled \in Int
      BY <1>1
    <3>9. IsFiniteSet(S) /\ x \in S
      BY <1>1
    <3> HIDE DEF g, h, S
    <3>5. SumFunctionOnSet(h, S) = SumFunctionOnSet(g, S) + h[x] - g[x]
      BY <3>9, <2>1, <2>3, SumChange
    <3> DEFINE a == SumFunctionOnSet(g, S)  b == SumFunctionOnSet(h, S)
    <3>6. /\ b = a + h[x] - g[x] /\ ledger[p] = a
      BY <2>2, <3>5
    <3> HIDE DEF a, b
    <3>7. ledger'[p] = b
      BY <3>2, <3>3, <3>4, <3>6
    <3>8. QED  BY <3>7 DEF b, h
  <2>5. CASE p # q
    <3>1. ledger'[p] = ledger[p]
      BY <1>1, <2>5
    <3>2. h[x] = g[x]
      BY <1>1, <2>5 DEF Share
    <3> HIDE DEF g, h
    <3>3. SumFunctionOnSet(h, S) = SumFunctionOnSet(g, S)
      BY <1>1, <2>3, <3>2, SumEqual
    <3>4. ledger'[p] = SumFunctionOnSet(h, S)
      BY <2>2, <3>1, <3>3
    <3>5. QED  BY <3>4 DEF h
  <2>6. QED  BY <2>4, <2>5
<1>6. \A p \in Pair : OnlyBought(p)' => OnlyBought(p)
  BY DEF OnlyBought, OrdersOf
<1>7. QED  BY <1>4, <1>5, <1>6 DEF LedgerOK

LEMMA WritePositionFills ==
    ASSUME All, FillsOK, NEW k \in Cron, WritePosition(k) PROVE FillsOK'
<1> SUFFICES ASSUME NoFault' PROVE (AnswersOK /\ FollowedOK /\ LedgerOK)'
  BY DEF FillsOK
<1>1. /\ task[k].pc = "writePosition" /\ UNCHANGED <<orders, heap, exch, faults>>
      /\ task \in [Task -> TaskState] /\ k \in Task
  BY Typing, SetFacts DEF WritePosition, memory, All
<1>2. NoFault /\ AnswersOK /\ FollowedOK /\ LedgerOK
  BY <1>1 DEF FillsOK, NoFault
<1>3. PICK o \in Obj, x \in 1..Len(exch) :
          /\ o = task[k].order /\ x = task[k].ext /\ heap[o].ext = x /\ credits[x] = 0
          /\ heap[o].status = "completed" /\ heap[o].filled = exch[x].filled
          /\ exch[x].status = "closed"
  <2>1. task[k].pc \in Asking /\ task[k].pc \in Crediting
    BY <1>1 DEF Asking, Crediting
  <2>2. QED  BY <1>2, <2>1, AskedOf DEF AnswersOK
<1>4. heap[o].uid = exch[x].uid /\ exch[x].uid \in Uid
  <2>1. OwnId(heap[o]) /\ x # 0
    BY DEF All, IInv, HeapOK
  <2>2. exch[x] \in ExchangeOrder
    BY Typing DEF All
  <2>3. QED  BY <1>3, <2>1, <2>2 DEF OwnId, NoId, ExchangeOrder
<1>5. exch[x].uid[1] \in Action /\ PairOf[exch[x].uid[1]] \in Pair
  <2>1. exch[x].uid[1] \in Action
    BY <1>4 DEF Uid
  <2> DEFINE a == exch[x].uid[1]
  <2> HIDE DEF a
  <2>2. a \in Action => PairOf[a] \in Pair
    OBVIOUS
  <2>3. QED  BY <2>1, <2>2 DEF a
<1>6. credits' = [credits EXCEPT ![x] = 1]
  <2>1. credits' = [credits EXCEPT ![x] = credits[x] + 1]
    BY <1>3 DEF WritePosition
  <2>2. QED  BY <1>3, <2>1
<1>7. PICK q \in Pair : q = PairOf[exch[x].uid[1]]
  BY <1>5
<1>8. ledger' = [ledger EXCEPT ![q] = Credited(SideOf[exch[x].uid[1]], @, exch[x].filled)]
  BY <1>3, <1>4, <1>7 DEF WritePosition, Credited, SideOfOrder, PairOfOrder
<1>9. LedgerOK'
  BY <1>1, <1>2, <1>3, <1>6, <1>7, <1>8, CreditAdds
<1>10. \A r \in Task \ {k} : task'[r] = task[r]
  BY <1>1 DEF WritePosition
<1>11. task'[k].pc = "saveTracked"
  <2> DEFINE s == [task[k] EXCEPT !.pc = "saveTracked", !.row = heap[o], !.write = NoWrite]
  <2>1. task' = [task EXCEPT ![k] = s]
    BY <1>3 DEF WritePosition
  <2>2. s.pc = "saveTracked"
    BY <1>1 DEF TaskState
  <2> HIDE DEF s
  <2>3. QED  BY <1>1, <2>1, <2>2
<1>12. \A j \in Cron : j # k => task[j].pc \notin Asking /\ task[j].pc \notin Crediting
  <2>1. task[k].pc \in Asking
    BY <1>1 DEF Asking
  <2>2. QED  BY <2>1, OneRun
<1>13. AnswersOK'
  <2>1. \A j \in Cron : task'[j].pc \notin Asking /\ task'[j].pc \notin Crediting
    BY <1>10, <1>11, <1>12, SetFacts DEF Asking, Crediting
  <2>2. QED  BY <2>1 DEF AnswersOK
<1>14. FollowedOK'
  <2>1. credits \in [1..MaxExchangeOrders -> Nat] /\ Len(exch) \in Nat
        /\ Len(exch) <= MaxExchangeOrders
    BY Typing DEF All, IInv, TypeOK, CreditOK
  <2>2. ASSUME NEW y \in 1..Len(exch)
        PROVE  LET p == exch[y].by IN
               /\ heap[p].ext = y
               /\ \/ heap[p].status = "pending" /\ p \in orders
                  \/ exch[y].status = "canceled"
                  \/ exch[y].status = "closed" /\ Booked(y)'
    <3> DEFINE p == exch[y].by
    <3>1. heap[p].ext = y /\ p \in Obj
      BY <1>2, SentBy
    <3>2. CASE y = x
      BY <1>1, <1>3, <1>6, <2>1, <3>1, <3>2 DEF Booked
    <3>3. CASE y # x
      <4>1. Booked(y) => Booked(y)'
        BY <1>1, <1>6, <2>1, <3>3 DEF Booked
      <4>2. \A j \in Cron : task[j].pc \in Crediting => task[j].order # p
        <5>1. p # o
          BY <1>3, <3>1, <3>3
        <5>2. QED  BY <1>3, <1>12, <5>1
      <4>3. QED  BY <1>2, <3>1, <4>1, <4>2 DEF FollowedOK
    <3>4. QED  BY <3>2, <3>3
  <2>3. QED  BY <1>1, <2>2 DEF FollowedOK
<1>15. QED  BY <1>9, <1>13, <1>14

(* The exchange answers nobody yet: what it still works on is tracked.     *)
LEMMA ExchangeStepFills ==
    ASSUME All, FillsOK, NEW x \in 1..Len(exch), ExchangeStep(x) PROVE FillsOK'
<1> SUFFICES ASSUME NoFault' PROVE (AnswersOK /\ FollowedOK /\ LedgerOK)'
  BY DEF FillsOK
<1>1. /\ exch[x].status = "open"
      /\ UNCHANGED <<orders, heap, task, credits, ledger, faults>>
      /\ exch \in Seq(ExchangeOrder) /\ exch[x] \in ExchangeOrder
  BY Typing DEF ExchangeStep, Fill, EndUnfilled, memory, history, All
<1>2. NoFault /\ AnswersOK /\ FollowedOK /\ LedgerOK
  BY <1>1 DEF FillsOK, NoFault
<1>3. /\ Len(exch') = Len(exch)
      /\ \A y \in 1..Len(exch) : y # x => exch'[y] = exch[y]
      /\ \A y \in 1..Len(exch) : exch'[y].by = exch[y].by /\ exch'[y].uid = exch[y].uid
  <2>1. \A y \in 1..Len(exch) : exch[y] \in ExchangeOrder
    BY <1>1
  <2>2. PICK e : exch' = [exch EXCEPT ![x] = e] /\ e.by = exch[x].by /\ e.uid = exch[x].uid
    <3>1. CASE Fill(x)
      <4> DEFINE e == [exch[x] EXCEPT !.filled = @ + 1,
                          !.status = IF exch[x].filled + 1 = exch[x].amount
                                     THEN "closed" ELSE "open"]
      <4>1. exch' = [exch EXCEPT ![x] = e]
        BY <1>1, <3>1 DEF Fill
      <4>2. e.by = exch[x].by /\ e.uid = exch[x].uid
        BY <1>1 DEF ExchangeOrder
      <4> HIDE DEF e
      <4>3. QED  BY <4>1, <4>2
    <3>2. CASE EndUnfilled(x)
      <4> DEFINE e == [exch[x] EXCEPT !.status = "canceled"]
      <4>1. exch' = [exch EXCEPT ![x] = e]
        BY <1>1, <3>2 DEF EndUnfilled
      <4>2. e.by = exch[x].by /\ e.uid = exch[x].uid
        BY <1>1 DEF ExchangeOrder
      <4> HIDE DEF e
      <4>3. QED  BY <4>1, <4>2
    <3>3. QED  BY <3>1, <3>2 DEF ExchangeStep
  <2>3. QED  BY <1>1, <2>1, <2>2
<1>4. credits[x] # 1
  BY <1>1, <1>2 DEF LedgerOK
<1>5. ASSUME NEW k \in Cron, task[k].pc \in Crediting
      PROVE  heap[task[k].order].ext \in 1..Len(exch) /\ heap[task[k].order].ext # x
  <2>1. heap[task[k].order].ext \in 1..Len(exch)
    BY <1>2, <1>5, AskedOf DEF Crediting, Asking
  <2>2. exch[heap[task[k].order].ext].status = "closed"
    BY <1>2, <1>5 DEF AnswersOK
  <2>3. QED  BY <1>1, <2>1, <2>2
<1>6. AnswersOK'
  BY <1>1, <1>2, <1>3, <1>5 DEF AnswersOK
<1>7. ASSUME NEW y \in 1..Len(exch)
      PROVE  LET p == exch[y].by IN
             /\ heap[p].ext = y
             /\ \/ heap[p].status = "pending" /\ p \in orders
                \/ \E k \in Cron : task[k].pc \in Crediting /\ task[k].order = p
                \/ exch'[y].status = "canceled"
                \/ exch'[y].status = "closed" /\ Booked(y)'
  <2> DEFINE p == exch[y].by
  <2>1. heap[p].ext = y
    BY <1>2, SentBy
  <2>2. CASE y = x
    <3>1. heap[p].status = "pending" /\ p \in orders
      BY <1>1, <1>2, <1>5, <2>1, <2>2 DEF FollowedOK
    <3>2. QED  BY <2>1, <3>1
  <2>3. CASE y # x
    <3>1. exch'[y] = exch[y] /\ (Booked(y)' <=> Booked(y))
      BY <1>1, <1>3, <2>3 DEF Booked
    <3>2. QED  BY <1>2, <3>1 DEF FollowedOK
  <2>4. QED  BY <2>2, <2>3
<1>8. FollowedOK'
  BY <1>1, <1>3, <1>7 DEF FollowedOK
<1>9. LedgerOK'
  <2>1. \A y \in 1..Len(exch') : credits'[y] = 1 => exch'[y].status = "closed"
    BY <1>1, <1>2, <1>3, <1>4 DEF LedgerOK
  <2>2. \A p \in Pair : OnlyBought(p)' => OnlyBought(p)
    BY <1>3 DEF OnlyBought, OrdersOf
  <2>3. \A p \in Pair : SumFunctionOnSet(Share(p)', 1..MaxExchangeOrders)
                          = SumFunctionOnSet(Share(p), 1..MaxExchangeOrders)
    BY <1>1, <1>2, <1>3, <1>4, SharesStay
  <2>4. QED  BY <1>1, <1>2, <2>1, <2>2, <2>3 DEF LedgerOK
<1>10. QED  BY <1>6, <1>8, <1>9

(* Nothing has been sent before the first start.                           *)
LEMMA StartFills == ASSUME All, FillsOK, Start PROVE FillsOK'
<1> SUFFICES ASSUME NoFault' PROVE (AnswersOK /\ FollowedOK /\ LedgerOK)'
  BY DEF FillsOK
<1>1. ~up /\ UNCHANGED <<task, exch, credits, ledger, faults>>
  BY DEF Start, history
<1>2. NoFault /\ LedgerOK
  BY <1>1 DEF FillsOK, NoFault
<1>3. \A x \in 1..Len(exch) : FALSE
  <2>1. \A x \in 1..Len(exch) : exch[x].life \in Nat
    <3>1. \A x \in 1..Len(exch) : exch[x] \in ExchangeOrder
      BY Typing DEF All
    <3>2. QED  BY <3>1 DEF ExchangeOrder
  <2>2. faults.crash = 0
    BY <1>2, Faultless, Typing DEF All
  <2>3. QED  BY <1>1, <2>1, <2>2 DEF All, QuietOK, SentOK
<1>4. \A k \in Cron : task[k].pc \notin Asking /\ task[k].pc \notin Crediting
  BY <1>1, SetFacts DEF All, IInv, ProcessOK, Asking, Crediting
<1>5. AnswersOK'
  BY <1>1, <1>4 DEF AnswersOK
<1>6. FollowedOK'
  BY <1>1, <1>3 DEF FollowedOK
<1>7. LedgerOK'
  BY <1>1, <1>2 DEF LedgerOK, OnlyBought, OrdersOf, Share
<1>8. QED  BY <1>5, <1>6, <1>7

LEMMA FaultFills ==
    ASSUME All, All',
           \/ Crash \/ \E t \in Task : AcceptanceLost(t) \/ DbFails(t)
           \/ \E k \in Cron : TrackFails(k)
    PROVE  FillsOK'
<1>1. \/ faults' = [faults EXCEPT !["crash"] = @ + 1]
      \/ faults' = [faults EXCEPT !["db"] = @ + 1]
      \/ faults' = [faults EXCEPT !["net"] = @ + 1]
  BY DEF Crash, AcceptanceLost, DbFails, TrackFails, NetFault, DbFault
<1>2. ~NoFault'
  BY <1>1, FaultIsNoted
<1>3. QED  BY <1>2 DEF FillsOK

LEMMA FillsInit == ASSUME Init PROVE FillsOK
<1>1. /\ \A k \in Cron : task[k].pc = "idle"
      /\ exch = << >>
      /\ \A p \in Pair : ledger[p] = 0
      /\ \A x \in 1..MaxExchangeOrders : credits[x] = 0
  BY IdleTask, SetFacts DEF Init
<1>2. AnswersOK /\ FollowedOK
  BY <1>1 DEF AnswersOK, FollowedOK, Asking, Crediting
<1>3. ASSUME NEW p \in Pair
      PROVE  SumFunctionOnSet(Share(p), 1..MaxExchangeOrders) = 0
  <2> DEFINE h == Share(p)  S == 1..MaxExchangeOrders
  <2>1. \A x \in S : h[x] = 0
    BY <1>1 DEF Share
  <2>2. IsFiniteSet(S)
    BY ExchangeNumbers
  <2> HIDE DEF h, S
  <2>3. \A x \in S : h[x] \in Int /\ h[x] = IF x \in {} THEN h[x] ELSE 0
    BY <2>1
  <2>4. SumFunctionOnSet(h, {}) = SumFunctionOnSet(h, S)
    BY <2>2, <2>3, SumPart
  <2>5. SumFunctionOnSet(h, S) = 0
    BY <2>4, SumOfNone
  <2>6. QED  BY <2>5 DEF h, S
<1>4. LedgerOK
  BY <1>1, <1>3 DEF LedgerOK
<1>5. QED  BY <1>2, <1>4 DEF FillsOK

LEMMA FillsStep ==
    ASSUME ~OverlapAllowed, All, FillsOK, [Next]_vars PROVE FillsOK'
<1>1. All'
  BY QuietStep
<1>2. ASSUME NEW c \in Call, PlaceStep(c) \/ \E u \in Uid : PlaceOrder(c, u)
      PROVE  FillsOK'
  BY <1>2, PlaceStepFills
<1>3. ASSUME NEW t \in Task, SubmitStep(t) PROVE FillsOK'
  <2>1. CASE AcceptanceLost(t) \/ DbFails(t)
    BY <1>1, <2>1, FaultFills
  <2>2. QED
    BY <1>3, <2>1, CalculateQuantityFills, AcceptedFills, SaveFills DEF SubmitStep
<1>4. ASSUME NEW k \in Cron, CronTick(k) \/ CronStep(k) PROVE FillsOK'
  <2>1. CASE TrackFails(k)
    BY <1>1, <2>1, FaultFills
  <2>2. k \in Task
    BY SetFacts
  <2>3. QED
    BY <1>4, <2>1, <2>2, CronTickFills, CronVisitFills, CronReapFills, TrackedFills,
       FindPositionFills, WritePositionFills, SaveFills DEF CronStep
<1>5. CASE UNCHANGED vars
  <2>1. UNCHANGED <<orders, heap, task, exch, credits, ledger, faults>>
    BY <1>5 DEF vars
  <2>2. QED
    BY <2>1 DEF FillsOK, NoFault, AnswersOK, FollowedOK, Booked, LedgerOK, OnlyBought,
                OrdersOf, Share
<1>6. CASE Crash
  BY <1>1, <1>6, FaultFills
<1>7. QED  BY <1>2, <1>3, <1>4, <1>5, <1>6, ExchangeStepFills, StartFills DEF Next

(* When nothing is left to do, every closed exchange order is credited.    *)
LEMMA SettledIsHeld == ASSUME All, FillsOK PROVE ClosedFillsAreHeld
<1> SUFFICES ASSUME Settled, NoFault, NEW p \in Pair, OnlyBought(p)
             PROVE  Held(p) = SumFunctionOnSet(FilledOf, OrdersOf(p) \cap Closed)
  BY DEF ClosedFillsAreHeld
<1> DEFINE S == 1..MaxExchangeOrders  h == Share(p)  f == FilledOf
           T == OrdersOf(p) \cap Closed
<1>1. FollowedOK /\ LedgerOK
  BY DEF FillsOK
<1>2. /\ Len(exch) \in Nat /\ Len(exch) <= MaxExchangeOrders
      /\ credits \in [S -> Nat]
      /\ \A x \in 1..Len(exch) : exch[x].filled \in Nat
  <2>1. exch \in Seq(ExchangeOrder) /\ Len(exch) <= MaxExchangeOrders
        /\ credits \in [S -> Nat]
    BY DEF All, IInv, TypeOK, CreditOK
  <2>2. \A x \in 1..Len(exch) : exch[x] \in ExchangeOrder
    BY <2>1
  <2>3. QED  BY <2>1, <2>2 DEF ExchangeOrder
<1>3. ASSUME NEW x \in 1..Len(exch), exch[x].status = "closed"
      PROVE  Booked(x)
  <2>1. ~\E k \in Cron : task[k].pc \in Crediting
    BY SetFacts DEF Settled, Crediting
  <2>2. orders = {}
    BY DEF Settled
  <2>3. QED  BY <1>1, <1>3, <2>1, <2>2 DEF FollowedOK
<1>4. ASSUME NEW x \in S PROVE h[x] \in Int /\ h[x] = IF x \in T THEN f[x] ELSE 0
  <2>1. CASE x \in T
    <3>1. /\ x \in 1..Len(exch) /\ PairOf[exch[x].uid[1]] = p
          /\ exch[x].status = "closed" /\ SideOf[exch[x].uid[1]] = "buy"
      BY <2>1 DEF OrdersOf, Closed, OnlyBought
    <3>2. credits[x] = 1
      BY <1>3, <3>1 DEF Booked
    <3>3. h[x] = exch[x].filled /\ f[x] = exch[x].filled
      BY <3>1, <3>2 DEF Share, FilledOf
    <3>4. QED  BY <1>2, <2>1, <3>1, <3>3
  <2>2. CASE x \notin T
    <3>1. credits[x] = 1 => x \in 1..Len(exch)
      BY <1>2 DEF All, IInv, CreditOK
    <3>2. ~(credits[x] = 1 /\ PairOf[exch[x].uid[1]] = p)
      BY <1>1, <2>2, <3>1 DEF LedgerOK, OrdersOf, Closed
    <3>3. h[x] = 0
      BY <3>2 DEF Share
    <3>4. QED  BY <2>2, <3>3
  <2>3. QED  BY <2>1, <2>2
<1>5. T \subseteq S
  BY <1>2 DEF OrdersOf
<1>6. IsFiniteSet(S)
  BY ExchangeNumbers
<1>7. Held(p) = SumFunctionOnSet(h, S)
  BY <1>1 DEF LedgerOK, All, IInv, PositionOK, PositionIsLedger
<1> HIDE DEF S, h, f, T
<1>8. SumFunctionOnSet(f, T) = SumFunctionOnSet(h, S)
  BY <1>4, <1>5, <1>6, SumPart
<1>9. QED  BY <1>7, <1>8 DEF f, T

(* When no tick falls into a placement, then while the process has not     *)
(* ended and no call has failed no fill is lost: when nothing is left to   *)
(* do, the position of a pair that was only bought is the sum of the       *)
(* orders the exchange closed.                                             *)
THEOREM ClosedFillsAreInPositions ==
    ASSUME ~OverlapAllowed PROVE Spec => []ClosedFillsAreHeld
<1>1. Init => All /\ FillsOK
  BY InitOK, RunInit, QuietInit, FillsInit DEF All
<1>2. All /\ FillsOK /\ [Next]_vars => All' /\ FillsOK'
  BY QuietStep, FillsStep
<1>3. All /\ FillsOK => ClosedFillsAreHeld
  BY SettledIsHeld
<1>4. QED  BY <1>1, <1>2, <1>3, PTL DEF Spec
=============================================================================
