----------------------------- MODULE OrdersView -----------------------------
(***************************************************************************)
(* The pages that list orders and balances: InternalOrdersView.vue,        *)
(* ExchangeOrdersView.vue and AccountView.vue of src/web, over the API     *)
(* that reads tables and exchange part by part, while the order service    *)
(* carries the news of the exchange into the tables.                       *)
(*                                                                         *)
(* Of tables and exchange only the age of what they hold is kept.          *)
(***************************************************************************)
EXTENDS Integers, FiniteSets

CONSTANTS
    Call,               \* names for requests of the page
    MaxNews, MaxFaults  \* bounds

ASSUME ViewAssumption == MaxNews \in Nat /\ MaxFaults \in Nat

VARIABLES
    news,           \* how far the exchange and each table have come
    page, filter,   \* the page on show, and its form's filters
    result, asked, error, loading,  \* of the page on show; asked is a history
    autoRefresh,    \* in localStorage, so it survives the page
    timers,         \* intervals that run
    timerSet,       \* is refreshTimer set
    call,           \* requests under way and what they have read
    raced,          \* history: had the page two requests at a time
    faults

form == <<page, filter>>
view == <<result, asked, error, loading>>
refresh == <<autoRefresh, timers, timerSet>>
vars == <<news, form, view, refresh, call, raced, faults>>

Pages == {"rules", "internal", "exchange", "account"}
Part == {"exchange", "positions", "orders"}
Filter == {"default", "other"}
Unread == [p \in Part |-> -1]
None == [filter |-> "default", read |-> Unread]
Free == [pc |-> "free", filter |-> "default", todo |-> {}, read |-> Unread]

Mine == {c \in Call : call[c].pc = "asked"}     \* of the page on show

Init ==
    /\ news = [p \in Part |-> 0]
    /\ page = "rules" /\ filter = "default"
    /\ result = None /\ asked = "default" /\ error = FALSE /\ loading = FALSE
    /\ autoRefresh \in BOOLEAN /\ timers = 0 /\ timerSet = FALSE
    /\ call = [c \in Call |-> Free]
    /\ raced = FALSE /\ faults = 0

-----------------------------------------------------------------------------
(* The server: orders are filled; trackOrder writes the position before it *)
(* saves the order.                                                        *)
OrderFilled ==
    /\ news["exchange"] < MaxNews
    /\ news' = [news EXCEPT !["exchange"] = @ + 1]
PositionWritten ==
    /\ news["positions"] = news["orders"]
    /\ news["positions"] < news["exchange"]
    /\ news' = [news EXCEPT !["positions"] = news["exchange"]]
OrderSaved ==
    /\ news["orders"] < news["positions"]
    /\ news' = [news EXCEPT !["orders"] = news["positions"]]
Server ==
    /\ OrderFilled \/ PositionWritten \/ OrderSaved
    /\ UNCHANGED <<form, view, refresh, call, raced, faults>>

(* What a page's request reads: both tables at once, or the exchange.      *)
ListInternalOrders == {"orders", "positions"}
ListExchangeOrders == {"exchange"}
Balance == {"exchange"}
PartsOf(pg) == CASE pg = "internal" -> ListInternalOrders
                 [] pg = "exchange" -> ListExchangeOrders
                 [] pg = "account" -> Balance

-----------------------------------------------------------------------------
(* fetchOrders, fetchMarket                                                *)
Fetch(pg, f, calls) ==
    \E c \in Call :
        /\ calls[c] = Free
        /\ call' = [calls EXCEPT ![c] =
               [pc |-> "asked", filter |-> f, todo |-> PartsOf(pg), read |-> Unread]]
        /\ asked' = f /\ loading' = TRUE /\ error' = FALSE

Read(c, p) ==
    /\ p \in call[c].todo
    /\ call' = [call EXCEPT ![c].todo = @ \ {p}, ![c].read[p] = news[p]]
    /\ UNCHANGED <<news, form, view, refresh, raced, faults>>
FindByFilters(c) == Read(c, "orders")
FindOpenPositions(c) == Read(c, "positions")
AskExchange(c) == Read(c, "exchange")

(* Mutant: a failed request leaves no error.                               *)
ErrorAfter_None == FALSE
ErrorAfter == TRUE

Answered(c) ==
    /\ c \in Mine /\ call[c].todo = {}
    /\ result' = [filter |-> call[c].filter, read |-> call[c].read]
    /\ loading' = FALSE
    /\ call' = [call EXCEPT ![c] = Free]
    /\ UNCHANGED <<news, form, asked, error, refresh, raced, faults>>

Failed(c) ==
    /\ c \in Mine /\ faults < MaxFaults /\ faults' = faults + 1
    /\ error' = ErrorAfter /\ loading' = FALSE
    /\ call' = [call EXCEPT ![c] = Free]
    /\ UNCHANGED <<news, form, result, asked, refresh, raced>>

(* An answer for a page that has gone changes nothing on show, ...         *)
OrphanEnds(c) ==
    /\ call[c].pc = "orphan" /\ call' = [call EXCEPT ![c] = Free]
    /\ UNCHANGED <<news, form, view, refresh, raced, faults>>

(* ... unless it is 401: then the whole tab is loaded again.               *)
Unauthorized(c) ==
    /\ call[c].pc # "free" /\ faults < MaxFaults /\ faults' = faults + 1
    /\ page' = "rules" /\ filter' = "default"
    /\ result' = None /\ asked' = "default" /\ error' = FALSE /\ loading' = FALSE
    /\ timers' = 0 /\ timerSet' = FALSE /\ call' = [x \in Call |-> Free]
    /\ raced' = FALSE
    /\ UNCHANGED <<news, autoRefresh>>

-----------------------------------------------------------------------------
(* What a page shows: of lists an old result may stand beside an error,    *)
(* of balances it may not.                                                 *)
ShownOfInternal ==
    (IF error THEN {"error"} ELSE {}) \cup
    (IF loading THEN {"loading"} ELSE IF result # None THEN {"result"} ELSE {})
ShownOfExchange ==
    IF error \/ loading \/ result # None THEN ShownOfInternal ELSE {"prompt"}
ShownOfAccount ==
    IF loading THEN {"loading"} ELSE IF error THEN {"error"}
    ELSE IF result # None THEN {"result"} ELSE {"no data"}
Shown == CASE page = "internal" -> ShownOfInternal
           [] page = "exchange" -> ShownOfExchange
           [] page = "account" -> ShownOfAccount
           [] OTHER -> {"rules"}

-----------------------------------------------------------------------------
(* Pages come and go (App.vue)                                             *)
Orphaned == [c \in Call |->
    IF call[c].pc = "asked" THEN [Free EXCEPT !.pc = "orphan"] ELSE call[c]]

(* onUnmounted.  Mutant: the interval goes on.                             *)
TimersLeft_All == timers
TimersLeft == IF timerSet THEN timers - 1 ELSE timers

(* onMounted.  Mutant: only the button starts the interval.                *)
StartsInterval_Not(pg) == FALSE
StartsInterval(pg) == pg = "internal" /\ autoRefresh

Open(pg) ==
    /\ pg # page
    /\ page' = pg /\ filter' = "default"
    /\ result' = None /\ raced' = FALSE
    /\ timers' = (IF page = "internal" THEN TimersLeft ELSE timers) +
                 (IF StartsInterval(pg) THEN 1 ELSE 0)
    /\ timerSet' = StartsInterval(pg)
    /\ IF pg \in {"internal", "account"} THEN Fetch(pg, "default", Orphaned)
       ELSE /\ call' = Orphaned
            /\ asked' = "default" /\ error' = FALSE /\ loading' = FALSE
    /\ UNCHANGED <<news, autoRefresh, faults>>

ChangeFilter(f) ==
    /\ page \in {"internal", "exchange"} /\ filter' = f
    /\ UNCHANGED <<news, page, view, refresh, call, raced, faults>>

ButtonEnabled == ~loading

(* The exchange's page starts without a pair, and asks nothing then.       *)
Again ==
    /\ Fetch(page, filter, call)
    /\ raced' = (raced \/ Mine # {})
    /\ UNCHANGED <<news, form, result, refresh, faults>>
Submit ==
    /\ page = "internal" \/ (page = "exchange" /\ filter # "default")
    /\ ButtonEnabled
    /\ Again
IntervalTicks == timers > 0 /\ page = "internal" /\ Again

ToggleAutoRefresh ==
    /\ page = "internal"
    /\ autoRefresh' = ~autoRefresh
    /\ timers' = IF autoRefresh THEN TimersLeft ELSE timers + 1
    /\ timerSet' = autoRefresh'
    /\ UNCHANGED <<news, form, view, call, raced, faults>>

Next ==
    \/ Server \/ Submit \/ IntervalTicks \/ ToggleAutoRefresh
    \/ \E pg \in Pages : Open(pg)
    \/ \E f \in Filter : ChangeFilter(f)
    \/ \E c \in Call : \/ Answered(c) \/ Failed(c) \/ OrphanEnds(c) \/ Unauthorized(c)
                       \/ FindByFilters(c) \/ FindOpenPositions(c) \/ AskExchange(c)
Spec == Init /\ [][Next]_vars

(* Orders are tracked, requests answered, and the interval ticks.          *)
ServerGoesOn == /\ PositionWritten \/ OrderSaved
                /\ UNCHANGED <<form, view, refresh, call, raced, faults>>
Fairness ==
    /\ WF_vars(ServerGoesOn) /\ WF_vars(IntervalTicks)
    /\ \A c \in Call : /\ WF_vars(Answered(c) \/ OrphanEnds(c))
                       /\ \A p \in Part : WF_vars(Read(c, p))
FairSpec == Spec /\ Fairness
=============================================================================
