------------------------- MODULE OrdersViewTheorems -------------------------
(***************************************************************************)
(* However often pages are opened and left, auto-refresh is switched and   *)
(* sessions expire, the list of orders has the one interval it should, and *)
(* what is shown answers what was asked.                                   *)
(*                                                                         *)
(* OneInterval alone is not inductive: leaving the page clears the         *)
(* interval only if refreshTimer refers to it.                             *)
(***************************************************************************)
EXTENDS OrdersViewProperties, TLAPS

(* refreshTimer is set exactly while the interval should run.              *)
TimerIsKnown == timerSet <=> page = "internal" /\ autoRefresh

IInv ==
    /\ page \in Pages
    /\ autoRefresh \in BOOLEAN
    /\ timerSet \in BOOLEAN
    /\ TimerIsKnown
    /\ OneInterval

(* What IInv speaks of.                                                    *)
intervals == <<page, autoRefresh, timers, timerSet>>

(* A step that leaves these alone leaves IInv alone.                       *)
LEMMA IInvStutters == IInv /\ UNCHANGED intervals => IInv'
  BY DEF IInv, intervals, TimerIsKnown, OneInterval

(* No page has an interval before one is opened.                           *)
LEMMA IInvInit == Init => IInv
  BY DEF Init, IInv, TimerIsKnown, OneInterval, Pages

(* Leaving the page clears the interval, entering it starts one.           *)
LEMMA IInvOpen == ASSUME NEW pg \in Pages, IInv, Open(pg) PROVE IInv'
<1>1. /\ page' = pg /\ pg # page
      /\ autoRefresh' = autoRefresh
      /\ timerSet' = (pg = "internal" /\ autoRefresh)
      /\ timers' = (IF page = "internal" THEN TimersLeft ELSE timers) +
                   (IF StartsInterval(pg) THEN 1 ELSE 0)
  BY DEF Open, StartsInterval
<1>2. (IF page = "internal" THEN TimersLeft ELSE timers) = 0
  BY DEF IInv, TimerIsKnown, OneInterval, TimersLeft
<1>3. timers' = IF page' = "internal" /\ autoRefresh' THEN 1 ELSE 0
  BY <1>1, <1>2 DEF StartsInterval
<1>4. QED  BY <1>1, <1>3 DEF IInv, TimerIsKnown, OneInterval

(* The button starts the interval or clears it.                            *)
LEMMA IInvToggle == ASSUME IInv, ToggleAutoRefresh PROVE IInv'
<1>1. /\ page = "internal" /\ page' = page
      /\ autoRefresh' = ~autoRefresh
      /\ timers' = IF autoRefresh THEN TimersLeft ELSE timers + 1
      /\ timerSet' = autoRefresh'
  BY DEF ToggleAutoRefresh, form
<1>2. CASE autoRefresh
  <2>1. timerSet /\ timers = 1
    BY <1>1, <1>2 DEF IInv, TimerIsKnown, OneInterval
  <2>2. timers' = 0
    BY <1>1, <1>2, <2>1 DEF TimersLeft
  <2>3. ~autoRefresh' /\ ~timerSet' /\ {autoRefresh', timerSet'} \subseteq BOOLEAN
    BY <1>1, <1>2
  <2>4. QED  BY <1>1, <2>2, <2>3 DEF IInv, TimerIsKnown, OneInterval
<1>3. CASE ~autoRefresh
  <2>1. timers = 0
    BY <1>1, <1>3 DEF IInv, OneInterval
  <2>2. timers' = 1
    BY <1>1, <1>3, <2>1
  <2>3. autoRefresh' /\ timerSet' /\ {autoRefresh', timerSet'} \subseteq BOOLEAN
    BY <1>1, <1>3
  <2>4. QED  BY <1>1, <2>2, <2>3 DEF IInv, TimerIsKnown, OneInterval
<1>4. QED  BY <1>2, <1>3 DEF IInv

(* A session that ends loads the tab anew, and its intervals are gone.     *)
LEMMA IInvUnauthorized ==
    ASSUME NEW c \in Call, IInv, Unauthorized(c) PROVE IInv'
  BY DEF Unauthorized, IInv, TimerIsKnown, OneInterval, Pages

(* Every other action leaves pages and intervals alone.                    *)
LEMMA IInvNext == IInv /\ [Next]_vars => IInv'
<1> SUFFICES ASSUME IInv, [Next]_vars PROVE IInv'
  OBVIOUS
<1>1. CASE Server
  BY <1>1, IInvStutters DEF Server, form, refresh, intervals
<1>2. CASE Submit \/ IntervalTicks
  BY <1>2, IInvStutters DEF Submit, IntervalTicks, Again, form, refresh, intervals
<1>3. CASE ToggleAutoRefresh
  BY <1>3, IInvToggle
<1>4. CASE \E pg \in Pages : Open(pg)
  BY <1>4, IInvOpen
<1>5. CASE \E f \in Filter : ChangeFilter(f)
  BY <1>5, IInvStutters DEF ChangeFilter, refresh, intervals
<1>6. ASSUME NEW c \in Call, Answered(c) \/ Failed(c) \/ OrphanEnds(c) PROVE IInv'
  BY <1>6, IInvStutters
     DEF Answered, Failed, OrphanEnds, form, refresh, intervals
<1>7. ASSUME NEW c \in Call,
             FindByFilters(c) \/ FindOpenPositions(c) \/ AskExchange(c) PROVE IInv'
  BY <1>7, IInvStutters
     DEF FindByFilters, FindOpenPositions, AskExchange, Read, form, refresh, intervals
<1>8. ASSUME NEW c \in Call, Unauthorized(c) PROVE IInv'
  BY <1>8, IInvUnauthorized
<1>9. CASE UNCHANGED vars
  BY <1>9, IInvStutters DEF vars, form, refresh, intervals
<1>10. QED
  BY <1>1, <1>2, <1>3, <1>4, <1>5, <1>6, <1>7, <1>8, <1>9 DEF Next

(* InternalOrdersView.vue:300-319: the interval runs if and only if the    *)
(* page is on show and auto-refresh is on.                                 *)
THEOREM OneIntervalAtMost == Spec => []OneInterval
<1>1. IInv => OneInterval  BY DEF IInv
<1>2. QED  BY <1>1, IInvInit, IInvNext, PTL DEF Spec

-----------------------------------------------------------------------------
(* What is shown.  A request under way is of the page on show and asks     *)
(* what was asked last; an answered one has read something, so a result is *)
(* never the empty one a page begins with; and a page that asks when it is *)
(* opened has an answer, an error or a request under way ever after.       *)
Asking == {"internal", "exchange", "account"}
Request == [pc : {"free", "asked", "orphan"}, filter : Filter,
            todo : SUBSET Part, read : [Part -> Int]]
ViewTyped ==
    news \in [Part -> Nat] /\ page \in Pages /\ call \in [Call -> Request]
IsOfPage(r) == r.pc = "asked" =>
    /\ page \in Asking
    /\ \A p \in PartsOf(page) \ r.todo : r.read[p] >= 0
    /\ ~raced => r.filter = asked
CallsOfPage == \A c \in Call : IsOfPage(call[c])
NeverBlank == page \in {"internal", "account"} => error \/ loading \/ result # None
AsAsked ==
    ~raced /\ ~loading /\ ~error /\ result # None => result.filter = asked
ViewInv == ViewTyped /\ CallsOfPage /\ NeverBlank /\ AsAsked

LEMMA FreeIsRequest == Free \in Request /\ Free.pc = "free"
  BY DEF Free, Request, Filter, Unread

LEMMA ReadsSomething ==
    ASSUME NEW pg \in Asking
    PROVE  PartsOf(pg) \subseteq Part /\ PartsOf(pg) # {}
  BY DEF Asking, PartsOf, ListInternalOrders, ListExchangeOrders, Balance, Part

LEMMA ViewInvInit == Init => ViewInv
<1> SUFFICES ASSUME Init PROVE ViewInv
  OBVIOUS
<1>1. /\ news = [p \in Part |-> 0] /\ page = "rules" /\ result = None
      /\ call = [c \in Call |-> Free]
  BY DEF Init
<1>2. ViewTyped /\ CallsOfPage
  BY <1>1, FreeIsRequest DEF ViewTyped, CallsOfPage, IsOfPage, Pages
<1>3. NeverBlank /\ AsAsked
  BY <1>1 DEF NeverBlank, AsAsked
<1>4. QED  BY <1>2, <1>3 DEF ViewInv

(* A step that leaves page, answers and requests alone.                    *)
LEMMA ViewInvStutters ==
    ASSUME ViewInv, news' \in [Part -> Nat],
           UNCHANGED <<page, result, asked, error, loading, call, raced>>
    PROVE  ViewInv'
<1>1. ViewTyped' /\ CallsOfPage'
  BY DEF ViewInv, ViewTyped, CallsOfPage, IsOfPage
<1>2. NeverBlank' /\ AsAsked'
  BY DEF ViewInv, NeverBlank, AsAsked
<1>3. QED  BY <1>1, <1>2 DEF ViewInv

(* A request that is sent asks what is asked last.                         *)
LEMMA Fetching ==
    ASSUME NEW pg \in Asking, NEW f \in Filter, NEW calls \in [Call -> Request],
           Fetch(pg, f, calls), page' = pg, raced' \in BOOLEAN,
           \A c \in Call : calls[c].pc = "asked" =>
               /\ \A p \in PartsOf(pg) \ calls[c].todo : calls[c].read[p] >= 0
               /\ raced'
    PROVE  /\ call' \in [Call -> Request] /\ CallsOfPage'
           /\ NeverBlank' /\ AsAsked'
<1> DEFINE r == [pc |-> "asked", filter |-> f, todo |-> PartsOf(pg), read |-> Unread]
<1>1. PICK c \in Call : call' = [calls EXCEPT ![c] = r]
  BY DEF Fetch
<1>2. asked' = f /\ loading' = TRUE
  BY DEF Fetch
<1>3. r \in Request /\ r.filter = f /\ r.todo = PartsOf(pg)
  BY ReadsSomething DEF Request, Unread
<1> HIDE DEF r
<1>4. /\ call' \in [Call -> Request] /\ call'[c] = r
      /\ \A x \in Call \ {c} : call'[x] = calls[x]
  BY <1>1, <1>3
<1>5. IsOfPage(r)'
  BY <1>2, <1>3 DEF IsOfPage, r
<1>6. \A x \in Call \ {c} : IsOfPage(calls[x])'
  BY DEF IsOfPage
<1>7. CallsOfPage'
  <2>1. ASSUME NEW x \in Call PROVE IsOfPage(call[x])'
    <3>1. CASE x = c
      BY <1>4, <1>5, <3>1 DEF IsOfPage, r
    <3>2. CASE x # c
      BY <1>4, <1>6, <3>2 DEF IsOfPage
    <3>3. QED  BY <3>1, <3>2
  <2>2. QED  BY <2>1 DEF CallsOfPage
<1>8. NeverBlank' /\ AsAsked'
  BY <1>2 DEF NeverBlank, AsAsked
<1>9. QED  BY <1>4, <1>7, <1>8

(* A part is read: what is read has an age.                                *)
LEMMA ViewInvRead ==
    ASSUME ViewInv, NEW c \in Call, NEW p \in Part, Read(c, p) PROVE ViewInv'
<1> DEFINE r == call[c]
           d == [r EXCEPT !.todo = @ \ {p}, !.read = [@ EXCEPT ![p] = news[p]]]
<1>1. r \in Request /\ news[p] \in Nat /\ IsOfPage(r) /\ call \in [Call -> Request]
  BY DEF ViewInv, ViewTyped, CallsOfPage
<1>2. call' = [call EXCEPT ![c] = d]
  BY <1>1 DEF Read, Request
<1>3. UNCHANGED <<news, page, result, asked, error, loading, raced>>
  BY DEF Read, form, view
<1>4. [r.read EXCEPT ![p] = news[p]] \in [Part -> Int]
  BY <1>1 DEF Request
<1>5. /\ d \in Request /\ d.pc = r.pc /\ d.filter = r.filter
      /\ d.todo = r.todo \ {p} /\ d.read = [r.read EXCEPT ![p] = news[p]]
  BY <1>1, <1>4 DEF Request
<1>6. \A q \in Part : d.read[q] = IF q = p THEN news[p] ELSE r.read[q]
  BY <1>1, <1>5 DEF Request
<1> HIDE DEF d
<1>7. /\ call' \in [Call -> Request] /\ call'[c] = d
      /\ \A x \in Call \ {c} : call'[x] = call[x]
  BY <1>1, <1>2, <1>5
<1>8. IsOfPage(d)
  <2> SUFFICES ASSUME d.pc = "asked"
               PROVE  /\ page \in Asking
                      /\ \A q \in PartsOf(page) \ d.todo : d.read[q] >= 0
                      /\ ~raced => d.filter = asked
    BY DEF IsOfPage
  <2>1. /\ page \in Asking
        /\ ~raced => d.filter = asked
        /\ \A q \in PartsOf(page) \ r.todo : r.read[q] >= 0
    BY <1>1, <1>5 DEF IsOfPage
  <2>2. \A q \in PartsOf(page) \ d.todo : d.read[q] >= 0
    BY <1>1, <1>5, <1>6, <2>1, ReadsSomething
  <2>3. QED  BY <2>1, <2>2
<1>9. CallsOfPage'
  <2>1. ASSUME NEW x \in Call PROVE IsOfPage(call[x])'
    <3>1. CASE x = c
      BY <1>3, <1>7, <1>8, <3>1 DEF IsOfPage
    <3>2. CASE x # c
      BY <1>3, <1>7, <3>2 DEF ViewInv, CallsOfPage, IsOfPage
    <3>3. QED  BY <3>1, <3>2
  <2>2. QED  BY <2>1 DEF CallsOfPage
<1>10. ViewTyped' /\ NeverBlank' /\ AsAsked'
  BY <1>3, <1>7 DEF ViewInv, ViewTyped, NeverBlank, AsAsked
<1>11. QED  BY <1>9, <1>10 DEF ViewInv

(* A request ends.                                                         *)
LEMMA CallEnds ==
    ASSUME ViewInv, NEW c \in Call, call' = [call EXCEPT ![c] = Free],
           UNCHANGED <<news, page, asked, raced>>
    PROVE  ViewTyped' /\ CallsOfPage'
<1>1. call \in [Call -> Request] /\ CallsOfPage
  BY DEF ViewInv, ViewTyped
<1>2. /\ call' \in [Call -> Request] /\ call'[c] = Free
      /\ \A x \in Call \ {c} : call'[x] = call[x]
  BY <1>1, FreeIsRequest
<1>3. ASSUME NEW x \in Call PROVE IsOfPage(call[x])'
  <2>1. CASE x = c
    BY <1>2, <2>1, FreeIsRequest DEF IsOfPage
  <2>2. CASE x # c
    BY <1>1, <1>2, <2>2 DEF CallsOfPage, IsOfPage
  <2>3. QED  BY <2>1, <2>2
<1>4. QED  BY <1>2, <1>3 DEF ViewInv, ViewTyped, CallsOfPage

LEMMA ViewInvAnswered ==
    ASSUME ViewInv, NEW c \in Call, Answered(c) PROVE ViewInv'
<1>1. /\ call[c].pc = "asked" /\ call[c].todo = {}
      /\ result' = [filter |-> call[c].filter, read |-> call[c].read]
      /\ call' = [call EXCEPT ![c] = Free]
      /\ UNCHANGED <<news, page, asked, error, raced>>
  BY DEF Answered, Mine, form
<1>2. IsOfPage(call[c])
  BY DEF ViewInv, CallsOfPage
<1>3. page \in Asking /\ (~raced => call[c].filter = asked)
  BY <1>1, <1>2 DEF IsOfPage
<1>4. PICK p \in PartsOf(page) : p \in Part /\ call[c].read[p] >= 0
  BY <1>1, <1>2, ReadsSomething DEF IsOfPage
<1>5. result'.filter = call[c].filter /\ result'.read[p] >= 0
  BY <1>1, <1>4
<1>6. None.read[p] = -1
  BY <1>4 DEF None, Unread
<1>7. result' # None
  BY <1>5, <1>6
<1>8. NeverBlank' /\ AsAsked'
  BY <1>1, <1>3, <1>5, <1>7 DEF NeverBlank, AsAsked
<1>9. QED  BY <1>1, <1>8, CallEnds DEF ViewInv

LEMMA ViewInvFailed ==
    ASSUME ViewInv, NEW c \in Call, Failed(c) PROVE ViewInv'
<1>1. /\ error' /\ call' = [call EXCEPT ![c] = Free]
      /\ UNCHANGED <<news, page, asked, raced>>
  BY DEF Failed, ErrorAfter, form
<1>2. NeverBlank' /\ AsAsked'
  BY <1>1 DEF NeverBlank, AsAsked
<1>3. QED  BY <1>1, <1>2, CallEnds DEF ViewInv

LEMMA ViewInvOrphanEnds ==
    ASSUME ViewInv, NEW c \in Call, OrphanEnds(c) PROVE ViewInv'
<1>1. /\ call' = [call EXCEPT ![c] = Free]
      /\ UNCHANGED <<news, page, result, asked, error, loading, raced>>
  BY DEF OrphanEnds, form, view
<1>2. NeverBlank' /\ AsAsked'
  BY <1>1 DEF ViewInv, NeverBlank, AsAsked
<1>3. QED  BY <1>1, <1>2, CallEnds DEF ViewInv

LEMMA ViewInvUnauthorized ==
    ASSUME ViewInv, NEW c \in Call, Unauthorized(c) PROVE ViewInv'
<1>1. /\ page' = "rules" /\ result' = None /\ call' = [x \in Call |-> Free]
      /\ news' = news
  BY DEF Unauthorized
<1>2. ViewTyped' /\ CallsOfPage'
  BY <1>1, FreeIsRequest DEF ViewInv, ViewTyped, CallsOfPage, IsOfPage, Pages
<1>3. NeverBlank' /\ AsAsked'
  BY <1>1 DEF NeverBlank, AsAsked
<1>4. QED  BY <1>2, <1>3 DEF ViewInv

(* No request of the page that was left is the new page's.                 *)
LEMMA OrphanedCalls ==
    ASSUME call \in [Call -> Request]
    PROVE  /\ Orphaned \in [Call -> Request]
           /\ \A c \in Call : Orphaned[c].pc # "asked"
<1> DEFINE o == [Free EXCEPT !.pc = "orphan"]
<1>1. o \in Request /\ o.pc = "orphan"
  BY FreeIsRequest DEF Request, Free
<1> HIDE DEF o
<1>2. Orphaned = [c \in Call |-> IF call[c].pc = "asked" THEN o ELSE call[c]]
  BY DEF Orphaned, o
<1>3. QED  BY <1>1, <1>2

LEMMA ViewInvOpen ==
    ASSUME ViewInv, NEW pg \in Pages, Open(pg) PROVE ViewInv'
<1>1. page' = pg /\ raced' = FALSE /\ result' = None /\ news' = news
  BY DEF Open
<1>2. /\ Orphaned \in [Call -> Request]
      /\ \A c \in Call : Orphaned[c].pc # "asked"
  BY OrphanedCalls DEF ViewInv, ViewTyped
<1>3. CASE pg \in {"internal", "account"}
  <2>1. Fetch(pg, "default", Orphaned) /\ pg \in Asking /\ "default" \in Filter
    BY <1>3 DEF Open, Asking, Filter
  <2>2. call' \in [Call -> Request] /\ CallsOfPage' /\ NeverBlank' /\ AsAsked'
    BY <1>1, <1>2, <2>1, Fetching
  <2>3. QED  BY <1>1, <2>2 DEF ViewInv, ViewTyped
<1>4. CASE pg \notin {"internal", "account"}
  <2>1. call' = Orphaned
    BY <1>4 DEF Open
  <2>2. ViewTyped' /\ CallsOfPage'
    BY <1>1, <1>2, <2>1 DEF ViewInv, ViewTyped, CallsOfPage, IsOfPage
  <2>3. NeverBlank' /\ AsAsked'
    BY <1>1, <1>4 DEF NeverBlank, AsAsked
  <2>4. QED  BY <2>2, <2>3 DEF ViewInv
<1>5. QED  BY <1>3, <1>4

(* A second request under way is remembered as a race.                     *)
LEMMA ViewInvAgain ==
    ASSUME ViewInv, filter \in Filter, raced \in BOOLEAN,
           page \in {"internal", "exchange"}, Again
    PROVE  ViewInv'
<1>1. /\ Fetch(page, filter, call) /\ raced' = (raced \/ Mine # {})
      /\ page' = page /\ news' = news
  BY DEF Again, form
<1>2. call \in [Call -> Request] /\ CallsOfPage /\ page \in Asking
  BY DEF ViewInv, ViewTyped, Asking
<1>3. ASSUME NEW c \in Call, call[c].pc = "asked"
      PROVE  /\ \A p \in PartsOf(page) \ call[c].todo : call[c].read[p] >= 0
             /\ raced'
  BY <1>1, <1>2, <1>3 DEF CallsOfPage, IsOfPage, Mine
<1>4. raced' \in BOOLEAN
  BY <1>1
<1>5. call' \in [Call -> Request] /\ CallsOfPage' /\ NeverBlank' /\ AsAsked'
  BY <1>1, <1>2, <1>3, <1>4, Fetching
<1>6. QED  BY <1>1, <1>5 DEF ViewInv, ViewTyped

(* The news only ever come further.                                        *)
LEMMA ViewInvServer == ASSUME ViewInv, Server PROVE ViewInv'
<1>1. /\ news \in [Part -> Nat]
      /\ UNCHANGED <<page, result, asked, error, loading, call, raced>>
  BY DEF ViewInv, ViewTyped, Server, form, view
<1>2. {"exchange", "positions", "orders"} \subseteq Part
  BY DEF Part
<1>3. news' \in [Part -> Nat]
  BY <1>1, <1>2 DEF Server, OrderFilled, PositionWritten, OrderSaved
<1>4. QED  BY <1>1, <1>3, ViewInvStutters

(* The filters of the form are filters.                                    *)
FormTyped == filter \in Filter /\ raced \in BOOLEAN

LEMMA FormTypedNext == FormTyped /\ [Next]_vars => FormTyped'
<1> SUFFICES ASSUME FormTyped, [Next]_vars PROVE FormTyped'
  OBVIOUS
<1> USE DEF FormTyped, Filter
<1>1. CASE Server  BY <1>1 DEF Server, form
<1>2. CASE Submit \/ IntervalTicks
  BY <1>2 DEF Submit, IntervalTicks, Again, form
<1>3. CASE ToggleAutoRefresh  BY <1>3 DEF ToggleAutoRefresh, form
<1>4. CASE \E pg \in Pages : Open(pg)  BY <1>4 DEF Open
<1>5. CASE \E f \in Filter : ChangeFilter(f)  BY <1>5 DEF ChangeFilter
<1>6. ASSUME NEW c \in Call, Answered(c) \/ Failed(c) \/ OrphanEnds(c)
      PROVE  FormTyped'
  BY <1>6 DEF Answered, Failed, OrphanEnds, form
<1>7. ASSUME NEW c \in Call, FindByFilters(c) \/ FindOpenPositions(c) \/ AskExchange(c)
      PROVE  FormTyped'
  BY <1>7 DEF FindByFilters, FindOpenPositions, AskExchange, Read, form
<1>8. ASSUME NEW c \in Call, Unauthorized(c) PROVE FormTyped'
  BY <1>8 DEF Unauthorized
<1>9. CASE UNCHANGED vars  BY <1>9 DEF vars, form
<1>10. QED
  BY <1>1, <1>2, <1>3, <1>4, <1>5, <1>6, <1>7, <1>8, <1>9 DEF Next

LEMMA ViewInvNext == FormTyped /\ ViewInv /\ [Next]_vars => ViewInv'
<1> SUFFICES ASSUME FormTyped, ViewInv, [Next]_vars PROVE ViewInv'
  OBVIOUS
<1>0. news \in [Part -> Nat] /\ filter \in Filter /\ raced \in BOOLEAN
  BY DEF ViewInv, ViewTyped, FormTyped
<1>1. CASE Server  BY <1>1, ViewInvServer
<1>2. CASE Submit \/ IntervalTicks
  BY <1>0, <1>2, ViewInvAgain DEF Submit, IntervalTicks
<1>3. CASE ToggleAutoRefresh
  BY <1>0, <1>3, ViewInvStutters DEF ToggleAutoRefresh, form, view
<1>4. CASE \E pg \in Pages : Open(pg)  BY <1>4, ViewInvOpen
<1>5. CASE \E f \in Filter : ChangeFilter(f)
  BY <1>0, <1>5, ViewInvStutters DEF ChangeFilter, view
<1>6. ASSUME NEW c \in Call,
             Answered(c) \/ Failed(c) \/ OrphanEnds(c) \/ Unauthorized(c)
      PROVE  ViewInv'
  BY <1>6, ViewInvAnswered, ViewInvFailed, ViewInvOrphanEnds, ViewInvUnauthorized
<1>7. ASSUME NEW c \in Call, FindByFilters(c) \/ FindOpenPositions(c) \/ AskExchange(c)
      PROVE  ViewInv'
  BY <1>7, ViewInvRead DEF FindByFilters, FindOpenPositions, AskExchange, Part
<1>8. CASE UNCHANGED vars
  BY <1>0, <1>8, ViewInvStutters DEF vars, form, view
<1>9. QED
  BY <1>1, <1>2, <1>3, <1>4, <1>5, <1>6, <1>7, <1>8 DEF Next

(* A list that stands alone stands without an error, and nothing loads.    *)
LEMMA ListAlone ==
    /\ error \/ loading \/ result # None => ShownOfInternal \notin {{}, {"no data"}}
    /\ ShownOfInternal = {"result"} => ~loading /\ ~error /\ result # None
<1>1. /\ "error" \in ShownOfInternal <=> error
      /\ "loading" \in ShownOfInternal <=> loading
      /\ "result" \in ShownOfInternal <=> ~loading /\ result # None
      /\ "no data" \notin ShownOfInternal
  BY DEF ShownOfInternal
<1> HIDE DEF ShownOfInternal
<1>2. ASSUME error \/ loading \/ result # None
      PROVE  ShownOfInternal \notin {{}, {"no data"}}
  BY <1>1, <1>2
<1>3. ASSUME ShownOfInternal = {"result"}
      PROVE  ~loading /\ ~error /\ result # None
  BY <1>1, <1>3
<1>4. QED  BY <1>2, <1>3

LEMMA ViewInvShows == ViewInv => ShownAsAsked
<1> SUFFICES ASSUME ViewInv PROVE ShownAsAsked
  OBVIOUS
<1>1. NeverBlank /\ AsAsked /\ page \in Pages
  BY DEF ViewInv, ViewTyped
<1>2. CASE page = "rules"
  BY <1>2 DEF Shown, ShownAsAsked
<1>3. CASE page = "internal"
  <2>1. Shown = ShownOfInternal
    BY <1>3 DEF Shown
  <2>2. /\ Shown \notin {{}, {"no data"}}
        /\ Shown = {"result"} => ~loading /\ ~error /\ result # None
    BY <1>1, <1>3, <2>1, ListAlone DEF NeverBlank
  <2>3. QED  BY <1>1, <2>2 DEF ShownAsAsked, AsAsked
<1>4. CASE page = "exchange"
  <2>1. Shown = ShownOfExchange
    BY <1>4 DEF Shown
  <2>2. /\ Shown \notin {{}, {"no data"}}
        /\ Shown = {"result"} => ~loading /\ ~error /\ result # None
    BY <2>1, ListAlone DEF ShownOfExchange
  <2>3. QED  BY <1>1, <2>2 DEF ShownAsAsked, AsAsked
<1>5. CASE page = "account"
  <2>1. Shown = ShownOfAccount
    BY <1>5 DEF Shown
  <2>2. /\ Shown \notin {{}, {"no data"}}
        /\ Shown = {"result"} => ~loading /\ ~error /\ result # None
    BY <1>1, <1>5, <2>1 DEF ShownOfAccount, NeverBlank
  <2>3. QED  BY <1>1, <2>2 DEF ShownAsAsked, AsAsked
<1>6. QED  BY <1>1, <1>2, <1>3, <1>4, <1>5 DEF Pages

(* InternalOrdersView.vue:246-262, ExchangeOrdersView.vue:70-81,           *)
(* AccountView.vue:13-32: no page is ever blank, nor a list without an     *)
(* error an answer to another question than the last, unless requests      *)
(* raced.                                                                  *)
THEOREM PagesShowWhatWasAsked == Spec => []ShownAsAsked
<1>1. Init => FormTyped /\ ViewInv
  <2>1. Init => FormTyped
    BY DEF Init, FormTyped, Filter
  <2>2. QED  BY <2>1, ViewInvInit
<1>2. FormTyped /\ ViewInv /\ [Next]_vars => (FormTyped /\ ViewInv)'
  BY FormTypedNext, ViewInvNext
<1>3. QED  BY <1>1, <1>2, ViewInvShows, PTL DEF Spec

-----------------------------------------------------------------------------
(* What remains of the types: the question, the flags, and ages.           *)
Answer == [filter : Filter, read : [Part -> Age]]
Remaining ==
    /\ asked \in Filter /\ error \in BOOLEAN /\ loading \in BOOLEAN
    /\ faults \in 0..MaxFaults /\ news \in [Part -> 0..MaxNews]
    /\ result \in Answer
    /\ \A c \in Call : call[c].read \in [Part -> Age]

LEMMA Empty == Free.read \in [Part -> Age] /\ None \in Answer /\ "default" \in Filter
<1>1. MaxNews \in Nat /\ -1 \in Age
  BY ViewAssumption DEF Age
<1>2. QED  BY <1>1 DEF Free, None, Unread, Answer, Filter

LEMMA RemainingFetch ==
    ASSUME NEW pg, NEW f \in Filter, NEW calls, DOMAIN calls = Call, Fetch(pg, f, calls),
           \A c \in Call : calls[c].read \in [Part -> Age]
    PROVE  /\ \A c \in Call : call'[c].read \in [Part -> Age]
           /\ asked' \in Filter /\ error' \in BOOLEAN /\ loading' \in BOOLEAN
<1> DEFINE r == [pc |-> "asked", filter |-> f, todo |-> PartsOf(pg), read |-> Unread]
<1>1. PICK c \in Call : call' = [calls EXCEPT ![c] = r]
  BY DEF Fetch
<1>2. r.read \in [Part -> Age]
  BY Empty DEF Free
<1> HIDE DEF r
<1>3. \A x \in Call : call'[x] = IF x = c THEN r ELSE calls[x]
  BY <1>1
<1>4. QED  BY <1>2, <1>3 DEF Fetch

LEMMA RemainingEnds ==
    ASSUME Remaining, ViewTyped, NEW c \in Call, call' = [call EXCEPT ![c] = Free]
    PROVE  \A x \in Call : call'[x].read \in [Part -> Age]
<1>1. \A x \in Call : call'[x] = IF x = c THEN Free ELSE call[x]
  BY DEF ViewTyped
<1>2. QED  BY <1>1, Empty DEF Remaining

LEMMA RemainingRead ==
    ASSUME Remaining, ViewTyped, NEW c \in Call, NEW p \in Part, Read(c, p) PROVE Remaining'
<1>1. call[c] \in Request /\ news[p] \in Age /\ call[c].read \in [Part -> Age]
  BY ViewAssumption DEF ViewTyped, Remaining, Age
<1> DEFINE d == [call[c] EXCEPT !.todo = @ \ {p}, !.read = [@ EXCEPT ![p] = news[p]]]
<1>2. call' = [call EXCEPT ![c] = d] /\ d.read = [call[c].read EXCEPT ![p] = news[p]]
  BY <1>1 DEF Read, ViewTyped, Request
<1>3. d.read \in [Part -> Age]
  BY <1>1, <1>2
<1> HIDE DEF d
<1>4. \A x \in Call : call'[x] = IF x = c THEN d ELSE call[x]
  BY <1>2 DEF ViewTyped
<1>5. QED  BY <1>3, <1>4 DEF Remaining, Read, form, view

LEMMA RemainingNext == FormTyped /\ ViewInv /\ Remaining /\ [Next]_vars => Remaining'
<1> SUFFICES ASSUME FormTyped, ViewInv, Remaining, [Next]_vars PROVE Remaining'
  OBVIOUS
<1>0. /\ MaxNews \in Nat /\ MaxFaults \in Nat /\ filter \in Filter
      /\ ViewTyped /\ DOMAIN call = Call /\ call \in [Call -> Request]
  BY ViewAssumption DEF FormTyped, ViewInv, ViewTyped
<1> USE DEF Remaining
<1>1. CASE Server
  <2>1. {"exchange", "positions", "orders"} \subseteq Part
    BY DEF Part
  <2>2. news' \in [Part -> 0..MaxNews]
    BY <1>0, <1>1, <2>1 DEF Server, OrderFilled, PositionWritten, OrderSaved
  <2>3. QED  BY <1>1, <2>2 DEF Server, form, view
<1>2. CASE Submit \/ IntervalTicks
  <2>1. Again /\ Fetch(page, filter, call)
    BY <1>2 DEF Submit, IntervalTicks, Again
  <2>2. QED  BY <1>0, <2>1, RemainingFetch DEF Again
<1>3. CASE ToggleAutoRefresh \/ (\E f \in Filter : ChangeFilter(f)) \/ UNCHANGED vars
  BY <1>3 DEF ToggleAutoRefresh, ChangeFilter, vars, view
<1>4. ASSUME NEW pg \in Pages, Open(pg) PROVE Remaining'
  <2>1. \A c \in Call : Orphaned[c].read \in [Part -> Age]
    <3>1. [Free EXCEPT !.pc = "orphan"].read = Free.read
      BY DEF Free
    <3>2. QED  BY <3>1, Empty DEF Orphaned
  <2>2. DOMAIN Orphaned = Call
    BY DEF Orphaned
  <2>3. UNCHANGED <<news, faults>> /\ result' = None
    BY <1>4 DEF Open
  <2>4. CASE pg \in {"internal", "account"}
    <3>1. Fetch(pg, "default", Orphaned)
      BY <1>4, <2>4 DEF Open
    <3>2. QED  BY <2>1, <2>2, <2>3, <3>1, Empty, RemainingFetch
  <2>5. CASE pg \notin {"internal", "account"}
    <3>1. call' = Orphaned /\ asked' = "default" /\ error' = FALSE /\ loading' = FALSE
      BY <1>4, <2>5 DEF Open
    <3>2. QED  BY <2>1, <2>3, <3>1, Empty
  <2>6. QED  BY <2>4, <2>5
<1>5. ASSUME NEW c \in Call, Answered(c) PROVE Remaining'
  <2>1. result' \in Answer
    BY <1>0, <1>5 DEF Answered, Answer, Request
  <2>2. QED  BY <1>0, <1>5, <2>1, RemainingEnds DEF Answered
<1>6. ASSUME NEW c \in Call, Failed(c) PROVE Remaining'
  <2>1. faults < MaxFaults /\ faults' = faults + 1 /\ error' = TRUE /\ loading' = FALSE
        /\ UNCHANGED <<news, asked, result>> /\ call' = [call EXCEPT ![c] = Free]
    BY <1>6 DEF Failed, ErrorAfter
  <2>2. faults' \in 0..MaxFaults
    BY <1>0, <2>1
  <2>3. QED  BY <1>0, <2>1, <2>2, RemainingEnds
<1>7. ASSUME NEW c \in Call, OrphanEnds(c) PROVE Remaining'
  BY <1>0, <1>7, RemainingEnds DEF OrphanEnds, view
<1>8. ASSUME NEW c \in Call, Unauthorized(c) PROVE Remaining'
  <2>1. faults < MaxFaults /\ faults' = faults + 1
    BY <1>8 DEF Unauthorized
  <2>2. faults' \in 0..MaxFaults
    BY <1>0, <2>1
  <2>3. QED  BY <1>8, <2>2, Empty DEF Unauthorized
<1>9. ASSUME NEW c \in Call, FindByFilters(c) \/ FindOpenPositions(c) \/ AskExchange(c)
      PROVE  Remaining'
  BY <1>0, <1>9, RemainingRead DEF FindByFilters, FindOpenPositions, AskExchange, Part
<1>10. QED
  BY <1>1, <1>2, <1>3, <1>4, <1>5, <1>6, <1>7, <1>8, <1>9 DEF Next

(* Every variable of the pages has its type: what is shown has an age.     *)
THEOREM OrdersPagesAreTyped == Spec => []OrdersTypeOK
<1>1. Init => IInv /\ FormTyped /\ ViewInv /\ Remaining
  <2> SUFFICES ASSUME Init PROVE FormTyped /\ Remaining
    BY IInvInit, ViewInvInit
  <2>1. /\ MaxNews \in Nat /\ MaxFaults \in Nat /\ 0 \in 0..MaxNews /\ 0 \in 0..MaxFaults
    BY ViewAssumption
  <2>2. news \in [Part -> 0..MaxNews] /\ \A c \in Call : call[c].read \in [Part -> Age]
    BY <2>1, Empty DEF Init
  <2>3. QED  BY <2>1, <2>2, Empty DEF Init, FormTyped, Remaining
<1>2. IInv /\ FormTyped /\ ViewInv /\ Remaining /\ [Next]_vars
      => (IInv /\ FormTyped /\ ViewInv /\ Remaining)'
  BY IInvNext, FormTypedNext, ViewInvNext, RemainingNext
<1>3. IInv /\ FormTyped /\ ViewInv /\ Remaining => OrdersTypeOK
  <2> SUFFICES ASSUME IInv, FormTyped, ViewInv, Remaining PROVE OrdersTypeOK
    OBVIOUS
  <2>1. /\ page \in Pages /\ timers \in Nat /\ {error, loading, autoRefresh, timerSet, raced} \subseteq BOOLEAN
    BY DEF IInv, OneInterval, FormTyped, Remaining
  <2>2. call \in [Call -> [pc : {"free", "asked", "orphan"}, filter : Filter,
                           todo : SUBSET Part, read : [Part -> Age]]]
    BY DEF ViewInv, ViewTyped, Request, Remaining
  <2>3. QED  BY <2>1, <2>2 DEF FormTyped, Remaining, Answer, OrdersTypeOK
<1>4. QED  BY <1>1, <1>2, <1>3, PTL DEF Spec
=============================================================================
