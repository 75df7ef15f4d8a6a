------------------------ MODULE OrdersViewProperties ------------------------
(* What the pages of orders and balances promise.                          *)
EXTENDS OrdersView

Age == -1..MaxNews
(* What the variables range over.                                          *)
OrdersTypeOK ==
    /\ news \in [Part -> 0..MaxNews]
    /\ page \in Pages /\ filter \in Filter /\ asked \in Filter
    /\ result \in [filter : Filter, read : [Part -> Age]]
    /\ {error, loading, autoRefresh, timerSet, raced} \subseteq BOOLEAN
    /\ timers \in Nat /\ faults \in 0..MaxFaults
    /\ call \in [Call -> [pc : {"free", "asked", "orphan"}, filter : Filter,
                          todo : SUBSET Part, read : [Part -> Age]]]

(* InternalOrdersView.vue:300-319: the interval runs if and only if the    *)
(* page is on show and auto-refresh is on, however often it was switched   *)
(* and left: a second one would double the requests for good.              *)
OneInterval == timers = IF page = "internal" /\ autoRefresh THEN 1 ELSE 0

(* InternalOrdersView.vue:246-262, ExchangeOrdersView.vue:70-81,           *)
(* AccountView.vue:13-32: no page is ever blank, nor a list without an     *)
(* error an answer to another question than the last, unless requests      *)
(* raced, and an account that could not be read says so.                   *)
ShownAsAsked ==
    /\ Shown \notin {{}, {"no data"}}
    /\ Shown = {"result"} /\ ~raced => result.filter = asked

(* InternalOrdersView.vue:315: a page left open with auto-refresh shows in *)
(* the end what the exchange did, in orders and positions alike, whatever  *)
(* answers came late, in the wrong order or not at all.                    *)
Latest == \A p \in {"orders", "positions"} : result.read[p] = news["exchange"]
CatchesUp == <>[](page = "internal" /\ autoRefresh) => <>[]Latest
=============================================================================
