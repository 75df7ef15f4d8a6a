-------------------------- MODULE StreamProperties --------------------------
(* What a browser tab and the gateway promise of the live prices.          *)
EXTENDS WebStream

(* What the variables range over.                                          *)
StreamTypeOK ==
    /\ conn \in [Conn -> Connection]
    /\ tick \in 0..MaxTick /\ faults \in 0..MaxFaults
    /\ app \in {"starting", "login", "main"} /\ currentView \in Page
    /\ token \in {"none", "valid", "expired"}
    /\ ws \in Conn \cup {NoConn} /\ status \in {"connecting", "open", "closed"}
    /\ refCount \in {0, 1} /\ timers \in 0..MaxTimers /\ timerSet \in BOOLEAN
    /\ price \in Nat \cup {Never} /\ leaked \in BOOLEAN

(* useWsStream.ts:34, "one shared connection": whatever timers and closing *)
(* connections are left of earlier views, a tab never uses two connections *)
(* and calls the one it uses open only while it is (line 84; a late close  *)
(* may make it say closed of one that is open).                            *)
OneConnection ==
    /\ Cardinality({s \in Conn : conn[s].client \in {"connecting", "open"}}) <= 1
    /\ \A s \in Conn : conn[s].client \in {"connecting", "open"} => s = ws
    /\ status = "open" => ws # NoConn /\ conn[ws].client = "open"

(* useWsStream.ts:113: without a view that wants prices, nothing is open   *)
(* and no timer will open it, unless a connection nobody used any more     *)
(* ended with another code than 1000: a view left while it was connecting, *)
(* say.                                                                    *)
UnusedIsClosed == refCount = 0 /\ ~leaked =>
    timers = 0 /\ \A s \in Conn : conn[s].client \notin {"connecting", "open"}

(* useWsStream.ts:65: over all reconnections, the price shown never goes   *)
(* back to an older one while the page lives.                              *)
PricesInOrder == [][app' # "starting" => price' >= price]_price

(* useWsStream.ts:93: while a view wants prices and the session is valid,  *)
(* the tab is connected again after every fault.                           *)
StreamComesBack ==
    <>[](Mounted(app, currentView) /\ token = "valid")
        => <>[](ws # NoConn /\ conn[ws].client = "open")

(* api.ws.gateway.ts:109: a client that has gone without a word does not   *)
(* stay in the list of clients.                                            *)
Gone(s) == s \in Clients /\ (conn[s].cut \/ conn[s].client = "free")
DeadClientsLeave == \A s \in Conn : Gone(s) ~> s \notin Clients
=============================================================================
