----------------------------- MODULE WebStream -----------------------------
(***************************************************************************)
(* A browser tab: src/web/src/composables/useWsStream.ts, with the views   *)
(* that mount and unmount it (App.vue, LoginView.vue, RulesView.vue) and   *)
(* the session they depend on (api.ts, the auth module).                   *)
(*                                                                         *)
(* A WebSocket whose close event has been handled takes no part any more:  *)
(* ws is NoConn then.  Error events come with a close event, which         *)
(* overwrites the status they leave.                                       *)
(***************************************************************************)
EXTENDS ApiWsGateway

CONSTANTS
    NoConn,
    Page,           \* of App.vue, "rules" among them
    MaxTimers       \* bound on reconnection timers that run at a time
ASSUME TabAssumption ==
    NoConn \notin Conn /\ "rules" \in Page /\ MaxTimers \in Nat

VARIABLES
    app,            \* "starting", "login" (not authenticated) or "main"
    currentView,
    token,          \* in localStorage: "none", "valid" or "expired"
    ws, status,     \* of useWsStream
    refCount,
    timers,         \* reconnection timers that run, all of the same length
    timerSet,       \* is reconnectTimer the timer started last
    price,          \* prices
    leaked          \* history: did a connection nobody used end abnormally

gatewayVars == <<conn, tick, faults>>
session == <<app, currentView, token>>
stream == <<ws, status, refCount, timers, timerSet>>
vars == <<gatewayVars, session, stream, price, leaked>>

Never == -1

InitTab ==
    /\ app = "starting" /\ currentView = "rules" /\ token \in {"none", "valid"}
    /\ ws = NoConn /\ status = "closed" /\ refCount = 0
    /\ timers = 0 /\ timerSet = FALSE
    /\ price = Never
Init == InitGateway /\ InitTab /\ leaked = FALSE

-----------------------------------------------------------------------------
(* useWsStream *)

InUse == ws # NoConn /\ conn[ws].client \in {"connecting", "open"}

NewConnection ==
    LET s == CHOOSE x \in Conn : conn[x] = Fresh IN
    /\ \E x \in Conn : conn[x] = Fresh
    /\ conn' = [conn EXCEPT ![s].client = "connecting",
                            ![s].authorised = (token' = "valid")]
    /\ ws' = s /\ status' = "connecting"

(* Mutant: a connection in use is not looked for.                          *)
OpenConnection_Always == NewConnection
OpenConnection ==
    IF InUse THEN UNCHANGED <<conn, ws, status>> ELSE NewConnection

ClosedByTab(c) ==
    [c EXCEPT !.client = CASE @ = "open" -> "closing"
                           [] @ = "connecting" -> "aborting"
                           [] OTHER -> @,
              !.wire = <<>>]

(* Mutant: the timer runs on.                                              *)
ClearTimer_Not == UNCHANGED <<timers, timerSet>>
ClearTimer ==
    /\ timers' = IF timerSet THEN timers - 1 ELSE timers
    /\ timerSet' = FALSE
CloseConnection ==
    /\ ClearTimer
    /\ conn' = IF ws = NoConn THEN conn ELSE [conn EXCEPT ![ws] = ClosedByTab(@)]
    /\ ws' = NoConn /\ status' = "closed"

Connect ==
    /\ refCount' = refCount + 1
    /\ IF refCount' = 1 THEN OpenConnection ELSE UNCHANGED <<conn, ws, status>>
    /\ UNCHANGED <<timers, timerSet>>

Disconnect ==
    IF refCount - 1 <= 0 THEN refCount' = 0 /\ CloseConnection
    ELSE refCount' = refCount - 1 /\ UNCHANGED <<conn, ws, status, timers, timerSet>>

TimerFires ==
    /\ timers > 0
    /\ timers' = timers - 1 /\ timerSet' = (timerSet /\ timers > 1)
    /\ UNCHANGED <<token, refCount>>
    /\ OpenConnection
    /\ UNCHANGED <<tick, faults, app, currentView, price, leaked>>

Opens(s) ==
    /\ conn[s].client = "connecting" /\ conn[s].server = "open" /\ ~conn[s].cut
    /\ conn' = [conn EXCEPT ![s].client = "open"]
    /\ status' = "open"
    /\ UNCHANGED <<tick, faults, session, ws, refCount, timers, timerSet, price, leaked>>

(* dispatch; a closing WebSocket has no message events any more.           *)
Message(s) ==
    /\ conn[s].client = "open" /\ ~conn[s].cut /\ conn[s].wire # <<>>
    /\ price' = Head(conn[s].wire)
    /\ conn' = [conn EXCEPT ![s].wire = Tail(@)]
    /\ UNCHANGED <<tick, faults, session, stream, leaked>>

(* onclose: with code 1000, or with 1006, which no close frame has.        *)
Cleanly(s) == conn[s].client = "closing" /\ conn[s].server = "closed"
Abnormally(s) ==
    \/ conn[s].client = "aborting"
    \/ conn[s].client # "free" /\ (conn[s].cut \/ conn[s].server = "terminated")
    \/ conn[s].client = "connecting" /\ ~conn[s].authorised

LeftByTab(c) == Settled([c EXCEPT !.client = "free", !.wire = <<>>])
OnClose(s) ==
    /\ conn' = [conn EXCEPT ![s] = LeftByTab(@)]
    /\ ws' = IF ws = s THEN NoConn ELSE ws
    /\ status' = "closed"
    /\ UNCHANGED <<tick, faults, session, refCount, price>>
(* Mutant: nothing is tried after an abnormal end.                         *)
Reconnect_Not == UNCHANGED <<timers, timerSet>>
Reconnect == timers' = timers + 1 /\ timerSet' = TRUE

ClosesCleanly(s) ==
    /\ Cleanly(s) /\ OnClose(s)
    /\ UNCHANGED <<timers, timerSet, leaked>>
ClosesAbnormally(s) ==
    /\ Abnormally(s) /\ timers < MaxTimers /\ OnClose(s)
    /\ Reconnect
    /\ leaked' = (leaked \/ s # ws \/ refCount = 0)

-----------------------------------------------------------------------------
(* The views: RulesView is the one that connects, when it is mounted.      *)

Mounted(a, v) == a = "main" /\ v = "rules"
Remount ==
    IF Mounted(app, currentView) <=> Mounted(app', currentView')
    THEN UNCHANGED <<conn, stream>>
    ELSE IF Mounted(app', currentView') THEN Connect ELSE Disconnect

Shows(a, v) == app' = a /\ currentView' = v
SessionStep == Remount /\ UNCHANGED <<tick, faults, price, leaked>>

CheckAuth ==
    /\ app = "starting"
    /\ UNCHANGED token
    /\ Shows(IF token = "none" THEN "login" ELSE "main", currentView)
    /\ SessionStep

Select(v) ==
    /\ app = "main" /\ v # currentView
    /\ UNCHANGED token /\ Shows("main", v) /\ SessionStep

(* What the server answers to the configured credentials, and to others;   *)
(* LoginView stays where it is in the second case.                         *)
Issued == {"valid", "none"}
Login ==
    /\ app = "login"
    /\ token' \in Issued
    /\ Shows(IF token' = "none" THEN "login" ELSE "main", currentView)
    /\ SessionStep

Logout ==
    /\ app = "main"
    /\ token' = "none" /\ Shows("login", currentView) /\ SessionStep

TokenExpires ==
    /\ token = "valid" /\ token' = "expired"
    /\ UNCHANGED <<gatewayVars, app, currentView, stream, price, leaked>>

(* The page is loaded anew, by the user or because a request of a view was *)
(* answered 401, which removes the token.                                  *)
Reload ==
    /\ app # "starting"
    /\ token' = IF app = "main" /\ token = "expired" THEN "none" ELSE token
    /\ Shows("starting", "rules")
    /\ conn' = [s \in Conn |-> LeftByTab(conn[s])]
    /\ ws' = NoConn /\ status' = "closed" /\ refCount' = 0
    /\ timers' = 0 /\ timerSet' = FALSE /\ price' = Never
    /\ leaked' = FALSE /\ UNCHANGED <<tick, faults>>

Server == ServerNext /\ UNCHANGED <<session, stream, price, leaked>>
Tab(s) == Opens(s) \/ Message(s) \/ ClosesCleanly(s) \/ ClosesAbnormally(s)

Next ==
    \/ Server \/ TimerFires \/ \E s \in Conn : Tab(s)
    \/ CheckAuth \/ Login \/ Logout \/ TokenExpires \/ Reload
    \/ \E v \in Page : Select(v)

Spec == Init /\ [][Next]_vars

(* Timers run out, events are handled and the network carries what it has. *)
Elsewhere == UNCHANGED <<session, stream, price, leaked>>
Fairness ==
    /\ WF_vars(CheckAuth) /\ WF_vars(TimerFires)
    /\ WF_vars(Heartbeat /\ Elsewhere)
    /\ \A s \in Conn :
          /\ WF_vars(Tab(s))
          /\ WF_vars(Accept(s) /\ Elsewhere) /\ WF_vars(Pong(s) /\ Elsewhere)
          /\ WF_vars(ClientLeft(s) /\ Elsewhere)
FairSpec == Spec /\ Fairness
=============================================================================
