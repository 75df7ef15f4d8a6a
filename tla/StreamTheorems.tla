--------------------------- MODULE StreamTheorems ---------------------------
(***************************************************************************)
(* A tab uses one connection at most, and none when no view wants one,     *)
(* whatever the gateway, the network, the session and the user do.         *)
(*                                                                         *)
(* The gateway never changes what the tab holds of a connection.  The tab  *)
(* opens one only when the one it refers to by ws is not in use, and       *)
(* forgets it only when it has closed or been closed.  As long as no       *)
(* connection nobody used has ended abnormally, the one timer there may be *)
(* is known to reconnectTimer, and runs only while there is no connection. *)
(*                                                                         *)
(* One connection at most is also why the prices shown never go back: what *)
(* the others still carried was dropped when they were closed.             *)
(***************************************************************************)
EXTENDS StreamProperties, FiniteSetTheorems, TLAPS

Live(c) == c.client \in {"connecting", "open"}
(* Of the types only what the rest needs.                                  *)
Typed ==
    /\ conn \in [Conn -> Connection] /\ tick \in Nat
    /\ ws \in Conn \cup {NoConn} /\ refCount \in Nat
    /\ timers \in Nat /\ (timerSet => timers > 0)
OnlyWs ==
    /\ \A s \in Conn : Live(conn[s]) => s = ws
    /\ status = "open" => ws # NoConn /\ conn[ws].client = "open"
(* Views that are mounted are counted.                                     *)
Counted == refCount = IF Mounted(app, currentView) THEN 1 ELSE 0
OneTimer ==
    ~leaked => /\ timers = IF timerSet THEN 1 ELSE 0
               /\ timerSet => ws = NoConn /\ refCount = 1
               /\ ws # NoConn => refCount = 1
IInv == Typed /\ OnlyWs /\ Counted /\ OneTimer

-----------------------------------------------------------------------------
(* Connections *)

LEMMA FreshTyped == Fresh \in Connection /\ Fresh.client = "free"
  BY DEF Fresh, Connection, ClientState, ServerState

(* What the gateway does with a connection leaves the tab's end alone.     *)
LEMMA ServerEndsKeepsClient ==
    ASSUME NEW c \in Connection, NEW how \in ServerState
    PROVE  ServerEnds(c, how) \in Connection /\ ServerEnds(c, how).client = c.client
<1> DEFINE d == [c EXCEPT !.server = how]
<1>1. d \in Connection /\ d.client = c.client
  BY DEF Connection
<1> HIDE DEF d
<1>2. Settled(d) \in Connection /\ Settled(d).client = d.client
  BY <1>1, FreshTyped DEF Settled
<1>3. QED  BY <1>1, <1>2 DEF ServerEnds, d

(* No step of the gateway or the network changes the tab's ends.           *)
LEMMA ServerKeepsClients ==
    ASSUME Typed, ServerNext
    PROVE  /\ conn' \in [Conn -> Connection] /\ tick' \in Nat
           /\ \A s \in Conn : conn'[s].client = conn[s].client
<1>1. conn \in [Conn -> Connection] /\ tick \in Nat
  BY DEF Typed
<1>2. ASSUME NEW s \in Conn, Accept(s) \/ Pong(s) \/ Cut(s)
      PROVE  /\ conn' \in [Conn -> Connection] /\ tick' = tick
             /\ \A t \in Conn : conn'[t].client = conn[t].client
  <2>1. CASE Accept(s)
    <3> DEFINE d == [conn[s] EXCEPT !.server = "open", !.alive = TRUE]
    <3>1. d \in Connection /\ d.client = conn[s].client
      BY <1>1 DEF Connection, ServerState
    <3>2. conn' = [conn EXCEPT ![s] = d] /\ tick' = tick
      BY <1>1, <2>1 DEF Accept, Connection
    <3> HIDE DEF d
    <3>3. QED  BY <1>1, <3>1, <3>2
  <2>2. CASE Pong(s)
    <3> DEFINE d == [conn[s] EXCEPT !.alive = TRUE]
    <3>1. d \in Connection /\ d.client = conn[s].client
      BY <1>1 DEF Connection
    <3>2. conn' = [conn EXCEPT ![s] = d] /\ tick' = tick
      BY <1>1, <2>2 DEF Pong, Connection
    <3> HIDE DEF d
    <3>3. QED  BY <1>1, <3>1, <3>2
  <2>3. CASE Cut(s)
    <3> DEFINE e == <<>>
    <3>0. e \in Seq(Nat)
      OBVIOUS
    <3> HIDE DEF e
    <3> DEFINE d == [conn[s] EXCEPT !.cut = TRUE, !.wire = e]
    <3>1. d \in Connection /\ d.client = conn[s].client
      BY <1>1, <3>0 DEF Connection
    <3>2. conn' = [conn EXCEPT ![s] = d] /\ tick' = tick
      BY <1>1, <2>3 DEF Cut, Connection, e
    <3> HIDE DEF d
    <3>3. QED  BY <1>1, <3>1, <3>2
  <2>4. QED  BY <1>2, <2>1, <2>2, <2>3
<1>3. ASSUME NEW s \in Conn, ClientLeft(s)
      PROVE  /\ conn' \in [Conn -> Connection] /\ tick' = tick
             /\ \A t \in Conn : conn'[t].client = conn[t].client
  BY <1>1, <1>3, ServerEndsKeepsClient DEF ClientLeft, ServerState
<1>4. CASE Broadcast
  <2>1. tick' \in Nat /\ \A s \in Conn : Append(conn[s].wire, tick) \in Seq(Nat)
    BY <1>1, <1>4 DEF Broadcast, Connection
  <2>2. \A s \in Conn : conn'[s] = IF Reached(s)
            THEN [conn[s] EXCEPT !.wire = Append(conn[s].wire, tick)] ELSE conn[s]
    BY <1>4 DEF Broadcast
  <2>3. conn' = [s \in Conn |-> conn'[s]]
    BY <1>4 DEF Broadcast
  <2>4. \A s \in Conn : conn'[s] \in Connection /\ conn'[s].client = conn[s].client
    BY <1>1, <2>1, <2>2 DEF Connection
  <2>5. QED  BY <2>1, <2>3, <2>4
<1>5. CASE Heartbeat
  <2>1. \A s \in Conn : Beat(conn[s]) \in Connection
                       /\ Beat(conn[s]).client = conn[s].client
    <3> SUFFICES ASSUME NEW s \in Conn
                 PROVE  Beat(conn[s]) \in Connection
                        /\ Beat(conn[s]).client = conn[s].client
      OBVIOUS
    <3>1. CASE conn[s].alive
      BY <1>1, <3>1 DEF Beat, Connection
    <3>2. CASE ~conn[s].alive
      BY <1>1, <3>2, ServerEndsKeepsClient DEF Beat, ServerState
    <3>3. QED  BY <3>1, <3>2
  <2>2. /\ tick' = tick
        /\ conn' = [s \in Conn |-> IF s \in Clients THEN Beat(conn[s]) ELSE conn[s]]
    BY <1>5 DEF Heartbeat
  <2>3. QED  BY <1>1, <2>1, <2>2
<1>6. CASE ServerRestarts
  <2>1. \A s \in Conn : ServerEnds(conn[s], "terminated") \in Connection
              /\ ServerEnds(conn[s], "terminated").client = conn[s].client
    BY <1>1, ServerEndsKeepsClient DEF ServerState
  <2>2. QED  BY <1>1, <1>6, <2>1 DEF ServerRestarts
<1>7. QED  BY <1>1, <1>2, <1>3, <1>4, <1>5, <1>6 DEF ServerNext

-----------------------------------------------------------------------------
(* useWsStream *)

LEMMA IInvInit == Init => IInv
<1> SUFFICES ASSUME Init PROVE IInv
  OBVIOUS
<1>1. /\ conn = [s \in Conn |-> Fresh] /\ tick = 0
      /\ app = "starting" /\ ws = NoConn /\ status = "closed"
      /\ refCount = 0 /\ timers = 0 /\ timerSet = FALSE
  BY DEF Init, InitGateway, InitTab
<1>2. Typed /\ OnlyWs
  BY <1>1, FreshTyped DEF Typed, OnlyWs, Live
<1>3. Counted /\ OneTimer
  BY <1>1 DEF Counted, OneTimer, Mounted
<1>4. QED  BY <1>2, <1>3 DEF IInv

(* A connection is opened only when none is in use.                        *)
LEMMA Opening ==
    ASSUME Typed, OnlyWs, OpenConnection
    PROVE  /\ conn' \in [Conn -> Connection] /\ ws' \in Conn /\ OnlyWs'
<1>0. conn \in [Conn -> Connection] /\ NoConn \notin Conn
  BY TabAssumption DEF Typed
<1>1. CASE InUse
  BY <1>1 DEF Typed, OnlyWs, OpenConnection, InUse
<1>2. CASE ~InUse
  <2>1. PICK s \in Conn :
            /\ conn' = [conn EXCEPT ![s].client = "connecting",
                                    ![s].authorised = (token' = "valid")]
            /\ ws' = s /\ status' = "connecting"
    BY <1>2 DEF OpenConnection, NewConnection
  <2> DEFINE d == [conn[s] EXCEPT !.client = "connecting",
                                  !.authorised = (token' = "valid")]
  <2>2. d \in Connection /\ d.client = "connecting"
    BY <1>0 DEF Connection, ClientState
  <2>3. conn' = [conn EXCEPT ![s] = d]
    BY <1>0, <2>1 DEF Connection
  <2>4. \A t \in Conn : ~Live(conn[t])
    BY <1>0, <1>2 DEF OnlyWs, InUse, Live
  <2> HIDE DEF d
  <2>5. QED  BY <1>0, <2>1, <2>2, <2>3, <2>4 DEF OnlyWs, Live
<1>3. QED  BY <1>1, <1>2

(* The tab's end of a connection changes, and no other does.               *)
LEMMA EndChanges ==
    ASSUME Typed, NEW s \in Conn, NEW d \in Connection,
           conn' = [conn EXCEPT ![s] = d]
    PROVE  /\ conn' \in [Conn -> Connection] /\ conn'[s] = d
           /\ \A t \in Conn : t # s => conn'[t] = conn[t]
  BY DEF Typed

LEMMA LeftByTabTyped ==
    ASSUME NEW c \in Connection
    PROVE  LeftByTab(c) \in Connection /\ ~Live(LeftByTab(c))
<1> DEFINE e == <<>>
<1>0. e \in Seq(Nat)
  OBVIOUS
<1> HIDE DEF e
<1> DEFINE d == [c EXCEPT !.client = "free", !.wire = e]
<1>1. d \in Connection /\ d.client = "free"
  BY <1>0 DEF Connection, ClientState
<1>2. LeftByTab(c) = Settled(d)
  BY DEF LeftByTab, e
<1> HIDE DEF d
<1>3. QED  BY <1>1, <1>2, FreshTyped DEF Settled, Live

LEMMA ClosedByTabTyped ==
    ASSUME NEW c \in Connection
    PROVE  ClosedByTab(c) \in Connection /\ ~Live(ClosedByTab(c))
<1> DEFINE e == <<>>
           k == CASE c.client = "open" -> "closing"
                  [] c.client = "connecting" -> "aborting"
                  [] OTHER -> c.client
<1>0. e \in Seq(Nat) /\ k \in ClientState /\ k \notin {"open", "connecting"}
  BY DEF Connection, ClientState
<1>1. ClosedByTab(c) = [c EXCEPT !.client = k, !.wire = e]
  BY DEF ClosedByTab, Connection
<1> HIDE DEF e, k
<1>2. QED  BY <1>0, <1>1 DEF Connection, Live

(* After closing, no connection is in use.                                 *)
LEMMA Closing ==
    ASSUME Typed, OnlyWs, CloseConnection
    PROVE  /\ conn' \in [Conn -> Connection] /\ ws' = NoConn /\ OnlyWs'
           /\ timers' = (IF timerSet THEN timers - 1 ELSE timers) /\ timerSet' = FALSE
<1>1. /\ ws' = NoConn /\ status' = "closed"
      /\ conn' = IF ws = NoConn THEN conn
                                ELSE [conn EXCEPT ![ws] = ClosedByTab(conn[ws])]
      /\ timers' = (IF timerSet THEN timers - 1 ELSE timers) /\ timerSet' = FALSE
  BY DEF CloseConnection, ClearTimer
<1>2. CASE ws = NoConn
  BY <1>1, <1>2, TabAssumption DEF Typed, OnlyWs, Live
<1>3. CASE ws # NoConn
  <2>1. ws \in Conn /\ conn[ws] \in Connection
    BY <1>3 DEF Typed
  <2>2. /\ conn' \in [Conn -> Connection] /\ ~Live(conn'[ws])
        /\ \A t \in Conn : t # ws => conn'[t] = conn[t]
    BY <1>1, <1>3, <2>1, ClosedByTabTyped, EndChanges
  <2>3. QED  BY <1>1, <2>1, <2>2 DEF OnlyWs
<1>4. QED  BY <1>2, <1>3

(* A connection closes: it is forgotten, and a timer may be started.  What *)
(* ends abnormally although nobody used it is remembered as leaked.        *)
LEMMA OnCloseKeeps ==
    ASSUME IInv, NEW s \in Conn, OnClose(s)
    PROVE  /\ conn' \in [Conn -> Connection] /\ OnlyWs' /\ Counted'
           /\ tick' \in Nat /\ ws' \in Conn \cup {NoConn} /\ refCount' = refCount
           /\ ws' = IF ws = s THEN NoConn ELSE ws
<1>1. /\ conn' = [conn EXCEPT ![s] = LeftByTab(conn[s])]
      /\ ws' = (IF ws = s THEN NoConn ELSE ws) /\ status' = "closed"
      /\ UNCHANGED <<tick, app, currentView, refCount>>
  BY DEF OnClose, session
<1>2. Typed /\ OnlyWs /\ Counted
  BY DEF IInv
<1>3. conn[s] \in Connection
  BY <1>2 DEF Typed
<1>4. /\ conn' \in [Conn -> Connection] /\ ~Live(conn'[s])
      /\ \A t \in Conn : t # s => conn'[t] = conn[t]
  BY <1>1, <1>2, <1>3, LeftByTabTyped, EndChanges
<1>5. OnlyWs'
  BY <1>1, <1>2, <1>4 DEF OnlyWs
<1>6. Counted'
  BY <1>1, <1>2 DEF Counted, Mounted
<1>7. QED  BY <1>1, <1>2, <1>4, <1>5, <1>6 DEF Typed

LEMMA IInvClosesCleanly ==
    ASSUME IInv, NEW s \in Conn, ClosesCleanly(s) PROVE IInv'
<1>1. OnClose(s) /\ UNCHANGED <<timers, timerSet, leaked>>
  BY DEF ClosesCleanly
<1>2. Typed'
  BY <1>1, OnCloseKeeps DEF IInv, Typed
<1>3. OneTimer'
  BY <1>1, OnCloseKeeps, TabAssumption DEF IInv, OneTimer
<1>4. QED  BY <1>1, <1>2, <1>3, OnCloseKeeps DEF IInv

LEMMA IInvClosesAbnormally ==
    ASSUME IInv, NEW s \in Conn, ClosesAbnormally(s) PROVE IInv'
<1>1. /\ OnClose(s) /\ timers' = timers + 1 /\ timerSet' = TRUE
      /\ leaked' = (leaked \/ s # ws \/ refCount = 0)
  BY DEF ClosesAbnormally, Reconnect
<1>2. Typed'
  BY <1>1, OnCloseKeeps DEF IInv, Typed
<1>3. ASSUME ~leaked'
      PROVE  timers' = 1 /\ ws' = NoConn /\ refCount' = 1
  <2>1. ~leaked /\ s = ws /\ refCount # 0 /\ ws # NoConn
    BY <1>1, <1>3, TabAssumption
  <2>2. ~timerSet /\ timers = 0 /\ refCount = 1
    BY <2>1 DEF IInv, OneTimer
  <2>3. QED  BY <1>1, <2>1, <2>2, OnCloseKeeps
<1>4. OneTimer'
  BY <1>1, <1>3 DEF OneTimer
<1>5. QED  BY <1>1, <1>2, <1>4, OnCloseKeeps DEF IInv

(* A connection opens: the one in use.                                     *)
LEMMA IInvOpens == ASSUME IInv, NEW s \in Conn, Opens(s) PROVE IInv'
<1> DEFINE d == [conn[s] EXCEPT !.client = "open"]
<1>1. /\ conn[s].client = "connecting" /\ status' = "open"
      /\ UNCHANGED <<tick, app, currentView, ws, refCount, timers, timerSet, leaked>>
  BY DEF Opens, session
<1>2. Typed /\ OnlyWs /\ Counted /\ OneTimer /\ conn[s] \in Connection
  BY DEF IInv, Typed
<1>3. d \in Connection /\ d.client = "open"
  BY <1>2 DEF Connection, ClientState
<1>4. conn' = [conn EXCEPT ![s] = d]
  BY DEF Opens
<1> HIDE DEF d
<1>5. /\ conn' \in [Conn -> Connection] /\ conn'[s] = d
      /\ \A t \in Conn : t # s => conn'[t] = conn[t]
  BY <1>2, <1>3, <1>4, EndChanges
<1>6. s = ws /\ ws # NoConn
  BY <1>1, <1>2, TabAssumption DEF OnlyWs, Live
<1>7. OnlyWs' /\ Typed'
  BY <1>1, <1>2, <1>3, <1>5, <1>6 DEF OnlyWs, Typed
<1>8. Counted' /\ OneTimer'
  BY <1>1, <1>2 DEF Counted, OneTimer, Mounted
<1>9. QED  BY <1>7, <1>8 DEF IInv

(* A message is read.                                                      *)
LEMMA IInvMessage == ASSUME IInv, NEW s \in Conn, Message(s) PROVE IInv'
<1> DEFINE d == [conn[s] EXCEPT !.wire = Tail(conn[s].wire)]
<1>1. /\ conn[s].wire # <<>>
      /\ UNCHANGED <<tick, app, currentView, ws, status, refCount, timers, timerSet, leaked>>
  BY DEF Message, session, stream
<1>2. Typed /\ OnlyWs /\ Counted /\ OneTimer /\ conn[s] \in Connection
  BY DEF IInv, Typed
<1>3. Tail(conn[s].wire) \in Seq(Nat)
  BY <1>1, <1>2 DEF Connection
<1>4. d \in Connection /\ d.client = conn[s].client
  BY <1>2, <1>3 DEF Connection
<1>5. conn' = [conn EXCEPT ![s] = d]
  BY DEF Message
<1> HIDE DEF d
<1>6. /\ conn' \in [Conn -> Connection]
      /\ \A t \in Conn : conn'[t].client = conn[t].client
  BY <1>2, <1>4, <1>5, EndChanges
<1>7. OnlyWs' /\ Typed'
  BY <1>1, <1>2, <1>6 DEF OnlyWs, Typed, Live
<1>8. Counted' /\ OneTimer'
  BY <1>1, <1>2 DEF Counted, OneTimer, Mounted
<1>9. QED  BY <1>7, <1>8 DEF IInv

(* The timer runs out: reconnectTimer referred to it, if nothing leaked.   *)
LEMMA IInvTimerFires == ASSUME IInv, TimerFires PROVE IInv'
<1>1. /\ timers > 0 /\ timers' = timers - 1 /\ timerSet' = (timerSet /\ timers > 1)
      /\ OpenConnection
      /\ UNCHANGED <<refCount, tick, app, currentView, leaked>>
  BY DEF TimerFires
<1>2. Typed /\ OnlyWs /\ Counted /\ OneTimer
  BY DEF IInv
<1>3. conn' \in [Conn -> Connection] /\ ws' \in Conn /\ OnlyWs'
  BY <1>1, <1>2, Opening
<1>a. timerSet' => timerSet /\ timers > 1
  BY <1>1, Zenon
<1>4. Typed'
  BY <1>1, <1>2, <1>3, <1>a DEF Typed
<1>5. ASSUME ~leaked' PROVE timers' = 0 /\ ~timerSet' /\ refCount' = 1
  <2>1. timers = 1 /\ timerSet /\ refCount = 1
    BY <1>1, <1>2, <1>5 DEF OneTimer, Typed
  <2>2. ~(timers > 1)
    BY <2>1
  <2>3. QED  BY <1>1, <1>a, <2>1, <2>2
<1>6. Counted' /\ OneTimer'
  BY <1>1, <1>2, <1>5 DEF Counted, OneTimer, Mounted
<1>7. QED  BY <1>3, <1>4, <1>6 DEF IInv

-----------------------------------------------------------------------------
(* Views and sessions *)

(* A view that wants prices is mounted, and another, or none, before.      *)
LEMMA Connecting ==
    ASSUME IInv, Connect, UNCHANGED <<tick, leaked>>,
           ~Mounted(app, currentView), Mounted(app', currentView')
    PROVE  IInv'
<1>1. /\ Typed /\ OnlyWs /\ OneTimer /\ refCount = 0
      /\ refCount' = refCount + 1 /\ UNCHANGED <<timers, timerSet>>
  BY DEF IInv, Counted, Connect
<1>2. refCount' = 1 /\ OpenConnection
  BY <1>1 DEF Connect
<1>3. conn' \in [Conn -> Connection] /\ ws' \in Conn /\ OnlyWs'
  BY <1>1, <1>2, Opening
<1>4. Typed' /\ Counted'
  BY <1>1, <1>2, <1>3 DEF Typed, Counted
<1>5. OneTimer'
  BY <1>1, <1>2 DEF OneTimer
<1>6. QED  BY <1>3, <1>4, <1>5 DEF IInv

(* The last view that wants prices is left.                                *)
LEMMA Disconnecting ==
    ASSUME IInv, Disconnect, UNCHANGED <<tick, leaked>>,
           Mounted(app, currentView), ~Mounted(app', currentView')
    PROVE  IInv'
<1>1. Typed /\ OnlyWs /\ OneTimer /\ refCount = 1
  BY DEF IInv, Counted
<1>2. refCount' = 0 /\ CloseConnection
  BY <1>1 DEF Disconnect
<1>3. /\ conn' \in [Conn -> Connection] /\ ws' = NoConn /\ OnlyWs'
      /\ timers' = (IF timerSet THEN timers - 1 ELSE timers) /\ ~timerSet'
  BY <1>1, <1>2, Closing
<1>4. timers' \in Nat
  BY <1>1, <1>3 DEF Typed
<1>5. Typed' /\ Counted'
  BY <1>1, <1>2, <1>3, <1>4 DEF Typed, Counted
<1>6. OneTimer'
  BY <1>1, <1>2, <1>3 DEF OneTimer
<1>7. QED  BY <1>3, <1>5, <1>6 DEF IInv

LEMMA IInvSessionStep == ASSUME IInv, SessionStep PROVE IInv'
<1>1. Remount /\ UNCHANGED <<tick, leaked>>
  BY DEF SessionStep
<1>2. CASE Mounted(app, currentView) <=> Mounted(app', currentView')
  <2>1. UNCHANGED <<conn, ws, status, refCount, timers, timerSet>>
    BY <1>1, <1>2 DEF Remount, stream
  <2>2. Typed' /\ OnlyWs' /\ OneTimer'
    BY <1>1, <2>1 DEF IInv, Typed, OnlyWs, OneTimer
  <2>3. Counted'
    BY <1>2, <2>1 DEF IInv, Counted
  <2>4. QED  BY <2>2, <2>3 DEF IInv
<1>3. CASE ~Mounted(app, currentView) /\ Mounted(app', currentView')
  BY <1>1, <1>3, Connecting DEF Remount
<1>4. CASE Mounted(app, currentView) /\ ~Mounted(app', currentView')
  BY <1>1, <1>4, Disconnecting DEF Remount
<1>5. QED  BY <1>2, <1>3, <1>4

(* The page is loaded anew.                                                *)
LEMMA IInvReload == ASSUME IInv, Reload PROVE IInv'
<1>1. /\ app' = "starting" /\ conn' = [s \in Conn |-> LeftByTab(conn[s])]
      /\ ws' = NoConn /\ status' = "closed" /\ refCount' = 0
      /\ timers' = 0 /\ timerSet' = FALSE /\ tick' = tick
  BY DEF Reload, Shows
<1>2. conn \in [Conn -> Connection] /\ tick \in Nat
  BY DEF IInv, Typed
<1>3. \A s \in Conn : LeftByTab(conn[s]) \in Connection /\ ~Live(LeftByTab(conn[s]))
  BY <1>2, LeftByTabTyped
<1>4. Typed' /\ OnlyWs'
  BY <1>1, <1>2, <1>3 DEF Typed, OnlyWs
<1>5. Counted' /\ OneTimer'
  BY <1>1 DEF Counted, OneTimer, Mounted
<1>6. QED  BY <1>4, <1>5 DEF IInv

LEMMA IInvServer == ASSUME IInv, Server PROVE IInv'
<1>1. /\ ServerNext
      /\ UNCHANGED <<app, currentView, ws, status, refCount, timers, timerSet, leaked>>
  BY DEF Server, session, stream
<1>2. /\ conn' \in [Conn -> Connection] /\ tick' \in Nat
      /\ \A s \in Conn : conn'[s].client = conn[s].client
  BY <1>1, ServerKeepsClients DEF IInv
<1>3. Typed' /\ OnlyWs'
  BY <1>1, <1>2 DEF IInv, Typed, OnlyWs, Live
<1>4. Counted' /\ OneTimer'
  BY <1>1 DEF IInv, Counted, OneTimer, Mounted
<1>5. QED  BY <1>3, <1>4 DEF IInv

-----------------------------------------------------------------------------
(* What follows *)

LEMMA IInvNext == IInv /\ [Next]_vars => IInv'
<1> SUFFICES ASSUME IInv, [Next]_vars PROVE IInv'
  OBVIOUS
<1>1. CASE Server  BY <1>1, IInvServer
<1>2. CASE TimerFires  BY <1>2, IInvTimerFires
<1>3. ASSUME NEW s \in Conn, Tab(s) PROVE IInv'
  BY <1>3, IInvOpens, IInvMessage, IInvClosesCleanly, IInvClosesAbnormally DEF Tab
<1>4. CASE CheckAuth \/ Login \/ Logout \/ \E v \in Page : Select(v)
  BY <1>4, IInvSessionStep DEF CheckAuth, Login, Logout, Select
<1>5. CASE Reload  BY <1>5, IInvReload
<1>6. CASE TokenExpires \/ UNCHANGED vars
  BY <1>6 DEF TokenExpires, vars, gatewayVars, session, stream,
              IInv, Typed, OnlyWs, Counted, OneTimer, Mounted
<1>7. QED  BY <1>1, <1>2, <1>3, <1>4, <1>5, <1>6 DEF Next

LEMMA IInvHolds == Spec => []IInv
  BY IInvInit, IInvNext, PTL DEF Spec

(* useWsStream.ts:34, "one shared connection": a tab never uses two        *)
(* connections, and calls the one it uses open only while it is.           *)
THEOREM OneConnectionAtMost == Spec => []OneConnection
<1>1. IInv => OneConnection
  <2> SUFFICES ASSUME IInv PROVE OneConnection
    OBVIOUS
  <2> DEFINE L == {s \in Conn : conn[s].client \in {"connecting", "open"}}
  <2>1. L \subseteq {ws}
    BY DEF IInv, OnlyWs, Live
  <2>2. Cardinality(L) <= 1
    <3>1. CASE L = {}  BY <3>1, FS_EmptySet
    <3>2. CASE L = {ws}
      <4>1. Cardinality({ws}) = 1  BY FS_Singleton
      <4>2. Cardinality(L) = 1  BY <3>2, <4>1, Zenon
      <4>3. QED  BY <4>2
    <3>3. QED  BY <2>1, <3>1, <3>2
  <2>3. QED  BY <2>2 DEF IInv, OnlyWs, Live, OneConnection
<1>2. QED  BY <1>1, IInvHolds, PTL

(* useWsStream.ts:113: without a view that wants prices nothing is open    *)
(* and no timer will open it, unless a connection nobody used any more     *)
(* ended with another code than 1000.                                      *)
THEOREM UnusedConnectionsClose == Spec => []UnusedIsClosed
<1>1. IInv => UnusedIsClosed
  <2> SUFFICES ASSUME IInv, refCount = 0, ~leaked
               PROVE  /\ timers = 0
                      /\ \A s \in Conn : conn[s].client \notin {"connecting", "open"}
    BY DEF UnusedIsClosed
  <2>1. timers = 0 /\ ws = NoConn
    BY DEF IInv, OneTimer
  <2>2. QED  BY <2>1, TabAssumption DEF IInv, OnlyWs, Live
<1>2. QED  BY <1>1, IInvHolds, PTL

-----------------------------------------------------------------------------
(* Prices in order.  What a wire carries is newer than the price shown and *)
(* older than the next broadcast, in the order sent; only a connection in  *)
(* use carries anything, and there is one at most: no second wire can hold *)
(* older prices when one is read.                                          *)
Increasing(w) == \A i, j \in DOMAIN w : i < j => w[i] < w[j]
OnWire(c) ==
    /\ c.wire # <<>> => Live(c)
    /\ \A i \in DOMAIN c.wire : price < c.wire[i] /\ c.wire[i] < tick
    /\ Increasing(c.wire)
InOrder == price \in Int /\ price < tick /\ \A s \in Conn : OnWire(conn[s])

(* A connection that was lost its messages is in order.                    *)
LEMMA EmptyWire ==
    ASSUME NEW c, c.wire = <<>> PROVE OnWire(c)
  BY DEF OnWire, Increasing

(* A step that shows no price and sends none, but may lose messages.       *)
LEMMA WiresShrink ==
    ASSUME InOrder, price' = price, tick' = tick,
           \A s \in Conn : /\ conn'[s].wire \in {conn[s].wire, <<>>}
                           /\ conn'[s].wire # <<>> => Live(conn'[s])
    PROVE  InOrder'
<1>1. ASSUME NEW s \in Conn PROVE OnWire(conn[s])'
  <2>1. CASE conn'[s].wire = <<>>
    BY <2>1 DEF OnWire, Increasing
  <2>2. CASE conn'[s].wire = conn[s].wire /\ Live(conn'[s])
    <3>1. OnWire(conn[s])
      BY DEF InOrder
    <3>2. QED  BY <2>2, <3>1 DEF OnWire, Increasing
  <2>3. QED  BY <2>1, <2>2
<1>2. QED  BY <1>1 DEF InOrder

LEMMA InOrderInit == Init => InOrder
<1> SUFFICES ASSUME Init PROVE InOrder
  OBVIOUS
<1>1. conn = [s \in Conn |-> Fresh] /\ tick = 0 /\ price = -1
  BY DEF Init, InitGateway, InitTab, Never
<1>2. \A s \in Conn : conn[s].wire = <<>>
  BY <1>1 DEF Fresh
<1>3. QED  BY <1>1, <1>2, EmptyWire DEF InOrder

(* What the gateway ends it leaves or forgets.                             *)
LEMMA ServerEndsWire ==
    ASSUME NEW c \in Connection, NEW how \in ServerState
    PROVE  ServerEnds(c, how).wire \in {c.wire, <<>>}
<1> DEFINE d == [c EXCEPT !.server = how]
<1>1. d.wire = c.wire
  BY DEF Connection
<1> HIDE DEF d
<1>2. Settled(d).wire \in {d.wire, <<>>}
  BY DEF Settled, Fresh
<1>3. QED  BY <1>1, <1>2 DEF ServerEnds, d

(* The gateway and the network put prices on a wire by Broadcast only.     *)
LEMMA ServerKeepsWires ==
    ASSUME Typed, ServerNext, ~Broadcast
    PROVE  /\ tick' = tick
           /\ \A s \in Conn : conn'[s].wire \in {conn[s].wire, <<>>}
<1>1. conn \in [Conn -> Connection]
  BY DEF Typed
<1>2. ASSUME NEW s \in Conn, Accept(s) \/ Pong(s) \/ Cut(s)
      PROVE  /\ tick' = tick
             /\ \A t \in Conn : conn'[t].wire \in {conn[t].wire, <<>>}
  <2>1. CASE Accept(s)
    BY <1>1, <2>1 DEF Accept, Connection
  <2>2. CASE Pong(s)
    BY <1>1, <2>2 DEF Pong, Connection
  <2>3. CASE Cut(s)
    BY <1>1, <2>3 DEF Cut, Connection
  <2>4. QED  BY <1>2, <2>1, <2>2, <2>3
<1>3. ASSUME NEW s \in Conn, ClientLeft(s)
      PROVE  /\ tick' = tick
             /\ \A t \in Conn : conn'[t].wire \in {conn[t].wire, <<>>}
  BY <1>1, <1>3, ServerEndsWire DEF ClientLeft, ServerState
<1>4. CASE Heartbeat
  <2>1. \A s \in Conn : Beat(conn[s]).wire \in {conn[s].wire, <<>>}
    <3> SUFFICES ASSUME NEW s \in Conn
                 PROVE  Beat(conn[s]).wire \in {conn[s].wire, <<>>}
      OBVIOUS
    <3>1. CASE conn[s].alive
      BY <1>1, <3>1 DEF Beat, Connection
    <3>2. CASE ~conn[s].alive
      BY <1>1, <3>2, ServerEndsWire DEF Beat, ServerState
    <3>3. QED  BY <3>1, <3>2
  <2>2. /\ tick' = tick
        /\ conn' = [s \in Conn |-> IF s \in Clients THEN Beat(conn[s]) ELSE conn[s]]
    BY <1>4 DEF Heartbeat
  <2>3. QED  BY <2>1, <2>2
<1>5. CASE ServerRestarts
  <2>1. \A s \in Conn : ServerEnds(conn[s], "terminated").wire
                            \in {conn[s].wire, <<>>}
    BY <1>1, ServerEndsWire DEF ServerState
  <2>2. QED  BY <1>5, <2>1 DEF ServerRestarts
<1>6. QED  BY <1>2, <1>3, <1>4, <1>5 DEF ServerNext

LEMMA Appended ==
    ASSUME NEW w \in Seq(Nat), NEW p \in Nat
    PROVE  /\ DOMAIN w = 1..Len(w) /\ Len(w) \in Nat
           /\ DOMAIN Append(w, p) = 1..(Len(w) + 1)
           /\ \A i \in 1..Len(w) : Append(w, p)[i] = w[i] /\ w[i] \in Nat
           /\ Append(w, p)[Len(w) + 1] = p
<1>1. DOMAIN w = 1..Len(w) /\ Len(w) \in Nat
  OBVIOUS
<1>2. Append(w, p) \in Seq(Nat) /\ Len(Append(w, p)) = Len(w) + 1
  OBVIOUS
<1>3. DOMAIN Append(w, p) = 1..(Len(w) + 1)
  BY <1>2
<1>4. \A i \in 1..Len(w) : Append(w, p)[i] = w[i] /\ w[i] \in Nat
  OBVIOUS
<1>5. Append(w, p)[Len(w) + 1] = p
  OBVIOUS
<1>6. QED  BY <1>1, <1>3, <1>4, <1>5

(* Each broadcast carries the next price.                                  *)
LEMMA InOrderBroadcast ==
    ASSUME Typed, InOrder, Broadcast, price' = price PROVE InOrder'
<1>1. /\ tick \in Nat /\ tick' = tick + 1 /\ conn \in [Conn -> Connection]
      /\ price \in Int /\ price < tick
  BY DEF Typed, InOrder, Broadcast
<1>2. ASSUME NEW s \in Conn PROVE OnWire(conn[s])'
  <2>1. OnWire(conn[s]) /\ conn[s] \in Connection /\ conn[s].wire \in Seq(Nat)
    BY <1>1 DEF InOrder, Connection
  <2>2. CASE ~Reached(s)
    <3>1. conn'[s] = conn[s]
      BY <2>2 DEF Broadcast
    <3>2. \A i \in DOMAIN conn[s].wire : conn[s].wire[i] < tick'
      BY <1>1, <2>1 DEF OnWire
    <3>3. QED  BY <2>1, <3>1, <3>2 DEF OnWire, Live
  <2>3. CASE Reached(s)
    <3> DEFINE w == conn[s].wire
               x == Append(w, tick)
    <3>1. conn'[s] = [conn[s] EXCEPT !.wire = x]
      BY <2>3 DEF Broadcast
    <3>2. conn'[s].wire = x /\ conn'[s].client = conn[s].client
      BY <2>1, <3>1 DEF Connection
    <3>3. /\ DOMAIN w = 1..Len(w) /\ Len(w) \in Nat
          /\ DOMAIN x = 1..(Len(w) + 1)
          /\ \A i \in 1..Len(w) : x[i] = w[i] /\ w[i] \in Nat
          /\ x[Len(w) + 1] = tick
      BY <1>1, <2>1, Appended
    <3>4. Live(conn[s])
      BY <2>3 DEF Reached, Live
    <3>5. /\ \A i \in 1..Len(w) : price < w[i] /\ w[i] < tick
          /\ \A i, j \in 1..Len(w) : i < j => w[i] < w[j]
      BY <2>1, <3>3 DEF OnWire, Increasing
    <3> HIDE DEF w, x
    <3>6. \A i \in DOMAIN x : price < x[i] /\ x[i] < tick'
      <4> SUFFICES ASSUME NEW i \in DOMAIN x PROVE price < x[i] /\ x[i] < tick'
        OBVIOUS
      <4>1. i \in 1..Len(w) \/ i = Len(w) + 1
        BY <3>3
      <4>2. QED  BY <1>1, <3>3, <3>5, <4>1
    <3>7. Increasing(x)
      <4> SUFFICES ASSUME NEW i \in DOMAIN x, NEW j \in DOMAIN x, i < j
                   PROVE  x[i] < x[j]
        BY DEF Increasing
      <4>1. i \in 1..Len(w) /\ (j \in 1..Len(w) \/ j = Len(w) + 1)
        BY <3>3
      <4>2. QED  BY <3>3, <3>5, <4>1
    <3>8. QED  BY <1>1, <3>2, <3>4, <3>6, <3>7 DEF OnWire, Live
  <2>4. QED  BY <2>2, <2>3
<1>3. QED  BY <1>1, <1>2 DEF InOrder

(* The price that is read is newer than the one shown and older than what  *)
(* follows it.                                                             *)
LEMMA InOrderMessage ==
    ASSUME Typed, OnlyWs, InOrder, NEW s \in Conn, Message(s)
    PROVE  InOrder' /\ price' > price
<1> DEFINE w == conn[s].wire
<1>1. /\ conn[s].client = "open" /\ w # <<>> /\ price' = Head(w)
      /\ conn' = [conn EXCEPT ![s].wire = Tail(w)] /\ tick' = tick
  BY DEF Message
<1>2. /\ conn \in [Conn -> Connection] /\ tick \in Nat /\ price \in Int
      /\ w \in Seq(Nat) /\ OnWire(conn[s])
  BY DEF Typed, InOrder, Connection
<1>3. /\ Len(w) \in Nat \ {0} /\ DOMAIN w = 1..Len(w)
      /\ Head(w) = w[1] /\ w[1] \in Nat
      /\ DOMAIN Tail(w) = 1..(Len(w) - 1)
      /\ \A i \in 1..(Len(w) - 1) : Tail(w)[i] = w[i + 1]
  BY <1>1, <1>2
<1>4. /\ \A i \in 1..Len(w) : price < w[i] /\ w[i] < tick
      /\ \A i, j \in 1..Len(w) : i < j => w[i] < w[j]
  BY <1>2, <1>3 DEF OnWire, Increasing
<1>5. price' \in Nat /\ price' > price /\ price' < tick'
  BY <1>1, <1>2, <1>3, <1>4
<1>6. ASSUME NEW t \in Conn, t # s PROVE OnWire(conn[t])'
  <2>1. conn'[t] = conn[t] /\ OnWire(conn[t])
    BY <1>1, <1>2, <1>6 DEF InOrder
  <2>2. ~Live(conn[t])
    BY <1>1, <1>6 DEF OnlyWs, Live
  <2>3. conn'[t].wire = <<>>
    BY <2>1, <2>2 DEF OnWire
  <2>4. QED  BY <2>3 DEF OnWire, Increasing
<1>7. OnWire(conn[s])'
  <2> DEFINE x == Tail(w)
  <2>1. conn'[s].wire = x /\ conn'[s].client = "open"
    BY <1>1, <1>2 DEF Connection
  <2>2. \A i \in DOMAIN x : i \in 1..Len(w) /\ i + 1 \in 1..Len(w) /\ x[i] = w[i + 1]
    BY <1>3
  <2> HIDE DEF x, w
  <2>3. \A i \in DOMAIN x : price' < x[i] /\ x[i] < tick'
    <3> SUFFICES ASSUME NEW i \in DOMAIN x PROVE price' < x[i] /\ x[i] < tick'
      OBVIOUS
    <3>1. 1 \in 1..Len(w) /\ i + 1 \in 1..Len(w) /\ 1 < i + 1
      BY <1>3, <2>2
    <3>2. w[1] < w[i + 1] /\ w[i + 1] < tick
      BY <1>4, <3>1
    <3>3. QED  BY <1>1, <1>3, <2>2, <3>2
  <2>4. Increasing(x)
    <3> SUFFICES ASSUME NEW i \in DOMAIN x, NEW j \in DOMAIN x, i < j
                 PROVE  x[i] < x[j]
      BY DEF Increasing
    <3>1. i + 1 \in 1..Len(w) /\ j + 1 \in 1..Len(w) /\ i + 1 < j + 1
      BY <2>2
    <3>2. QED  BY <1>4, <2>2, <3>1
  <2>5. QED  BY <2>1, <2>3, <2>4 DEF OnWire, Live
<1>8. QED  BY <1>5, <1>6, <1>7 DEF InOrder

(* A connection the tab leaves or closes carries nothing any more.         *)
LEMMA TabEndsWire ==
    ASSUME NEW c \in Connection
    PROVE  LeftByTab(c).wire = <<>> /\ ClosedByTab(c).wire = <<>>
<1>1. [c EXCEPT !.client = "free", !.wire = <<>>].wire = <<>>
  BY DEF Connection
<1>2. QED  BY <1>1 DEF LeftByTab, Settled, Fresh, ClosedByTab, Connection

(* Opening and closing a connection puts nothing on a wire.                *)
LEMMA InOrderOpening ==
    ASSUME Typed, OnlyWs, InOrder, OpenConnection, price' = price, tick' = tick
    PROVE  InOrder'
<1>1. conn \in [Conn -> Connection] /\ NoConn \notin Conn
  BY TabAssumption DEF Typed
<1>2. CASE InUse
  BY <1>2 DEF OpenConnection, InOrder, OnWire, Live
<1>3. CASE ~InUse
  <2>1. PICK s \in Conn :
            conn' = [conn EXCEPT ![s].client = "connecting",
                                 ![s].authorised = (token' = "valid")]
    BY <1>3 DEF OpenConnection, NewConnection
  <2>2. \A t \in Conn : conn'[t].wire = conn[t].wire
    BY <1>1, <2>1 DEF Connection
  <2>3. \A t \in Conn : conn[t].wire = <<>>
    BY <1>1, <1>3 DEF OnlyWs, InUse, Live, InOrder, OnWire
  <2>4. QED  BY <2>2, <2>3, WiresShrink
<1>4. QED  BY <1>2, <1>3

LEMMA InOrderClosing ==
    ASSUME Typed, InOrder, CloseConnection, price' = price, tick' = tick
    PROVE  InOrder'
<1>1. CASE ws = NoConn
  BY <1>1 DEF CloseConnection, InOrder, OnWire, Live
<1>2. CASE ws # NoConn
  <2>1. /\ conn \in [Conn -> Connection] /\ ws \in Conn
        /\ conn' = [conn EXCEPT ![ws] = ClosedByTab(conn[ws])]
    BY <1>2 DEF Typed, CloseConnection
  <2>2. \A t \in Conn : \/ t = ws /\ conn'[t].wire = <<>>
                        \/ conn'[t] = conn[t]
    BY <2>1, TabEndsWire
  <2>3. \A t \in Conn : conn[t].wire # <<>> => Live(conn[t])
    BY DEF InOrder, OnWire
  <2>4. QED  BY <2>2, <2>3, WiresShrink
<1>3. QED  BY <1>1, <1>2

(* A step of the session opens, closes or keeps the connection.            *)
LEMMA InOrderSession ==
    ASSUME IInv, InOrder, SessionStep PROVE InOrder'
<1>1. Remount /\ tick' = tick /\ price' = price /\ Typed /\ OnlyWs
  BY DEF SessionStep, IInv
<1>2. UNCHANGED conn \/ OpenConnection \/ CloseConnection
  BY <1>1 DEF Remount, Connect, Disconnect
<1>3. CASE UNCHANGED conn
  BY <1>1, <1>3 DEF InOrder, OnWire, Live
<1>4. QED  BY <1>1, <1>2, <1>3, InOrderOpening, InOrderClosing

LEMMA InOrderEnds ==
    ASSUME IInv, InOrder, NEW s \in Conn, Opens(s) \/ OnClose(s) PROVE InOrder'
<1>1. conn \in [Conn -> Connection] /\ tick' = tick /\ price' = price
  BY DEF IInv, Typed, Opens, OnClose
<1>2. \A t \in Conn : conn[t].wire # <<>> => Live(conn[t])
  BY DEF InOrder, OnWire
<1>3. CASE Opens(s)
  <2>1. \A t \in Conn : \/ conn'[t] = conn[t]
                        \/ conn'[t].wire = conn[t].wire /\ Live(conn'[t])
    BY <1>1, <1>3 DEF Opens, Connection, Live
  <2>2. QED  BY <1>1, <1>2, <2>1, WiresShrink
<1>4. CASE OnClose(s)
  <2>1. \A t \in Conn : conn'[t] = conn[t] \/ conn'[t].wire = <<>>
    BY <1>1, <1>4, TabEndsWire DEF OnClose
  <2>2. QED  BY <1>1, <1>2, <2>1, WiresShrink
<1>5. QED  BY <1>3, <1>4

LEMMA InOrderNext == IInv /\ InOrder /\ [Next]_vars => InOrder'
<1> SUFFICES ASSUME IInv, InOrder, [Next]_vars PROVE InOrder'
  OBVIOUS
<1>0. Typed /\ OnlyWs
  BY DEF IInv
<1>1. CASE Server
  <2>1. ServerNext /\ price' = price
    BY <1>1 DEF Server
  <2>2. CASE Broadcast
    BY <1>0, <2>1, <2>2, InOrderBroadcast
  <2>3. CASE ~Broadcast
    <3>1. /\ tick' = tick
          /\ \A s \in Conn : /\ conn'[s].wire \in {conn[s].wire, <<>>}
                             /\ conn'[s].client = conn[s].client
      BY <1>0, <2>1, <2>3, ServerKeepsWires, ServerKeepsClients
    <3>2. \A s \in Conn : conn[s].wire # <<>> => Live(conn[s])
      BY DEF InOrder, OnWire
    <3>3. \A s \in Conn : conn'[s].wire # <<>> => Live(conn'[s])
      BY <3>1, <3>2 DEF Live
    <3>4. QED  BY <2>1, <3>1, <3>3, WiresShrink
  <2>4. QED  BY <2>2, <2>3
<1>2. CASE TimerFires
  BY <1>0, <1>2, InOrderOpening DEF TimerFires
<1>3. ASSUME NEW s \in Conn, Tab(s) PROVE InOrder'
  BY <1>0, <1>3, InOrderMessage, InOrderEnds
     DEF Tab, ClosesCleanly, ClosesAbnormally
<1>4. CASE CheckAuth \/ Login \/ Logout \/ \E v \in Page : Select(v)
  BY <1>4, InOrderSession DEF CheckAuth, Login, Logout, Select
<1>5. CASE Reload
  <2>1. /\ conn' = [s \in Conn |-> LeftByTab(conn[s])]
        /\ price' = -1 /\ tick' = tick /\ tick \in Nat
    BY <1>0, <1>5 DEF Reload, Typed, Never
  <2>2. \A s \in Conn : conn'[s].wire = <<>>
    BY <1>0, <2>1, TabEndsWire DEF Typed
  <2>3. \A s \in Conn : OnWire(conn[s])'
    BY <2>2 DEF OnWire, Increasing
  <2>4. QED  BY <2>1, <2>3 DEF InOrder
<1>6. CASE TokenExpires \/ UNCHANGED vars
  BY <1>6 DEF TokenExpires, vars, gatewayVars, InOrder, OnWire, Live
<1>7. QED  BY <1>1, <1>2, <1>3, <1>4, <1>5, <1>6 DEF Next

(* Only a message, or a new page, changes the price.                       *)
LEMMA PriceRises ==
    ASSUME IInv, InOrder, [Next]_vars, price' # price
    PROVE  app' = "starting" \/ price' >= price
<1>1. Typed /\ OnlyWs /\ price \in Int
  BY DEF IInv, InOrder
<1>2. ASSUME NEW s \in Conn, Tab(s) PROVE price' >= price
  <2>1. CASE Message(s)
    <3>1. InOrder' /\ price' > price
      BY <1>1, <2>1, InOrderMessage
    <3>2. price' \in Int
      BY <3>1 DEF InOrder
    <3>3. QED  BY <1>1, <3>1, <3>2
  <2>2. CASE ~Message(s)
    BY <1>2, <2>2 DEF Tab, Opens, ClosesCleanly, ClosesAbnormally, OnClose
  <2>3. QED  BY <2>1, <2>2
<1>3. CASE Reload
  BY <1>3 DEF Reload, Shows
<1>4. CASE Server \/ TimerFires \/ TokenExpires \/ UNCHANGED vars
  BY <1>4 DEF Server, TimerFires, TokenExpires, vars
<1>5. CASE CheckAuth \/ Login \/ Logout \/ \E v \in Page : Select(v)
  BY <1>5 DEF CheckAuth, Login, Logout, Select, SessionStep
<1>6. QED  BY <1>2, <1>3, <1>4, <1>5 DEF Next

(* useWsStream.ts:65: over all reconnections, the price shown never goes   *)
(* back to an older one while the page lives.                              *)
THEOREM PricesNeverGoBack == Spec => PricesInOrder
<1>1. Spec => [](IInv /\ InOrder)
  <2>1. Init => IInv /\ InOrder
    BY IInvInit, InOrderInit
  <2>2. IInv /\ InOrder /\ [Next]_vars => (IInv /\ InOrder)'
    BY IInvNext, InOrderNext
  <2>3. QED  BY <2>1, <2>2, PTL DEF Spec
<1>2. IInv /\ InOrder /\ [Next]_vars => [app' # "starting" => price' >= price]_price
  BY PriceRises
<1>3. QED  BY <1>1, <1>2, PTL DEF Spec, PricesInOrder

-----------------------------------------------------------------------------
(* What remains of the types *)

(* The variables that nothing above needs, and the bounds.                 *)
Remaining ==
    /\ tick <= MaxTick /\ faults \in 0..MaxFaults
    /\ app \in {"starting", "login", "main"} /\ currentView \in Page
    /\ token \in {"none", "valid", "expired"} /\ status \in {"connecting", "open", "closed"}
    /\ timers <= MaxTimers /\ price \in Nat \cup {Never}
Switches == timerSet \in BOOLEAN /\ leaked \in BOOLEAN

LEMMA RemainingStream ==
    ASSUME Typed, Remaining, Remount, Counted
    PROVE  status' \in {"connecting", "open", "closed"} /\ timers' <= MaxTimers
<1>1. /\ timers \in Nat /\ MaxTimers \in Nat /\ timers <= MaxTimers
      /\ status \in {"connecting", "open", "closed"} /\ refCount \in {0, 1}
  BY TabAssumption DEF Typed, Remaining, Counted
<1>2. CASE Connect
  BY <1>1, <1>2 DEF Connect, OpenConnection, NewConnection
<1>3. CASE Disconnect
  BY <1>1, <1>3 DEF Disconnect, CloseConnection, ClearTimer
<1>4. CASE UNCHANGED <<conn, stream>>
  BY <1>1, <1>4 DEF stream
<1>5. QED  BY <1>2, <1>3, <1>4 DEF Remount

LEMMA RemainingNext == IInv /\ Remaining /\ [Next]_vars => Remaining'
<1> SUFFICES ASSUME IInv, Remaining, [Next]_vars PROVE Remaining'
  OBVIOUS
<1>0. /\ Typed /\ Counted /\ tick \in Nat /\ timers \in Nat
      /\ MaxTick \in Nat /\ MaxFaults \in Nat /\ MaxTimers \in Nat /\ "rules" \in Page
  BY GatewayAssumption, TabAssumption DEF IInv, Typed
<1> USE DEF Remaining
<1>1. CASE Server
  <2>1. ServerNext
    BY <1>1 DEF Server
  <2>2. tick' = tick \/ (tick < MaxTick /\ tick' = tick + 1)
    BY <2>1, Zenon DEF ServerNext, Broadcast, Heartbeat, ServerRestarts, Accept, Pong, ClientLeft, Cut
  <2>3. faults' = faults \/ (faults < MaxFaults /\ faults' = faults + 1)
    BY <2>1, Zenon DEF ServerNext, Broadcast, Heartbeat, ServerRestarts, Accept, Pong, ClientLeft,
                       Cut, Fault
  <2>4. tick' <= MaxTick /\ faults' \in 0..MaxFaults
    BY <1>0, <2>2, <2>3
  <2>5. QED  BY <1>1, <2>4 DEF Server, session, stream
<1>2. CASE TimerFires
  BY <1>0, <1>2 DEF TimerFires, OpenConnection, NewConnection
<1>3. ASSUME NEW s \in Conn, Tab(s) PROVE Remaining'
  <2>1. CASE Opens(s)  BY <2>1 DEF Opens, session
  <2>2. CASE Message(s)
    <3>1. conn[s].wire \in Seq(Nat) /\ conn[s].wire # <<>> /\ price' = Head(conn[s].wire)
      BY <1>0, <2>2 DEF Typed, Connection, Message
    <3>2. price' \in Nat
      BY <3>1
    <3>3. QED  BY <2>2, <3>2 DEF Message, session, stream
  <2>3. CASE ClosesCleanly(s)  BY <2>3 DEF ClosesCleanly, OnClose, session
  <2>4. CASE ClosesAbnormally(s)
    BY <1>0, <2>4 DEF ClosesAbnormally, OnClose, Reconnect, session
  <2>5. QED  BY <1>3, <2>1, <2>2, <2>3, <2>4 DEF Tab
<1>4. ASSUME SessionStep, app' \in {"starting", "login", "main"}, currentView' \in Page,
             token' \in {"none", "valid", "expired"}
      PROVE  Remaining'
  BY <1>0, <1>4, RemainingStream DEF SessionStep
<1>5. CASE CheckAuth \/ Login \/ Logout \/ \E v \in Page : Select(v)
  BY <1>4, <1>5 DEF CheckAuth, Login, Logout, Select, Shows, Issued
<1>6. CASE Reload
  BY <1>0, <1>6 DEF Reload, Shows
<1>7. CASE TokenExpires \/ UNCHANGED vars
  BY <1>7 DEF TokenExpires, vars, gatewayVars, session, stream
<1>8. QED  BY <1>1, <1>2, <1>3, <1>5, <1>6, <1>7 DEF Next

LEMMA SwitchesNext == Switches /\ [Next]_vars => Switches'
<1> SUFFICES ASSUME Switches, [Next]_vars PROVE Switches'
  OBVIOUS
<1> USE DEF Switches
<1>1. CASE Server \/ TokenExpires \/ UNCHANGED vars
  BY <1>1 DEF Server, TokenExpires, vars, stream
<1>2. CASE TimerFires
  <2>1. timerSet' = (timerSet /\ timers > 1) /\ leaked' = leaked
    BY <1>2 DEF TimerFires
  <2>2. QED  BY <2>1, Zenon
<1>3. ASSUME NEW s \in Conn, Tab(s) PROVE Switches'
  <2>1. CASE Opens(s) \/ Message(s) \/ ClosesCleanly(s)
    BY <2>1 DEF Opens, Message, ClosesCleanly, stream
  <2>2. CASE ClosesAbnormally(s)
    <3>1. timerSet' = TRUE /\ leaked' = (leaked \/ s # ws \/ refCount = 0)
      BY <2>2 DEF ClosesAbnormally, Reconnect
    <3>2. QED  BY <3>1, Zenon
  <2>3. QED  BY <1>3, <2>1, <2>2 DEF Tab
<1>4. CASE SessionStep
  BY <1>4 DEF SessionStep, Remount, stream, Connect, Disconnect, CloseConnection, ClearTimer
<1>5. CASE Reload
  BY <1>5 DEF Reload
<1>6. QED
  BY <1>1, <1>2, <1>3, <1>4, <1>5 DEF Next, CheckAuth, Login, Logout, Select

(* Every variable of a tab and of the gateway has its type: a view that is *)
(* mounted is counted once.                                                *)
THEOREM StreamIsTyped == Spec => []StreamTypeOK
<1>1. Init => Remaining /\ Switches
  <2> SUFFICES ASSUME Init PROVE Remaining /\ Switches
    OBVIOUS
  <2>1. MaxTick \in Nat /\ MaxFaults \in Nat /\ MaxTimers \in Nat /\ "rules" \in Page
    BY GatewayAssumption, TabAssumption
  <2>2. /\ app = "starting" /\ currentView = "rules" /\ token \in {"none", "valid"}
        /\ status = "closed" /\ timers = 0 /\ timerSet = FALSE /\ leaked = FALSE
        /\ price = Never /\ tick = 0 /\ faults = 0
    BY DEF Init, InitTab, InitGateway
  <2>3. tick <= MaxTick /\ faults \in 0..MaxFaults /\ timers <= MaxTimers /\ currentView \in Page
    BY <2>1, <2>2
  <2>4. QED  BY <2>2, <2>3 DEF Remaining, Switches
<1>2. IInv /\ Remaining /\ Switches => StreamTypeOK
  <2> SUFFICES ASSUME IInv, Remaining, Switches PROVE StreamTypeOK
    OBVIOUS
  <2>1. /\ conn \in [Conn -> Connection] /\ tick \in 0..MaxTick /\ ws \in Conn \cup {NoConn}
        /\ timers \in 0..MaxTimers /\ refCount \in {0, 1}
    BY GatewayAssumption, TabAssumption DEF IInv, Typed, Counted, Remaining
  <2>2. QED  BY <2>1 DEF Remaining, Switches, StreamTypeOK
<1>3. QED  BY <1>1, <1>2, IInvHolds, RemainingNext, SwitchesNext, PTL DEF Spec
=============================================================================
