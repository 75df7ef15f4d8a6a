---------------------------- MODULE ApiWsGateway ----------------------------
(***************************************************************************)
(* src/api/ws/api.ws.gateway.ts: the web socket server of the web clients, *)
(* and the network between them.  A connection is one record; client is    *)
(* what the browser holds of it, server what the gateway does.             *)
(***************************************************************************)
EXTENDS Integers, Sequences, FiniteSets

CONSTANTS
    Conn,           \* names of connections, used again once both ends are gone
    MaxTick,        \* bound on messages broadcast
    MaxFaults       \* bound on connections cut, restarts of the server and
                    \* heartbeats that do not wait for a pong, taken together

ASSUME GatewayAssumption == {MaxTick, MaxFaults} \subseteq Nat

VARIABLES
    conn,
    tick,           \* messages broadcast so far, each the next price
    faults          \* so far

(* "aborting": closed by the tab before it was open.                       *)
ClientState == {"free", "connecting", "open", "closing", "aborting"}
ServerState == {"none", "open", "closed", "terminated"}
Connection == [client : ClientState, server : ServerState,
               authorised : BOOLEAN,    \* did it come with a valid token
               alive : BOOLEAN,         \* isAlive
               cut : BOOLEAN, wire : Seq(Nat)]
Fresh == [client |-> "free", server |-> "none", authorised |-> FALSE,
          alive |-> FALSE, cut |-> FALSE, wire |-> <<>>]

InitGateway ==
    /\ conn = [s \in Conn |-> Fresh]
    /\ tick = 0
    /\ faults = 0

Fault == faults < MaxFaults /\ faults' = faults + 1
Clients == {s \in Conn : conn[s].server = "open"}   \* wss.clients

(* A connection whose two ends are gone is forgotten.                      *)
Settled(c) == IF c.client = "free" /\ c.server # "open" THEN Fresh ELSE c
ServerEnds(c, how) == Settled([c EXCEPT !.server = how])

-----------------------------------------------------------------------------
(* verifyClient accepts, connection.                                       *)
Accept(s) ==
    /\ conn[s].client = "connecting" /\ conn[s].server = "none"
    /\ conn[s].authorised /\ ~conn[s].cut
    /\ conn' = [conn EXCEPT ![s].server = "open", ![s].alive = TRUE]
    /\ UNCHANGED <<tick, faults>>

(* broadcast, to the clients that are open; what will not be delivered is  *)
(* not kept.                                                               *)
Reached(s) ==
    s \in Clients /\ ~conn[s].cut /\ conn[s].client \in {"connecting", "open"}
Broadcast ==
    /\ tick < MaxTick
    /\ tick' = tick + 1
    /\ conn' = [s \in Conn |->
           IF Reached(s) THEN [conn[s] EXCEPT !.wire = Append(@, tick)]
                         ELSE conn[s]]
    /\ UNCHANGED faults

(* The browser answers a ping by itself.                                   *)
OwesPong(s) == Reached(s) /\ ~conn[s].alive
Pong(s) ==
    /\ OwesPong(s)
    /\ conn' = [conn EXCEPT ![s].alive = TRUE]
    /\ UNCHANGED <<tick, faults>>

(* Mutants: isAlive is not reset, or the client is not asked again.        *)
Beat_Trusting(c) == IF c.alive THEN c ELSE ServerEnds(c, "terminated")
Beat(c) ==
    IF c.alive THEN [c EXCEPT !.alive = FALSE] ELSE ServerEnds(c, "terminated")

(* heartbeat: half a minute is time enough for a pong, but for a fault.    *)
Heartbeat ==
    /\ Clients # {}
    /\ IF \E s \in Conn : OwesPong(s)
       THEN Fault
       ELSE UNCHANGED faults
    /\ conn' = [s \in Conn |-> IF s \in Clients THEN Beat(conn[s]) ELSE conn[s]]
    /\ UNCHANGED tick

(* The other end has closed the connection, and the gateway hears of it.   *)
ClientLeft(s) ==
    /\ s \in Clients /\ ~conn[s].cut
    /\ conn[s].client \in {"free", "closing", "aborting"}
    /\ conn' = [conn EXCEPT ![s] = ServerEnds(@, "closed")]
    /\ UNCHANGED <<tick, faults>>

(* The network breaks a connection without a word.                         *)
Cut(s) ==
    /\ conn[s].client # "free" /\ ~conn[s].cut /\ Fault
    /\ conn' = [conn EXCEPT ![s].cut = TRUE, ![s].wire = <<>>]
    /\ UNCHANGED tick

(* The process of the server ends and is started again.                    *)
ServerRestarts ==
    /\ Clients # {} /\ Fault
    /\ conn' = [s \in Conn |->
           IF s \in Clients THEN ServerEnds(conn[s], "terminated") ELSE conn[s]]
    /\ UNCHANGED tick

ServerNext ==
    \/ Broadcast \/ Heartbeat \/ ServerRestarts
    \/ \E s \in Conn : Accept(s) \/ Pong(s) \/ ClientLeft(s) \/ Cut(s)
=============================================================================
