------------------------------ MODULE BinanceWs ------------------------------
(***************************************************************************)
(* src/data-provider/binance-ws.service.ts: the web socket that carries    *)
(* the kline streams, its closing and its reconnection.                    *)
(*                                                                         *)
(* A socket that has closed has sent its last event: a reference to it is  *)
(* as good as null, so ws is NoSocket then.  isDestroyed is left out:      *)
(* nothing closes the application before its process ends.                 *)
(***************************************************************************)
EXTENDS Integers, Sequences, SequencesExt, FiniteSets

CONSTANTS
    Socket,         \* names for sockets, used again once they are closed
    NoSocket,
    MaxAttempts,    \* MAX_RECONNECT_ATTEMPTS
    MaxDrops,       \* bound on open connections the network breaks
    MaxRefusals     \* bound on connections that never open

ASSUME SocketAssumption ==
    /\ NoSocket \notin Socket
    /\ MaxAttempts \in Nat /\ MaxDrops \in Nat /\ MaxRefusals \in Nat

VARIABLES
    socket,     \* state, listeners, streams and undelivered messages
    ws,         \* this.ws
    streams,    \* this.streams
    attempts,   \* reconnectAttempts
    timers,     \* reconnection timers that run
    timerSet,   \* is reconnectTimer set, to the timer started last
    broken      \* connections broken and refused so far

wsVars == <<socket, ws, streams, attempts, timers, timerSet, broken>>

Free == [state |-> "free", listening |-> FALSE, streams |-> {}, wire |-> <<>>]
Listening == {s \in Socket : socket[s].listening}
Connected == {s \in Listening : socket[s].state = "open"}

InitSocket ==
    /\ socket = [s \in Socket |-> Free]
    /\ ws = NoSocket /\ streams = {}
    /\ attempts = 0 /\ timers = 0 /\ timerSet = FALSE
    /\ broken = [drops |-> 0, refusals |-> 0]

-----------------------------------------------------------------------------
(* connect, given the sockets it finds: the new one replaces ws without    *)
(* touching the one that was there.                                        *)
Connect(sockets, wanted) ==
    LET s == CHOOSE x \in Socket : sockets[x].state = "free" IN
    /\ socket' = [sockets EXCEPT ![s] =
           [Free EXCEPT !.state = "connecting", !.listening = TRUE,
                        !.streams = wanted]]
    /\ ws' = s
NameLeft == \E s \in Socket : socket[s].state = "free"

(* Mutant of disconnect: the listeners stay.                               *)
Disconnected_Listening ==
    [s \in Socket |-> IF s = ws THEN [socket[s] EXCEPT !.state = "closing"]
                                ELSE socket[s]]
Disconnected ==
    [s \in Socket |-> IF s = ws
        THEN [socket[s] EXCEPT !.state = "closing", !.listening = FALSE]
        ELSE socket[s]]
ClearTimer ==
    /\ timers' = IF timerSet THEN timers - 1 ELSE timers
    /\ timerSet' = FALSE

(* A socket closed before it has opened reports an error, and its          *)
(* listeners are gone: nobody handles the error and the process ends.      *)
ClosedWhileConnecting == ws # NoSocket /\ socket[ws].state = "connecting"

(* updateStreams of no stream, then disconnect.                            *)
Disconnect ==
    /\ streams' = {} /\ socket' = Disconnected /\ ws' = NoSocket
    /\ ClearTimer
    /\ UNCHANGED <<attempts, broken>>

Subscribe(wanted) ==
    /\ NameLeft
    /\ streams' = wanted
    /\ Connect(socket, wanted)
    /\ UNCHANGED <<attempts, timers, timerSet, broken>>

(* Mutant: one attempt too few is made.                                    *)
ScheduleReconnect_Early ==
    IF attempts + 1 >= MaxAttempts
    THEN UNCHANGED <<attempts, timers, timerSet>>
    ELSE attempts' = attempts + 1 /\ timers' = timers + 1 /\ timerSet' = TRUE
ScheduleReconnect ==
    IF attempts >= MaxAttempts
    THEN UNCHANGED <<attempts, timers, timerSet>>
    ELSE attempts' = attempts + 1 /\ timers' = timers + 1 /\ timerSet' = TRUE

TimerFires ==
    /\ timers > 0 /\ NameLeft
    /\ timers' = timers - 1 /\ timerSet' = FALSE
    /\ Connect(socket, streams)
    /\ UNCHANGED <<streams, attempts, broken>>

-----------------------------------------------------------------------------
(* Events of a socket; without listeners they change nothing here.         *)

Opens(s) ==
    /\ socket[s].state = "connecting"
    /\ socket' = [socket EXCEPT ![s].state = "open"]
    /\ attempts' = IF socket[s].listening THEN 0 ELSE attempts
    /\ UNCHANGED <<ws, streams, timers, timerSet, broken>>

(* close: the last event of a socket, messages on their way are lost.      *)
Closes(s) ==
    /\ socket' = [socket EXCEPT ![s] = Free]
    /\ ws' = IF ws = s THEN NoSocket ELSE ws
    /\ IF socket[s].listening THEN ScheduleReconnect
                              ELSE UNCHANGED <<attempts, timers, timerSet>>
    /\ UNCHANGED streams

Drops(s) ==
    /\ socket[s].state = "open" /\ broken.drops < MaxDrops
    /\ broken' = [broken EXCEPT !.drops = @ + 1]
    /\ Closes(s)

Refused(s) ==
    /\ socket[s].state = "connecting" /\ broken.refusals < MaxRefusals
    /\ broken' = [broken EXCEPT !.refusals = @ + 1]
    /\ Closes(s)

ClosingEnds(s) ==
    /\ socket[s].state = "closing"
    /\ Closes(s)
    /\ UNCHANGED broken
=============================================================================
