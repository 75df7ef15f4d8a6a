---------------------------- MODULE FeedTheorems ----------------------------
(***************************************************************************)
(* What the feed promises, for any streams, failures and attempts to       *)
(* reconnect: one path for ticks, ticks in order, and buffers that are     *)
(* books of candles.                                                       *)
(*                                                                         *)
(* One path, while reloads do not overlap: the socket with listeners is    *)
(* the one ws refers to; a timer that will open one runs only while there  *)
(* is none, and is known to reconnectTimer; a reload that is under way has *)
(* taken both down; and what is subscribed to is what the last reload      *)
(* asked for.                                                              *)
(*                                                                         *)
(* Order and buffers: what is on its way on a socket is sorted, and newer  *)
(* than what was seen when the socket is the one listened to; a buffer is  *)
(* sorted by the moments of its candles, and all but one of the closed     *)
(* ones have the last tick of their moment.                                *)
(***************************************************************************)
EXTENDS FeedProperties, FiniteSetTheorems, FunctionTheorems, TLAPS

SocketRecord ==
    [state : {"free", "connecting", "open", "closing"}, listening : BOOLEAN,
     streams : SUBSET Stream, wire : Seq([stream : Stream, at : Nat])]

(* Of the types only what the rest needs.                                  *)
Typed ==
    /\ socket \in [Socket -> SocketRecord]
    /\ ws \in Socket \cup {NoSocket} /\ streams \subseteq Stream
    /\ timers \in Nat /\ (timerSet => timers > 0)
    /\ subs \in Nat /\ (wsSub => subs > 0)
    /\ clock \in Nat
    /\ load \in [Load -> [pc : {"idle", "seeding"}, seeds : [Stream -> Int]]]
    /\ wanted \subseteq Stream

Going == {l \in Load : load[l].pc # "idle"}
Unconnected == ws = NoSocket /\ timers = 0 /\ ~wsSub

OnlyWsListens ==
    /\ \A s \in Socket : socket[s].listening => s = ws
    /\ ws # NoSocket => socket[ws].listening /\ timers = 0
OneTimer == timers = IF timerSet THEN 1 ELSE 0
OneSubscription == subs = IF wsSub THEN 1 ELSE 0
LoadsAlone ==
    /\ \A k, l \in Going : k = l
    /\ Going # {} => Unconnected
    /\ phase = "down" => Going = {} /\ Unconnected
WantedStreams ==
    /\ ws # NoSocket => socket[ws].streams = wanted
    /\ ws # NoSocket \/ timers > 0 => streams = wanted

Alone == OnlyWsListens /\ OneTimer /\ OneSubscription /\ LoadsAlone /\ WantedStreams
IInv == Typed /\ (~overlapped => Alone)

(* What the feed hears: a socket's messages are from the past, and so is   *)
(* what the answer to a seeding holds.                                     *)
Past ==
    /\ clock <= MaxClock
    /\ \A s \in Socket : \A i \in 1..Len(socket[s].wire) : socket[s].wire[i].at < clock
    /\ \A l \in Load, k \in Stream : load[l].seeds[k] <= clock

(* Buffers are lists by moment, with one candle cut short at most.         *)
Sorted(b) == \A i, j \in 1..Len(b) : i < j => b[i].timestamp < b[j].timestamp
CutShort(k, c) == c.isClosed /\ c.close # LastTickOf(k, c.timestamp)
OneCutShort(k, b) ==
    \A i, j \in 1..Len(b) : CutShort(k, b[i]) /\ CutShort(k, b[j]) => i = j
BufferOK(k, b) == b \in Seq(Candle) /\ Sorted(b) /\ OneCutShort(k, b)
BuffersOK ==
    /\ buffer \in [Stream -> Seq(Candle)]
    /\ \A k \in Stream : BufferOK(k, buffer[k])

(* While reloads do not overlap, what is still to come by the socket is    *)
(* newer than what has been seen.                                          *)
Coming(s) ==
    LET w == socket[s].wire IN
    /\ \A i \in 1..Len(w) : w[i].at > seen[w[i].stream]
    /\ \A i, j \in 1..Len(w) : i < j => w[i].at < w[j].at
SeenOK ==
    /\ seen \in [Stream -> Int] /\ \A k \in Stream : seen[k] < clock
    /\ ~overlapped => \A s \in Listening : Coming(s)

FeedInv == IInv /\ Past /\ BuffersOK /\ SeenOK

-----------------------------------------------------------------------------
(* Sockets *)

LEMMA FreeTyped == Free \in SocketRecord /\ ~Free.listening
<1> DEFINE e == <<>>
<1>1. e \in Seq([stream : Stream, at : Nat])
  OBVIOUS
<1>2. Free = [state |-> "free", listening |-> FALSE, streams |-> {}, wire |-> e]
  BY DEF Free
<1> HIDE DEF e
<1>3. QED  BY <1>1, <1>2 DEF SocketRecord

LEMMA IInvInit == Init => IInv
<1> SUFFICES ASSUME Init PROVE IInv
  OBVIOUS
<1>1. /\ socket = [s \in Socket |-> Free] /\ ws = NoSocket /\ streams = {}
      /\ timers = 0 /\ timerSet = FALSE
      /\ load = [l \in Load |-> Idle] /\ wanted = {} /\ subs = 0 /\ wsSub = FALSE
      /\ clock = 0 /\ phase = "down"
  BY DEF Init, InitSocket, InitProvider
<1>2. Typed
  <2>1. load \in [Load -> [pc : {"idle", "seeding"}, seeds : [Stream -> Int]]]
    BY <1>1 DEF Idle, Unasked
  <2>2. socket \in [Socket -> SocketRecord]
    BY <1>1, FreeTyped
  <2>3. QED  BY <1>1, <2>1, <2>2 DEF Typed
<1>3. Going = {} /\ \A s \in Socket : ~socket[s].listening
  BY <1>1, FreeTyped DEF Going, Idle
<1>4. Alone
  BY <1>1, <1>3 DEF Alone, OnlyWsListens, OneTimer, OneSubscription, LoadsAlone,
                    Unconnected, WantedStreams
<1>5. QED  BY <1>2, <1>4 DEF IInv

(* A connection is made: its socket is the only one that listens, if none  *)
(* did before.                                                             *)
LEMMA Connecting ==
    ASSUME Typed, NEW w \in SUBSET Stream, NameLeft, Connect(socket, w)
    PROVE  /\ socket' \in [Socket -> SocketRecord] /\ ws' \in Socket
           /\ socket'[ws'].listening /\ socket'[ws'].streams = w
           /\ \A s \in Socket : s # ws' => socket'[s] = socket[s]
<1> DEFINE d == [Free EXCEPT !.state = "connecting", !.listening = TRUE, !.streams = w]
<1>1. PICK s \in Socket : socket' = [socket EXCEPT ![s] = d] /\ ws' = s
  BY DEF Connect, NameLeft
<1>2. d \in SocketRecord /\ d.listening /\ d.streams = w
  BY FreeTyped DEF SocketRecord
<1> HIDE DEF d
<1>3. QED  BY <1>1, <1>2 DEF Typed

(* The socket and its timer are taken down.                                *)
LEMMA Disconnecting ==
    ASSUME Typed, Disconnect
    PROVE  /\ socket' \in [Socket -> SocketRecord] /\ ws' = NoSocket /\ streams' = {}
           /\ \A s \in Socket : socket'[s].listening => socket[s].listening /\ s # ws
           /\ timers' = (IF timerSet THEN timers - 1 ELSE timers) /\ timerSet' = FALSE
<1>1. /\ socket' = Disconnected /\ ws' = NoSocket /\ streams' = {}
      /\ timers' = (IF timerSet THEN timers - 1 ELSE timers) /\ timerSet' = FALSE
  BY DEF Disconnect, ClearTimer
<1>2. \A x \in SocketRecord :
          /\ [x EXCEPT !.state = "closing", !.listening = FALSE] \in SocketRecord
          /\ ~[x EXCEPT !.state = "closing", !.listening = FALSE].listening
  BY DEF SocketRecord
<1>3. \A s \in Socket : /\ socket'[s] \in SocketRecord
                        /\ socket'[s].listening => socket[s].listening /\ s # ws
  BY <1>1, <1>2 DEF Disconnected, Typed
<1>4. socket' = [s \in Socket |-> socket'[s]]
  BY <1>1 DEF Disconnected
<1>5. QED  BY <1>1, <1>3, <1>4

(* What happens to a socket that keeps its listeners and streams changes   *)
(* nothing here.                                                           *)
SocketsKept ==
    /\ socket' \in [Socket -> SocketRecord]
    /\ \A s \in Socket : /\ socket'[s].listening <=> socket[s].listening
                         /\ socket'[s].streams = socket[s].streams
LEMMA IInvSocketsKept ==
    ASSUME IInv, SocketsKept, clock' \in Nat,
           UNCHANGED <<ws, streams, timers, timerSet, load, wanted, subs, wsSub,
                       phase, overlapped>>
    PROVE  IInv'
<1>1. Typed'
  BY DEF IInv, Typed, SocketsKept
<1>2. OnlyWsListens' <=> OnlyWsListens
  BY DEF IInv, Typed, OnlyWsListens, SocketsKept
<1>3. WantedStreams' <=> WantedStreams
  BY DEF IInv, Typed, WantedStreams, SocketsKept
<1>4. /\ OneTimer' <=> OneTimer
      /\ OneSubscription' <=> OneSubscription
      /\ LoadsAlone' <=> LoadsAlone
  BY DEF OneTimer, OneSubscription, LoadsAlone, Going, Unconnected
<1>5. QED  BY <1>1, <1>2, <1>3, <1>4 DEF IInv, Alone

LEMMA IInvKline == ASSUME IInv, NEW k \in Stream, Kline(k) PROVE IInv'
<1> DEFINE m == [stream |-> k, at |-> clock]
<1>1. /\ socket' = [s \in Socket |->
             IF s \in Carriers(k)
             THEN [socket[s] EXCEPT !.wire = Append(socket[s].wire, m)] ELSE socket[s]]
      /\ clock' = clock + 1
      /\ UNCHANGED <<ws, streams, timers, timerSet, load, wanted, subs, wsSub,
                     phase, overlapped>>
  BY DEF Kline, process, callVars, history
<1>2. Typed
  BY DEF IInv
<1>3. ASSUME NEW s \in Socket
      PROVE  LET d == [socket[s] EXCEPT !.wire = Append(socket[s].wire, m)] IN
             /\ d \in SocketRecord
             /\ d.listening = socket[s].listening /\ d.streams = socket[s].streams
  <2> DEFINE M == [stream : Stream, at : Nat]
             w == Append(socket[s].wire, m)
  <2>1. m \in M /\ socket[s] \in SocketRecord /\ socket[s].wire \in Seq(M)
    BY <1>2 DEF Typed, SocketRecord
  <2> HIDE DEF m, M
  <2>2. w \in Seq(M)
    BY <2>1
  <2> HIDE DEF w
  <2>3. /\ [socket[s] EXCEPT !.wire = w] \in SocketRecord
        /\ [socket[s] EXCEPT !.wire = w].listening = socket[s].listening
        /\ [socket[s] EXCEPT !.wire = w].streams = socket[s].streams
    BY <2>1, <2>2 DEF SocketRecord, M
  <2>4. QED  BY <2>3 DEF w
<1> HIDE DEF m
<1>4. SocketsKept
  BY <1>1, <1>2, <1>3 DEF SocketsKept, Typed
<1>5. QED  BY <1>1, <1>2, <1>4, IInvSocketsKept DEF Typed

LEMMA IInvMessage == ASSUME IInv, NEW s \in Socket, Message(s) PROVE IInv'
<1> DEFINE d == [socket[s] EXCEPT !.wire = Tail(socket[s].wire)]
<1>1. /\ socket[s].wire # <<>> /\ socket' = [socket EXCEPT ![s] = d]
      /\ UNCHANGED <<ws, streams, timers, timerSet, load, wanted, subs, wsSub,
                     phase, overlapped, clock>>
  BY DEF Message, process, callVars, history
<1>2. Typed /\ socket[s] \in SocketRecord
  BY DEF IInv, Typed
<1>3. Tail(socket[s].wire) \in Seq([stream : Stream, at : Nat])
  BY <1>1, <1>2 DEF SocketRecord
<1>4. /\ d \in SocketRecord
      /\ d.listening = socket[s].listening /\ d.streams = socket[s].streams
  BY <1>2, <1>3 DEF SocketRecord
<1> HIDE DEF d
<1>5. SocketsKept
  BY <1>1, <1>2, <1>4 DEF SocketsKept, Typed
<1>6. QED  BY <1>1, <1>2, <1>5, IInvSocketsKept DEF Typed

LEMMA IInvOpens ==
    ASSUME IInv, NEW s \in Socket, Opens(s),
           UNCHANGED <<process, callVars, clock, history>>
    PROVE  IInv'
<1> DEFINE d == [socket[s] EXCEPT !.state = "open"]
<1>1. /\ socket' = [socket EXCEPT ![s] = d]
      /\ UNCHANGED <<ws, streams, timers, timerSet, load, wanted, subs, wsSub,
                     phase, overlapped, clock>>
  BY DEF Opens, process, callVars, history
<1>2. Typed /\ socket[s] \in SocketRecord
  BY DEF IInv, Typed
<1>3. /\ d \in SocketRecord
      /\ d.listening = socket[s].listening /\ d.streams = socket[s].streams
  BY <1>2 DEF SocketRecord
<1> HIDE DEF d
<1>4. SocketsKept
  BY <1>1, <1>2, <1>3 DEF SocketsKept, Typed
<1>5. QED  BY <1>1, <1>2, <1>4, IInvSocketsKept DEF Typed

(* A socket closes: if it was listening, a timer may take its place.       *)
LEMMA IInvCloses ==
    ASSUME IInv, NEW s \in Socket, Closes(s), phase = "up",
           UNCHANGED <<process, callVars, clock, history>>
    PROVE  IInv'
<1>1. /\ socket' = [socket EXCEPT ![s] = Free]
      /\ ws' = (IF ws = s THEN NoSocket ELSE ws)
      /\ UNCHANGED <<streams, load, wanted, subs, wsSub, phase, overlapped, clock>>
  BY DEF Closes, process, callVars, history
<1>2. \/ UNCHANGED <<timers, timerSet>>
      \/ socket[s].listening /\ timers' = timers + 1 /\ timerSet' = TRUE
  BY DEF Closes, ScheduleReconnect
<1>3. Typed /\ socket[s] \in SocketRecord
  BY DEF IInv, Typed
<1>4. /\ socket' \in [Socket -> SocketRecord] /\ ~socket'[s].listening
      /\ \A t \in Socket : t # s => socket'[t] = socket[t]
  BY <1>1, <1>3, FreeTyped DEF Typed
<1>5. Typed'
  BY <1>1, <1>2, <1>3, <1>4 DEF Typed
<1>6. ASSUME Alone PROVE Alone'
  <2>1. CASE socket[s].listening
    <3>1. s = ws /\ ws # NoSocket /\ ws' = NoSocket /\ timers = 0 /\ Going = {}
      BY <1>1, <1>6, <2>1, SocketAssumption
         DEF Alone, OnlyWsListens, LoadsAlone, Unconnected
    <3>2. ~timerSet /\ streams = wanted
      BY <1>6, <3>1 DEF Alone, OneTimer, WantedStreams
    <3>3. OneTimer'
      BY <1>2, <3>1, <3>2 DEF OneTimer
    <3>4. Going' = {} /\ phase' # "down"
      BY <1>1, <3>1 DEF Going
    <3>5. OnlyWsListens' /\ OneSubscription' /\ LoadsAlone' /\ WantedStreams'
      BY <1>1, <1>4, <1>6, <3>1, <3>2, <3>4
         DEF Alone, OnlyWsListens, OneSubscription, LoadsAlone, WantedStreams
    <3>6. QED  BY <3>3, <3>5 DEF Alone
  <2>2. CASE ~socket[s].listening
    <3>1. ws' = ws /\ (ws # NoSocket => ws # s) /\ UNCHANGED <<timers, timerSet>>
      BY <1>1, <1>2, <1>6, <2>2, SocketAssumption DEF Alone, OnlyWsListens
    <3>2. OnlyWsListens' /\ WantedStreams'
      BY <1>1, <1>3, <1>4, <1>6, <3>1 DEF Typed, Alone, OnlyWsListens, WantedStreams
    <3>3. OneTimer' /\ OneSubscription' /\ LoadsAlone'
      BY <1>1, <1>6, <3>1
         DEF Alone, OneTimer, OneSubscription, LoadsAlone, Going, Unconnected
    <3>4. QED  BY <3>2, <3>3 DEF Alone
  <2>3. QED  BY <2>1, <2>2
<1>7. QED  BY <1>1, <1>5, <1>6 DEF IInv

(* The timer runs out, and nothing listened while it ran.                  *)
LEMMA IInvTimerFires ==
    ASSUME IInv, TimerFires, phase = "up",
           UNCHANGED <<process, callVars, clock, history>>
    PROVE  IInv'
<1>1. /\ timers > 0 /\ timers' = timers - 1 /\ timerSet' = FALSE /\ NameLeft
      /\ Connect(socket, streams)
      /\ UNCHANGED <<streams, load, wanted, subs, wsSub, phase, overlapped, clock>>
  BY DEF TimerFires, process, callVars, history
<1>2. Typed
  BY DEF IInv
<1>3. /\ socket' \in [Socket -> SocketRecord] /\ ws' \in Socket
      /\ socket'[ws'].listening /\ socket'[ws'].streams = streams
      /\ \A s \in Socket : s # ws' => socket'[s] = socket[s]
  BY <1>1, <1>2, Connecting DEF Typed
<1>4. Typed'
  BY <1>1, <1>2, <1>3 DEF Typed
<1>5. ASSUME Alone PROVE Alone'
  <2>1. ws = NoSocket /\ timers' = 0 /\ streams = wanted /\ Going = {}
    <3>1. timers # 0 /\ (timers = 0 \/ timers = 1)
      BY <1>1, <1>5 DEF Alone, OneTimer
    <3>2. QED
      BY <1>1, <1>5, <3>1
         DEF Alone, OnlyWsListens, WantedStreams, LoadsAlone, Unconnected
  <2>2. \A s \in Socket : ~socket[s].listening
    BY <1>5, <2>1, SocketAssumption DEF Alone, OnlyWsListens
  <2>3. Going' = {} /\ phase' # "down"
    BY <1>1, <2>1 DEF Going
  <2>4. OnlyWsListens' /\ OneTimer' /\ WantedStreams'
    BY <1>1, <1>3, <2>1, <2>2 DEF OnlyWsListens, OneTimer, WantedStreams
  <2>5. OneSubscription' /\ LoadsAlone'
    BY <1>1, <1>5, <2>3 DEF Alone, OneSubscription, LoadsAlone
  <2>6. QED  BY <2>4, <2>5 DEF Alone
<1>6. QED  BY <1>1, <1>4, <1>5 DEF IInv

-----------------------------------------------------------------------------
(* Reloads *)

(* initialize starts the seedings.                                         *)
LEMMA Initializing ==
    ASSUME Typed, NEW l \in Load, NEW keys \in Wants, Initialize(l, keys)
    PROVE  /\ wanted' = keys /\ keys \subseteq Stream
           /\ load' \in [Load -> [pc : {"idle", "seeding"}, seeds : [Stream -> Int]]]
           /\ \A k \in Load : k # l => load'[k] = load[k]
<1> DEFINE d == [pc |-> "seeding",
                 seeds |-> [k \in Stream |-> IF k \in keys THEN Asked ELSE Unasked]]
<1>1. d \in [pc : {"idle", "seeding"}, seeds : [Stream -> Int]]
  BY DEF Asked, Unasked
<1>2. wanted' = keys /\ load' = [load EXCEPT ![l] = d]
  BY DEF Initialize
<1> HIDE DEF d
<1>3. keys \subseteq Stream
  BY ProviderAssumption
<1>4. QED  BY <1>1, <1>2, <1>3 DEF Typed

LEMMA IInvStart == ASSUME IInv, Start PROVE IInv'
<1>1. /\ phase = "down" /\ phase' = "up"
      /\ UNCHANGED <<socket, ws, streams, timers, timerSet, subs, wsSub, clock, overlapped>>
  BY DEF Start, wsVars, history, callVars
<1>2. Typed
  BY DEF IInv
<1>3. CASE UNCHANGED <<load, wanted>>
  BY <1>1, <1>2, <1>3 DEF IInv, Typed, Alone, OnlyWsListens, OneTimer, OneSubscription,
                          LoadsAlone, Going, Unconnected, WantedStreams
<1>4. CASE \E l \in Load, keys \in Wants : Initialize(l, keys)
  <2>1. PICK l \in Load, keys \in Wants : Initialize(l, keys)
    BY <1>4
  <2>2. /\ wanted' = keys /\ keys \subseteq Stream
        /\ load' \in [Load -> [pc : {"idle", "seeding"}, seeds : [Stream -> Int]]]
        /\ \A k \in Load : k # l => load'[k] = load[k]
    BY <1>2, <2>1, Initializing
  <2>3. Typed'
    BY <1>1, <1>2, <2>2 DEF Typed
  <2>4. ASSUME Alone PROVE Alone'
    <3>1. Going = {} /\ Unconnected
      BY <1>1, <2>4 DEF Alone, LoadsAlone
    <3>2. Going' \subseteq {l} /\ Unconnected'
      BY <1>1, <2>2, <3>1 DEF Going, Unconnected
    <3>3. OnlyWsListens' /\ OneTimer' /\ OneSubscription' /\ LoadsAlone'
      BY <1>1, <2>4, <3>2
         DEF Alone, OnlyWsListens, OneTimer, OneSubscription, LoadsAlone
    <3>4. WantedStreams'
      BY <3>2 DEF WantedStreams, Unconnected
    <3>5. QED  BY <3>3, <3>4 DEF Alone
  <2>5. QED  BY <1>1, <2>3, <2>4 DEF IInv
<1>5. QED  BY <1>3, <1>4 DEF Start, callVars

(* A reload that overlaps no other takes everything down first.            *)
LEMMA IInvReinitialize ==
    ASSUME IInv, NEW l \in Load, NEW keys \in Wants, Reinitialize(l, keys)
    PROVE  IInv'
<1>1. /\ phase = "up" /\ phase' \in {"dead", "up"}
      /\ overlapped' = (overlapped \/ ~NoCallGoing)
      /\ Disconnect /\ Initialize(l, keys)
      /\ subs' = (IF wsSub THEN subs - 1 ELSE subs) /\ wsSub' = FALSE
      /\ clock' = clock
  BY DEF Reinitialize, Unsubscribed
<1>2. Typed
  BY DEF IInv
<1>3. /\ socket' \in [Socket -> SocketRecord] /\ ws' = NoSocket /\ streams' = {}
      /\ \A s \in Socket : socket'[s].listening => socket[s].listening /\ s # ws
      /\ timers' = (IF timerSet THEN timers - 1 ELSE timers) /\ timerSet' = FALSE
  BY <1>1, <1>2, Disconnecting
<1>4. /\ wanted' = keys /\ keys \subseteq Stream
      /\ load' \in [Load -> [pc : {"idle", "seeding"}, seeds : [Stream -> Int]]]
      /\ \A k \in Load : k # l => load'[k] = load[k]
  BY <1>1, <1>2, Initializing
<1>5. timers' \in Nat /\ subs' \in Nat /\ ~timerSet' /\ ~wsSub'
  BY <1>1, <1>2, <1>3 DEF Typed
<1>6. Typed'
  BY <1>1, <1>2, <1>3, <1>4, <1>5 DEF Typed
<1>7. ASSUME ~overlapped' PROVE Alone'
  <2>1. Alone /\ Going = {}
    BY <1>1, <1>7 DEF IInv, NoCallGoing, Going
  <2>2. timers' = 0 /\ subs' = 0
    BY <1>1, <1>3, <2>1 DEF Alone, OneTimer, OneSubscription
  <2>3. Going' \subseteq {l} /\ Unconnected'
    BY <1>3, <1>4, <1>5, <2>1, <2>2 DEF Going, Unconnected
  <2>4. OnlyWsListens' /\ OneTimer' /\ OneSubscription'
    BY <1>3, <1>5, <2>1, <2>2 DEF Alone, OnlyWsListens, OneTimer, OneSubscription
  <2>5. LoadsAlone' /\ WantedStreams'
    BY <1>1, <1>3, <2>2, <2>3 DEF LoadsAlone, WantedStreams
  <2>6. QED  BY <2>4, <2>5 DEF Alone
<1>8. QED  BY <1>6, <1>7 DEF IInv

(* A seeding goes on: its call stays under way.                            *)
LEMMA IInvSeeding ==
    ASSUME IInv, NEW l \in Load, NEW k \in Stream, NEW n \in Int,
           load' = [load EXCEPT ![l].seeds[k] = n],
           UNCHANGED <<wsVars, process, wanted, subs, wsSub, clock, history>>
    PROVE  IInv'
<1>1. UNCHANGED <<socket, ws, streams, timers, timerSet, phase, wanted, subs, wsSub,
                  clock, overlapped>>
  BY DEF wsVars, process, history
<1>2. Typed
  BY DEF IInv
<1>3. /\ load' \in [Load -> [pc : {"idle", "seeding"}, seeds : [Stream -> Int]]]
      /\ \A x \in Load : load'[x].pc = load[x].pc
  BY <1>2 DEF Typed
<1>4. Typed' /\ Going' = Going
  BY <1>1, <1>2, <1>3 DEF Typed, Going
<1>5. Alone => Alone'
  BY <1>1, <1>4 DEF Alone, OnlyWsListens, OneTimer, OneSubscription, LoadsAlone,
                    Unconnected, WantedStreams
<1>6. QED  BY <1>1, <1>4, <1>5 DEF IInv

(* All is seeded: the one connection, and the one subscription.            *)
LEMMA IInvFinish == ASSUME IInv, NEW l \in Load, Finish(l) PROVE IInv'
<1>1. /\ phase = "up" /\ load[l].pc = "seeding" /\ load' = [load EXCEPT ![l] = Idle]
      /\ UNCHANGED <<wanted, clock, phase, overlapped>>
  BY DEF Finish, process, history
<1>2. Typed
  BY DEF IInv
<1>3. Idle \in [pc : {"idle", "seeding"}, seeds : [Stream -> Int]] /\ Idle.pc = "idle"
  BY DEF Idle, Unasked
<1>4. load' \in [Load -> [pc : {"idle", "seeding"}, seeds : [Stream -> Int]]]
  BY <1>1, <1>2, <1>3 DEF Typed
<1>5. Alone => Going = {l} /\ Going' = {} /\ Unconnected
  BY <1>1, <1>2, <1>3 DEF Alone, LoadsAlone, Going, Typed
<1>6. CASE UNCHANGED <<wsVars, subs, wsSub>>
  <2>1. UNCHANGED <<socket, ws, streams, timers, timerSet>>
    BY <1>6 DEF wsVars
  <2>2. Typed'
    BY <1>1, <1>2, <1>4, <1>6, <2>1 DEF Typed
  <2>3. Alone => Alone'
    BY <1>1, <1>5, <1>6, <2>1
       DEF Alone, OnlyWsListens, OneTimer, OneSubscription, LoadsAlone, WantedStreams
  <2>4. QED  BY <1>1, <2>2, <2>3 DEF IInv
<1>7. CASE Subscribe(wanted) /\ subs' = subs + 1 /\ wsSub' = TRUE
  <2>1. /\ NameLeft /\ streams' = wanted /\ Connect(socket, wanted)
        /\ UNCHANGED <<timers, timerSet>>
    BY <1>7 DEF Subscribe
  <2>2. /\ socket' \in [Socket -> SocketRecord] /\ ws' \in Socket
        /\ socket'[ws'].listening /\ socket'[ws'].streams = wanted
        /\ \A s \in Socket : s # ws' => socket'[s] = socket[s]
    BY <1>2, <2>1, Connecting DEF Typed
  <2>3. Typed'
    BY <1>1, <1>2, <1>4, <1>7, <2>1, <2>2 DEF Typed
  <2>4. ASSUME Alone PROVE Alone'
    <3>1. /\ timers = 0 /\ subs = 0 /\ Going' = {}
          /\ \A s \in Socket : ~socket[s].listening
      BY <1>5, <2>4, SocketAssumption
         DEF Alone, Unconnected, OnlyWsListens, OneSubscription
    <3>2. OnlyWsListens' /\ WantedStreams'
      BY <1>1, <2>1, <2>2, <3>1 DEF OnlyWsListens, WantedStreams
    <3>3. OneTimer' /\ OneSubscription' /\ LoadsAlone'
      BY <1>1, <1>7, <2>1, <2>4, <3>1
         DEF Alone, OneTimer, OneSubscription, LoadsAlone
    <3>4. QED  BY <3>2, <3>3 DEF Alone
  <2>5. QED  BY <1>1, <2>3, <2>4 DEF IInv
<1>8. QED  BY <1>6, <1>7 DEF Finish

-----------------------------------------------------------------------------
(* What follows *)

LEMMA IInvNext == IInv /\ [Next]_vars => IInv'
<1> SUFFICES ASSUME IInv, [Next]_vars PROVE IInv'
  OBVIOUS
<1>1. CASE Start  BY <1>1, IInvStart
<1>2. CASE Network
  <2>1. phase = "up" /\ UNCHANGED <<process, callVars, clock, history>>
    BY <1>2 DEF Network
  <2>2. CASE TimerFires
    BY <2>1, <2>2, IInvTimerFires
  <2>3. ASSUME NEW s \in Socket, SocketEvent(s) PROVE IInv'
    BY <2>1, <2>3, IInvOpens, IInvCloses DEF SocketEvent, Drops, Refused, ClosingEnds
  <2>4. QED  BY <1>2, <2>2, <2>3 DEF Network
<1>3. CASE \E k \in Stream : Kline(k)  BY <1>3, IInvKline
<1>4. CASE \E l \in Load, keys \in Wants : Reinitialize(l, keys)
  BY <1>4, IInvReinitialize
<1>5. ASSUME NEW l \in Load, NEW k \in Stream, SeedAnswered(l, k) \/ SeedDone(l, k)
      PROVE  IInv'
  <2>1. UNCHANGED <<wsVars, process, wanted, subs, wsSub, clock, history>>
    BY <1>5 DEF SeedAnswered, SeedDone, budget
  <2>2. clock \in Int /\ Unasked \in Int
    BY DEF IInv, Typed, Unasked
  <2>3. \/ load' = [load EXCEPT ![l].seeds[k] = clock]
        \/ load' = [load EXCEPT ![l].seeds[k] = Unasked]
    BY <1>5 DEF SeedAnswered, SeedDone
  <2>4. CASE load' = [load EXCEPT ![l].seeds[k] = clock]
    BY <2>1, <2>2, <2>4, IInvSeeding
  <2>5. CASE load' = [load EXCEPT ![l].seeds[k] = Unasked]
    BY <2>1, <2>2, <2>5, IInvSeeding
  <2>6. QED  BY <2>3, <2>4, <2>5
<1>6. CASE \E l \in Load : Finish(l)  BY <1>6, IInvFinish
<1>7. CASE \E s \in Socket : Message(s)  BY <1>7, IInvMessage
<1>8. CASE UNCHANGED vars
  BY <1>8 DEF vars, wsVars, process, callVars, history, IInv, Typed, Alone,
              OnlyWsListens, OneTimer, OneSubscription, LoadsAlone, Going, Unconnected,
              WantedStreams
<1>9. QED
  BY <1>1, <1>2, <1>3, <1>4, <1>5, <1>6, <1>7, <1>8 DEF Next

(* data-provider.service.ts:72: while reloads do not overlap, a tick can   *)
(* reach the engine by one path only, and the socket carries the streams   *)
(* of the latest reload.                                                   *)
THEOREM OnePathAtMost == Spec => []OnePath
<1>1. IInv => OnePath
  <2> SUFFICES ASSUME Typed, Alone
               PROVE  /\ Cardinality(Listening) + timers <= 1
                      /\ subs <= 1
                      /\ \A s \in Listening : socket[s].streams = wanted
    BY DEF IInv, OnePath
  <2>1. Cardinality(Listening) + timers <= 1
    <3>1. CASE ws = NoSocket
      <4>1. Listening = {}
        BY <3>1, SocketAssumption DEF Alone, OnlyWsListens, Listening
      <4>2. Cardinality(Listening) = 0 /\ timers <= 1
        BY <4>1, FS_EmptySet DEF Alone, OneTimer
      <4>3. QED  BY <4>2 DEF Typed
    <3>2. CASE ws # NoSocket
      <4>1. Listening = {ws} /\ timers = 0
        BY <3>2 DEF Alone, OnlyWsListens, Listening, Typed
      <4>2. Cardinality({ws}) = 1
        BY FS_Singleton
      <4>3. Cardinality(Listening) = 1
        BY <4>1, <4>2, Zenon
      <4>4. QED  BY <4>1, <4>3
    <3>3. QED  BY <3>1, <3>2
  <2>2. subs <= 1
    BY DEF Alone, OneSubscription
  <2>3. \A s \in Listening : socket[s].streams = wanted
    BY SocketAssumption DEF Alone, OnlyWsListens, WantedStreams, Listening
  <2>4. QED  BY <2>1, <2>2, <2>3
<1>2. QED  BY <1>1, IInvInit, IInvNext, PTL DEF Spec

-----------------------------------------------------------------------------
(* Buffers *)

LEMMA Moments ==
    ASSUME NEW k \in Stream, NEW t \in Nat
    PROVE  CandleAt(k, t) \in Nat /\ LastTickOf(k, t) \in Nat
<1>1. Duration[k] \in Nat /\ Duration[k] > 0
  BY MarketAssumption
<1>2. \A d \in Nat \ {0} : t \div d \in Nat
  OBVIOUS
<1>3. \A d \in Nat \ {0} : t * d \in Nat
  OBVIOUS
<1>4. QED  BY <1>1, <1>2, <1>3 DEF CandleAt, LastTickOf

LEMMA TickOK ==
    ASSUME NEW k \in Stream, NEW t \in Nat
    PROVE  Tick(k, t) \in Candle /\ ~CutShort(k, Tick(k, t))
BY Moments DEF Tick, Candle, CutShort

(* A history is a buffer, whose last candle alone may be cut short.        *)
LEMMA HistoryOK ==
    ASSUME NEW k \in Stream, NEW t \in Nat
    PROVE  LET h == History(k, t, Required) IN BufferOK(k, h) /\ Len(h) > 0
<1> DEFINE last == CandleAt(k, t)
           n == IF last + 1 < Required THEN last + 1 ELSE Required
           h == [i \in 1..n |-> [timestamp |-> last - n + i, isClosed |-> TRUE,
                    close |-> IF last - n + i = last THEN t
                              ELSE LastTickOf(k, last - n + i)]]
<1>1. History(k, t, Required) = h
  BY DEF History
<1>2. last \in Nat /\ n \in Nat /\ n > 0 /\ n <= last + 1
  BY Moments, ProviderAssumption
<1> HIDE DEF last, n
<1>3. ASSUME NEW i \in 1..n
      PROVE  h[i] \in Candle /\ h[i].timestamp = last - n + i /\ (CutShort(k, h[i]) => i = n)
  <2>1. last - n + i \in Nat /\ (last - n + i = last => i = n)
    BY <1>2, <1>3
  <2>2. LastTickOf(k, last - n + i) \in Nat
    BY <2>1, Moments
  <2>3. QED  BY <1>3, <2>1, <2>2 DEF Candle, CutShort
<1>4. DOMAIN h = 1..n /\ h = [i \in 1..n |-> h[i]]
  OBVIOUS
<1> HIDE DEF h
<1>5. h \in Seq(Candle) /\ Len(h) = n
  <2>1. h \in [1..n -> Candle]
    BY <1>3, <1>4
  <2>2. QED  BY <1>2, <2>1
<1>6. Sorted(h) /\ OneCutShort(k, h)
  BY <1>2, <1>3, <1>5 DEF Sorted, OneCutShort
<1>7. QED  BY <1>1, <1>2, <1>5, <1>6 DEF BufferOK, h

LEMMA BufferFacts ==
    ASSUME NEW b \in Seq(Candle)
    PROVE  Len(b) \in Nat /\ \A i \in 1..Len(b) : b[i] \in Candle /\ b[i].timestamp \in Nat
<1>1. \A c \in Candle : c.timestamp \in Nat
  BY DEF Candle
<1>2. QED  BY <1>1

LEMMA MergedOK ==
    ASSUME NEW k \in Stream, NEW b, BufferOK(k, b), NEW c \in Candle, ~CutShort(k, c)
    PROVE  BufferOK(k, Merged(b, c))
<1>1. /\ b \in Seq(Candle) /\ Len(b) \in Nat
      /\ \A i \in 1..Len(b) : b[i].timestamp \in Nat
      /\ c.timestamp \in Nat /\ Sorted(b) /\ OneCutShort(k, b)
  BY BufferFacts DEF BufferOK, Candle
<1>2. CASE b = <<>> \/ c.timestamp > b[Len(b)].timestamp
  <2> DEFINE m == Append(b, c)
  <2>1. /\ m \in Seq(Candle) /\ Len(m) = Len(b) + 1 /\ m[Len(b) + 1] = c
        /\ \A i \in 1..Len(b) : m[i] = b[i]
    BY <1>1
  <2>2. Merged(b, c) = m
    BY <1>2 DEF Merged
  <2> HIDE DEF m
  <2>3. \A i \in 1..Len(b) : b[i].timestamp < c.timestamp
    BY <1>1, <1>2 DEF Sorted
  <2>4. \A i \in 1..Len(m) : i = Len(b) + 1 \/ i \in 1..Len(b)
    BY <1>1, <2>1
  <2>5. Sorted(m)
    <3>1. ASSUME NEW i \in 1..Len(m), NEW j \in 1..Len(m), i < j
          PROVE  m[i].timestamp < m[j].timestamp
      <4>1. i \in 1..Len(b) /\ m[i] = b[i]
        BY <1>1, <2>1, <3>1
      <4>2. CASE j = Len(b) + 1
        BY <2>1, <2>3, <4>1, <4>2
      <4>3. CASE j \in 1..Len(b)
        BY <1>1, <2>1, <3>1, <4>1, <4>3 DEF Sorted
      <4>4. QED  BY <2>4, <4>2, <4>3
    <3>2. QED  BY <3>1 DEF Sorted
  <2>6. \A i \in 1..Len(m) : CutShort(k, m[i]) => i \in 1..Len(b) /\ CutShort(k, b[i])
    BY <2>1, <2>4
  <2>7. OneCutShort(k, m)
    BY <1>1, <2>6 DEF OneCutShort
  <2>8. QED  BY <2>1, <2>2, <2>5, <2>7 DEF BufferOK
<1>3. CASE b # <<>> /\ c.timestamp = b[Len(b)].timestamp
  <2> DEFINE m == [b EXCEPT ![Len(b)] = c]
  <2>1. /\ m \in Seq(Candle) /\ Len(m) = Len(b) /\ m[Len(b)] = c
        /\ \A i \in 1..Len(b) : i # Len(b) => m[i] = b[i]
    BY <1>1, <1>3
  <2>2. Merged(b, c) = m
    BY <1>1, <1>3 DEF Merged
  <2> HIDE DEF m
  <2>3. Sorted(m) /\ OneCutShort(k, m)
    BY <1>1, <1>3, <2>1 DEF BufferOK, Sorted, OneCutShort
  <2>4. QED  BY <2>1, <2>2, <2>3 DEF BufferOK
<1>4. QED  BY <1>2, <1>3 DEF Merged

(* The part that trimming leaves.                                          *)
LEMMA TrimmedPart ==
    ASSUME NEW b \in Seq(Candle)
    PROVE  LET n == IF Len(b) > MaxBuffer THEN Len(b) - MaxBuffer ELSE 0 IN
           /\ n \in 0..Len(b)
           /\ Trimmed(b) \in Seq(Candle) /\ Len(Trimmed(b)) = Len(b) - n
           /\ \A i \in 1..(Len(b) - n) : Trimmed(b)[i] = b[i + n]
BY MarketAssumption DEF Trimmed

LEMMA TrimmedOK ==
    ASSUME NEW k \in Stream, NEW b, BufferOK(k, b)
    PROVE  BufferOK(k, Trimmed(b))
<1> DEFINE n == IF Len(b) > MaxBuffer THEN Len(b) - MaxBuffer ELSE 0
           m == Trimmed(b)
<1>1. /\ n \in 0..Len(b) /\ Len(b) \in Nat /\ m \in Seq(Candle) /\ Len(m) = Len(b) - n
      /\ \A i \in 1..Len(m) : m[i] = b[i + n]
  BY TrimmedPart DEF BufferOK
<1> HIDE DEF n, m
<1>2. \A i \in 1..Len(m) : i + n \in 1..Len(b)
  BY <1>1
<1>3. Sorted(b) /\ OneCutShort(k, b)
  BY DEF BufferOK
<1>4. Sorted(m)
  <2>1. ASSUME NEW i \in 1..Len(m), NEW j \in 1..Len(m), i < j
        PROVE  m[i].timestamp < m[j].timestamp
    <3>1. i + n \in 1..Len(b) /\ j + n \in 1..Len(b) /\ i + n < j + n
      BY <1>1, <1>2, <2>1
    <3>2. b[i + n].timestamp < b[j + n].timestamp
      BY <1>3, <3>1 DEF Sorted
    <3>3. QED  BY <1>1, <2>1, <3>2
  <2>2. QED  BY <2>1 DEF Sorted
<1>5. OneCutShort(k, m)
  <2>1. ASSUME NEW i \in 1..Len(m), NEW j \in 1..Len(m), CutShort(k, m[i]), CutShort(k, m[j])
        PROVE  i = j
    <3>1. CutShort(k, b[i + n]) /\ CutShort(k, b[j + n])
      BY <1>1, <2>1
    <3>2. i + n = j + n
      BY <1>2, <1>3, <2>1, <3>1 DEF OneCutShort
    <3>3. QED  BY <1>1, <2>1, <3>2
  <2>2. QED  BY <2>1 DEF OneCutShort
<1>6. QED  BY <1>1, <1>4, <1>5 DEF BufferOK, m

-----------------------------------------------------------------------------
(* A buffer as a book *)

LEMMA ElementsOf ==
    ASSUME NEW b \in Seq(Candle) PROVE ToSet(b) = {b[i] : i \in 1..Len(b)}
BY DEF ToSet

(* A list by moment is ordered both ways.                                  *)
LEMMA Ordered ==
    ASSUME NEW k \in Stream, NEW b, BufferOK(k, b), NEW i \in 1..Len(b), NEW j \in 1..Len(b)
    PROVE  /\ b[i].timestamp < b[j].timestamp <=> i < j
           /\ b[i].timestamp = b[j].timestamp => i = j
<1>1. b[i].timestamp \in Nat /\ b[j].timestamp \in Nat /\ i \in Nat /\ j \in Nat
  BY BufferFacts DEF BufferOK
<1>2. /\ i < j => b[i].timestamp < b[j].timestamp
      /\ j < i => b[j].timestamp < b[i].timestamp
  BY DEF BufferOK, Sorted
<1>3. QED  BY <1>1, <1>2

LEMMA BookCounts == ASSUME NEW S PROVE Book!Cardinality(S) = Cardinality(S)
BY DEF Book!Cardinality, Cardinality

LEMMA MergedSet ==
    ASSUME NEW k \in Stream, NEW b, BufferOK(k, b), NEW c \in Candle
    PROVE  ToSet(Merged(b, c)) =
               IF Book!IsNewest(c, ToSet(b))
               THEN {d \in ToSet(b) : d.timestamp # c.timestamp} \cup {c} ELSE ToSet(b)
<1>1. /\ b \in Seq(Candle) /\ Len(b) \in Nat /\ c.timestamp \in Nat
      /\ \A i \in 1..Len(b) : b[i] \in Candle /\ b[i].timestamp \in Nat
      /\ Sorted(b) /\ ToSet(b) = {b[i] : i \in 1..Len(b)}
  <2>1. c.timestamp \in Nat
    BY DEF Candle
  <2>2. QED  BY <2>1, BufferFacts, ElementsOf DEF BufferOK
<1>2. Book!IsNewest(c, ToSet(b)) <=> \A i \in 1..Len(b) : b[i].timestamp <= c.timestamp
  BY <1>1 DEF Book!IsNewest
<1>3. \A i \in 1..Len(b) : i # Len(b) => b[i].timestamp < b[Len(b)].timestamp
  BY <1>1 DEF Sorted
<1>4. CASE b = <<>> \/ c.timestamp > b[Len(b)].timestamp
  <2> DEFINE m == Append(b, c)
  <2>1. /\ m \in Seq(Candle) /\ Len(m) = Len(b) + 1 /\ m[Len(b) + 1] = c
        /\ \A i \in 1..Len(b) : m[i] = b[i] /\ b[i].timestamp < c.timestamp
    BY <1>1, <1>3, <1>4
  <2>2. Merged(b, c) = m
    BY <1>4 DEF Merged
  <2> HIDE DEF m
  <2>3. 1..Len(m) = 1..Len(b) \cup {Len(b) + 1} /\ ToSet(m) = {m[i] : i \in 1..Len(m)}
    BY <1>1, <2>1 DEF ToSet
  <2>4. ToSet(m) = ToSet(b) \cup {c}
    BY <1>1, <2>1, <2>3
  <2>5. \A d \in ToSet(b) : d.timestamp # c.timestamp
    BY <1>1, <2>1
  <2>6. Book!IsNewest(c, ToSet(b))
    BY <1>1, <1>2, <2>1
  <2>7. QED  BY <2>2, <2>4, <2>5, <2>6
<1>5. CASE b # <<>> /\ c.timestamp = b[Len(b)].timestamp
  <2> DEFINE m == [b EXCEPT ![Len(b)] = c]
  <2>1. /\ Len(b) \in 1..Len(b) /\ m \in Seq(Candle) /\ Len(m) = Len(b) /\ m[Len(b)] = c
        /\ \A i \in 1..Len(b) : i # Len(b) => m[i] = b[i] /\ b[i].timestamp < c.timestamp
    BY <1>1, <1>3, <1>5
  <2>2. Merged(b, c) = m
    BY <1>1, <1>5 DEF Merged
  <2> HIDE DEF m
  <2>3. Book!IsNewest(c, ToSet(b))
    BY <1>1, <1>2, <1>5, <2>1
  <2>4. ToSet(m) = {m[i] : i \in 1..Len(b)}
    BY <2>1 DEF ToSet
  <2>5. ASSUME NEW d
        PROVE  d \in ToSet(m) <=> (d \in ToSet(b) /\ d.timestamp # c.timestamp) \/ d = c
    <3>1. ASSUME d \in ToSet(m), d # c PROVE d \in ToSet(b) /\ d.timestamp # c.timestamp
      BY <1>1, <2>1, <2>4, <3>1
    <3>2. ASSUME d \in ToSet(b), d.timestamp # c.timestamp PROVE d \in ToSet(m)
      <4>1. PICK i \in 1..Len(b) : d = b[i]
        BY <1>1, <3>2
      <4>2. i # Len(b)
        BY <1>5, <3>2, <4>1
      <4>3. QED  BY <2>1, <2>4, <4>1, <4>2
    <3>3. c \in ToSet(m)
      BY <2>1, <2>4
    <3>4. QED  BY <3>1, <3>2, <3>3
  <2>6. QED  BY <2>2, <2>3, <2>5
<1>6. CASE b # <<>> /\ c.timestamp < b[Len(b)].timestamp
  <2>1. Len(b) \in 1..Len(b) /\ Merged(b, c) = b
    BY <1>1, <1>6 DEF Merged
  <2>2. ~Book!IsNewest(c, ToSet(b))
    BY <1>1, <1>2, <1>6, <2>1
  <2>3. QED  BY <2>1, <2>2
<1>7. b # <<>> => Len(b) \in 1..Len(b)
  BY <1>1
<1>8. QED  BY <1>1, <1>4, <1>5, <1>6, <1>7

(* A candle is kept if fewer than MaxBuffer come after it.                 *)
LEMMA LaterCandles ==
    ASSUME NEW k \in Stream, NEW b, BufferOK(k, b), NEW i \in 1..Len(b)
    PROVE  Cardinality({d \in ToSet(b) : d.timestamp > b[i].timestamp}) = Len(b) - i
<1> DEFINE L == {d \in ToSet(b) : d.timestamp > b[i].timestamp}
           I == (i + 1)..Len(b)
           f == [j \in I |-> b[j]]
<1>1. Len(b) \in Nat /\ ToSet(b) = {b[j] : j \in 1..Len(b)}
  BY BufferFacts, ElementsOf DEF BufferOK
<1>2. \A j, l \in 1..Len(b) : b[j].timestamp = b[l].timestamp => j = l
  BY Ordered
<1>3. \A j \in 1..Len(b) : b[j].timestamp > b[i].timestamp <=> j \in I
  <2>1. \A j \in 1..Len(b) : j > i <=> j \in I
    BY <1>1
  <2>2. \A j \in 1..Len(b) : b[i].timestamp < b[j].timestamp <=> i < j
    BY Ordered
  <2>3. \A j \in 1..Len(b) : b[j].timestamp \in Nat
    BY BufferFacts DEF BufferOK
  <2>4. QED  BY <1>1, <2>1, <2>2, <2>3
<1>4. f \in Bijection(I, L)
  <2>1. \A j \in I : j \in 1..Len(b) /\ f[j] = b[j] /\ b[j] \in L
    BY <1>1, <1>3
  <2>2. \A j, l \in I : f[j] = f[l] => j = l
    BY <1>2, <2>1
  <2>3. \A d \in L : \E j \in I : f[j] = d
    BY <1>1, <1>3
  <2>4. f \in [I -> L]
    BY <2>1
  <2>5. QED  BY <2>2, <2>3, <2>4, Fun_IsBij
<1>5. IsFiniteSet(I) /\ Cardinality(I) = Len(b) - i
  <2>1. i + 1 \in Int /\ Len(b) \in Int /\ i <= Len(b)
    BY <1>1
  <2>2. IsFiniteSet(I) /\ Cardinality(I) = IF i + 1 > Len(b) THEN 0 ELSE Len(b) - (i + 1) + 1
    BY <2>1, FS_Interval
  <2>3. QED  BY <2>1, <2>2
<1>6. ExistsBijection(I, L)
  BY <1>4 DEF ExistsBijection
<1> HIDE DEF I, L
<1>7. Cardinality(L) = Cardinality(I)
  BY <1>5, <1>6, FS_Bijection
<1>8. QED  BY <1>5, <1>7 DEF L

LEMMA TrimmedSet ==
    ASSUME NEW k \in Stream, NEW b, BufferOK(k, b)
    PROVE  ToSet(Trimmed(b)) = Book!Kept(ToSet(b))
<1> DEFINE n == IF Len(b) > MaxBuffer THEN Len(b) - MaxBuffer ELSE 0
           m == Trimmed(b)
<1>1. /\ n \in 0..Len(b) /\ Len(b) \in Nat /\ Len(m) = Len(b) - n /\ m \in Seq(Candle)
      /\ \A i \in 1..Len(m) : m[i] = b[i + n]
      /\ \A i \in 1..Len(b) : Len(b) - i < MaxBuffer <=> i > n
  BY TrimmedPart, MarketAssumption DEF BufferOK
<1> HIDE DEF n, m
<1>2. ToSet(m) = {m[i] : i \in 1..Len(m)} /\ ToSet(b) = {b[i] : i \in 1..Len(b)}
  BY <1>1, ElementsOf DEF BufferOK
<1>3. ASSUME NEW i \in 1..Len(b) PROVE b[i] \in Book!Kept(ToSet(b)) <=> i > n
  <2> DEFINE L == {d \in ToSet(b) : d.timestamp > b[i].timestamp}
  <2>1. b[i] \in Book!Kept(ToSet(b)) <=> Book!Cardinality(L) < MaxBuffer
    BY <1>2 DEF Book!Kept
  <2>2. Book!Cardinality(L) = Cardinality(L) /\ Cardinality(L) = Len(b) - i
    BY BookCounts, LaterCandles
  <2> HIDE DEF L
  <2>3. QED  BY <1>1, <2>1, <2>2
<1>4. ASSUME NEW d \in ToSet(m) PROVE d \in Book!Kept(ToSet(b))
  <2>1. PICK i \in 1..Len(m) : d = b[i + n]
    BY <1>1, <1>2
  <2>2. i + n \in 1..Len(b) /\ i + n > n
    BY <1>1
  <2>3. QED  BY <1>3, <2>1, <2>2
<1>5. ASSUME NEW d \in Book!Kept(ToSet(b)) PROVE d \in ToSet(m)
  <2>1. PICK i \in 1..Len(b) : d = b[i]
    BY <1>2 DEF Book!Kept
  <2>2. i > n
    BY <1>3, <2>1
  <2>3. i - n \in 1..Len(m) /\ m[i - n] = b[i]
    BY <1>1, <2>2
  <2>4. QED  BY <1>2, <2>1, <2>3
<1>6. QED  BY <1>4, <1>5 DEF m

LEMMA HistorySet ==
    ASSUME NEW k \in Stream, NEW b, BufferOK(k, b), Len(b) > 0
    PROVE  b[Len(b)] \in ToSet(b) /\ Book!IsNewest(b[Len(b)], ToSet(b))
<1>1. /\ Len(b) \in 1..Len(b) /\ ToSet(b) = {b[j] : j \in 1..Len(b)}
      /\ \A j \in 1..Len(b) : b[j].timestamp \in Nat
  BY BufferFacts, ElementsOf DEF BufferOK
<1>2. ASSUME NEW j \in 1..Len(b) PROVE b[j].timestamp <= b[Len(b)].timestamp
  <2>1. j < Len(b) \/ j = Len(b)
    BY <1>1
  <2>2. j < Len(b) => b[j].timestamp < b[Len(b)].timestamp
    BY <1>1, Ordered
  <2>3. QED  BY <1>1, <2>1, <2>2
<1>3. QED  BY <1>1, <1>2 DEF Book!IsNewest

-----------------------------------------------------------------------------
(* What is heard *)

MessageRecord == [stream : Stream, at : Nat]

LEMMA FeedTyping ==
    ASSUME IInv
    PROVE  /\ clock \in Nat /\ MaxClock \in Nat /\ Socket = DOMAIN socket
           /\ \A s \in Socket : /\ socket[s] \in SocketRecord
                                /\ socket[s].wire \in Seq(MessageRecord)
                                /\ Len(socket[s].wire) \in Nat
                                /\ \A i \in 1..Len(socket[s].wire) :
                                      socket[s].wire[i] \in MessageRecord
           /\ load \in [Load -> [pc : {"idle", "seeding"}, seeds : [Stream -> Int]]]
           /\ \A l \in Load, k \in Stream : load[l].seeds[k] \in Int
<1>1. Typed /\ MaxClock \in Nat
  BY ProviderAssumption DEF IInv
<1>2. ASSUME NEW s \in Socket
      PROVE  socket[s] \in SocketRecord /\ socket[s].wire \in Seq(MessageRecord)
  BY <1>1 DEF Typed, SocketRecord, MessageRecord
<1>3. ASSUME NEW s \in Socket
      PROVE  /\ Len(socket[s].wire) \in Nat
             /\ \A i \in 1..Len(socket[s].wire) : socket[s].wire[i] \in MessageRecord
  BY <1>2
<1>4. QED  BY <1>1, <1>2, <1>3 DEF Typed

(* A step after which no socket has more to come, or listens to what it    *)
(* did not, and no seeding is from the future.                             *)
NoMoreToCome ==
    /\ \A s \in Socket :
          \/ socket'[s].wire = <<>>
          \/ /\ socket'[s].wire = socket[s].wire
             /\ socket'[s].listening => socket[s].listening
    /\ \A l \in Load, k \in Stream : load'[l].seeds[k] <= clock
    /\ clock' = clock /\ seen' = seen /\ (overlapped => overlapped')

LEMMA HearsNoMore ==
    ASSUME FeedInv, IInv', NoMoreToCome, BuffersOK' PROVE FeedInv'
<1>1. Past'
  BY DEF FeedInv, Past, NoMoreToCome
<1>2. ASSUME NEW s \in Socket, ~overlapped', socket'[s].listening PROVE Coming(s)'
  <2>1. CASE socket'[s].wire = <<>>
    BY <2>1 DEF Coming
  <2>2. CASE socket'[s].wire = socket[s].wire /\ socket[s].listening
    BY <1>2, <2>2 DEF FeedInv, SeenOK, Listening, Coming, NoMoreToCome
  <2>3. QED  BY <1>2, <2>1, <2>2 DEF NoMoreToCome
<1>3. SeenOK'
  BY <1>2 DEF FeedInv, SeenOK, Listening, NoMoreToCome
<1>4. QED  BY <1>1, <1>3 DEF FeedInv

LEMMA BuffersKept == ASSUME BuffersOK, UNCHANGED buffer PROVE BuffersOK'
BY DEF BuffersOK

LEMMA ConnectHears ==
    ASSUME IInv, NEW w \in SUBSET Stream, NameLeft, Connect(socket, w)
    PROVE  \A s \in Socket : socket'[s].wire = <<>> \/ socket'[s] = socket[s]
<1> DEFINE d == [Free EXCEPT !.state = "connecting", !.listening = TRUE, !.streams = w]
<1>1. PICK s \in Socket : socket' = [socket EXCEPT ![s] = d]
  BY DEF Connect, NameLeft
<1>2. d.wire = <<>>
  BY DEF Free
<1> HIDE DEF d
<1>3. QED  BY <1>1, <1>2, FeedTyping

LEMMA DisconnectHears ==
    ASSUME IInv, Disconnect
    PROVE  \A s \in Socket : /\ socket'[s].wire = socket[s].wire
                             /\ socket'[s].listening => socket[s].listening
<1> DEFINE C(r) == [r EXCEPT !.state = "closing", !.listening = FALSE]
<1>1. socket' = [s \in Socket |-> IF s = ws THEN C(socket[s]) ELSE socket[s]]
  <2>1. socket' = Disconnected
    BY DEF Disconnect
  <2>2. QED  BY <2>1, Zenon DEF Disconnected
<1>2. \A s \in Socket : C(socket[s]).wire = socket[s].wire /\ ~C(socket[s]).listening
  BY FeedTyping DEF SocketRecord
<1> HIDE DEF C
<1>3. QED  BY <1>1, <1>2

LEMMA InitializeHears ==
    ASSUME FeedInv, NEW l \in Load, NEW keys \in Wants, Initialize(l, keys)
    PROVE  \A x \in Load, k \in Stream : load'[x].seeds[k] <= clock
<1> DEFINE f == [k \in Stream |-> IF k \in keys THEN Asked ELSE Unasked]
           d == [pc |-> "seeding", seeds |-> f]
<1>1. load' = [load EXCEPT ![l] = d] /\ d.seeds = f
  BY DEF Initialize
<1>2. \A k \in Stream : f[k] <= clock
  BY FeedTyping DEF Asked, Unasked, FeedInv
<1> HIDE DEF f, d
<1>3. QED  BY <1>1, <1>2, FeedTyping DEF FeedInv, Past

LEMMA HearsStart == ASSUME FeedInv, IInv', Start PROVE FeedInv'
<1>1. /\ UNCHANGED <<buffer, socket, clock, seen, overlapped>>
      /\ \/ load' = load
         \/ \E l \in Load, keys \in Wants : Initialize(l, keys)
  BY DEF Start, marketVars, wsVars, history, callVars
<1>2. \A x \in Load, k \in Stream : load'[x].seeds[k] <= clock
  BY <1>1, InitializeHears DEF FeedInv, Past
<1>3. NoMoreToCome
  BY <1>1, <1>2 DEF NoMoreToCome
<1>4. QED  BY <1>1, <1>3, BuffersKept, HearsNoMore DEF FeedInv

LEMMA HearsReinitialize ==
    ASSUME FeedInv, IInv', NEW l \in Load, NEW keys \in Wants, Reinitialize(l, keys)
    PROVE  FeedInv'
<1>1. /\ UNCHANGED <<buffer, clock, seen>> /\ (overlapped => overlapped')
      /\ Disconnect /\ Initialize(l, keys)
  BY DEF Reinitialize, marketVars
<1>2. NoMoreToCome
  BY <1>1, DisconnectHears, InitializeHears DEF FeedInv, NoMoreToCome
<1>3. QED  BY <1>1, <1>2, BuffersKept, HearsNoMore DEF FeedInv

LEMMA SeedsKept ==
    ASSUME FeedInv, NEW l \in Load, NEW k \in Stream, NEW n \in Int, n <= clock,
           load' = [load EXCEPT ![l].seeds[k] = n]
    PROVE  \A x \in Load, y \in Stream : load'[x].seeds[y] <= clock
BY FeedTyping DEF FeedInv, Past

LEMMA HearsSeeds ==
    ASSUME FeedInv, IInv', NEW l \in Load, NEW k \in Stream,
           SeedAnswered(l, k) \/ SeedDone(l, k)
    PROVE  FeedInv'
<1>1. UNCHANGED <<socket, clock, seen, overlapped>>
  BY DEF SeedAnswered, SeedDone, wsVars, history
<1>2. clock \in Int /\ Unasked \in Int /\ Unasked <= clock
  BY FeedTyping DEF Unasked, FeedInv
<1>3. \/ load' = [load EXCEPT ![l].seeds[k] = clock]
      \/ load' = [load EXCEPT ![l].seeds[k] = Unasked]
  BY DEF SeedAnswered, SeedDone
<1>4. \A x \in Load, y \in Stream : load'[x].seeds[y] <= clock
  BY <1>2, <1>3, SeedsKept
<1>5. BuffersOK'
  <2>1. CASE SeedAnswered(l, k)
    BY <2>1, BuffersKept DEF SeedAnswered, marketVars, FeedInv
  <2>2. CASE SeedDone(l, k)
    <3> DEFINE h == History(k, load[l].seeds[k], Required)
    <3>1. load[l].seeds[k] \in Nat /\ buffer' = [buffer EXCEPT ![k] = h]
      BY <2>2, FeedTyping DEF SeedDone, Seed, FeedInv
    <3>2. BufferOK(k, h)
      BY <3>1, HistoryOK
    <3> HIDE DEF h
    <3>3. QED  BY <3>1, <3>2 DEF FeedInv, BuffersOK, BufferOK
  <2>3. QED  BY <2>1, <2>2
<1>6. QED  BY <1>1, <1>4, <1>5, HearsNoMore DEF NoMoreToCome

LEMMA HearsFinish == ASSUME FeedInv, IInv', NEW l \in Load, Finish(l) PROVE FeedInv'
<1>1. /\ UNCHANGED <<buffer, clock, seen, overlapped>> /\ load' = [load EXCEPT ![l] = Idle]
      /\ socket' = socket \/ (NameLeft /\ Connect(socket, wanted))
  BY DEF Finish, Subscribe, marketVars, wsVars, history
<1>2. \A x \in Load, y \in Stream : load'[x].seeds[y] <= clock
  BY <1>1, FeedTyping DEF FeedInv, Past, Idle, Unasked
<1>3. wanted \in SUBSET Stream
  BY DEF FeedInv, IInv, Typed
<1>4. NoMoreToCome
  BY <1>1, <1>2, <1>3, ConnectHears DEF NoMoreToCome, FeedInv
<1>5. QED  BY <1>1, <1>4, BuffersKept, HearsNoMore DEF FeedInv

LEMMA HearsNetwork == ASSUME FeedInv, IInv', Network PROVE FeedInv'
<1>1. UNCHANGED <<buffer, clock, seen, overlapped, load>>
  BY DEF Network, marketVars, callVars, history
<1>2. ASSUME NEW s \in Socket, SocketEvent(s)
      PROVE  \A x \in Socket :
                \/ socket'[x].wire = <<>>
                \/ /\ socket'[x].wire = socket[x].wire
                   /\ socket'[x].listening => socket[x].listening
  <2>1. CASE Opens(s)
    BY <2>1, FeedTyping DEF Opens, FeedInv, SocketRecord
  <2>2. CASE Closes(s)
    <3>1. Free.wire = <<>>
      BY DEF Free
    <3>2. QED  BY <2>2, <3>1, FeedTyping DEF Closes, FeedInv
  <2>3. QED  BY <1>2, <2>1, <2>2 DEF SocketEvent, Drops, Refused, ClosingEnds
<1>3. CASE TimerFires
  <2>1. NameLeft /\ Connect(socket, streams) /\ streams \in SUBSET Stream
    BY <1>3 DEF TimerFires, FeedInv, IInv, Typed
  <2>2. NoMoreToCome
    BY <1>1, <2>1, ConnectHears DEF NoMoreToCome, FeedInv, Past
  <2>3. QED  BY <1>1, <2>2, BuffersKept, HearsNoMore DEF FeedInv
<1>4. CASE \E s \in Socket : SocketEvent(s)
  <2>1. NoMoreToCome
    BY <1>1, <1>2, <1>4 DEF NoMoreToCome, FeedInv, Past
  <2>2. QED  BY <1>1, <2>1, BuffersKept, HearsNoMore DEF FeedInv
<1>5. QED  BY <1>3, <1>4 DEF Network

(* A tick goes onto the wires, newer than all that is there.               *)
LEMMA HearsKline == ASSUME FeedInv, IInv', NEW k \in Stream, Kline(k) PROVE FeedInv'
<1> DEFINE m == [stream |-> k, at |-> clock]
<1>1. /\ clock < MaxClock /\ clock' = clock + 1
      /\ UNCHANGED <<buffer, load, seen, overlapped>>
      /\ socket' = [s \in Socket |->
             IF s \in Carriers(k)
             THEN [socket[s] EXCEPT !.wire = Append(socket[s].wire, m)] ELSE socket[s]]
  BY DEF Kline, marketVars, callVars, history
<1>2. clock \in Nat /\ MaxClock \in Nat /\ m.stream = k /\ m.at = clock
  BY FeedTyping DEF FeedInv
<1> HIDE DEF m
<1>3. ASSUME NEW s \in Socket
      PROVE  /\ socket'[s].listening = socket[s].listening
             /\ \/ socket'[s].wire = socket[s].wire
                \/ socket'[s].wire = Append(socket[s].wire, m)
  <2> DEFINE d == [socket[s] EXCEPT !.wire = Append(socket[s].wire, m)]
  <2>1. d.wire = Append(socket[s].wire, m) /\ d.listening = socket[s].listening
    BY FeedTyping DEF SocketRecord, FeedInv
  <2>2. socket'[s] = d \/ socket'[s] = socket[s]
    BY <1>1
  <2> HIDE DEF d
  <2>3. QED  BY <2>1, <2>2
<1>4. ASSUME NEW s \in Socket
      PROVE  LET w == socket[s].wire IN
             /\ Len(w) \in Nat /\ \A i \in 1..Len(w) : w[i].at \in Nat /\ w[i].at < clock
             /\ Len(Append(w, m)) = Len(w) + 1 /\ Append(w, m)[Len(w) + 1] = m
             /\ \A i \in 1..Len(w) : Append(w, m)[i] = w[i]
  BY FeedTyping DEF FeedInv, Past, MessageRecord
<1>5. Past'
  <2>1. ASSUME NEW s \in Socket, NEW i \in 1..Len(socket'[s].wire)
        PROVE  socket'[s].wire[i].at < clock + 1
    <3>1. CASE socket'[s].wire = socket[s].wire
      BY <1>2, <1>4, <2>1, <3>1
    <3>2. CASE socket'[s].wire = Append(socket[s].wire, m)
      <4>1. i = Len(socket[s].wire) + 1 \/ i \in 1..Len(socket[s].wire)
        BY <1>4, <2>1, <3>2
      <4>2. QED  BY <1>2, <1>4, <3>2, <4>1
    <3>3. QED  BY <1>3, <3>1, <3>2
  <2>2. \A l \in Load, y \in Stream : load'[l].seeds[y] <= clock'
    BY <1>1, <1>2, FeedTyping DEF FeedInv, Past
  <2>3. clock' <= MaxClock
    BY <1>1, <1>2
  <2>4. \A s \in Socket : \A i \in 1..Len(socket'[s].wire) : socket'[s].wire[i].at < clock'
    BY <1>1, <2>1
  <2>5. QED  BY <2>2, <2>3, <2>4 DEF Past
<1>6. ASSUME NEW s \in Socket, ~overlapped, socket[s].listening PROVE Coming(s)'
  <2> DEFINE w == socket[s].wire
  <2>1. Coming(s) /\ \A y \in Stream : seen[y] < clock
    BY <1>6 DEF FeedInv, SeenOK, Listening
  <2>2. CASE socket'[s].wire = w
    BY <1>1, <2>1, <2>2 DEF Coming
  <2>3. CASE socket'[s].wire = Append(w, m)
    <3>1. \A i \in 1..Len(socket'[s].wire) : i = Len(w) + 1 \/ i \in 1..Len(w)
      BY <1>4, <2>3
    <3>2. \A i \in 1..Len(socket'[s].wire) :
             socket'[s].wire[i].at > seen'[socket'[s].wire[i].stream]
      BY <1>1, <1>2, <1>4, <2>1, <2>3, <3>1 DEF Coming
    <3>3. ASSUME NEW i \in 1..Len(socket'[s].wire), NEW j \in 1..Len(socket'[s].wire), i < j
          PROVE  socket'[s].wire[i].at < socket'[s].wire[j].at
      <4>1. i \in 1..Len(w) /\ socket'[s].wire[i] = w[i]
        BY <1>4, <2>3, <3>1, <3>3
      <4>2. CASE j = Len(w) + 1
        BY <1>2, <1>4, <2>3, <4>1, <4>2
      <4>3. CASE j \in 1..Len(w)
        BY <1>4, <2>1, <2>3, <3>3, <4>1, <4>3 DEF Coming
      <4>4. QED  BY <3>1, <4>2, <4>3
    <3>4. QED  BY <3>2, <3>3 DEF Coming
  <2>4. QED  BY <1>3, <2>2, <2>3
<1>7. SeenOK'
  <2>1. seen' \in [Stream -> Int] /\ \A y \in Stream : seen'[y] < clock'
    BY <1>1, <1>2 DEF FeedInv, SeenOK
  <2>2. QED  BY <1>1, <1>3, <1>6, <2>1 DEF SeenOK, Listening
<1>8. QED  BY <1>1, <1>5, <1>7, BuffersKept DEF FeedInv

(* A message is taken from a wire; when reloads do not overlap, only the   *)
(* one socket that listens has more to come.                               *)
LEMMA HearsMessage == ASSUME FeedInv, IInv', NEW s \in Socket, Message(s) PROVE FeedInv'
<1> DEFINE w == socket[s].wire
           m == Head(w)
           d == [socket[s] EXCEPT !.wire = Tail(w)]
<1>1. /\ w # <<>> /\ socket' = [socket EXCEPT ![s] = d]
      /\ UNCHANGED <<clock, load, overlapped, ws>>
      /\ \/ /\ socket[s].listening /\ UpdateCandle(m.stream, Tick(m.stream, m.at))
            /\ seen' = [seen EXCEPT ![m.stream] = m.at]
         \/ UNCHANGED <<buffer, seen>>
  BY DEF Message, marketVars, callVars
<1>2. /\ w \in Seq(MessageRecord) /\ Len(w) \in Nat /\ m = w[1] /\ m \in MessageRecord
      /\ Len(w) > 0 /\ Len(Tail(w)) = Len(w) - 1
      /\ \A i \in 1..(Len(w) - 1) : Tail(w)[i] = w[i + 1]
      /\ \A i \in 1..Len(w) : w[i] \in MessageRecord /\ w[i].at < clock
  BY <1>1, FeedTyping DEF FeedInv, Past
<1>3. m.stream \in Stream /\ m.at \in Nat /\ m.at < clock
  BY <1>2 DEF MessageRecord
<1>4. d.wire = Tail(w) /\ d.listening = socket[s].listening
  BY FeedTyping DEF SocketRecord, FeedInv
<1>5. /\ socket'[s].wire = Tail(w) /\ socket'[s].listening = socket[s].listening
      /\ \A x \in Socket : x # s => socket'[x] = socket[x]
  BY <1>1, <1>4, FeedTyping DEF FeedInv
<1> HIDE DEF d
<1>6. Past'
  <2>1. clock' <= MaxClock /\ \A l \in Load, k \in Stream : load'[l].seeds[k] <= clock'
    BY <1>1 DEF FeedInv, Past
  <2>2. ASSUME NEW x \in Socket, NEW i \in 1..Len(socket'[x].wire)
        PROVE  socket'[x].wire[i].at < clock'
    <3>1. CASE x = s
      <4>1. i + 1 \in 1..Len(w) /\ socket'[x].wire[i] = w[i + 1]
        <5>1. socket'[x].wire = Tail(w) /\ i \in 1..(Len(w) - 1)
          BY <1>2, <1>5, <2>2, <3>1
        <5>2. i + 1 \in 1..Len(w) /\ Tail(w)[i] = w[i + 1]
          BY <1>2, <5>1
        <5>3. QED  BY <5>1, <5>2
      <4>2. QED  BY <1>1, <1>2, <4>1
    <3>2. CASE x # s
      BY <1>1, <1>5, <2>2, <3>2 DEF FeedInv, Past
    <3>3. QED  BY <3>1, <3>2
  <2>3. QED  BY <2>1, <2>2 DEF Past
<1>7. BuffersOK'
  <2>1. CASE UpdateCandle(m.stream, Tick(m.stream, m.at))
    <3> DEFINE c == Tick(m.stream, m.at)
               b == Trimmed(Merged(buffer[m.stream], c))
    <3>1. BufferOK(m.stream, b)
      BY <1>3, TickOK, MergedOK, TrimmedOK DEF FeedInv, BuffersOK
    <3>2. buffer' = [buffer EXCEPT ![m.stream] = b]
      BY <2>1 DEF UpdateCandle
    <3> HIDE DEF b
    <3>3. QED  BY <1>3, <3>1, <3>2 DEF FeedInv, BuffersOK, BufferOK
  <2>2. CASE UNCHANGED <<buffer, seen>>
    BY <2>2, BuffersKept DEF FeedInv
  <2>3. QED  BY <1>1, <2>1, <2>2
<1>8. /\ seen' \in [Stream -> Int] /\ \A k \in Stream : seen'[k] < clock
      /\ \A k \in Stream : seen'[k] = seen[k] \/ (k = m.stream /\ seen'[k] = m.at)
      /\ seen' # seen => socket[s].listening
  BY <1>1, <1>3 DEF FeedInv, SeenOK
<1>9. ASSUME NEW x \in Socket, ~overlapped, socket'[x].listening PROVE Coming(x)'
  <2>1. socket[x].listening /\ Coming(x)
    BY <1>5, <1>9 DEF FeedInv, SeenOK, Listening
  <2>2. CASE x = s
    <3>1. \A i \in 1..Len(Tail(w)) : i + 1 \in 1..Len(w) /\ i + 1 > 1 /\ Tail(w)[i] = w[i + 1]
      BY <1>2
    <3>2. \A i \in 1..Len(Tail(w)) : /\ Tail(w)[i].at > seen[Tail(w)[i].stream]
                                    /\ Tail(w)[i].at > m.at
                                    /\ Tail(w)[i].stream \in Stream
      BY <1>2, <2>1, <2>2, <3>1 DEF Coming, MessageRecord
    <3>3. \A i \in 1..Len(Tail(w)) : Tail(w)[i].at > seen'[Tail(w)[i].stream]
      BY <1>8, <3>2
    <3>4. \A i, j \in 1..Len(Tail(w)) : i < j => Tail(w)[i].at < Tail(w)[j].at
      BY <1>2, <2>1, <2>2, <3>1 DEF Coming
    <3>5. QED  BY <1>5, <2>2, <3>3, <3>4 DEF Coming
  <2>3. CASE x # s
    <3>1. ~socket[s].listening
      BY <1>9, <2>1, <2>3 DEF FeedInv, IInv, Alone, OnlyWsListens
    <3>2. QED  BY <1>5, <1>8, <2>1, <2>3, <3>1 DEF Coming
  <2>4. QED  BY <2>2, <2>3
<1>10. SeenOK'
  BY <1>1, <1>8, <1>9 DEF SeenOK, Listening
<1>11. QED  BY <1>6, <1>7, <1>10 DEF FeedInv

LEMMA FeedInvInit == Init => FeedInv
<1> SUFFICES ASSUME Init PROVE FeedInv
  OBVIOUS
<1>1. /\ socket = [s \in Socket |-> Free] /\ load = [l \in Load |-> Idle] /\ clock = 0
      /\ buffer = [k \in Stream |-> <<>>] /\ seen = [k \in Stream |-> Never]
  BY DEF Init, InitSocket, InitProvider, InitMarket
<1>2. IInv
  BY IInvInit
<1>3. Free.wire = <<>> /\ ~Free.listening
  BY FreeTyped DEF Free
<1>4. Past
  <2>1. \A l \in Load, k \in Stream : load[l].seeds[k] <= clock
    BY <1>1 DEF Idle, Unasked
  <2>2. QED  BY <1>1, <1>3, <2>1, ProviderAssumption DEF Past
<1>5. BuffersOK
  <2>1. <<>> \in Seq(Candle) /\ \A k \in Stream : BufferOK(k, <<>>)
    BY DEF BufferOK, Sorted, OneCutShort
  <2>2. QED  BY <1>1, <2>1 DEF BuffersOK
<1>6. SeenOK
  BY <1>1, <1>3 DEF SeenOK, Listening, Never
<1>7. QED  BY <1>2, <1>4, <1>5, <1>6 DEF FeedInv

LEMMA FeedInvNext == FeedInv /\ [Next]_vars => FeedInv'
<1> SUFFICES ASSUME FeedInv, [Next]_vars PROVE FeedInv'
  OBVIOUS
<1>1. IInv'
  BY IInvNext DEF FeedInv
<1>2. CASE Start \/ Network
  BY <1>1, <1>2, HearsStart, HearsNetwork
<1>3. CASE \E k \in Stream : Kline(k)
  BY <1>1, <1>3, HearsKline
<1>4. ASSUME NEW l \in Load,
             \/ \E keys \in Wants : Reinitialize(l, keys)
             \/ \E k \in Stream : SeedAnswered(l, k) \/ SeedDone(l, k)
             \/ Finish(l)
      PROVE  FeedInv'
  BY <1>1, <1>4, HearsReinitialize, HearsSeeds, HearsFinish
<1>5. CASE \E s \in Socket : Message(s)
  BY <1>1, <1>5, HearsMessage
<1>6. CASE UNCHANGED vars
  <2>1. UNCHANGED <<buffer, socket, load, clock, seen, overlapped>>
    BY <1>6 DEF vars, marketVars, wsVars, callVars, history
  <2>2. QED  BY <1>1, <2>1 DEF FeedInv, Past, BuffersOK, SeenOK, Listening, Coming
<1>7. QED  BY <1>2, <1>3, <1>4, <1>5, <1>6 DEF Next

THEOREM FeedInvariance == Spec => []FeedInv
BY FeedInvInit, FeedInvNext, PTL DEF Spec

(* market-data.service.ts:58 marks every seeded candle as closed, the one  *)
(* under way included; but of the candles that a buffer holds as closed,   *)
(* one at most lacks its final close, whatever seedings and connections    *)
(* overlapped, since what a tick closes is complete.                       *)
THEOREM OnePartialAtMost == Spec => []AtMostOnePartial
<1>1. FeedInv => AtMostOnePartial
  <2> SUFFICES ASSUME FeedInv, NEW k \in Stream PROVE Cardinality(Partial(k)) <= 1
    BY DEF AtMostOnePartial
  <2>1. \A i, j \in Partial(k) : i = j
    BY DEF Partial, FeedInv, BuffersOK, BufferOK, OneCutShort, CutShort
  <2>2. CASE Partial(k) = {}
    BY <2>2, FS_EmptySet
  <2>3. ASSUME NEW i \in Partial(k) PROVE Cardinality(Partial(k)) <= 1
    <3>1. Partial(k) = {i}
      BY <2>1, <2>3
    <3>2. Cardinality({i}) = 1
      BY FS_Singleton
    <3>3. Cardinality(Partial(k)) = 1
      BY <3>1, <3>2, Zenon
    <3>4. QED  BY <3>3
  <2>4. QED  BY <2>2, <2>3
<1>2. QED  BY <1>1, FeedInvariance, PTL

(* While reloads do not overlap, the engine sees the ticks of a stream in  *)
(* their order, over reconnections and reloads: a socket that is replaced  *)
(* has no listeners, and what it still carries is not heard.               *)
THEOREM TicksInOrder == Spec => SeenInOrder
<1>1. ASSUME FeedInv, Next, ~overlapped', NEW k \in Stream PROVE seen'[k] >= seen[k]
  <2>1. CASE seen' = seen
    BY <1>1, <2>1 DEF FeedInv, SeenOK
  <2>2. ASSUME NEW s \in Socket, Message(s), seen' # seen PROVE seen'[k] >= seen[k]
    <3> DEFINE m == Head(socket[s].wire)
    <3>1. /\ socket[s].listening /\ seen' = [seen EXCEPT ![m.stream] = m.at]
          /\ socket[s].wire # <<>> /\ overlapped' = overlapped
      BY <2>2 DEF Message
    <3>2. m = socket[s].wire[1] /\ 1 \in 1..Len(socket[s].wire) /\ m \in MessageRecord
      BY <3>1, FeedTyping, <1>1 DEF FeedInv
    <3>3. m.at > seen[m.stream]
      BY <1>1, <3>1, <3>2 DEF FeedInv, SeenOK, Listening, Coming
    <3> HIDE DEF m
    <3>4. m.at \in Nat /\ seen \in [Stream -> Int]
      BY <1>1, <3>2 DEF MessageRecord, FeedInv, SeenOK
    <3>5. QED  BY <3>1, <3>3, <3>4
  <2>3. seen' = seen \/ \E s \in Socket : Message(s)
    BY <1>1 DEF Next, Start, Network, Kline, Reinitialize, SeedAnswered, SeedDone, Finish,
                history
  <2>4. QED  BY <2>1, <2>2, <2>3
<1>2. FeedInv /\ [Next]_vars =>
          [~overlapped' => \A k \in Stream : seen'[k] >= seen[k]]_vars
  BY <1>1
<1>3. QED  BY <1>2, FeedInvariance, PTL DEF Spec, SeenInOrder

-----------------------------------------------------------------------------
(* The buffers implement the book *)

BookOf == [k \in Stream |-> ToSet(buffer[k])]

LEMMA BookInit == Init => Book!Init
<1>1. ToSet(<<>>) = {}
  BY DEF ToSet
<1>2. QED  BY <1>1 DEF Init, InitMarket, Book!Init, Never

(* What a stream's buffer becomes, its book becomes.                       *)
LEMMA BookChanges ==
    ASSUME BuffersOK, NEW k \in Stream, NEW b, buffer' = [buffer EXCEPT ![k] = b]
    PROVE  BookOf' = [BookOf EXCEPT ![k] = ToSet(b)]
BY DEF BuffersOK, BookOf

LEMMA BookSeeded ==
    ASSUME FeedInv, NEW l \in Load, NEW k \in Stream, SeedDone(l, k)
    PROVE  Book!Seeded(k)
<1> DEFINE t == load[l].seeds[k]
           h == History(k, t, Required)
<1>1. /\ buffer' = [buffer EXCEPT ![k] = h]
      /\ price' = [price EXCEPT ![SymbolOf[k]] = h[Len(h)].close]
  BY DEF SeedDone, Seed
<1>2. t \in 0..MaxClock
  BY FeedTyping DEF SeedDone, FeedInv, Past
<1>3. BufferOK(k, h) /\ Len(h) > 0
  BY <1>2, HistoryOK
<1>4. h[Len(h)] \in ToSet(h) /\ Book!IsNewest(h[Len(h)], ToSet(h))
  BY <1>3, HistorySet
<1>5. ToSet(h) \in {ToSet(History(k, x, Required)) : x \in 0..MaxClock}
  BY <1>2
<1> HIDE DEF t, h
<1>6. BookOf' = [BookOf EXCEPT ![k] = ToSet(h)]
  BY <1>1, BookChanges DEF FeedInv
<1>7. QED  BY <1>1, <1>4, <1>5, <1>6 DEF Book!Seeded, BookOf

LEMMA BookHeard ==
    ASSUME FeedInv, NEW k \in Stream, NEW t \in 0..MaxClock, UpdateCandle(k, Tick(k, t))
    PROVE  \E c \in {Tick(k, x) : x \in 0..MaxClock} : Book!Heard(k, c)
<1> DEFINE c == Tick(k, t)
           b == buffer[k]
           m == Merged(b, c)
<1>1. /\ buffer' = [buffer EXCEPT ![k] = Trimmed(m)]
      /\ price' = [price EXCEPT ![SymbolOf[k]] = c.close]
  BY DEF UpdateCandle
<1>2. BufferOK(k, b) /\ c \in Candle /\ ~CutShort(k, c)
  BY TickOK DEF FeedInv, BuffersOK
<1>3. c \in {Tick(k, x) : x \in 0..MaxClock}
  OBVIOUS
<1> HIDE DEF c
<1>4. BufferOK(k, m)
  BY <1>2, MergedOK
<1>5. ToSet(Trimmed(m)) = Book!Kept(ToSet(m))
  BY <1>4, TrimmedSet
<1>6. ToSet(m) = IF Book!IsNewest(c, ToSet(b))
                 THEN {d \in ToSet(b) : d.timestamp # c.timestamp} \cup {c} ELSE ToSet(b)
  BY <1>2, MergedSet
<1>7. BookOf' = [BookOf EXCEPT ![k] = ToSet(Trimmed(m))]
  BY <1>1, BookChanges DEF FeedInv
<1>8. BookOf[k] = ToSet(b)
  BY DEF BookOf
<1> HIDE DEF m, b
<1>9. Book!Heard(k, c)
  BY <1>1, <1>5, <1>6, <1>7, <1>8 DEF Book!Heard, BookOf
<1>10. QED  BY <1>3, <1>9

LEMMA BookNext ==
    ASSUME FeedInv, [Next]_vars PROVE [Book!Next]_<<BookOf, price>>
<1>1. CASE \E l \in Load, k \in Stream : SeedDone(l, k)
  BY <1>1, BookSeeded DEF Book!Next
<1>2. ASSUME NEW s \in Socket, Message(s) PROVE [Book!Next]_<<BookOf, price>>
  <2> DEFINE m == Head(socket[s].wire)
  <2>1. CASE UpdateCandle(m.stream, Tick(m.stream, m.at))
    <3>1. m = socket[s].wire[1] /\ 1 \in 1..Len(socket[s].wire)
      BY <1>2, FeedTyping DEF Message, FeedInv
    <3>2. m \in MessageRecord /\ m.at < clock /\ clock <= MaxClock
      BY <3>1, FeedTyping DEF FeedInv, Past
    <3> HIDE DEF m
    <3>3. m.stream \in Stream /\ m.at \in 0..MaxClock
      BY <3>2, FeedTyping DEF MessageRecord, FeedInv
    <3>4. QED  BY <2>1, <3>3, BookHeard DEF Book!Next
  <2>2. CASE UNCHANGED <<buffer, price>>
    BY <2>2 DEF BookOf
  <2>3. QED  BY <1>2, <2>1, <2>2 DEF Message, marketVars
<1>3. CASE UNCHANGED <<buffer, price>>
  BY <1>3 DEF BookOf
<1>4. \/ UNCHANGED <<buffer, price>>
      \/ \E l \in Load, k \in Stream : SeedDone(l, k)
      \/ \E s \in Socket : Message(s)
  BY DEF Next, Start, Network, Kline, Reinitialize, SeedAnswered, Finish, vars, marketVars
<1>5. QED  BY <1>1, <1>2, <1>3, <1>4

(* market-data.service.ts:83: the buffers, lists that are merged with a    *)
(* tick at their end and cut at their front, implement books of candles:   *)
(* one candle for a moment, the last that was heard, and the newest of     *)
(* them when there are too many.                                           *)
THEOREM BuffersAreBooks == Spec => BufferIsBook
<1>1. FeedInv /\ [Next]_vars => [Book!Next]_<<BookOf, price>>
  BY BookNext
<1>2. QED
  BY <1>1, BookInit, FeedInvariance, PTL DEF Spec, BufferIsBook, Book!Spec, BookOf

-----------------------------------------------------------------------------
(* What remains of the types *)

(* The variables that nothing above needs.                                 *)
Remaining ==
    /\ phase \in {"down", "up", "dead"} /\ mode \in Modes
    /\ price \in [Symbol -> Nat \cup {Never}] /\ timerSet \in BOOLEAN /\ wsSub \in BOOLEAN
    /\ attempts \in 0..MaxAttempts
    /\ broken \in [drops : 0..MaxDrops, refusals : 0..MaxRefusals]
    /\ reloads \in Nat /\ seedFaults \in Nat
    /\ seen \in [Stream -> Nat \cup {Never}] /\ overlapped \in BOOLEAN

LEMMA RemainingSocket ==
    ASSUME Remaining, NEW s \in Socket, SocketEvent(s)
    PROVE  timerSet' \in BOOLEAN /\ attempts' \in 0..MaxAttempts
           /\ broken' \in [drops : 0..MaxDrops, refusals : 0..MaxRefusals]
<1>0. /\ MaxAttempts \in Nat /\ MaxDrops \in Nat /\ MaxRefusals \in Nat
      /\ timerSet \in BOOLEAN /\ attempts \in 0..MaxAttempts
      /\ broken \in [drops : 0..MaxDrops, refusals : 0..MaxRefusals]
  BY SocketAssumption DEF Remaining
<1>1. CASE Opens(s)
  BY <1>0, <1>1 DEF Opens
<1>2. ASSUME Closes(s) PROVE timerSet' \in BOOLEAN /\ attempts' \in 0..MaxAttempts
  <2>1. CASE socket[s].listening
    <3>1. ScheduleReconnect
      BY <1>2, <2>1 DEF Closes
    <3>2. CASE attempts >= MaxAttempts
      BY <1>0, <3>1, <3>2 DEF ScheduleReconnect
    <3>3. CASE ~(attempts >= MaxAttempts)
      <4>1. attempts' = attempts + 1 /\ timerSet' = TRUE
        BY <3>1, <3>3 DEF ScheduleReconnect
      <4>2. attempts + 1 \in 0..MaxAttempts
        BY <1>0, <3>3
      <4>3. QED  BY <4>1, <4>2
    <3>4. QED  BY <3>2, <3>3
  <2>2. CASE ~socket[s].listening
    BY <1>0, <1>2, <2>2 DEF Closes
  <2>3. QED  BY <2>1, <2>2
<1>3. CASE Drops(s)
  BY <1>0, <1>2, <1>3 DEF Drops
<1>4. CASE Refused(s)
  BY <1>0, <1>2, <1>4 DEF Refused
<1>5. CASE ClosingEnds(s)
  BY <1>0, <1>2, <1>5 DEF ClosingEnds
<1>6. QED  BY <1>1, <1>3, <1>4, <1>5 DEF SocketEvent

LEMMA RemainingNext == FeedInv /\ Remaining /\ [Next]_vars => Remaining'
<1> SUFFICES ASSUME FeedInv, Remaining, [Next]_vars PROVE Remaining'
  OBVIOUS
<1> USE DEF Remaining
<1>1. CASE Start
  BY <1>1 DEF Start, Initialize, callVars, marketVars, wsVars, budget, history
<1>2. CASE Network
  <2>1. ASSUME NEW s \in Socket, SocketEvent(s) PROVE Remaining'
    BY <1>2, <2>1, RemainingSocket DEF Network, marketVars, process, callVars, budget, history
  <2>2. CASE TimerFires
    BY <1>2, <2>2 DEF Network, TimerFires, marketVars, process, callVars, budget, history
  <2>3. QED  BY <1>2, <2>1, <2>2 DEF Network
<1>3. CASE \E k \in Stream : Kline(k)
  BY <1>3 DEF Kline, marketVars, process, callVars, budget, history
<1>4. ASSUME NEW l \in Load, NEW keys \in Wants, Reinitialize(l, keys) PROVE Remaining'
  <2>1. phase' \in {"down", "up", "dead"} /\ timerSet' = FALSE /\ wsSub' = FALSE
        /\ reloads' = reloads + 1 /\ UNCHANGED <<price, mode, attempts, broken, seedFaults, seen>>
    BY <1>4 DEF Reinitialize, Disconnect, ClearTimer, Initialize, marketVars
  <2>2. overlapped' = TRUE \/ overlapped' = FALSE
    BY <1>4, Zenon DEF Reinitialize
  <2>3. reloads' \in Nat
    BY <2>1
  <2>4. QED  BY <2>1, <2>2, <2>3
<1>5. ASSUME NEW l \in Load, NEW k \in Stream, SeedAnswered(l, k) PROVE Remaining'
  BY <1>5 DEF SeedAnswered, marketVars, wsVars, process, history
<1>6. ASSUME NEW l \in Load, NEW k \in Stream, SeedDone(l, k) PROVE Remaining'
  <2> DEFINE h == History(k, load[l].seeds[k], Required)
  <2>1. load[l].seeds[k] \in Nat /\ price' = [price EXCEPT ![SymbolOf[k]] = h[Len(h)].close]
    BY <1>6, FeedTyping DEF SeedDone, Seed, FeedInv
  <2>2. h \in Seq(Candle) /\ Len(h) > 0
    BY <2>1, HistoryOK DEF BufferOK
  <2> HIDE DEF h
  <2>3. h[Len(h)] \in Candle
    BY <2>2
  <2>4. h[Len(h)].close \in Nat
    BY <2>3 DEF Candle
  <2>5. QED  BY <1>6, <2>1, <2>4 DEF SeedDone, wsVars, process, budget, history
<1>7. ASSUME NEW l \in Load, Finish(l) PROVE Remaining'
  BY <1>7 DEF Finish, Subscribe, Connect, wsVars, marketVars, process, budget, history
<1>8. ASSUME NEW s \in Socket, Message(s) PROVE Remaining'
  <2> DEFINE m == Head(socket[s].wire)
  <2>1. socket[s].wire \in Seq(MessageRecord) /\ socket[s].wire # <<>>
    BY <1>8, FeedTyping DEF Message, FeedInv
  <2>2. m \in MessageRecord
    BY <2>1
  <2>3. m.stream \in Stream /\ m.at \in Nat
    BY <2>2 DEF MessageRecord
  <2> HIDE DEF m
  <2>4. Tick(m.stream, m.at).close = m.at
    BY DEF Tick
  <2>5. \/ price' = [price EXCEPT ![SymbolOf[m.stream]] = m.at] /\ seen' = [seen EXCEPT ![m.stream] = m.at]
        \/ UNCHANGED <<price, seen>>
    BY <1>8, <2>4 DEF Message, UpdateCandle, marketVars, m
  <2>6. price' \in [Symbol -> Nat \cup {Never}] /\ seen' \in [Stream -> Nat \cup {Never}]
    BY <2>3, <2>5
  <2>7. QED  BY <1>8, <2>6 DEF Message, process, callVars, budget
<1>9. CASE UNCHANGED vars
  BY <1>9 DEF vars, marketVars, wsVars, process, callVars, budget, history
<1>10. QED
  BY <1>1, <1>2, <1>3, <1>4, <1>5, <1>6, <1>7, <1>8, <1>9 DEF Next

(* Every variable of the feed has its type: the attempts to reconnect      *)
(* never exceed MAX_RECONNECT_ATTEMPTS, and what a buffer holds are        *)
(* candles.                                                                *)
THEOREM FeedIsTyped == Spec => []FeedTypeOK
<1>1. Init => Remaining
  <2> SUFFICES ASSUME Init PROVE Remaining
    OBVIOUS
  <2>1. MaxAttempts \in Nat /\ MaxDrops \in Nat /\ MaxRefusals \in Nat
    BY SocketAssumption
  <2>2. broken = [drops |-> 0, refusals |-> 0] /\ attempts = 0
    BY DEF Init, InitSocket
  <2>3. /\ phase = "down" /\ mode \in Modes /\ reloads = 0 /\ seedFaults = 0
        /\ timerSet = FALSE /\ wsSub = FALSE /\ overlapped = FALSE
        /\ price = [y \in Symbol |-> Never] /\ seen = [k \in Stream |-> Never]
    BY DEF Init, InitMarket, InitSocket, InitProvider
  <2>4. /\ attempts \in 0..MaxAttempts /\ reloads \in Nat /\ seedFaults \in Nat
        /\ broken \in [drops : 0..MaxDrops, refusals : 0..MaxRefusals]
    BY <2>1, <2>2, <2>3
  <2>5. /\ price \in [Symbol -> Nat \cup {Never}]
        /\ seen \in [Stream -> Nat \cup {Never}]
    BY <2>3
  <2>6. QED  BY <2>3, <2>4, <2>5 DEF Remaining
<1>2. FeedInv /\ Remaining => FeedTypeOK
  BY DEF FeedInv, IInv, Typed, SocketRecord, BuffersOK, Remaining, FeedTypeOK
<1>3. QED  BY <1>1, <1>2, FeedInvariance, RemainingNext, PTL DEF Spec
=============================================================================
