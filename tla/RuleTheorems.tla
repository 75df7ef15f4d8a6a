---------------------------- MODULE RuleTheorems ----------------------------
(***************************************************************************)
(* The rule engine holds the rules that are active in the table, for any   *)
(* rules, requests and faults, if one reload ends before the next begins.  *)
(* RuleInvariant says why; here every action is shown to keep it.  Of the  *)
(* engine together with the order service: a rule fires once for each time *)
(* it was asked to be active, and an action of a rule has at most one      *)
(* order in the works.                                                     *)
(***************************************************************************)
EXTENDS RuleInvariant, DispatchProperties, SequenceTheorems,
        FiniteSetTheorems, TLAPS

-----------------------------------------------------------------------------
(* Sequences of calls *)

(* What is left of a sequence when one element is taken out.               *)
LEMMA RemoveAtProperties ==
    ASSUME NEW S, NEW s \in Seq(S), NEW i \in 1..Len(s)
    PROVE  /\ RemoveAt(s, i) \in Seq(S)
           /\ Len(RemoveAt(s, i)) = Len(s) - 1
           /\ \A j \in 1..(Len(s) - 1) :
                 RemoveAt(s, i)[j] = IF j < i THEN s[j] ELSE s[j + 1]
<1> DEFINE a == SubSeq(s, 1, i - 1)
           b == SubSeq(s, i + 1, Len(s))
<1>0. Len(s) \in Nat /\ i \in Nat
  BY LenProperties
<1>1. /\ a \in Seq(S) /\ Len(a) = i - 1
      /\ \A j \in 1..(i - 1) : a[j] = s[j]
  BY <1>0
<1>2. /\ b \in Seq(S) /\ Len(b) = Len(s) - i
      /\ \A j \in 1..(Len(s) - i) : b[j] = s[i + j]
  BY <1>0
<1>3. RemoveAt(s, i) = a \o b
  BY DEF RemoveAt
<1>4. a \o b \in Seq(S) /\ Len(a \o b) = Len(a) + Len(b)
  BY <1>1, <1>2
<1>5. \A j \in 1..(Len(a) + Len(b)) :
          (a \o b)[j] = IF j <= Len(a) THEN a[j] ELSE b[j - Len(a)]
  BY <1>1, <1>2, ConcatProperties
<1> HIDE DEF a, b
<1>6. QED  BY <1>0, <1>1, <1>2, <1>3, <1>4, <1>5

(* No query of t is new to s.                                              *)
NoNewQuery(s, t) ==
    /\ \A j \in Queries(t) : \E k \in Queries(s) : t[j] = s[k]
    /\ AtMostOneQuery(s) => AtMostOneQuery(t)

(* Taking a call out, the query above all, ...                             *)
LEMMA CallTaken ==
    ASSUME NEW s \in Seq(CallState), NEW i \in 1..Len(s)
    PROVE  /\ RemoveAt(s, i) \in Seq(CallState)
           /\ NoNewQuery(s, RemoveAt(s, i))
           /\ AtMostOneQuery(s) /\ i \in Queries(s) => Queries(RemoveAt(s, i)) = {}
           /\ \A k \in DOMAIN s \ {i} : \E j \in DOMAIN RemoveAt(s, i) :
                 RemoveAt(s, i)[j] = s[k]
<1> DEFINE t == RemoveAt(s, i)
           from(j) == IF j < i THEN j ELSE j + 1
<1>1. /\ t \in Seq(CallState) /\ Len(t) = Len(s) - 1
      /\ \A j \in 1..(Len(s) - 1) : t[j] = s[from(j)]
  BY RemoveAtProperties
<1>2. /\ Len(s) \in Nat /\ DOMAIN s = 1..Len(s) /\ i \in Nat
      /\ DOMAIN t = 1..(Len(s) - 1)
  BY <1>1, LenProperties
<1> HIDE DEF t
<1>3. \A j \in DOMAIN t : from(j) \in DOMAIN s /\ from(j) # i /\ t[j] = s[from(j)]
  BY <1>1, <1>2
<1>4. \A j, k \in DOMAIN t : from(j) = from(k) => j = k
  BY <1>2
<1>5. \A k \in DOMAIN s \ {i} : \E j \in DOMAIN t : k = from(j)
  <2> SUFFICES ASSUME NEW k \in DOMAIN s, k # i PROVE \E j \in DOMAIN t : k = from(j)
    OBVIOUS
  <2>1. CASE k < i  BY <1>2, <2>1
  <2>2. CASE k > i
    <3>1. k - 1 \in DOMAIN t /\ from(k - 1) = k  BY <1>2, <2>2
    <3>2. QED  BY <3>1
  <2>3. QED  BY <1>2, <2>1, <2>2
<1> HIDE DEF from
<1>6. \A j \in Queries(t) : from(j) \in Queries(s) \ {i} /\ t[j] = s[from(j)]
  BY <1>3 DEF Queries
<1>7. NoNewQuery(s, t)
  BY <1>4, <1>6 DEF NoNewQuery, AtMostOneQuery, Queries
<1>8. AtMostOneQuery(s) /\ i \in Queries(s) => Queries(t) = {}
  BY <1>6 DEF AtMostOneQuery
<1>9. \A k \in DOMAIN s \ {i} : \E j \in DOMAIN t : t[j] = s[k]
  BY <1>3, <1>5
<1>10. QED  BY <1>1, <1>7, <1>8, <1>9 DEF t

(* ... and sending calls that are not queries.                             *)
LEMMA CallsSent ==
    ASSUME NEW s \in Seq(CallState), NEW u \in Seq(CallState), Queries(u) = {}
    PROVE  /\ s \o u \in Seq(CallState)
           /\ NoNewQuery(s, s \o u)
           /\ \A k \in DOMAIN s : k \in DOMAIN (s \o u) /\ (s \o u)[k] = s[k]
           /\ \A k \in DOMAIN u : Len(s) + k \in DOMAIN (s \o u)
                                  /\ (s \o u)[Len(s) + k] = u[k]
<1> DEFINE t == s \o u
<1>1. /\ t \in Seq(CallState) /\ Len(t) = Len(s) + Len(u)
      /\ \A j \in 1..Len(t) : t[j] = IF j <= Len(s) THEN s[j] ELSE u[j - Len(s)]
  BY ConcatProperties
<1>2. /\ Len(s) \in Nat /\ Len(u) \in Nat
      /\ DOMAIN s = 1..Len(s) /\ DOMAIN u = 1..Len(u) /\ DOMAIN t = 1..Len(t)
  BY <1>1, LenProperties
<1> HIDE DEF t
<1>3. \A j \in DOMAIN t :
          \/ j \in DOMAIN s /\ t[j] = s[j]
          \/ j - Len(s) \in DOMAIN u /\ t[j] = u[j - Len(s)]
  BY <1>1, <1>2
<1>4. \A j \in Queries(t) : j \in Queries(s) /\ t[j] = s[j]
  BY <1>3 DEF Queries
<1>5. NoNewQuery(s, t)
  BY <1>4 DEF NoNewQuery, AtMostOneQuery
<1>6. \A k \in DOMAIN s : k \in DOMAIN t /\ t[k] = s[k]
  BY <1>1, <1>2
<1>7. \A k \in DOMAIN u : Len(s) + k \in DOMAIN t /\ t[Len(s) + k] = u[k]
  BY <1>1, <1>2
<1>8. QED  BY <1>1, <1>5, <1>6, <1>7 DEF t

(* The same of one call.                                                   *)
LEMMA CallSent ==
    ASSUME NEW s \in Seq(CallState), NEW c \in CallState, c.op # "find"
    PROVE  /\ Append(s, c) \in Seq(CallState)
           /\ NoNewQuery(s, Append(s, c))
           /\ \A k \in DOMAIN s : k \in DOMAIN Append(s, c) /\ Append(s, c)[k] = s[k]
<1> DEFINE u == <<c>>
<1>1. Append(s, c) = s \o u
  BY SMT
<1>2. u \in Seq(CallState) /\ Queries(u) = {}
  BY DEF Queries
<1> HIDE DEF u
<1>3. /\ s \o u \in Seq(CallState)
      /\ NoNewQuery(s, s \o u)
      /\ \A k \in DOMAIN s : k \in DOMAIN (s \o u) /\ (s \o u)[k] = s[k]
  BY <1>2, CallsSent
<1>4. QED  BY <1>1, <1>3, Zenon

(* What each kind of call carries.                                         *)
LEMMA CallsTyped ==
    ASSUME TypeOK, NEW i \in DOMAIN calls
    PROVE  /\ calls[i] \in CallState
           /\ calls[i].op = "find" => calls[i].load \in Load
           /\ calls[i].op # "find" => calls[i].rule \in Rule
           /\ calls[i].op \in {"set", "save"} =>
                 calls[i].on \in BOOLEAN /\ calls[i].asked \in BOOLEAN
           /\ calls[i].op = "get" => calls[i].then \in Ops \ {"create"}
<1>1. calls[i] \in CallState
  BY DEF TypeOK
<1>2. QED  BY <1>1 DEF CallState

-----------------------------------------------------------------------------
(* Loading rules *)

LEMMA IInvInit == Init => IInv
<1> SUFFICES ASSUME Init PROVE IInv
  OBVIOUS
<1>1. TypeOK
  <2>1. calls \in Seq(CallState) /\ loads \in [Load -> LoadState]
    BY DEF Init, LoadState, Ready
  <2>2. /\ rows \in [Rule -> {"absent", "off", "on"}] /\ due \subseteq Rule
        /\ cache \in [Rule -> {"absent", "armed", "spent"}]
    BY DEF Init, ActiveRules
  <2>3. /\ phase \in {"down", "starting", "up"} /\ mode \in Modes
        /\ subs \in Nat /\ faults \in [crash : Nat, db : Nat]
        /\ requests \subseteq Request
    BY DEF Init
  <2>4. timer \in BOOLEAN /\ wired \in BOOLEAN
    BY DEF Init
  <2>5. QED  BY <2>1, <2>2, <2>3, <2>4 DEF TypeOK
<1>2. Going = {} /\ Queries(calls) = {}
  BY DEF Init, Going, Ready, Queries
<1>3. OneLoad /\ OneQuery
  BY <1>2 DEF Init, OneLoad, OneQuery, AtMostOneQuery, Ready
<1>4. SubscribedOnce /\ SeedsTable /\ HeldIsActive /\ ActiveIsHeld
  BY DEF Init, SubscribedOnce, SeedsTable, HeldIsActive, ActiveIsHeld, Fresh, Ready
<1>5. QED  BY <1>1, <1>3, <1>4 DEF IInv

(* A process starts with nothing loaded and one load under way, or none.   *)
LEMMA IInvStart == ASSUME IInv, Start PROVE IInv'
<1>1. /\ phase = "down" /\ mode' \in Modes
      /\ UNCHANGED <<rows, requests, timer, cache, subs, wired, faults, due>>
  BY DEF Start
<1>2. /\ TypeOK /\ Going = {} /\ calls = <<>> /\ ~timer /\ ~wired
  BY <1>1 DEF IInv, OneLoad, SubscribedOnce
<1>3. CASE mode' = "idle"
  <2>1. phase' = "up" /\ UNCHANGED <<calls, loads>>
    BY <1>3 DEF Start
  <2>2. TypeOK' /\ Going' = {}
    BY <1>1, <1>2, <2>1 DEF TypeOK, Going
  <2>3. OneLoad' /\ OneQuery' /\ SeedsTable'
    BY <1>1, <1>2, <2>1, <2>2
       DEF IInv, OneLoad, OneQuery, AtMostOneQuery, Queries, SeedsTable, ActiveRules
  <2>4. SubscribedOnce' /\ HeldIsActive' /\ ActiveIsHeld'
    BY <1>1, <1>2, <1>3, <2>1
       DEF IInv, SubscribedOnce, HeldIsActive, ActiveIsHeld, Fresh
  <2>5. QED  BY <2>2, <2>3, <2>4 DEF IInv
<1>4. CASE mode' # "idle"
  <2>1. PICK l \in Load : /\ phase' = "starting"
                          /\ loads' = [loads EXCEPT ![l].pc = "read"]
                          /\ calls' = Append(calls, Find(l))
    BY <1>4 DEF Start
  <2>2. calls' = <<Find(l)>>
    BY <1>2, <2>1
  <2>3. /\ loads' \in [Load -> LoadState]
        /\ loads'[l].pc = "read" /\ \A k \in Load : k # l => loads'[k].pc = "idle"
    BY <1>2, <2>1 DEF TypeOK, Going, LoadState
  <2>4. Find(l) \in CallState /\ Find(l).op = "find" /\ Find(l).load = l
    BY DEF CallState, Find
  <2>5. TypeOK'
    BY <1>1, <1>2, <2>1, <2>2, <2>3, <2>4 DEF TypeOK
  <2>6. Queries(calls') = {1} /\ calls'[1] = Find(l)
    BY <2>2, <2>4 DEF Queries
  <2>7. Going' = {l}
    BY <2>3 DEF Going
  <2>8. OneLoad' /\ OneQuery' /\ SeedsTable'
    BY <1>4, <2>1, <2>3, <2>4, <2>6, <2>7
       DEF OneLoad, OneQuery, AtMostOneQuery, SeedsTable
  <2>9. SubscribedOnce' /\ HeldIsActive' /\ ActiveIsHeld'
    BY <1>1, <1>2, <2>1 DEF IInv, SubscribedOnce, HeldIsActive, ActiveIsHeld, Fresh
  <2>10. QED  BY <2>5, <2>8, <2>9 DEF IInv
<1>5. QED  BY <1>3, <1>4

(* A reload ends the subscription and asks for the table as it is now; in  *)
(* idle mode nothing happens.                                              *)
LEMMA IInvTimerFires ==
    ASSUME OverlapAllowed = FALSE, IInv, TimerFires PROVE IInv'
<1>1. /\ phase = "up" /\ timer /\ timer' = FALSE
      /\ UNCHANGED <<phase, mode, faults, rows, requests, cache, due>>
  BY DEF TimerFires, process
<1>2. TypeOK /\ SubscribedOnce
  BY DEF IInv
<1>3. CASE mode = "idle"
  <2>1. UNCHANGED <<calls, loads, subs, wired>>
    BY <1>3 DEF TimerFires
  <2>2. TypeOK' /\ Going' = Going /\ Going = {}
    BY <1>1, <1>2, <1>3, <2>1 DEF IInv, OneLoad, TypeOK, Going
  <2>3. OneLoad' /\ OneQuery' /\ SeedsTable'
    BY <1>1, <1>2, <1>3, <2>1, <2>2
       DEF IInv, OneLoad, OneQuery, AtMostOneQuery, Queries, SeedsTable, Going
  <2>4. SubscribedOnce' /\ HeldIsActive' /\ ActiveIsHeld'
    BY <1>1, <1>2, <1>3, <2>1, <2>2
       DEF IInv, SubscribedOnce, HeldIsActive, ActiveIsHeld, Fresh
  <2>5. QED  BY <2>2, <2>3, <2>4 DEF IInv
<1>4. CASE mode # "idle"
  <2>1. PICK l \in Load :
            /\ NoLoadGoing
            /\ subs' = Unwired /\ wired' = FALSE
            /\ loads' = [loads EXCEPT ![l].pc = "read"]
            /\ calls' = Append(calls, Find(l))
    BY <1>4 DEF TimerFires
  <2>2. Going = {} /\ Queries(calls) = {}
    <3>1. Going = {} /\ \A k \in Load : loads[k].pc = "idle"
      BY <2>1 DEF Going, NoLoadGoing
    <3>2. \A i \in Queries(calls) : calls[i].load \in Load
      BY <1>2, CallsTyped DEF Queries
    <3>3. QED  BY <3>1, <3>2 DEF IInv, OneQuery
  <2>3. /\ loads' \in [Load -> LoadState]
        /\ loads'[l].pc = "read" /\ \A k \in Load : k # l => loads'[k].pc = "idle"
    BY <1>2, <2>1 DEF TypeOK, NoLoadGoing, LoadState
  <2>4. Find(l) \in CallState /\ Find(l).op = "find" /\ Find(l).load = l
    BY DEF CallState, Find
  <2>5. /\ calls' \in Seq(CallState) /\ Queries(calls') = {Len(calls) + 1}
        /\ calls'[Len(calls) + 1] = Find(l)
    BY <1>2, <2>1, <2>2, <2>4 DEF TypeOK, Queries
  <2>6. subs' = 0
    BY <1>2, <2>1 DEF SubscribedOnce, Unwired
  <2>7. TypeOK' /\ Going' = {l}
    <3>1. timer' \in BOOLEAN /\ wired' \in BOOLEAN
      BY <1>1, <2>1
    <3>2. Going' = {l}
      BY <2>3 DEF Going
    <3>3. mode' = mode
      BY DEF TimerFires, process
    <3>4. QED  BY <1>1, <1>2, <2>3, <2>5, <2>6, <3>1, <3>2, <3>3 DEF TypeOK
  <2>8. OneLoad' /\ OneQuery' /\ SeedsTable'
    BY <1>1, <1>4, <2>3, <2>4, <2>5, <2>7
       DEF OneLoad, OneQuery, AtMostOneQuery, SeedsTable
  <2>9. SubscribedOnce' /\ HeldIsActive' /\ ActiveIsHeld'
    BY <2>1, <2>6, <2>7 DEF SubscribedOnce, HeldIsActive, ActiveIsHeld
  <2>10. QED  BY <2>7, <2>8, <2>9 DEF IInv
<1>5. QED  BY <1>3, <1>4

(* The query is answered: what is read is the table as it is.              *)
LEMMA IInvFindAnswered ==
    ASSUME IInv, NEW i \in 1..Len(calls), FindAnswered(i) PROVE IInv'
<1> DEFINE l == calls[i].load
<1>1. /\ TypeOK /\ OneLoad /\ OneQuery /\ SubscribedOnce
      /\ calls \in Seq(CallState) /\ i \in DOMAIN calls
  BY LenProperties DEF IInv, TypeOK
<1>2. /\ i \in Queries(calls) /\ l \in Load /\ loads[l].pc = "read"
  BY <1>1, CallsTyped DEF FindAnswered, OneQuery, Queries
<1>3. Going = {l} /\ ~wired /\ subs = 0
  BY <1>1, <1>2 DEF Going, OneLoad, SubscribedOnce
<1>4. /\ calls' \in Seq(CallState) /\ Queries(calls') = {}
      /\ UNCHANGED <<mode, rows, requests, timer, subs, wired, faults, due>>
  BY <1>1, <1>2, CallTaken DEF FindAnswered, OneQuery
<1>5. mode # "idle" /\ phase # "down"
  BY <1>1, <1>3 DEF OneLoad
<1>6. CASE ActiveRules = {}
  <2>1. /\ loads' = [loads EXCEPT ![l] = Ready]
        /\ cache' = [r \in Rule |-> "absent"] /\ phase' = "up"
    BY <1>6 DEF FindAnswered
  <2>2. loads' \in [Load -> LoadState] /\ \A k \in Load : loads'[k].pc = "idle"
    BY <1>1, <1>2, <1>3, <2>1 DEF TypeOK, LoadState, Ready, Going
  <2>3. TypeOK' /\ Going' = {} /\ ActiveRules' = {}
    BY <1>1, <1>4, <1>6, <2>1, <2>2 DEF TypeOK, Going, ActiveRules
  <2>4. OneLoad' /\ OneQuery' /\ SeedsTable' /\ SubscribedOnce'
    BY <1>1, <1>4, <2>1, <2>2, <2>3
       DEF OneLoad, OneQuery, AtMostOneQuery, SeedsTable, SubscribedOnce
  <2>5. HeldIsActive' /\ ActiveIsHeld'
    BY <1>3, <1>4, <2>1, <2>3 DEF HeldIsActive, ActiveIsHeld, ActiveRules
  <2>6. QED  BY <2>3, <2>4, <2>5 DEF IInv
<1>7. CASE ActiveRules # {}
  <2>1. /\ loads' = [loads EXCEPT ![l] = [pc |-> "seed", rules |-> ActiveRules]]
        /\ UNCHANGED <<cache, phase>>
    BY <1>7 DEF FindAnswered
  <2>2. /\ loads' \in [Load -> LoadState]
        /\ loads'[l].pc = "seed" /\ loads'[l].rules = ActiveRules
        /\ \A k \in Load : k # l => loads'[k].pc = "idle"
    BY <1>1, <1>2, <1>3, <2>1 DEF TypeOK, LoadState, Going, ActiveRules
  <2>3. TypeOK' /\ Going' = {l} /\ ActiveRules' = ActiveRules
    BY <1>1, <1>2, <1>4, <2>1, <2>2 DEF TypeOK, Going, ActiveRules
  <2>4. OneLoad' /\ OneQuery' /\ SeedsTable' /\ SubscribedOnce'
    BY <1>1, <1>3, <1>4, <1>5, <1>7, <2>1, <2>2, <2>3
       DEF OneLoad, OneQuery, AtMostOneQuery, SeedsTable, SubscribedOnce
  <2>5. HeldIsActive' /\ ActiveIsHeld'
    BY <2>3 DEF HeldIsActive, ActiveIsHeld
  <2>6. QED  BY <2>3, <2>4, <2>5 DEF IInv
<1>8. QED  BY <1>6, <1>7

(* The rules that were read become the engine's.                           *)
LEMMA IInvSeeded == ASSUME IInv, NEW l \in Load, Seeded(l) PROVE IInv'
<1>1. /\ TypeOK /\ OneLoad /\ OneQuery /\ SubscribedOnce /\ SeedsTable
      /\ loads[l].pc = "seed"
      /\ cache' = Loaded(loads[l].rules) /\ subs' = subs + 1 /\ wired' = TRUE
      /\ loads' = [loads EXCEPT ![l] = Ready] /\ phase' = "up"
      /\ UNCHANGED <<mode, rows, calls, requests, timer, faults, due>>
  BY DEF IInv, Seeded
<1>2. Going = {l} /\ subs = 0 /\ mode # "idle" /\ loads[l].rules # {}
  BY <1>1 DEF Going, OneLoad, SubscribedOnce
<1>3. loads' \in [Load -> LoadState] /\ \A k \in Load : loads'[k].pc = "idle"
  BY <1>1, <1>2 DEF TypeOK, LoadState, Ready, Going
<1>4. Going' = {} /\ ActiveRules' = ActiveRules
  BY <1>1, <1>3 DEF Going, ActiveRules
<1>5. cache' \in [Rule -> {"absent", "armed", "spent"}]
  BY <1>1 DEF Loaded
<1>6. TypeOK'
  <2>1. wired' \in BOOLEAN /\ subs' = 1
    BY <1>1, <1>2
  <2>2. QED  BY <1>1, <1>3, <1>5, <2>1 DEF TypeOK
<1>7. Queries(calls) = {}
  <2>1. \A i \in Queries(calls) : calls[i].load \in Load /\ loads[calls[i].load].pc = "read"
    BY <1>1, CallsTyped DEF OneQuery, Queries
  <2>2. QED  BY <1>1, <1>2, <2>1 DEF Going
<1>8. OneLoad' /\ OneQuery' /\ SeedsTable' /\ SubscribedOnce'
  BY <1>1, <1>2, <1>3, <1>4, <1>7
     DEF OneLoad, OneQuery, AtMostOneQuery, Queries, SeedsTable, SubscribedOnce
<1>9. ~timer => loads[l].rules = ActiveRules
  BY <1>1 DEF SeedsTable
<1>10. HeldIsActive' /\ ActiveIsHeld'
  BY <1>1, <1>2, <1>4, <1>9
     DEF HeldIsActive, ActiveIsHeld, Fresh, Loaded, ActiveRules
<1>11. QED  BY <1>6, <1>8, <1>10 DEF IInv

-----------------------------------------------------------------------------
(* Rules fire, and requests are served *)

(* What an action on a rule sends is typed, and asks for what it sets.     *)
LEMMA ActivationTyped ==
    ASSUME NEW r \in Rule, NEW j \in 1..Len(ActivationsOf[r])
    PROVE  /\ Len(ActivationsOf[r]) \in Nat
           /\ Activation(ActivationsOf[r][j]) \in CallState
           /\ Activation(ActivationsOf[r][j]).op = "set"
           /\ Asks(Activation(ActivationsOf[r][j]))
<1> DEFINE A == [type : {"activate", "deactivate"}, rule : Rule]
<1>1. ActivationsOf[r] \in Seq(A)
  BY RuleAssumption
<1> HIDE DEF A
<1>2. Len(ActivationsOf[r]) \in Nat /\ ActivationsOf[r][j] \in A
  BY <1>1, LenProperties, ElementOfSeq
<1>3. \A x \in A : /\ Activation(x) \in CallState
                   /\ Activation(x).op = "set" /\ Asks(Activation(x))
  BY DEF A, Activation, Set, CallState, Asks
<1>4. QED  BY <1>2, <1>3

(* What a firing rule sends is typed, no query, and begins with its own    *)
(* deactivation.                                                           *)
LEMMA FireCallsTyped ==
    ASSUME NEW r \in Rule
    PROVE  /\ FireCalls(r) \in Seq(CallState)
           /\ Queries(FireCalls(r)) = {}
           /\ 1 \in DOMAIN FireCalls(r) /\ IsWrite(FireCalls(r)[1])
           /\ FireCalls(r)[1] = Set(r, FALSE, FALSE)
           /\ \A j \in DOMAIN FireCalls(r) : Asks(FireCalls(r)[j])
<1> DEFINE n == Len(ActivationsOf[r])
           c == Set(r, FALSE, FALSE)
           a == ActionCalls(r)
           f == <<c>> \o a
<1>1. n \in Nat
  BY RuleAssumption, LenProperties
<1>2. a = [j \in 1..n |-> Activation(ActivationsOf[r][j])]
  BY DEF ActionCalls
<1>3. \A j \in 1..n : a[j] \in CallState /\ a[j].op = "set" /\ Asks(a[j])
  <2>1. ASSUME NEW j \in 1..n
        PROVE  a[j] \in CallState /\ a[j].op = "set" /\ Asks(a[j])
    <3>1. a[j] = Activation(ActivationsOf[r][j])
      BY <1>2
    <3>2. QED  BY <3>1, ActivationTyped
  <2>2. QED  BY <2>1
<1> HIDE DEF n, a
<1>4. a \in Seq(CallState) /\ Len(a) = n
  BY <1>1, <1>2, <1>3
<1>5. c \in CallState /\ c.op = "set" /\ Asks(c)
  BY DEF Set, CallState, Asks
<1> HIDE DEF c
<1>6. /\ f \in Seq(CallState) /\ Len(f) = 1 + n /\ f[1] = c
      /\ \A j \in 2..(1 + n) : f[j] = a[j - 1]
  BY <1>1, <1>4, <1>5
<1> HIDE DEF f
<1>7. DOMAIN f = 1..(1 + n) /\ 1 \in DOMAIN f
  BY <1>1, <1>6, LenProperties
<1>8. \A j \in DOMAIN f : f[j].op = "set" /\ Asks(f[j])
  <2>1. ASSUME NEW j \in DOMAIN f PROVE j = 1 \/ (j - 1 \in 1..n /\ f[j] = a[j - 1])
    BY <1>1, <1>6, <1>7
  <2>2. QED  BY <1>3, <1>5, <1>6, <2>1
<1>9. Queries(f) = {} /\ IsWrite(f[1])
  BY <1>7, <1>8 DEF Queries, IsWrite
<1>10. FireCalls(r) = f
  BY DEF FireCalls, f, c, a
<1>11. QED  BY <1>6, <1>7, <1>8, <1>9, <1>10, Zenon DEF c

(* A rule that has fired is active in the table until its deactivation.    *)
LEMMA IInvFire == ASSUME IInv, NEW r \in Rule, Fire(r) PROVE IInv'
<1>1. /\ phase = "up" /\ mode # "idle" /\ cache[r] = "armed"
      /\ cache' = [cache EXCEPT ![r] = "spent"]
      /\ calls' = calls \o FireCalls(r)
      /\ due' = due \ {r}
      /\ UNCHANGED <<phase, mode, faults, rows, requests, timer, loads, subs, wired>>
  BY DEF Fire, Trigger, process
<1>2. TypeOK /\ calls \in Seq(CallState)
  BY DEF IInv, TypeOK
<1>3. /\ calls' \in Seq(CallState) /\ NoNewQuery(calls, calls')
      /\ Len(calls) + 1 \in DOMAIN calls' /\ IsWrite(calls'[Len(calls) + 1])
  BY <1>1, <1>2, FireCallsTyped, CallsSent
<1>4. cache' \in [Rule -> {"absent", "armed", "spent"}]
  BY <1>1, <1>2 DEF TypeOK
<1>5. TypeOK' /\ Going' = Going /\ ActiveRules' = ActiveRules
  BY <1>1, <1>2, <1>3, <1>4 DEF TypeOK, Going, ActiveRules
<1>6. OneLoad' /\ SeedsTable' /\ SubscribedOnce'
  BY <1>1, <1>5 DEF IInv, OneLoad, SeedsTable, SubscribedOnce
<1>7. OneQuery'
  BY <1>1, <1>3 DEF IInv, OneQuery, NoNewQuery
<1>8. Deactivating'
  BY <1>3 DEF Deactivating
<1>9. HeldIsActive' /\ ActiveIsHeld'
  BY <1>1, <1>2, <1>5, <1>8 DEF IInv, HeldIsActive, ActiveIsHeld, Fresh, TypeOK
<1>10. QED  BY <1>5, <1>6, <1>7, <1>9 DEF IInv

(* A step that changes only what is under way, and drops no write.         *)
LEMMA IInvCallsChange ==
    ASSUME IInv, phase # "down",
           calls' \in Seq(CallState), NoNewQuery(calls, calls'),
           Deactivating => Deactivating', requests' \subseteq Request,
           UNCHANGED <<process, rows, timer, engine, due>>
    PROVE  IInv'
<1>1. UNCHANGED <<phase, mode, faults, rows, timer, loads, cache, subs, wired, due>>
  BY DEF process, engine
<1>2. TypeOK' /\ Going' = Going /\ ActiveRules' = ActiveRules
  BY <1>1 DEF IInv, TypeOK, Going, ActiveRules
<1>3. OneLoad' /\ SeedsTable' /\ SubscribedOnce'
  BY <1>1, <1>2 DEF IInv, OneLoad, SeedsTable, SubscribedOnce
<1>4. OneQuery'
  BY <1>1 DEF IInv, OneQuery, NoNewQuery
<1>5. HeldIsActive' /\ ActiveIsHeld'
  BY <1>1, <1>2 DEF IInv, HeldIsActive, ActiveIsHeld, Fresh
<1>6. QED  BY <1>2, <1>3, <1>4, <1>5 DEF IInv

(* No call is under way while the process is down.                         *)
LEMMA CalledIsUp == ASSUME IInv, NEW i \in 1..Len(calls) PROVE phase # "down"
<1>1. phase = "down" => calls = <<>>
  BY DEF IInv, OneLoad
<1>2. QED  BY <1>1

LEMMA IInvAsk ==
    ASSUME IInv, NEW q \in Request, NEW r \in Rule, Ask(q, r) PROVE IInv'
<1>1. /\ phase = "up" /\ calls \in Seq(CallState) /\ requests' \subseteq Request
      /\ UNCHANGED <<process, rows, timer, engine, due>>
  BY DEF Ask, IInv, TypeOK
<1>2. PICK c \in CallState : c.op # "find" /\ calls' = Append(calls, c)
  <2>1. PICK op \in Ops :
            \/ op = "create" /\ \E on \in BOOLEAN : calls' = Append(calls, Save(r, on))
            \/ op # "create" /\ calls' = Append(calls, Get(r, op))
    BY DEF Ask
  <2>2. \A on \in BOOLEAN : Save(r, on) \in CallState /\ Save(r, on).op # "find"
    BY DEF Save, CallState
  <2>3. op # "create" => Get(r, op) \in CallState /\ Get(r, op).op # "find"
    BY DEF Get, CallState
  <2>4. QED  BY <2>1, <2>2, <2>3
<1>3. /\ calls' \in Seq(CallState) /\ NoNewQuery(calls, calls')
      /\ Deactivating => Deactivating'
  BY <1>1, <1>2, CallSent DEF Deactivating
<1>4. QED  BY <1>1, <1>3, IInvCallsChange

(* What follows a read is a write.                                         *)
LEMMA FollowTyped ==
    ASSUME NEW r \in Rule, NEW op \in Ops \ {"create"}
    PROVE  Follow(r, op) \in CallState /\ Follow(r, op).op # "find"
<1>1. op \in {"edit", "activate", "deactivate", "delete"}
  BY RuleAssumption
<1>2. \A on \in BOOLEAN, asked \in BOOLEAN :
          Set(r, on, asked) \in CallState /\ Set(r, on, asked).op # "find"
  BY DEF Set, CallState
<1>3. Delete(r) \in CallState /\ Delete(r).op # "find"
  BY DEF Delete, CallState
<1>4. (rows[r] = "on") \in BOOLEAN
  OBVIOUS
<1> HIDE DEF Set, Delete, CallState
<1>5. QED  BY <1>1, <1>2, <1>3, <1>4 DEF Follow

LEMMA IInvGetAnswered ==
    ASSUME IInv, NEW i \in 1..Len(calls), GetAnswered(i) PROVE IInv'
<1> DEFINE c == calls[i]
           rest == RemoveAt(calls, i)
<1>1. /\ phase # "down" /\ calls \in Seq(CallState) /\ i \in DOMAIN calls
      /\ c.op = "get" /\ requests' \subseteq Request
      /\ UNCHANGED <<process, rows, timer, engine, due>>
  BY CalledIsUp, LenProperties DEF GetAnswered, IInv, TypeOK
<1>2. c.rule \in Rule /\ c.then \in Ops \ {"create"}
  BY <1>1, CallsTyped DEF IInv
<1>3. calls' = rest \/ calls' = Append(rest, Follow(c.rule, c.then))
  BY DEF GetAnswered
<1>4. /\ rest \in Seq(CallState) /\ NoNewQuery(calls, rest)
      /\ \A k \in DOMAIN calls \ {i} : \E j \in DOMAIN rest : rest[j] = calls[k]
  BY <1>1, CallTaken
<1>5. ~IsWrite(c)
  BY <1>1 DEF IsWrite
<1> HIDE DEF rest, c
<1>6. Deactivating => \E j \in DOMAIN rest : IsWrite(rest[j])
  BY <1>4, <1>5 DEF Deactivating, c
<1>7. CASE calls' = rest
  BY <1>1, <1>4, <1>6, <1>7, IInvCallsChange DEF Deactivating
<1>8. CASE calls' = Append(rest, Follow(c.rule, c.then))
  <2>1. /\ calls' \in Seq(CallState) /\ NoNewQuery(rest, calls')
        /\ \A k \in DOMAIN rest : k \in DOMAIN calls' /\ calls'[k] = rest[k]
    BY <1>2, <1>4, <1>8, FollowTyped, CallSent
  <2>2. NoNewQuery(calls, calls')
    BY <1>4, <2>1 DEF NoNewQuery
  <2>3. Deactivating => Deactivating'
    BY <1>6, <2>1 DEF Deactivating
  <2>4. QED  BY <1>1, <2>1, <2>2, <2>3, IInvCallsChange
<1>9. QED  BY <1>3, <1>7, <1>8

(* A write leaves the timer running, so that the table is read again.      *)
LEMMA IInvWriteDone ==
    ASSUME IInv, NEW i \in 1..Len(calls), WriteDone(i) PROVE IInv'
<1> DEFINE c == calls[i]
<1>1. /\ phase # "down" /\ calls \in Seq(CallState) /\ i \in DOMAIN calls
      /\ TypeOK /\ IsWrite(c)
      /\ rows' = Write(c) /\ timer' = (timer \/ Notifies(c))
      /\ due' = IF rows'[c.rule] = "on" /\ c.asked THEN due \cup {c.rule} ELSE due
      /\ calls' = RemoveAt(calls, i)
      /\ UNCHANGED <<phase, mode, faults, requests, loads, cache, subs, wired>>
  BY CalledIsUp, LenProperties DEF WriteDone, IInv, TypeOK, process, engine
<1>2. timer' = TRUE
  BY <1>1 DEF IsWrite, Notifies
<1>3. /\ c.rule \in Rule
      /\ c.op \in {"set", "save"} => c.on \in BOOLEAN
  BY <1>1, CallsTyped DEF IsWrite
<1>4. calls' \in Seq(CallState) /\ NoNewQuery(calls, calls')
  BY <1>1, CallTaken
<1>5. rows' \in [Rule -> {"absent", "off", "on"}]
  BY <1>1, <1>3 DEF TypeOK, Write, IsWrite, State
<1>6. due' \subseteq Rule
  BY <1>1, <1>3 DEF TypeOK
<1>7. TypeOK' /\ Going' = Going
  <2>1. timer' \in BOOLEAN
    BY <1>2
  <2>2. QED  BY <1>1, <1>4, <1>5, <1>6, <2>1 DEF TypeOK, Going
<1>8. OneLoad' /\ SubscribedOnce'
  BY <1>1, <1>7 DEF IInv, OneLoad, SubscribedOnce
<1>9. OneQuery'
  BY <1>1, <1>4 DEF IInv, OneQuery, NoNewQuery
<1>10. SeedsTable' /\ HeldIsActive' /\ ActiveIsHeld'
  BY <1>2 DEF SeedsTable, HeldIsActive, ActiveIsHeld, Fresh
<1>11. QED  BY <1>7, <1>8, <1>9, <1>10 DEF IInv

-----------------------------------------------------------------------------
(* Faults *)

(* An engine whose query fails is left without a subscription.             *)
LEMMA IInvCallFails ==
    ASSUME IInv, NEW i \in 1..Len(calls), CallFails(i) PROVE IInv'
<1> DEFINE l == calls[i].load
<1>1. /\ TypeOK /\ OneLoad /\ OneQuery /\ SubscribedOnce /\ HeldIsActive
      /\ phase # "down" /\ calls \in Seq(CallState) /\ i \in DOMAIN calls
      /\ faults' = [faults EXCEPT !.db = @ + 1]
      /\ calls' = RemoveAt(calls, i)
      /\ UNCHANGED <<mode, rows, requests, timer, cache, subs, wired, due>>
  BY CalledIsUp, LenProperties DEF CallFails, IInv, TypeOK
<1>2. /\ calls' \in Seq(CallState) /\ NoNewQuery(calls, calls')
      /\ i \in Queries(calls) => Queries(calls') = {}
  BY <1>1, CallTaken DEF OneQuery
<1>3. faults' \in [crash : Nat, db : Nat] /\ faults'.db # 0
  BY <1>1 DEF TypeOK
<1>4. ActiveIsHeld'
  BY <1>3 DEF ActiveIsHeld
<1>5. CASE i \in Queries(calls)
  <2>1. loads' = [loads EXCEPT ![l] = Ready] /\ phase' = "up"
    BY <1>5 DEF CallFails, Queries
  <2>2. l \in Load /\ l \in Going /\ Going = {l} /\ ~wired
    BY <1>1, <1>5, CallsTyped DEF OneQuery, Queries, OneLoad, SubscribedOnce, Going
  <2>3. loads' \in [Load -> LoadState] /\ \A k \in Load : loads'[k].pc = "idle"
    BY <1>1, <2>1, <2>2 DEF TypeOK, LoadState, Ready, Going
  <2>4. TypeOK' /\ Going' = {}
    BY <1>1, <1>2, <1>3, <2>1, <2>3 DEF TypeOK, Going
  <2>5. OneLoad' /\ OneQuery' /\ SeedsTable'
    BY <1>1, <1>2, <1>5, <2>1, <2>3, <2>4
       DEF OneLoad, OneQuery, AtMostOneQuery, SeedsTable
  <2>6. SubscribedOnce' /\ HeldIsActive'
    BY <1>1, <2>2 DEF SubscribedOnce, HeldIsActive
  <2>7. QED  BY <1>4, <2>4, <2>5, <2>6 DEF IInv
<1>6. CASE i \notin Queries(calls)
  <2>1. UNCHANGED <<loads, phase>>
    BY <1>1, <1>6 DEF CallFails, Queries
  <2>2. TypeOK' /\ Going' = Going /\ ActiveRules' = ActiveRules
    BY <1>1, <1>2, <1>3, <2>1 DEF TypeOK, Going, ActiveRules
  <2>3. OneLoad' /\ SeedsTable' /\ SubscribedOnce' /\ HeldIsActive'
    BY <1>1, <2>1, <2>2
       DEF IInv, OneLoad, SeedsTable, SubscribedOnce, HeldIsActive, Fresh
  <2>4. OneQuery'
    BY <1>1, <1>2, <2>1 DEF OneQuery, NoNewQuery
  <2>5. QED  BY <1>4, <2>2, <2>3, <2>4 DEF IInv
<1>7. QED  BY <1>5, <1>6

LEMMA IInvCrash == ASSUME IInv, Crash PROVE IInv'
<1>1. /\ TypeOK /\ phase' = "down" /\ faults' = [faults EXCEPT !.crash = @ + 1]
      /\ calls' = <<>> /\ timer' = FALSE
      /\ loads' = [l \in Load |-> Ready]
      /\ cache' = [r \in Rule |-> "absent"]
      /\ subs' = 0 /\ wired' = FALSE
      /\ UNCHANGED <<mode, rows, requests, due>>
  BY DEF Crash, IInv
<1>2. TypeOK'
  <2>1. timer' \in BOOLEAN /\ wired' \in BOOLEAN
    BY <1>1
  <2>2. loads' \in [Load -> LoadState] /\ faults' \in [crash : Nat, db : Nat]
    BY <1>1 DEF TypeOK, Ready, LoadState
  <2>3. QED  BY <1>1, <2>1, <2>2 DEF TypeOK
<1>3. Going' = {} /\ Queries(calls') = {}
  BY <1>1 DEF Going, Ready, Queries
<1>4. OneLoad' /\ OneQuery'
  BY <1>1, <1>3 DEF OneLoad, OneQuery, AtMostOneQuery, Ready
<1>5. SubscribedOnce' /\ SeedsTable' /\ HeldIsActive' /\ ActiveIsHeld'
  BY <1>1 DEF SubscribedOnce, SeedsTable, HeldIsActive, ActiveIsHeld, Fresh, Ready
<1>6. QED  BY <1>2, <1>4, <1>5 DEF IInv

-----------------------------------------------------------------------------
(* What follows *)

LEMMA IInvNext == ASSUME OverlapAllowed = FALSE PROVE IInv /\ [Next]_vars => IInv'
<1> SUFFICES ASSUME IInv, [Next]_vars PROVE IInv'
  OBVIOUS
<1>1. CASE Start  BY <1>1, IInvStart
<1>2. CASE TimerFires  BY <1>2, IInvTimerFires
<1>3. CASE Crash  BY <1>3, IInvCrash
<1>4. CASE \E l \in Load : Seeded(l)  BY <1>4, IInvSeeded
<1>5. CASE \E r \in Rule : Fire(r)  BY <1>5, IInvFire
<1>6. CASE \E q \in Request, r \in Rule : Ask(q, r)  BY <1>6, IInvAsk
<1>7. ASSUME NEW i \in 1..Len(calls), Answer(i) PROVE IInv'
  BY <1>7, IInvFindAnswered, IInvGetAnswered, IInvWriteDone DEF Answer
<1>8. ASSUME NEW i \in 1..Len(calls), CallFails(i) PROVE IInv'
  BY <1>8, IInvCallFails
<1>9. CASE UNCHANGED vars
  BY <1>9 DEF vars, IInv, TypeOK, OneLoad, OneQuery, AtMostOneQuery, Queries, Going,
              SubscribedOnce, SeedsTable, HeldIsActive, ActiveIsHeld, Fresh,
              ActiveRules, Deactivating
<1>10. QED
  BY <1>1, <1>2, <1>3, <1>4, <1>5, <1>6, <1>7, <1>8, <1>9 DEF Next

LEMMA IInvHolds == ASSUME OverlapAllowed = FALSE PROVE Spec => []IInv
  BY IInvInit, IInvNext, PTL DEF Spec

(* Types hold however reloads overlap.  What must not happen is that a     *)
(* subscription is ended twice: marketSub refers to a live one.            *)
Typed == TypeOK /\ (wired => subs > 0)

LEMMA TypedLoads ==
    ASSUME Typed, Start \/ TimerFires \/ Crash \/ \E l \in Load : Seeded(l)
    PROVE  Typed'
<1>0. TypeOK /\ (wired => subs > 0) /\ subs \in Nat /\ calls \in Seq(CallState)
  BY DEF Typed, TypeOK
<1>1. ASSUME NEW l \in Load, loads' = [loads EXCEPT ![l].pc = "read"],
             calls' = Append(calls, Find(l))
      PROVE  loads' \in [Load -> LoadState] /\ calls' \in Seq(CallState)
  <2>1. Find(l) \in CallState
    BY DEF Find, CallState
  <2>2. loads' \in [Load -> LoadState]
    BY <1>0, <1>1 DEF TypeOK, LoadState
  <2>3. QED  BY <1>0, <1>1, <2>1, <2>2
<1>2. CASE Start
  <2>1. calls' \in Seq(CallState) /\ loads' \in [Load -> LoadState]
    BY <1>0, <1>1, <1>2 DEF Start, TypeOK
  <2>2. /\ mode' \in Modes /\ phase' \in {"down", "starting", "up"}
        /\ UNCHANGED <<rows, requests, timer, cache, subs, wired, faults, due>>
    BY <1>2 DEF Start
  <2>3. QED  BY <1>0, <2>1, <2>2 DEF Typed, TypeOK
<1>3. CASE TimerFires
  <2>1. calls' \in Seq(CallState) /\ loads' \in [Load -> LoadState]
    BY <1>0, <1>1, <1>3 DEF TimerFires, TypeOK
  <2>2. subs' \in Nat /\ wired' \in BOOLEAN /\ (wired' => subs' > 0)
    <3>1. CASE mode = "idle"
      BY <1>0, <1>3, <3>1 DEF TimerFires, TypeOK
    <3>2. CASE mode # "idle"
      <4>1. subs' = Unwired /\ wired' = FALSE
        BY <1>3, <3>2 DEF TimerFires
      <4>2. Unwired \in Nat
        BY <1>0 DEF Unwired
      <4>3. QED  BY <4>1, <4>2
    <3>3. QED  BY <3>1, <3>2
  <2>3. timer' \in BOOLEAN /\ UNCHANGED <<phase, mode, faults, rows, requests, cache, due>>
    BY <1>3 DEF TimerFires, process
  <2>4. QED  BY <1>0, <2>1, <2>2, <2>3 DEF Typed, TypeOK
<1>4. CASE Crash
  <2>1. /\ phase' = "down" /\ calls' = <<>> /\ cache' = [r \in Rule |-> "absent"]
        /\ timer' = FALSE /\ wired' = FALSE /\ subs' = 0
        /\ loads' = [l \in Load |-> Ready]
        /\ faults' = [faults EXCEPT !.crash = @ + 1]
        /\ UNCHANGED <<mode, rows, requests, due>>
    BY <1>4 DEF Crash
  <2>2. loads' \in [Load -> LoadState]
    BY <2>1 DEF Ready, LoadState
  <2>3. faults' \in [crash : Nat, db : Nat]
    BY <1>0, <2>1 DEF TypeOK
  <2>4. timer' \in BOOLEAN /\ wired' \in BOOLEAN
    BY <2>1, Zenon
  <2>5. subs' \in Nat /\ ~wired' /\ calls' \in Seq(CallState)
    BY <2>1
  <2>6. cache' \in [Rule -> {"absent", "armed", "spent"}]
    BY <2>1
  <2>7. QED  BY <1>0, <2>1, <2>2, <2>3, <2>4, <2>5, <2>6 DEF Typed, TypeOK
<1>5. ASSUME NEW l \in Load, Seeded(l) PROVE Typed'
  <2>1. /\ loads' \in [Load -> LoadState]
        /\ cache' \in [Rule -> {"absent", "armed", "spent"}]
    BY <1>0, <1>5 DEF Seeded, TypeOK, LoadState, Ready, Loaded
  <2>2. /\ subs' = subs + 1 /\ wired' = TRUE /\ phase' = "up"
        /\ UNCHANGED <<mode, rows, calls, requests, timer, faults, due>>
    BY <1>5 DEF Seeded
  <2>3. subs' \in Nat /\ subs' > 0 /\ wired' \in BOOLEAN
    BY <1>0, <2>2
  <2>4. QED  BY <1>0, <2>1, <2>2, <2>3 DEF Typed, TypeOK
<1>6. QED  BY <1>2, <1>3, <1>4, <1>5

LEMMA TypedSends ==
    ASSUME Typed, \/ \E r \in Rule : Fire(r)
                  \/ \E q \in Request, r \in Rule : Ask(q, r)
    PROVE  Typed'
<1>0. TypeOK /\ calls \in Seq(CallState)
  BY DEF Typed, TypeOK
<1>1. ASSUME NEW r \in Rule, Fire(r) PROVE Typed'
  <2>1. calls' \in Seq(CallState)
    BY <1>0, <1>1, FireCallsTyped, CallsSent DEF Fire, Trigger
  <2>2. cache' \in [Rule -> {"absent", "armed", "spent"}] /\ due' \subseteq Rule
    BY <1>0, <1>1 DEF Fire, Trigger, TypeOK
  <2>3. UNCHANGED <<phase, mode, faults, rows, requests, timer, loads, subs, wired>>
    BY <1>1 DEF Fire, Trigger, process
  <2>4. QED  BY <2>1, <2>2, <2>3 DEF Typed, TypeOK
<1>2. ASSUME NEW q \in Request, NEW r \in Rule, Ask(q, r) PROVE Typed'
  <2>1. /\ \A op \in Ops : op # "create" => Get(r, op) \in CallState
        /\ \A on \in BOOLEAN : Save(r, on) \in CallState
    BY DEF Get, Save, CallState
  <2>2. \E c \in CallState : calls' = Append(calls, c)
    BY <1>2, <2>1 DEF Ask
  <2>3. calls' \in Seq(CallState) /\ requests' \subseteq Request
    BY <1>0, <1>2, <2>2 DEF Ask, TypeOK
  <2>4. UNCHANGED <<phase, mode, faults, rows, timer, loads, cache, subs, wired, due>>
    BY <1>2 DEF Ask, process, engine
  <2>5. QED  BY <2>3, <2>4 DEF Typed, TypeOK
<1>3. QED  BY <1>1, <1>2

LEMMA TypedAnswers ==
    ASSUME Typed, NEW i \in 1..Len(calls), Answer(i) \/ CallFails(i)
    PROVE  Typed'
<1> DEFINE c == calls[i]
<1>0. TypeOK /\ calls \in Seq(CallState) /\ i \in DOMAIN calls
  BY LenProperties DEF Typed, TypeOK
<1>1. /\ c.op = "find" => c.load \in Load
      /\ c.op # "find" => c.rule \in Rule
      /\ c.op \in {"set", "save"} => c.on \in BOOLEAN
      /\ c.op = "get" => c.then \in Ops \ {"create"}
  BY <1>0, CallsTyped
<1>2. RemoveAt(calls, i) \in Seq(CallState)
  BY <1>0, CallTaken
<1>3. CASE FindAnswered(i)
  <2>1. /\ loads' \in [Load -> LoadState] /\ phase' \in {"down", "starting", "up"}
        /\ cache' \in [Rule -> {"absent", "armed", "spent"}]
    BY <1>0, <1>1, <1>3 DEF FindAnswered, TypeOK, LoadState, Ready, ActiveRules
  <2>2. /\ calls' = RemoveAt(calls, i)
        /\ UNCHANGED <<mode, rows, requests, timer, subs, wired, faults, due>>
    BY <1>3 DEF FindAnswered
  <2>3. QED  BY <1>2, <2>1, <2>2 DEF Typed, TypeOK
<1>4. CASE GetAnswered(i)
  <2>1. c.op = "get" /\ (\/ calls' = RemoveAt(calls, i)
                         \/ calls' = Append(RemoveAt(calls, i), Follow(c.rule, c.then)))
    BY <1>4 DEF GetAnswered
  <2>2. Follow(c.rule, c.then) \in CallState
    BY <1>1, <2>1, FollowTyped
  <2>3. calls' \in Seq(CallState)
    BY <1>2, <2>1, <2>2
  <2>4. UNCHANGED <<phase, mode, faults, rows, requests, timer, loads, cache, subs, wired, due>>
    BY <1>4 DEF GetAnswered, process, engine
  <2>5. QED  BY <2>3, <2>4 DEF Typed, TypeOK
<1>5. CASE WriteDone(i)
  <2>1. /\ IsWrite(c) /\ rows' = Write(c) /\ timer' = TRUE
        /\ due' \in {due, due \cup {c.rule}} /\ calls' = RemoveAt(calls, i)
        /\ UNCHANGED <<phase, mode, faults, requests, loads, cache, subs, wired>>
    BY <1>5 DEF WriteDone, IsWrite, Notifies, process, engine
  <2>2. c.rule \in Rule /\ (c.op \in {"set", "save"} => c.on \in BOOLEAN)
    BY <1>1, <2>1 DEF IsWrite
  <2>3. rows' \in [Rule -> {"absent", "off", "on"}]
    BY <1>0, <2>1, <2>2 DEF TypeOK, Write, IsWrite, State
  <2>4. due' \subseteq Rule /\ timer' \in BOOLEAN
    BY <1>0, <2>1, <2>2 DEF TypeOK
  <2>5. QED  BY <1>2, <2>1, <2>3, <2>4 DEF Typed, TypeOK
<1>6. CASE CallFails(i)
  <2>1. faults' \in [crash : Nat, db : Nat]
    <3>1. faults' = [faults EXCEPT !.db = @ + 1] /\ faults \in [crash : Nat, db : Nat]
      BY <1>0, <1>6 DEF CallFails, TypeOK
    <3>2. QED  BY <3>1
  <2>2. /\ calls' = RemoveAt(calls, i)
        /\ UNCHANGED <<mode, rows, requests, timer, cache, subs, wired, due>>
    BY <1>6 DEF CallFails
  <2>3. loads' \in [Load -> LoadState] /\ phase' \in {"down", "starting", "up"}
    <3>1. CASE c.op = "find"
      <4>1. loads' = [loads EXCEPT ![c.load] = Ready] /\ phase' = "up"
        BY <1>6, <3>1 DEF CallFails
      <4>2. Ready \in LoadState /\ loads \in [Load -> LoadState]
        BY <1>0 DEF Ready, LoadState, TypeOK
      <4>3. QED  BY <4>1, <4>2
    <3>2. CASE c.op # "find"
      BY <1>0, <1>6, <3>2 DEF CallFails, TypeOK
    <3>3. QED  BY <3>1, <3>2
  <2>4. QED  BY <1>2, <2>1, <2>2, <2>3 DEF Typed, TypeOK
<1>7. QED  BY <1>3, <1>4, <1>5, <1>6 DEF Answer

(* The variables range over what RuleProperties says they do, and no       *)
(* subscription to the market is ended twice, however reloads overlap.     *)
THEOREM RulesAreTyped == Spec => []TypeOK
<1>1. Init => Typed
  BY IInvInit DEF IInv, Typed, Init
<1>2. Typed /\ [Next]_vars => Typed'
  <2>1. Typed /\ UNCHANGED vars => Typed'
    BY DEF Typed, TypeOK, vars
  <2>2. QED  BY <2>1, TypedLoads, TypedSends, TypedAnswers DEF Next
<1>3. Typed => TypeOK
  BY DEF Typed
<1>4. QED  BY <1>1, <1>2, <1>3, PTL DEF Spec

(* rule-engine.service.ts:125: once nothing is under way and no call has   *)
(* failed, the engine evaluates exactly the rules that are active in the   *)
(* table and listens to the market once, or not at all if there are none.  *)
THEOREM ReloadsMissNothing ==
    ASSUME OverlapAllowed = FALSE PROVE Spec => []QuietEngineIsTable
<1>1. IInv => QuietEngineIsTable
  <2> SUFFICES ASSUME IInv, Quiet, faults.db = 0
               PROVE  /\ \A r \in Rule : cache[r] = "armed" <=> rows[r] = "on"
                      /\ subs = IF ActiveRules = {} THEN 0 ELSE 1
    BY DEF QuietEngineIsTable
  <2>1. Fresh /\ Going = {} /\ ~Deactivating
    BY DEF Quiet, Fresh, Going, NoLoadGoing, Deactivating
  <2>2. /\ wired <=> ActiveRules # {}
        /\ \A r \in Rule : cache[r] = "armed" <=> rows[r] = "on"
    BY <2>1 DEF IInv, ActiveIsHeld
  <2>3. subs = IF wired THEN 1 ELSE 0
    BY DEF IInv, SubscribedOnce
  <2>4. QED  BY <2>2, <2>3
<1>2. QED  BY <1>1, IInvHolds, PTL

(* rule-engine.service.ts:125: whatever calls have failed, an engine that  *)
(* listens while nothing is under way evaluates active rules only.         *)
THEOREM InactiveRulesRest ==
    ASSUME OverlapAllowed = FALSE PROVE Spec => []EvaluatesOnlyActive
<1>1. IInv => EvaluatesOnlyActive
  <2> SUFFICES ASSUME IInv, Quiet, subs > 0
               PROVE  \A r \in Rule : cache[r] = "armed" => rows[r] = "on"
    BY DEF EvaluatesOnlyActive
  <2>1. wired
    BY DEF IInv, SubscribedOnce
  <2>2. Fresh /\ Going = {}
    BY DEF Quiet, Fresh, Going, NoLoadGoing
  <2>3. QED  BY <2>1, <2>2 DEF IInv, HeldIsActive
<1>2. QED  BY <1>1, IInvHolds, PTL

-----------------------------------------------------------------------------
(* A rule fires once per activation *)

(* What the theorem is about: calls take effect as they are sent and none  *)
(* fails, reloads do not overlap, and nobody edits a rule's other fields.  *)
Orderly ==
    InOrder /\ OverlapAllowed = FALSE /\ MaxDbFaults = 0 /\ "edit" \notin Ops

(* Calls that orders send, besides those of RuleEngine.                    *)
AnyCall == CallState \cup [op : {"lookup", "insert"}, uid : Uid]

LEMMA CallShape ==
    ASSUME NEW c \in AnyCall
    PROVE  /\ c.op = "find" => c.load \in Load
           /\ c.op \in {"lookup", "insert"} => c.uid \in Uid
           /\ c.op \in {"get", "set", "save", "delete"} => c.rule \in Rule
           /\ c.op \in {"set", "save"} => c.on \in BOOLEAN /\ c.asked \in BOOLEAN
           /\ c.op = "get" => c.then \in Ops \ {"create"}
           /\ c.op = "insert" => c = Insert(c.uid)
BY DEF AnyCall, CallState, Insert

LEMMA RuleCallsAreCalls == ASSUME NEW s \in Seq(CallState) PROVE s \in Seq(AnyCall)
<1>1. CallState \subseteq AnyCall
  BY DEF AnyCall
<1>2. Len(s) \in Nat /\ s = [i \in 1..Len(s) |-> s[i]] /\ \A i \in 1..Len(s) : s[i] \in AnyCall
  BY <1>1
<1>3. QED  BY <1>2, IsASeq

(* The oldest call is answered.                                            *)
LEMMA HeadTaken ==
    ASSUME NEW s \in Seq(AnyCall), 1 \in 1..Len(s)
    PROVE  LET t == RemoveAt(s, 1) IN
           /\ t \in Seq(AnyCall)
           /\ \A j \in DOMAIN t : j + 1 \in DOMAIN s /\ t[j] = s[j + 1]
           /\ \A j \in DOMAIN s \ {1} : j - 1 \in DOMAIN t /\ t[j - 1] = s[j]
<1> DEFINE t == RemoveAt(s, 1)
<1>1. /\ t \in Seq(AnyCall) /\ Len(t) = Len(s) - 1
      /\ \A j \in 1..(Len(s) - 1) : t[j] = IF j < 1 THEN s[j] ELSE s[j + 1]
  BY RemoveAtProperties
<1>2. Len(s) \in Nat /\ DOMAIN s = 1..Len(s) /\ DOMAIN t = 1..(Len(s) - 1)
  BY <1>1, LenProperties
<1> HIDE DEF t
<1>3. /\ \A j \in DOMAIN t : j + 1 \in DOMAIN s /\ t[j] = s[j + 1]
      /\ \A j \in DOMAIN s \ {1} : j - 1 \in DOMAIN t /\ t[j - 1] = s[j]
  BY <1>1, <1>2
<1>4. QED  BY <1>1, <1>3 DEF t

(* Taking the oldest call out keeps what is counted on, unless it was it.  *)
LEMMA Taken ==
    ASSUME NEW s \in Seq(AnyCall), 1 \in 1..Len(s)
    PROVE  LET t == RemoveAt(s, 1) IN
           /\ t \in Seq(AnyCall)
           /\ AllAsk(s) => AllAsk(t)
           /\ \A r \in Rule : s[1] # Set(r, FALSE, FALSE) /\ Persisted(s, r)
                                => Persisted(t, r)
<1> DEFINE t == RemoveAt(s, 1)
<1>1. /\ \A j \in DOMAIN t : j + 1 \in DOMAIN s /\ t[j] = s[j + 1]
      /\ \A j \in DOMAIN s \ {1} : j - 1 \in DOMAIN t /\ t[j - 1] = s[j]
      /\ t \in Seq(AnyCall)
  BY HeadTaken
<1> HIDE DEF t
<1>2. AllAsk(s) => AllAsk(t)
  BY <1>1 DEF AllAsk
<1>3. ASSUME NEW r \in Rule, s[1] # Set(r, FALSE, FALSE),
             NEW i \in DOMAIN s, s[i] = Set(r, FALSE, FALSE), \A j \in Queries(s) : i < j
      PROVE  Persisted(t, r)
  <2>1. i # 1
    BY <1>3
  <2>2. i - 1 \in DOMAIN t /\ t[i - 1] = s[i]
    BY <1>1, <2>1
  <2>3. ASSUME NEW j \in Queries(t) PROVE i - 1 < j
    <3>1. j \in DOMAIN t /\ j + 1 \in Queries(s)
      BY <1>1 DEF Queries
    <3>2. j \in Nat /\ i \in Nat /\ i < j + 1
      BY <1>1, <1>3, <3>1, LenProperties
    <3>3. QED  BY <3>2
  <2>4. QED  BY <1>3, <2>2, <2>3 DEF Persisted
<1>4. QED  BY <1>1, <1>2, <1>3 DEF Persisted, t

(* So does sending one: what is counted on is older.                       *)
LEMMA Sent ==
    ASSUME NEW s \in Seq(AnyCall), NEW c \in AnyCall
    PROVE  LET t == Append(s, c) IN
           /\ AllAsk(s) /\ Asks(c) => AllAsk(t)
           /\ \A r \in Rule : Persisted(s, r) => Persisted(t, r)
<1> DEFINE t == Append(s, c)
<1>1. /\ DOMAIN s = 1..Len(s) /\ Len(s) \in Nat
      /\ DOMAIN t = 1..(Len(s) + 1)
      /\ \A j \in 1..Len(s) : t[j] = s[j]
      /\ t[Len(s) + 1] = c
  BY LenProperties
<1> HIDE DEF t
<1>2. \A j \in DOMAIN t : j \in DOMAIN s \/ j = Len(s) + 1
  BY <1>1
<1>3. AllAsk(s) /\ Asks(c) => AllAsk(t)
  BY <1>1, <1>2 DEF AllAsk
<1>4. \A i \in DOMAIN s : i \in DOMAIN t /\ t[i] = s[i] /\ i < Len(s) + 1
  BY <1>1
<1>5. \A j \in Queries(t) : j \in Queries(s) \/ j = Len(s) + 1
  BY <1>1, <1>2 DEF Queries
<1>6. \A r \in Rule : Persisted(s, r) => Persisted(t, r)
  BY <1>4, <1>5 DEF Persisted
<1>7. QED  BY <1>3, <1>6 DEF t

(* A rule that fires sends its deactivation, which no query precedes.      *)
Deactivates(f, r) ==
    /\ Queries(f) = {} /\ 1 \in DOMAIN f /\ f[1] = Set(r, FALSE, FALSE)
    /\ \A j \in DOMAIN f : Asks(f[j])

LEMMA FiringSent ==
    ASSUME NEW s \in Seq(AnyCall), NEW f \in Seq(AnyCall), NEW r \in Rule, Queries(s) = {},
           Deactivates(f, r)
    PROVE  LET t == s \o f IN
           /\ AllAsk(s) => AllAsk(t)
           /\ Persisted(t, r)
           /\ \A q \in Rule : Persisted(s, q) => Persisted(t, q)
<1> DEFINE t == s \o f
<1>1. /\ Queries(f) = {} /\ 1 \in DOMAIN f
      /\ f[1] = Set(r, FALSE, FALSE) /\ \A j \in DOMAIN f : Asks(f[j])
  BY DEF Deactivates
<1>2. /\ DOMAIN s = 1..Len(s) /\ Len(s) \in Nat
      /\ DOMAIN f = 1..Len(f) /\ Len(f) \in Nat
      /\ DOMAIN t = 1..(Len(s) + Len(f))
      /\ \A j \in 1..(Len(s) + Len(f)) :
            t[j] = IF j <= Len(s) THEN s[j] ELSE f[j - Len(s)]
  BY <1>1, LenProperties, ConcatProperties
<1> HIDE DEF t
<1>3. ASSUME NEW j \in DOMAIN t
      PROVE  \/ j \in DOMAIN s /\ t[j] = s[j]
             \/ j - Len(s) \in DOMAIN f /\ t[j] = f[j - Len(s)]
  BY <1>2
<1>4. \A j \in DOMAIN s : j \in DOMAIN t /\ t[j] = s[j]
  BY <1>2
<1>5. Len(s) + 1 \in DOMAIN t /\ t[Len(s) + 1] = f[1]
  <2>1. Len(f) >= 1 /\ Len(s) + 1 \in 1..(Len(s) + Len(f))
    BY <1>1, <1>2
  <2>2. t[Len(s) + 1] = f[(Len(s) + 1) - Len(s)]
    BY <1>2, <2>1
  <2>3. (Len(s) + 1) - Len(s) = 1
    BY <1>2
  <2>4. QED  BY <1>2, <2>1, <2>2, <2>3
<1>6. Queries(t) = {}
  BY <1>1, <1>3 DEF Queries
<1>7. AllAsk(s) => AllAsk(t)
  BY <1>1, <1>3 DEF AllAsk
<1>8. Persisted(t, r)
  BY <1>1, <1>5, <1>6 DEF Persisted
<1>9. \A q \in Rule : Persisted(s, q) => Persisted(t, q)
  BY <1>4, <1>6 DEF Persisted
<1>10. QED  BY <1>7, <1>8, <1>9 DEF t

(* A query is sent for a load.                                             *)
LEMMA NoLoadNoQuery == ASSUME IInv, Going = {} PROVE Queries(calls) = {}
<1>1. \A i \in Queries(calls) : calls[i].load \in Load /\ loads[calls[i].load].pc = "read"
  BY CallsTyped DEF IInv, OneQuery, Queries
<1>2. QED  BY <1>1 DEF Going

DueTyped ==
    /\ calls \in Seq(AnyCall) /\ loads \in [Load -> LoadState]
    /\ rows \in [Rule -> {"absent", "off", "on"}]
    /\ cache \in [Rule -> {"absent", "armed", "spent"}]

LEMMA RulesDueTyped == ASSUME IInv PROVE DueTyped
BY RuleCallsAreCalls DEF IInv, TypeOK, DueTyped

(* What Due says of the calls, and of the rest.                            *)
LEMMA DueKept ==
    ASSUME AllAsk(calls'), UNCHANGED <<rows, due>>, Due,
           \A r \in Rule : Persisted(calls, r) => Persisted(calls', r),
           \A l \in Load : loads'[l].pc = "seed" => loads'[l] = loads[l],
           \A r \in Rule : cache'[r] = "armed" => cache[r] = "armed"
    PROVE  Due'
<1>1. ActiveIsAsked' /\ FiredIsPersisted'
  BY DEF Due, ActiveIsAsked, FiredIsPersisted
<1>2. SeedsDue' /\ HeldDue'
  BY DEF Due, SeedsDue, HeldDue
<1>3. QED  BY <1>1, <1>2 DEF Due

LEMMA DueInit == Init => Due
<1>1. Init => calls = <<>> /\ due = ActiveRules
  BY DEF Init
<1>2. Init => SeedsDue /\ HeldDue
  BY DEF Init, SeedsDue, HeldDue, Ready
<1>3. QED
  BY <1>1, <1>2 DEF Due, ActiveIsAsked, AllAsk, FiredIsPersisted, ActiveRules

(* A load sends its query, which comes last.                               *)
LEMMA DueLoads ==
    ASSUME DueTyped, Due, NEW l \in Load,
           loads' = [loads EXCEPT ![l].pc = "read"],
           calls' = Append(calls, Find(l)), UNCHANGED <<rows, due, cache>>
    PROVE  Due'
<1>1. calls \in Seq(AnyCall) /\ loads \in [Load -> LoadState] /\ AllAsk(calls)
  BY DEF DueTyped, Due, ActiveIsAsked
<1>2. Find(l) \in AnyCall /\ Asks(Find(l))
  BY DEF Find, AnyCall, CallState, Asks
<1>3. /\ AllAsk(calls')
      /\ \A r \in Rule : Persisted(calls, r) => Persisted(calls', r)
  BY <1>1, <1>2, Sent
<1>4. \A k \in Load : loads'[k].pc = "seed" => loads'[k] = loads[k]
  BY <1>1
<1>5. QED  BY <1>3, <1>4, DueKept

(* The query is answered first of all calls: every active rule is due.     *)
LEMMA DueFindAnswered ==
    ASSUME DueTyped, Due, 1 \in 1..Len(calls), FindAnswered(1) PROVE Due'
<1>1. loads \in [Load -> LoadState] /\ calls \in Seq(AnyCall) /\ AllAsk(calls)
  BY DEF DueTyped, Due, ActiveIsAsked
<1>2. /\ calls[1].op = "find" /\ calls' = RemoveAt(calls, 1)
      /\ UNCHANGED <<rows, due>>
  BY DEF FindAnswered
<1>3. ActiveRules \subseteq due
  <2>1. 1 \in Queries(calls)
    BY <1>1, <1>2, LenProperties DEF Queries
  <2>2. \A i \in DOMAIN calls : ~(i < 1)
    BY <1>1, LenProperties
  <2>3. \A r \in Rule : ~Persisted(calls, r)
    BY <2>1, <2>2 DEF Persisted
  <2>4. QED  BY <2>3 DEF Due, FiredIsPersisted, ActiveRules
<1>4. AllAsk(calls')
  BY <1>1, <1>2, Taken
<1>5. ActiveIsAsked' /\ FiredIsPersisted'
  BY <1>2, <1>3, <1>4 DEF ActiveIsAsked, FiredIsPersisted, ActiveRules
<1>6. SeedsDue'
  <2>1. \A k \in Load : loads'[k].pc = "seed" =>
            loads'[k] = loads[k] \/ loads'[k].rules = ActiveRules
    BY <1>1 DEF FindAnswered, Ready
  <2>2. QED  BY <1>2, <1>3, <2>1 DEF Due, SeedsDue
<1>7. HeldDue'
  <2>1. \A r \in Rule : cache'[r] = "armed" => cache[r] = "armed"
    BY DEF FindAnswered
  <2>2. QED  BY <1>2, <2>1 DEF Due, HeldDue
<1>8. QED  BY <1>5, <1>6, <1>7 DEF Due

LEMMA DueSeeded == ASSUME DueTyped, Due, NEW l \in Load, Seeded(l) PROVE Due'
<1>1. /\ loads \in [Load -> LoadState] /\ loads[l].pc = "seed"
      /\ loads' = [loads EXCEPT ![l] = Ready]
      /\ cache' = Loaded(loads[l].rules) /\ UNCHANGED <<rows, calls, due>>
  BY DEF Seeded, DueTyped
<1>2. loads[l].rules \subseteq due
  BY <1>1 DEF Due, SeedsDue
<1>3. HeldDue'
  BY <1>1, <1>2 DEF HeldDue, Loaded
<1>4. SeedsDue'
  BY <1>1 DEF Due, SeedsDue, Ready
<1>5. ActiveIsAsked' /\ FiredIsPersisted'
  BY <1>1 DEF Due, ActiveIsAsked, FiredIsPersisted
<1>6. QED  BY <1>3, <1>4, <1>5 DEF Due

(* A rule fires while no load goes on, so that no query is under way.      *)
LEMMA DueTrigger ==
    ASSUME DueTyped, Due, Going = {}, Queries(calls) = {}, NEW r \in Rule,
           NEW sent \in Seq(AnyCall), Deactivates(sent, r), Trigger(r, sent)
    PROVE  Due'
<1>1. /\ cache' = [cache EXCEPT ![r] = "spent"] /\ cache' \in [Rule -> {"absent", "armed", "spent"}]
      /\ calls' = calls \o sent /\ due' = due \ {r}
      /\ UNCHANGED <<rows, loads>>
  BY DEF Trigger, DueTyped
<1>2. calls \in Seq(AnyCall) /\ AllAsk(calls)
  BY DEF DueTyped, Due, ActiveIsAsked
<1>3. /\ AllAsk(calls') /\ Persisted(calls', r)
      /\ \A q \in Rule : Persisted(calls, q) => Persisted(calls', q)
  BY <1>1, <1>2, FiringSent
<1>4. ActiveIsAsked' /\ FiredIsPersisted'
  BY <1>1, <1>3 DEF Due, ActiveIsAsked, FiredIsPersisted
<1>5. SeedsDue'
  BY <1>1 DEF SeedsDue, Going
<1>6. HeldDue'
  BY <1>1 DEF Due, HeldDue, DueTyped
<1>7. QED  BY <1>4, <1>5, <1>6 DEF Due

LEMMA DueFire == ASSUME IInv, Due, NEW r \in Rule, Fire(r) PROVE Due'
<1>1. Going = {}
  BY DEF Fire, Trigger, IInv, SubscribedOnce
<1>2. Queries(calls) = {}
  BY <1>1, NoLoadNoQuery
<1>3. FireCalls(r) \in Seq(AnyCall) /\ Deactivates(FireCalls(r), r)
  BY FireCallsTyped, RuleCallsAreCalls DEF Deactivates
<1>4. QED  BY <1>1, <1>2, <1>3, RulesDueTyped, DueTrigger DEF Fire

LEMMA DueAsk ==
    ASSUME DueTyped, Due, NEW q \in Request, NEW r \in Rule, Ask(q, r) PROVE Due'
<1>1. UNCHANGED <<rows, due, loads, cache>>
  BY DEF Ask, engine
<1>2. PICK c \in AnyCall : calls' = Append(calls, c) /\ Asks(c)
  <2>1. \A on \in BOOLEAN : Save(r, on) \in AnyCall /\ Asks(Save(r, on))
    BY DEF Save, AnyCall, CallState, Asks
  <2>2. \A op \in Ops \ {"create"} : Get(r, op) \in AnyCall /\ Asks(Get(r, op))
    BY DEF Get, AnyCall, CallState, Asks
  <2>3. QED  BY <2>1, <2>2 DEF Ask
<1>3. calls \in Seq(AnyCall) /\ AllAsk(calls)
  BY DEF DueTyped, Due, ActiveIsAsked
<1>4. /\ AllAsk(calls')
      /\ \A p \in Rule : Persisted(calls, p) => Persisted(calls', p)
  BY <1>2, <1>3, Sent
<1>5. QED  BY <1>1, <1>4, DueKept

LEMMA DueGetAnswered ==
    ASSUME DueTyped, Due, "edit" \notin Ops, 1 \in 1..Len(calls), GetAnswered(1)
    PROVE  Due'
<1> DEFINE c == calls[1]
           rest == RemoveAt(calls, 1)
<1>1. calls \in Seq(AnyCall) /\ AllAsk(calls) /\ 1 \in DOMAIN calls
  BY LenProperties DEF DueTyped, Due, ActiveIsAsked
<1>2. /\ c.op = "get" /\ UNCHANGED <<rows, due, loads, cache>>
      /\ calls' = rest \/ calls' = Append(rest, Follow(c.rule, c.then))
  BY DEF GetAnswered, engine
<1>3. c.rule \in Rule /\ c.then \in Ops \ {"create"}
  <2>1. c \in AnyCall
    BY <1>1, ElementOfSeq
  <2>2. QED  BY <1>2, <2>1, CallShape
<1>4. \A r \in Rule : c # Set(r, FALSE, FALSE)
  BY <1>2 DEF Set
<1>5. /\ rest \in Seq(AnyCall) /\ AllAsk(rest)
      /\ \A r \in Rule : Persisted(calls, r) => Persisted(rest, r)
  BY <1>1, <1>4, Taken
<1>6. Follow(c.rule, c.then) \in AnyCall /\ Asks(Follow(c.rule, c.then))
  <2>1. c.then \in {"activate", "deactivate", "delete"}
    BY <1>3, RuleAssumption
  <2>2. QED  BY <1>3, <2>1 DEF Follow, Set, Delete, AnyCall, CallState, Asks
<1> HIDE DEF c, rest
<1>7. /\ AllAsk(calls')
      /\ \A r \in Rule : Persisted(calls, r) => Persisted(calls', r)
  BY <1>2, <1>5, <1>6, Sent
<1>8. QED  BY <1>2, <1>7, DueKept

(* A write that makes a rule active was asked for, so the rule is due; one *)
(* that takes a rule back leaves it inactive.                              *)
LEMMA DueWriteDone ==
    ASSUME DueTyped, Due, 1 \in 1..Len(calls), WriteDone(1) PROVE Due'
<1> DEFINE c == calls[1]
<1>1. /\ rows \in [Rule -> {"absent", "off", "on"}]
      /\ calls \in Seq(AnyCall) /\ AllAsk(calls) /\ 1 \in DOMAIN calls
  BY LenProperties DEF DueTyped, Due, ActiveIsAsked
<1>2. /\ IsWrite(c) /\ rows' = Write(c) /\ calls' = RemoveAt(calls, 1)
      /\ due' = (IF rows'[c.rule] = "on" /\ c.asked THEN due \cup {c.rule} ELSE due)
      /\ UNCHANGED <<loads, cache>>
  BY DEF WriteDone, engine
<1>3. c \in AnyCall /\ Asks(c)
  BY <1>1, ElementOfSeq DEF AllAsk
<1>4. /\ AllAsk(calls')
      /\ \A r \in Rule : c # Set(r, FALSE, FALSE) /\ Persisted(calls, r)
                           => Persisted(calls', r)
  BY <1>1, <1>2, Taken
<1> HIDE DEF c
<1>5. c.rule \in Rule
  BY <1>2, <1>3, CallShape DEF IsWrite
<1>6. \A r \in Rule \ {c.rule} : rows'[r] = rows[r]
  BY <1>1, <1>2, <1>5 DEF Write, IsWrite
<1>7. rows'[c.rule] = "on" => c.rule \in due'
  <2>1. rows'[c.rule] = "on" => c.op \in {"set", "save"} /\ c.on
    BY <1>1, <1>2, <1>3, <1>5 DEF Write, IsWrite, State
  <2>2. rows'[c.rule] = "on" => c.asked
    BY <1>3, <2>1 DEF Asks
  <2>3. QED  BY <1>2, <2>2
<1>8. \A r \in Rule \ {c.rule} : c # Set(r, FALSE, FALSE)
  BY DEF Set
<1>9. due \subseteq due'
  BY <1>2
<1>10. ActiveIsAsked' /\ FiredIsPersisted'
  BY <1>4, <1>6, <1>7, <1>8, <1>9 DEF Due, ActiveIsAsked, FiredIsPersisted
<1>11. SeedsDue' /\ HeldDue'
  BY <1>2, <1>9 DEF Due, SeedsDue, HeldDue
<1>12. QED  BY <1>10, <1>11 DEF Due

LEMMA DueNext == ASSUME Orderly, IInv, DueInv, [Next]_vars PROVE DueInv'
<1>1. CASE Crash
  <2>1. faults'.crash # 0
    BY <1>1 DEF Crash, IInv, TypeOK
  <2>2. QED  BY <2>1 DEF DueInv
<1>2. faults.crash # 0 => faults'.crash # 0
  <2>1. faults \in [crash : Nat, db : Nat]
    BY DEF IInv, TypeOK
  <2>2. \/ faults' = faults
        \/ faults' = [faults EXCEPT !.db = @ + 1]
        \/ faults' = [faults EXCEPT !.crash = @ + 1]
    BY DEF Next, vars, process, Start, TimerFires, Crash, Seeded, Fire, Trigger, Ask,
           Answer, FindAnswered, GetAnswered, WriteDone, CallFails
  <2>3. QED  BY <2>1, <2>2
<1>3. ASSUME Due, ~Crash PROVE Due'
  <2>0. DueTyped
    BY RulesDueTyped
  <2>1. CASE Start
    <3>1. CASE UNCHANGED <<calls, loads>>
      BY <1>3, <2>1, <3>1 DEF Start, Due, ActiveIsAsked, FiredIsPersisted, SeedsDue, HeldDue
    <3>2. QED  BY <1>3, <2>0, <2>1, <3>1, DueLoads DEF Start
  <2>2. CASE TimerFires
    <3>1. CASE UNCHANGED <<calls, loads>>
      BY <1>3, <2>2, <3>1 DEF TimerFires, Due, ActiveIsAsked, FiredIsPersisted, SeedsDue, HeldDue
    <3>2. QED  BY <1>3, <2>0, <2>2, <3>1, DueLoads DEF TimerFires
  <2>3. CASE \E l \in Load : Seeded(l)  BY <1>3, <2>0, <2>3, DueSeeded
  <2>4. CASE \E r \in Rule : Fire(r)  BY <1>3, <2>4, DueFire
  <2>5. CASE \E q \in Request, r \in Rule : Ask(q, r)  BY <1>3, <2>0, <2>5, DueAsk
  <2>6. ASSUME NEW i \in 1..Len(calls), Answer(i) PROVE Due'
    <3>1. i = 1
      BY <2>6 DEF Answer, MayAnswer, Orderly
    <3>2. QED
      BY <1>3, <2>0, <2>6, <3>1, DueFindAnswered, DueGetAnswered, DueWriteDone DEF Answer, Orderly
  <2>7. ASSUME NEW i \in 1..Len(calls), CallFails(i) PROVE FALSE
    BY <2>7 DEF CallFails, Orderly, IInv, TypeOK
  <2>8. CASE UNCHANGED vars
    BY <1>3, <2>8 DEF vars, Due, ActiveIsAsked, FiredIsPersisted, SeedsDue, HeldDue
  <2>9. QED
    BY <1>3, <2>1, <2>2, <2>3, <2>4, <2>5, <2>6, <2>7, <2>8 DEF Next
<1>4. QED  BY <1>1, <1>2, <1>3 DEF DueInv

(* rule-engine.service.ts:260: a rule fires only after somebody has asked  *)
(* for it to be active since it last fired, unless a crash has lost its    *)
(* deactivation; for any rules, requests and processes, if the database    *)
(* serves calls as they are sent and none fails.                           *)
THEOREM FiresOncePerActivation == ASSUME Orderly PROVE Spec => FiresOnlyWhenDue
<1>1. Init => IInv /\ DueInv
  BY IInvInit, DueInit DEF DueInv
<1>2. IInv /\ DueInv /\ [Next]_vars => (IInv /\ DueInv)'
  BY IInvNext, DueNext DEF Orderly
<1>3. IInv /\ DueInv /\ [Next]_vars =>
          [\A r \in Rule : Fires(r) => r \in due \/ faults.crash > 0]_vars
  BY DEF IInv, TypeOK, DueInv, Due, HeldDue, Fires
<1>4. QED  BY <1>1, <1>2, <1>3, PTL DEF Spec, FiresOnlyWhenDue

-----------------------------------------------------------------------------
(* An action of a rule has at most one order in the works, for any rules,  *)
(* requests and crashes, if the database answers the process's calls in    *)
(* order and one reload ends before the next begins.                       *)
(*                                                                         *)
(* A rule that has fired is armed again only by a load whose query was     *)
(* answered after the lookups of the firing, so that there are never       *)
(* lookups of two orders of one action in the line.  The lookup of another *)
(* order comes after the insert of the one before, and finds it.           *)

Neutral(c) == c.op \notin {"find", "lookup", "insert"}

TypedInv ==
    /\ calls \in Seq(AnyCall) /\ loads \in [Load -> LoadState]
    /\ cache \in [Rule -> {"absent", "armed", "spent"}]
    /\ candle \in 0..MaxCandle /\ tracked \subseteq Uid
    /\ orderRows \in [Uid -> {"absent", "active", "ended"}]

LoadsInv ==
    /\ \A k, l \in Going : k = l
    /\ AtMostOneQuery(calls)
    /\ \A i \in Queries(calls) : loads[calls[i].load].pc = "read"
    /\ subs = IF wired THEN 1 ELSE 0
    /\ wired => Going = {}
    /\ phase = "down" => Going = {} /\ calls = <<>> /\ ~wired

Lookups(s) == {i \in DOMAIN s : s[i].op = "lookup"}
Inserts(s) == {i \in DOMAIN s : s[i].op = "insert"}
LineOK(s) ==
    /\ \A i \in Queries(s), j \in Lookups(s) : j < i
    /\ \A i, j \in Lookups(s) : s[i].uid[1] = s[j].uid[1] => s[i].uid = s[j].uid
    /\ \A i \in Lookups(s), j \in Inserts(s) :
          i < j /\ s[i].uid[1] = s[j].uid[1] => s[i].uid = s[j].uid
    /\ \A i, j \in Inserts(s) : s[i].uid = s[j].uid => i = j

Rests(r) == \A i \in Lookups(calls) : calls[i].uid[1][1] # r
RestInv == \A r \in Rule :
    cache[r] = "armed" \/ (\E l \in Load : loads[l].pc = "seed" /\ r \in loads[l].rules)
        => Rests(r)

InWorks(u) == u \in tracked \/ orderRows[u] = "active"
OrdersInv ==
    /\ \A i \in Inserts(calls) : calls[i].uid \in tracked /\ orderRows[calls[i].uid] # "active"
    /\ \A u \in tracked : orderRows[u] = "active" \/ \E i \in DOMAIN calls : calls[i] = Insert(u)
    /\ \A u, v \in Uid : InWorks(u) /\ InWorks(v) /\ u[1] = v[1] => u = v
DispatchInv == TypedInv /\ LoadsInv /\ LineOK(calls) /\ RestInv /\ OrdersInv

-----------------------------------------------------------------------------
(* The line of calls *)

(* The oldest call is answered: the others move up.                        *)
LEMMA Shortened ==
    ASSUME NEW s \in Seq(AnyCall), 1 \in 1..Len(s)
    PROVE  LET t == RemoveAt(s, 1) IN
           /\ t \in Seq(AnyCall)
           /\ \A j \in DOMAIN t : j + 1 \in DOMAIN s \ {1} /\ t[j] = s[j + 1]
           /\ \A j \in DOMAIN s \ {1} : j - 1 \in DOMAIN t /\ t[j - 1] = s[j]
           /\ DOMAIN s \subseteq Nat /\ DOMAIN t \subseteq Nat
           /\ 1 \in DOMAIN s /\ \A j \in DOMAIN s : j = 1 \/ 1 < j
<1> DEFINE t == RemoveAt(s, 1)
<1>1. /\ t \in Seq(AnyCall) /\ Len(t) = Len(s) - 1
      /\ \A j \in 1..(Len(s) - 1) : t[j] = IF j < 1 THEN s[j] ELSE s[j + 1]
  BY RemoveAtProperties
<1>2. Len(s) \in Nat /\ DOMAIN s = 1..Len(s) /\ DOMAIN t = 1..(Len(s) - 1)
  BY <1>1, LenProperties
<1> HIDE DEF t
<1>3. /\ \A j \in DOMAIN t : j + 1 \in DOMAIN s \ {1} /\ t[j] = s[j + 1]
      /\ \A j \in DOMAIN s \ {1} : j - 1 \in DOMAIN t /\ t[j - 1] = s[j]
      /\ DOMAIN s \subseteq Nat /\ DOMAIN t \subseteq Nat
      /\ 1 \in DOMAIN s /\ \A j \in DOMAIN s : j = 1 \/ 1 < j
  BY <1>1, <1>2
<1>4. QED  BY <1>1, <1>3 DEF t

(* Calls are sent: they come after those that wait.                        *)
LEMMA Lengthened ==
    ASSUME NEW s \in Seq(AnyCall), NEW u \in Seq(AnyCall)
    PROVE  LET t == s \o u IN
           /\ t \in Seq(AnyCall)
           /\ \A j \in DOMAIN t :
                 \/ j \in DOMAIN s /\ t[j] = s[j]
                 \/ /\ j - Len(s) \in DOMAIN u /\ t[j] = u[j - Len(s)]
                    /\ \A i \in DOMAIN s : i < j
           /\ \A k \in DOMAIN s : k \in DOMAIN t /\ t[k] = s[k]
           /\ \A k \in DOMAIN u : Len(s) + k \in DOMAIN t /\ t[Len(s) + k] = u[k]
           /\ DOMAIN s \subseteq Nat /\ DOMAIN t \subseteq Nat
<1> DEFINE t == s \o u
<1>1. /\ t \in Seq(AnyCall) /\ Len(t) = Len(s) + Len(u)
      /\ \A j \in 1..Len(t) : t[j] = IF j <= Len(s) THEN s[j] ELSE u[j - Len(s)]
  BY ConcatProperties
<1>2. /\ Len(s) \in Nat /\ Len(u) \in Nat
      /\ DOMAIN s = 1..Len(s) /\ DOMAIN u = 1..Len(u) /\ DOMAIN t = 1..Len(t)
  BY <1>1, LenProperties
<1> HIDE DEF t
<1>3. \A j \in DOMAIN t :
          \/ j \in DOMAIN s /\ t[j] = s[j]
          \/ /\ j - Len(s) \in DOMAIN u /\ t[j] = u[j - Len(s)]
             /\ \A i \in DOMAIN s : i < j
  BY <1>1, <1>2
<1>4. \A k \in DOMAIN s : k \in DOMAIN t /\ t[k] = s[k]
  BY <1>1, <1>2
<1>5. \A k \in DOMAIN u : Len(s) + k \in DOMAIN t /\ t[Len(s) + k] = u[k]
  BY <1>1, <1>2
<1>6. DOMAIN s \subseteq Nat /\ DOMAIN t \subseteq Nat
  BY <1>1, <1>2
<1>7. QED  BY <1>1, <1>3, <1>4, <1>5, <1>6 DEF t

LEMMA Appended ==
    ASSUME NEW s \in Seq(AnyCall), NEW c \in AnyCall
    PROVE  LET t == Append(s, c) n == Len(s) + 1 IN
           /\ t \in Seq(AnyCall) /\ n \in DOMAIN t /\ t[n] = c
           /\ \A j \in DOMAIN t : (j \in DOMAIN s /\ t[j] = s[j]) \/ j = n
           /\ \A k \in DOMAIN s : k \in DOMAIN t /\ t[k] = s[k] /\ k < n
           /\ DOMAIN s \subseteq Nat /\ DOMAIN t \subseteq Nat
<1> DEFINE t == Append(s, c)
<1>1. /\ t \in Seq(AnyCall) /\ Len(t) = Len(s) + 1
      /\ DOMAIN s = 1..Len(s) /\ Len(s) \in Nat
      /\ DOMAIN t = 1..(Len(s) + 1)
      /\ \A j \in 1..Len(s) : t[j] = s[j]
      /\ t[Len(s) + 1] = c
  BY LenProperties
<1> HIDE DEF t
<1>2. /\ Len(s) + 1 \in DOMAIN t
      /\ \A j \in DOMAIN t : (j \in DOMAIN s /\ t[j] = s[j]) \/ j = Len(s) + 1
      /\ \A k \in DOMAIN s : k \in DOMAIN t /\ t[k] = s[k] /\ k < Len(s) + 1
      /\ DOMAIN s \subseteq Nat /\ DOMAIN t \subseteq Nat
  BY <1>1
<1>3. QED  BY <1>1, <1>2 DEF t

(* What a change of the line adds to what there is: no query, and nothing  *)
(* about orders.                                                           *)
NothingNew(s, t) ==
    /\ LineOK(s) => LineOK(t)
    /\ AtMostOneQuery(s) => AtMostOneQuery(t)
    /\ \A i \in Queries(t) : \E k \in Queries(s) : t[i] = s[k]
    /\ \A i \in Lookups(t) : \E k \in Lookups(s) : t[i] = s[k]
    /\ \A i \in Inserts(t) : \E k \in Inserts(s) : t[i] = s[k]
InsertsStay(s, t) == \A i \in Inserts(s) : \E j \in Inserts(t) : t[j] = s[i]

(* The head is answered, ...                                               *)
LEMMA LineShortened ==
    ASSUME NEW s \in Seq(AnyCall), 1 \in 1..Len(s)
    PROVE  /\ NothingNew(s, RemoveAt(s, 1))
           /\ s[1].op # "insert" => InsertsStay(s, RemoveAt(s, 1))
<1> DEFINE t == RemoveAt(s, 1)
<1>1. /\ \A j \in DOMAIN t : j + 1 \in DOMAIN s /\ t[j] = s[j + 1]
      /\ \A j \in DOMAIN s \ {1} : j - 1 \in DOMAIN t /\ t[j - 1] = s[j]
      /\ DOMAIN t \subseteq Nat
  BY Shortened
<1> HIDE DEF t
<1>2. /\ \A j \in Queries(t) : j \in Nat /\ j + 1 \in Queries(s) /\ t[j] = s[j + 1]
      /\ \A j \in Lookups(t) : j \in Nat /\ j + 1 \in Lookups(s) /\ t[j] = s[j + 1]
      /\ \A j \in Inserts(t) : j \in Nat /\ j + 1 \in Inserts(s) /\ t[j] = s[j + 1]
  BY <1>1 DEF Queries, Lookups, Inserts
<1>3. ASSUME LineOK(s) PROVE LineOK(t)
  <2>1. \A i \in Queries(t), j \in Lookups(t) : j < i
    <3> SUFFICES ASSUME NEW i \in Queries(t), NEW j \in Lookups(t) PROVE j < i
      OBVIOUS
    <3>1. j + 1 < i + 1 /\ i \in Nat /\ j \in Nat
      BY <1>2, <1>3 DEF LineOK
    <3>2. QED  BY <3>1
  <2>2. \A i, j \in Lookups(t) : t[i].uid[1] = t[j].uid[1] => t[i].uid = t[j].uid
    <3>1. \A i, j \in Lookups(s) : s[i].uid[1] = s[j].uid[1] => s[i].uid = s[j].uid
      BY <1>3 DEF LineOK
    <3>2. QED  BY <1>2, <3>1
  <2>3. \A i \in Lookups(t), j \in Inserts(t) :
            i < j /\ t[i].uid[1] = t[j].uid[1] => t[i].uid = t[j].uid
    <3> SUFFICES ASSUME NEW i \in Lookups(t), NEW j \in Inserts(t),
                        i < j, t[i].uid[1] = t[j].uid[1]
                 PROVE  t[i].uid = t[j].uid
      OBVIOUS
    <3>1. i \in Nat /\ j \in Nat /\ t[i] = s[i + 1] /\ t[j] = s[j + 1]
      BY <1>2
    <3>2. i + 1 < j + 1
      BY <3>1
    <3>3. QED  BY <1>2, <1>3, <3>1, <3>2 DEF LineOK
  <2>4. \A i, j \in Inserts(t) : t[i].uid = t[j].uid => i = j
    <3> SUFFICES ASSUME NEW i \in Inserts(t), NEW j \in Inserts(t), t[i].uid = t[j].uid
                 PROVE  i = j
      OBVIOUS
    <3>1. i \in Nat /\ j \in Nat /\ i + 1 = j + 1
      BY <1>2, <1>3 DEF LineOK
    <3>2. QED  BY <3>1
  <2>5. QED  BY <2>1, <2>2, <2>3, <2>4 DEF LineOK
<1>4. ASSUME AtMostOneQuery(s) PROVE AtMostOneQuery(t)
  <2> SUFFICES ASSUME NEW i \in Queries(t), NEW j \in Queries(t) PROVE i = j
    BY DEF AtMostOneQuery
  <2>1. i \in Nat /\ j \in Nat /\ i + 1 = j + 1
    BY <1>2, <1>4 DEF AtMostOneQuery
  <2>2. QED  BY <2>1
<1>5. NothingNew(s, t)
  BY <1>2, <1>3, <1>4 DEF NothingNew
<1>6. s[1].op # "insert" => InsertsStay(s, t)
  BY <1>1 DEF Inserts, InsertsStay
<1>7. QED  BY <1>5, <1>6 DEF t

(* ... and calls are sent that are neither queries nor about orders.       *)
LEMMA LineSame ==
    ASSUME NEW s, NEW t,
           \A j \in DOMAIN t : (j \in DOMAIN s /\ t[j] = s[j]) \/ Neutral(t[j]),
           \A j \in DOMAIN s : j \in DOMAIN t /\ t[j] = s[j]
    PROVE  NothingNew(s, t) /\ InsertsStay(s, t)
<1>1. /\ \A j \in Queries(t) : j \in Queries(s) /\ t[j] = s[j]
      /\ \A j \in Lookups(t) : j \in Lookups(s) /\ t[j] = s[j]
      /\ \A j \in Inserts(t) : j \in Inserts(s) /\ t[j] = s[j]
  BY DEF Queries, Lookups, Inserts, Neutral
<1>2. AtMostOneQuery(s) => AtMostOneQuery(t)
  BY <1>1 DEF AtMostOneQuery
<1>3. LineOK(s) => LineOK(t)
  BY <1>1 DEF LineOK
<1>4. InsertsStay(s, t)
  BY DEF InsertsStay, Inserts
<1>5. QED  BY <1>1, <1>2, <1>3, <1>4 DEF NothingNew

LEMMA NothingNewTwice ==
    ASSUME NEW s, NEW t, NEW u, NothingNew(s, t), NothingNew(t, u)
    PROVE  NothingNew(s, u)
<1>1. (LineOK(s) => LineOK(u)) /\ (AtMostOneQuery(s) => AtMostOneQuery(u))
  BY DEF NothingNew
<1>2. \A i \in Queries(u) : \E k \in Queries(s) : u[i] = s[k]
  BY DEF NothingNew
<1>3. \A i \in Lookups(u) : \E k \in Lookups(s) : u[i] = s[k]
  BY DEF NothingNew
<1>4. \A i \in Inserts(u) : \E k \in Inserts(s) : u[i] = s[k]
  BY DEF NothingNew
<1>5. QED  BY <1>1, <1>2, <1>3, <1>4 DEF NothingNew

-----------------------------------------------------------------------------
(* What steps keep *)

LEMMA LoadsKept ==
    ASSUME LoadsInv, UNCHANGED <<loads, subs, wired>>, NothingNew(calls, calls'),
           phase' = "down" => phase = "down" /\ calls' = calls
    PROVE  LoadsInv'
<1>1. AtMostOneQuery(calls') /\ \A i \in Queries(calls') : loads'[calls'[i].load].pc = "read"
  BY DEF LoadsInv, NothingNew
<1>2. QED  BY <1>1 DEF LoadsInv, Going

LEMMA RestKept ==
    ASSUME RestInv, UNCHANGED loads, NothingNew(calls, calls'),
           \A r \in Rule : cache'[r] = "armed" => cache[r] = "armed"
    PROVE  RestInv'
<1>1. \A r \in Rule : Rests(r) => Rests(r)'
  BY DEF Rests, NothingNew
<1>2. QED  BY <1>1 DEF RestInv

LEMMA OrdersKept ==
    ASSUME OrdersInv, UNCHANGED <<tracked, orderRows>>,
           NothingNew(calls, calls'), InsertsStay(calls, calls')
    PROVE  OrdersInv'
<1>1. \A i \in Inserts(calls') :
          calls'[i].uid \in tracked /\ orderRows[calls'[i].uid] # "active"
  BY DEF OrdersInv, NothingNew
<1>2. ASSUME NEW u \in tracked
      PROVE  orderRows[u] = "active" \/ \E i \in DOMAIN calls' : calls'[i] = Insert(u)
  <2>1. CASE orderRows[u] = "active"
    BY <2>1
  <2>2. CASE orderRows[u] # "active"
    <3>1. PICK i \in DOMAIN calls : calls[i] = Insert(u)
      BY <1>2, <2>2 DEF OrdersInv
    <3>2. i \in Inserts(calls)
      BY <3>1 DEF Inserts, Insert
    <3>3. QED  BY <3>1, <3>2 DEF InsertsStay, Inserts
  <2>3. QED  BY <2>1, <2>2
<1>3. QED  BY <1>1, <1>2 DEF OrdersInv, InWorks

(* Calls that are not about orders come and go.                            *)
LEMMA CallsChange ==
    ASSUME DispatchInv, calls' \in Seq(AnyCall),
           NothingNew(calls, calls'), InsertsStay(calls, calls'),
           UNCHANGED <<loads, cache, subs, wired, phase, candle, tracked, orderRows>>,
           phase # "down"
    PROVE  DispatchInv'
<1>1. TypedInv'
  BY DEF DispatchInv, TypedInv
<1>2. LoadsInv' /\ RestInv' /\ OrdersInv'
  BY LoadsKept, RestKept, OrdersKept DEF DispatchInv
<1>3. LineOK(calls')
  BY DEF DispatchInv, NothingNew
<1>4. QED  BY <1>1, <1>2, <1>3 DEF DispatchInv

LEMMA DispatchInvInit == DispatchInit => DispatchInv
<1> SUFFICES ASSUME DispatchInit PROVE DispatchInv
  OBVIOUS
<1>1. /\ calls = <<>> /\ loads = [l \in Load |-> Ready] /\ subs = 0 /\ wired = FALSE
      /\ cache = [r \in Rule |-> "absent"]
      /\ candle = 0 /\ tracked = {} /\ orderRows = [u \in Uid |-> "absent"]
  BY DEF DispatchInit, Init
<1>2. Queries(calls) = {} /\ Lookups(calls) = {} /\ Inserts(calls) = {}
  BY <1>1 DEF Queries, Lookups, Inserts
<1>3. TypedInv
  BY <1>1, DispatchAssumption DEF TypedInv, Ready, LoadState
<1>4. LoadsInv
  BY <1>1, <1>2 DEF LoadsInv, Going, Ready, AtMostOneQuery
<1>5. LineOK(calls) /\ RestInv /\ OrdersInv
  BY <1>1, <1>2 DEF LineOK, RestInv, Rests, OrdersInv, InWorks
<1>6. QED  BY <1>3, <1>4, <1>5 DEF DispatchInv

(* What a call carries.                                                    *)
LEMMA CallShapes ==
    ASSUME TypedInv, NEW i \in DOMAIN calls
    PROVE  /\ calls[i].op = "find" => calls[i].load \in Load
           /\ calls[i].op \in {"lookup", "insert"} => calls[i].uid \in Uid
           /\ calls[i].op \in {"get", "set", "save", "delete"} => calls[i].rule \in Rule
           /\ calls[i].op = "get" => calls[i].then \in Ops \ {"create"}
           /\ calls[i].op = "insert" => calls[i] = Insert(calls[i].uid)
<1>1. calls[i] \in AnyCall
  BY DEF TypedInv
<1>2. QED  BY <1>1, CallShape

LEMMA NoLoadNoQueries == ASSUME TypedInv, LoadsInv, Going = {} PROVE Queries(calls) = {}
<1>1. \A i \in Queries(calls) : calls[i].load \in Load /\ loads[calls[i].load].pc = "read"
  BY CallShapes DEF LoadsInv, Queries
<1>2. QED  BY <1>1 DEF Going

-----------------------------------------------------------------------------
(* The engine *)

(* A load begins: its query is the only one, and comes last.               *)
LEMMA QueryLast ==
    ASSUME NEW s, NEW t, NEW n, LineOK(s),
           \A j \in Queries(t) : j = n,
           \A j \in Lookups(t) : j \in Lookups(s) /\ t[j] = s[j] /\ j < n,
           \A j \in Inserts(t) : j \in Inserts(s) /\ t[j] = s[j]
    PROVE  LineOK(t)
<1>1. \A i \in Queries(t), j \in Lookups(t) : j < i
  OBVIOUS
<1>2. \A i, j \in Lookups(t) : t[i].uid[1] = t[j].uid[1] => t[i].uid = t[j].uid
  BY DEF LineOK
<1>3. \A i \in Lookups(t), j \in Inserts(t) :
          i < j /\ t[i].uid[1] = t[j].uid[1] => t[i].uid = t[j].uid
  BY DEF LineOK
<1>4. \A i, j \in Inserts(t) : t[i].uid = t[j].uid => i = j
  BY DEF LineOK
<1>5. QED  BY <1>1, <1>2, <1>3, <1>4 DEF LineOK

LEMMA LoadBegins ==
    ASSUME DispatchInv, Going = {}, NEW l \in Load,
           loads' = [loads EXCEPT ![l].pc = "read"], calls' = Append(calls, Find(l)),
           subs' = 0, wired' = FALSE, phase' # "down"
    PROVE  /\ calls' \in Seq(AnyCall) /\ loads' \in [Load -> LoadState]
           /\ LoadsInv' /\ LineOK(calls')
           /\ RestInv /\ UNCHANGED cache => RestInv'
           /\ OrdersInv /\ UNCHANGED <<tracked, orderRows>> => OrdersInv'
<1>0. TypedInv /\ LoadsInv /\ LineOK(calls)
  BY DEF DispatchInv
<1>1. Find(l) \in AnyCall /\ Find(l).op = "find" /\ Find(l).load = l
  BY DEF AnyCall, CallState, Find
<1> DEFINE n == Len(calls) + 1
<1>2. /\ calls' \in Seq(AnyCall) /\ n \in DOMAIN calls' /\ calls'[n] = Find(l)
      /\ \A j \in DOMAIN calls' : (j \in DOMAIN calls /\ calls'[j] = calls[j]) \/ j = n
      /\ \A k \in DOMAIN calls : k \in DOMAIN calls' /\ calls'[k] = calls[k] /\ k < n
  BY <1>0, <1>1, Appended DEF TypedInv
<1> HIDE DEF n
<1>3. Queries(calls) = {}
  BY <1>0, NoLoadNoQueries
<1>4. /\ \A j \in Queries(calls') : j = n
      /\ \A j \in Lookups(calls') : j \in Lookups(calls) /\ calls'[j] = calls[j] /\ j < n
      /\ \A j \in Inserts(calls') : j \in Inserts(calls) /\ calls'[j] = calls[j]
      /\ \A j \in Inserts(calls) : j \in Inserts(calls') /\ calls'[j] = calls[j]
  BY <1>1, <1>2, <1>3 DEF Queries, Lookups, Inserts
<1>5. /\ loads' \in [Load -> LoadState] /\ loads'[l].pc = "read"
      /\ \A k \in Load : k # l => loads'[k].pc = "idle"
  BY <1>0 DEF TypedInv, LoadState, Going
<1>6. LoadsInv'
  BY <1>1, <1>2, <1>4, <1>5 DEF LoadsInv, Going, AtMostOneQuery
<1>7. LineOK(calls')
  BY <1>0, <1>4, QueryLast
<1>8. ASSUME RestInv, UNCHANGED cache PROVE RestInv'
  <2>1. \A r \in Rule : Rests(r) => Rests(r)'
    BY <1>4 DEF Rests
  <2>2. \A k \in Load : loads'[k].pc # "seed"
    BY <1>5
  <2>3. \A r \in Rule : cache'[r] = "armed" => Rests(r)
    BY <1>8 DEF RestInv
  <2>4. QED  BY <2>1, <2>2, <2>3 DEF RestInv
<1>9. ASSUME OrdersInv, UNCHANGED <<tracked, orderRows>> PROVE OrdersInv'
  <2>1. \A i \in Inserts(calls') :
            calls'[i].uid \in tracked' /\ orderRows'[calls'[i].uid] # "active"
    BY <1>4, <1>9 DEF OrdersInv
  <2>2. \A u \in tracked' : orderRows'[u] = "active" \/ \E i \in DOMAIN calls' : calls'[i] = Insert(u)
    BY <1>2, <1>9 DEF OrdersInv
  <2>3. \A u, v \in Uid : InWorks(u)' /\ InWorks(v)' /\ u[1] = v[1] => u = v
    BY <1>9 DEF OrdersInv, InWorks
  <2>4. QED  BY <2>1, <2>2, <2>3 DEF OrdersInv
<1>10. QED  BY <1>2, <1>5, <1>6, <1>7, <1>8, <1>9

LEMMA DispatchTimerFires ==
    ASSUME OverlapAllowed = FALSE, DispatchInv, TimerFires, UNCHANGED orderVars
    PROVE  DispatchInv'
<1>0. /\ phase = "up" /\ UNCHANGED <<phase, cache, candle, orderRows, tracked>>
      /\ TypedInv /\ LoadsInv /\ RestInv /\ OrdersInv /\ LineOK(calls)
  BY DEF TimerFires, process, orderVars, DispatchInv
<1>1. CASE mode = "idle"
  <2>1. UNCHANGED <<calls, loads, subs, wired>>
    BY <1>1 DEF TimerFires
  <2>2. NothingNew(calls, calls') /\ InsertsStay(calls, calls')
    BY <2>1, LineSame
  <2>3. QED  BY <1>0, <2>1, <2>2, CallsChange DEF TypedInv
<1>2. CASE mode # "idle"
  <2>1. PICK l \in Load :
            /\ NoLoadGoing /\ subs' = Unwired /\ wired' = FALSE
            /\ loads' = [loads EXCEPT ![l].pc = "read"]
            /\ calls' = Append(calls, Find(l))
    BY <1>2 DEF TimerFires
  <2>2. Going = {} /\ subs' = 0
    BY <1>0, <2>1 DEF Going, NoLoadGoing, Unwired, LoadsInv
  <2>3. /\ calls' \in Seq(AnyCall) /\ loads' \in [Load -> LoadState]
        /\ LoadsInv' /\ LineOK(calls') /\ RestInv' /\ OrdersInv'
    BY <1>0, <2>1, <2>2, LoadBegins
  <2>4. QED  BY <1>0, <2>3 DEF DispatchInv, TypedInv
<1>3. QED  BY <1>1, <1>2

(* The process is down: no order is tracked until it starts, and those     *)
(* with an active row then are.                                            *)
LEMMA DispatchStart == ASSUME DispatchInv, StartAll PROVE DispatchInv'
<1>0. /\ phase = "down" /\ tracked' = {u \in Uid : orderRows[u] = "active"}
      /\ UNCHANGED <<cache, subs, wired, candle, orderRows>>
      /\ TypedInv /\ LoadsInv /\ RestInv /\ OrdersInv /\ LineOK(calls)
  BY DEF StartAll, Start, DispatchInv
<1>1. Going = {} /\ calls = <<>> /\ ~wired /\ subs = 0
  BY <1>0 DEF LoadsInv
<1>2. Inserts(calls) = {} /\ Inserts(calls') = {}
  <2>1. Inserts(calls) = {}
    BY <1>1 DEF Inserts
  <2>2. CASE UNCHANGED calls
    BY <2>1, <2>2
  <2>3. ASSUME NEW l \in Load, calls' = Append(calls, Find(l)) PROVE Inserts(calls') = {}
    <3>1. calls' = <<Find(l)>>
      BY <1>1, <2>3
    <3>2. QED  BY <3>1 DEF Inserts, Find
  <2>4. QED  BY <2>1, <2>2, <2>3 DEF StartAll, Start
<1>3. OrdersInv'
  BY <1>0, <1>2 DEF OrdersInv, InWorks
<1>4. TypedInv' /\ LoadsInv' /\ LineOK(calls') /\ RestInv'
  <2>1. CASE mode' = "idle"
    <3>1. phase' = "up" /\ UNCHANGED <<calls, loads>>
      BY <2>1 DEF StartAll, Start
    <3>2. NothingNew(calls, calls')
      BY <3>1, LineSame
    <3>3. LoadsInv' /\ RestInv'
      BY <1>0, <3>1, <3>2, LoadsKept, RestKept
    <3>4. QED  BY <1>0, <3>1, <3>3 DEF TypedInv
  <2>2. CASE mode' # "idle"
    <3>1. PICK l \in Load : /\ phase' = "starting"
                            /\ loads' = [loads EXCEPT ![l].pc = "read"]
                            /\ calls' = Append(calls, Find(l))
      BY <2>2 DEF StartAll, Start
    <3>2. subs' = 0 /\ wired' = FALSE /\ phase' # "down" /\ Going = {}
      BY <1>0, <1>1, <3>1
    <3>3. /\ calls' \in Seq(AnyCall) /\ loads' \in [Load -> LoadState]
          /\ LoadsInv' /\ LineOK(calls') /\ RestInv'
      BY <1>0, <3>1, <3>2, LoadBegins
    <3>4. QED  BY <1>0, <3>3 DEF TypedInv
  <2>3. QED  BY <2>1, <2>2
<1>5. QED  BY <1>3, <1>4 DEF DispatchInv

LEMMA DispatchCrash == ASSUME DispatchInv, CrashAll PROVE DispatchInv'
<1>0. /\ calls' = <<>> /\ loads' = [l \in Load |-> Ready] /\ subs' = 0 /\ wired' = FALSE
      /\ cache' = [r \in Rule |-> "absent"] /\ phase' = "down"
      /\ tracked' = {} /\ UNCHANGED <<candle, orderRows>>
      /\ TypedInv /\ OrdersInv
  BY DEF CrashAll, Crash, DispatchInv
<1>1. Queries(calls') = {} /\ Lookups(calls') = {} /\ Inserts(calls') = {}
  BY <1>0 DEF Queries, Lookups, Inserts
<1>2. TypedInv'
  BY <1>0 DEF TypedInv, Ready, LoadState
<1>3. LoadsInv'
  BY <1>0, <1>1 DEF LoadsInv, Going, Ready, AtMostOneQuery
<1>4. LineOK(calls') /\ RestInv'
  BY <1>0, <1>1 DEF LineOK, RestInv, Rests
<1>5. OrdersInv'
  BY <1>0, <1>1 DEF OrdersInv, InWorks
<1>6. QED  BY <1>2, <1>3, <1>4, <1>5 DEF DispatchInv

(* The query is answered at the head of the line: no lookup is left.       *)
LEMMA DispatchFindAnswered ==
    ASSUME DispatchInv, 1 \in 1..Len(calls), FindAnswered(1), UNCHANGED orderVars
    PROVE  DispatchInv'
<1> DEFINE l == calls[1].load
<1>0. /\ TypedInv /\ LoadsInv /\ RestInv /\ OrdersInv /\ LineOK(calls)
      /\ calls \in Seq(AnyCall) /\ loads \in [Load -> LoadState]
      /\ calls[1].op = "find" /\ calls' = RemoveAt(calls, 1)
      /\ UNCHANGED <<subs, wired, candle, orderRows, tracked>>
  BY DEF DispatchInv, TypedInv, FindAnswered, orderVars
<1>1. /\ calls' \in Seq(AnyCall) /\ DOMAIN calls' \subseteq Nat
      /\ \A j \in DOMAIN calls' : j + 1 \in DOMAIN calls /\ calls'[j] = calls[j + 1]
      /\ 1 \in DOMAIN calls /\ \A j \in DOMAIN calls : j = 1 \/ 1 < j
      /\ DOMAIN calls \subseteq Nat
  BY <1>0, Shortened
<1>2. /\ NothingNew(calls, calls') /\ InsertsStay(calls, calls')
  BY <1>0, LineShortened
<1>3. 1 \in Queries(calls) /\ l \in Load /\ loads[l].pc = "read"
  BY <1>0, <1>1, CallShapes DEF Queries, LoadsInv
<1>4. Queries(calls') = {}
  <2> SUFFICES ASSUME NEW j \in Queries(calls') PROVE FALSE
    OBVIOUS
  <2>1. j + 1 \in Queries(calls) /\ j \in Nat /\ j \in DOMAIN calls'
    BY <1>1 DEF Queries
  <2>2. j + 1 = 1
    BY <1>0, <1>3, <2>1 DEF LoadsInv, AtMostOneQuery
  <2>3. CASE j = 0
    BY <1>0, <1>1, <2>1, <2>3, LenProperties
  <2>4. QED  BY <2>1, <2>2, <2>3
<1>5. Lookups(calls') = {}
  <2> SUFFICES ASSUME NEW j \in Lookups(calls') PROVE FALSE
    OBVIOUS
  <2>1. PICK k \in Lookups(calls) : calls'[j] = calls[k]
    BY <1>2 DEF NothingNew
  <2>2. k < 1 /\ k \in DOMAIN calls
    BY <1>0, <1>3, <2>1 DEF LineOK, Lookups
  <2>3. QED  BY <1>1, <2>2
<1>6. Going = {l} /\ ~wired /\ subs = 0
  BY <1>0, <1>3 DEF Going, LoadsInv
<1>7. phase # "down"
  BY <1>0, <1>6 DEF LoadsInv
<1>8. /\ loads' \in [Load -> LoadState] /\ Going' \subseteq {l} /\ phase' # "down"
  <2>1. CASE ActiveRules = {}
    <3>1. loads' = [loads EXCEPT ![l] = Ready] /\ phase' = "up"
      BY <2>1 DEF FindAnswered
    <3>2. Ready \in LoadState
      BY DEF Ready, LoadState
    <3>3. loads' \in [Load -> LoadState] /\ \A k \in Load : k # l => loads'[k] = loads[k]
      BY <1>0, <3>1, <3>2
    <3>4. QED  BY <1>6, <3>1, <3>3 DEF Going
  <2>2. CASE ActiveRules # {}
    <3>1. /\ loads' = [loads EXCEPT ![l] = [pc |-> "seed", rules |-> ActiveRules]]
          /\ phase' = phase
      BY <2>2 DEF FindAnswered
    <3>2. [pc |-> "seed", rules |-> ActiveRules] \in LoadState
      BY DEF LoadState, ActiveRules
    <3>3. loads' \in [Load -> LoadState] /\ \A k \in Load : k # l => loads'[k] = loads[k]
      BY <1>0, <3>1, <3>2
    <3>4. QED  BY <1>6, <1>7, <3>1, <3>3 DEF Going
  <2>3. QED  BY <2>1, <2>2
<1>9. TypedInv'
  <2>1. cache' = cache \/ cache' = [r \in Rule |-> "absent"]
    BY DEF FindAnswered
  <2>2. cache' \in [Rule -> {"absent", "armed", "spent"}]
    BY <1>0, <2>1 DEF TypedInv
  <2>3. QED  BY <1>0, <1>1, <1>8, <2>2 DEF TypedInv
<1>10. LoadsInv'
  BY <1>0, <1>4, <1>6, <1>8 DEF LoadsInv, AtMostOneQuery
<1>11. LineOK(calls') /\ RestInv' /\ OrdersInv'
  BY <1>0, <1>2, <1>5, OrdersKept DEF NothingNew, RestInv, Rests
<1>12. QED  BY <1>9, <1>10, <1>11 DEF DispatchInv

LEMMA DispatchSeeded ==
    ASSUME DispatchInv, NEW l \in Load, Seeded(l), UNCHANGED orderVars PROVE DispatchInv'
<1>0. /\ TypedInv /\ LoadsInv /\ RestInv /\ OrdersInv /\ LineOK(calls)
      /\ loads[l].pc = "seed" /\ cache' = Loaded(loads[l].rules)
      /\ subs' = subs + 1 /\ wired' = TRUE /\ loads' = [loads EXCEPT ![l] = Ready]
      /\ phase' = "up" /\ UNCHANGED <<calls, candle, orderRows, tracked>>
  BY DEF DispatchInv, Seeded, orderVars
<1>1. Ready \in LoadState /\ Ready.pc = "idle"
  BY DEF Ready, LoadState
<1>2. loads' \in [Load -> LoadState] /\ Going = {l} /\ Going' = {}
  BY <1>0, <1>1 DEF TypedInv, LoadsInv, Going
<1>3. subs' = 1
  BY <1>0, <1>2 DEF LoadsInv
<1>4. Queries(calls) = {}
  <2> SUFFICES ASSUME NEW i \in Queries(calls) PROVE FALSE
    OBVIOUS
  <2>1. calls[i].load \in Load /\ loads[calls[i].load].pc = "read"
    BY <1>0, CallShapes DEF LoadsInv, Queries
  <2>2. calls[i].load \in Going
    BY <2>1 DEF Going
  <2>3. QED  BY <1>0, <1>2, <2>1, <2>2
<1>5. LoadsInv'
  BY <1>0, <1>2, <1>3, <1>4 DEF LoadsInv, AtMostOneQuery
<1>6. TypedInv'
  BY <1>0, <1>2 DEF TypedInv, Loaded
<1>7. RestInv'
  <2> SUFFICES ASSUME NEW r \in Rule, cache'[r] = "armed" PROVE Rests(r)'
    BY <1>2 DEF RestInv, Going
  <2>1. r \in loads[l].rules
    BY <1>0 DEF Loaded
  <2>2. Rests(r)
    BY <1>0, <2>1 DEF RestInv
  <2>3. QED  BY <1>0, <2>2 DEF Rests
<1>8. OrdersInv'
  BY <1>0 DEF OrdersInv, InWorks
<1>9. QED  BY <1>0, <1>5, <1>6, <1>7, <1>8 DEF DispatchInv

(* Requests and writes.                                                    *)
LEMMA DispatchAsk ==
    ASSUME DispatchInv, NEW q \in Request, NEW r \in Rule, Ask(q, r), UNCHANGED orderVars
    PROVE  DispatchInv'
<1>0. /\ phase = "up" /\ calls \in Seq(AnyCall)
      /\ UNCHANGED <<phase, loads, cache, subs, wired, candle, orderRows, tracked>>
  BY DEF DispatchInv, TypedInv, Ask, process, engine, orderVars
<1>1. PICK c \in AnyCall : calls' = Append(calls, c) /\ Neutral(c)
  <2>1. PICK op \in Ops : calls' \in IF op = "create"
                                     THEN {Append(calls, Save(r, on)) : on \in BOOLEAN}
                                     ELSE {Append(calls, Get(r, op))}
    BY DEF Ask
  <2>2. CASE op = "create"
    <3>1. PICK on \in BOOLEAN : calls' = Append(calls, Save(r, on))
      BY <2>1, <2>2
    <3>2. Save(r, on) \in AnyCall /\ Neutral(Save(r, on))
      BY DEF Save, AnyCall, CallState, Neutral
    <3>3. QED  BY <3>1, <3>2
  <2>3. CASE op # "create"
    <3>1. Get(r, op) \in AnyCall /\ Neutral(Get(r, op))
      BY <2>3 DEF Get, AnyCall, CallState, Neutral
    <3>2. QED  BY <2>1, <2>3, <3>1
  <2>4. QED  BY <2>2, <2>3
<1>2. /\ calls' \in Seq(AnyCall)
      /\ \A j \in DOMAIN calls' : (j \in DOMAIN calls /\ calls'[j] = calls[j]) \/ Neutral(calls'[j])
      /\ \A j \in DOMAIN calls : j \in DOMAIN calls' /\ calls'[j] = calls[j]
  BY <1>0, <1>1, Appended
<1>3. NothingNew(calls, calls') /\ InsertsStay(calls, calls')
  BY <1>2, LineSame
<1>4. QED  BY <1>0, <1>2, <1>3, CallsChange

LEMMA DispatchGetAnswered ==
    ASSUME DispatchInv, 1 \in 1..Len(calls), GetAnswered(1), UNCHANGED orderVars
    PROVE  DispatchInv'
<1> DEFINE s == RemoveAt(calls, 1)
           c == Follow(calls[1].rule, calls[1].then)
<1>0. /\ TypedInv /\ LoadsInv /\ calls \in Seq(AnyCall)
      /\ calls[1].op = "get"
      /\ calls' = s \/ calls' = Append(s, c)
      /\ UNCHANGED <<phase, loads, cache, subs, wired, candle, orderRows, tracked>>
  BY DEF DispatchInv, TypedInv, GetAnswered, process, engine, orderVars
<1>1. s \in Seq(AnyCall) /\ 1 \in DOMAIN calls
  BY <1>0, Shortened
<1>2. NothingNew(calls, s) /\ InsertsStay(calls, s)
  BY <1>0, LineShortened
<1>3. phase # "down"
  BY <1>0, <1>1 DEF LoadsInv
<1>4. calls[1].rule \in Rule /\ calls[1].then \in Ops \ {"create"}
  BY <1>0, <1>1, CallShapes
<1>5. c \in AnyCall /\ Neutral(c)
  <2>1. calls[1].then \in {"edit", "activate", "deactivate", "delete"}
    BY <1>4, RuleAssumption
  <2>2. QED  BY <1>4, <2>1 DEF Follow, Set, Delete, AnyCall, CallState, Neutral
<1> HIDE DEF s, c
<1>6. CASE calls' = s
  BY <1>0, <1>1, <1>2, <1>3, <1>6, CallsChange
<1>7. CASE calls' = Append(s, c)
  <2>1. /\ calls' \in Seq(AnyCall)
        /\ \A j \in DOMAIN calls' : (j \in DOMAIN s /\ calls'[j] = s[j]) \/ Neutral(calls'[j])
        /\ \A j \in DOMAIN s : j \in DOMAIN calls' /\ calls'[j] = s[j]
    BY <1>1, <1>5, <1>7, Appended
  <2>2. NothingNew(s, calls') /\ InsertsStay(s, calls')
    BY <2>1, LineSame
  <2>3. NothingNew(calls, calls') /\ InsertsStay(calls, calls')
    BY <1>2, <2>2, NothingNewTwice DEF InsertsStay
  <2>4. QED  BY <1>0, <1>3, <2>1, <2>3, CallsChange
<1>8. QED  BY <1>0, <1>6, <1>7

LEMMA DispatchWriteDone ==
    ASSUME DispatchInv, 1 \in 1..Len(calls), WriteDone(1), UNCHANGED orderVars
    PROVE  DispatchInv'
<1>0. /\ LoadsInv /\ calls \in Seq(AnyCall) /\ calls[1].op # "insert"
      /\ calls' = RemoveAt(calls, 1)
      /\ UNCHANGED <<phase, loads, cache, subs, wired, candle, orderRows, tracked>>
  BY DEF DispatchInv, TypedInv, WriteDone, IsWrite, process, engine, orderVars
<1>1. calls' \in Seq(AnyCall) /\ 1 \in DOMAIN calls
  BY <1>0, Shortened
<1>2. NothingNew(calls, calls') /\ InsertsStay(calls, calls')
  BY <1>0, LineShortened
<1>3. phase # "down"
  BY <1>0, <1>1 DEF LoadsInv
<1>4. QED  BY <1>0, <1>1, <1>2, <1>3, CallsChange

-----------------------------------------------------------------------------
(* Firing *)

LookupOf(c, r) == \E side \in {"buy", "sell"} : c = Lookup(<<<<r, side>>, candle>>)

LEMMA CallsOfFiringTyped ==
    ASSUME NEW r \in Rule, candle \in 0..MaxCandle
    PROVE  /\ CallsOfFiring(r) \in Seq(AnyCall)
           /\ \A k \in DOMAIN CallsOfFiring(r) :
                 Neutral(CallsOfFiring(r)[k]) \/ LookupOf(CallsOfFiring(r)[k], r)
           /\ Deactivates(CallsOfFiring(r), r)
<1> DEFINE c == Set(r, FALSE, FALSE)
           a == DispatchActions(r)
           Good(x) == x \in AnyCall /\ (Neutral(x) \/ LookupOf(x, r)) /\ Asks(x)
<1>1. ASSUME NEW x \in Rule, NEW on \in BOOLEAN, NEW asked \in BOOLEAN, on => asked
      PROVE  Good(Set(x, on, asked))
  <2> DEFINE y == Set(x, on, asked)
  <2>1. y \in AnyCall /\ Neutral(y)
    BY <1>1 DEF Set, AnyCall, CallState, Neutral
  <2>2. y.on = on /\ y.asked = asked
    BY DEF Set
  <2>3. Asks(y)
    BY <1>1, <2>2, Zenon DEF Asks
  <2>4. QED  BY <2>1, <2>3
<1>2. a \in Seq(AnyCall) /\ \A k \in DOMAIN a : Good(a[k])
  <2>1. CASE mode = "live"
    <3> DEFINE n == Len(ActionsOf[r])
    <3>1. /\ ActionsOf[r] \in Seq([type : {"activate", "deactivate"}, rule : Rule]
                                  \cup [type : {"buy", "sell"}])
      BY DispatchAssumption
    <3>2. n \in Nat /\ DOMAIN ActionsOf[r] = 1..n
      BY <3>1, LenProperties
    <3>3. ASSUME NEW j \in 1..n PROVE Good(CallOf(r, ActionsOf[r][j]))
      <4> DEFINE x == ActionsOf[r][j]
      <4>1. \/ x \in [type : {"activate", "deactivate"}, rule : Rule]
            \/ x \in [type : {"buy", "sell"}]
        BY <3>1, <3>2
      <4> HIDE DEF x
      <4>2. CASE x \in [type : {"activate", "deactivate"}, rule : Rule]
        <5>1. CallOf(r, x) = Set(x.rule, x.type = "activate", x.type = "activate")
          BY <4>2 DEF CallOf, IsRuleActivation, Activation
        <5>2. QED  BY <1>1, <4>2, <5>1 DEF x
      <4>3. CASE x \in [type : {"buy", "sell"}]
        <5>1. CallOf(r, x) = Lookup(<<<<r, x.type>>, candle>>) /\ x.type \in {"buy", "sell"}
          BY <4>3 DEF CallOf, IsRuleActivation
        <5>2. <<<<r, x.type>>, candle>> \in Uid
          BY <5>1 DEF Uid, ActionId
        <5>3. CallOf(r, x) \in AnyCall /\ LookupOf(CallOf(r, x), r) /\ Asks(CallOf(r, x))
          BY <5>1, <5>2 DEF AnyCall, Lookup, LookupOf, Asks
        <5>4. QED  BY <5>3 DEF x
      <4>4. QED  BY <4>1, <4>2, <4>3
    <3>4. a = [j \in 1..n |-> CallOf(r, ActionsOf[r][j])]
      BY <2>1, <3>2 DEF DispatchActions
    <3> HIDE DEF n, a, Good
    <3>5. \A j \in 1..n : CallOf(r, ActionsOf[r][j]) \in AnyCall
      BY <3>3 DEF Good
    <3>6. a \in Seq(AnyCall) /\ DOMAIN a = 1..n
      BY <3>2, <3>4, <3>5, IsASeq
    <3>7. QED  BY <3>3, <3>4, <3>6
  <2>2. CASE mode # "live"
    <3> DEFINE n == Len(ActivationsOf[r])
    <3>1. n \in Nat
      BY RuleAssumption, LenProperties
    <3>2. ASSUME NEW j \in 1..n PROVE Good(Activation(ActivationsOf[r][j]))
      <4>1. /\ Activation(ActivationsOf[r][j]) \in CallState
            /\ Activation(ActivationsOf[r][j]).op = "set" /\ Asks(Activation(ActivationsOf[r][j]))
        BY ActivationTyped
      <4>2. QED  BY <4>1 DEF AnyCall, Neutral
    <3>3. a = [j \in 1..n |-> Activation(ActivationsOf[r][j])]
      BY <2>2 DEF DispatchActions, ActionCalls
    <3> HIDE DEF n, a, Good
    <3>4. \A j \in 1..n : Activation(ActivationsOf[r][j]) \in AnyCall
      BY <3>2 DEF Good
    <3>5. a \in Seq(AnyCall) /\ DOMAIN a = 1..n
      BY <3>1, <3>3, <3>4, IsASeq
    <3>6. QED  BY <3>2, <3>3, <3>5
  <2>3. QED  BY <2>1, <2>2
<1>3. Good(c)
  BY <1>1
<1> DEFINE f == <<c>> \o a
<1> HIDE DEF c, a, Good
<1>4. <<c>> \in Seq(AnyCall) /\ Len(<<c>>) = 1 /\ <<c>>[1] = c
  BY <1>3 DEF Good
<1>5. Len(a) \in Nat /\ DOMAIN a = 1..Len(a)
  BY <1>2, LenProperties
<1>6. /\ f \in Seq(AnyCall) /\ DOMAIN f = 1..(1 + Len(a))
      /\ \A j \in 1..(1 + Len(a)) : f[j] = IF j <= 1 THEN <<c>>[j] ELSE a[j - 1]
  BY <1>2, <1>4, <1>5, ConcatProperties, LenProperties
<1> HIDE DEF f
<1>7. ASSUME NEW j \in DOMAIN f PROVE Good(f[j])
  <2>1. CASE j = 1
    BY <1>3, <1>4, <1>6, <2>1
  <2>2. CASE j # 1
    <3>1. j - 1 \in DOMAIN a /\ f[j] = a[j - 1]
      BY <1>5, <1>6, <2>2
    <3>2. QED  BY <1>2, <3>1
  <2>3. QED  BY <2>1, <2>2
<1>8. CallsOfFiring(r) = f
  BY DEF CallsOfFiring, f, c, a
<1>9. 1 \in DOMAIN f /\ f[1] = c
  BY <1>4, <1>5, <1>6
<1>10. Queries(f) = {}
  BY <1>7 DEF Queries, Good, Neutral, LookupOf, Lookup
<1>11. Deactivates(f, r)
  BY <1>7, <1>9, <1>10 DEF Deactivates, Good, c
<1>12. QED  BY <1>6, <1>7, <1>8, <1>11 DEF Good

(* What a firing sends comes last.                                         *)
LEMMA LineFired ==
    ASSUME NEW s \in Seq(AnyCall), NEW u \in Seq(AnyCall), NEW x,
           LineOK(s), Queries(s) = {},
           \A i \in Lookups(s) : s[i].uid[1][1] # x,
           \A k \in DOMAIN u : Neutral(u[k]) \/ LookupOf(u[k], x)
    PROVE  LET t == s \o u IN
           /\ t \in Seq(AnyCall) /\ LineOK(t) /\ Queries(t) = {}
           /\ \A i \in Lookups(t) : (i \in Lookups(s) /\ t[i] = s[i]) \/ t[i].uid[1][1] = x
           /\ \A i \in Inserts(t) : i \in Inserts(s) /\ t[i] = s[i]
           /\ InsertsStay(s, t)
<1> DEFINE t == s \o u
<1>1. /\ t \in Seq(AnyCall)
      /\ \A j \in DOMAIN t :
            \/ j \in DOMAIN s /\ t[j] = s[j]
            \/ /\ j - Len(s) \in DOMAIN u /\ t[j] = u[j - Len(s)]
               /\ \A i \in DOMAIN s : i < j
      /\ \A k \in DOMAIN s : k \in DOMAIN t /\ t[k] = s[k]
      /\ DOMAIN s \subseteq Nat /\ DOMAIN t \subseteq Nat
  BY Lengthened
<1> HIDE DEF t
<1>2. \A j \in DOMAIN t :
          \/ j \in DOMAIN s /\ t[j] = s[j]
          \/ Neutral(t[j])
          \/ LookupOf(t[j], x) /\ \A i \in DOMAIN s : i < j
  BY <1>1
<1>3. ASSUME NEW j, LookupOf(t[j], x)
      PROVE  t[j].op = "lookup" /\ t[j].uid[1][1] = x /\ t[j].uid[2] = candle
             /\ t[j].uid = <<t[j].uid[1], candle>>
  BY <1>3 DEF LookupOf, Lookup
<1>4. \A j \in Queries(t) : j \in Queries(s)
  BY <1>2, <1>3 DEF Queries, Neutral
<1>5. \A i \in Lookups(t) :
          \/ i \in Lookups(s) /\ t[i] = s[i]
          \/ LookupOf(t[i], x) /\ \A k \in DOMAIN s : k < i
  BY <1>2 DEF Lookups, Neutral
<1>6. \A i \in Inserts(t) : i \in Inserts(s) /\ t[i] = s[i]
  BY <1>2, <1>3 DEF Inserts, Neutral
<1>7. ASSUME NEW i \in Lookups(t), NEW j \in Lookups(t), t[i].uid[1] = t[j].uid[1]
      PROVE  t[i].uid = t[j].uid
  <2>1. CASE t[i] = s[i] /\ i \in Lookups(s) /\ t[j] = s[j] /\ j \in Lookups(s)
    BY <1>7, <2>1 DEF LineOK
  <2>2. CASE LookupOf(t[i], x) /\ LookupOf(t[j], x)
    <3>1. t[i].uid = <<t[i].uid[1], candle>> /\ t[j].uid = <<t[j].uid[1], candle>>
      BY <1>3, <2>2
    <3>2. QED  BY <1>7, <3>1
  <2>3. CASE LookupOf(t[i], x) /\ t[j] = s[j] /\ j \in Lookups(s)
    <3>1. t[i].uid[1][1] = x /\ t[j].uid[1][1] # x
      BY <1>3, <2>3
    <3>2. QED  BY <1>7, <3>1
  <2>4. CASE LookupOf(t[j], x) /\ t[i] = s[i] /\ i \in Lookups(s)
    <3>1. t[j].uid[1][1] = x /\ t[i].uid[1][1] # x
      BY <1>3, <2>4
    <3>2. QED  BY <1>7, <3>1
  <2>5. QED  BY <1>5, <2>1, <2>2, <2>3, <2>4
<1>8. ASSUME NEW i \in Lookups(t), NEW j \in Inserts(t), i < j, t[i].uid[1] = t[j].uid[1]
      PROVE  t[i].uid = t[j].uid
  <2>1. j \in Inserts(s) /\ t[j] = s[j] /\ j \in DOMAIN s
    BY <1>6 DEF Inserts
  <2>2. i \in Nat /\ j \in Nat
    BY <1>1 DEF Lookups, Inserts
  <2>3. ~ (j < i)
    BY <1>8, <2>2
  <2>4. i \in Lookups(s) /\ t[i] = s[i]
    BY <1>5, <2>1, <2>3
  <2>5. QED  BY <1>8, <2>1, <2>4 DEF LineOK
<1>9. \A i, j \in Inserts(t) : t[i].uid = t[j].uid => i = j
  BY <1>6 DEF LineOK
<1>10. Queries(t) = {}
  BY <1>4
<1>11. LineOK(t)
  BY <1>7, <1>8, <1>9, <1>10 DEF LineOK
<1>12. InsertsStay(s, t)
  BY <1>1 DEF InsertsStay, Inserts
<1>13. \A i \in Lookups(t) : (i \in Lookups(s) /\ t[i] = s[i]) \/ t[i].uid[1][1] = x
  BY <1>3, <1>5
<1>14. QED  BY <1>1, <1>6, <1>10, <1>11, <1>12, <1>13 DEF t

LEMMA DispatchTrigger ==
    ASSUME DispatchInv, NEW r \in Rule, TriggerRule(r) PROVE DispatchInv'
<1> DEFINE u == CallsOfFiring(r)
<1>0. /\ TypedInv /\ LoadsInv /\ LineOK(calls) /\ RestInv /\ OrdersInv
      /\ calls \in Seq(AnyCall) /\ candle \in 0..MaxCandle
  BY DEF DispatchInv, TypedInv
<1>1. /\ phase = "up" /\ subs > 0 /\ cache[r] = "armed"
      /\ cache' = [cache EXCEPT ![r] = "spent"] /\ calls' = calls \o u
      /\ UNCHANGED <<phase, loads, subs, wired, candle, orderRows, tracked>>
  BY DEF TriggerRule, Trigger, process, orderVars
<1>2. u \in Seq(AnyCall) /\ \A k \in DOMAIN u : Neutral(u[k]) \/ LookupOf(u[k], r)
  BY <1>0, CallsOfFiringTyped
<1> HIDE DEF u
<1>3. wired /\ Going = {} /\ Queries(calls) = {}
  BY <1>0, <1>1, NoLoadNoQueries DEF LoadsInv
<1>4. \A i \in Lookups(calls) : calls[i].uid[1][1] # r
  BY <1>0, <1>1 DEF RestInv, Rests
<1> DEFINE t == calls \o u
<1>4a. /\ t \in Seq(AnyCall) /\ LineOK(t) /\ Queries(t) = {}
       /\ \A i \in Lookups(t) :
             (i \in Lookups(calls) /\ t[i] = calls[i]) \/ t[i].uid[1][1] = r
       /\ \A i \in Inserts(t) : i \in Inserts(calls) /\ t[i] = calls[i]
       /\ InsertsStay(calls, t)
  <2>1. LineOK(calls)
    BY <1>0
  <2>2. calls \in Seq(AnyCall)
    BY <1>0
  <2>3. QED  BY <2>1, <2>2, <1>2, <1>3, <1>4, LineFired
<1> HIDE DEF t
<1>5. /\ calls' \in Seq(AnyCall) /\ LineOK(calls') /\ Queries(calls') = {}
      /\ \A i \in Lookups(calls') :
            (i \in Lookups(calls) /\ calls'[i] = calls[i]) \/ calls'[i].uid[1][1] = r
      /\ \A i \in Inserts(calls') : i \in Inserts(calls) /\ calls'[i] = calls[i]
      /\ InsertsStay(calls, calls')
  <2>1. calls' = t
    BY <1>1 DEF t
  <2>2. QED  BY <1>4a, <2>1
<1>6. TypedInv'
  BY <1>0, <1>1, <1>5 DEF TypedInv
<1>7. LoadsInv'
  BY <1>0, <1>1, <1>5 DEF LoadsInv, Going, AtMostOneQuery
<1>8. RestInv'
  <2> SUFFICES ASSUME NEW x \in Rule, cache'[x] = "armed" PROVE Rests(x)'
    BY <1>1, <1>3 DEF RestInv, Going
  <2>1. x # r /\ cache[x] = "armed"
    BY <1>0, <1>1 DEF TypedInv
  <2>2. Rests(x)
    BY <1>0, <2>1 DEF RestInv
  <2>3. QED  BY <1>5, <2>1, <2>2 DEF Rests
<1>9. OrdersInv'
  <2>1. \A i \in Inserts(calls') :
            calls'[i].uid \in tracked' /\ orderRows'[calls'[i].uid] # "active"
    BY <1>0, <1>1, <1>5 DEF OrdersInv
  <2>2. ASSUME NEW v \in tracked'
        PROVE  orderRows'[v] = "active" \/ \E i \in DOMAIN calls' : calls'[i] = Insert(v)
    <3>1. CASE orderRows[v] = "active"
      BY <1>1, <3>1
    <3>2. CASE orderRows[v] # "active"
      <4>1. PICK i \in DOMAIN calls : calls[i] = Insert(v)
        BY <1>0, <1>1, <2>2, <3>2 DEF OrdersInv
      <4>2. i \in Inserts(calls)
        BY <4>1 DEF Inserts, Insert
      <4>3. QED  BY <1>5, <4>1, <4>2 DEF InsertsStay, Inserts
    <3>3. QED  BY <3>1, <3>2
  <2>3. \A v, w \in Uid : InWorks(v)' /\ InWorks(w)' /\ v[1] = w[1] => v = w
    BY <1>0, <1>1 DEF OrdersInv, InWorks
  <2>4. QED  BY <2>1, <2>2, <2>3 DEF OrdersInv
<1>10. QED  BY <1>5, <1>6, <1>7, <1>8, <1>9 DEF DispatchInv

-----------------------------------------------------------------------------
(* Orders *)

(* A lookup has found nothing: the insert comes last.                      *)
Inserted(s, t, u) ==
    /\ t \in Seq(AnyCall) /\ LineOK(t)
    /\ AtMostOneQuery(s) => AtMostOneQuery(t)
    /\ \A i \in Queries(t) : \E k \in Queries(s) : t[i] = s[k]
    /\ \A i \in Lookups(t) : \E k \in Lookups(s) : t[i] = s[k]
    /\ \A i \in Inserts(t) : t[i] = Insert(u) \/ \E k \in Inserts(s) : t[i] = s[k]
    /\ \A i \in Inserts(s) : \E k \in DOMAIN t : t[k] = s[i]
    /\ \E k \in DOMAIN t : t[k] = Insert(u)

LEMMA LineInsert ==
    ASSUME NEW s \in Seq(AnyCall), 1 \in 1..Len(s), LineOK(s), s[1].op = "lookup",
           NEW u, Insert(u) \in AnyCall, s[1].uid = u,
           \A i \in Inserts(s) : s[i].uid # u
    PROVE  Inserted(s, Append(RemoveAt(s, 1), Insert(u)), u)
<1> DEFINE m == RemoveAt(s, 1)
           t == Append(m, Insert(u))
           n == Len(m) + 1
<1>1. /\ m \in Seq(AnyCall) /\ NothingNew(s, m) /\ InsertsStay(s, m)
  BY Shortened, LineShortened
<1> HIDE DEF m
<1>2. /\ t \in Seq(AnyCall) /\ n \in DOMAIN t /\ t[n] = Insert(u)
      /\ \A j \in DOMAIN t : (j \in DOMAIN m /\ t[j] = m[j]) \/ j = n
      /\ \A k \in DOMAIN m : k \in DOMAIN t /\ t[k] = m[k] /\ k < n
      /\ DOMAIN m \subseteq Nat /\ DOMAIN t \subseteq Nat
  BY <1>1, Appended
<1> HIDE DEF t, n
<1>3. /\ \A i \in Queries(t) : i \in Queries(m) /\ t[i] = m[i]
      /\ \A i \in Lookups(t) : i \in Lookups(m) /\ t[i] = m[i]
      /\ \A i \in Inserts(t) : (i \in Inserts(m) /\ t[i] = m[i]) \/ i = n
  BY <1>2 DEF Queries, Lookups, Inserts, Insert
<1>4. LineOK(m)
  BY <1>1 DEF NothingNew
<1>5. ASSUME NEW i \in Lookups(t), NEW j \in Inserts(t), i < j, t[i].uid[1] = t[j].uid[1]
      PROVE  t[i].uid = t[j].uid
  <2>1. CASE j \in Inserts(m) /\ t[j] = m[j]
    BY <1>3, <1>4, <1>5, <2>1 DEF LineOK
  <2>2. CASE j = n
    <3>1. t[j].uid = u
      BY <1>2, <2>2 DEF Insert
    <3>2. PICK k \in Lookups(s) : t[i] = s[k]
      BY <1>1, <1>3 DEF NothingNew
    <3>3. 1 \in Lookups(s)
      BY Shortened DEF Lookups
    <3>4. s[k].uid[1] = s[1].uid[1]
      BY <1>5, <3>1, <3>2
    <3>5. s[k].uid = s[1].uid
      BY <3>3, <3>4 DEF LineOK
    <3>6. QED  BY <3>1, <3>2, <3>5
  <2>3. QED  BY <1>3, <2>1, <2>2
<1>6. ASSUME NEW i \in Inserts(t), NEW j \in Inserts(t), t[i].uid = t[j].uid PROVE i = j
  <2>1. ASSUME NEW k \in Inserts(m), t[k] = m[k] PROVE t[k].uid # u
    BY <1>1, <2>1 DEF NothingNew
  <2>2. t[n].uid = u
    BY <1>2 DEF Insert
  <2>3. CASE i = n \/ j = n
    BY <1>3, <1>6, <2>1, <2>2, <2>3
  <2>4. CASE i # n /\ j # n
    BY <1>3, <1>4, <1>6, <2>4 DEF LineOK
  <2>5. QED  BY <2>3, <2>4
<1>7. \A i \in Queries(t), j \in Lookups(t) : j < i
  BY <1>3, <1>4 DEF LineOK
<1>8. \A i, j \in Lookups(t) : t[i].uid[1] = t[j].uid[1] => t[i].uid = t[j].uid
  BY <1>3, <1>4 DEF LineOK
<1>9. LineOK(t)
  BY <1>5, <1>6, <1>7, <1>8 DEF LineOK
<1>10. AtMostOneQuery(s) => AtMostOneQuery(t)
  BY <1>1, <1>3 DEF AtMostOneQuery, NothingNew
<1>11. /\ \A i \in Queries(t) : \E k \in Queries(s) : t[i] = s[k]
       /\ \A i \in Lookups(t) : \E k \in Lookups(s) : t[i] = s[k]
  BY <1>1, <1>3 DEF NothingNew
<1>12. \A i \in Inserts(t) : t[i] = Insert(u) \/ \E k \in Inserts(s) : t[i] = s[k]
  BY <1>1, <1>2, <1>3 DEF NothingNew
<1>13. /\ \A i \in Inserts(s) : \E k \in DOMAIN t : t[k] = s[i]
       /\ \E k \in DOMAIN t : t[k] = Insert(u)
  <2>1. ASSUME NEW i \in Inserts(s) PROVE \E k \in DOMAIN t : t[k] = s[i]
    <3>1. PICK k \in Inserts(m) : m[k] = s[i]
      BY <1>1 DEF InsertsStay
    <3>2. QED  BY <1>2, <3>1 DEF Inserts
  <2>2. QED  BY <1>2, <2>1
<1>14. QED  BY <1>2, <1>9, <1>10, <1>11, <1>12, <1>13 DEF t, m, Inserted

LEMMA DispatchLookupAnswered ==
    ASSUME DispatchInv, 1 \in 1..Len(calls), LookupAnswered(1) PROVE DispatchInv'
<1> DEFINE u == calls[1].uid
           s == RemoveAt(calls, 1)
<1>0. /\ TypedInv /\ LoadsInv /\ LineOK(calls) /\ RestInv /\ OrdersInv
      /\ calls \in Seq(AnyCall) /\ calls[1].op = "lookup"
      /\ UNCHANGED <<phase, loads, cache, subs, wired, candle, orderRows>>
  BY DEF DispatchInv, TypedInv, LookupAnswered, process, engine
<1>1. 1 \in DOMAIN calls /\ \A j \in DOMAIN calls : j = 1 \/ 1 < j
  BY <1>0, Shortened
<1>2. u \in Uid /\ 1 \in Lookups(calls)
  BY <1>0, <1>1, CallShapes DEF Lookups
<1>3. phase # "down"
  BY <1>0, <1>1 DEF LoadsInv
<1>4. CASE calls' = s /\ UNCHANGED tracked
  <2>1. s \in Seq(AnyCall) /\ NothingNew(calls, s) /\ InsertsStay(calls, s)
    BY <1>0, Shortened, LineShortened
  <2>2. QED  BY <1>0, <1>3, <1>4, <2>1, CallsChange
<1>5. CASE /\ calls' = Append(s, Insert(u)) /\ tracked' = tracked \cup {u}
           /\ ~HasActiveOrder(u[1]) /\ u \notin tracked
  <2>1. \A v \in Uid : v[1] = u[1] => orderRows[v] # "active"
    BY <1>5 DEF HasActiveOrder, ActiveRowsOf
  <2>2. \A i \in Inserts(calls) : calls[i].uid # u
    BY <1>0, <1>5 DEF OrdersInv
  <2>3. Insert(u) \in AnyCall
    BY <1>2 DEF AnyCall, Insert
  <2> DEFINE t == Append(s, Insert(u))
  <2>4. Inserted(calls, t, u) /\ AtMostOneQuery(calls)
    <3>1. /\ LineOK(calls) /\ AtMostOneQuery(calls) /\ calls \in Seq(AnyCall)
          /\ calls[1].op = "lookup" /\ calls[1].uid = u /\ 1 \in 1..Len(calls)
      BY <1>0 DEF LoadsInv
    <3> HIDE DEF u
    <3>2. Inserted(calls, Append(RemoveAt(calls, 1), Insert(u)), u)
      BY <3>1, <2>2, <2>3, LineInsert
    <3>3. QED  BY <3>1, <3>2
  <2>5. calls' = t
    BY <1>5
  <2> HIDE DEF t
  <2>5a. /\ t \in Seq(AnyCall) /\ LineOK(t) /\ AtMostOneQuery(t)
         /\ \A i \in Queries(t) : \E k \in Queries(calls) : t[i] = calls[k]
         /\ \A i \in Lookups(t) : \E k \in Lookups(calls) : t[i] = calls[k]
         /\ \A i \in Inserts(t) : t[i] = Insert(u) \/ \E k \in Inserts(calls) : t[i] = calls[k]
         /\ \A i \in Inserts(calls) : \E k \in DOMAIN t : t[k] = calls[i]
         /\ \E k \in DOMAIN t : t[k] = Insert(u)
    BY <2>4 DEF Inserted
  <2>6. TypedInv'
    BY <1>0, <1>2, <1>5, <2>5a, <2>5 DEF TypedInv
  <2>7. LoadsInv'
    <3>1. AtMostOneQuery(calls') /\ \A i \in Queries(calls') : loads'[calls'[i].load].pc = "read"
      BY <1>0, <2>5a, <2>5 DEF LoadsInv
    <3>2. QED  BY <1>0, <1>3, <3>1 DEF LoadsInv, Going
  <2>8. RestInv'
    <3>1. \A r \in Rule : Rests(r) => Rests(r)'
      BY <2>5a, <2>5 DEF Rests
    <3>2. QED  BY <1>0, <3>1 DEF RestInv
  <2>9. ASSUME NEW v \in Uid, InWorks(v), v[1] = u[1] PROVE v = u
    <3>1. v \in tracked /\ orderRows[v] # "active"
      BY <2>1, <2>9 DEF InWorks
    <3>2. PICK i \in DOMAIN calls : calls[i] = Insert(v)
      BY <1>0, <3>1 DEF OrdersInv
    <3>3. i \in Inserts(calls) /\ calls[i].uid = v /\ i # 1
      BY <1>0, <3>2 DEF Inserts, Insert
    <3>4. 1 < i
      BY <1>1, <3>3
    <3>5. calls[1].uid[1] = calls[i].uid[1] => calls[1].uid = calls[i].uid
      BY <1>0, <1>2, <3>3, <3>4 DEF LineOK
    <3>6. QED  BY <2>9, <3>3, <3>5
  <2>10. OrdersInv'
    <3>1. ASSUME NEW i \in Inserts(calls')
          PROVE  calls'[i].uid \in tracked' /\ orderRows'[calls'[i].uid] # "active"
      <4>1. CASE calls'[i] = Insert(u)
        <5>1. calls'[i].uid = u
          BY <4>1 DEF Insert
        <5>2. u \in tracked' /\ orderRows'[u] # "active"
          BY <1>0, <1>2, <1>5, <2>1
        <5>3. QED  BY <5>1, <5>2
      <4>2. ASSUME NEW k \in Inserts(calls), calls'[i] = calls[k]
            PROVE  calls'[i].uid \in tracked' /\ orderRows'[calls'[i].uid] # "active"
        BY <1>0, <1>5, <4>2 DEF OrdersInv
      <4>3. QED  BY <2>5a, <2>5, <4>1, <4>2
    <3>2. ASSUME NEW v \in tracked'
          PROVE  orderRows'[v] = "active" \/ \E i \in DOMAIN calls' : calls'[i] = Insert(v)
      <4>1. CASE v = u
        BY <2>5a, <2>5, <4>1
      <4>2. CASE v # u /\ orderRows[v] # "active"
        <5>1. PICK i \in DOMAIN calls : calls[i] = Insert(v)
          BY <1>0, <1>5, <4>2 DEF OrdersInv
        <5>2. i \in Inserts(calls)
          BY <5>1 DEF Inserts, Insert
        <5>3. QED  BY <2>5a, <2>5, <5>1, <5>2
      <4>3. CASE orderRows[v] = "active"
        BY <1>0, <4>3
      <4>4. QED  BY <4>1, <4>2, <4>3
    <3>3. \A v \in Uid : InWorks(v)' => InWorks(v) \/ v = u
      BY <1>0, <1>5 DEF InWorks
    <3>4. ASSUME NEW v \in Uid, NEW w \in Uid, InWorks(v)', InWorks(w)', v[1] = w[1]
          PROVE  v = w
      <4>1. CASE InWorks(v) /\ InWorks(w)
        BY <1>0, <3>4, <4>1 DEF OrdersInv
      <4>2. CASE v = u
        BY <2>9, <3>3, <3>4, <4>2
      <4>3. CASE w = u
        BY <2>9, <3>3, <3>4, <4>3
      <4>4. QED  BY <3>3, <3>4, <4>1, <4>2, <4>3
    <3>5. QED  BY <3>1, <3>2, <3>4 DEF OrdersInv
  <2>11. QED  BY <2>5a, <2>5, <2>6, <2>7, <2>8, <2>10 DEF DispatchInv
<1>6. QED  BY <1>4, <1>5 DEF LookupAnswered

LEMMA DispatchInsertDone ==
    ASSUME DispatchInv, 1 \in 1..Len(calls), InsertDone(1) PROVE DispatchInv'
<1> DEFINE u == calls[1].uid
<1>0. /\ TypedInv /\ LoadsInv /\ LineOK(calls) /\ RestInv /\ OrdersInv
      /\ calls \in Seq(AnyCall) /\ calls[1].op = "insert"
      /\ calls' = RemoveAt(calls, 1) /\ orderRows' = [orderRows EXCEPT ![u] = "active"]
      /\ UNCHANGED <<phase, loads, cache, subs, wired, candle, tracked>>
  BY DEF DispatchInv, TypedInv, InsertDone, process, engine
<1>1. /\ calls' \in Seq(AnyCall) /\ 1 \in DOMAIN calls
      /\ \A j \in DOMAIN calls' : j + 1 \in DOMAIN calls \ {1} /\ calls'[j] = calls[j + 1]
      /\ \A j \in DOMAIN calls \ {1} : j - 1 \in DOMAIN calls' /\ calls'[j - 1] = calls[j]
  BY <1>0, Shortened
<1>2. NothingNew(calls, calls')
  BY <1>0, LineShortened
<1>3. 1 \in Inserts(calls) /\ u \in Uid /\ calls[1] = Insert(u) /\ u \in tracked
  BY <1>0, <1>1, CallShapes DEF Inserts, OrdersInv
<1> HIDE DEF u
<1>4. TypedInv'
  BY <1>0, <1>1, <1>3 DEF TypedInv
<1>5. phase # "down"
  BY <1>0, <1>1 DEF LoadsInv
<1>6. LoadsInv' /\ RestInv'
  BY <1>0, <1>2, <1>5, LoadsKept, RestKept
<1>7. /\ orderRows'[u] = "active"
      /\ \A v \in Uid : v # u => orderRows'[v] = orderRows[v]
  BY <1>0, <1>3 DEF TypedInv
<1>8. OrdersInv'
  <2>1. ASSUME NEW i \in Inserts(calls')
        PROVE  calls'[i].uid \in tracked' /\ orderRows'[calls'[i].uid] # "active"
    <3>1. i + 1 \in Inserts(calls) /\ i + 1 # 1 /\ calls'[i] = calls[i + 1]
      BY <1>1 DEF Inserts
    <3>2. calls[i + 1].uid # calls[1].uid
      BY <1>0, <1>3, <3>1 DEF LineOK
    <3>3. /\ calls[i + 1].uid \in tracked /\ orderRows[calls[i + 1].uid] # "active"
          /\ calls[i + 1].uid \in Uid
      BY <1>0, <3>1 DEF OrdersInv, TypedInv
    <3>4. QED  BY <1>0, <1>7, <3>1, <3>2, <3>3 DEF u
  <2>2. ASSUME NEW v \in tracked'
        PROVE  orderRows'[v] = "active" \/ \E i \in DOMAIN calls' : calls'[i] = Insert(v)
    <3>1. v \in tracked /\ v \in Uid
      BY <1>0 DEF TypedInv
    <3>2. CASE v = u \/ orderRows[v] = "active"
      BY <1>7, <3>1, <3>2
    <3>3. CASE v # u /\ orderRows[v] # "active"
      <4>1. PICK i \in DOMAIN calls : calls[i] = Insert(v)
        BY <1>0, <3>1, <3>3 DEF OrdersInv
      <4>2. i # 1
        BY <1>3, <3>3, <4>1 DEF Insert
      <4>3. QED  BY <1>1, <4>1, <4>2
    <3>4. QED  BY <3>2, <3>3
  <2>3. \A v \in Uid : InWorks(v)' => InWorks(v)
    BY <1>0, <1>3, <1>7 DEF InWorks
  <2>4. \A v, w \in Uid : InWorks(v)' /\ InWorks(w)' /\ v[1] = w[1] => v = w
    BY <1>0, <2>3 DEF OrdersInv
  <2>5. QED  BY <2>1, <2>2, <2>4 DEF OrdersInv
<1>9. LineOK(calls')
  BY <1>0, <1>2 DEF NothingNew
<1>10. QED  BY <1>4, <1>6, <1>8, <1>9 DEF DispatchInv

LEMMA DispatchOrderEnds == ASSUME DispatchInv, NEW u \in Uid, OrderEnds(u) PROVE DispatchInv'
<1>0. /\ TypedInv /\ LoadsInv /\ LineOK(calls) /\ RestInv /\ OrdersInv
      /\ u \in tracked /\ orderRows[u] = "active" /\ tracked' = tracked \ {u}
      /\ orderRows' = [orderRows EXCEPT ![u] = "ended"]
      /\ UNCHANGED <<phase, loads, cache, subs, wired, candle, calls>>
  BY DEF DispatchInv, OrderEnds, vars, process, engine
<1>1. /\ orderRows'[u] = "ended" /\ \A v \in Uid : v # u => orderRows'[v] = orderRows[v]
      /\ tracked \subseteq Uid
  BY <1>0 DEF TypedInv
<1>2. TypedInv'
  BY <1>0 DEF TypedInv
<1>3. LoadsInv' /\ RestInv' /\ LineOK(calls')
  BY <1>0 DEF LoadsInv, RestInv, Rests, Going
<1>4. OrdersInv'
  <2>1. \A i \in Inserts(calls') :
            calls'[i].uid \in tracked' /\ orderRows'[calls'[i].uid] # "active"
    BY <1>0, <1>1 DEF OrdersInv
  <2>2. \A v \in tracked' :
            orderRows'[v] = "active" \/ \E i \in DOMAIN calls' : calls'[i] = Insert(v)
    BY <1>0, <1>1 DEF OrdersInv
  <2>3. \A v \in Uid : InWorks(v)' => InWorks(v)
    BY <1>0, <1>1 DEF InWorks
  <2>4. \A v, w \in Uid : InWorks(v)' /\ InWorks(w)' /\ v[1] = w[1] => v = w
    BY <1>0, <2>3 DEF OrdersInv
  <2>5. QED  BY <2>1, <2>2, <2>4 DEF OrdersInv
<1>5. QED  BY <1>2, <1>3, <1>4 DEF DispatchInv

-----------------------------------------------------------------------------
(* All together *)

LEMMA DispatchInvNext ==
    ASSUME InOrder, OverlapAllowed = FALSE, DispatchInv, [DispatchNext]_allVars
    PROVE  DispatchInv'
<1>1. CASE EngineStep
  <2>1. UNCHANGED orderVars
    BY <1>1 DEF EngineStep
  <2>2. CASE TimerFires
    BY <2>1, <2>2, DispatchTimerFires
  <2>3. CASE \E l \in Load : Seeded(l)
    BY <2>1, <2>3, DispatchSeeded
  <2>4. CASE \E q \in Request, r \in Rule : Ask(q, r)
    BY <2>1, <2>4, DispatchAsk
  <2>5. CASE \E i \in 1..Len(calls) : Answer(i)
    <3>1. 1 \in 1..Len(calls) /\ (FindAnswered(1) \/ GetAnswered(1) \/ WriteDone(1))
      BY <2>5 DEF Answer, MayAnswer
    <3>2. QED
      BY <2>1, <3>1, DispatchFindAnswered, DispatchGetAnswered, DispatchWriteDone
  <2>6. QED  BY <1>1, <2>2, <2>3, <2>4, <2>5 DEF EngineStep
<1>2. CASE StartAll
  BY <1>2, DispatchStart
<1>3. CASE CrashAll
  BY <1>3, DispatchCrash
<1>4. CASE NextCandle
  <2>1. /\ candle' \in 0..MaxCandle
        /\ UNCHANGED <<phase, loads, cache, subs, wired, calls, tracked, orderRows>>
    BY <1>4, DispatchAssumption DEF NextCandle, DispatchInv, TypedInv, vars, process, engine
  <2>2. QED
    BY <2>1 DEF DispatchInv, TypedInv, LoadsInv, Going, RestInv, Rests, OrdersInv, InWorks
<1>5. CASE \E r \in Rule : TriggerRule(r)
  BY <1>5, DispatchTrigger
<1>6. CASE \E u \in Uid : OrderEnds(u)
  BY <1>6, DispatchOrderEnds
<1>7. CASE \E i \in 1..Len(calls) : OrderAnswer(i)
  <2>1. 1 \in 1..Len(calls) /\ (LookupAnswered(1) \/ InsertDone(1))
    BY <1>7 DEF OrderAnswer, MayAnswer
  <2>2. QED  BY <2>1, DispatchLookupAnswered, DispatchInsertDone
<1>8. CASE UNCHANGED allVars
  <2>1. UNCHANGED <<phase, loads, cache, subs, wired, calls, candle, tracked, orderRows>>
    BY <1>8 DEF allVars, vars, orderVars, process, engine
  <2>2. QED
    BY <2>1 DEF DispatchInv, TypedInv, LoadsInv, Going, RestInv, Rests, OrdersInv, InWorks
<1>9. QED
  BY <1>1, <1>2, <1>3, <1>4, <1>5, <1>6, <1>7, <1>8 DEF DispatchNext

LEMMA DispatchInvariance ==
    ASSUME InOrder, OverlapAllowed = FALSE PROVE DispatchSpec => []DispatchInv
<1>1. DispatchInv /\ [DispatchNext]_allVars => DispatchInv'
  BY DispatchInvNext
<1>2. QED  BY <1>1, DispatchInvInit, PTL DEF DispatchSpec

(* rule-engine.service.ts:260, order.service.ts:85: however often rules    *)
(* fire, are activated again and lose their deactivation in a crash, an    *)
(* action of a rule has at most one order that is tracked or active, if    *)
(* the database answers the process's calls in order and reloads do not    *)
(* overlap.                                                                *)
THEOREM OneOrderPerAction ==
    ASSUME InOrder, OverlapAllowed = FALSE PROVE DispatchSpec => []OneActiveOrder
<1>1. ASSUME DispatchInv PROVE OneActiveOrder
  <2> SUFFICES ASSUME NEW a \in ActionId PROVE Cardinality(InTheWorks(a)) <= 1
    BY DEF OneActiveOrder
  <2>1. \A u \in InTheWorks(a) : u \in Uid /\ InWorks(u) /\ u[1] = a
    BY <1>1 DEF InTheWorks, ActiveRowsOf, InWorks, DispatchInv, TypedInv
  <2>2. \A u, v \in InTheWorks(a) : u = v
    BY <1>1, <2>1 DEF DispatchInv, OrdersInv
  <2>3. CASE InTheWorks(a) = {}
    BY <2>3, FS_EmptySet
  <2>4. CASE InTheWorks(a) # {}
    <3>1. PICK u : InTheWorks(a) = {u}
      BY <2>2, <2>4
    <3>2. Cardinality({u}) = 1
      BY FS_Singleton
    <3>3. QED  BY <3>1, <3>2
  <2>5. QED  BY <2>3, <2>4
<1>2. QED  BY <1>1, DispatchInvariance, PTL

-----------------------------------------------------------------------------
(* Of the engine together with the order service, too: a rule fires once   *)
(* per activation.  The calls of orders ask for no rule, and no query is   *)
(* answered before the deactivations that were sent earlier.               *)

DispatchDueInv == DueTyped /\ faults \in [crash : Nat, db : Nat] /\ DueInv

LEMMA DueOrderAnswer ==
    ASSUME DueTyped, Due, 1 \in 1..Len(calls), LookupAnswered(1) \/ InsertDone(1) PROVE Due'
<1> DEFINE c == calls[1]
           rest == RemoveAt(calls, 1)
<1>1. calls \in Seq(AnyCall) /\ AllAsk(calls) /\ 1 \in DOMAIN calls
  BY LenProperties DEF DueTyped, Due, ActiveIsAsked
<1>2. /\ c.op \in {"lookup", "insert"} /\ UNCHANGED <<rows, due, loads, cache>>
      /\ calls' = rest \/ calls' = Append(rest, Insert(c.uid))
  BY DEF LookupAnswered, InsertDone, engine
<1>3. c \in AnyCall
  BY <1>1, ElementOfSeq
<1>4. Insert(c.uid) \in AnyCall /\ Asks(Insert(c.uid))
  BY <1>2, <1>3, CallShape DEF Insert, AnyCall, Asks
<1>5. \A r \in Rule : c # Set(r, FALSE, FALSE)
  BY <1>2 DEF Set
<1>6. /\ rest \in Seq(AnyCall) /\ AllAsk(rest)
      /\ \A r \in Rule : Persisted(calls, r) => Persisted(rest, r)
  BY <1>1, <1>5, Taken
<1> HIDE DEF c, rest
<1>7. /\ AllAsk(calls')
      /\ \A r \in Rule : Persisted(calls, r) => Persisted(calls', r)
  BY <1>2, <1>4, <1>6, Sent
<1>8. QED  BY <1>2, <1>7, DueKept

LEMMA DispatchRowsNext ==
    ASSUME DispatchDueInv, [DispatchNext]_allVars
    PROVE  /\ rows' \in [Rule -> {"absent", "off", "on"}]
           /\ faults' \in [crash : Nat, db : Nat]
           /\ faults.crash # 0 => faults'.crash # 0
<1>1. /\ rows \in [Rule -> {"absent", "off", "on"}] /\ faults \in [crash : Nat, db : Nat]
      /\ calls \in Seq(AnyCall)
  BY DEF DispatchDueInv, DueTyped
<1>2. faults' = faults \/ (Crash /\ faults' = [faults EXCEPT !.crash = @ + 1])
  BY DEF DispatchNext, EngineStep, StartAll, CrashAll, NextCandle, TriggerRule, OrderEnds, OrderAnswer,
         allVars, vars, process, Start, TimerFires, Crash, Seeded, Trigger, Ask,
         Answer, FindAnswered, GetAnswered, WriteDone, LookupAnswered, InsertDone
<1>3. rows' = rows \/ \E i \in 1..Len(calls) : WriteDone(i)
  BY DEF DispatchNext, EngineStep, StartAll, CrashAll, NextCandle, TriggerRule, OrderEnds, OrderAnswer,
         allVars, vars, Start, TimerFires, Crash, Seeded, Trigger, Ask,
         Answer, FindAnswered, GetAnswered, LookupAnswered, InsertDone
<1>4. ASSUME NEW i \in 1..Len(calls), WriteDone(i) PROVE rows' \in [Rule -> {"absent", "off", "on"}]
  <2>1. calls[i] \in AnyCall
    BY <1>1, LenProperties, ElementOfSeq
  <2>2. rows' = Write(calls[i]) /\ IsWrite(calls[i])
    BY <1>4 DEF WriteDone
  <2> DEFINE c == calls[i]
  <2>3. c.rule \in Rule
    BY <2>1, <2>2, CallShape DEF IsWrite
  <2> HIDE DEF c
  <2>4. Write(c) \in [Rule -> {"absent", "off", "on"}]
    BY <1>1, <2>2, <2>3 DEF Write, State, IsWrite, c
  <2>5. QED  BY <2>2, <2>4 DEF c
<1>5. QED  BY <1>1, <1>2, <1>3, <1>4

LEMMA DispatchDueNext ==
    ASSUME InOrder, OverlapAllowed = FALSE, "edit" \notin Ops,
           DispatchInv, DispatchDueInv, [DispatchNext]_allVars
    PROVE  DispatchDueInv'
<1>0. DueTyped /\ faults \in [crash : Nat, db : Nat] /\ DueInv
  BY DEF DispatchDueInv
<1>1. DueTyped' /\ faults' \in [crash : Nat, db : Nat]
  BY DispatchInvNext, DispatchRowsNext DEF DispatchInv, TypedInv, DueTyped
<1>2. CASE CrashAll
  <2>1. faults'.crash # 0
    BY <1>0, <1>2 DEF CrashAll, Crash
  <2>2. QED  BY <1>1, <2>1 DEF DispatchDueInv, DueInv
<1>3. ASSUME Due, ~CrashAll PROVE Due'
  <2>1. CASE StartAll
    <3>1. CASE UNCHANGED <<calls, loads>>
      BY <1>3, <2>1, <3>1 DEF StartAll, Start, Due, ActiveIsAsked, FiredIsPersisted, SeedsDue, HeldDue
    <3>2. QED  BY <1>0, <1>3, <2>1, <3>1, DueLoads DEF StartAll, Start
  <2>2. CASE EngineStep
    <3>1. CASE TimerFires
      <4>1. CASE UNCHANGED <<calls, loads>>
        BY <1>3, <3>1, <4>1 DEF TimerFires, Due, ActiveIsAsked, FiredIsPersisted, SeedsDue, HeldDue
      <4>2. QED  BY <1>0, <1>3, <3>1, <4>1, DueLoads DEF TimerFires
    <3>2. CASE \E l \in Load : Seeded(l)  BY <1>0, <1>3, <3>2, DueSeeded
    <3>3. CASE \E q \in Request, r \in Rule : Ask(q, r)  BY <1>0, <1>3, <3>3, DueAsk
    <3>4. ASSUME NEW i \in 1..Len(calls), Answer(i) PROVE Due'
      <4>1. i = 1
        BY <3>4 DEF Answer, MayAnswer
      <4>2. QED
        BY <1>0, <1>3, <3>4, <4>1, DueFindAnswered, DueGetAnswered, DueWriteDone DEF Answer
    <3>5. QED  BY <2>2, <3>1, <3>2, <3>3, <3>4 DEF EngineStep
  <2>3. ASSUME NEW r \in Rule, TriggerRule(r) PROVE Due'
    <3>1. Trigger(r, CallsOfFiring(r)) /\ subs > 0
      BY <2>3 DEF TriggerRule, Trigger
    <3>2. Going = {} /\ Queries(calls) = {} /\ candle \in 0..MaxCandle
      BY <3>1, NoLoadNoQueries DEF DispatchInv, LoadsInv, TypedInv
    <3>3. CallsOfFiring(r) \in Seq(AnyCall) /\ Deactivates(CallsOfFiring(r), r)
      BY <3>2, CallsOfFiringTyped
    <3>4. QED  BY <1>0, <1>3, <3>1, <3>2, <3>3, DueTrigger
  <2>4. ASSUME NEW i \in 1..Len(calls), OrderAnswer(i) PROVE Due'
    <3>1. i = 1
      BY <2>4 DEF OrderAnswer, MayAnswer
    <3>2. QED  BY <1>0, <1>3, <2>4, <3>1, DueOrderAnswer DEF OrderAnswer
  <2>5. CASE NextCandle \/ (\E u \in Uid : OrderEnds(u)) \/ UNCHANGED allVars
    <3>1. UNCHANGED vars
      BY <2>5 DEF NextCandle, OrderEnds, allVars
    <3>2. QED  BY <1>3, <3>1 DEF vars, Due, ActiveIsAsked, FiredIsPersisted, SeedsDue, HeldDue
  <2>6. QED  BY <1>3, <2>1, <2>2, <2>3, <2>4, <2>5 DEF DispatchNext
<1>4. faults.crash # 0 => faults'.crash # 0
  BY DispatchRowsNext
<1>5. QED  BY <1>0, <1>1, <1>2, <1>3, <1>4 DEF DispatchDueInv, DueInv

(* rule-engine.service.ts:260: with orders placed, candles going by and    *)
(* crashes, too, a rule fires only after somebody has asked for it to be   *)
(* active since it last fired, unless a crash has lost its deactivation;   *)
(* if the database serves calls as they are sent, reloads do not overlap   *)
(* and nobody edits a rule's other fields.                                 *)
THEOREM FiresOncePerActivationWithOrders ==
    ASSUME InOrder, OverlapAllowed = FALSE, "edit" \notin Ops
    PROVE  DispatchSpec => FiresOnlyWhenDue
<1>1. DispatchInit => DispatchInv /\ DispatchDueInv
  <2>1. DispatchInit => Due /\ TypedInv
    BY DueInit, DispatchInvInit DEF DispatchInit, DispatchInv
  <2>2. DispatchInit => rows \in [Rule -> {"absent", "off", "on"}] /\ faults \in [crash : Nat, db : Nat]
    BY DEF DispatchInit, Init
  <2>3. QED  BY <2>1, <2>2, DispatchInvInit DEF DispatchDueInv, DueInv, TypedInv, DueTyped
<1>2. DispatchInv /\ DispatchDueInv /\ [DispatchNext]_allVars => (DispatchInv /\ DispatchDueInv)'
  BY DispatchInvNext, DispatchDueNext
<1>3. DispatchDueInv => [\A r \in Rule : Fires(r) => r \in due \/ faults.crash > 0]_vars
  BY DEF DispatchDueInv, DueInv, Due, HeldDue, Fires
<1>4. QED  BY <1>1, <1>2, <1>3, PTL DEF DispatchSpec, FiresOnlyWhenDue
=============================================================================
