-------------------------- MODULE RulesViewTheorems --------------------------
(***************************************************************************)
(* What the rules page promises holds for any rules, texts and numbers of  *)
(* requests under way: the page shows the table, saves keep what was typed *)
(* and neither saves nor switches revive a rule that was turned off or     *)
(* deleted.                                                                *)
(***************************************************************************)
EXTENDS RulesViewProperties, TLAPS

-----------------------------------------------------------------------------
(* Requests under way, by their shape: none, lists before and after they   *)
(* were served, and requests about a rule before and after it was read.    *)
Kinds == {"create", "save", "switch", "delete"}
Wishes == [active : BOOLEAN, wish : BOOLEAN, late : BOOLEAN]
Forms == [active : BOOLEAN, content : Content, wish : BOOLEAN, late : BOOLEAN]
Payload == Wishes \cup Forms \cup {<<>>}
ListSent == [kind : {"list"}, stage : {"sent", "failed"}, uid : {NoUid}]
ListServed == [kind : {"list"}, stage : {"answered", "failed"}, uid : {NoUid},
               answer : Rules]
AskedSent == [kind : Kinds, stage : {"sent", "answered", "failed"}, uid : Uid,
              payload : Payload]
AskedRead == [kind : Kinds \ {"create"}, stage : {"read", "answered", "failed"},
              uid : Uid, payload : Payload, existing : Row]
AnyCall == {Idle} \cup ListSent \cup ListServed \cup AskedSent \cup AskedRead
Carries(r) ==
    /\ r.kind \in {"create", "save"} => r.payload \in Forms
    /\ r.kind = "switch" => r.payload \in Wishes

Shaped ==
    /\ table \in Rules /\ rules \in Rules
    /\ calls \in [Call -> AnyCall] /\ \A c \in Call : Carries(calls[c])
    /\ dialog \in Form /\ deleteTarget \in Uid \cup {NoUid}
    /\ submitted \in [Uid -> Content]

(* Why the page shows the table.  Every write is followed by an answer     *)
(* that has the list fetched again, or by a failure that is shown or       *)
(* remembered; a list that was read after the last write is the table's.   *)
IsList(c) == calls[c].kind = "list"
Pending == \E c \in Call : /\ calls[c].kind \in Kinds
                           /\ calls[c].stage \in {"answered", "failed"}
Excused == Pending \/ error \/ silent
OneList == \A c, d \in Call : IsList(c) /\ IsList(d) => c = d
AnswerIsTrue == \A c \in Call : IsList(c) /\ calls[c].stage = "answered" =>
    \A u \in Uid \ unseen : calls[c].answer[u] = table[u]
ListIsTrue == (\A c \in Call : ~IsList(c)) =>
    \A u \in Uid \ (touched \cup unseen) : rules[u] = table[u]
ShownInv == ~raced => OneList /\ (~Excused => AnswerIsTrue /\ ListIsTrue)

(* Why a save keeps what was typed.  One request at a time is about a      *)
(* rule; until it has been written it carries what was submitted.          *)
Carried(u) == \E c \in Call : /\ calls[c].uid = u /\ calls[c].kind \in {"create", "save"}
                              /\ calls[c].stage \in {"sent", "read"}
KeptOf(u) ==
    /\ \A c, d \in Call : calls[c].uid = u /\ calls[d].uid = u => c = d
    /\ \A c \in Call : calls[c].uid = u =>
          /\ calls[c].kind \in {"create", "save"} => calls[c].payload.content = submitted[u]
          /\ calls[c].kind = "switch" /\ calls[c].stage = "read" =>
                calls[c].existing.content = submitted[u]
    /\ Carried(u) \/ ~table[u].present \/ table[u].content = submitted[u]
KeptInv == \A u \in Uid \ crossed : KeptOf(u)

(* Why nothing revives a rule.  What a form or a request would make active *)
(* somebody wants, or it was active all the time, or that is remembered.   *)
Honest(u, w) == w.active => w.wish \/ w.late \/ table[u].active
FormIsHonest == dialog.open =>
    IF dialog.uid = NoUid THEN dialog.active /\ dialog.wish ELSE Honest(dialog.uid, dialog)
CallIsHonest(r) ==
    /\ r.kind = "create" => r.payload.active /\ r.payload.wish
    /\ r.kind = "save" /\ r.stage \in {"sent", "read"} => Honest(r.uid, r.payload)
    /\ r.kind = "switch" => r.payload.active = r.payload.wish
HonestInv == FormIsHonest /\ \A c \in Call : CallIsHonest(calls[c])

IInv == Shaped /\ ShownInv /\ KeptInv /\ HonestInv

-----------------------------------------------------------------------------
(* Requests *)

(* What the kind and the stage of a request tell of its shape.             *)
LEMMA CallFacts ==
    ASSUME NEW r \in AnyCall
    PROVE  /\ r.kind \in {"none", "list"} \cup Kinds
           /\ r.kind = "none" <=> r = Idle
           /\ r.stage = "idle" <=> r = Idle
           /\ r.kind = "list" => r.uid = NoUid
           /\ r.kind = "list" /\ r.stage = "answered" => r \in ListServed
           /\ r.kind \in Kinds => r.uid \in Uid /\ r \in AskedSent \cup AskedRead
           /\ r.stage = "read" => r \in AskedRead
<1>1. CASE r = Idle
  BY <1>1 DEF Idle, Kinds
<1>2. CASE r \in ListSent
  BY <1>2 DEF ListSent, Idle, Kinds
<1>3. CASE r \in ListServed
  BY <1>3 DEF ListServed, Idle, Kinds
<1>4. CASE r \in AskedSent
  BY <1>4 DEF AskedSent, Idle, Kinds
<1>5. CASE r \in AskedRead
  BY <1>5 DEF AskedRead, Idle, Kinds
<1>6. QED  BY <1>1, <1>2, <1>3, <1>4, <1>5 DEF AnyCall

LEMMA IdleFacts ==
    Idle \in AnyCall /\ Carries(Idle) /\ Idle.kind = "none" /\ Idle.uid = NoUid
  BY DEF Idle, AnyCall, Carries

LEMMA ListingFacts ==
    /\ Listing \in AnyCall /\ Carries(Listing)
    /\ Listing.kind = "list" /\ Listing.uid = NoUid /\ Listing.stage = "sent"
<1>1. Listing \in ListSent
  BY DEF Listing, ListSent
<1>2. QED  BY <1>1 DEF Listing, AnyCall, Carries

(* A request is answered or fails.                                         *)
LEMMA Restaged ==
    ASSUME NEW r \in AnyCall, Carries(r), NEW s \in {"answered", "failed"},
           r.stage \in {"sent", "read", "answered"}, r.kind = "list" => s = "failed"
    PROVE  LET q == [r EXCEPT !.stage = s] IN
           /\ q \in AnyCall /\ Carries(q)
           /\ q.kind = r.kind /\ q.uid = r.uid /\ q.stage = s
           /\ r.kind \in Kinds => q.payload = r.payload
<1> DEFINE q == [r EXCEPT !.stage = s]
<1>0. r # Idle
  BY DEF Idle
<1>1. CASE r \in ListSent
  <2>1. q \in ListSent /\ q.kind = r.kind /\ q.uid = r.uid /\ q.stage = s
    BY <1>1 DEF ListSent
  <2>2. QED  BY <1>1, <2>1 DEF AnyCall, Carries, ListSent, Kinds
<1>2. CASE r \in ListServed
  <2>1. q \in ListServed /\ q.kind = r.kind /\ q.uid = r.uid /\ q.stage = s
    BY <1>2 DEF ListServed
  <2>2. QED  BY <1>2, <2>1 DEF AnyCall, Carries, ListServed, Kinds
<1>3. CASE r \in AskedSent
  <2>1. /\ q \in AskedSent /\ q.kind = r.kind /\ q.uid = r.uid /\ q.stage = s
        /\ q.payload = r.payload
    BY <1>3 DEF AskedSent
  <2>2. QED  BY <2>1 DEF AnyCall, Carries
<1>4. CASE r \in AskedRead
  <2>1. /\ q \in AskedRead /\ q.kind = r.kind /\ q.uid = r.uid /\ q.stage = s
        /\ q.payload = r.payload
    BY <1>4 DEF AskedRead
  <2>2. QED  BY <2>1 DEF AnyCall, Carries
<1>5. QED  BY <1>0, <1>1, <1>2, <1>3, <1>4 DEF AnyCall

(* One request changes.                                                    *)
LEMMA CallChanges ==
    ASSUME Shaped, NEW c \in Call, NEW q \in AnyCall, Carries(q),
           calls' = [calls EXCEPT ![c] = q]
    PROVE  /\ calls' \in [Call -> AnyCall] /\ \A d \in Call : Carries(calls'[d])
           /\ calls'[c] = q /\ \A d \in Call \ {c} : calls'[d] = calls[d]
  BY DEF Shaped, Carries

(* What LateCalls makes of a request differs in late only.                 *)
Alike(q, r) ==
    /\ q.kind = r.kind /\ q.uid = r.uid /\ q.stage = r.stage
    /\ r.kind # "save" => q = r
    /\ r.kind = "save" => /\ q.payload.content = r.payload.content
                          /\ q.payload.active = r.payload.active
                          /\ q.payload.wish = r.payload.wish
                          /\ r.payload.late => q.payload.late
LEMMA Marked ==
    ASSUME NEW r \in AnyCall, Carries(r), r.kind = "save"
    PROVE  LET q == [r EXCEPT !.payload.late = TRUE] IN
           q \in AnyCall /\ Carries(q) /\ Alike(q, r) /\ q.payload.late
<1> DEFINE w == [r.payload EXCEPT !.late = TRUE]
           q == [r EXCEPT !.payload = w]
<1>1. r.payload \in Forms
  BY DEF Carries
<1>2. /\ w \in Forms /\ w.content = r.payload.content /\ w.late
      /\ w.active = r.payload.active /\ w.wish = r.payload.wish
  BY <1>1 DEF Forms
<1>3. w \in Payload
  BY <1>2 DEF Payload
<1> HIDE DEF w
<1>4. r \in AskedSent \cup AskedRead
  BY CallFacts DEF Kinds
<1>5. CASE r \in AskedSent
  <2>1. /\ q \in AskedSent /\ q.kind = r.kind /\ q.uid = r.uid
        /\ q.stage = r.stage /\ q.payload = w
    BY <1>3, <1>5 DEF AskedSent
  <2>2. q \in AnyCall /\ Carries(q) /\ Alike(q, r)
    BY <1>2, <2>1 DEF AnyCall, Carries, Alike
  <2>3. q = [r EXCEPT !.payload.late = TRUE]
    BY DEF w
  <2>4. QED  BY <1>2, <2>1, <2>2, <2>3
<1>6. CASE r \in AskedRead
  <2>1. /\ q \in AskedRead /\ q.kind = r.kind /\ q.uid = r.uid
        /\ q.stage = r.stage /\ q.payload = w
    BY <1>3, <1>6 DEF AskedRead
  <2>2. q \in AnyCall /\ Carries(q) /\ Alike(q, r)
    BY <1>2, <2>1 DEF AnyCall, Carries, Alike
  <2>3. q = [r EXCEPT !.payload.late = TRUE]
    BY DEF w
  <2>4. QED  BY <1>2, <2>1, <2>2, <2>3
<1>7. QED  BY <1>4, <1>5, <1>6

(* All requests after a rule may have been turned off.                     *)
LEMMA LateFacts ==
    ASSUME NEW cs \in [Call -> AnyCall], \A d \in Call : Carries(cs[d]),
           calls' = LateCalls(cs)
    PROVE  /\ calls' \in [Call -> AnyCall]
           /\ \A d \in Call :
                 /\ Carries(calls'[d]) /\ Alike(calls'[d], cs[d])
                 /\ cs[d].kind = "save" /\ TurnedOff(cs[d].uid) => calls'[d].payload.late
<1>1. ASSUME NEW d \in Call
      PROVE  /\ calls'[d] \in AnyCall
             /\ Carries(calls'[d]) /\ Alike(calls'[d], cs[d])
             /\ cs[d].kind = "save" /\ TurnedOff(cs[d].uid) => calls'[d].payload.late
  <2>1. CASE cs[d].kind = "save" /\ TurnedOff(cs[d].uid)
    <3>1. calls'[d] = [cs[d] EXCEPT !.payload.late = TRUE]
      BY <2>1 DEF LateCalls
    <3>2. QED  BY <2>1, <3>1, Marked
  <2>2. CASE ~(cs[d].kind = "save" /\ TurnedOff(cs[d].uid))
    <3>1. calls'[d] = cs[d]
      BY <2>2 DEF LateCalls
    <3>2. QED  BY <2>2, <3>1 DEF Alike
  <2>3. QED  BY <2>1, <2>2
<1>2. calls' = [d \in Call |-> calls'[d]]
  BY DEF LateCalls
<1>3. QED  BY <1>1, <1>2

-----------------------------------------------------------------------------
(* Shapes *)

(* A filled-in text is one a rule may have.                                *)
LEMMA ContentFacts ==
    /\ \A v \in Text \cup {"blank", "empty"} : Filled(v) \in Content
    /\ NewContent \in Content /\ (CHOOSE x \in Text : TRUE) \in Text
    /\ Absent \in Row
<1>1. (CHOOSE x \in Text : TRUE) \in Text
  BY ViewAssumption
<1>2. NewContent \in Content
  <2> DEFINE t == CHOOSE x \in Text : TRUE
  <2>1. t \in Text
    BY <1>1
  <2> HIDE DEF t
  <2>2. [activators |-> "blank", actions |-> t] \in Content
    BY <2>1 DEF Content, Part
  <2>3. QED  BY <2>2 DEF NewContent, t
<1>3. \A v \in Text \cup {"blank", "empty"} : Filled(v) \in Content
  BY DEF Filled, Content
<1>4. QED  BY <1>1, <1>2, <1>3 DEF Absent, Row

LEMMA FormFacts ==
    /\ Closed \in Form /\ NewForm \in Form
    /\ rules \in Rules => \A u \in Uid : FormOf(u) \in Form
<1>0. 0 \in 0..MaxEdits /\ Part \in SUBSET Part /\ {} \in SUBSET Part
  BY ViewAssumption
<1>1. Closed \in Form
  BY <1>0, ContentFacts DEF Closed, Form
<1>2. NewForm \in Form
  BY <1>0, ContentFacts DEF NewForm, Form
<1>3. ASSUME rules \in Rules, NEW u \in Uid PROVE FormOf(u) \in Form
  <2>1. rules[u].active \in BOOLEAN /\ rules[u].content \in Content
    BY <1>3 DEF Rules, Row
  <2>2. QED  BY <1>0, <2>1 DEF FormOf, Form
<1>4. QED  BY <1>1, <1>2, <1>3

LEMMA ShapedInit == Init => Shaped
<1> SUFFICES ASSUME Init PROVE Shaped
  OBVIOUS
<1> DEFINE v == Filled(CHOOSE x \in Text : TRUE)
           c == CHOOSE x \in Call : TRUE
<1>0. v \in Content /\ c \in Call
  BY ContentFacts, ViewAssumption
<1>1. /\ table \in [Uid -> {Absent} \cup [present : {TRUE}, active : BOOLEAN,
                                          fired : {FALSE}, content : {v}]]
      /\ calls = [Idled EXCEPT ![c] = Listing]
      /\ rules = [u \in Uid |-> Absent] /\ dialog = Closed /\ deleteTarget = NoUid
      /\ submitted = [u \in Uid |-> table[u].content]
  BY DEF Init
<1> HIDE DEF v, c
<1>2. \A u \in Uid : table[u] \in Row
  <2> SUFFICES ASSUME NEW u \in Uid PROVE table[u] \in Row
    OBVIOUS
  <2>1. table[u] = Absent \/ table[u] \in [present : {TRUE}, active : BOOLEAN,
                                           fired : {FALSE}, content : {v}]
    BY <1>1
  <2>2. QED  BY <1>0, <2>1, ContentFacts DEF Row
<1>3. table \in Rules /\ rules \in Rules
  BY <1>1, <1>2, ContentFacts DEF Rules
<1>4. submitted \in [Uid -> Content]
  BY <1>1, <1>2 DEF Row
<1>5. \A d \in Call : calls[d] \in {Idle, Listing}
  BY <1>0, <1>1 DEF Idled
<1>6. calls \in [Call -> AnyCall] /\ \A d \in Call : Carries(calls[d])
  BY <1>1, <1>5, IdleFacts, ListingFacts DEF Idled
<1>7. QED  BY <1>1, <1>3, <1>4, <1>6, FormFacts DEF Shaped

(* A step of the user in a dialog leaves table and requests alone.         *)
Edits ==
    \/ (\E u \in Uid : ConfirmDelete(u)) \/ CancelDelete
    \/ Open \/ Cancel \/ Toggle \/ ChangeActionType
    \/ RemoveActivator \/ RemoveAction \/ AddActivator \/ AddAction
    \/ (\E v \in Text \cup {"blank"} : TypeActivator(v))
    \/ (\E v \in Text : TypeAction(v))

LEMMA TypedShape ==
    ASSUME Shaped, NEW p \in Part, NEW v \in Text \cup {"blank"}, Typed(p, v)
    PROVE  /\ UNCHANGED <<table, calls, error, deleteTarget, raced, silent, unseen,
                          crossed, submitted>>
           /\ dialog' \in Form /\ rules' \in Rules
           /\ UNCHANGED <<dialog.open, dialog.uid, dialog.active, dialog.wish, dialog.late>>
           /\ touched \subseteq touched'
           /\ \A u \in Uid \ touched' : rules'[u] = rules[u]
<1>0. dialog \in Form /\ rules \in Rules /\ v \in Text \cup {"blank", "empty"}
  BY DEF Shaped
<1>1. UNCHANGED <<table, calls, error, deleteTarget, raced, silent, unseen,
                  crossed, submitted>>
  BY DEF Typed
<1> DEFINE t == [dialog.content EXCEPT ![p] = v]
<1>2. t \in Content
  BY <1>0 DEF Form, Content
<1>3. dialog' = [dialog EXCEPT !.edits = @ + 1, !.content = t]
  BY <1>0 DEF Typed, Form
<1>4. dialog.edits + 1 \in 0..MaxEdits
  BY <1>0, ViewAssumption DEF Typed, Editing, Form
<1> HIDE DEF t
<1>5. /\ dialog' \in Form
      /\ UNCHANGED <<dialog.open, dialog.uid, dialog.active, dialog.wish, dialog.late>>
  BY <1>0, <1>2, <1>3, <1>4 DEF Form
<1>6. CASE p \in dialog.shared /\ dialog.uid \in Uid
  <2> DEFINE u == dialog.uid
             r == [rules[u] EXCEPT !.content = [@ EXCEPT ![p] = v]]
  <2>1. rules' = [rules EXCEPT ![u] = r] /\ touched' = touched \cup {u}
    BY <1>6 DEF Typed
  <2>2. rules[u] \in Row /\ [rules[u].content EXCEPT ![p] = v] \in Content
    BY <1>0, <1>6 DEF Rules, Row, Content
  <2>3. r \in Row
    BY <2>2 DEF Row
  <2> HIDE DEF r, u
  <2>4. QED  BY <1>0, <1>1, <1>5, <2>1, <2>3 DEF Rules
<1>7. CASE p \in dialog.shared /\ dialog.uid \notin Uid
  <2>1. touched \subseteq touched'
    BY <1>7 DEF Typed
  <2>2. rules' = rules
    BY <1>0, <1>7 DEF Typed, Rules
  <2>3. QED  BY <1>0, <1>1, <1>5, <2>1, <2>2
<1>8. CASE p \notin dialog.shared
  BY <1>0, <1>1, <1>5, <1>8 DEF Typed
<1>9. QED  BY <1>6, <1>7, <1>8

LEMMA ReplacedShape ==
    ASSUME Shaped, NEW p \in Part, NEW from, NEW to \in Text \cup {"blank", "empty"},
           Replaced(p, from, to)
    PROVE  /\ UNCHANGED <<table, calls, rules, error, deleteTarget, history>>
           /\ dialog' \in Form
           /\ UNCHANGED <<dialog.open, dialog.uid, dialog.active, dialog.wish, dialog.late>>
<1>0. dialog \in Form
  BY DEF Shaped
<1> DEFINE t == [dialog.content EXCEPT ![p] = to]
           s == dialog.shared \ {p}
<1>1. t \in Content /\ s \in SUBSET Part
  BY <1>0 DEF Form, Content
<1>2. dialog' = [dialog EXCEPT !.edits = @ + 1, !.content = t, !.shared = s]
  BY <1>0 DEF Replaced, Form
<1>3. dialog.edits + 1 \in 0..MaxEdits
  BY <1>0, ViewAssumption DEF Replaced, Editing, Form
<1> HIDE DEF t, s
<1>4. /\ dialog' \in Form
      /\ UNCHANGED <<dialog.open, dialog.uid, dialog.active, dialog.wish, dialog.late>>
  BY <1>0, <1>1, <1>2, <1>3 DEF Form
<1>5. QED  BY <1>4 DEF Replaced

(* What a dialog may become without being reloaded: closed, opened,        *)
(* switched or otherwise edited.                                           *)
DialogStep ==
    \/ dialog' = Closed
    \/ dialog' \in {NewForm} \cup {FormOf(u) : u \in Uid}
    \/ /\ dialog.uid # NoUid /\ dialog'.wish = dialog'.active
       /\ UNCHANGED <<dialog.open, dialog.uid>>
    \/ UNCHANGED <<dialog.open, dialog.uid, dialog.active, dialog.wish, dialog.late>>

LEMMA EditsShape ==
    ASSUME Shaped, Edits
    PROVE  /\ UNCHANGED <<table, calls, error, raced, silent, unseen, crossed,
                          submitted>>
           /\ dialog' \in Form /\ rules' \in Rules
           /\ deleteTarget' \in Uid \cup {NoUid} /\ DialogStep
           /\ touched \subseteq touched'
           /\ \A u \in Uid \ touched' : rules'[u] = rules[u]
<1>0. /\ dialog \in Form /\ rules \in Rules /\ deleteTarget \in Uid \cup {NoUid}
      /\ {"activators", "actions"} = Part /\ NewContent.actions \in Text
      /\ "blank" \in Text \cup {"blank", "empty"}
      /\ "empty" \in Text \cup {"blank", "empty"}
  BY ContentFacts DEF Shaped, Part, NewContent
<1>1. CASE \E u \in Uid : ConfirmDelete(u)
  BY <1>0, <1>1 DEF ConfirmDelete, history, DialogStep
<1>2. CASE CancelDelete
  BY <1>0, <1>2 DEF CancelDelete, history, DialogStep
<1>3. CASE Open
  BY <1>0, <1>3, FormFacts DEF Open, history, DialogStep
<1>4. CASE Cancel
  BY <1>0, <1>4, FormFacts DEF Cancel, history, DialogStep
<1>5. CASE Toggle
  <2> DEFINE a == ~dialog.active
  <2>1. /\ dialog' = [dialog EXCEPT !.edits = @ + 1, !.active = a, !.wish = a]
        /\ dialog.uid # NoUid
        /\ UNCHANGED <<table, calls, rules, error, deleteTarget, history>>
    BY <1>0, <1>5 DEF Toggle, Form
  <2>2. dialog.edits + 1 \in 0..MaxEdits /\ a \in BOOLEAN
    BY <1>0, <1>5, ViewAssumption DEF Toggle, Editing, Form
  <2> HIDE DEF a
  <2>3. /\ dialog' \in Form /\ dialog'.wish = dialog'.active
        /\ UNCHANGED <<dialog.open, dialog.uid>>
    BY <1>0, <2>1, <2>2 DEF Form
  <2>4. QED  BY <1>0, <2>1, <2>3 DEF history, DialogStep
<1>6. CASE ChangeActionType \/ (\E v \in Text \cup {"blank"} : TypeActivator(v))
           \/ \E v \in Text : TypeAction(v)
  <2>1. \E p \in Part, v \in Text \cup {"blank"} : Typed(p, v)
    BY <1>0, <1>6 DEF ChangeActionType, TypeActivator, TypeAction
  <2>2. QED  BY <1>0, <2>1, TypedShape DEF DialogStep
<1>7. CASE RemoveActivator \/ RemoveAction \/ AddActivator \/ AddAction
  <2>1. \E p \in Part, to \in Text \cup {"blank", "empty"} :
            \E from \in SUBSET (Text \cup {"blank", "empty"}) : Replaced(p, from, to)
    <3>1. /\ Text \cup {"blank"} \in SUBSET (Text \cup {"blank", "empty"})
          /\ {"empty"} \in SUBSET (Text \cup {"blank", "empty"})
          /\ NewContent.actions \in Text \cup {"blank", "empty"}
      BY <1>0
    <3>2. QED
      BY <1>0, <1>7, <3>1 DEF RemoveActivator, RemoveAction, AddActivator, AddAction
  <2>2. QED  BY <1>0, <2>1, ReplacedShape DEF history, DialogStep
<1>8. QED  BY <1>1, <1>2, <1>3, <1>4, <1>5, <1>6, <1>7 DEF Edits

(* A switch, a delete, or a save of what the dialog says is sent.          *)
Sends(c) == DoDelete(c) \/ \E u \in Uid : Switch(c, u) \/ Submit(c, u)
FromDialog(q) ==
    /\ q.kind \in {"create", "save"} /\ dialog.open
    /\ q.payload.active = dialog.active /\ q.payload.wish = dialog.wish
    /\ q.payload.late = dialog.late
    /\ IF dialog.uid = NoUid THEN q.kind = "create"
       ELSE q.kind = "save" /\ q.uid = dialog.uid
    /\ submitted' = [submitted EXCEPT ![q.uid] = q.payload.content]
FromCard(q) ==
    /\ q.kind \in {"switch", "delete"} /\ submitted' = submitted
    /\ q.kind = "switch" => q.payload.active = q.payload.wish

LEMMA SendsShape ==
    ASSUME Shaped, NEW c \in Call, Sends(c)
    PROVE  \E q \in AskedSent :
               /\ Carries(q) /\ q.stage = "sent" /\ calls[c] = Idle
               /\ calls' = [calls EXCEPT ![c] = q]
               /\ crossed' = IF \E d \in Call : calls[d].uid = q.uid
                             THEN crossed \cup {q.uid} ELSE crossed
               /\ UNCHANGED <<table, rules, error, dialog, deleteTarget, raced,
                              silent, unseen, touched>>
               /\ FromDialog(q) \/ FromCard(q)
<1>1. CASE DoDelete(c)
  <2> DEFINE q == [kind |-> "delete", stage |-> "sent", uid |-> deleteTarget,
                   payload |-> <<>>]
  <2>1. deleteTarget \in Uid /\ Send(c, "delete", deleteTarget, <<>>) /\ Free(c)
    BY <1>1 DEF DoDelete, Shaped
  <2>2. q \in AskedSent /\ Carries(q)
    BY <2>1 DEF AskedSent, Kinds, Payload, Carries
  <2>3. /\ calls' = [calls EXCEPT ![c] = q] /\ calls[c] = Idle
        /\ crossed' = IF \E d \in Call : calls[d].uid = q.uid
                      THEN crossed \cup {q.uid} ELSE crossed
    BY <2>1 DEF Send, Free
  <2>4. FromCard(q)
    BY <1>1 DEF FromCard, DoDelete
  <2>5. QED  BY <1>1, <2>2, <2>3, <2>4 DEF DoDelete, view
<1>2. ASSUME NEW u \in Uid, Switch(c, u)
      PROVE  \E q \in AskedSent :
               /\ Carries(q) /\ q.stage = "sent" /\ calls[c] = Idle
               /\ calls' = [calls EXCEPT ![c] = q]
               /\ crossed' = IF \E d \in Call : calls[d].uid = q.uid
                             THEN crossed \cup {q.uid} ELSE crossed
               /\ UNCHANGED <<table, rules, error, dialog, deleteTarget, raced,
                              silent, unseen, touched>>
               /\ FromDialog(q) \/ FromCard(q)
  <2> DEFINE w == [active |-> Offered(u), wish |-> Offered(u), late |-> FALSE]
             q == [kind |-> "switch", stage |-> "sent", uid |-> u, payload |-> w]
  <2>1. Send(c, "switch", u, w) /\ Free(c)
    BY <1>2 DEF Switch
  <2>2. w \in Wishes /\ w.active = w.wish
    BY DEF Offered, Wishes
  <2>3. calls' = [calls EXCEPT ![c] = q]
    BY <2>1 DEF Send
  <2> HIDE DEF w
  <2>4. q \in AskedSent /\ Carries(q) /\ FromCard(q)
    BY <1>2, <2>2 DEF AskedSent, Kinds, Payload, Carries, FromCard, Switch
  <2>5. /\ calls[c] = Idle
        /\ crossed' = IF \E d \in Call : calls[d].uid = q.uid
                      THEN crossed \cup {q.uid} ELSE crossed
    BY <2>1 DEF Send, Free
  <2>6. QED  BY <1>2, <2>3, <2>4, <2>5 DEF Switch, view
<1>3. ASSUME NEW u \in Uid, Submit(c, u)
      PROVE  \E q \in AskedSent :
               /\ Carries(q) /\ q.stage = "sent" /\ calls[c] = Idle
               /\ calls' = [calls EXCEPT ![c] = q]
               /\ crossed' = IF \E d \in Call : calls[d].uid = q.uid
                             THEN crossed \cup {q.uid} ELSE crossed
               /\ UNCHANGED <<table, rules, error, dialog, deleteTarget, raced,
                              silent, unseen, touched>>
               /\ FromDialog(q) \/ FromCard(q)
  <2> DEFINE k == IF dialog.uid = NoUid THEN "create" ELSE "save"
             w == [active |-> dialog.active, content |-> dialog.content,
                   wish |-> dialog.wish, late |-> dialog.late]
             q == [kind |-> k, stage |-> "sent", uid |-> u, payload |-> w]
  <2>1. Send(c, k, u, w) /\ Free(c)
    BY <1>3 DEF Submit
  <2>2. w \in Forms
    BY DEF Shaped, Form, Forms
  <2>3. calls' = [calls EXCEPT ![c] = q]
    BY <2>1 DEF Send
  <2>4. q \in AskedSent /\ Carries(q)
    BY <2>2 DEF AskedSent, Kinds, Payload, Carries
  <2>5. /\ calls[c] = Idle
        /\ crossed' = IF \E d \in Call : calls[d].uid = q.uid
                      THEN crossed \cup {q.uid} ELSE crossed
    BY <2>1 DEF Send, Free
  <2>6. FromDialog(q)
    BY <1>3 DEF FromDialog, Submit
  <2>7. QED  BY <1>3, <2>3, <2>4, <2>5, <2>6 DEF Submit, view
<1>4. QED  BY <1>1, <1>2, <1>3 DEF Sends

(* A request is served: a list with the table, a creation at once, and any *)
(* other with the row it is about, if there is one.                        *)
ServesList(c) ==
    /\ calls[c].kind = "list"
    /\ \E q \in ListServed : /\ q.stage = "answered" /\ q.answer = table
                             /\ calls' = [calls EXCEPT ![c] = q]
    /\ silent' = FALSE /\ unseen' = {} /\ UNCHANGED <<table, touched>>
Creates(c) ==
    /\ calls[c].kind = "create"
    /\ calls' = [calls EXCEPT ![c] = [calls[c] EXCEPT !.stage = "answered"]]
    /\ \E r \in Row : /\ r.present /\ r.active = calls[c].payload.active
                      /\ r.content = calls[c].payload.content
                      /\ table' = [table EXCEPT ![calls[c].uid] = r]
    /\ UNCHANGED <<silent, unseen, touched>>
Misses(c) ==
    /\ calls[c].kind \in Kinds \ {"create"} /\ ~table[calls[c].uid].present
    /\ calls' = [calls EXCEPT ![c] = [calls[c] EXCEPT !.stage = "failed"]]
    /\ UNCHANGED <<table, silent, unseen, touched>>
Reads(c) ==
    /\ calls[c].kind \in Kinds \ {"create"} /\ table[calls[c].uid].present
    /\ \E q \in AskedRead : /\ q.kind = calls[c].kind /\ q.uid = calls[c].uid
                            /\ q.stage = "read" /\ q.payload = calls[c].payload
                            /\ q.existing = table[q.uid]
                            /\ calls' = [calls EXCEPT ![c] = q]
    /\ UNCHANGED <<table, silent, unseen, touched>>

LEMMA ServedShape ==
    ASSUME Shaped, NEW c \in Call, Served(c)
    PROVE  /\ calls[c].stage = "sent"
           /\ UNCHANGED <<rules, error, dialog, deleteTarget, raced, crossed, submitted>>
           /\ ServesList(c) \/ Creates(c) \/ Misses(c) \/ Reads(c)
<1>1. /\ calls[c].stage = "sent"
      /\ UNCHANGED <<rules, error, dialog, deleteTarget, raced, crossed, submitted>>
  BY DEF Served, view
<1>2. calls[c] \in AnyCall /\ Carries(calls[c]) /\ table \in Rules
  BY DEF Shaped
<1>3. CASE calls[c].kind = "list"
  <2> DEFINE q == [kind |-> "list", stage |-> "answered", uid |-> NoUid,
                   answer |-> table]
  <2>1. q \in ListServed /\ q.stage = "answered" /\ q.answer = table
    BY <1>2 DEF ListServed
  <2>2. /\ calls' = [calls EXCEPT ![c] = q] /\ silent' = FALSE /\ unseen' = {}
        /\ UNCHANGED <<table, touched>>
    BY <1>3 DEF Served
  <2> HIDE DEF q
  <2>3. ServesList(c)
    BY <1>3, <2>1, <2>2 DEF ServesList
  <2>4. QED  BY <1>1, <2>3
<1>4. CASE calls[c].kind = "create"
  <2> DEFINE r == [present |-> TRUE, active |-> calls[c].payload.active,
                   fired |-> FALSE, content |-> calls[c].payload.content]
  <2>1. calls[c].payload \in Forms
    BY <1>2, <1>4 DEF Carries
  <2>2. /\ r \in Row /\ r.present /\ r.active = calls[c].payload.active
        /\ r.content = calls[c].payload.content
    BY <2>1 DEF Forms, Row
  <2>3. /\ table' = [table EXCEPT ![calls[c].uid] = r]
        /\ calls' = Reply(c, "answered")
        /\ UNCHANGED <<silent, unseen, touched>>
    BY <1>4 DEF Served
  <2>4. calls' = [calls EXCEPT ![c] = [calls[c] EXCEPT !.stage = "answered"]]
    BY <2>3 DEF Reply
  <2> HIDE DEF r
  <2>5. Creates(c)
    BY <1>4, <2>2, <2>3, <2>4 DEF Creates
  <2>6. QED  BY <1>1, <2>5
<1>5. CASE calls[c].kind \in Kinds \ {"create"} /\ ~table[calls[c].uid].present
  <2>1. calls' = Reply(c, "failed") /\ UNCHANGED <<table, silent, unseen, touched>>
    BY <1>5 DEF Served, Kinds
  <2>2. calls' = [calls EXCEPT ![c] = [calls[c] EXCEPT !.stage = "failed"]]
    BY <2>1 DEF Reply
  <2>3. Misses(c)
    BY <1>5, <2>1, <2>2 DEF Misses
  <2>4. QED  BY <1>1, <2>3
<1>6. CASE calls[c].kind \in Kinds \ {"create"} /\ table[calls[c].uid].present
  <2> DEFINE u == calls[c].uid
             q == [kind |-> calls[c].kind, stage |-> "read", uid |-> u,
                   payload |-> calls[c].payload, existing |-> table[u]]
  <2>1. u \in Uid /\ calls[c] \in AskedSent \cup AskedRead
    BY <1>2, <1>6, CallFacts
  <2>2. calls[c].payload \in Payload /\ table[u] \in Row
    BY <1>2, <2>1 DEF AskedSent, AskedRead, Rules
  <2>3. /\ q \in AskedRead /\ q.kind = calls[c].kind /\ q.uid = u
        /\ q.stage = "read" /\ q.payload = calls[c].payload /\ q.existing = table[u]
    BY <1>6, <2>1, <2>2 DEF AskedRead
  <2>4. calls' = [calls EXCEPT ![c] = q] /\ UNCHANGED <<table, silent, unseen, touched>>
    BY <1>6 DEF Served, Kinds
  <2> HIDE DEF q
  <2>5. Reads(c)
    BY <1>6, <2>3, <2>4 DEF Reads
  <2>6. QED  BY <1>1, <2>5
<1>7. calls[c].kind \in {"list"} \cup Kinds
  BY <1>1, <1>2, CallFacts DEF Idle
<1>8. QED  BY <1>3, <1>4, <1>5, <1>6, <1>7

(* A row is written: gone, left absent, or as read with what is asked.     *)
LEMMA WrittenShape ==
    ASSUME Shaped, NEW c \in Call, Written(c)
    PROVE  LET r == calls[c]
               q == [r EXCEPT !.stage = "answered"]
               u == r.uid
           IN  /\ r \in AskedRead /\ u \in Uid
               /\ table' \in Rules /\ \A w \in Uid \ {u} : table'[w] = table[w]
               /\ \/ r.kind = "delete" /\ table'[u] = Absent
                  \/ ~table[u].present /\ table'[u] = table[u]
                  \/ /\ r.kind \in {"save", "switch"} /\ table[u].present
                     /\ table'[u].active = r.payload.active
                     /\ table'[u].content = IF r.kind = "save" THEN r.payload.content
                                                               ELSE r.existing.content
               /\ calls' = LateCalls([calls EXCEPT ![c] = q])
               /\ dialog' = LateDialog
               /\ UNCHANGED <<rules, error, deleteTarget, history>>
<1> DEFINE r == calls[c]
           q == [r EXCEPT !.stage = "answered"]
           u == r.uid
           m == [r.existing EXCEPT !.active = r.payload.active,
                    !.content = IF r.kind = "save" THEN r.payload.content ELSE @]
<1>1. r \in AskedRead /\ r.kind \in {"save", "switch", "delete"} /\ u \in Uid
  BY CallFacts DEF Shaped, Written, AskedRead, Kinds
<1>2. table \in Rules /\ Carries(r)
  BY DEF Shaped
<1>3. /\ calls' = LateCalls([calls EXCEPT ![c] = q]) /\ dialog' = LateDialog
      /\ UNCHANGED <<rules, error, deleteTarget, history>>
  BY DEF Written, Reply
<1>4. CASE r.kind = "delete"
  <2>1. table' = [table EXCEPT ![u] = Absent]
    BY <1>4 DEF Written
  <2>2. QED  BY <1>1, <1>2, <1>3, <1>4, <2>1, ContentFacts DEF Rules
<1>5. CASE r.kind # "delete" /\ ~table[u].present
  <2>1. table' = [table EXCEPT ![u] = table[u]]
    BY <1>1, <1>2, <1>5 DEF Written, Updated, Rules
  <2>2. QED  BY <1>1, <1>2, <1>3, <1>5, <2>1 DEF Rules
<1>6. CASE r.kind # "delete" /\ table[u].present
  <2>1. /\ r.existing \in Row /\ r.payload.active \in BOOLEAN
        /\ r.kind = "save" => r.payload.content \in Content
    BY <1>1, <1>2, <1>6 DEF AskedRead, Carries, Forms, Wishes
  <2>2. /\ m \in Row /\ m.active = r.payload.active
        /\ m.content = IF r.kind = "save" THEN r.payload.content
                                          ELSE r.existing.content
    BY <2>1 DEF Row
  <2>3. table' = [table EXCEPT ![u] = m]
    BY <1>1, <1>2, <1>6 DEF Written, Updated, Merged, Rules
  <2> HIDE DEF m
  <2>4. QED  BY <1>1, <1>2, <1>3, <1>6, <2>2, <2>3 DEF Rules
<1>7. QED  BY <1>4, <1>5, <1>6

LEMMA FireShape ==
    ASSUME Shaped, NEW u \in Uid, Fire(u)
    PROVE  /\ table' \in Rules /\ \A w \in Uid \ {u} : table'[w] = table[w]
           /\ table'[u].present = table[u].present /\ ~table'[u].active
           /\ table'[u].content = table[u].content
           /\ unseen' = unseen \cup {u}
           /\ calls' = LateCalls(calls) /\ dialog' = LateDialog
           /\ UNCHANGED <<rules, error, deleteTarget, raced, silent, touched,
                          crossed, submitted>>
<1> DEFINE r == [table[u] EXCEPT !.active = FALSE, !.fired = TRUE]
<1>1. table \in Rules /\ table[u] \in Row
  BY DEF Shaped, Rules
<1>2. /\ r \in Row /\ r.present = table[u].present /\ ~r.active
      /\ r.content = table[u].content
  BY <1>1 DEF Row
<1>3. table' = [table EXCEPT ![u] = r]
  BY <1>1 DEF Fire, Row
<1> HIDE DEF r
<1>4. QED  BY <1>1, <1>2, <1>3 DEF Fire, Rules

LEMMA LostShape ==
    ASSUME Shaped, NEW c \in Call, Lost(c)
    PROVE  /\ calls[c].stage \in {"sent", "answered"}
           /\ calls' = [calls EXCEPT ![c] = [calls[c] EXCEPT !.stage = "failed"]]
           /\ crossed' = crossed \cup {calls[c].uid}
           /\ UNCHANGED <<table, rules, error, dialog, deleteTarget, raced, silent,
                          unseen, touched, submitted>>
  BY DEF Lost, Reply, view

(* The list is fetched, by a click or because a request succeeded.         *)
Fetches(c) ==
    /\ ~IsList(c) /\ calls[c].stage \notin {"sent", "read"}
    /\ calls' = [calls EXCEPT ![c] = Listing]
    /\ error' = FALSE /\ raced' = (raced \/ ListGoing)
    /\ deleteTarget' \in {deleteTarget, NoUid} /\ dialog' \in {dialog, Closed}
    /\ UNCHANGED <<table, rules, silent, unseen, touched, crossed, submitted>>
(* A request has failed, which is shown, or remembered as silent.          *)
Fails(c) ==
    /\ ~IsList(c) /\ calls[c].stage = "failed"
    /\ calls' = [calls EXCEPT ![c] = Idle]
    /\ (error' /\ silent' = silent) \/ (silent' /\ error' = error)
    /\ UNCHANGED <<table, rules, deleteTarget, dialog, raced, unseen, touched,
                   crossed, submitted>>

LEMMA RefreshShape == ASSUME NEW c \in Call, Refresh(c) PROVE Fetches(c)
<1>1. Free(c) /\ calls[c].kind = "none" /\ calls[c].stage = "idle"
  BY DEF Refresh, Free, Idle
<1>2. QED  BY <1>1 DEF Refresh, Fetches, FetchRules, IsList

LEMMA ReplyShape ==
    ASSUME NEW c \in Call, ReplyArrives(c) PROVE Fetches(c) \/ Fails(c)
<1>1. CASE calls[c].stage = "answered"
  BY <1>1 DEF ReplyArrives, Fetches, FetchRules, IsList
<1>2. CASE calls[c].stage = "failed"
  BY <1>2 DEF ReplyArrives, Fails, IsList
<1>3. QED  BY <1>1, <1>2 DEF ReplyArrives

LEMMA ListShape ==
    ASSUME Shaped, NEW c \in Call, ListArrives(c)
    PROVE  /\ IsList(c) /\ calls' = [calls EXCEPT ![c] = Idle]
           /\ \/ /\ calls[c].stage = "answered" /\ rules' = calls[c].answer
                 /\ rules' \in Rules /\ touched' = {} /\ error' = error
              \/ error' /\ rules' = rules /\ touched' = touched
           /\ dialog' \in Form
           /\ UNCHANGED <<dialog.open, dialog.uid, dialog.active, dialog.wish, dialog.late>>
           /\ UNCHANGED <<table, deleteTarget, raced, silent, unseen, crossed, submitted>>
<1>1. dialog \in Form /\ calls[c] \in AnyCall
  BY DEF Shaped
<1>2. IsList(c) /\ calls[c].stage \in {"answered", "failed"}
  BY DEF ListArrives, IsList
<1>3. calls[c].stage = "answered" => calls[c].answer \in Rules
  BY <1>1, <1>2, CallFacts DEF IsList, ListServed
<1>4. /\ Unshared \in Form /\ Unshared.open = dialog.open /\ Unshared.uid = dialog.uid
      /\ Unshared.active = dialog.active /\ Unshared.wish = dialog.wish
      /\ Unshared.late = dialog.late
  BY <1>1 DEF Unshared, Form
<1>5. QED  BY <1>1, <1>2, <1>3, <1>4 DEF ListArrives

(* The steps, by what they do.                                             *)
LEMMA Steps ==
    ASSUME [Next]_vars
    PROVE  \/ Edits \/ UNCHANGED vars
           \/ \E c \in Call : \/ Sends(c) \/ Served(c) \/ Written(c) \/ Lost(c)
                              \/ Fetches(c) \/ Fails(c) \/ ListArrives(c)
           \/ \E u \in Uid : Fire(u)
  BY RefreshShape, ReplyShape DEF Next, User, Server, Arrives, Edits, Sends

-----------------------------------------------------------------------------
LEMMA LateDialogShape ==
    ASSUME dialog \in Form
    PROVE  /\ LateDialog \in Form /\ LateDialog.open = dialog.open
           /\ LateDialog.uid = dialog.uid /\ LateDialog.active = dialog.active
           /\ LateDialog.wish = dialog.wish
           /\ dialog.late => LateDialog.late
           /\ dialog.uid # NoUid /\ TurnedOff(dialog.uid) => LateDialog.late
<1>1. CASE dialog.uid # NoUid /\ TurnedOff(dialog.uid)
  BY <1>1 DEF LateDialog, Form
<1>2. CASE ~(dialog.uid # NoUid /\ TurnedOff(dialog.uid))
  BY <1>2 DEF LateDialog
<1>3. QED  BY <1>1, <1>2

(* How a request of the page goes on.                                      *)
LEMMA ServedTyped ==
    ASSUME Shaped, NEW c \in Call, Served(c) \/ Lost(c)
    PROVE  \E q \in AnyCall : Carries(q) /\ calls' = [calls EXCEPT ![c] = q]
<1>1. calls[c] \in AnyCall /\ Carries(calls[c])
  BY DEF Shaped
<1>2. ASSUME NEW s \in {"answered", "failed"}, calls[c].stage \in {"sent", "answered"},
             calls[c].kind = "list" => s = "failed",
             calls' = [calls EXCEPT ![c] = [calls[c] EXCEPT !.stage = s]]
      PROVE  \E q \in AnyCall : Carries(q) /\ calls' = [calls EXCEPT ![c] = q]
  BY <1>1, <1>2, Restaged
<1>3. CASE Lost(c)
  BY <1>2, <1>3, LostShape
<1>4. CASE Served(c)
  <2>1. calls[c].stage = "sent" /\ (ServesList(c) \/ Creates(c) \/ Misses(c) \/ Reads(c))
    BY <1>4, ServedShape
  <2>2. CASE ServesList(c)
    BY <2>2 DEF ServesList, ListServed, AnyCall, Carries
  <2>3. CASE Creates(c)
    BY <1>2, <2>1, <2>3 DEF Creates
  <2>4. CASE Misses(c)
    BY <1>2, <2>1, <2>4 DEF Misses, Kinds
  <2>5. CASE Reads(c)
    <3>1. PICK q \in AskedRead : /\ q.kind = calls[c].kind
                                 /\ q.payload = calls[c].payload
                                 /\ calls' = [calls EXCEPT ![c] = q]
      BY <2>5 DEF Reads
    <3>2. q \in AnyCall /\ Carries(q)
      BY <1>1, <3>1 DEF AnyCall, Carries
    <3>3. QED  BY <3>1, <3>2
  <2>6. QED  BY <2>1, <2>2, <2>3, <2>4, <2>5
<1>5. QED  BY <1>3, <1>4

LEMMA ShapedNext == Shaped /\ [Next]_vars => Shaped'
<1> SUFFICES ASSUME Shaped, [Next]_vars PROVE Shaped'
  OBVIOUS
<1>0. /\ table \in Rules /\ rules \in Rules
      /\ calls \in [Call -> AnyCall] /\ \A c \in Call : Carries(calls[c])
      /\ dialog \in Form /\ deleteTarget \in Uid \cup {NoUid}
      /\ submitted \in [Uid -> Content]
  BY DEF Shaped
<1>1. CASE Edits
  BY <1>0, <1>1, EditsShape DEF Shaped, Carries
<1>2. CASE UNCHANGED vars
  BY <1>0, <1>2 DEF vars, view, history, Shaped, Carries
<1>3. ASSUME NEW c \in Call, Sends(c) PROVE Shaped'
  <2>1. PICK q \in AskedSent :
            /\ Carries(q) /\ calls' = [calls EXCEPT ![c] = q]
            /\ UNCHANGED <<table, rules, dialog, deleteTarget>>
            /\ FromDialog(q) \/ FromCard(q)
    BY <1>3, SendsShape
  <2>2. q \in AnyCall /\ q.uid \in Uid
    BY DEF AnyCall, AskedSent
  <2>3. submitted' \in [Uid -> Content]
    <3>1. CASE FromCard(q)
      BY <1>0, <3>1 DEF FromCard
    <3>2. CASE FromDialog(q)
      <4>1. q.payload.content \in Content
        BY <2>1, <3>2 DEF FromDialog, Carries, Forms
      <4>2. QED  BY <1>0, <2>2, <3>2, <4>1 DEF FromDialog
    <3>3. QED  BY <2>1, <3>1, <3>2
  <2>4. QED  BY <1>0, <2>1, <2>2, <2>3, CallChanges DEF Shaped
<1>4. ASSUME NEW c \in Call, Served(c) \/ Lost(c) PROVE Shaped'
  <2>1. calls' \in [Call -> AnyCall] /\ \A d \in Call : Carries(calls'[d])
    BY <1>4, ServedTyped, CallChanges
  <2>2. UNCHANGED <<rules, dialog, deleteTarget, submitted>>
    BY <1>4, ServedShape, LostShape
  <2>3. table' \in Rules
    <3>1. CASE Served(c) /\ Creates(c)
      <4>1. calls[c].uid \in Uid
        BY <1>0, <3>1, CallFacts DEF Creates, Kinds
      <4>2. QED  BY <1>0, <3>1, <4>1 DEF Creates, Rules
    <3>2. CASE ~(Served(c) /\ Creates(c))
      BY <1>0, <1>4, <3>2, ServedShape, LostShape DEF ServesList, Misses, Reads
    <3>3. QED  BY <3>1, <3>2
  <2>4. QED  BY <1>0, <2>1, <2>2, <2>3 DEF Shaped
<1>5. ASSUME NEW c \in Call, Written(c) PROVE Shaped'
  <2> DEFINE q == [calls[c] EXCEPT !.stage = "answered"]
             cs == [calls EXCEPT ![c] = q]
  <2>1. /\ calls[c] \in AskedRead /\ table' \in Rules
        /\ calls' = LateCalls(cs) /\ dialog' = LateDialog
        /\ UNCHANGED <<rules, deleteTarget, submitted>>
    BY <1>5, WrittenShape DEF history
  <2>2. calls[c].stage = "read" /\ calls[c].kind # "list"
    BY <1>5, <2>1 DEF Written, AskedRead, Kinds
  <2>3. q \in AnyCall /\ Carries(q)
    BY <1>0, <2>2, Restaged
  <2> HIDE DEF q
  <2>4. cs \in [Call -> AnyCall] /\ \A d \in Call : Carries(cs[d])
    BY <1>0, <2>3
  <2> HIDE DEF cs
  <2>5. calls' \in [Call -> AnyCall] /\ \A d \in Call : Carries(calls'[d])
    BY <2>1, <2>4, LateFacts
  <2>6. QED  BY <1>0, <2>1, <2>5, LateDialogShape DEF Shaped
<1>6. ASSUME NEW c \in Call, Fetches(c) PROVE Shaped'
  <2>1. calls' \in [Call -> AnyCall] /\ \A d \in Call : Carries(calls'[d])
    BY <1>6, ListingFacts, CallChanges DEF Fetches
  <2>2. QED  BY <1>0, <1>6, <2>1, FormFacts DEF Fetches, Shaped
<1>7. ASSUME NEW c \in Call, Fails(c) PROVE Shaped'
  <2>1. calls' \in [Call -> AnyCall] /\ \A d \in Call : Carries(calls'[d])
    BY <1>7, IdleFacts, CallChanges DEF Fails
  <2>2. QED  BY <1>0, <1>7, <2>1 DEF Fails, Shaped
<1>8. ASSUME NEW c \in Call, ListArrives(c) PROVE Shaped'
  <2>1. calls' \in [Call -> AnyCall] /\ \A d \in Call : Carries(calls'[d])
    BY <1>8, IdleFacts, CallChanges, ListShape
  <2>2. QED  BY <1>0, <1>8, <2>1, ListShape DEF Shaped
<1>9. ASSUME NEW u \in Uid, Fire(u) PROVE Shaped'
  <2>1. calls' \in [Call -> AnyCall] /\ \A d \in Call : Carries(calls'[d])
    BY <1>0, <1>9, FireShape, LateFacts
  <2>2. QED  BY <1>0, <1>9, <2>1, FireShape, LateDialogShape DEF Shaped
<1>10. QED
  BY <1>1, <1>2, <1>3, <1>4, <1>5, <1>6, <1>7, <1>8, <1>9, Steps

-----------------------------------------------------------------------------
(* The page shows the table *)

(* Requests that change keep the lists under way.                          *)
LEMMA ListsKeep ==
    ASSUME OneList, \A d \in Call : IsList(d)' => IsList(d) PROVE OneList'
  BY DEF OneList

(* A step that changes what is shown, or the table, of rules only that are *)
(* remembered as touched or unseen.                                        *)
LEMMA ShownStays ==
    ASSUME ShownInv, UNCHANGED <<raced, error, silent>>,
           \A d \in Call : /\ IsList(d)' <=> IsList(d)
                           /\ IsList(d)' /\ calls'[d].stage = "answered"
                                => calls'[d] = calls[d],
           Pending => Pending', unseen \subseteq unseen', touched \subseteq touched',
           \A u \in Uid \ unseen' : table'[u] = table[u],
           \A u \in Uid \ touched' : rules'[u] = rules[u]
    PROVE  ShownInv'
<1> SUFFICES ASSUME ~raced' PROVE OneList' /\ (~Excused' => AnswerIsTrue' /\ ListIsTrue')
  BY DEF ShownInv
<1>1. OneList /\ (~Excused => AnswerIsTrue /\ ListIsTrue)
  BY DEF ShownInv
<1>2. OneList'
  BY <1>1, ListsKeep
<1>3. ASSUME ~Excused' PROVE AnswerIsTrue' /\ ListIsTrue'
  <2>1. AnswerIsTrue /\ ListIsTrue
    BY <1>1, <1>3 DEF Excused
  <2>2. AnswerIsTrue'
    BY <2>1 DEF AnswerIsTrue
  <2>3. ListIsTrue'
    BY <2>1 DEF ListIsTrue
  <2>4. QED  BY <2>2, <2>3
<1>4. QED  BY <1>2, <1>3

(* A request about a rule is answered or fails: the list may be old until  *)
(* the answer arrives.                                                     *)
LEMMA ShownPends ==
    ASSUME ShownInv, raced' = raced, NEW c \in Call,
           \A d \in Call : IsList(d)' => IsList(d),
           calls'[c].kind \in Kinds, calls'[c].stage \in {"answered", "failed"}
    PROVE  ShownInv'
<1>1. Pending'
  BY DEF Pending
<1>2. raced' \/ OneList'
  BY ListsKeep DEF ShownInv
<1>3. QED  BY <1>1, <1>2 DEF ShownInv, Excused

LEMMA ShownFetches ==
    ASSUME Shaped, ShownInv, NEW c \in Call, Fetches(c) PROVE ShownInv'
<1> SUFFICES ASSUME ~raced' PROVE OneList' /\ AnswerIsTrue' /\ ListIsTrue'
  BY DEF ShownInv
<1>1. \A d \in Call : ~IsList(d)
  BY DEF Fetches, ListGoing, IsList
<1>2. calls' = [calls EXCEPT ![c] = Listing] /\ calls \in [Call -> AnyCall]
  BY DEF Fetches, Shaped
<1>3. calls'[c] = Listing /\ \A d \in Call \ {c} : calls'[d] = calls[d]
  BY <1>2
<1>4. IsList(c)' /\ calls'[c].stage = "sent" /\ \A d \in Call \ {c} : ~IsList(d)'
  BY <1>1, <1>3, ListingFacts DEF IsList
<1>5. QED  BY <1>4 DEF OneList, AnswerIsTrue, ListIsTrue

LEMMA ShownServed ==
    ASSUME Shaped, ShownInv, NEW c \in Call, Served(c) PROVE ShownInv'
<1>1. /\ calls[c].stage = "sent" /\ UNCHANGED <<rules, error, raced>>
      /\ ServesList(c) \/ Creates(c) \/ Misses(c) \/ Reads(c)
  BY ServedShape
<1>2. calls \in [Call -> AnyCall] /\ calls[c] \in AnyCall /\ Carries(calls[c])
  BY DEF Shaped
<1>3. CASE ServesList(c)
  <2>1. PICK q \in ListServed : q.answer = table /\ calls' = [calls EXCEPT ![c] = q]
    BY <1>3 DEF ServesList
  <2>2. /\ calls'[c] = q /\ q.kind = "list" /\ IsList(c) /\ table' = table
        /\ \A d \in Call \ {c} : calls'[d] = calls[d]
    BY <1>2, <1>3, <2>1 DEF ServesList, ListServed, IsList
  <2> SUFFICES ASSUME ~raced' PROVE OneList' /\ AnswerIsTrue' /\ ListIsTrue'
    BY DEF ShownInv
  <2>3. OneList
    BY <1>1 DEF ShownInv
  <2>4. OneList'
    BY <2>2, <2>3, ListsKeep DEF IsList
  <2>5. \A d \in Call : IsList(d)' => d = c
    BY <2>2, <2>4 DEF OneList, IsList
  <2>6. AnswerIsTrue'
    BY <2>1, <2>2, <2>5 DEF AnswerIsTrue
  <2>7. ListIsTrue'
    BY <2>2 DEF ListIsTrue, IsList
  <2>8. QED  BY <2>4, <2>6, <2>7
<1>4. ASSUME NEW s \in {"answered", "failed"}, calls[c].kind \in Kinds,
             calls' = [calls EXCEPT ![c] = [calls[c] EXCEPT !.stage = s]]
      PROVE  ShownInv'
  <2> DEFINE q == [calls[c] EXCEPT !.stage = s]
  <2>1. q.kind = calls[c].kind /\ q.stage = s
    BY <1>1, <1>2, <1>4, Restaged DEF Kinds
  <2> HIDE DEF q
  <2>2. calls'[c] = q /\ \A d \in Call \ {c} : calls'[d] = calls[d]
    BY <1>2, <1>4 DEF q
  <2>3. \A d \in Call : IsList(d)' => IsList(d)
    BY <2>1, <2>2 DEF IsList
  <2>4. QED  BY <1>1, <1>4, <2>1, <2>2, <2>3, ShownPends
<1>5. CASE Creates(c)
  BY <1>4, <1>5 DEF Creates, Kinds
<1>6. CASE Misses(c)
  BY <1>4, <1>6 DEF Misses
<1>7. CASE Reads(c)
  <2>1. PICK q \in AskedRead : q.kind = calls[c].kind /\ calls' = [calls EXCEPT ![c] = q]
    BY <1>7 DEF Reads
  <2>2. /\ calls'[c] = q /\ ~IsList(c) /\ ~IsList(c)'
        /\ \A d \in Call \ {c} : calls'[d] = calls[d]
        /\ UNCHANGED <<table, silent, unseen, touched>>
    BY <1>2, <1>7, <2>1 DEF Reads, IsList, Kinds
  <2>3. Pending => Pending'
    BY <1>1, <2>2 DEF Pending
  <2>4. \A d \in Call : /\ IsList(d)' <=> IsList(d)
                        /\ IsList(d)' => calls'[d] = calls[d]
    BY <2>2 DEF IsList
  <2>5. QED  BY <1>1, <2>2, <2>3, <2>4, ShownStays
<1>8. QED  BY <1>1, <1>3, <1>5, <1>6, <1>7

LEMMA ShownLost ==
    ASSUME Shaped, ShownInv, NEW c \in Call, Lost(c) PROVE ShownInv'
<1> DEFINE q == [calls[c] EXCEPT !.stage = "failed"]
<1>1. /\ calls[c].stage \in {"sent", "answered"} /\ calls' = [calls EXCEPT ![c] = q]
      /\ UNCHANGED <<table, rules, error, raced, silent, unseen, touched>>
  BY LostShape
<1>2. calls \in [Call -> AnyCall] /\ calls[c] \in AnyCall /\ Carries(calls[c])
  BY DEF Shaped
<1>3. q.kind = calls[c].kind /\ q.stage = "failed"
  BY <1>1, <1>2, Restaged
<1> HIDE DEF q
<1>4. calls'[c] = q /\ \A d \in Call \ {c} : calls'[d] = calls[d]
  BY <1>1, <1>2
<1>5. \A d \in Call : /\ IsList(d)' <=> IsList(d)
                      /\ IsList(d)' /\ calls'[d].stage = "answered"
                            => calls'[d] = calls[d]
  BY <1>3, <1>4 DEF IsList
<1>6. Pending => Pending'
  BY <1>3, <1>4 DEF Pending
<1>7. QED  BY <1>1, <1>5, <1>6, ShownStays

LEMMA ShownNext == Shaped /\ ShownInv /\ [Next]_vars => ShownInv'
<1> SUFFICES ASSUME Shaped, ShownInv, [Next]_vars PROVE ShownInv'
  OBVIOUS
<1>0. calls \in [Call -> AnyCall] /\ \A d \in Call : Carries(calls[d])
  BY DEF Shaped
<1>1. CASE Edits \/ UNCHANGED vars
  <2>1. /\ UNCHANGED <<table, calls, error, raced, silent, unseen>>
        /\ touched \subseteq touched'
        /\ \A u \in Uid \ touched' : rules'[u] = rules[u]
    BY <1>1, EditsShape DEF vars, view, history
  <2>2. (\A d \in Call : IsList(d)' <=> IsList(d)) /\ (Pending => Pending')
    BY <2>1 DEF IsList, Pending
  <2>3. QED  BY <2>1, <2>2, ShownStays
<1>2. ASSUME NEW c \in Call, Sends(c) PROVE ShownInv'
  <2>1. PICK q \in AskedSent :
            /\ calls[c] = Idle /\ calls' = [calls EXCEPT ![c] = q]
            /\ UNCHANGED <<table, rules, error, raced, silent, unseen, touched>>
    BY <1>2, SendsShape
  <2>2. calls'[c] = q /\ \A d \in Call \ {c} : calls'[d] = calls[d]
    BY <1>0, <2>1
  <2>3. \A d \in Call : /\ IsList(d)' <=> IsList(d)
                        /\ IsList(d)' => calls'[d] = calls[d]
    BY <2>1, <2>2, IdleFacts DEF IsList, AskedSent, Kinds
  <2>4. Pending => Pending'
    BY <2>1, <2>2, IdleFacts DEF Pending, Kinds
  <2>5. QED  BY <2>1, <2>3, <2>4, ShownStays
<1>3. ASSUME NEW c \in Call, Written(c) PROVE ShownInv'
  <2> DEFINE q == [calls[c] EXCEPT !.stage = "answered"]
             cs == [calls EXCEPT ![c] = q]
  <2>1. calls[c] \in AskedRead /\ calls' = LateCalls(cs) /\ raced' = raced
    BY <1>3, WrittenShape DEF history
  <2>2. calls[c].stage = "read" /\ calls[c].kind \in Kinds
    BY <1>3, <2>1 DEF Written, AskedRead
  <2>3. q \in AnyCall /\ Carries(q) /\ q.kind = calls[c].kind /\ q.stage = "answered"
    BY <1>0, <2>2, Restaged DEF Kinds
  <2> HIDE DEF q
  <2>4. /\ cs \in [Call -> AnyCall] /\ \A d \in Call : Carries(cs[d])
        /\ cs[c] = q /\ \A d \in Call \ {c} : cs[d] = calls[d]
    BY <1>0, <2>3
  <2> HIDE DEF cs
  <2>5. \A d \in Call : calls'[d].kind = cs[d].kind /\ calls'[d].stage = cs[d].stage
    BY <2>1, <2>4, LateFacts DEF Alike
  <2>6. \A d \in Call : IsList(d)' => IsList(d)
    BY <2>3, <2>4, <2>5 DEF IsList
  <2>7. QED  BY <2>1, <2>2, <2>3, <2>4, <2>5, <2>6, ShownPends
<1>4. ASSUME NEW c \in Call, Fails(c) PROVE ShownInv'
  <2>1. calls' = [calls EXCEPT ![c] = Idle] /\ raced' = raced /\ (error' \/ silent')
    BY <1>4 DEF Fails
  <2>2. calls'[c] = Idle /\ \A d \in Call \ {c} : calls'[d] = calls[d]
    BY <1>0, <2>1
  <2>3. \A d \in Call : IsList(d)' => IsList(d)
    BY <2>2, IdleFacts DEF IsList
  <2>4. QED  BY <2>1, <2>3, ListsKeep DEF ShownInv, Excused
<1>5. ASSUME NEW c \in Call, ListArrives(c) PROVE ShownInv'
  <2>1. /\ IsList(c) /\ calls' = [calls EXCEPT ![c] = Idle]
        /\ \/ /\ calls[c].stage = "answered" /\ rules' = calls[c].answer
              /\ touched' = {} /\ error' = error
           \/ error' /\ rules' = rules /\ touched' = touched
        /\ UNCHANGED <<table, raced, silent, unseen>>
    BY <1>5, ListShape
  <2>2. calls'[c] = Idle /\ \A d \in Call \ {c} : calls'[d] = calls[d]
    BY <1>0, <2>1
  <2>3. \A d \in Call : IsList(d)' => IsList(d) /\ d # c
    BY <2>2, IdleFacts DEF IsList
  <2>4. CASE error'
    BY <2>1, <2>3, <2>4, ListsKeep DEF ShownInv, Excused
  <2>5. CASE ~error'
    <3> SUFFICES ASSUME ~raced', ~Excused'
                 PROVE  OneList' /\ AnswerIsTrue' /\ ListIsTrue'
      BY <2>1, <2>3, ListsKeep DEF ShownInv
    <3>1. Pending => Pending'
      BY <2>1, <2>2 DEF Pending, IsList, Kinds
    <3>2. OneList /\ AnswerIsTrue
      BY <2>1, <2>5, <3>1 DEF ShownInv, Excused
    <3>3. \A d \in Call : ~IsList(d)'
      BY <2>1, <2>3, <3>2 DEF OneList
    <3>4. \A u \in Uid \ unseen : rules'[u] = table[u]
      BY <2>1, <2>5, <3>2 DEF AnswerIsTrue
    <3>5. QED  BY <2>1, <3>3, <3>4 DEF OneList, AnswerIsTrue, ListIsTrue
  <2>6. QED  BY <2>4, <2>5
<1>6. ASSUME NEW u \in Uid, Fire(u) PROVE ShownInv'
  <2>1. /\ \A w \in Uid \ {u} : table'[w] = table[w]
        /\ unseen' = unseen \cup {u} /\ calls' = LateCalls(calls)
        /\ UNCHANGED <<rules, error, raced, silent, touched>>
    BY <1>6, FireShape
  <2>2. \A d \in Call : Alike(calls'[d], calls[d])
    BY <1>0, <2>1, LateFacts
  <2>3. \A d \in Call : /\ IsList(d)' <=> IsList(d)
                        /\ IsList(d)' => calls'[d] = calls[d]
    BY <2>2 DEF Alike, IsList
  <2>4. Pending => Pending'
    BY <2>2 DEF Alike, Pending
  <2>5. QED  BY <2>1, <2>3, <2>4, ShownStays
<1>7. QED
  BY <1>1, <1>2, <1>3, <1>4, <1>5, <1>6, ShownFetches, ShownServed, ShownLost, Steps

LEMMA ShownInit == Init => ShownInv
<1> SUFFICES ASSUME Init PROVE OneList /\ AnswerIsTrue /\ ListIsTrue
  BY DEF ShownInv
<1> DEFINE c == CHOOSE x \in Call : TRUE
<1>1. c \in Call /\ calls = [Idled EXCEPT ![c] = Listing]
  BY ViewAssumption DEF Init
<1> HIDE DEF c
<1>2. calls[c] = Listing /\ \A d \in Call \ {c} : calls[d] = Idle
  BY <1>1 DEF Idled
<1>3. IsList(c) /\ calls[c].stage = "sent" /\ \A d \in Call \ {c} : ~IsList(d)
  BY <1>2, IdleFacts, ListingFacts DEF IsList
<1>4. QED  BY <1>1, <1>3 DEF OneList, AnswerIsTrue, ListIsTrue

-----------------------------------------------------------------------------
(* Saves keep what was typed *)

(* A step that leaves alone what is about a rule, but for late.            *)
LEMMA KeptStays ==
    ASSUME NEW w \in Uid, KeptOf(w), submitted'[w] = submitted[w],
           \A d \in Call :
              calls'[d].uid = w \/ (calls[d].uid = w /\ calls[d].stage \in {"sent", "read"})
                  => Alike(calls'[d], calls[d]),
           table'[w].present => table[w].present /\ table'[w].content = table[w].content
    PROVE  KeptOf(w)'
<1>1. /\ \A c, d \in Call : calls[c].uid = w /\ calls[d].uid = w => c = d
      /\ \A c \in Call : calls[c].uid = w =>
            /\ calls[c].kind \in {"create", "save"} => calls[c].payload.content = submitted[w]
            /\ calls[c].kind = "switch" /\ calls[c].stage = "read" =>
                  calls[c].existing.content = submitted[w]
      /\ Carried(w) \/ ~table[w].present \/ table[w].content = submitted[w]
  BY DEF KeptOf
<1>2. \A d \in Call : calls'[d].uid = w => calls[d].uid = w
  BY DEF Alike
<1>3. \A c, d \in Call : calls'[c].uid = w /\ calls'[d].uid = w => c = d
  BY <1>1, <1>2
<1>4. ASSUME NEW d \in Call, calls'[d].uid = w
      PROVE  /\ calls'[d].kind \in {"create", "save"} =>
                    calls'[d].payload.content = submitted'[w]
             /\ calls'[d].kind = "switch" /\ calls'[d].stage = "read" =>
                    calls'[d].existing.content = submitted'[w]
  <2>1. Alike(calls'[d], calls[d]) /\ calls[d].uid = w
    BY <1>2, <1>4
  <2>2. CASE calls[d].kind = "save"
    BY <1>1, <2>1, <2>2 DEF Alike
  <2>3. CASE calls[d].kind # "save"
    BY <1>1, <2>1, <2>3 DEF Alike
  <2>4. QED  BY <2>2, <2>3
<1>5. Carried(w) => Carried(w)'
  BY DEF Carried, Alike
<1>6. Carried(w)' \/ ~table'[w].present \/ table'[w].content = submitted'[w]
  BY <1>1, <1>5
<1>7. QED  BY <1>3, <1>4, <1>6 DEF KeptOf

(* One request changes, and it is not about the rule.                      *)
LEMMA KeptElsewhere ==
    ASSUME Shaped, NEW w \in Uid, KeptOf(w), submitted'[w] = submitted[w],
           NEW c \in Call, NEW q \in AnyCall, calls' = [calls EXCEPT ![c] = q],
           q.uid # w, calls[c].uid # w \/ calls[c].stage \notin {"sent", "read"},
           table'[w] = table[w]
    PROVE  KeptOf(w)'
<1>1. calls'[c] = q /\ \A d \in Call \ {c} : calls'[d] = calls[d]
  BY DEF Shaped
<1>2. ASSUME NEW d \in Call,
             calls'[d].uid = w \/ (calls[d].uid = w /\ calls[d].stage \in {"sent", "read"})
      PROVE  Alike(calls'[d], calls[d])
  <2>1. calls'[d] = calls[d]
    BY <1>1, <1>2
  <2>2. QED  BY <2>1 DEF Alike
<1>3. QED  BY <1>2, KeptStays

LEMMA KeptSends ==
    ASSUME Shaped, NEW w \in Uid \ crossed', KeptOf(w), NEW c \in Call, Sends(c)
    PROVE  KeptOf(w)'
<1>1. PICK q \in AskedSent :
          /\ Carries(q) /\ q.stage = "sent" /\ calls[c] = Idle
          /\ calls' = [calls EXCEPT ![c] = q]
          /\ crossed' = IF \E d \in Call : calls[d].uid = q.uid
                        THEN crossed \cup {q.uid} ELSE crossed
          /\ table' = table
          /\ FromDialog(q) \/ FromCard(q)
  BY SendsShape
<1>2. /\ q \in AnyCall /\ q.uid \in Uid /\ calls[c].uid # w
      /\ submitted \in [Uid -> Content] /\ calls \in [Call -> AnyCall]
  BY <1>1, IdleFacts, ViewAssumption DEF AnyCall, AskedSent, Shaped
<1>3. CASE q.uid # w
  <2>1. submitted'[w] = submitted[w]
    BY <1>1, <1>2, <1>3 DEF FromDialog, FromCard
  <2>2. QED  BY <1>1, <1>2, <1>3, <2>1, KeptElsewhere
<1>4. CASE q.uid = w
  <2>1. \A d \in Call : calls[d].uid # w
    BY <1>1, <1>4
  <2>2. calls'[c] = q /\ \A d \in Call \ {c} : calls'[d].uid # w
    BY <1>1, <1>2, <2>1
  <2>3. q.kind \in {"create", "save"} => q.payload.content = submitted'[w]
    BY <1>1, <1>2, <1>4 DEF FromDialog, FromCard
  <2>4. Carried(w)' \/ ~table'[w].present \/ table'[w].content = submitted'[w]
    <3>1. CASE FromDialog(q)
      BY <1>1, <1>4, <2>2, <3>1 DEF FromDialog, Carried
    <3>2. CASE FromCard(q)
      <4>1. ~Carried(w)
        BY <2>1 DEF Carried
      <4>2. QED  BY <1>1, <3>2, <4>1 DEF FromCard, KeptOf
    <3>3. QED  BY <1>1, <3>1, <3>2
  <2>5. QED  BY <1>1, <2>2, <2>3, <2>4 DEF KeptOf
<1>5. QED  BY <1>3, <1>4

(* The one request about a rule: what KeptOf says of it.                   *)
LEMMA OneAbout ==
    ASSUME NEW c \in Call, KeptOf(calls[c].uid)
    PROVE  LET u == calls[c].uid IN
           /\ \A d \in Call \ {c} : calls[d].uid # u
           /\ calls[c].kind \in {"create", "save"} => calls[c].payload.content = submitted[u]
           /\ calls[c].kind = "switch" /\ calls[c].stage = "read" =>
                  calls[c].existing.content = submitted[u]
           /\ calls[c].kind \notin {"create", "save"} =>
                  ~table[u].present \/ table[u].content = submitted[u]
<1> DEFINE u == calls[c].uid
<1>1. \A d \in Call \ {c} : calls[d].uid # u
  BY DEF KeptOf
<1>2. calls[c].kind \notin {"create", "save"} => ~Carried(u)
  BY <1>1 DEF Carried
<1>3. QED  BY <1>1, <1>2 DEF KeptOf

(* One request is about the rule, and stays the only one.                  *)
LEMMA KeptHere ==
    ASSUME NEW c \in Call, NEW u \in Uid,
           calls'[c].uid = u, \A d \in Call \ {c} : calls'[d].uid # u,
           calls'[c].kind \in {"create", "save"} =>
               calls'[c].payload.content = submitted'[u],
           calls'[c].kind = "switch" /\ calls'[c].stage = "read" =>
               calls'[c].existing.content = submitted'[u],
           Carried(u)' \/ ~table'[u].present \/ table'[u].content = submitted'[u]
    PROVE  KeptOf(u)'
  BY DEF KeptOf

LEMMA KeptServed ==
    ASSUME Shaped, NEW w \in Uid \ crossed', KeptOf(w), NEW c \in Call, Served(c)
    PROVE  KeptOf(w)'
<1> DEFINE u == calls[c].uid
<1>1. /\ calls[c].stage = "sent" /\ UNCHANGED <<crossed, submitted>>
      /\ ServesList(c) \/ Creates(c) \/ Misses(c) \/ Reads(c)
  BY ServedShape
<1>2. /\ calls \in [Call -> AnyCall] /\ calls[c] \in AnyCall /\ Carries(calls[c])
      /\ table \in Rules
  BY DEF Shaped
<1>3. CASE ServesList(c)
  <2>1. PICK q \in ListServed : calls' = [calls EXCEPT ![c] = q] /\ table' = table
    BY <1>3 DEF ServesList
  <2>2. q \in AnyCall /\ q.uid = NoUid /\ calls[c].uid = NoUid /\ w # NoUid
    BY <1>2, <1>3, CallFacts, ViewAssumption DEF ServesList, ListServed, AnyCall
  <2>3. QED  BY <1>1, <2>1, <2>2, KeptElsewhere
<1>4. CASE ~ServesList(c)
  <2>1. PICK q \in AnyCall : /\ calls' = [calls EXCEPT ![c] = q]
                             /\ q.uid = u /\ q.kind = calls[c].kind
                             /\ q.payload = calls[c].payload
                             /\ Creates(c) \/ Misses(c) => q.stage = "answered" \/ q.stage = "failed"
                             /\ Reads(c) => q.stage = "read" /\ q.existing = table[u]
    <3>1. CASE Creates(c)
      <4>1. ~Reads(c)
        BY <3>1 DEF Creates, Reads
      <4>2. QED  BY <1>1, <1>2, <3>1, <4>1, Restaged DEF Creates, Kinds
    <3>2. CASE Misses(c)
      <4>1. ~Reads(c)
        BY <3>2 DEF Misses, Reads
      <4>2. QED  BY <1>1, <1>2, <3>2, <4>1, Restaged DEF Misses, Kinds
    <3>3. CASE Reads(c)
      <4>1. ~Creates(c) /\ ~Misses(c)
        BY <3>3 DEF Creates, Misses, Reads
      <4>2. QED  BY <3>3, <4>1 DEF Reads, AnyCall
    <3>4. QED  BY <1>1, <1>4, <3>1, <3>2, <3>3
  <2>2. calls'[c] = q /\ (\A d \in Call \ {c} : calls'[d] = calls[d]) /\ u \in Uid
    BY <1>1, <1>2, <1>4, <2>1, CallFacts DEF Creates, Misses, Reads, Kinds
  <2>3. CASE u # w
    <3>1. table'[w] = table[w]
      BY <1>1, <1>2, <1>4, <2>3 DEF Creates, Misses, Reads, Rules
    <3>2. QED  BY <1>1, <2>1, <2>3, <3>1, KeptElsewhere
  <2>4. CASE u = w
    <3>1. /\ \A d \in Call \ {c} : calls[d].uid # u
          /\ calls[c].kind \in {"create", "save"} => calls[c].payload.content = submitted[u]
          /\ calls[c].kind \notin {"create", "save"} =>
                  ~table[u].present \/ table[u].content = submitted[u]
      BY <2>4, OneAbout
    <3>2. CASE Creates(c)
      <4>1. table'[u].content = submitted'[u]
        BY <1>1, <1>2, <2>2, <3>1, <3>2 DEF Creates, Rules
      <4>2. /\ calls'[c].uid = w /\ \A d \in Call \ {c} : calls'[d].uid # w
            /\ calls'[c].kind = "create"
            /\ calls'[c].payload.content = submitted'[w]
        BY <1>1, <2>1, <2>2, <2>4, <3>1, <3>2 DEF Creates
      <4>3. QED  BY <2>4, <4>1, <4>2, KeptHere
    <3>3. CASE Misses(c)
      <4>1. ~table'[u].present
        BY <3>3 DEF Misses
      <4>2. /\ calls'[c].uid = w /\ \A d \in Call \ {c} : calls'[d].uid # w
            /\ calls'[c].kind \in {"create", "save"} =>
                   calls'[c].payload.content = submitted'[w]
            /\ calls'[c].stage # "read"
        BY <1>1, <2>1, <2>2, <2>4, <3>1, <3>3
      <4>3. QED  BY <2>4, <4>1, <4>2, KeptHere
    <3>4. CASE Reads(c)
      <4>1. table[u].present /\ table' = table /\ q.stage = "read" /\ q.existing = table[u]
        BY <2>1, <3>4 DEF Reads
      <4>2. calls[c].kind \in {"create", "save"} => Carried(w)'
        BY <2>1, <2>2, <2>4, <4>1 DEF Carried
      <4>3. calls[c].kind \notin {"create", "save"} => table[u].content = submitted[u]
        BY <3>1, <4>1
      <4>4. /\ calls'[c].uid = w /\ \A d \in Call \ {c} : calls'[d].uid # w
            /\ calls'[c].kind \in {"create", "save"} =>
                   calls'[c].payload.content = submitted'[w]
            /\ calls'[c].kind = "switch" => calls'[c].existing.content = submitted'[w]
        BY <1>1, <2>1, <2>2, <2>4, <3>1, <4>1, <4>3
      <4>5. Carried(w)' \/ table'[w].content = submitted'[w]
        BY <1>1, <2>4, <4>1, <4>2, <4>3
      <4>6. QED  BY <4>4, <4>5, KeptHere
    <3>5. QED  BY <1>1, <1>4, <3>2, <3>3, <3>4
  <2>5. QED  BY <2>3, <2>4
<1>5. QED  BY <1>3, <1>4

LEMMA KeptWritten ==
    ASSUME Shaped, NEW w \in Uid \ crossed', KeptOf(w), NEW c \in Call, Written(c)
    PROVE  KeptOf(w)'
<1> DEFINE r == calls[c]
           q == [r EXCEPT !.stage = "answered"]
           u == r.uid
           cs == [calls EXCEPT ![c] = q]
<1>1. /\ r \in AskedRead /\ u \in Uid
      /\ \A x \in Uid \ {u} : table'[x] = table[x]
      /\ \/ r.kind = "delete" /\ table'[u] = Absent
         \/ ~table[u].present /\ table'[u] = table[u]
         \/ /\ r.kind \in {"save", "switch"}
            /\ table'[u].content = IF r.kind = "save" THEN r.payload.content
                                                      ELSE r.existing.content
      /\ calls' = LateCalls(cs) /\ submitted' = submitted
  BY WrittenShape DEF history
<1>2. /\ calls \in [Call -> AnyCall] /\ \A d \in Call : Carries(calls[d])
      /\ r.stage = "read" /\ r.kind \in Kinds /\ r \in AnyCall
  BY <1>1 DEF Shaped, Written, AskedRead
<1>3. /\ q \in AnyCall /\ Carries(q) /\ q.kind = r.kind /\ q.uid = u
      /\ q.stage = "answered" /\ q.payload = r.payload
  BY <1>2, Restaged DEF Kinds
<1> HIDE DEF q
<1>4. /\ cs \in [Call -> AnyCall] /\ \A d \in Call : Carries(cs[d])
      /\ cs[c] = q /\ \A d \in Call \ {c} : cs[d] = calls[d]
  BY <1>2, <1>3
<1> HIDE DEF cs
<1>5. \A d \in Call : Alike(calls'[d], cs[d])
  BY <1>1, <1>4, LateFacts
<1>6. CASE u # w
  <2>1. \A d \in Call :
            calls'[d].uid = w \/ (calls[d].uid = w /\ calls[d].stage \in {"sent", "read"})
                => Alike(calls'[d], calls[d])
    <3>1. calls'[c].uid # w
      BY <1>3, <1>4, <1>5, <1>6 DEF Alike
    <3>2. QED  BY <1>4, <1>5, <1>6, <3>1
  <2>2. QED  BY <1>1, <1>6, <2>1, KeptStays
<1>7. CASE u = w
  <2>1. /\ \A d \in Call \ {c} : calls[d].uid # u
        /\ r.kind \in {"create", "save"} => r.payload.content = submitted[u]
        /\ r.kind = "switch" => r.existing.content = submitted[u]
    BY <1>2, <1>7, OneAbout
  <2>2. \A d \in Call \ {c} : calls'[d].uid # u
    BY <1>4, <1>5, <2>1 DEF Alike
  <2>3. /\ calls'[c].kind = r.kind /\ calls'[c].uid = u /\ calls'[c].stage = "answered"
        /\ r.kind \in {"create", "save"} => calls'[c].payload.content = r.payload.content
    <3>1. Alike(calls'[c], q)
      BY <1>4, <1>5
    <3>2. CASE r.kind = "save"
      BY <1>3, <3>1, <3>2 DEF Alike
    <3>3. CASE r.kind # "save"
      BY <1>3, <3>1, <3>3 DEF Alike
    <3>4. QED  BY <3>2, <3>3
  <2>4. ~table'[u].present \/ table'[u].content = submitted'[u]
    BY <1>1, <2>1 DEF Absent
  <2>5. QED  BY <1>1, <1>7, <2>1, <2>2, <2>3, <2>4, KeptHere
<1>8. QED  BY <1>6, <1>7

LEMMA KeptNext == Shaped /\ KeptInv /\ [Next]_vars => KeptInv'
<1> SUFFICES ASSUME Shaped, KeptInv, [Next]_vars, NEW w \in Uid \ crossed'
             PROVE  KeptOf(w)'
  BY DEF KeptInv
<1>0. /\ calls \in [Call -> AnyCall] /\ \A d \in Call : Carries(calls[d])
      /\ w # NoUid /\ w \in Uid
  BY ViewAssumption DEF Shaped
<1>1. crossed' = crossed => KeptOf(w)
  BY DEF KeptInv
<1>2. CASE Edits \/ UNCHANGED vars
  <2>1. UNCHANGED <<table, calls, crossed, submitted>>
    BY <1>2, EditsShape DEF vars, history
  <2>2. \A d \in Call : Alike(calls'[d], calls[d])
    BY <2>1 DEF Alike
  <2>3. QED  BY <1>0, <1>1, <2>1, <2>2, KeptStays
<1>3. ASSUME NEW c \in Call, Sends(c) PROVE KeptOf(w)'
  <2>1. crossed \subseteq crossed'
    BY <1>3, SendsShape
  <2>2. QED  BY <1>0, <1>3, <2>1, KeptSends DEF KeptInv
<1>4. ASSUME NEW c \in Call, Served(c) PROVE KeptOf(w)'
  BY <1>0, <1>1, <1>4, ServedShape, KeptServed
<1>5. ASSUME NEW c \in Call, Written(c) PROVE KeptOf(w)'
  <2>1. crossed' = crossed
    BY <1>5 DEF Written, history
  <2>2. QED  BY <1>0, <1>1, <1>5, <2>1, KeptWritten
<1>6. ASSUME NEW c \in Call, Lost(c) PROVE KeptOf(w)'
  <2> DEFINE q == [calls[c] EXCEPT !.stage = "failed"]
  <2>1. /\ calls[c].stage \in {"sent", "answered"} /\ calls' = [calls EXCEPT ![c] = q]
        /\ crossed' = crossed \cup {calls[c].uid} /\ UNCHANGED <<table, submitted>>
    BY <1>6, LostShape
  <2>2. q \in AnyCall /\ q.uid = calls[c].uid
    BY <1>0, <2>1, Restaged
  <2> HIDE DEF q
  <2>3. KeptOf(w) /\ calls[c].uid # w
    BY <2>1 DEF KeptInv
  <2>4. QED  BY <1>0, <2>1, <2>2, <2>3, KeptElsewhere
<1>7. ASSUME NEW c \in Call, Fetches(c) PROVE KeptOf(w)'
  BY <1>0, <1>1, <1>7, ListingFacts, KeptElsewhere DEF Fetches
<1>8. ASSUME NEW c \in Call, Fails(c) PROVE KeptOf(w)'
  BY <1>0, <1>1, <1>8, IdleFacts, KeptElsewhere DEF Fails
<1>9. ASSUME NEW c \in Call, ListArrives(c) PROVE KeptOf(w)'
  <2>1. calls[c].uid = NoUid
    BY <1>0, <1>9, ListShape, CallFacts DEF IsList
  <2>2. QED  BY <1>0, <1>1, <1>9, <2>1, ListShape, IdleFacts, KeptElsewhere
<1>10. ASSUME NEW u \in Uid, Fire(u) PROVE KeptOf(w)'
  <2>1. /\ \A x \in Uid \ {u} : table'[x] = table[x]
        /\ table'[u].content = table[u].content /\ table'[u].present = table[u].present
        /\ calls' = LateCalls(calls) /\ UNCHANGED <<crossed, submitted>>
    BY <1>10, FireShape
  <2>2. \A d \in Call : Alike(calls'[d], calls[d])
    BY <1>0, <2>1, LateFacts
  <2>3. QED  BY <1>0, <1>1, <2>1, <2>2, KeptStays
<1>11. QED
  BY <1>2, <1>3, <1>4, <1>5, <1>6, <1>7, <1>8, <1>9, <1>10, Steps

LEMMA KeptInit == Init => KeptInv
<1> SUFFICES ASSUME Init, NEW u \in Uid PROVE KeptOf(u)
  BY DEF KeptInv
<1> DEFINE c == CHOOSE x \in Call : TRUE
<1>1. c \in Call /\ calls = [Idled EXCEPT ![c] = Listing]
  BY ViewAssumption DEF Init
<1> HIDE DEF c
<1>2. \A d \in Call : calls[d].uid # u
  BY <1>1, IdleFacts, ListingFacts, ViewAssumption DEF Idled
<1>3. table[u].content = submitted[u]
  BY DEF Init
<1>4. QED  BY <1>2, <1>3 DEF KeptOf

-----------------------------------------------------------------------------
(* Nothing revives a rule *)

(* A request goes on: what it asks is the same, and it is still sent or    *)
(* read only if it was; of a save it is remembered if the rule was turned  *)
(* off.                                                                    *)
LEMMA HonestCall ==
    ASSUME NEW d \in Call, NEW r, CallIsHonest(r),
           calls'[d].kind = r.kind, calls'[d].uid = r.uid,
           r.kind \in {"create", "save", "switch"} =>
               /\ calls'[d].payload.active = r.payload.active
               /\ calls'[d].payload.wish = r.payload.wish,
           r.kind = "save" /\ calls'[d].stage \in {"sent", "read"} =>
               /\ r.stage \in {"sent", "read"}
               /\ r.payload.late => calls'[d].payload.late
               /\ TurnedOff(r.uid) => calls'[d].payload.late
    PROVE  CallIsHonest(calls[d])'
<1>1. CASE r.kind = "save"
  <2>1. calls'[d].stage \in {"sent", "read"} =>
          Honest(r.uid, r.payload) /\ r.stage \in {"sent", "read"}
    BY <1>1 DEF CallIsHonest
  <2>2. calls'[d].stage \in {"sent", "read"} =>
          (calls'[d].payload.active =>
             calls'[d].payload.wish \/ calls'[d].payload.late \/ table'[r.uid].active)
    BY <1>1, <2>1 DEF Honest, TurnedOff
  <2>3. QED  BY <1>1, <2>2 DEF CallIsHonest, Honest
<1>2. CASE r.kind # "save"
  BY <1>2 DEF CallIsHonest
<1>3. QED  BY <1>1, <1>2

(* One request changes while no rule is turned off.                        *)
LEMMA HonestCalls ==
    ASSUME Shaped, \A d \in Call : CallIsHonest(calls[d]),
           NEW c \in Call, NEW q \in AnyCall, calls' = [calls EXCEPT ![c] = q],
           CallIsHonest(calls[c])', \A u \in Uid : ~TurnedOff(u)
    PROVE  (\A d \in Call : CallIsHonest(calls[d]))'
<1> SUFFICES ASSUME NEW d \in Call PROVE CallIsHonest(calls[d])'
  OBVIOUS
<1>1. CASE d = c
  BY <1>1
<1>2. CASE d # c
  <2>1. calls'[d] = calls[d] /\ calls[d] \in AnyCall
    BY <1>2 DEF Shaped
  <2>2. calls[d].kind = "save" => ~TurnedOff(calls[d].uid)
    BY <2>1, CallFacts DEF Kinds
  <2>3. QED  BY <2>1, <2>2, HonestCall
<1>3. QED  BY <1>1, <1>2

(* A form that stays what it is, but for rules turned off.                 *)
LEMMA HonestForm ==
    ASSUME dialog \in Form, FormIsHonest, dialog' = Closed \/
           (/\ UNCHANGED <<dialog.open, dialog.uid, dialog.active, dialog.wish>>
            /\ dialog.late => dialog'.late
            /\ dialog.uid # NoUid /\ TurnedOff(dialog.uid) => dialog'.late)
    PROVE  FormIsHonest'
<1>1. CASE dialog' = Closed
  BY <1>1 DEF FormIsHonest, Closed
<1>2. CASE dialog' # Closed
  <2>1. CASE dialog.open /\ dialog.uid = NoUid
    BY <1>2, <2>1 DEF FormIsHonest
  <2>2. CASE dialog.open /\ dialog.uid # NoUid
    <3>1. Honest(dialog.uid, dialog)
      BY <2>2 DEF FormIsHonest
    <3>2. dialog'.active =>
            dialog'.wish \/ dialog'.late \/ table'[dialog.uid].active
      BY <1>2, <2>2, <3>1 DEF Honest, TurnedOff
    <3>3. QED  BY <1>2, <2>2, <3>2 DEF FormIsHonest, Honest
  <2>3. CASE ~dialog.open
    BY <1>2, <2>3 DEF FormIsHonest
  <2>4. QED  BY <2>1, <2>2, <2>3
<1>3. QED  BY <1>1, <1>2

LEMMA HonestEdits ==
    ASSUME Shaped, HonestInv, Edits PROVE HonestInv'
<1>1. /\ UNCHANGED <<table, calls>> /\ DialogStep /\ dialog \in Form
      /\ NoUid \notin Uid
  BY EditsShape, ViewAssumption DEF Shaped
<1>2. (\A d \in Call : CallIsHonest(calls[d]))'
  <2>1. \A d \in Call : CallIsHonest(calls[d])
    BY DEF HonestInv
  <2>2. QED  BY <1>1, <2>1 DEF CallIsHonest, Honest
<1>3. FormIsHonest'
  <2>1. CASE dialog' = Closed
    BY <2>1 DEF FormIsHonest, Closed
  <2>2. CASE dialog' = NewForm
    BY <2>2 DEF FormIsHonest, NewForm
  <2>3. ASSUME NEW u \in Uid, dialog' = FormOf(u) PROVE FormIsHonest'
    <3>1. /\ dialog'.uid = u /\ dialog'.active = rules[u].active
          /\ dialog'.late = (rules[u].active /\ ~table[u].active)
      BY <2>3 DEF FormOf
    <3>2. dialog'.active => dialog'.late \/ table'[u].active
      BY <1>1, <3>1
    <3>3. QED  BY <1>1, <3>1, <3>2 DEF FormIsHonest, Honest
  <2>4. CASE /\ dialog.uid # NoUid /\ dialog'.wish = dialog'.active
             /\ UNCHANGED <<dialog.open, dialog.uid>>
    BY <2>4 DEF FormIsHonest, Honest
  <2>5. CASE UNCHANGED <<dialog.open, dialog.uid, dialog.active, dialog.wish, dialog.late>>
    BY <1>1, <2>5, HonestForm DEF HonestInv, TurnedOff
  <2>6. QED  BY <1>1, <2>1, <2>2, <2>3, <2>4, <2>5 DEF DialogStep
<1>4. QED  BY <1>2, <1>3 DEF HonestInv

LEMMA HonestSends ==
    ASSUME Shaped, HonestInv, NEW c \in Call, Sends(c) PROVE HonestInv'
<1>1. PICK q \in AskedSent :
          /\ q.stage = "sent" /\ calls' = [calls EXCEPT ![c] = q]
          /\ UNCHANGED <<table, dialog>>
          /\ FromDialog(q) \/ FromCard(q)
  BY SendsShape
<1>2. q \in AnyCall /\ calls'[c] = q /\ dialog \in Form
  BY <1>1 DEF AnyCall, Shaped
<1>3. CallIsHonest(calls[c])'
  <2>1. CASE FromCard(q)
    BY <1>2, <2>1 DEF FromCard, CallIsHonest
  <2>2. CASE FromDialog(q)
    <3>1. IF dialog.uid = NoUid THEN dialog.active /\ dialog.wish
                                ELSE Honest(dialog.uid, dialog)
      BY <2>2 DEF FromDialog, HonestInv, FormIsHonest
    <3>2. CASE dialog.uid = NoUid
      BY <1>2, <2>2, <3>1, <3>2 DEF FromDialog, CallIsHonest
    <3>3. CASE dialog.uid # NoUid
      <4>1. q.payload.active => q.payload.wish \/ q.payload.late \/ table'[q.uid].active
        BY <1>1, <2>2, <3>1, <3>3 DEF FromDialog, Honest
      <4>2. QED  BY <1>2, <2>2, <3>3, <4>1 DEF FromDialog, CallIsHonest, Honest
    <3>4. QED  BY <3>2, <3>3
  <2>3. QED  BY <1>1, <2>1, <2>2
<1>4. \A u \in Uid : ~TurnedOff(u)
  BY <1>1 DEF TurnedOff
<1>5. (\A d \in Call : CallIsHonest(calls[d]))'
  BY <1>1, <1>2, <1>3, <1>4, HonestCalls DEF HonestInv
<1>6. FormIsHonest'
  BY <1>1, <1>2, HonestForm DEF HonestInv, TurnedOff
<1>7. QED  BY <1>5, <1>6 DEF HonestInv

LEMMA HonestServed ==
    ASSUME Shaped, HonestInv, NEW c \in Call, Served(c) \/ Lost(c) PROVE HonestInv'
<1>1. /\ calls[c].stage \in {"sent", "answered"} /\ dialog' = dialog
      /\ ServesList(c) \/ Creates(c) \/ Misses(c) \/ Reads(c) \/ Lost(c)
  BY ServedShape, LostShape
<1>2. /\ calls \in [Call -> AnyCall] /\ calls[c] \in AnyCall /\ Carries(calls[c])
      /\ table \in Rules /\ dialog \in Form
      /\ CallIsHonest(calls[c]) /\ \A d \in Call : CallIsHonest(calls[d])
  BY DEF Shaped, HonestInv
<1>3. Served(c) => calls[c].stage = "sent"
  BY ServedShape
<1>4. PICK q \in AnyCall :
          /\ calls' = [calls EXCEPT ![c] = q] /\ q.kind = calls[c].kind /\ q.uid = calls[c].uid
          /\ calls[c].kind \in Kinds => q.payload = calls[c].payload
          /\ q.stage \in {"sent", "read"} => calls[c].stage \in {"sent", "read"}
  <2>1. CASE ServesList(c)
    <3>1. PICK q \in ListServed : q.stage = "answered" /\ calls' = [calls EXCEPT ![c] = q]
      BY <2>1 DEF ServesList
    <3>2. q \in AnyCall /\ q.kind = "list" /\ q.uid = calls[c].uid /\ calls[c].kind = "list"
      BY <1>2, <2>1, <3>1, CallFacts DEF ServesList, AnyCall, ListServed
    <3>3. QED  BY <3>1, <3>2 DEF Kinds
  <2>2. CASE Reads(c)
    <3>1. PICK q \in AskedRead : /\ q.kind = calls[c].kind /\ q.uid = calls[c].uid
                                 /\ q.payload = calls[c].payload /\ q.stage = "read"
                                 /\ calls' = [calls EXCEPT ![c] = q]
      BY <2>2 DEF Reads
    <3>2. calls[c].stage = "sent" \/ Lost(c)
      BY <1>3
    <3>3. CASE calls[c].stage = "sent"
      BY <3>1, <3>3 DEF AnyCall
    <3>4. CASE Lost(c)
      BY <1>1, <1>2, <3>4, LostShape, Restaged
    <3>5. QED  BY <3>2, <3>3, <3>4
  <2>3. ASSUME NEW s \in {"answered", "failed"}, calls[c].kind = "list" => s = "failed",
               calls' = [calls EXCEPT ![c] = [calls[c] EXCEPT !.stage = s]]
        PROVE  \E q \in AnyCall :
          /\ calls' = [calls EXCEPT ![c] = q] /\ q.kind = calls[c].kind /\ q.uid = calls[c].uid
          /\ calls[c].kind \in Kinds => q.payload = calls[c].payload
          /\ q.stage \in {"sent", "read"} => calls[c].stage \in {"sent", "read"}
    <3> DEFINE q == [calls[c] EXCEPT !.stage = s]
    <3>1. /\ q \in AnyCall /\ q.kind = calls[c].kind /\ q.uid = calls[c].uid /\ q.stage = s
          /\ calls[c].kind \in Kinds => q.payload = calls[c].payload
      BY <1>1, <1>2, <2>3, Restaged
    <3>2. calls' = [calls EXCEPT ![c] = q]
      BY <2>3
    <3> HIDE DEF q
    <3>3. QED  BY <3>1, <3>2
  <2>4. CASE Creates(c) \/ Misses(c) \/ Lost(c)
    BY <2>3, <2>4, LostShape DEF Creates, Misses, Kinds
  <2>5. QED  BY <1>1, <2>1, <2>2, <2>4
<1>5. \A u \in Uid : ~TurnedOff(u)
  <2> SUFFICES ASSUME NEW u \in Uid, table[u].active PROVE table'[u].active
    BY DEF TurnedOff
  <2>1. CASE Creates(c)
    <3>1. calls[c].payload.active /\ calls[c].uid \in Uid
      BY <1>2, <2>1, CallFacts DEF Creates, CallIsHonest, Kinds
    <3>2. QED  BY <1>2, <2>1, <3>1 DEF Creates, Rules
  <2>2. CASE ~Creates(c)
    BY <1>1, <2>2, LostShape DEF ServesList, Misses, Reads
  <2>3. QED  BY <2>1, <2>2
<1>6. CallIsHonest(calls[c])'
  <2>1. calls'[c] = q
    BY <1>2, <1>4
  <2>2. calls[c].kind = "save" => ~TurnedOff(calls[c].uid)
    BY <1>2, <1>5, CallFacts DEF Kinds
  <2>3. QED  BY <1>2, <1>4, <2>1, <2>2, HonestCall DEF Kinds
<1>7. (\A d \in Call : CallIsHonest(calls[d]))'
  BY <1>2, <1>4, <1>5, <1>6, HonestCalls
<1>8. FormIsHonest'
  <2>1. dialog.uid # NoUid => ~TurnedOff(dialog.uid)
    BY <1>2, <1>5 DEF Form
  <2>2. QED  BY <1>1, <1>2, <2>1, HonestForm DEF HonestInv
<1>9. QED  BY <1>7, <1>8 DEF HonestInv

LEMMA HonestLate ==
    ASSUME Shaped, HonestInv, dialog' = LateDialog,
           NEW cs \in [Call -> AnyCall], \A d \in Call : Carries(cs[d]),
           \A d \in Call : CallIsHonest(cs[d]), calls' = LateCalls(cs)
    PROVE  HonestInv'
<1>1. FormIsHonest'
  BY LateDialogShape, HonestForm DEF HonestInv, Shaped
<1>2. ASSUME NEW d \in Call PROVE CallIsHonest(calls[d])'
  <2>1. /\ Alike(calls'[d], cs[d]) /\ CallIsHonest(cs[d])
        /\ cs[d].kind = "save" /\ TurnedOff(cs[d].uid) => calls'[d].payload.late
    BY LateFacts
  <2>2. CASE cs[d].kind = "save"
    BY <2>1, <2>2, HonestCall DEF Alike
  <2>3. CASE cs[d].kind # "save"
    BY <2>1, <2>3, HonestCall DEF Alike
  <2>4. QED  BY <2>2, <2>3
<1>3. QED  BY <1>1, <1>2 DEF HonestInv

LEMMA HonestWritten ==
    ASSUME Shaped, HonestInv, NEW c \in Call, Written(c) PROVE HonestInv'
<1> DEFINE q == [calls[c] EXCEPT !.stage = "answered"]
           cs == [calls EXCEPT ![c] = q]
<1>1. calls[c] \in AskedRead /\ calls' = LateCalls(cs) /\ dialog' = LateDialog
  BY WrittenShape
<1>2. /\ calls \in [Call -> AnyCall] /\ \A d \in Call : Carries(calls[d])
      /\ \A d \in Call : CallIsHonest(calls[d])
      /\ calls[c].stage = "read" /\ calls[c].kind \in Kinds \ {"create"}
  BY <1>1 DEF Shaped, Written, AskedRead, HonestInv
<1>3. /\ q \in AnyCall /\ Carries(q) /\ q.kind = calls[c].kind /\ q.uid = calls[c].uid
      /\ q.stage = "answered" /\ q.payload = calls[c].payload
  BY <1>2, Restaged DEF Kinds
<1> HIDE DEF q
<1>4. CallIsHonest(q)
  BY <1>2, <1>3 DEF CallIsHonest
<1>5. /\ cs \in [Call -> AnyCall] /\ \A d \in Call : Carries(cs[d])
      /\ \A d \in Call : CallIsHonest(cs[d])
  BY <1>2, <1>3, <1>4
<1> HIDE DEF cs
<1>6. QED  BY <1>1, <1>5, HonestLate

LEMMA HonestNext == Shaped /\ HonestInv /\ [Next]_vars => HonestInv'
<1> SUFFICES ASSUME Shaped, HonestInv, [Next]_vars PROVE HonestInv'
  OBVIOUS
<1>0. /\ calls \in [Call -> AnyCall] /\ \A d \in Call : Carries(calls[d])
      /\ \A d \in Call : CallIsHonest(calls[d])
      /\ dialog \in Form /\ FormIsHonest
  BY DEF Shaped, HonestInv
<1>1. CASE UNCHANGED vars
  BY <1>1 DEF vars, view, HonestInv, FormIsHonest, CallIsHonest, Honest
<1>2. ASSUME NEW c \in Call, NEW q \in {Idle, Listing},
             calls' = [calls EXCEPT ![c] = q], table' = table,
             \/ dialog' = Closed
             \/ UNCHANGED <<dialog.open, dialog.uid, dialog.active, dialog.wish, dialog.late>>
      PROVE  HonestInv'
  <2>1. calls'[c] = q /\ q \in AnyCall /\ q.kind \in {"none", "list"}
    BY <1>0, <1>2, IdleFacts, ListingFacts
  <2>2. CallIsHonest(calls[c])'
    BY <2>1 DEF CallIsHonest
  <2>3. \A u \in Uid : ~TurnedOff(u)
    BY <1>2 DEF TurnedOff
  <2>4. (\A d \in Call : CallIsHonest(calls[d]))'
    BY <1>0, <1>2, <2>1, <2>2, <2>3, HonestCalls
  <2>5. FormIsHonest'
    BY <1>0, <1>2, HonestForm DEF TurnedOff
  <2>6. QED  BY <2>4, <2>5 DEF HonestInv
<1>3. ASSUME NEW c \in Call, Fetches(c) \/ Fails(c) \/ ListArrives(c) PROVE HonestInv'
  BY <1>2, <1>3, ListShape DEF Fetches, Fails
<1>4. ASSUME NEW u \in Uid, Fire(u) PROVE HonestInv'
  BY <1>0, <1>4, FireShape, HonestLate
<1>5. QED
  BY <1>1, <1>3, <1>4, HonestEdits, HonestSends, HonestServed, HonestWritten, Steps

LEMMA HonestInit == Init => HonestInv
<1> SUFFICES ASSUME Init PROVE HonestInv
  OBVIOUS
<1> DEFINE c == CHOOSE x \in Call : TRUE
<1>1. c \in Call /\ calls = [Idled EXCEPT ![c] = Listing] /\ dialog = Closed
  BY ViewAssumption DEF Init
<1> HIDE DEF c
<1>2. \A d \in Call : calls[d].kind \in {"none", "list"}
  BY <1>1, IdleFacts, ListingFacts DEF Idled
<1>3. QED  BY <1>1, <1>2 DEF HonestInv, FormIsHonest, Closed, CallIsHonest

-----------------------------------------------------------------------------
LEMMA RulesViewInvariance == Spec => []IInv
<1>1. Init => IInv
  BY ShapedInit, ShownInit, KeptInit, HonestInit DEF IInv
<1>2. IInv /\ [Next]_vars => IInv'
  BY ShapedNext, ShownNext, KeptNext, HonestNext DEF IInv
<1>3. QED  BY <1>1, <1>2, PTL DEF Spec

(* With no request under way and no error, overlap of reloads or silent    *)
(* failure to excuse it, the page shows the table, but for rules fired     *)
(* since and text typed into a form that was cancelled: RulesView.vue:239, *)
(* where every answer of a request has the list fetched again.             *)
THEOREM PageShowsTable == Spec => []ShownIsTrue
<1>1. IInv => ShownIsTrue
  <2> SUFFICES ASSUME Shaped, ShownInv, Quiet, ~error, ~raced, ~silent
               PROVE  ListIsTrue /\ \A c \in Call : ~IsList(c)
    BY DEF IInv, ShownIsTrue, ListIsTrue
  <2>1. \A c \in Call : calls[c] = Idle
    BY CallFacts DEF Quiet, Going, Shaped
  <2>2. (\A c \in Call : ~IsList(c)) /\ ~Pending
    BY <2>1, IdleFacts DEF IsList, Pending, Kinds
  <2>3. QED  BY <2>2 DEF ShownInv, Excused
<1>2. QED  BY <1>1, RulesViewInvariance, PTL

(* With no request under way, a rule says what its latest save said unless *)
(* a request was lost or two at once were about it: update, in             *)
(* api.rules.service.ts:61, writes the row it read with the request's      *)
(* content, and nobody else wrote in between.                              *)
THEOREM SavesKeepText == Spec => []LatestSaveIsKept
<1>1. IInv => LatestSaveIsKept
  <2> SUFFICES ASSUME Shaped, KeptInv, Quiet, NEW u \in Uid \ crossed,
                      table[u].present
               PROVE  table[u].content = submitted[u]
    BY DEF IInv, LatestSaveIsKept
  <2>1. \A c \in Call : calls[c] = Idle
    BY CallFacts DEF Quiet, Going, Shaped
  <2>2. ~Carried(u)
    BY <2>1, IdleFacts, ViewAssumption DEF Carried
  <2>3. QED  BY <2>2 DEF KeptInv, KeptOf
<1>2. QED  BY <1>1, RulesViewInvariance, PTL

(* A row that becomes active or present is written by a request about it.  *)
LEMMA Writers ==
    ASSUME Shaped, [Next]_vars, NEW u \in Uid,
           (~table[u].active /\ table'[u].active) \/ (~table[u].present /\ table'[u].present)
    PROVE  \E c \in Call :
              /\ calls[c].uid = u /\ calls[c].stage # calls'[c].stage
              /\ \/ calls[c].kind = "create"
                 \/ /\ calls[c].kind \in {"save", "switch"} /\ table[u].present
                    /\ calls[c].stage = "read" /\ table'[u].active = calls[c].payload.active
<1>0. table \in Rules /\ calls \in [Call -> AnyCall] /\ \A d \in Call : Carries(calls[d])
  BY DEF Shaped
<1>1. table'[u] # table[u]
  OBVIOUS
<1>2. ~(Edits \/ UNCHANGED vars) /\ \A c \in Call : ~(\/ Sends(c) \/ Lost(c)
          \/ Fetches(c) \/ Fails(c) \/ ListArrives(c))
  BY <1>1, EditsShape, SendsShape, LostShape, ListShape DEF Fetches, Fails, vars
<1>3. \A w \in Uid : ~Fire(w)
  BY FireShape
<1>4. PICK c \in Call : Served(c) \/ Written(c)
  BY <1>2, <1>3, Steps
<1>5. CASE Served(c)
  <2>1. Creates(c) /\ calls[c].stage = "sent"
    BY <1>1, <1>5, ServedShape DEF ServesList, Misses, Reads
  <2>2. calls[c].uid = u
    BY <1>0, <1>1, <2>1 DEF Creates, Rules
  <2>3. calls'[c].stage = "answered"
    <3>1. calls'[c] = [calls[c] EXCEPT !.stage = "answered"]
      BY <1>0, <2>1 DEF Creates
    <3>2. QED  BY <1>0, <2>1, <3>1, Restaged DEF Creates
  <2>4. QED  BY <2>1, <2>2, <2>3 DEF Creates
<1>6. CASE Written(c)
  <2> DEFINE q == [calls[c] EXCEPT !.stage = "answered"]
             cs == [calls EXCEPT ![c] = q]
  <2>1. /\ calls[c] \in AskedRead /\ calls[c].stage = "read"
        /\ calls' = LateCalls(cs) /\ calls[c].uid = u
        /\ calls[c].kind \in {"save", "switch"} /\ table[u].present
        /\ table'[u].active = calls[c].payload.active
    <3>1. ~Absent.present /\ ~Absent.active
      BY DEF Absent
    <3>2. /\ calls[c] \in AskedRead /\ calls[c].stage = "read"
          /\ calls' = LateCalls(cs)
          /\ \A w \in Uid \ {calls[c].uid} : table'[w] = table[w]
      BY <1>6, WrittenShape DEF Written
    <3>3. calls[c].uid = u
      BY <1>1, <3>2
    <3>4. table'[u] # Absent
      BY <3>1
    <3>5. /\ calls[c].kind \in {"save", "switch"} /\ table[u].present
          /\ table'[u].active = calls[c].payload.active
      BY <1>1, <1>6, <3>3, <3>4, WrittenShape
    <3>6. QED  BY <3>2, <3>3, <3>5
  <2>2. q \in AnyCall /\ Carries(q) /\ q.stage = "answered"
    BY <1>0, <2>1, Restaged
  <2> HIDE DEF q
  <2>3. cs \in [Call -> AnyCall] /\ (\A d \in Call : Carries(cs[d])) /\ cs[c] = q
    BY <1>0, <2>2
  <2> HIDE DEF cs
  <2>4. calls'[c].stage = "answered"
    BY <2>1, <2>2, <2>3, LateFacts DEF Alike
  <2>5. QED  BY <2>1, <2>4
<1>7. QED  BY <1>4, <1>5, <1>6

(* A rule becomes active only by a request of a user who wanted that, or   *)
(* by a save of a form that had it as active before it was turned off:     *)
(* RulesView.vue:239, where handleSave sends active as the form has it.    *)
THEOREM NothingRevives == Spec => NoRevival
<1>1. IInv /\ [Next]_vars =>
        [\A u \in Uid : ~table[u].active /\ table'[u].active =>
            \E c \in Call : /\ calls[c].uid = u /\ calls[c].kind # "delete"
                           /\ calls[c] # calls'[c]
                           /\ (calls[c].payload.wish \/ calls[c].payload.late)]_table
  <2> SUFFICES ASSUME IInv, [Next]_vars, NEW u \in Uid,
                      ~table[u].active, table'[u].active
               PROVE  \E c \in Call : /\ calls[c].uid = u /\ calls[c].kind # "delete"
                           /\ calls[c] # calls'[c]
                           /\ (calls[c].payload.wish \/ calls[c].payload.late)
    OBVIOUS
  <2>1. PICK c \in Call :
              /\ calls[c].uid = u /\ calls[c].stage # calls'[c].stage
              /\ \/ calls[c].kind = "create"
                 \/ /\ calls[c].kind \in {"save", "switch"}
                    /\ calls[c].stage = "read" /\ table'[u].active = calls[c].payload.active
    <3>1. Shaped
      BY DEF IInv
    <3>2. \E c \in Call :
              /\ calls[c].uid = u /\ calls[c].stage # calls'[c].stage
              /\ \/ calls[c].kind = "create"
                 \/ /\ calls[c].kind \in {"save", "switch"} /\ table[u].present
                    /\ calls[c].stage = "read" /\ table'[u].active = calls[c].payload.active
      BY <3>1, Writers
    <3>3. QED  BY <3>2
  <2>2. CallIsHonest(calls[c]) /\ Carries(calls[c])
    BY DEF IInv, HonestInv, Shaped
  <2>3. calls[c].payload.wish \/ calls[c].payload.late
    <3>1. CASE calls[c].kind = "create"
      BY <2>2, <3>1 DEF CallIsHonest
    <3>2. CASE calls[c].kind = "save"
      BY <2>1, <2>2, <3>2 DEF CallIsHonest, Honest
    <3>3. CASE calls[c].kind = "switch"
      BY <2>1, <2>2, <3>3 DEF CallIsHonest
    <3>4. QED  BY <2>1, <3>1, <3>2, <3>3
  <2>4. QED  BY <2>1, <2>3
<1>2. QED  BY <1>1, RulesViewInvariance, PTL DEF Spec, NoRevival

(* A rule that was deleted stays so until a request creates it, whatever   *)
(* saves and switches of it were under way: the update of                  *)
(* rule.repository.ts:39 writes no row that is gone.                       *)
THEOREM DeletedRulesStay == Spec => DeletedStaysDeleted
<1>1. IInv /\ [Next]_vars =>
        [\A u \in Uid : ~table[u].present /\ table'[u].present
            => \E c \in Call : calls[c].kind = "create" /\ calls[c].uid = u]_table
  BY Writers DEF IInv
<1>2. QED  BY <1>1, RulesViewInvariance, PTL DEF Spec, DeletedStaysDeleted
-----------------------------------------------------------------------------
(* What remains of the types: flags, and whose arrays a form shares.  A    *)
(* form shares those of a rule in the list, until the list is replaced.    *)
Flags == (loading = TRUE \/ loading = FALSE) /\ (error = TRUE \/ error = FALSE)
Sharing == dialog.shared # {} =>
    dialog.open /\ dialog.uid \in Uid /\ rules[dialog.uid].present
PageRest == Flags /\ Sharing

LEMMA FlagsNext == ASSUME Flags, [Next]_vars PROVE Flags'
<1>1. CASE \E c \in Call : User(c)
  <2>1. PICK c \in Call : User(c)
    BY <1>1
  <2>2. CASE Refresh(c)
    BY <2>2 DEF Refresh, FetchRules, Flags
  <2>3. CASE DoDelete(c)
    BY <2>3 DEF DoDelete, Flags, view
  <2>4. CASE \E u \in Uid : Switch(c, u)
    BY <2>4 DEF Switch, Flags, view
  <2>5. CASE \E u \in Uid : Submit(c, u)
    BY <2>5 DEF Submit, Flags, view
  <2>6. QED  BY <2>1, <2>2, <2>3, <2>4, <2>5 DEF User
<1>2. CASE \E c \in Call : Server(c) \/ Lost(c)
  BY <1>2 DEF Server, Served, Written, Lost, Flags, view
<1>3. CASE \E c \in Call : ListArrives(c)
  BY <1>3 DEF ListArrives, StopsLoading, Flags
<1>4. CASE \E c \in Call : ReplyArrives(c)
  <2>1. PICK c \in Call : ReplyArrives(c)
    BY <1>4
  <2>2. CASE calls[c].stage = "answered"
    BY <2>1, <2>2 DEF ReplyArrives, FetchRules, Flags
  <2>3. CASE calls[c].stage = "failed"
    BY <2>1, <2>3 DEF ReplyArrives, Flags
  <2>4. QED  BY <2>1, <2>2, <2>3 DEF ReplyArrives
<1>5. CASE \E u \in Uid : ConfirmDelete(u) \/ Fire(u)
  BY <1>5 DEF ConfirmDelete, Fire, Flags
<1>6. CASE CancelDelete \/ Open \/ Cancel \/ Toggle
  BY <1>6 DEF CancelDelete, Open, Cancel, Toggle, Flags
<1>7. ASSUME NEW p, NEW v, Typed(p, v) PROVE Flags'
  BY <1>7 DEF Typed, Flags
<1>8. ASSUME NEW p, NEW from, NEW to, Replaced(p, from, to) PROVE Flags'
  BY <1>8 DEF Replaced, Flags
<1>9. CASE UNCHANGED vars
  BY <1>9 DEF vars, view, Flags
<1>10. QED
  BY <1>1, <1>2, <1>3, <1>4, <1>5, <1>6, <1>7, <1>8, <1>9
  DEF Next, Arrives, ChangeActionType, RemoveActivator, RemoveAction, AddActivator,
      AddAction, TypeActivator, TypeAction

(* A form that is left alone, or closed, shares no more than it did.       *)
LEMMA SharingStays ==
    ASSUME Sharing, rules' = rules,
           \/ dialog' = Closed
           \/ dialog'.shared \subseteq dialog.shared /\ UNCHANGED <<dialog.open, dialog.uid>>
    PROVE  Sharing'
<1>1. CASE dialog' = Closed
  BY <1>1 DEF Sharing, Closed
<1>2. CASE dialog'.shared \subseteq dialog.shared /\ UNCHANGED <<dialog.open, dialog.uid>>
  BY <1>2 DEF Sharing
<1>3. QED  BY <1>1, <1>2

LEMMA SharingEdits == ASSUME Shaped, Sharing, Edits PROVE Sharing'
<1>0. dialog \in Form /\ rules \in Rules /\ {"activators", "actions"} = Part
  BY DEF Shaped, Part
<1>1. CASE (\E u \in Uid : ConfirmDelete(u)) \/ CancelDelete \/ Cancel
  BY <1>1, SharingStays DEF ConfirmDelete, CancelDelete, Cancel
<1>2. CASE Open
  <2>1. CASE dialog' = NewForm
    BY <2>1 DEF NewForm, Sharing
  <2>2. ASSUME NEW u \in Uid, rules[u].present, dialog' = FormOf(u) PROVE Sharing'
    BY <1>2, <2>2 DEF FormOf, Open, Sharing
  <2>3. QED  BY <1>2, <2>1, <2>2 DEF Open
<1>3. CASE Toggle
  BY <1>0, <1>3, SharingStays DEF Toggle, Form
<1>4. ASSUME NEW p \in Part, NEW v, Typed(p, v) PROVE Sharing'
  <2>1. dialog'.shared = dialog.shared /\ UNCHANGED <<dialog.open, dialog.uid>>
    BY <1>0, <1>4 DEF Typed, Form
  <2>2. CASE p \in dialog.shared
    <3> DEFINE u == dialog.uid
    <3>1. dialog.open /\ u \in Uid /\ rules[u].present
      BY <2>2 DEF Sharing
    <3>2. rules' = [rules EXCEPT ![u].content[p] = v] /\ rules[u] \in Row
      BY <1>0, <1>4, <2>2, <3>1 DEF Typed, Rules
    <3>3. rules'[u].present = rules[u].present
      BY <1>0, <3>1, <3>2 DEF Rules, Row
    <3>4. QED  BY <2>1, <3>1, <3>3 DEF Sharing
  <2>3. CASE p \notin dialog.shared
    BY <1>4, <2>1, <2>3, SharingStays DEF Typed
  <2>4. QED  BY <2>2, <2>3
<1>5. ASSUME NEW p \in Part, NEW from, NEW to, Replaced(p, from, to) PROVE Sharing'
  <2>1. /\ dialog'.shared = dialog.shared \ {p} /\ rules' = rules
        /\ UNCHANGED <<dialog.open, dialog.uid>>
    BY <1>0, <1>5 DEF Replaced, Form
  <2>2. QED  BY <2>1, SharingStays
<1>6. QED
  BY <1>0, <1>1, <1>2, <1>3, <1>4, <1>5
  DEF Edits, ChangeActionType, RemoveActivator, RemoveAction, AddActivator, AddAction,
      TypeActivator, TypeAction

LEMMA SharingNext == ASSUME Shaped, Sharing, [Next]_vars PROVE Sharing'
<1>0. dialog \in Form
  BY DEF Shaped
<1>1. CASE UNCHANGED vars
  BY <1>1, SharingStays DEF vars, view
<1>2. ASSUME NEW c \in Call, Sends(c) \/ Served(c) \/ Lost(c) \/ Fetches(c) \/ Fails(c)
      PROVE  Sharing'
  BY <1>2, SharingStays
  DEF Sends, DoDelete, Switch, Submit, Served, Lost, Fetches, Fails, view
<1>3. LateDialog.shared = dialog.shared /\ LateDialog.open = dialog.open
      /\ LateDialog.uid = dialog.uid
  BY <1>0 DEF LateDialog, Form
<1>4. ASSUME NEW c \in Call, Written(c) PROVE Sharing'
  BY <1>3, <1>4, SharingStays DEF Written
<1>5. ASSUME NEW u \in Uid, Fire(u) PROVE Sharing'
  BY <1>3, <1>5, SharingStays DEF Fire
<1>6. ASSUME NEW c \in Call, ListArrives(c) PROVE Sharing'
  <2>1. CASE calls[c].stage = "answered"
    BY <1>0, <1>6, <2>1 DEF ListArrives, Unshared, Form, Sharing
  <2>2. CASE calls[c].stage # "answered"
    BY <1>6, <2>2, SharingStays DEF ListArrives
  <2>3. QED  BY <2>1, <2>2
<1>7. QED  BY <1>1, <1>2, <1>4, <1>5, <1>6, SharingEdits, Steps

(* Every variable of the page keeps its type, and a form shares the arrays *)
(* of a rule that is in the list only: RulesView.vue and the editors,      *)
(* which write into the objects they were given.                           *)
THEOREM RulesPageIsTyped == Spec => []ViewTypeOK
<1>1. Init => PageRest
  BY DEF Init, PageRest, Flags, Sharing, Closed
<1>2. Shaped /\ PageRest /\ [Next]_vars => PageRest'
  BY FlagsNext, SharingNext DEF PageRest
<1>3. Shaped /\ PageRest => ViewTypeOK
  <2> SUFFICES ASSUME Shaped, PageRest PROVE ViewTypeOK
    OBVIOUS
  <2>1. ASSUME NEW c \in Call
        PROVE  /\ calls[c].kind \in {"none", "list", "create", "save", "switch", "delete"}
               /\ calls[c].stage \in {"idle", "sent", "read", "answered", "failed"}
               /\ calls[c].uid \in Uid \cup {NoUid}
    <3>1. calls[c] \in AnyCall
      BY DEF Shaped
    <3>2. CASE calls[c] = Idle
      BY <3>2 DEF Idle
    <3>3. CASE calls[c] \in ListSent \cup ListServed
      BY <3>3 DEF ListSent, ListServed
    <3>4. CASE calls[c] \in AskedSent \cup AskedRead
      BY <3>4 DEF AskedSent, AskedRead, Kinds
    <3>5. QED  BY <3>1, <3>2, <3>3, <3>4 DEF AnyCall
  <2>2. loading \in BOOLEAN /\ error \in BOOLEAN
    BY DEF PageRest, Flags
  <2>3. QED  BY <2>1, <2>2 DEF ViewTypeOK, Shaped, PageRest, Sharing
<1>4. IInv => Shaped
  BY DEF IInv
<1>5. QED  BY <1>1, <1>2, <1>3, <1>4, RulesViewInvariance, PTL DEF Spec
=============================================================================
