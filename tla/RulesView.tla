------------------------------ MODULE RulesView ------------------------------
(***************************************************************************)
(* src/web/src/Rules: the list of rules, the dialog that edits one, and    *)
(* their requests to the rules API, while the engine fires rules.          *)
(*                                                                         *)
(* A rule is whether it is active, whether it has fired (activatedAt), and *)
(* its content: what its activators and actions say.                       *)
(***************************************************************************)
EXTENDS Integers, FiniteSets

CONSTANTS
    Uid, NoUid,
    Text,               \* what a filled-in activator or action may say
    Call,               \* names for requests under way
    MaxEdits,           \* bound on changes made in a dialog
    MaxClicks,          \* bound on clicks that open something or send a request
    MaxTroubles         \* bound on rules fired and requests lost, together

ASSUME ViewAssumption ==
    /\ NoUid \notin Uid /\ Call # {}
    /\ Text \cap {"blank", "empty"} = {} /\ Text # {}
    /\ {MaxEdits, MaxClicks, MaxTroubles} \subseteq Nat

(* "blank": an activator without a value, an action without its fields.    *)
(* "empty": there is no activator, or no action.                           *)
Part == {"activators", "actions"}
Content == [Part -> Text \cup {"blank", "empty"}]
Filled(v) == [p \in Part |-> v]
Row == [present : BOOLEAN, active : BOOLEAN, fired : BOOLEAN, content : Content]
Absent == [present |-> FALSE, active |-> FALSE, fired |-> FALSE,
           content |-> Filled("empty")]
Rules == [Uid -> Row]

VARIABLES
    table,              \* table rules
    calls,              \* requests under way
    rules, loading, error,      \* of RulesView.vue
    dialog,             \* showModal, editingRule.uid and the form
    deleteTarget,
    budget,             \* clicks and troubles so far
    raced,              \* history: have two reloads of the list overlapped
    silent,             \* history: has a save failed since the last reload
    unseen,             \* history: rules that fired since the last reload
    touched,            \* history: rules whose shown content a form changed
    crossed,            \* history: rules that two requests at once were
                        \* about, or whose request was lost
    submitted           \* history: content of a rule's latest save

view == <<rules, loading, error, dialog, deleteTarget>>
history == <<raced, silent, unseen, touched, crossed, submitted>>
vars == <<table, calls, view, budget, history>>

Form == [open : BOOLEAN, uid : Uid \cup {NoUid}, active : BOOLEAN,
         content : Content,
         shared : SUBSET Part,  \* arrays that are those of the list's rule
         edits : 0..MaxEdits,
         wish : BOOLEAN,        \* history: does the user want it active
         late : BOOLEAN]        \* history: was the rule turned off since
Closed == [open |-> FALSE, uid |-> NoUid, active |-> FALSE,
           content |-> Filled("empty"), shared |-> {}, edits |-> 0, wish |-> FALSE, late |-> FALSE]

Idle == [kind |-> "none", stage |-> "idle", uid |-> NoUid]
Idled == [c \in Call |-> Idle]
Listing == [kind |-> "list", stage |-> "sent", uid |-> NoUid]
Going(c) == calls[c].stage # "idle"
Free(c) == calls[c] = Idle
Clicked ==
    /\ budget.clicks < MaxClicks
    /\ budget' = [budget EXCEPT !.clicks = @ + 1]
Trouble ==
    /\ budget.troubles < MaxTroubles
    /\ budget' = [budget EXCEPT !.troubles = @ + 1]
ListGoing == \E c \in Call : calls[c].kind = "list"

(* The view has just been mounted; some rules are in the table.            *)
Init ==
    /\ LET v == Filled(CHOOSE x \in Text : TRUE)
           c == CHOOSE x \in Call : TRUE IN
       /\ table \in [Uid -> {Absent} \cup [present : {TRUE}, active : BOOLEAN,
                                           fired : {FALSE}, content : {v}]]
       /\ calls = [Idled EXCEPT ![c] = Listing]
    /\ rules = [u \in Uid |-> Absent] /\ loading = TRUE /\ error = FALSE
    /\ dialog = Closed /\ deleteTarget = NoUid
    /\ budget = [clicks |-> 0, troubles |-> 0]
    /\ raced = FALSE /\ silent = FALSE /\ unseen = {} /\ touched = {}
    /\ crossed = {} /\ submitted = [u \in Uid |-> table[u].content]

-----------------------------------------------------------------------------
(* Requests *)

(* Mutant: the list is not fetched after a request that succeeded.         *)
FetchRules_Not(c) ==
    calls' = [calls EXCEPT ![c] = Idle] /\ UNCHANGED <<loading, error, raced>>
FetchRules(c) ==
    /\ calls' = [calls EXCEPT ![c] = Listing]
    /\ loading' = TRUE /\ error' = FALSE
    /\ raced' = (raced \/ ListGoing)

Send(c, kind, u, payload) ==
    /\ calls' = [calls EXCEPT ![c] =
           [kind |-> kind, stage |-> "sent", uid |-> u, payload |-> payload]]
    /\ crossed' = IF \E d \in Call : calls[d].uid = u THEN crossed \cup {u}
                                                      ELSE crossed

Refresh(c) ==
    /\ Free(c) /\ Clicked /\ ~loading
    /\ FetchRules(c)
    /\ UNCHANGED <<table, rules, dialog, deleteTarget, silent, unseen, touched,
                   crossed, submitted>>

Undisturbed == ~dialog.open /\ deleteTarget = NoUid

(* activate and deactivate                                                 *)
(* A card offers one of two buttons, by the page's own copy of the rule.   *)
Offered(u) == ~rules[u].active
Switch(c, u) ==
    /\ Free(c) /\ Clicked /\ Undisturbed /\ rules[u].present
    /\ Send(c, "switch", u, [active |-> Offered(u), wish |-> Offered(u), late |-> FALSE])
    /\ UNCHANGED <<table, view, raced, silent, unseen, touched, submitted>>

ConfirmDelete(u) ==
    /\ Clicked /\ Undisturbed /\ rules[u].present
    /\ deleteTarget' = u
    /\ UNCHANGED <<table, calls, rules, loading, error, dialog, history>>
CancelDelete ==
    /\ deleteTarget # NoUid /\ deleteTarget' = NoUid
    /\ UNCHANGED <<table, calls, rules, loading, error, dialog, budget, history>>
DoDelete(c) ==
    /\ Free(c) /\ Clicked /\ deleteTarget # NoUid
    /\ Send(c, "delete", deleteTarget, <<>>)
    /\ UNCHANGED <<table, view, raced, silent, unseen, touched, submitted>>

-----------------------------------------------------------------------------
(* RuleFormModal.vue, ActivatorsEditor.vue and ActionsEditor.vue           *)

(* Mutant: the form starts as that of an active rule.                      *)
FormOf_Active(u) ==
    [open |-> TRUE, uid |-> u, active |-> TRUE, content |-> rules[u].content,
     shared |-> Part, edits |-> 0, wish |-> FALSE,
     late |-> rules[u].active /\ ~table[u].active]
FormOf(u) ==
    [open |-> TRUE, uid |-> u, active |-> rules[u].active, content |-> rules[u].content,
     shared |-> Part, edits |-> 0, wish |-> FALSE,
     late |-> rules[u].active /\ ~table[u].active]
NewContent ==
    [activators |-> "blank", actions |-> CHOOSE x \in Text : TRUE]
NewForm == [open |-> TRUE, uid |-> NoUid, active |-> TRUE, content |-> NewContent,
            shared |-> {}, edits |-> 0, wish |-> TRUE, late |-> FALSE]

Open ==
    /\ Clicked /\ Undisturbed
    /\ dialog' \in {NewForm} \cup {FormOf(u) : u \in {x \in Uid : rules[x].present}}
    /\ UNCHANGED <<table, calls, rules, loading, error, deleteTarget, history>>

Cancel ==
    /\ dialog.open /\ dialog' = Closed
    /\ UNCHANGED <<table, calls, rules, loading, error, deleteTarget, budget, history>>

Editing == dialog.open /\ dialog.edits < MaxEdits
Toggle ==
    /\ Editing /\ dialog.uid # NoUid
    /\ dialog' = [dialog EXCEPT !.edits = @ + 1, !.active = ~@, !.wish = ~dialog.active]
    /\ UNCHANGED <<table, calls, rules, loading, error, deleteTarget, budget, history>>

(* A field is typed in: its object is the list's own, as long as the list  *)
(* has not been reloaded and none has been added or removed.               *)
Typed(p, v) ==
    /\ Editing /\ dialog.content[p] \notin {"empty", v}
    /\ dialog' = [dialog EXCEPT !.edits = @ + 1, !.content[p] = v]
    /\ IF p \in dialog.shared
       THEN /\ rules' = [rules EXCEPT ![dialog.uid].content[p] = v]
            /\ touched' = touched \cup {dialog.uid}
       ELSE UNCHANGED <<rules, touched>>
    /\ UNCHANGED <<table, calls, loading, error, deleteTarget, budget, raced, silent,
                   unseen, crossed, submitted>>
TypeActivator(v) == Typed("activators", v)
TypeAction(v) == Typed("actions", v)

(* ensureContext: an action of another type begins without its fields.     *)
ChangeActionType == Typed("actions", "blank")

(* remove and add make an array of their own.                              *)
Replaced(p, from, to) ==
    /\ Editing /\ dialog.content[p] \in from
    /\ dialog' = [dialog EXCEPT !.edits = @ + 1, !.content[p] = to, !.shared = @ \ {p}]
    /\ UNCHANGED <<table, calls, rules, loading, error, deleteTarget, budget, history>>
RemoveActivator == Replaced("activators", Text \cup {"blank"}, "empty")
RemoveAction == Replaced("actions", Text \cup {"blank"}, "empty")
AddActivator == Replaced("activators", {"empty"}, "blank")
AddAction == Replaced("actions", {"empty"}, NewContent.actions)

(* What submit lets pass: the fields of an action are not looked at.       *)
Valid(content) == content.activators \in Text /\ content.actions # "empty"

(* submit and handleSave: nothing keeps a second click from a second       *)
(* request while the first is under way.                                   *)
Submit(c, u) ==
    /\ Free(c) /\ Clicked
    /\ dialog.open /\ Valid(dialog.content)
    /\ dialog.uid \in {NoUid, u}
    /\ Send(c, IF dialog.uid = NoUid THEN "create" ELSE "save", u,
            [active |-> dialog.active, content |-> dialog.content,
             wish |-> dialog.wish, late |-> dialog.late])
    /\ submitted' = [submitted EXCEPT ![u] = dialog.content]
    /\ UNCHANGED <<table, view, raced, silent, unseen, touched>>

-----------------------------------------------------------------------------
(* The rules API and the table *)

Reply(c, stage) == [calls EXCEPT ![c].stage = stage]
(* Mutant: the row that was read wins over what the request says.          *)
Merged_Swapped(c) == calls[c].existing
Merged(c) == [calls[c].existing EXCEPT
    !.active = calls[c].payload.active,
    !.content = IF calls[c].kind = "save" THEN calls[c].payload.content ELSE @]

(* Mutant: an update inserts a rule that is gone.                          *)
Updated_Upsert(c) == [table EXCEPT ![calls[c].uid] = Merged(c)]
Updated(c) ==
    [table EXCEPT ![calls[c].uid] = IF @.present THEN Merged(c) ELSE @]

(* findAll; the first half of update and of remove; create, which replaces *)
(* a rule of that uid.                                                     *)
Served(c) ==
    /\ calls[c].stage = "sent"
    /\ LET k == calls[c] IN
       \/ /\ k.kind = "list"
          /\ calls' = [calls EXCEPT ![c] =
                 [kind |-> "list", stage |-> "answered", uid |-> NoUid, answer |-> table]]
          /\ unseen' = {} /\ silent' = FALSE
          /\ UNCHANGED <<table, touched>>
       \/ /\ k.kind = "create"
          /\ table' = [table EXCEPT ![k.uid] =
                 [present |-> TRUE, active |-> k.payload.active, fired |-> FALSE,
                  content |-> k.payload.content]]
          /\ calls' = Reply(c, "answered")
          /\ UNCHANGED <<unseen, silent, touched>>
       \/ /\ k.kind \in {"save", "switch", "delete"}
          /\ calls' = IF ~table[k.uid].present THEN Reply(c, "failed")
                      ELSE [calls EXCEPT ![c] =
                              [kind |-> k.kind, stage |-> "read", uid |-> k.uid,
                               payload |-> k.payload, existing |-> table[k.uid]]]
          /\ UNCHANGED <<table, unseen, silent, touched>>
    /\ UNCHANGED <<view, budget, raced, crossed, submitted>>

(* Bookkeeping: what the page still says of a rule that was turned off.    *)
TurnedOff(u) == table[u].active /\ ~table'[u].active
LateDialog ==
    IF dialog.uid # NoUid /\ TurnedOff(dialog.uid)
    THEN [dialog EXCEPT !.late = TRUE] ELSE dialog
LateCalls(cs) == [c \in Call |->
    IF cs[c].kind = "save" /\ TurnedOff(cs[c].uid)
    THEN [cs[c] EXCEPT !.payload.late = TRUE] ELSE cs[c]]

Written(c) ==
    /\ calls[c].stage = "read"
    /\ table' = IF calls[c].kind = "delete"
                THEN [table EXCEPT ![calls[c].uid] = Absent] ELSE Updated(c)
    /\ calls' = LateCalls(Reply(c, "answered"))
    /\ dialog' = LateDialog
    /\ UNCHANGED <<rules, loading, error, deleteTarget, budget, history>>

(* A request or its answer is lost.                                        *)
Lost(c) ==
    /\ calls[c].stage \in {"sent", "answered"} /\ Trouble
    /\ calls' = Reply(c, "failed")
    /\ crossed' = crossed \cup {calls[c].uid}
    /\ UNCHANGED <<table, view, raced, silent, unseen, touched, submitted>>

(* The engine fires a rule.                                                *)
Fire(u) ==
    /\ table[u].active /\ Trouble
    /\ table' = [table EXCEPT ![u].active = FALSE, ![u].fired = TRUE]
    /\ unseen' = unseen \cup {u}
    /\ calls' = LateCalls(calls) /\ dialog' = LateDialog
    /\ UNCHANGED <<rules, loading, error, deleteTarget, raced, silent, touched,
                   crossed, submitted>>

-----------------------------------------------------------------------------
(* Answers arrive *)

StopsLoading(c) == loading' = FALSE

Unshared == [dialog EXCEPT !.shared = {}]

ListArrives(c) ==
    /\ calls[c].kind = "list" /\ calls[c].stage \in {"answered", "failed"}
    /\ calls' = [calls EXCEPT ![c] = Idle]
    /\ StopsLoading(c)
    /\ IF calls[c].stage = "answered"
       THEN /\ rules' = calls[c].answer /\ touched' = {}
            /\ dialog' = Unshared
            /\ UNCHANGED error
       ELSE error' = TRUE /\ UNCHANGED <<rules, touched, dialog>>
    /\ UNCHANGED <<table, deleteTarget, budget, raced, silent, unseen, crossed,
                   submitted>>

(* After a success the list is fetched again; a failed save is told to     *)
(* nobody.                                                                 *)
ReplyArrives(c) ==
    /\ calls[c].kind # "list"
    /\ \/ /\ calls[c].stage = "answered" /\ FetchRules(c)
          /\ dialog' = IF calls[c].kind \in {"save", "create"} THEN Closed ELSE dialog
          /\ deleteTarget' = IF calls[c].kind = "delete" THEN NoUid ELSE deleteTarget
          /\ UNCHANGED silent
       \/ /\ calls[c].stage = "failed"
          /\ calls' = [calls EXCEPT ![c] = Idle]
          /\ IF calls[c].kind \in {"switch", "delete"}
             THEN error' = TRUE /\ UNCHANGED silent
             ELSE silent' = TRUE /\ UNCHANGED error
          /\ UNCHANGED <<loading, dialog, deleteTarget, raced>>
    /\ UNCHANGED <<table, rules, budget, unseen, touched, crossed, submitted>>

-----------------------------------------------------------------------------
User(c) == \/ Refresh(c) \/ DoDelete(c)
           \/ \E u \in Uid : Switch(c, u) \/ Submit(c, u)
Server(c) == Served(c) \/ Written(c)
Arrives(c) == ListArrives(c) \/ ReplyArrives(c)

Next ==
    \/ \E c \in Call : User(c) \/ Server(c) \/ Lost(c) \/ Arrives(c)
    \/ \E u \in Uid : ConfirmDelete(u) \/ Fire(u)
    \/ CancelDelete \/ Open \/ Cancel \/ Toggle \/ ChangeActionType
    \/ RemoveActivator \/ RemoveAction \/ AddActivator \/ AddAction
    \/ \E v \in Text \cup {"blank"} : TypeActivator(v)
    \/ \E v \in Text : TypeAction(v)

Spec == Init /\ [][Next]_vars
=============================================================================
