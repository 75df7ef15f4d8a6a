------------------------- MODULE RulesViewProperties -------------------------
(* What the rules page promises to its user.                               *)
EXTENDS RulesView

(* What the variables range over.                                          *)
ViewTypeOK ==
    /\ table \in Rules /\ rules \in Rules
    /\ \A c \in Call :
          /\ calls[c].kind \in {"none", "list", "create", "save", "switch", "delete"}
          /\ calls[c].stage \in {"idle", "sent", "read", "answered", "failed"}
          /\ calls[c].uid \in Uid \cup {NoUid}
    /\ loading \in BOOLEAN /\ error \in BOOLEAN
    /\ dialog \in Form /\ deleteTarget \in Uid \cup {NoUid}
    /\ dialog.shared # {} => dialog.open /\ rules[dialog.uid].present
    /\ submitted \in [Uid -> Content]

Quiet == \A c \in Call : ~Going(c)

(* RulesView.vue:244: with no request under way and no error shown, the    *)
(* page shows the table, but for rules that have fired since and for text  *)
(* typed into a dialog that was cancelled; it does not after a save that   *)
(* failed, or after two reloads of the list at once.                       *)
ShownIsTrue ==
    Quiet /\ ~error /\ ~raced /\ ~silent =>
        \A u \in Uid \ (touched \cup unseen) : rules[u] = table[u]

(* api.rules.service.ts:61: with no request under way, a rule says what    *)
(* the last save of it said, unless a request was lost or two at once were *)
(* about the same rule.                                                    *)
LatestSaveIsKept ==
    Quiet => \A u \in Uid \ crossed :
        table[u].present => table[u].content = submitted[u]

(* RulesView.vue:239: a save writes active as the dialog found it.  A rule *)
(* becomes active only by a request of a user who wanted that, or by a     *)
(* save of a dialog that had it as active before it was turned off.        *)
NoRevival == [][\A u \in Uid : ~table[u].active /\ table'[u].active =>
    \E c \in Call : /\ calls[c].uid = u /\ calls[c].kind # "delete"
                   /\ calls[c] # calls'[c]
                   /\ (calls[c].payload.wish \/ calls[c].payload.late)]_table

(* rule.repository.ts:39: a rule that was deleted stays so, whatever saves *)
(* of it were under way, until a request creates it.                       *)
DeletedStaysDeleted ==
    [][\A u \in Uid : ~table[u].present /\ table'[u].present
            => \E c \in Call : calls[c].kind = "create" /\ calls[c].uid = u]_table
=============================================================================
