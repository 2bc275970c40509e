------------------------------ MODULE TxStatus -------------------------------
(***************************************************************************)
(* POST /transaction/status: what a client learns of the rows TxPending is *)
(* about.  It asks with a transaction hash, or with the numbers of actions *)
(* and an address; numbers and names of actions are translated both ways,  *)
(* by two tables of tables/t_transaction_info.go.                          *)
(***************************************************************************)
EXTENDS TxPending, Sequences

\* The names, in the order of their numbers 0, 1, 2, ...
ActionNames == <<
    "withdraw_from_wallet", "consolidate_income", "start_account_sale",
    "edit_account_sale", "cancel_account_sale", "buy_account", "sale_account",
    "transfer_balance", "declare_reverse_record", "redeclare_reverse_record",
    "retract_reverse_record", "transfer", "edit_records", "transfer_account",
    "edit_manager", "renew_account", "make_offer", "offer_edit_add",
    "cancel_offer", "accept_offer", "offer_accepted", "offer_edit_sub",
    "order_refund", "enable_sub_account", "create_sub_account",
    "balance_deposit", "recycle_expired_account",
    "force_recover_account_status", "cross_refund",
    "collect_sub_account_profit", "update_device_key_list">>

ActionUndefined == 99
TxActions == 0..(Len(ActionNames) - 1) \union {ActionUndefined}

FormatTxAction(name) ==
    IF \E i \in DOMAIN ActionNames : ActionNames[i] = name
    THEN (CHOOSE i \in DOMAIN ActionNames : ActionNames[i] = name) - 1
    ELSE ActionUndefined

\* The newest entry forgotten, as four others are.
BadFormatActionType(n) ==
    IF n \notin TxActions \ {23, 24, 25, 29, 30, ActionUndefined} THEN "" ELSE ActionNames[n + 1]

\* Four numbers have no name here, though FormatTxAction gives them.
FormatActionType(n) ==
    IF n \notin TxActions \ {23, 24, 25, 29, ActionUndefined} THEN "" ELSE ActionNames[n + 1]

\* The action of every row the service writes.
RowAction == "update_device_key_list"

Recorded == {t \in Tx : row[t] # "absent"}

Answer(t) == [hash |-> t, action |-> FormatTxAction(RowAction), status |-> row[t]]

\* doTransactionStatus with tx_hash: the row of that outpoint, none is "not exits tx".
StatusByHash(t) == {Answer(u) : u \in Recorded \intersect {t}}

\* ... with actions and the address of the lists' master: the newest of these
\* rows, which any of them may be.
StatusByActions(actions) ==
    {Answer(t) : t \in {u \in Recorded : RowAction \in {FormatActionType(n) : n \in actions}}}

-----------------------------------------------------------------------------
(* Properties.                                                             *)

\* A client is told of the action it asked for, with the number it asked with,
\* and asking with number 30, as API.md has it, finds a row whenever the
\* transaction's own hash would: never "not exits tx" for a recorded one.
AnswersWhatWasAsked ==
    /\ \A n \in TxActions : \A a \in StatusByActions({n}) : a.action = n
    /\ StatusByActions({30}) = UNION {StatusByHash(t) : t \in Tx}

=============================================================================
