------------------------------ MODULE TxPending ------------------------------
(***************************************************************************)
(* A key-list transaction from its acceptance by the node to the verdict   *)
(* in t_webauthn_pending_info.  Four parties work on it with nothing but   *)
(* the node and that table between them: the request that sent it          *)
(* (doTransactionSend), the block parser (ActionUpdateKeylist), the timer  *)
(* (checkRejected) and the chain.  BlockParser says which blocks the       *)
(* parser handles and when; here it handles a buried transaction at least  *)
(* once before it moves on.                                                *)
(*                                                                         *)
(* An operator named Bad... is a plausible mistake in the definition after *)
(* it; none is part of the specification.                                  *)
(***************************************************************************)
EXTENDS Naturals, FiniteSets

CONSTANTS
    Tx,             \* transactions
    MaxSends,       \* bound: how often one transaction is accepted
    Limit,          \* 100 in the code: rows one pass of the timer reads
    TimerStarted,   \* whether the process starts the timer package
    Reorgs          \* whether a committed transaction may leave the chain

ASSUME TxAssumption ==
    /\ IsFiniteSet(Tx)
    /\ MaxSends \in Nat /\ Limit \in Nat
    /\ TimerStarted \in BOOLEAN /\ Reorgs \in BOOLEAN

VARIABLES
    node,       \* where the node has the transaction
    sends,      \* how often it was accepted (bounded by MaxSends)
    recording,  \* accepted, the request has yet to reach CreatePending
    row,        \* the row's status: "pending" is 0, "confirmed" 1, "rejected" -1
    aged,       \* rows whose block_timestamp is more than six minutes old
    handled,    \* the parser has run the handler on the transaction's block
    passed,     \* ... and has stored that block, so it will not run it again
    timer       \* the pass of checkRejected under way

nodeVars == <<node, sends>>
tableVars == <<row, aged>>
readerVars == <<handled, passed>>
txVars == <<nodeVars, tableVars, readerVars, recording, timer>>

NodeStates == {"none", "pool", "committed", "final", "dropped"}

TimerIdle == [busy |-> FALSE, todo |-> {}, old |-> {}, listed |-> 0, rejected |-> 0]

TxTypeOK ==
    /\ node \in [Tx -> NodeStates]
    /\ sends \in [Tx -> 0..MaxSends]
    /\ recording \subseteq Tx
    /\ row \in [Tx -> {"absent", "pending", "confirmed", "rejected"}]
    /\ aged \subseteq Tx
    /\ handled \subseteq Tx /\ passed \subseteq handled
    /\ timer \in [busy : BOOLEAN, todo : SUBSET Tx, old : SUBSET Tx,
                  listed : 0..Cardinality(Tx), rejected : 0..Cardinality(Tx)]

TxInit ==
    /\ node = [t \in Tx |-> "none"]
    /\ sends = [t \in Tx |-> 0]
    /\ recording = {}
    /\ row = [t \in Tx |-> "absent"]
    /\ aged = {}
    /\ handled = {} /\ passed = {}
    /\ timer = TimerIdle

-----------------------------------------------------------------------------
(* The request: SendTransaction, then the row.                             *)

\* The node accepts the transaction; one it knows or has on its chain it
\* refuses, and the request ends with an error and no row.
Submit(t) ==
    /\ node[t] \in {"none", "dropped"}
    /\ sends[t] < MaxSends
    /\ t \notin recording
    /\ node' = [node EXCEPT ![t] = "pool"]
    /\ sends' = [sends EXCEPT ![t] = @ + 1]
    /\ recording' = recording \union {t}
    /\ UNCHANGED <<tableVars, readerVars, timer>>

\* An upsert that starts the row over.
BadCreatePending(t) ==
    /\ t \in recording
    /\ recording' = recording \ {t}
    /\ row' = [row EXCEPT ![t] = "pending"]
    /\ UNCHANGED <<nodeVars, aged, readerVars, timer>>

\* CreatePending: a plain insert.  (action, outpoint) is unique, so when the
\* transaction is sent a second time the insert fails and is only logged.
CreatePending(t) ==
    /\ t \in recording
    /\ recording' = recording \ {t}
    /\ row' = IF row[t] = "absent" THEN [row EXCEPT ![t] = "pending"] ELSE row
    /\ UNCHANGED <<nodeVars, aged, readerVars, timer>>

\* The insert fails, or the process dies before it: nobody tries again.
RecordLost(t) ==
    /\ t \in recording
    /\ recording' = recording \ {t}
    /\ UNCHANGED <<nodeVars, tableVars, readerVars, timer>>

\* The process dies with every request that is on its way to the insert.
ApiDies ==
    /\ recording # {}
    /\ recording' = {}
    /\ UNCHANGED <<nodeVars, tableVars, readerVars, timer>>

-----------------------------------------------------------------------------
(* The chain and the clock.                                                *)

\* What can become of a transaction between two looks at the node; one that
\* left this node's pool may be mined by another.
LegalMove(from, to) ==
    \/ from \in {"pool", "dropped"} /\ to \in {"committed", "final"}
    \/ from = "pool" /\ to = "dropped"
    \/ from = "committed" /\ to = "final"
    \/ Reorgs /\ from = "committed" /\ to \in {"pool", "dropped"}

\* The node's chain or pool changes, for several transactions at a time.
ChainMoves ==
    /\ node' \in [Tx -> NodeStates]
    /\ \A t \in Tx : node'[t] = node[t] \/ LegalMove(node[t], node'[t])
    /\ UNCHANGED <<sends, recording, tableVars, readerVars, timer>>

Age(t) ==
    /\ row[t] # "absent" /\ t \notin aged
    /\ aged' = aged \union {t}
    /\ UNCHANGED <<nodeVars, recording, row, readerVars, timer>>

-----------------------------------------------------------------------------
(* The block parser on the block that holds the transaction.               *)

\* ActionUpdateKeylist: UPDATE ... SET status=1 WHERE action, outpoint.  It
\* touches no row when there is none, and overwrites whatever status it finds.
UpdatePendingStatusToConfirm(t) ==
    /\ node[t] = "final" /\ t \notin passed
    /\ row' = IF row[t] # "absent" THEN [row EXCEPT ![t] = "confirmed"] ELSE row
    /\ handled' = handled \union {t}
    /\ UNCHANGED <<nodeVars, recording, aged, passed, timer>>

\* The block stored before its transactions are handled.
BadStoreBlock(txs) ==
    /\ \A t \in txs : node[t] = "final" /\ t \notin passed
    /\ passed' = passed \union txs
    /\ UNCHANGED <<nodeVars, recording, tableVars, handled, timer>>

\* CreateBlockInfo: the parser leaves behind a block with these transactions.
StoreBlock(txs) ==
    /\ txs \subseteq handled \ passed
    /\ passed' = passed \union txs
    /\ UNCHANGED <<nodeVars, recording, tableVars, handled, timer>>

-----------------------------------------------------------------------------
(* checkRejected, one pass every three minutes.                            *)

MaybeRejected == {t \in aged : row[t] = "pending"}

\* SearchMaybeRejectedPending: up to Limit rows, in no stated order, older
\* than a timestamp taken once.
SearchMaybeRejected ==
    /\ TimerStarted /\ ~timer.busy
    /\ MaybeRejected # {}
    /\ \E list \in SUBSET MaybeRejected :
         /\ \/ list = MaybeRejected /\ Cardinality(list) <= Limit
            \/ Cardinality(list) = Limit
         /\ timer' = [busy |-> TRUE, todo |-> list, old |-> aged,
                      listed |-> Cardinality(list), rejected |-> 0]
    /\ UNCHANGED <<nodeVars, recording, tableVars, readerVars>>

\* One turn of the loop: a transaction the node no longer knows counts as
\* rejected, a committed one is confirmed at once (UpdatePendingToConfirm),
\* unless reading its block or the update itself fails.
CheckOne(t) ==
    /\ timer.busy /\ t \in timer.todo
    /\ timer' = [timer EXCEPT !.todo = @ \ {t},
                              !.rejected = @ + (IF node[t] = "dropped" THEN 1 ELSE 0)]
    /\ \/ node[t] \in {"committed", "final"} /\ row' = [row EXCEPT ![t] = "confirmed"]
       \/ UNCHANGED row
    /\ UNCHANGED <<nodeVars, recording, aged, readerVars>>

\* One rejected transaction is enough.
BadUpdateToRejected ==
    /\ timer.busy /\ timer.todo = {}
    /\ timer' = TimerIdle
    /\ row' = IF timer.rejected > 0
              THEN [t \in Tx |-> IF row[t] = "pending" /\ t \in timer.old
                                 THEN "rejected" ELSE row[t]]
              ELSE row
    /\ UNCHANGED <<nodeVars, recording, aged, readerVars>>

\* After the loop: only when every row read was rejected are rows marked, and
\* then all pending rows older than the timestamp, not only those read.
UpdatePendingToRejected ==
    /\ timer.busy /\ timer.todo = {}
    /\ timer' = TimerIdle
    /\ row' = IF timer.rejected > 0 /\ timer.rejected = timer.listed
              THEN [t \in Tx |-> IF row[t] = "pending" /\ t \in timer.old
                                 THEN "rejected" ELSE row[t]]
              ELSE row
    /\ UNCHANGED <<nodeVars, recording, aged, readerVars>>

\* A call to the node fails: the pass ends there.
TimerGivesUp ==
    /\ timer.busy
    /\ timer' = TimerIdle
    /\ UNCHANGED <<nodeVars, recording, tableVars, readerVars>>

-----------------------------------------------------------------------------

TxStep(t) ==
    \/ Submit(t) \/ CreatePending(t) \/ RecordLost(t) \/ Age(t)
    \/ UpdatePendingStatusToConfirm(t)

BlockStep == \E txs \in (SUBSET Tx) \ {{}} : StoreBlock(txs)

TimerStep ==
    \/ SearchMaybeRejected
    \/ \E t \in Tx : CheckOne(t)
    \/ UpdatePendingToRejected
    \/ TimerGivesUp

TxNext == (\E t \in Tx : TxStep(t)) \/ ApiDies \/ ChainMoves \/ BlockStep \/ TimerStep

\* A request ends, a transaction in the pool is committed or dropped, time
\* passes, and parser and timer keep running: what they retry succeeds once.
TxFairness ==
    /\ \A t \in Tx :
         /\ WF_txVars(CreatePending(t) \/ RecordLost(t))
         /\ WF_txVars(ChainMoves /\ node[t] = "pool" /\ node'[t] # "pool")
         /\ SF_txVars(ChainMoves /\ node[t] = "committed" /\ node'[t] = "final")
         /\ WF_txVars(Age(t))
         /\ WF_txVars(UpdatePendingStatusToConfirm(t))
         /\ WF_txVars(BlockStep /\ t \in passed' \ passed)
         /\ SF_txVars(CheckOne(t) /\ row'[t] = "confirmed")
         /\ WF_txVars(CheckOne(t))
    /\ WF_txVars(SearchMaybeRejected)
    /\ SF_txVars(UpdatePendingToRejected)

TxSafeSpec == TxInit /\ [][TxNext]_txVars

TxSpec == TxSafeSpec /\ TxFairness

-----------------------------------------------------------------------------
(* Properties.                                                             *)

\* Status 1 is final: a transaction reported as confirmed by
\* /transaction/status (doTransactionStatus) cannot leave the chain again.
ConfirmedIsFinal == \A t \in Tx : row[t] = "confirmed" => node[t] = "final"

\* A row that is there before the parser reaches the transaction's block is
\* confirmed in the end and stays so, whoever sends the transaction again.  (A
\* row that comes later than the handler is not: only the timer would find it.)
RowGetsConfirmed ==
    \A t \in Tx :
        (row[t] # "absent" /\ node[t] = "final" /\ t \notin handled)
            ~> [](row[t] = "confirmed")

\* A recorded transaction ends with the right verdict for ever: confirmed when
\* it is on the chain, even if its row came too late for the parser, and
\* rejected when the node has dropped it, never the other way round; provided
\* the timer is started, its passes stop failing, no more rows are due than
\* one pass reads, and the chain is not reorganised.
EventualVerdict ==
    \/ []<><<TimerGivesUp>>_txVars
    \/ \A t \in Tx :
          <>[](\/ row[t] = "absent"
               \/ row[t] = "confirmed" /\ node[t] = "final"
               \/ row[t] = "rejected" /\ node[t] = "dropped")

\* API.md documents status -1 as "rejected" for /transaction/status: a
\* recorded transaction the node has dropped gets that status.
DroppedGetsRejected ==
    \A t \in Tx :
        (row[t] = "pending" /\ node[t] = "dropped")
            ~> (row[t] = "rejected" \/ node[t] # "dropped")

=============================================================================
