---------------------------- MODULE Confirmations ----------------------------
(***************************************************************************)
(* The block parser and the request that sends a transaction, on one chain *)
(* and one table: BlockParser with the transactions its blocks hold, and   *)
(* what happens to them on either side of the node.  TxPending says what   *)
(* the two promise together; here its steps are the real ones, the parser  *)
(* handling the transactions of a block one after the other, failing or    *)
(* dying between any two, and the chain replacing the blocks they are in.  *)
(***************************************************************************)
EXTENDS BlockParser

CONSTANTS
    Tx,             \* transactions
    TxIn,           \* the transactions in a block
    MaxSends        \* bound: how often one transaction is accepted

Held(c) == UNION {TxIn[c[n]] : n \in DOMAIN c}

ASSUME ConfirmationsAssumption ==
    /\ MaxSends \in Nat
    /\ TxIn \in [Block -> SUBSET Tx]
    /\ \A b \in Block : TxIn[b] # {} => Height[b] > ConfigStart
    /\ \A c \in Chains : \A m, n \in DOMAIN c :
          TxIn[c[m]] \intersect TxIn[c[n]] # {} => m = n

VARIABLES
    pool,       \* the transactions waiting in the node's pool
    sends,      \* how often each was accepted (bounded by MaxSends)
    recording,  \* accepted, the request has yet to reach CreatePending
    row,        \* status in t_webauthn_pending_info: "pending" 0, "confirmed" 1
    done,       \* transactions of the block whose handler has returned nil
    updated     \* history: transactions whose handler ever returned nil

rowVars == <<pool, sends, recording, row>>
confVars == <<vars, rowVars, done, updated>>

ConfTypeOK ==
    /\ pool \subseteq Tx /\ recording \subseteq Tx
    /\ sends \in [Tx -> 0..MaxSends]
    /\ row \in [Tx -> {"absent", "pending", "confirmed"}]
    /\ updated \subseteq Tx /\ done \subseteq updated
    /\ pc \in {"create", "prune"} => TxIn[block] \subseteq updated

ConfInit ==
    /\ Init /\ Held(chain) = {}
    /\ pool = {} /\ recording = {}
    /\ sends = [t \in Tx |-> 0]
    /\ row = [t \in Tx |-> "absent"]
    /\ done = {} /\ updated = {}

-----------------------------------------------------------------------------
(* The request and the node's pool.                                        *)

\* SendTransaction: the node refuses what its pool or its chain has.
Submit(t) ==
    /\ t \notin pool \union Held(chain) \union recording
    /\ sends[t] < MaxSends
    /\ pool' = pool \union {t}
    /\ sends' = [sends EXCEPT ![t] = @ + 1]
    /\ recording' = recording \union {t}
    /\ UNCHANGED <<vars, row, done, updated>>

\* CreatePending; the row of an earlier send makes the insert fail.
CreatePending(t) ==
    /\ t \in recording
    /\ recording' = recording \ {t}
    /\ row' = IF row[t] = "absent" THEN [row EXCEPT ![t] = "pending"] ELSE row
    /\ UNCHANGED <<vars, pool, sends, done, updated>>

\* The insert fails or the process that answers requests dies.
RecordLost(t) ==
    /\ t \in recording
    /\ recording' = recording \ {t}
    /\ UNCHANGED <<vars, pool, sends, row, done, updated>>

Drop(t) ==
    /\ t \in pool
    /\ pool' = pool \ {t}
    /\ UNCHANGED <<vars, sends, recording, row, done, updated>>

\* A longer chain.  Blocks hold only what was sent; what a reorganisation takes
\* out of the chain goes back to the pool or is dropped.
NewChain ==
    /\ Advance
    /\ \A t \in Held(chain') : sends[t] > 0
    /\ \E back \in SUBSET (Held(chain) \ Held(chain')) :
         pool' = (pool \ Held(chain')) \union back
    /\ UNCHANGED <<parserVars, sends, recording, row, done, updated>>

-----------------------------------------------------------------------------
(* The parser.                                                             *)

FetchBlock ==
    /\ GetBlock
    /\ done' = {}
    /\ UNCHANGED <<rowVars, updated>>

\* One turn of parsingBlockData's loop.  The handler's UPDATE touches the row
\* if there is one, whatever its status; when the handler fails afterwards
\* (its second UPDATE), Fail follows and the whole block is handled again.
ActionUpdateKeylist(t) ==
    /\ pc = "parse" /\ t \in TxIn[block] \ done
    /\ row' = IF row[t] # "absent" THEN [row EXCEPT ![t] = "confirmed"] ELSE row
    /\ done' = done \union {t}
    /\ updated' = updated \union {t}
    /\ UNCHANGED <<vars, pool, sends, recording>>

\* A transaction whose handler failed is logged and left behind.
BadHandledBlock ==
    /\ ParsingBlockData
    /\ UNCHANGED <<rowVars, done, updated>>

HandledBlock ==
    /\ TxIn[block] \subseteq done
    /\ ParsingBlockData
    /\ UNCHANGED <<rowVars, done, updated>>

OtherStep ==
    /\ Boot \/ ReadTip \/ CheckFork \/ CreateBlockInfo \/ DeleteBlockInfo
       \/ Fail \/ Crash
    /\ UNCHANGED <<rowVars, done, updated>>

ConfNext ==
    \/ \E t \in Tx : \/ Submit(t) \/ CreatePending(t) \/ RecordLost(t) \/ Drop(t)
                     \/ ActionUpdateKeylist(t)
    \/ NewChain \/ FetchBlock \/ HandledBlock \/ OtherStep

ConfSpec == ConfInit /\ [][ConfNext]_confVars

-----------------------------------------------------------------------------
(* Properties.                                                             *)

Buried == UNION {TxIn[chain[n]] : n \in 0..(tip - ConfirmNum - 1)}
Behind == UNION {TxIn[chain[n]] : n \in {m \in DOMAIN chain : m < cur}}

\* Where the node has a transaction, in the words of TxPending.
NodeOf(t) ==
    CASE t \in Buried -> "final"
      [] t \in Held(chain) \ Buried -> "committed"
      [] t \in pool -> "pool"
      [] OTHER -> IF sends[t] = 0 THEN "none" ELSE "dropped"

TP == INSTANCE TxPending WITH
        node <- [t \in Tx |-> NodeOf(t)], handled <- updated, passed <- Behind,
        Limit <- 0, TimerStarted <- FALSE, Reorgs <- TRUE, aged <- {},
        timer <- [busy |-> FALSE, todo |-> {}, old |-> {}, listed |-> 0,
                  rejected |-> 0]

\* Parser, requests and chain together do what TxPending says of them: a row
\* becomes confirmed only by a handler run on a buried transaction, a block is
\* left behind only with all its transactions handled, and a failed, repeated
\* or interrupted turn is nothing more than handling some of them once more.
ImplementsTxPending == TP!TxSafeSpec

\* Status 1 as /transaction/status reports it (doTransactionStatus) is final:
\* no reorganisation the confirmations are meant for takes it back.
ConfirmedIsFinal == TP!ConfirmedIsFinal

=============================================================================
