------------------------------- MODULE KeyList -------------------------------
(***************************************************************************)
(* Adding and removing backup devices (http_server/handle/authorize.go and *)
(* transaction.go): the key-list cells of one master device.  A list lives *)
(* in a cell on the chain, an update spends the cell and makes the next.   *)
(* The service finds the current cell in das-database, an indexer that     *)
(* follows the chain some way behind; it makes the first cell itself,      *)
(* under a Redis lock; it keeps the transaction it built in Redis until    *)
(* the client comes back with a signature.  Each stage is a request of its *)
(* own, several may be under way, and the server may die in any of them.   *)
(*                                                                         *)
(* A transaction is known by the outpoint of its first output, the cell.   *)
(* TxPending has its life at the node and its row; this module its content *)
(* and who may send it when.  An operator named Bad... is a plausible      *)
(* mistake in the definition after it; none is part of the specification.  *)
(***************************************************************************)
EXTENDS TxPending, SequencesExt

CONSTANTS
    Device,     \* devices, (cid, public key) pairs
    Master,     \* the master device of these lists
    MaxKeys,    \* 10 in the code
    Request,    \* authorize requests under way at one time
    NoTx,       \* no transaction
    NotAsked,   \* the signer nobody asked for
    SlowCreate  \* whether making a cell may outlast the lock's four minutes

ASSUME KeyListAssumption ==
    /\ Master \in Device /\ MaxKeys \in Nat \ {0}
    /\ NoTx \notin Tx /\ NotAsked \notin Device /\ SlowCreate \in BOOLEAN

VARIABLES
    cell,       \* what each transaction built so far makes and spends
    order,      \* the committed ones in chain order
    indexed,    \* how many of them das-database has processed
    cached,     \* updates in the Redis cache, by sign key
    locked,     \* the Redis key createKeyListConfigCell of the master
    req         \* the authorize requests: where each is and what it asks for

listVars == <<cell, order, indexed, cached, locked, req>>
keyVars == <<txVars, listVars>>

Operations == {"add", "delete"}
Cells == [keys : Seq(Device), from : Tx \union {NoTx}, device : Device,
          op : Operations \union {"create"}, signer : Device \union {NotAsked}]
Unbuilt == [keys |-> <<>>, from |-> NoTx, device |-> Master, op |-> "none",
            signer |-> NotAsked]
Idle == [pc |-> "idle", op |-> "add", device |-> Master, out |-> NoTx]

Built == {t \in Tx : cell[t] # Unbuilt}
Devices(t) == ToSet(cell[t].keys)
IsKnown(t) == node[t] \in {"pool", "committed"}
IsLive(t) == IsKnown(t) /\ ~\E u \in Built : cell[u].from = t /\ IsKnown(u)

RequestTypeOK ==
    /\ req \in [Request ->
                  [pc : {"idle", "lock", "create", "unlock", "abort", "build"},
                   op : Operations, device : Device, out : Tx \union {NoTx}]]
    /\ \A r \in Request : req[r].pc \in {"unlock", "build"} => req[r].out \in Built

KeyListTypeOK ==
    /\ TxTypeOK
    /\ cell \in [Tx -> Cells \union {Unbuilt}]
    /\ order \in Seq(Tx) /\ indexed \in 0..Len(order)
    /\ cached \subseteq Built
    /\ locked \in BOOLEAN
    /\ RequestTypeOK

KeyListInit ==
    /\ TxInit
    /\ cell = [t \in Tx |-> Unbuilt]
    /\ order = <<>> /\ indexed = 0
    /\ cached = {}
    /\ locked = FALSE
    /\ req = [r \in Request |-> Idle]

\* t_cid_pk.outpoint of the master as das-database has it now.
DbOutpoint == IF indexed = 0 THEN NoTx ELSE order[indexed]

Goto(r, pc) == req' = [req EXCEPT ![r].pc = pc]
Finish(r) == req' = [req EXCEPT ![r] = Idle]

-----------------------------------------------------------------------------
(* POST /webauthn/authorize.                                               *)

\* GetCidPk: with no list in das-database a delete is refused and an add goes
\* on to make one, if checkCanBeCreated allows it; refusals change nothing.
DoAuthorize(r, op, d) ==
    /\ req[r].pc = "idle"
    /\ \/ /\ DbOutpoint # NoTx
          /\ req' = [req EXCEPT ![r] = [pc |-> "build", op |-> op, device |-> d,
                                        out |-> DbOutpoint]]
       \/ /\ DbOutpoint = NoTx /\ op # "delete"
          /\ req' = [req EXCEPT ![r] = [pc |-> "lock", op |-> op, device |-> d,
                                        out |-> NoTx]]
    /\ UNCHANGED <<txVars, cell, order, indexed, cached, locked>>

\* The answer of SETNX not looked at.
BadLockWithRedis(r) ==
    /\ req[r].pc = "lock"
    /\ locked' = TRUE /\ Goto(r, "create")
    /\ UNCHANGED <<txVars, cell, order, indexed, cached>>

\* SETNX: the request that finds the key taken ends with an error.
LockWithRedis(r) ==
    /\ req[r].pc = "lock"
    /\ \/ ~locked /\ locked' = TRUE /\ Goto(r, "create")
       \/ UNCHANGED locked /\ Finish(r)
    /\ UNCHANGED <<txVars, cell, order, indexed, cached>>

\* The new cell's outpoint left in a variable of an inner scope.
BadSendCreate(r) ==
    /\ req[r].pc = "create"
    /\ \E t \in Tx \ Built :
         /\ cell' = [cell EXCEPT ![t] =
                       [keys |-> <<Master>>, from |-> NoTx, device |-> Master,
                        op |-> "create", signer |-> NotAsked]]
         /\ node' = [node EXCEPT ![t] = "pool"]
         /\ Goto(r, "unlock")
    /\ UNCHANGED <<sends, recording, tableVars, readerVars, timer>>
    /\ UNCHANGED <<order, indexed, cached, locked>>

\* A creation the node has in its pool spends the payer's cells GetBalanceCells
\* finds; nothing here marks them as taken in dasCache.
PayerFree == \A t \in Built : cell[t].op = "create" => node[t] # "pool"

\* buildCreateKeyListCfgTx and SendTransaction: a cell whose only key is the
\* master's.  It needs no row and is never cached.
SendCreate(r) ==
    /\ req[r].pc = "create"
    /\ \/ PayerFree /\ \E t \in Tx \ Built :
            /\ cell' = [cell EXCEPT ![t] =
                          [keys |-> <<Master>>, from |-> NoTx, device |-> Master,
                           op |-> "create", signer |-> NotAsked]]
            /\ node' = [node EXCEPT ![t] = "pool"]
            /\ req' = [req EXCEPT ![r].pc = "unlock", ![r].out = t]
       \/ UNCHANGED <<cell, node>> /\ Goto(r, "abort")
    /\ UNCHANGED <<sends, recording, tableVars, readerVars, timer>>
    /\ UNCHANGED <<order, indexed, cached, locked>>

\* The deferred DEL, whoever holds the key by now; its failure is only logged.
Unlock(r) ==
    /\ req[r].pc \in {"unlock", "abort"}
    /\ locked' \in {FALSE, locked}
    /\ IF req[r].pc = "unlock" THEN Goto(r, "build") ELSE Finish(r)
    /\ UNCHANGED <<txVars, cell, order, indexed, cached>>

\* The duplicate test forgotten.
BadMayEdit(keys, op, d) ==
    IF op = "add" THEN Len(keys) < MaxKeys ELSE d \in ToSet(keys)

\* An add needs room and a new device, a delete one that is there.
MayEdit(keys, op, d) ==
    IF op = "add" THEN Len(keys) < MaxKeys /\ d \notin ToSet(keys)
                  ELSE d \in ToSet(keys)

\* The loop of a delete: newKeyList after the first i keys.
Kept(keys, d) ==
    LET kept[i \in 0..Len(keys)] ==
          IF i = 0 THEN <<>>
          ELSE IF keys[i] = d THEN kept[i - 1] ELSE Append(kept[i - 1], keys[i])
    IN  kept

\* The last key forgotten.
BadEdited(keys, op, d) ==
    IF op = "add" THEN Append(keys, d) ELSE Kept(keys, d)[Len(keys) - 1]

Edited(keys, op, d) ==
    IF op = "add" THEN Append(keys, d) ELSE Kept(keys, d)[Len(keys)]

\* buildUpdateAuthorizeTx and buildWebauthnTx: read the list from the cell the
\* request goes by, edit it, and cache the transaction that spends that cell.
BuildUpdate(r) ==
    /\ req[r].pc = "build"
    /\ LET from == req[r].out
           op == req[r].op
           d == req[r].device
       IN  \/ /\ IsKnown(from) /\ MayEdit(cell[from].keys, op, d)
              /\ \E t \in Tx \ Built :
                   /\ cell' = [cell EXCEPT ![t] =
                                 [keys |-> Edited(cell[from].keys, op, d),
                                  from |-> from, device |-> d, op |-> op,
                                  signer |-> NotAsked]]
                   /\ cached' = cached \union {t}
           \/ UNCHANGED <<cell, cached>>
    /\ Finish(r)
    /\ UNCHANGED <<txVars, order, indexed, locked>>

-----------------------------------------------------------------------------
(* POST /transaction/send.                                                 *)

\* The list the transaction makes instead of the one it spends.
BadMaySign(t, d) == IsKnown(cell[t].from) /\ d \in Devices(t)

\* GetIdxOfKeylistByOutPoint on the cell the cached transaction spends: the
\* index goes into the signature, none means permission denied.
MaySign(t, d) == IsKnown(cell[t].from) /\ d \in Devices(cell[t].from)

\* The row written first, and the transaction sent when the row is there.
BadDoTransactionSend(t, d) ==
    /\ t \in cached
    /\ d = NotAsked \/ MaySign(t, d)
    /\ row[t] = "absent"
    /\ row' = [row EXCEPT ![t] = "pending"]
    /\ cell' = [cell EXCEPT ![t].signer = d]
    /\ UNCHANGED <<nodeVars, recording, aged, readerVars, timer>>
    /\ UNCHANGED <<order, indexed, cached, locked, req>>

\* doTransactionSend up to the row, which TxPending's CreatePending makes.  (The
\* key of SetApiLimit is left out: nothing reads it.)  The signer is looked up
\* only for a sign_list, the client's own, that has a webauthn entry; any other
\* goes to the node as it is, whose lock scripts are not part of this model.
\* The node takes the transaction only while the cell it spends is live.
DoTransactionSend(t, d) ==
    /\ t \in cached
    /\ d = NotAsked \/ MaySign(t, d)
    /\ IsLive(cell[t].from)
    /\ Submit(t)
    /\ cell' = [cell EXCEPT ![t].signer = d]
    /\ UNCHANGED <<order, indexed, cached, locked, req>>

RecordSend(t) ==
    /\ CreatePending(t) \/ RecordLost(t)
    /\ UNCHANGED listVars

-----------------------------------------------------------------------------
(* POST /webauthn/authorize-info and /webauthn/verify, which change nothing. *)

\* The other devices on the list das-database has, none without a list.
AuthorizeInfo == IF DbOutpoint = NoTx THEN {} ELSE Devices(DbOutpoint) \ {Master}

\* GetIdxOfKeylist: the list cell of the master that is live on the chain.
LiveCells == {t \in ToSet(order) : \A u \in ToSet(order) : cell[u].from # t}

\* The master's own signature is not looked up in its list.
VerifyWebauthnSign(d) == d = Master \/ \E t \in LiveCells : d \in Devices(t)

-----------------------------------------------------------------------------
(* The chain, das-database and Redis.                                      *)

CommitCell(t) ==
    /\ cell[t].from \in {NoTx} \union ToSet(order)
    /\ node[t] = "pool" /\ node' = [node EXCEPT ![t] = "committed"] /\ ChainMoves
    /\ order' = Append(order, t)
    /\ UNCHANGED <<cell, indexed, cached, locked, req>>

DropCell(t) ==
    /\ IsLive(t)
    /\ node[t] = "pool" /\ node' = [node EXCEPT ![t] = "dropped"] /\ ChainMoves
    /\ UNCHANGED listVars

Index ==
    /\ indexed < Len(order)
    /\ indexed' = indexed + 1
    /\ UNCHANGED <<txVars, cell, order, cached, locked, req>>

Creating == {r \in Request : req[r].pc \in {"create", "unlock", "abort"}}

\* A key set without an expiry.
BadLockExpires == FALSE /\ UNCHANGED keyVars

\* The key of SETNX expires after four minutes.
LockExpires ==
    /\ locked
    /\ SlowCreate \/ Creating = {}
    /\ locked' = FALSE
    /\ UNCHANGED <<txVars, cell, order, indexed, cached, req>>

\* The key of SetSignTxCache expires after 100 hours: "tx expired err".
CacheExpires(t) ==
    /\ t \in cached
    /\ cached' = cached \ {t}
    /\ UNCHANGED <<txVars, cell, order, indexed, locked, req>>

\* The API server dies: its requests are gone, Redis and the rest stay.
ApiCrash ==
    /\ req # [r \in Request |-> Idle] \/ recording # {}
    /\ req' = [r \in Request |-> Idle]
    /\ recording' = {}
    /\ UNCHANGED <<nodeVars, tableVars, readerVars, timer>>
    /\ UNCHANGED <<cell, order, indexed, cached, locked>>

RequestStep(r) ==
    \/ \E op \in Operations, d \in Device : DoAuthorize(r, op, d)
    \/ LockWithRedis(r) \/ SendCreate(r) \/ Unlock(r) \/ BuildUpdate(r)

CellStep(t) ==
    \/ \E d \in Device \union {NotAsked} : DoTransactionSend(t, d)
    \/ RecordSend(t) \/ CommitCell(t) \/ DropCell(t) \/ CacheExpires(t)

KeyListNext ==
    \/ \E r \in Request : RequestStep(r)
    \/ \E t \in Tx : CellStep(t)
    \/ Index \/ LockExpires \/ ApiCrash

KeyListSpec == KeyListInit /\ [][KeyListNext]_keyVars

\* Redis expires keys; a request under way runs on.
KeyListFairSpec ==
    /\ KeyListSpec
    /\ WF_keyVars(LockExpires)
    /\ \A r \in Request : WF_keyVars(SendCreate(r)) /\ WF_keyVars(Unlock(r))

-----------------------------------------------------------------------------
(* Properties.                                                             *)

\* However requests interleave, no list ever grows beyond MaxKeys or names a
\* device twice (buildUpdateAuthorizeTx checks a list that may be stale).
KeysWellFormed ==
    \A t \in Built : Len(cell[t].keys) <= MaxKeys /\ IsInjective(cell[t].keys)

\* The devices the committed transactions, in their order, amount to.
Applied(S, edit) ==
    IF edit.op = "delete" THEN S \ {edit.device} ELSE S \union {edit.device}
Amounts(edits, n) ==
    LET applied[i \in 0..n] ==
          IF i = 0 THEN {} ELSE Applied(applied[i - 1], edits[i])
    IN  applied[n]
AuthorizedAfter(n) == Amounts([i \in DOMAIN order |-> cell[order[i]]], n)
Authorized == AuthorizedAfter(Len(order))

Creations == {t \in ToSet(order) : cell[t].op = "create"}

\* With one list made, the signer doTransactionSend looked up for an update on
\* the chain is a device that the edits committed before it add and do not
\* remove: a removed device gets nothing through with an update cached while it
\* was there, however long it waits and however far das-database is behind, and
\* a device that was never added does not sign for its own addition.  (Of an
\* update whose signer was not looked up this says nothing.)
SignersAuthorized ==
    Cardinality(Creations) = 1 =>
        \A i \in DOMAIN order :
            LET signer == cell[order[i]].signer
            IN  signer # NotAsked => signer \in AuthorizedAfter(i - 1)

\* With one list made, no edit is lost and none undone, though concurrent
\* updates are built from the same list or from a stale one: the devices whose
\* signatures /webauthn/verify takes are those added and not removed, and when
\* das-database has caught up /webauthn/authorize-info shows the same ones.
NoEditLost ==
    Cardinality(Creations) = 1 =>
        /\ \A d \in Device \ {Master} : VerifyWebauthnSign(d) <=> d \in Authorized
        /\ indexed = Len(order) =>
              Devices(DbOutpoint) = Authorized /\ AuthorizeInfo = Authorized \ {Master}

\* At most one request at a time makes a cell (LockWithRedis), as long as that
\* takes less than the lock's four minutes.
CreateExclusive == Cardinality(Creating) <= 1

\* The requests send and record updates as TxPending says, whose properties
\* speak of them: a row comes after its send, at most once for each, and only
\* for a transaction the node took.  A list's creation, which has no row, is
\* none of its transactions.
Recorded == INSTANCE TxPending WITH
              node <- [t \in Tx |-> IF sends[t] = 0 THEN "none" ELSE node[t]]

SendsAsTxPending == Recorded!TxSafeSpec

\* A request that died while making a cell does not bar the master for ever.
LockReleased == locked ~> ~locked

\* authorize.go:81 "Check if cid is enabled keyListConfigCell": a master has at
\* most one list made for it.  The lock ends with SendTransaction, and until
\* das-database has the new cell another request finds the cid not enabled.
ListMadeOnce ==
    Cardinality({t \in Built : cell[t].op = "create" /\ IsKnown(t)}) <= 1

=============================================================================
