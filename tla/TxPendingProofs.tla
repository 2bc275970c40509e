--------------------------- MODULE TxPendingProofs ---------------------------
(***************************************************************************)
(* Proofs about TxPending and TxStatus: for any number of transactions,    *)
(* any limit of a pass, with the timer and without it.                     *)
(***************************************************************************)
EXTENDS TxStatus, FiniteSetTheorems, TLAPS

-----------------------------------------------------------------------------
(* Type correctness.                                                       *)

\* A pass counts each row it read once: what it has rejected and what it has
\* still to look at are together no more than what it listed.
PassCounts ==
    timer.busy => timer.rejected + Cardinality(timer.todo) <= timer.listed

TxInv == TxTypeOK /\ PassCounts

LEMMA TxFinite ==
    ASSUME NEW S \in SUBSET Tx
    PROVE  IsFiniteSet(S) /\ Cardinality(S) \in 0..Cardinality(Tx) /\ Cardinality(Tx) \in Nat
<1>1. IsFiniteSet(S) /\ Cardinality(S) <= Cardinality(Tx)
  BY TxAssumption, FS_Subset
<1>2. Cardinality(S) \in Nat /\ Cardinality(Tx) \in Nat
  BY <1>1, TxAssumption, FS_CardinalityType
<1> QED BY <1>1, <1>2

Timer == [busy : BOOLEAN, todo : SUBSET Tx, old : SUBSET Tx,
          listed : 0..Cardinality(Tx), rejected : 0..Cardinality(Tx)]

LEMMA IdleIsTimer == TimerIdle \in Timer /\ TimerIdle.busy = FALSE
<1>1. 0 \in 0..Cardinality(Tx)
  BY TxFinite
<1> QED BY <1>1 DEF TimerIdle, Timer

LEMMA TxInvInit == TxInit => TxInv
<1> SUFFICES ASSUME TxInit PROVE TxInv
  OBVIOUS
<1>1. timer \in Timer /\ timer.busy = FALSE
  BY IdleIsTimer DEF TxInit
<1>2. 0 \in 0..MaxSends
  BY TxAssumption
<1> QED BY <1>1, <1>2 DEF TxInit, TxInv, TxTypeOK, PassCounts, NodeStates, Timer

\* The rows and the node after a step of one of the parties.
LEMMA TablesStep ==
    ASSUME TxTypeOK, TxNext
    PROVE  /\ node' \in [Tx -> NodeStates]
           /\ sends' \in [Tx -> 0..MaxSends]
           /\ recording' \subseteq Tx
           /\ row' \in [Tx -> {"absent", "pending", "confirmed", "rejected"}]
           /\ aged' \subseteq Tx
           /\ handled' \subseteq Tx /\ passed' \subseteq handled'
<1> USE DEF TxTypeOK, nodeVars, tableVars, readerVars
<1>1. ASSUME NEW t \in Tx, Submit(t)
      PROVE  node' \in [Tx -> NodeStates] /\ sends' \in [Tx -> 0..MaxSends] /\ recording' \subseteq Tx
  BY <1>1, TxAssumption DEF Submit, NodeStates
<1>2. CASE \E t \in Tx : TxStep(t)
  BY <1>1, <1>2 DEF TxStep, Submit, CreatePending, RecordLost, Age, UpdatePendingStatusToConfirm
<1>3. CASE ApiDies \/ ChainMoves
  BY <1>3 DEF ApiDies, ChainMoves
<1>4. CASE BlockStep
  BY <1>4 DEF BlockStep, StoreBlock
<1>5. CASE TimerStep
  BY <1>5 DEF TimerStep, SearchMaybeRejected, CheckOne, UpdatePendingToRejected, TimerGivesUp
<1> QED BY <1>2, <1>3, <1>4, <1>5 DEF TxNext

\* The pass after a step.
LEMMA PassStep ==
    ASSUME TxInv, TxNext
    PROVE  timer' \in Timer /\ PassCounts'
<1>1. timer \in Timer
  BY DEF TxInv, TxTypeOK, Timer
<1>2. CASE SearchMaybeRejected
  <2>1. PICK list \in SUBSET MaybeRejected :
          timer' = [busy |-> TRUE, todo |-> list, old |-> aged,
                    listed |-> Cardinality(list), rejected |-> 0]
    BY <1>2 DEF SearchMaybeRejected
  <2>2. list \in SUBSET Tx /\ aged \in SUBSET Tx
    BY DEF MaybeRejected, TxInv, TxTypeOK
  <2>3. Cardinality(list) \in 0..Cardinality(Tx) /\ 0 \in 0..Cardinality(Tx)
    BY <2>2, TxFinite
  <2>4. timer' \in Timer
    BY <2>1, <2>2, <2>3 DEF Timer
  <2>5. timer'.rejected + Cardinality(timer'.todo) <= timer'.listed
    BY <2>1, <2>3
  <2> QED BY <2>4, <2>5 DEF PassCounts
<1>3. ASSUME NEW t \in Tx, CheckOne(t)
      PROVE  timer' \in Timer /\ PassCounts'
  <2> DEFINE counted == timer.rejected + (IF node[t] = "dropped" THEN 1 ELSE 0)
             rest == timer.todo \ {t}
  <2>1. /\ timer.busy /\ t \in timer.todo
        /\ timer' = [timer EXCEPT !.todo = rest, !.rejected = counted]
    BY <1>3 DEF CheckOne
  <2>2. /\ timer.todo \in SUBSET Tx /\ timer.listed \in 0..Cardinality(Tx)
        /\ timer.rejected \in 0..Cardinality(Tx)
    BY <1>1 DEF Timer
  <2>3. Cardinality(rest) = Cardinality(timer.todo) - 1 /\ Cardinality(rest) \in Nat
    BY <2>1, <2>2, TxFinite, FS_RemoveElement
  <2>4. Cardinality(timer.todo) \in Nat /\ Cardinality(Tx) \in Nat
    BY <2>2, TxFinite
  <2>5. timer.rejected + Cardinality(timer.todo) <= timer.listed
    BY <2>1 DEF TxInv, PassCounts
  <2>6. counted \in 0..Cardinality(Tx) /\ counted + Cardinality(rest) <= timer.listed
    BY <2>2, <2>3, <2>4, <2>5
  <2>7. rest \in SUBSET Tx
    BY <2>2
  <2> HIDE DEF counted, rest
  <2>8. timer' \in Timer /\ timer'.todo = rest /\ timer'.rejected = counted
          /\ timer'.listed = timer.listed
    BY <1>1, <2>1, <2>6, <2>7 DEF Timer
  <2> QED BY <2>6, <2>8 DEF PassCounts
<1>4. CASE UpdatePendingToRejected \/ TimerGivesUp
  BY <1>4, IdleIsTimer DEF UpdatePendingToRejected, TimerGivesUp, PassCounts
<1>5. CASE timer' = timer
  BY <1>1, <1>5 DEF TxInv, PassCounts
<1> QED BY <1>2, <1>3, <1>4, <1>5 DEF TxNext, TxStep, Submit, CreatePending, RecordLost, ApiDies, Age,
        UpdatePendingStatusToConfirm, ChainMoves, BlockStep, StoreBlock, TimerStep

LEMMA TxInvStep == TxInv /\ [TxNext]_txVars => TxInv'
<1>1. ASSUME TxInv, TxNext
      PROVE  TxInv'
  BY <1>1, TablesStep, PassStep DEF TxInv, TxTypeOK, Timer
<1>2. ASSUME TxInv, UNCHANGED txVars
      PROVE  TxInv'
  BY <1>2 DEF TxInv, TxTypeOK, PassCounts, txVars, nodeVars, tableVars, readerVars
<1> QED BY <1>1, <1>2

\* Every variable keeps its type, and the counters of a pass of checkRejected
\* stay within the number of rows it listed: it never counts a row twice.
THEOREM TxTypeCorrect == TxSpec => []TxTypeOK
<1>1. TxInv => TxTypeOK
  BY DEF TxInv
<1> QED BY <1>1, TxInvInit, TxInvStep, PTL DEF TxSpec, TxSafeSpec

-----------------------------------------------------------------------------
(* Verdicts.                                                               *)

\* Only an absent row becomes pending and only a pending one rejected, so a
\* confirmation is never taken back, by the second request that records the
\* same transaction, by the timer's update of all old rows, or by the parser.
ConfirmedStays == \A t \in Tx : row[t] = "confirmed" => row'[t] = "confirmed"

THEOREM ConfirmationsStay == TxSpec => [][ConfirmedStays]_txVars
<1>1. ASSUME TxTypeOK, [TxNext]_txVars
      PROVE  [ConfirmedStays]_txVars
  <2>1. CASE \E t \in Tx : TxStep(t)
    BY <1>1, <2>1 DEF TxTypeOK, TxStep, Submit, CreatePending, RecordLost, Age,
       UpdatePendingStatusToConfirm, ConfirmedStays, tableVars
  <2>2. CASE ApiDies \/ ChainMoves \/ BlockStep
    BY <2>2 DEF ApiDies, ChainMoves, BlockStep, StoreBlock, ConfirmedStays, tableVars
  <2>3. CASE TimerStep
    BY <1>1, <2>3 DEF TxTypeOK, TimerStep, SearchMaybeRejected, CheckOne,
       UpdatePendingToRejected, TimerGivesUp, ConfirmedStays, tableVars
  <2> QED BY <1>1, <2>1, <2>2, <2>3 DEF TxNext
<1> QED BY <1>1, TxTypeCorrect, PTL DEF TxSpec, TxSafeSpec

\* What the confirmed rows' transactions may be at the node: buried for good;
\* or, if the timer runs, in a block of a chain that is not reorganised.
Settled(t) == node[t] = "final" \/ (TimerStarted /\ node[t] = "committed")

ConfirmedIsSettled ==
    /\ \A t \in Tx : row[t] = "confirmed" => Settled(t)
    /\ timer.busy => TimerStarted

LEMMA SettledStep ==
    ASSUME ~(TimerStarted /\ Reorgs), TxTypeOK, ConfirmedIsSettled, [TxNext]_txVars
    PROVE  ConfirmedIsSettled'
<1> USE DEF ConfirmedIsSettled, Settled
<1>1. CASE \E t \in Tx : TxStep(t)
  <2>1. PICK t \in Tx : TxStep(t)
    BY <1>1
  <2>2. CASE Submit(t)
    BY <2>2 DEF TxTypeOK, Submit, tableVars
  <2>3. CASE ~Submit(t)
    BY <2>1, <2>3 DEF TxTypeOK, TxStep, CreatePending, RecordLost, Age,
       UpdatePendingStatusToConfirm, nodeVars, tableVars
  <2> QED BY <2>2, <2>3
<1>2. CASE ApiDies \/ ChainMoves
  BY <1>2 DEF ApiDies, ChainMoves, LegalMove, nodeVars, tableVars
<1>3. CASE BlockStep
  BY <1>3 DEF BlockStep, StoreBlock, nodeVars, tableVars
<1>4. CASE TimerStep
  <2>1. CASE SearchMaybeRejected
    BY <2>1 DEF SearchMaybeRejected, nodeVars, tableVars
  <2>2. ASSUME NEW t \in Tx, CheckOne(t)
        PROVE  ConfirmedIsSettled'
    <3>1. timer.busy /\ timer'.busy = timer.busy /\ UNCHANGED node
      BY <2>2 DEF CheckOne, nodeVars, TxTypeOK
    <3>2. \A s \in Tx : row'[s] = "confirmed" =>
              row[s] = "confirmed" \/ node[s] \in {"committed", "final"}
      BY <2>2 DEF CheckOne, TxTypeOK
    <3> QED BY <3>1, <3>2
  <2>3. CASE UpdatePendingToRejected \/ TimerGivesUp
    BY <2>3, IdleIsTimer DEF UpdatePendingToRejected, TimerGivesUp, nodeVars, tableVars, TxTypeOK
  <2> QED BY <1>4, <2>1, <2>2, <2>3 DEF TimerStep
<1>5. CASE UNCHANGED txVars
  BY <1>5 DEF txVars, nodeVars, tableVars
<1> QED BY <1>1, <1>2, <1>3, <1>4, <1>5 DEF TxNext

LEMMA SettledAlways ==
    ASSUME ~(TimerStarted /\ Reorgs)
    PROVE  TxSpec => []ConfirmedIsSettled
<1>1. TxInit => ConfirmedIsSettled
  BY IdleIsTimer DEF TxInit, ConfirmedIsSettled
<1> QED BY <1>1, SettledStep, TxTypeCorrect, PTL DEF TxSpec, TxSafeSpec

\* In the service as it is started, without the timer, status 1 is final for
\* any number of transactions and reorganisations: only the parser confirms,
\* and only what is buried.
THEOREM ConfirmedIsFinalAlone ==
    ASSUME ~TimerStarted
    PROVE  TxSpec => []ConfirmedIsFinal
<1>1. ConfirmedIsSettled => ConfirmedIsFinal
  BY DEF ConfirmedIsSettled, Settled, ConfirmedIsFinal
<1> QED BY <1>1, SettledAlways, PTL

\* With the timer, which confirms a transaction as soon as it is committed, a
\* confirmed row's transaction is on the chain as long as no reorganisation
\* takes it off again.
THEOREM ConfirmedIsOnChain ==
    ASSUME ~Reorgs
    PROVE  TxSpec => [](\A t \in Tx : row[t] = "confirmed" => node[t] \in {"committed", "final"})
<1>1. ConfirmedIsSettled =>
        \A t \in Tx : row[t] = "confirmed" => node[t] \in {"committed", "final"}
  BY DEF ConfirmedIsSettled, Settled
<1> QED BY <1>1, SettledAlways, PTL

-----------------------------------------------------------------------------
(* The status request.                                                     *)

\* The two tables of names agree on the action the service records, and no
\* other number stands for it.
LEMMA KeyListActionIs30 ==
    /\ FormatTxAction(RowAction) = 30
    /\ 30 \in TxActions /\ FormatActionType(30) = RowAction
    /\ \A n \in TxActions : FormatActionType(n) = RowAction => n = 30
<1>1. Len(ActionNames) = 31 /\ DOMAIN ActionNames = 1..31
  BY DEF ActionNames
<1>2. \A i \in 1..31 : ActionNames[i] = RowAction <=> i = 31
  BY DEF ActionNames, RowAction
<1>3. FormatTxAction(RowAction) = 30
  BY <1>1, <1>2 DEF FormatTxAction
<1>4. TxActions = 0..30 \union {99}
  BY <1>1 DEF TxActions, ActionUndefined
<1>5. FormatActionType(30) = RowAction
  BY <1>2, <1>4 DEF FormatActionType, ActionUndefined
<1>6. ASSUME NEW n \in TxActions, FormatActionType(n) = RowAction
      PROVE  n = 30
  <2>1. RowAction # ""
    BY DEF RowAction
  <2>2. n \in 0..30 /\ ActionNames[n + 1] = RowAction
    BY <1>4, <1>6, <2>1 DEF FormatActionType, ActionUndefined
  <2> QED BY <1>2, <2>2
<1> QED BY <1>3, <1>4, <1>5, <1>6

\* In every state a client that asks with an action's number is told of that
\* action, and number 30 finds every row that a transaction hash finds.
THEOREM StatusAnswers == TxSpec => []AnswersWhatWasAsked
<1>1. AnswersWhatWasAsked
  <2>1. ASSUME NEW n \in TxActions, NEW a \in StatusByActions({n})
        PROVE  a.action = n
    <3>1. FormatActionType(n) = RowAction /\ \E t \in Tx : a = Answer(t)
      BY DEF StatusByActions, Recorded
    <3>2. n = 30
      BY <3>1, KeyListActionIs30
    <3> QED BY <3>1, <3>2, KeyListActionIs30 DEF Answer
  <2>2. StatusByActions({30}) = {Answer(t) : t \in Recorded}
    BY KeyListActionIs30 DEF StatusByActions
  <2>3. UNION {StatusByHash(t) : t \in Tx} = {Answer(t) : t \in Recorded}
    BY DEF StatusByHash, Recorded
  <2> QED BY <2>1, <2>2, <2>3 DEF AnswersWhatWasAsked
<1> QED BY <1>1, PTL
=============================================================================
