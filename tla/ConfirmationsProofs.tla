------------------------- MODULE ConfirmationsProofs -------------------------
(***************************************************************************)
(* Proofs about Confirmations: for every chain, every number of            *)
(* transactions and every configuration whose confirmations cover the      *)
(* chain's reorganisations, the parser, the requests and the chain do what *)
(* TxPending says of them.                                                 *)
(***************************************************************************)
EXTENDS Confirmations, BlockParserProofs

-----------------------------------------------------------------------------
(* The parser's part of the state takes the steps of BlockParser.          *)

LEMMA ParserSteps ==
    ASSUME [ConfNext]_confVars
    PROVE  [Next]_vars
BY DEF ConfNext, Submit, CreatePending, RecordLost, Drop, NewChain, FetchBlock,
   ActionUpdateKeylist, HandledBlock, OtherStep, Next, ParserStep, ChainStep, confVars

LEMMA ParserRuns == ConfSpec => Spec
<1>1. ConfInit => Init
  BY DEF ConfInit
<1>2. [ConfNext]_confVars => [Next]_vars
  BY ParserSteps
<1> QED BY <1>1, <1>2, PTL DEF ConfSpec, Spec

-----------------------------------------------------------------------------
(* Types, and the strengthening: what a stored or handled block holds was   *)
(* updated, and the node has only what was sent, in its pool or its chain.  *)

UpdatedInv == \A b \in parsed : TxIn[b] \subseteq updated

SentInv ==
    /\ \A t \in pool \union Held(chain) : sends[t] > 0
    /\ pool \intersect Held(chain) = {}

ConfInv == ConfTypeOK /\ UpdatedInv /\ SentInv

LEMMA HeldIsTx ==
    ASSUME TypeInv
    PROVE  Held(chain) \subseteq Tx /\ Buried \subseteq Held(chain)
<1>1. /\ DOMAIN chain = 0..tip /\ tip \in Nat
      /\ \A n \in 0..tip : chain[n] \in Block
  BY ChainFacts DEF TypeInv, TypeOK
<1>2. 0..(tip - ConfirmNum - 1) \subseteq DOMAIN chain
  BY <1>1, ParserAssumption
<1> QED BY <1>1, <1>2, ConfirmationsAssumption DEF Held, Buried

LEMMA ConfInvInit ==
    ASSUME ConfInit
    PROVE  ConfInv
<1>1. 0 \in 0..MaxSends
  BY ConfirmationsAssumption
<1> QED BY <1>1 DEF ConfInit, Init, ParserInit, ConfInv, ConfTypeOK, UpdatedInv, SentInv

LEMMA ConfInvStep ==
    ASSUME TypeInv, ConfInv, [ConfNext]_confVars
    PROVE  ConfInv'
<1> USE DEF ConfInv
<1>1. ASSUME NEW t \in Tx, Submit(t)
      PROVE  ConfInv'
  <2>1. /\ sends' = [sends EXCEPT ![t] = sends[t] + 1] /\ sends[t] < MaxSends
        /\ pool' = pool \union {t} /\ recording' = recording \union {t}
        /\ t \notin Held(chain)
        /\ UNCHANGED <<chain, pc, block, parsed, row, done, updated>>
    BY <1>1 DEF Submit, vars, parserVars, chainVars
  <2>2. sends[t] \in 0..MaxSends /\ MaxSends \in Nat
    BY ConfirmationsAssumption DEF ConfTypeOK
  <2>3. sends' \in [Tx -> 0..MaxSends] /\ sends'[t] > 0
        /\ \A u \in Tx : u # t => sends'[u] = sends[u]
    BY <2>1, <2>2 DEF ConfTypeOK
  <2>4. Held(chain)' = Held(chain)
    BY <2>1 DEF Held
  <2>5. \A u \in pool \union Held(chain) : u \in Tx
    BY HeldIsTx DEF ConfTypeOK
  <2> QED BY <2>1, <2>3, <2>4, <2>5 DEF ConfTypeOK, UpdatedInv, SentInv
<1>2. ASSUME NEW t \in Tx, CreatePending(t) \/ RecordLost(t) \/ Drop(t)
      PROVE  ConfInv'
  <2>1. /\ UNCHANGED <<chain, pc, block, parsed, sends, done, updated>>
        /\ pool' \subseteq pool /\ recording' \subseteq recording
        /\ row' \in [Tx -> {"absent", "pending", "confirmed"}]
    BY <1>2 DEF CreatePending, RecordLost, Drop, vars, parserVars, chainVars, ConfTypeOK
  <2> QED BY <2>1 DEF ConfTypeOK, UpdatedInv, SentInv, Held
<1>3. ASSUME NEW t \in Tx, ActionUpdateKeylist(t)
      PROVE  ConfInv'
  <2>1. /\ UNCHANGED <<chain, pc, block, parsed, sends, pool, recording>>
        /\ row' \in [Tx -> {"absent", "pending", "confirmed"}]
        /\ done' = done \union {t} /\ updated' = updated \union {t} /\ pc = "parse"
    BY <1>3 DEF ActionUpdateKeylist, vars, parserVars, chainVars, ConfTypeOK
  <2> QED BY <2>1 DEF ConfTypeOK, UpdatedInv, SentInv, Held
<1>4. CASE NewChain
  <2>1. UNCHANGED <<pc, block, parsed, sends, recording, row, done, updated>>
    BY <1>4 DEF NewChain, parserVars
  <2>2. /\ \A t \in Held(chain') : sends[t] > 0
        /\ pool' \subseteq pool \union Held(chain)
        /\ pool' \intersect Held(chain') = {}
    BY <1>4 DEF NewChain
  <2> QED BY <2>1, <2>2, HeldIsTx DEF ConfTypeOK, UpdatedInv, SentInv, Held
<1>5. CASE FetchBlock
  <2>1. /\ UNCHANGED <<chain, parsed, pool, sends, recording, row, updated>>
        /\ done' = {} /\ pc' \in {"check", "parse"}
    BY <1>5 DEF FetchBlock, GetBlock, rowVars, chainVars
  <2> QED BY <2>1 DEF ConfTypeOK, UpdatedInv, SentInv, Held
<1>6. CASE HandledBlock
  <2>1. /\ UNCHANGED <<chain, block, pool, sends, recording, row, done, updated>>
        /\ parsed' = parsed \union {block} /\ TxIn[block] \subseteq done
    BY <1>6 DEF HandledBlock, ParsingBlockData, rowVars, chainVars
  <2> QED BY <2>1 DEF ConfTypeOK, UpdatedInv, SentInv, Held
<1>7. CASE OtherStep
  <2>1. /\ UNCHANGED <<chain, block, parsed, pool, sends, recording, row, done, updated>>
        /\ pc' \in {"create", "prune"} => pc \in {"create", "prune"}
    BY <1>7 DEF OtherStep, Boot, ReadTip, CheckFork, CreateBlockInfo, DeleteBlockInfo,
       Fail, Crash, rowVars, chainVars
  <2> QED BY <2>1 DEF ConfTypeOK, UpdatedInv, SentInv, Held
<1>8. CASE UNCHANGED confVars
  BY <1>8 DEF confVars, vars, parserVars, chainVars, rowVars,
     ConfTypeOK, UpdatedInv, SentInv, Held
<1> QED BY <1>1, <1>2, <1>3, <1>4, <1>5, <1>6, <1>7, <1>8 DEF ConfNext

\* The table and the requests keep their types on every chain, and a block that
\* is about to be stored (CreateBlockInfo) has had all its transactions handled.
THEOREM ConfTypeCorrect == ConfSpec => []ConfTypeOK
<1>1. ConfInit => ConfInv
  BY ConfInvInit
<1>2. TypeInv /\ ConfInv /\ [ConfNext]_confVars => ConfInv'
  BY ConfInvStep
<1>3. Init => TypeInv
  BY TypeInit
<1>4. TypeInv /\ [Next]_vars => TypeInv'
  BY TypeStep
<1>5. ConfInv => ConfTypeOK
  BY DEF ConfInv
<1> QED BY <1>1, <1>2, <1>3, <1>4, <1>5, ParserRuns, PTL DEF ConfSpec, Spec

LEMMA ConfInvariant == ASSUME ReorgsCovered PROVE ConfSpec => [](ParserInv /\ ConfInv)
<1>1. ConfInit => ConfInv
  BY ConfInvInit
<1>2. ParserInv => TypeInv
  BY DEF ParserInv
<1>3. TypeInv /\ ConfInv /\ [ConfNext]_confVars => ConfInv'
  BY ConfInvStep
<1> QED BY <1>1, <1>2, <1>3, ParserRuns, ParserInvariant, PTL DEF ConfSpec

-----------------------------------------------------------------------------
(* Where a transaction is, in TxPending's words.                           *)

Placed ==
    /\ Buried \subseteq Held(chain)
    /\ \A t : /\ t \in Buried => NodeOf(t) = "final"
              /\ t \in Held(chain) \ Buried => NodeOf(t) = "committed"
              /\ t \in pool => NodeOf(t) = "pool"
              /\ t \notin pool \union Held(chain) =>
                    NodeOf(t) = IF sends[t] = 0 THEN "none" ELSE "dropped"

LEMMA WhereItIs == TypeInv /\ SentInv => Placed
<1>1. TypeInv => Buried \subseteq Held(chain)
  BY HeldIsTx
<1> QED BY <1>1 DEF SentInv, NodeOf, Placed

LEMMA WhereItIsNext == (TypeInv /\ SentInv)' => Placed'
BY WhereItIs, PTL

\* The chain facts of the state after a step.
LEMMA ChainFactsNext ==
    ASSUME ChainTypeOK'
    PROVE  \A m \in 0..tip' : chain'[m] \in Block /\ Height[chain'[m]] = m
<1>1. PICK t \in 0..MaxHeight :
        DOMAIN chain' = 0..t /\ \A n \in 0..t : chain'[n] \in Block /\ Height[chain'[n]] = n
  BY ChainAssumption DEF ChainTypeOK
<1> QED BY <1>1 DEF ChainTypeOK

\* What the parser has left behind is buried, so no reorganisation reaches it.
LEMMA BehindIsBuried ==
    ASSUME ParserInv, NEW n \in DOMAIN chain, n < cur, TxIn[chain[n]] # {}
    PROVE  n \in Nat /\ IsBuried(n) /\ ConfigStart < n
<1> USE Numbers DEF ParserInv
<1>1. /\ n \in Nat /\ chain[n] \in Block /\ Height[chain[n]] = n
  BY ChainFacts DEF TypeInv, TypeOK
<1>2. ConfigStart < n
  BY <1>1, ConfirmationsAssumption
<1>3. ~NoRows
  BY <1>1, <1>2 DEF CursorInv
<1>4. PICK m \in DOMAIN rows : m = cur \/ m = cur - 1
  BY <1>3 DEF CursorInv
<1>5. IsBuried(m) /\ n <= m
  BY <1>1, <1>4 DEF FinalInv
<1> QED BY <1>1, <1>2, <1>5 DEF IsBuried

\* A block on the chain is left behind when the cursor passes it, and what it
\* holds is in no other.
LEMMA BehindGrows ==
    ASSUME ParserInv, chain' = chain, cur \in DOMAIN chain, cur' = cur + 1
    PROVE  Behind' = Behind \union TxIn[chain[cur]]
<1>1. DOMAIN chain \subseteq Nat /\ cur \in Nat
  BY ChainFacts, Numbers DEF ParserInv, TypeInv, TypeOK
<1>2. {m \in DOMAIN chain : m < cur + 1} = {m \in DOMAIN chain : m < cur} \union {cur}
  BY <1>1
<1> QED BY <1>2 DEF Behind

LEMMA NotYetBehind ==
    ASSUME ParserInv, cur \in DOMAIN chain
    PROVE  TxIn[chain[cur]] \intersect Behind = {}
<1>1. chain \in Chains /\ cur \in Nat
  BY Numbers DEF ParserInv, TypeInv, TypeOK, ChainTypeOK
<1>2. SUFFICES ASSUME NEW m \in DOMAIN chain, m < cur,
                      TxIn[chain[cur]] \intersect TxIn[chain[m]] # {}
               PROVE  FALSE
  BY DEF Behind
<1>3. m = cur
  BY <1>1, <1>2, ConfirmationsAssumption
<1> QED BY <1>1, <1>2, <1>3

\* The cursor's block, while it is parsed or stored.
LEMMA CursorBlock ==
    ASSUME ParserInv, pc \in {"parse", "create"}
    PROVE  /\ cur \in DOMAIN chain /\ block = chain[cur]
           /\ TxIn[block] \subseteq Buried /\ TxIn[block] \subseteq Tx
<1>1. cur \in 0..tip /\ IsBuried(cur) /\ block = chain[cur] /\ DOMAIN chain = 0..tip
  BY CursorBuried, ChainFacts DEF ParserInv, FinalInv, TypeInv, TypeOK
<1>2. cur \in 0..(tip - ConfirmNum - 1)
  BY <1>1, Numbers DEF ParserInv, IsBuried
<1>3. block \in Block
  BY DEF ParserInv, TypeInv, TypeOK
<1> QED BY <1>1, <1>2, <1>3, ConfirmationsAssumption DEF Buried

-----------------------------------------------------------------------------
(* Status 1 is final.                                                      *)

FinalRows == \A t \in Tx : row[t] = "confirmed" => t \in Buried

LEMMA BuriedGrows ==
    ASSUME ReorgsCovered, TypeInv, ChainStep
    PROVE  Buried \subseteq Buried'
<1> USE Numbers
<1>1. tip' > tip /\ tip' \in Nat
  BY DEF ChainStep, Advance
<1>2. SUFFICES ASSUME NEW n \in 0..(tip - ConfirmNum - 1)
               PROVE  n \in 0..(tip' - ConfirmNum - 1) /\ chain'[n] = chain[n]
  BY DEF Buried
<1>3. n \in Nat /\ IsBuried(n)
  BY DEF IsBuried
<1> QED BY <1>1, <1>3, BuriedStays

LEMMA FinalRowsStep ==
    ASSUME ReorgsCovered, ParserInv, ConfInv, FinalRows, [ConfNext]_confVars
    PROVE  FinalRows'
<1>1. ASSUME NEW t \in Tx, Submit(t) \/ CreatePending(t) \/ RecordLost(t) \/ Drop(t)
      PROVE  FinalRows'
  <2>1. /\ UNCHANGED <<chain, tip>>
        /\ \A u \in Tx : row'[u] = "confirmed" => row[u] = "confirmed"
    BY <1>1 DEF Submit, CreatePending, RecordLost, Drop, vars, chainVars, ConfInv, ConfTypeOK
  <2> QED BY <2>1 DEF FinalRows, Buried
<1>2. ASSUME NEW t \in Tx, ActionUpdateKeylist(t)
      PROVE  FinalRows'
  <2>1. t \in Buried
    BY <1>2, CursorBlock DEF ActionUpdateKeylist
  <2>2. /\ UNCHANGED <<chain, tip>>
        /\ \A u \in Tx : row'[u] = "confirmed" => u = t \/ row[u] = "confirmed"
    BY <1>2 DEF ActionUpdateKeylist, vars, chainVars, ConfInv, ConfTypeOK
  <2> QED BY <2>1, <2>2 DEF FinalRows, Buried
<1>3. CASE NewChain
  <2>1. ChainStep /\ UNCHANGED row
    BY <1>3 DEF NewChain, ChainStep
  <2> QED BY <2>1, BuriedGrows DEF FinalRows, ParserInv
<1>4. CASE FetchBlock \/ HandledBlock \/ OtherStep \/ UNCHANGED confVars
  <2>1. UNCHANGED <<chain, tip, row>>
    BY <1>4 DEF FetchBlock, HandledBlock, OtherStep, confVars, vars, rowVars, chainVars,
       GetBlock, ParsingBlockData, Boot, ReadTip, CheckFork, CreateBlockInfo,
       DeleteBlockInfo, Fail, Crash
  <2> QED BY <2>1 DEF FinalRows, Buried
<1> QED BY <1>1, <1>2, <1>3, <1>4 DEF ConfNext

\* A transaction reported as confirmed (doTransactionStatus) has confirm_num
\* blocks on top of it and stays where it is: no reorganisation the
\* confirmations are meant for takes it out again, whatever failed and however
\* often the parser restarted.
THEOREM ConfirmedStaysFinal ==
    ASSUME ReorgsCovered
    PROVE  ConfSpec => []ConfirmedIsFinal
<1>1. ConfInit => FinalRows
  BY DEF ConfInit, FinalRows
<1>2. ParserInv /\ ConfInv /\ FinalRows /\ [ConfNext]_confVars => FinalRows'
  BY ReorgsCovered, FinalRowsStep
<1>3. ParserInv /\ ConfInv /\ FinalRows => ConfirmedIsFinal
  BY WhereItIs DEF ParserInv, ConfInv, FinalRows, Placed, ConfirmedIsFinal, TP!ConfirmedIsFinal
<1> QED BY <1>1, <1>2, <1>3, ConfInvariant, PTL DEF ConfSpec

-----------------------------------------------------------------------------
(* The refinement, step by step.                                           *)

\* Steps that leave the chain, the pool and the sends alone move nothing.
LEMMA NothingMoves ==
    ASSUME UNCHANGED <<chain, tip, pool, sends>>
    PROVE  \A t : NodeOf(t)' = NodeOf(t)
BY DEF NodeOf, Buried, Held

LEMMA InitRefines ==
    ASSUME ConfInit
    PROVE  TP!TxInit
<1>1. TypeInv /\ SentInv
  BY TypeInit, ConfInvInit DEF ConfInit, ConfInv
<1>2. \A t \in Tx : NodeOf(t) = "none"
  BY <1>1, WhereItIs DEF Placed, ConfInit
<1>3. Behind = {}
  BY DEF ConfInit, Held, Behind
<1> QED BY <1>2, <1>3 DEF ConfInit, TP!TxInit, TP!TimerIdle

LEMMA SubmitRefines ==
    ASSUME ParserInv, ConfInv, ParserInv', ConfInv', NEW t \in Tx, Submit(t)
    PROVE  TP!Submit(t)
<1>1. UNCHANGED <<chain, tip, cur, row, updated>>
  BY DEF Submit, vars, parserVars, chainVars
<1>2. t \notin pool \union Held(chain) /\ pool' = pool \union {t}
      /\ sends' = [sends EXCEPT ![t] = sends[t] + 1] /\ sends[t] < MaxSends
      /\ t \notin recording /\ recording' = recording \union {t}
  BY DEF Submit
<1>3. Placed /\ Placed'
  BY WhereItIs, WhereItIsNext DEF ParserInv, ConfInv
<1>4. NodeOf(t) \in {"none", "dropped"}
  BY <1>2, <1>3 DEF Placed
<1>5. NodeOf(t)' = "pool"
  BY <1>2, <1>3 DEF Placed
<1>6. Held(chain)' = Held(chain) /\ Buried' = Buried /\ Behind' = Behind
  BY <1>1 DEF Held, Buried, Behind
<1>7. \A u \in Tx : u # t => sends'[u] = sends[u]
  BY <1>2 DEF ConfInv, ConfTypeOK
<1>8. \A u \in Tx : u # t => NodeOf(u)' = NodeOf(u)
  BY <1>2, <1>6, <1>7 DEF NodeOf
<1>9. [u \in Tx |-> NodeOf(u)]' = [[u \in Tx |-> NodeOf(u)] EXCEPT ![t] = "pool"]
  BY <1>5, <1>8
<1> HIDE DEF NodeOf
<1> QED BY <1>1, <1>2, <1>4, <1>6, <1>9 DEF TP!Submit, TP!tableVars, TP!readerVars

LEMMA RecordRefines ==
    ASSUME NEW t \in Tx, CreatePending(t) \/ RecordLost(t)
    PROVE  TP!CreatePending(t) \/ TP!RecordLost(t)
<1>1. UNCHANGED <<chain, tip, cur, pool, sends, updated>>
  BY DEF CreatePending, RecordLost, vars, parserVars, chainVars
<1>2. Behind' = Behind /\ \A u : NodeOf(u)' = NodeOf(u)
  BY <1>1, NothingMoves DEF Behind
<1> HIDE DEF NodeOf
<1> QED BY <1>1, <1>2 DEF CreatePending, RecordLost, TP!CreatePending, TP!RecordLost,
       TP!nodeVars, TP!tableVars, TP!readerVars

\* Behind, the blocks left behind, does not change when the chain does.
LEMMA BehindStays ==
    ASSUME ReorgsCovered, ParserInv, ParserInv', ChainStep
    PROVE  Behind' = Behind
<1> USE Numbers DEF ParserInv
<1>1. /\ cur' = cur /\ tip \in Nat /\ tip' \in Nat /\ tip < tip'
      /\ DOMAIN chain = 0..tip /\ DOMAIN chain' = 0..tip'
  BY DEF ChainStep, Advance, parserVars, TypeInv, TypeOK, ChainTypeOK
<1>2. ASSUME NEW n \in DOMAIN chain, n < cur, TxIn[chain[n]] # {}
      PROVE  n \in DOMAIN chain' /\ chain'[n] = chain[n]
  <2>1. n \in Nat /\ IsBuried(n)
    BY <1>1, <1>2, BehindIsBuried
  <2>2. n \in 0..tip /\ chain'[n] = chain[n]
    BY <2>1, BuriedStays
  <2> QED BY <1>1, <2>2
<1>3. ASSUME NEW n \in DOMAIN chain', n < cur, TxIn[chain'[n]] # {}
      PROVE  n \in DOMAIN chain /\ chain'[n] = chain[n]
  <2>1. n \in Nat /\ chain'[n] \in Block /\ Height[chain'[n]] = n
    <3>1. ChainTypeOK'
      BY DEF TypeInv, TypeOK
    <3>2. \A m \in 0..tip' : chain'[m] \in Block /\ Height[chain'[m]] = m
      BY <3>1, ChainFactsNext
    <3> QED BY <1>1, <3>2
  <2>2. ConfigStart < n
    BY <1>3, <2>1, ConfirmationsAssumption
  <2>3. ~NoRows
    BY <1>3, <2>1, <2>2 DEF CursorInv
  <2>4. PICK m \in DOMAIN rows : m = cur \/ m = cur - 1
    BY <2>3 DEF CursorInv
  <2>5. IsBuried(n)
    BY <1>3, <2>1, <2>4 DEF FinalInv, IsBuried
  <2> QED BY <1>1, <2>1, <2>5, BuriedStays
<1>4. ASSUME NEW x
      PROVE  x \in Behind' <=> x \in Behind
  <2>1. x \in Behind <=> \E n \in DOMAIN chain : n < cur /\ x \in TxIn[chain[n]]
    BY DEF Behind
  <2>2. x \in Behind' <=> \E n \in DOMAIN chain' : n < cur' /\ x \in TxIn[chain'[n]]
    BY DEF Behind
  <2>3. ASSUME NEW n \in DOMAIN chain, n < cur, x \in TxIn[chain[n]]
        PROVE  n \in DOMAIN chain' /\ x \in TxIn[chain'[n]]
    BY <1>2, <2>3
  <2>4. ASSUME NEW n \in DOMAIN chain', n < cur, x \in TxIn[chain'[n]]
        PROVE  n \in DOMAIN chain /\ x \in TxIn[chain[n]]
    BY <1>3, <2>4
  <2> QED BY <1>1, <2>1, <2>2, <2>3, <2>4
<1> QED BY <1>4

\* A longer chain, or a pool that drops one: every move is a legal one.
LEMMA ChainRefines ==
    ASSUME ReorgsCovered, ParserInv, ConfInv, ParserInv', ConfInv',
           NewChain \/ \E t \in Tx : Drop(t)
    PROVE  TP!ChainMoves
<1>1. Placed /\ Placed'
  BY WhereItIs, WhereItIsNext DEF ParserInv, ConfInv
<1>2. /\ UNCHANGED <<sends, recording, row, updated>>
      /\ sends \in [Tx -> 0..MaxSends] /\ SentInv /\ SentInv'
  BY DEF NewChain, Drop, ConfInv, ConfTypeOK
<1>3. Buried \subseteq Buried' /\ Behind' = Behind
  <2>1. CASE NewChain
    BY <2>1, BuriedGrows, BehindStays DEF NewChain, ChainStep, ParserInv
  <2>2. CASE \E t \in Tx : Drop(t)
    BY <2>2 DEF Drop, vars, parserVars, chainVars, Buried, Behind
  <2> QED BY <2>1, <2>2
<1>4. ASSUME NEW t \in Tx
      PROVE  /\ NodeOf(t)' \in {"none", "pool", "committed", "final", "dropped"}
             /\ NodeOf(t)' = NodeOf(t) \/ TP!LegalMove(NodeOf(t), NodeOf(t)')
  <2>1. \/ t \in Buried /\ NodeOf(t) = "final"
        \/ t \in Held(chain) \ Buried /\ NodeOf(t) = "committed"
        \/ t \in pool /\ NodeOf(t) = "pool"
        \/ t \notin pool \union Held(chain) /\ NodeOf(t) = IF sends[t] = 0 THEN "none" ELSE "dropped"
    BY <1>1 DEF Placed
  <2>2. \/ t \in Buried' /\ NodeOf(t)' = "final"
        \/ t \in Held(chain)' \ Buried' /\ NodeOf(t)' = "committed"
        \/ t \in pool' /\ NodeOf(t)' = "pool"
        \/ t \notin pool' \union Held(chain)' /\ NodeOf(t)' = IF sends[t] = 0 THEN "none" ELSE "dropped"
    BY <1>1, <1>2 DEF Placed
  <2>3. pool' \subseteq pool \union Held(chain)
    BY DEF NewChain, Drop
  <2>4. /\ t \in pool \union Held(chain) \union pool' \union Held(chain)' => sends[t] # 0
        /\ t \in Buried => t \in Buried'
    BY <1>2, <1>3 DEF SentInv
  <2>5. t \in Buried' => NodeOf(t)' = "final"
    BY <1>1 DEF Placed
  <2>6. t \in pool' => t \in pool \union Held(chain)
    BY <2>3
  <2> HIDE DEF NodeOf
  <2>7. CASE t \in Buried
    BY <2>1, <2>4, <2>5, <2>7, <1>1 DEF Placed
  <2>8. NodeOf(t)' \in {"final", "committed", "pool", "dropped"} \/ sends[t] = 0
    BY <1>2, <2>2
  <2>9. CASE t \in Held(chain) \ Buried
    <3>1. NodeOf(t) = "committed" /\ sends[t] # 0
      BY <1>1, <2>4, <2>9 DEF Placed
    <3> QED BY <2>8, <3>1 DEF TP!LegalMove
  <2>10. CASE t \in pool
    <3>1. NodeOf(t) = "pool" /\ sends[t] # 0
      BY <1>1, <2>4, <2>10 DEF Placed
    <3> QED BY <2>8, <3>1 DEF TP!LegalMove
  <2>11. CASE t \notin pool \union Held(chain)
    <3>1. t \notin pool' /\ NodeOf(t) = IF sends[t] = 0 THEN "none" ELSE "dropped"
      BY <1>1, <2>6, <2>11 DEF Placed
    <3>2. NodeOf(t)' \in {"final", "committed"} \/ NodeOf(t)' = NodeOf(t)
      BY <1>2, <2>2, <3>1
    <3>3. NodeOf(t)' \in {"final", "committed"} => NodeOf(t) = "dropped"
      BY <1>1, <1>2, <2>2, <2>4, <3>1 DEF Placed
    <3> QED BY <2>8, <3>1, <3>2, <3>3 DEF TP!LegalMove
  <2> QED BY <2>7, <2>9, <2>10, <2>11
<1>5. [t \in Tx |-> NodeOf(t)]' \in [Tx -> TP!NodeStates]
  BY <1>4 DEF TP!NodeStates
<1> HIDE DEF NodeOf
<1> QED BY <1>2, <1>3, <1>4, <1>5 DEF TP!ChainMoves, TP!tableVars, TP!readerVars

LEMMA HandlerRefines ==
    ASSUME ParserInv, ConfInv, NEW t \in Tx, ActionUpdateKeylist(t)
    PROVE  TP!UpdatePendingStatusToConfirm(t)
<1>1. UNCHANGED <<chain, tip, cur, pool, sends, recording>>
  BY DEF ActionUpdateKeylist, vars, parserVars, chainVars
<1>2. Behind' = Behind /\ \A u : NodeOf(u)' = NodeOf(u)
  BY <1>1, NothingMoves DEF Behind
<1>3. t \in Buried /\ t \notin Behind
  BY CursorBlock, NotYetBehind DEF ActionUpdateKeylist
<1>4. NodeOf(t) = "final"
  BY <1>3, WhereItIs DEF Placed, ParserInv, ConfInv
<1> HIDE DEF NodeOf
<1> QED BY <1>1, <1>2, <1>3, <1>4 DEF ActionUpdateKeylist, TP!UpdatePendingStatusToConfirm,
       TP!nodeVars

\* Leaving a block behind is StoreBlock, or nothing when the block is empty.
LEMMA PassRefines ==
    ASSUME ParserInv, ConfInv, cur \in DOMAIN chain, cur' = cur + 1,
           TxIn[chain[cur]] \subseteq updated,
           UNCHANGED <<chain, tip, rowVars, updated>>
    PROVE  TP!BlockStep \/ UNCHANGED TP!txVars
<1>1. \A u : NodeOf(u)' = NodeOf(u)
  BY NothingMoves DEF rowVars
<1>2. Behind' = Behind \union TxIn[chain[cur]]
  BY BehindGrows
<1>3. TxIn[chain[cur]] \in SUBSET Tx /\ TxIn[chain[cur]] \subseteq updated \ Behind
  <2>1. chain[cur] \in Block
    BY ChainFacts DEF ParserInv, TypeInv, TypeOK
  <2> QED BY <2>1, NotYetBehind, ConfirmationsAssumption
<1> HIDE DEF NodeOf
<1>4. UNCHANGED <<sends, recording, row, updated>>
  BY DEF rowVars
<1>5. CASE TxIn[chain[cur]] = {}
  BY <1>1, <1>2, <1>4, <1>5 DEF TP!txVars, TP!nodeVars, TP!tableVars, TP!readerVars
<1>6. CASE TxIn[chain[cur]] # {}
  <2> DEFINE txs == TxIn[chain[cur]]
  <2>1. TP!StoreBlock(txs)
    BY <1>1, <1>2, <1>3, <1>4 DEF TP!StoreBlock, TP!nodeVars, TP!tableVars
  <2>2. txs \in (SUBSET Tx) \ {{}}
    BY <1>3, <1>6
  <2> HIDE DEF txs
  <2> QED BY <2>1, <2>2 DEF TP!BlockStep
<1> QED BY <1>5, <1>6

LEMMA StayRefines ==
    ASSUME UNCHANGED <<chain, tip, cur, rowVars, updated>>
    PROVE  UNCHANGED TP!txVars
<1>1. Behind' = Behind /\ \A u : NodeOf(u)' = NodeOf(u)
  BY NothingMoves DEF Behind, rowVars
<1> HIDE DEF NodeOf
<1> QED BY <1>1 DEF rowVars, TP!txVars, TP!nodeVars, TP!tableVars, TP!readerVars

\* A restart resumes at the cursor or, when the last block was stored and the
\* process died before it knew, behind that block, all of which was handled.
LEMMA BootRefines ==
    ASSUME ReorgsCovered, ParserInv, ConfInv, Boot, UNCHANGED <<rowVars, updated>>
    PROVE  TP!BlockStep \/ UNCHANGED TP!txVars
<1> USE Numbers DEF ParserInv
<1>1. UNCHANGED <<chain, tip>> /\ cur' = Inc(ResumeFrom)
  BY DEF Boot, chainVars
<1>2. CASE NoRows
  <2>1. cur' = ConfigStart + 1 /\ cur \in {ConfigStart, ConfigStart + 1}
    BY <1>1, <1>2, ResumePoint DEF CursorInv
  <2>2. ASSUME NEW n \in DOMAIN chain, TxIn[chain[n]] # {}
        PROVE  ConfigStart < n /\ n \in Nat
    <3>1. n \in Nat /\ chain[n] \in Block /\ Height[chain[n]] = n
      BY ChainFacts DEF TypeInv, TypeOK
    <3> QED BY <2>2, <3>1, ConfirmationsAssumption
  <2>3. Behind' = {} /\ Behind = {}
    BY <1>1, <2>1, <2>2 DEF Behind
  <2>4. \A u : NodeOf(u)' = NodeOf(u)
    BY <1>1, NothingMoves DEF rowVars
  <2> HIDE DEF NodeOf
  <2> QED BY <2>3, <2>4 DEF rowVars, TP!txVars, TP!nodeVars, TP!tableVars, TP!readerVars
<1>3. CASE ~NoRows
  <2>1. MaxRow \in DOMAIN rows /\ cur' = MaxRow + 1 /\ MaxRow >= cur - 1
    BY <1>1, <1>3, ResumePoint DEF IsMaxRow
  <2> HIDE DEF MaxRow
  <2>2. MaxRow \in Nat /\ MaxRow <= cur
    BY <2>1 DEF CursorInv
  <2>3. CASE MaxRow = cur - 1
    BY <1>1, <2>1, <2>2, <2>3, StayRefines
  <2>4. CASE MaxRow = cur
    <3>1. cur \in start..cur
      BY <1>3 DEF CursorInv
    <3>2. chain[cur] \in parsed /\ IsBuried(cur)
      BY <2>1, <2>4, <3>1 DEF HandledInv, FinalInv
    <3>3. cur \in DOMAIN chain /\ TxIn[chain[cur]] \subseteq updated
      BY <3>2, ChainFacts DEF IsBuried, TypeInv, TypeOK, ConfInv, UpdatedInv
    <3> QED BY <1>1, <2>1, <2>4, <3>3, PassRefines
  <2> QED BY <2>1, <2>2, <2>3, <2>4
<1> QED BY <1>2, <1>3

LEMMA StepRefines ==
    ASSUME ReorgsCovered, ParserInv, ConfInv, ParserInv', ConfInv', [ConfNext]_confVars
    PROVE  [TP!TxNext]_TP!txVars
<1>1. ASSUME NEW t \in Tx, Submit(t)
      PROVE  [TP!TxNext]_TP!txVars
  BY <1>1, SubmitRefines DEF TP!TxNext, TP!TxStep
<1>2. ASSUME NEW t \in Tx, CreatePending(t) \/ RecordLost(t)
      PROVE  [TP!TxNext]_TP!txVars
  BY <1>2, RecordRefines DEF TP!TxNext, TP!TxStep
<1>3. CASE NewChain \/ \E t \in Tx : Drop(t)
  BY <1>3, ChainRefines DEF TP!TxNext
<1>4. ASSUME NEW t \in Tx, ActionUpdateKeylist(t)
      PROVE  [TP!TxNext]_TP!txVars
  BY <1>4, HandlerRefines DEF TP!TxNext, TP!TxStep
<1>5. CASE FetchBlock \/ HandledBlock \/ UNCHANGED confVars
  <2>1. UNCHANGED <<chain, tip, cur, rowVars, updated>>
    BY <1>5 DEF FetchBlock, GetBlock, HandledBlock, ParsingBlockData,
       confVars, vars, parserVars, chainVars
  <2> QED BY <2>1, StayRefines
<1>6. CASE OtherStep
  <2>1. UNCHANGED <<chain, tip, rowVars, updated>>
    BY <1>6 DEF OtherStep, Boot, ReadTip, CheckFork, CreateBlockInfo, DeleteBlockInfo,
       Fail, Crash, chainVars
  <2>2. CASE Boot
    BY <2>1, <2>2, BootRefines DEF TP!TxNext
  <2>3. CASE CreateBlockInfo
    <3>1. cur' = cur + 1
      BY <2>3, CursorBuried, Numbers DEF CreateBlockInfo, Inc, ParserInv
    <3>2. cur \in DOMAIN chain /\ TxIn[chain[cur]] \subseteq updated
      BY <2>3, CursorBlock DEF CreateBlockInfo, ConfInv, ConfTypeOK
    <3> QED BY <2>1, <3>1, <3>2, PassRefines DEF TP!TxNext
  <2>4. CASE CheckFork
    <3>1. cur' = cur
      BY <2>4, NoFork DEF CheckFork, ParserInv
    <3> QED BY <2>1, <3>1, StayRefines
  <2>5. CASE ReadTip \/ DeleteBlockInfo \/ Fail \/ Crash
    <3>1. cur' = cur
      BY <2>5 DEF ReadTip, DeleteBlockInfo, Fail, Crash
    <3> QED BY <2>1, <3>1, StayRefines
  <2> QED BY <1>6, <2>2, <2>3, <2>4, <2>5 DEF OtherStep
<1> QED BY <1>1, <1>2, <1>3, <1>4, <1>5, <1>6 DEF ConfNext

\* The parser and the requests implement TxPending when the confirmations cover
\* the reorganisations: a row becomes confirmed only by a handler run on a
\* buried transaction, a block is left behind only with all its transactions
\* handled, and failures, crashes and restarts add nothing to that.
THEOREM ConfirmationsRefineTxPending ==
    ASSUME ReorgsCovered
    PROVE  ConfSpec => ImplementsTxPending
<1>1. ConfInit => TP!TxInit
  BY InitRefines
<1>2. /\ ParserInv /\ ConfInv /\ (ParserInv /\ ConfInv)' /\ [ConfNext]_confVars
      => [TP!TxNext]_TP!txVars
  BY ReorgsCovered, StepRefines
<1> QED BY <1>1, <1>2, ConfInvariant, PTL DEF ConfSpec, ImplementsTxPending, TP!TxSafeSpec

=============================================================================
