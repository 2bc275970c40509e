-------------------------- MODULE BlockParserProofs --------------------------
(***************************************************************************)
(* Proofs about BlockParser, for every chain and every configuration that  *)
(* its assumptions admit.                                                  *)
(***************************************************************************)
EXTENDS BlockParser, NatInduction, TLAPS

-----------------------------------------------------------------------------
(* Type correctness.  A restart resumes from the highest row, so the rows  *)
(* must have one: that is the strengthening.                               *)

RowsHaveMax == NoRows \/ \E n \in DOMAIN rows : IsMaxRow(n)

TypeInv == TypeOK /\ RowsHaveMax

\* A chain the node may report, spelled out: what ChainTypeOK says of chain.
LEMMA ChainFacts ==
    ASSUME ChainTypeOK
    PROVE  /\ tip \in Nat /\ tip <= MaxHeight
           /\ DOMAIN chain = 0..tip
           /\ \A n \in 0..tip : chain[n] \in Block /\ Height[chain[n]] = n
           /\ \A n \in 1..tip : Parent[chain[n]] = chain[n - 1]
<1>1. PICK t \in 0..MaxHeight :
        /\ DOMAIN chain = 0..t
        /\ \A n \in 0..t : chain[n] \in Block /\ Height[chain[n]] = n
        /\ \A n \in 1..t : Parent[chain[n]] = chain[n - 1]
  BY ChainAssumption DEF ChainTypeOK
<1>2. t = tip
  <2>1. 0..t = 0..tip /\ t \in Nat /\ tip \in Nat
    BY <1>1, ChainAssumption DEF ChainTypeOK
  <2>2. t \in 0..tip /\ tip \in 0..t
    BY <2>1
  <2> QED BY <2>1, <2>2
<1> QED BY <1>1, <1>2, ChainAssumption DEF ChainTypeOK

\* The uint64 arithmetic stays within a word.
LEMMA WordClosed ==
    ASSUME NEW a \in Word, NEW b \in Word
    PROVE  Minus(a, b) \in Word /\ Inc(a) \in Word /\ Dec(a) \in Word
BY ParserAssumption DEF Minus, Inc, Dec, Word

\* MaxRow is the row IsMaxRow describes.
LEMMA MaxRowIsMax ==
    ASSUME RowsHaveMax, ~NoRows
    PROVE  IsMaxRow(MaxRow)
BY DEF RowsHaveMax, IsMaxRow, MaxRow

\* The upsert of one row keeps the rows typed and bounded by a highest one.
LEMMA UpsertKeepsMax ==
    ASSUME TypeInv, rows' = Upserted
    PROVE  /\ rows' \in [DOMAIN rows' -> Block]
           /\ DOMAIN rows' \subseteq Word
           /\ RowsHaveMax'
<1>1. DOMAIN rows' = DOMAIN rows \union {cur}
  BY DEF Upserted
<1>2. rows' \in [DOMAIN rows' -> Block] /\ DOMAIN rows' \subseteq Word
  BY <1>1 DEF Upserted, TypeInv, TypeOK
<1>3. CASE NoRows
  <2>1. DOMAIN rows' = {cur}
    BY <1>1, <1>3 DEF NoRows
  <2>2. cur <= cur
    BY ParserAssumption DEF TypeInv, TypeOK, Word
  <2>3. cur \in DOMAIN rows' /\ \A m \in DOMAIN rows' : m <= cur
    BY <2>1, <2>2
  <2> QED BY <1>2, <2>3 DEF RowsHaveMax, IsMaxRow
<1>4. CASE ~NoRows
  <2>1. PICK n \in DOMAIN rows : IsMaxRow(n)
    BY <1>4 DEF TypeInv, RowsHaveMax
  <2>2. n \in Int /\ cur \in Int /\ \A m \in DOMAIN rows : m \in Int
    BY ParserAssumption DEF TypeInv, TypeOK, Word
  <2> DEFINE top == IF cur >= n THEN cur ELSE n
  <2>3. top \in DOMAIN rows'
    BY <1>1
  <2>4. \A m \in DOMAIN rows' : m <= top
    BY <1>1, <2>1, <2>2 DEF IsMaxRow
  <2> HIDE DEF top
  <2> QED BY <1>2, <2>3, <2>4 DEF RowsHaveMax, IsMaxRow
<1> QED BY <1>2, <1>3, <1>4

\* Deleting the rows below a bound keeps them typed and with a highest one.
LEMMA PruneKeepsMax ==
    ASSUME TypeInv, rows' = Pruned(rows)
    PROVE  /\ rows' \in [DOMAIN rows' -> Block]
           /\ DOMAIN rows' \subseteq Word
           /\ RowsHaveMax'
<1> DEFINE low == Minus(cur, Keep)
<1>1. DOMAIN rows' = {m \in DOMAIN rows : m >= low}
  BY DEF Pruned
<1>2. rows' \in [DOMAIN rows' -> Block] /\ DOMAIN rows' \subseteq Word
  BY <1>1 DEF Pruned, TypeInv, TypeOK
<1>3. low \in Int /\ \A m \in DOMAIN rows : m \in Int
  <2>1. cur \in Word /\ Keep \in Word
    BY ParserAssumption DEF TypeInv, TypeOK, Word
  <2> QED BY <2>1, WordClosed, ParserAssumption DEF TypeInv, TypeOK, Word
<1> HIDE DEF low
<1>4. CASE NoRows
  BY <1>1, <1>2, <1>4 DEF NoRows, RowsHaveMax
<1>5. CASE ~NoRows
  <2>1. PICK n \in DOMAIN rows : IsMaxRow(n)
    BY <1>5 DEF TypeInv, RowsHaveMax
  <2>2. CASE n >= low
    <3>1. n \in DOMAIN rows'
      BY <1>1, <2>2
    <3>2. \A m \in DOMAIN rows' : m <= n
      BY <1>1, <2>1 DEF IsMaxRow
    <3> QED BY <1>2, <3>1, <3>2 DEF RowsHaveMax, IsMaxRow
  <2>3. CASE ~(n >= low)
    <3>1. DOMAIN rows' = {}
      BY <1>1, <1>3, <2>1, <2>3 DEF IsMaxRow
    <3> QED BY <1>2, <3>1 DEF RowsHaveMax, NoRows
  <2> QED BY <2>2, <2>3
<1> QED BY <1>2, <1>4, <1>5

LEMMA TypeInit ==
    ASSUME Init
    PROVE  TypeInv
<1> USE DEF Init, ChainInit, ParserInit
<1>1. ChainTypeOK
  <2>1. tip \in 0..MaxHeight
    BY ChainAssumption
  <2> QED BY <2>1 DEF ChainTypeOK
<1>2. chain[0] \in Block
  <2>1. 0 \in 0..tip
    BY <1>1, ChainFacts
  <2> QED BY <1>1, <2>1, ChainFacts
<1>3. DOMAIN rows = {} /\ rows \in [DOMAIN rows -> Block]
  OBVIOUS
<1>4. ConfigStart \in Word /\ 0 \in 0..MaxHeight /\ 0 \in 0..ConcurrencyNum
  BY ChainAssumption, ParserAssumption DEF Word
<1> QED BY <1>1, <1>2, <1>3, <1>4 DEF TypeInv, TypeOK, RowsHaveMax, NoRows

LEMMA TypeStep ==
    ASSUME TypeInv, [Next]_vars
    PROVE  TypeInv'
<1> USE DEF TypeInv
<1>1. CASE Boot
  <2>1. ResumeFrom \in Word
    <3>1. CASE ~NoRows
      BY <3>1, MaxRowIsMax DEF ResumeFrom, IsMaxRow, TypeOK
    <3>2. CASE NoRows
      <4>1. tip \in Word /\ ConfigStart \in Word
        BY ParserAssumption, ChainAssumption DEF TypeOK, ChainTypeOK, Word
      <4> QED BY <3>2, <4>1 DEF ResumeFrom
    <3> QED BY <3>1, <3>2
  <2>2. Inc(ResumeFrom) \in Word
    BY <2>1, WordClosed
  <2>3. TypeOK'
    BY <1>1, <2>2 DEF Boot, TypeOK, ChainTypeOK, chainVars
  <2> QED BY <1>1, <2>3 DEF Boot, RowsHaveMax, NoRows, IsMaxRow
<1>2. CASE ReadTip
  <2>1. ConcurrencyNum \in 0..ConcurrencyNum /\ 0 \in 0..ConcurrencyNum
    BY ParserAssumption
  <2>2. TypeOK'
    BY <1>2, <2>1 DEF ReadTip, TypeOK, ChainTypeOK, chainVars
  <2> QED BY <1>2, <2>2 DEF ReadTip, RowsHaveMax, NoRows, IsMaxRow
<1>3. CASE GetBlock
  <2>1. chain[cur] \in Block
    BY <1>3, ChainFacts DEF GetBlock, TypeOK
  <2>2. TypeOK'
    BY <1>3, <2>1 DEF GetBlock, TypeOK, ChainTypeOK, chainVars
  <2> QED BY <1>3, <2>2 DEF GetBlock, RowsHaveMax, NoRows, IsMaxRow
<1>4. CASE CheckFork
  <2>1. Dec(cur) \in Word
    BY WordClosed DEF TypeOK
  <2>2. TypeOK'
    BY <1>4, <2>1 DEF CheckFork, TypeOK, ChainTypeOK, chainVars
  <2> QED BY <1>4, <2>2 DEF CheckFork, RowsHaveMax, NoRows, IsMaxRow
<1>5. CASE ParsingBlockData
  <2>1. TypeOK'
    BY <1>5 DEF ParsingBlockData, TypeOK, ChainTypeOK, chainVars
  <2> QED BY <1>5, <2>1 DEF ParsingBlockData, RowsHaveMax, NoRows, IsMaxRow
<1>6. CASE CreateBlockInfo
  <2>1. /\ rows' \in [DOMAIN rows' -> Block]
        /\ DOMAIN rows' \subseteq Word
        /\ RowsHaveMax'
    BY <1>6, UpsertKeepsMax DEF CreateBlockInfo
  <2>2. Inc(cur) \in Word
    BY WordClosed DEF TypeOK
  <2>3. left' \in 0..ConcurrencyNum
    BY <1>6, ParserAssumption DEF CreateBlockInfo, TypeOK
  <2>4. TypeOK'
    BY <1>6, <2>1, <2>2, <2>3 DEF CreateBlockInfo, TypeOK, ChainTypeOK, chainVars
  <2> QED BY <2>1, <2>4
<1>7. CASE DeleteBlockInfo
  <2>1. /\ rows' \in [DOMAIN rows' -> Block]
        /\ DOMAIN rows' \subseteq Word
        /\ RowsHaveMax'
    BY <1>7, PruneKeepsMax DEF DeleteBlockInfo
  <2>2. TypeOK'
    BY <1>7, <2>1 DEF DeleteBlockInfo, TypeOK, ChainTypeOK, chainVars
  <2> QED BY <2>1, <2>2
<1>8. CASE Fail
  <2>1. rows' = rows \/ rows' = Upserted \/ rows' = Pruned(rows)
    BY <1>8 DEF Fail
  <2>2. /\ rows' \in [DOMAIN rows' -> Block]
        /\ DOMAIN rows' \subseteq Word
        /\ RowsHaveMax'
    <3>1. CASE rows' = rows
      BY <3>1 DEF TypeOK, RowsHaveMax, NoRows, IsMaxRow
    <3>2. CASE rows' = Upserted
      BY <3>2, UpsertKeepsMax
    <3>3. CASE rows' = Pruned(rows)
      BY <3>3, PruneKeepsMax
    <3> QED BY <2>1, <3>1, <3>2, <3>3
  <2>3. TypeOK'
    BY <1>8, <2>2 DEF Fail, TypeOK, ChainTypeOK, chainVars
  <2> QED BY <2>2, <2>3
<1>9. CASE Crash
  <2>1. TypeOK'
    BY <1>9 DEF Crash, TypeOK, ChainTypeOK, chainVars
  <2> QED BY <1>9, <2>1 DEF Crash, RowsHaveMax, NoRows, IsMaxRow
<1>10. CASE ChainStep
  <2>1. ChainTypeOK'
    BY <1>10, ChainAssumption DEF ChainStep, Advance, TypeOK, ChainTypeOK
  <2>2. TypeOK'
    BY <1>10, <2>1 DEF ChainStep, TypeOK, parserVars
  <2> QED BY <1>10, <2>2 DEF ChainStep, parserVars, RowsHaveMax, NoRows, IsMaxRow
<1>11. CASE UNCHANGED vars
  <2>1. TypeOK'
    BY <1>11 DEF vars, parserVars, chainVars, TypeOK, ChainTypeOK
  <2> QED BY <1>11, <2>1 DEF vars, parserVars, RowsHaveMax, NoRows, IsMaxRow
<1> QED
  BY <1>1, <1>2, <1>3, <1>4, <1>5, <1>6, <1>7, <1>8, <1>9, <1>10, <1>11
  DEF Next, ParserStep

\* In every state of every execution the variables have their types: the
\* cursor stays a uint64 through the code's wrapping arithmetic, and a stored
\* row is always one the next restart can resume from.
THEOREM TypeCorrect == Spec => []TypeOK
<1>1. Init => TypeInv
  BY TypeInit
<1>2. TypeInv /\ [Next]_vars => TypeInv'
  BY TypeStep
<1>3. TypeInv => TypeOK
  BY DEF TypeInv
<1> QED BY <1>1, <1>2, <1>3, PTL DEF Spec

-----------------------------------------------------------------------------
(* The parser when its confirmations cover the chain's reorganisations.    *)

\* A block is parsed under at least confirm_num + 1 others, which is as much
\* as one reorganisation replaces; the chain is long enough, and the parser
\* started high enough, for the code's uint64 subtractions not to wrap.
ReorgsCovered ==
    /\ MaxReorg <= ConfirmNum + 1
    /\ ConfirmNum + ConcurrencyNum <= MinTip
    /\ Keep <= ConfigStart

\* No reorganisation replaces the block at height n any more.
IsBuried(n) == n + ConfirmNum < tip

\* What is stored, and what is being parsed, is buried and canonical.
FinalInv ==
    /\ MinTip <= tip
    /\ latest <= tip
    /\ \A n \in DOMAIN rows : IsBuried(n) /\ rows[n] = chain[n]
    /\ pc \in {"fetch", "check", "parse", "create"} =>
          /\ cur + ConfirmNum < latest
          /\ mode = "concurrency" =>
                left >= 1 /\ cur + left + ConfirmNum < latest
    /\ pc \in {"check", "parse", "create"} => block = chain[cur]

\* The table always determines the cursor: the highest row is the cursor's or
\* the one below it, and an empty table stands for the configured height.
CursorInv ==
    /\ ConfigStart <= cur
    /\ NoRows => /\ cur \in {ConfigStart, ConfigStart + 1}
                 /\ pc # "down" => cur = ConfigStart + 1 /\ start = ConfigStart + 1
    /\ ~NoRows => /\ ConfigStart < cur
                  /\ start = ConfigStart + 1
                  /\ cur \in DOMAIN rows \/ cur - 1 \in DOMAIN rows
    /\ \A n \in DOMAIN rows : n <= cur

\* What has been handled is the canonical chain from the start to the rows.
HandledInv ==
    /\ \A n \in DOMAIN rows : \A m \in start..n : chain[m] \in parsed
    /\ pc = "create" => block \in parsed
    /\ \A b \in parsed :
          /\ ConfigStart < Height[b] /\ Height[b] <= cur
          /\ IsBuried(Height[b])
          /\ b = chain[Height[b]]

ParserInv == TypeInv /\ FinalInv /\ CursorInv /\ HandledInv

\* The facts about a chain step that keep buried blocks in place.
LEMMA BuriedStays ==
    ASSUME ReorgsCovered, TypeInv, ChainStep,
           NEW n \in Nat, IsBuried(n)
    PROVE  IsBuried(n)' /\ n \in 0..tip /\ chain'[n] = chain[n]
<1>1. tip \in Nat /\ MaxReorg \in Nat /\ ConfirmNum \in Nat /\ MaxHeight \in Nat
  BY ChainAssumption, ParserAssumption DEF TypeInv, TypeOK, ChainTypeOK
<1>2. n \in 0..(tip - MaxReorg)
  BY <1>1 DEF ReorgsCovered, IsBuried
<1>3. chain'[n] = chain[n] /\ tip' > tip /\ tip' \in Nat
  BY <1>1, <1>2 DEF ChainStep, Advance
<1> QED BY <1>1, <1>2, <1>3 DEF IsBuried

\* Without wrap-around the two mode tests say what they look like.
LEMMA ModeTests ==
    ASSUME ReorgsCovered, TypeInv, MinTip <= tip
    PROVE  /\ MayUseSub(tip) => cur + ConfirmNum < tip
           /\ MayUseConcurrency(tip) =>
                  ConcurrencyNum > 1 /\ cur + ConcurrencyNum + ConfirmNum < tip
<1>1. /\ tip \in Nat /\ ConfirmNum \in Nat /\ ConcurrencyNum \in Nat
      /\ cur \in Nat /\ MinTip \in Nat
  BY ChainAssumption, ParserAssumption DEF TypeInv, TypeOK, ChainTypeOK, Word
<1>2. /\ Minus(tip, ConfirmNum) = tip - ConfirmNum
      /\ Minus(tip - ConfirmNum, ConcurrencyNum) = tip - ConfirmNum - ConcurrencyNum
  BY <1>1 DEF ReorgsCovered, Minus
<1> QED BY <1>1, <1>2 DEF MayUseSub, MayUseConcurrency

\* The integers the proofs below compute with.
LEMMA Numbers ==
    ASSUME TypeInv
    PROVE  /\ tip \in Nat /\ MinTip \in Nat /\ MaxHeight \in Nat /\ MaxReorg \in Nat
           /\ ConfirmNum \in Nat /\ ConcurrencyNum \in Nat /\ ConfigStart \in Nat
           /\ Keep \in Nat /\ Keep > 0 /\ WordMod \in Nat
           /\ cur \in Nat /\ latest \in Nat /\ left \in Nat /\ start \in Nat
           /\ tip < WordMod /\ cur < WordMod
           /\ ConfigStart + 1 < WordMod
           /\ \A n \in DOMAIN rows : n \in Nat
BY ChainAssumption, ParserAssumption DEF TypeInv, TypeOK, ChainTypeOK, Word

\* While a turn is under way, the cursor is buried, so it is on the chain.
LEMMA CursorBuried ==
    ASSUME TypeInv, FinalInv, pc \in {"fetch", "check", "parse", "create"}
    PROVE  IsBuried(cur) /\ cur \in 0..tip /\ cur + 1 < WordMod
BY Numbers DEF FinalInv, IsBuried

\* checkFork never answers "fork" here.
LEMMA NoFork ==
    ASSUME ReorgsCovered, TypeInv, FinalInv, CursorInv, pc = "check"
    PROVE  ~IsFork
<1>1. cur >= 1 /\ cur \in 1..tip
  BY CursorBuried, Numbers DEF CursorInv, ReorgsCovered
<1>2. Dec(cur) = cur - 1
  BY <1>1, Numbers DEF Dec, Minus
<1>3. Parent[block] = chain[cur - 1]
  BY <1>1, ChainFacts DEF FinalInv, TypeInv, TypeOK
<1>4. cur - 1 \in DOMAIN rows => rows[cur - 1] = chain[cur - 1]
  BY DEF FinalInv
<1> QED BY <1>2, <1>3, <1>4 DEF IsFork

LEMMA FinalInit ==
    ASSUME Init
    PROVE  FinalInv
BY ChainAssumption DEF Init, ChainInit, ParserInit, FinalInv

LEMMA FinalStep ==
    ASSUME ReorgsCovered, TypeInv, FinalInv, CursorInv, [Next]_vars
    PROVE  FinalInv'
<1> USE Numbers
<1>1. CASE Boot
  BY <1>1 DEF Boot, FinalInv, IsBuried, chainVars
<1>2. CASE ReadTip
  <2>1. UNCHANGED <<tip, chain, rows, cur, block>> /\ latest' = tip
    BY <1>2 DEF ReadTip, chainVars
  <2>2. pc' \in {"tip", "fetch"}
    BY <1>2 DEF ReadTip
  <2>3. pc' = "fetch" =>
          /\ cur + ConfirmNum < tip
          /\ mode' = "concurrency" =>
                left' >= 1 /\ cur + left' + ConfirmNum < tip
    BY <1>2, ModeTests DEF ReadTip, FinalInv
  <2> QED BY <2>1, <2>2, <2>3 DEF FinalInv, IsBuried
<1>3. CASE GetBlock
  BY <1>3 DEF GetBlock, FinalInv, IsBuried, chainVars
<1>4. CASE CheckFork
  BY <1>4, NoFork DEF CheckFork, FinalInv, IsBuried, chainVars
<1>5. CASE ParsingBlockData
  BY <1>5 DEF ParsingBlockData, FinalInv, IsBuried, chainVars
<1>6. CASE CreateBlockInfo
  <2>1. UNCHANGED <<tip, chain, latest, mode, block>> /\ rows' = Upserted
    BY <1>6 DEF CreateBlockInfo, chainVars
  <2>2. IsBuried(cur) /\ block = chain[cur]
    BY <1>6, CursorBuried DEF CreateBlockInfo, FinalInv
  <2>3. \A n \in DOMAIN rows' : IsBuried(n)' /\ rows'[n] = chain'[n]
    BY <2>1, <2>2 DEF Upserted, FinalInv, IsBuried
  <2>4. cur' = cur + 1
    BY <1>6, CursorBuried DEF CreateBlockInfo, Inc
  <2>5. pc' \in {"fetch", "prune"}
    BY <1>6 DEF CreateBlockInfo
  <2>6. pc' = "fetch" => mode = "concurrency" /\ left > 1 /\ left' = left - 1
    BY <1>6 DEF CreateBlockInfo
  <2>7. pc' = "fetch" =>
          /\ cur' + ConfirmNum < latest
          /\ left' >= 1 /\ cur' + left' + ConfirmNum < latest
    BY <1>6, <2>4, <2>6 DEF CreateBlockInfo, FinalInv
  <2> QED BY <2>1, <2>3, <2>5, <2>7 DEF FinalInv
<1>7. CASE DeleteBlockInfo
  BY <1>7 DEF DeleteBlockInfo, Pruned, FinalInv, IsBuried, chainVars
<1>8. CASE Fail
  <2>1. UNCHANGED <<tip, chain, latest>> /\ pc' = "tip"
    BY <1>8 DEF Fail, chainVars
  <2>2. \/ rows' = rows
        \/ pc = "create" /\ rows' = Upserted
        \/ rows' = Pruned(rows)
    BY <1>8 DEF Fail
  <2>3. \A n \in DOMAIN rows' : IsBuried(n) /\ rows'[n] = chain[n]
    <3>1. CASE pc = "create" /\ rows' = Upserted
      <4>1. IsBuried(cur) /\ block = chain[cur]
        BY <3>1, CursorBuried DEF FinalInv
      <4> QED BY <3>1, <4>1 DEF Upserted, FinalInv
    <3>2. CASE rows' = rows \/ rows' = Pruned(rows)
      BY <3>2 DEF Pruned, FinalInv
    <3> QED BY <2>2, <3>1, <3>2
  <2> QED BY <2>1, <2>3 DEF FinalInv, IsBuried
<1>9. CASE Crash
  BY <1>9 DEF Crash, FinalInv, IsBuried, chainVars
<1>10. CASE ChainStep
  <2>1. tip' > tip /\ tip' \in Nat
    BY <1>10 DEF ChainStep, Advance
  <2>2. UNCHANGED <<cur, rows, latest, mode, left, block, pc>>
    BY <1>10 DEF ChainStep, parserVars
  <2>3. \A n \in DOMAIN rows : IsBuried(n)' /\ rows[n] = chain'[n]
    BY <1>10, BuriedStays DEF FinalInv
  <2>4. pc \in {"check", "parse", "create"} => block = chain'[cur]
    BY <1>10, BuriedStays, CursorBuried DEF FinalInv
  <2> QED BY <2>1, <2>2, <2>3, <2>4 DEF FinalInv
<1>11. CASE UNCHANGED vars
  BY <1>11 DEF vars, parserVars, chainVars, FinalInv, IsBuried
<1> QED
  BY <1>1, <1>2, <1>3, <1>4, <1>5, <1>6, <1>7, <1>8, <1>9, <1>10, <1>11
  DEF Next, ParserStep

LEMMA CursorInit ==
    ASSUME Init
    PROVE  CursorInv
BY ParserAssumption DEF Init, ChainInit, ParserInit, CursorInv, NoRows

\* A prune leaves the highest row: it is at most Keep below the cursor.
LEMMA PruneLeavesTop ==
    ASSUME ReorgsCovered, TypeInv, CursorInv, rows' = Pruned(rows), cur' = cur
    PROVE  /\ DOMAIN rows' \subseteq DOMAIN rows
           /\ NoRows' <=> NoRows
           /\ cur \in DOMAIN rows => cur \in DOMAIN rows'
           /\ cur - 1 \in DOMAIN rows => cur - 1 \in DOMAIN rows'
<1>1. Minus(cur, Keep) = cur - Keep
  BY Numbers DEF CursorInv, ReorgsCovered, Minus
<1>2. DOMAIN rows' = {m \in DOMAIN rows : m >= cur - Keep}
  BY <1>1 DEF Pruned
<1>3. /\ cur \in DOMAIN rows => cur \in DOMAIN rows'
      /\ cur - 1 \in DOMAIN rows => cur - 1 \in DOMAIN rows'
  BY <1>2, Numbers
<1>4. NoRows' <=> NoRows
  BY <1>2, <1>3 DEF NoRows, CursorInv
<1> QED BY <1>2, <1>3, <1>4

\* An upsert at the cursor makes the cursor's row the highest.
LEMMA UpsertTops ==
    ASSUME rows' = Upserted
    PROVE  DOMAIN rows' = DOMAIN rows \union {cur} /\ ~NoRows'
BY DEF Upserted, NoRows

\* Where a restart resumes, and that it is never below the cursor left behind.
LEMMA ResumePoint ==
    ASSUME ReorgsCovered, TypeInv, FinalInv, CursorInv
    PROVE  /\ NoRows => Inc(ResumeFrom) = ConfigStart + 1
           /\ ~NoRows => /\ IsMaxRow(MaxRow)
                         /\ Inc(ResumeFrom) = MaxRow + 1
                         /\ MaxRow >= cur - 1
<1> USE Numbers
<1>1. CASE NoRows
  <2>1. ConfigStart > 0
    BY DEF ReorgsCovered
  <2> QED BY <1>1, <2>1 DEF ResumeFrom, Inc
<1>2. CASE ~NoRows
  <2>1. IsMaxRow(MaxRow) /\ ResumeFrom = MaxRow
    BY <1>2, MaxRowIsMax DEF ResumeFrom, TypeInv
  <2> HIDE DEF MaxRow
  <2>2. MaxRow \in Nat /\ MaxRow >= cur - 1
    BY <1>2, <2>1 DEF IsMaxRow, CursorInv
  <2>3. MaxRow < tip
    BY <2>1, <2>2 DEF IsMaxRow, FinalInv, IsBuried
  <2> QED BY <1>2, <2>1, <2>2, <2>3 DEF Inc
<1> QED BY <1>1, <1>2

LEMMA CursorStep ==
    ASSUME ReorgsCovered, TypeInv, FinalInv, CursorInv, [Next]_vars
    PROVE  CursorInv'
<1> USE Numbers
<1>1. CASE Boot
  <2>1. UNCHANGED rows /\ cur' = Inc(ResumeFrom)
    BY <1>1 DEF Boot
  <2>2. start' = IF NoRows THEN Inc(ResumeFrom) ELSE start
    BY <1>1 DEF Boot
  <2>3. CASE NoRows
    BY <2>1, <2>2, <2>3, ResumePoint DEF CursorInv, NoRows
  <2>4. CASE ~NoRows
    <3>1. IsMaxRow(MaxRow) /\ cur' = MaxRow + 1 /\ MaxRow >= cur - 1
      BY <2>1, <2>4, ResumePoint
    <3> HIDE DEF MaxRow
    <3>2. MaxRow \in Nat /\ MaxRow = cur' - 1 /\ MaxRow \in DOMAIN rows
      BY <3>1 DEF IsMaxRow
    <3>3. \A n \in DOMAIN rows : n <= cur'
      BY <3>1, <3>2 DEF IsMaxRow
    <3>4. ConfigStart < cur' /\ start' = ConfigStart + 1
      BY <2>2, <2>4, <3>1, <3>2 DEF CursorInv
    <3>5. ~NoRows' /\ cur' - 1 \in DOMAIN rows'
      BY <2>1, <2>4, <3>2 DEF NoRows
    <3> QED BY <2>1, <3>1, <3>2, <3>3, <3>4, <3>5 DEF CursorInv
  <2> QED BY <2>3, <2>4
<1>2. CASE ReadTip
  BY <1>2 DEF ReadTip, CursorInv, NoRows
<1>3. CASE GetBlock
  BY <1>3 DEF GetBlock, CursorInv, NoRows
<1>4. CASE CheckFork
  BY <1>4, NoFork DEF CheckFork, CursorInv, NoRows
<1>5. CASE ParsingBlockData
  BY <1>5 DEF ParsingBlockData, CursorInv, NoRows
<1>6. CASE CreateBlockInfo
  <2>1. rows' = Upserted /\ UNCHANGED start /\ cur' = cur + 1
    BY <1>6, CursorBuried DEF CreateBlockInfo, Inc
  <2>2. ConfigStart < cur' /\ start = ConfigStart + 1
    BY <1>6, <2>1 DEF CreateBlockInfo, CursorInv
  <2>3. cur' - 1 \in DOMAIN rows' /\ \A n \in DOMAIN rows' : n <= cur'
    BY <2>1, UpsertTops DEF CursorInv
  <2> QED BY <2>1, <2>2, <2>3, UpsertTops DEF CursorInv
<1>7. CASE DeleteBlockInfo
  <2>1. rows' = Pruned(rows) /\ UNCHANGED <<cur, start>> /\ pc = "prune"
    BY <1>7 DEF DeleteBlockInfo
  <2> QED BY <2>1, PruneLeavesTop DEF CursorInv
<1>8. CASE Fail
  <2>1. UNCHANGED <<cur, start>> /\ pc # "down"
    BY <1>8 DEF Fail
  <2>2. \/ rows' = rows
        \/ pc = "create" /\ rows' = Upserted
        \/ rows' = Pruned(rows)
    BY <1>8 DEF Fail
  <2>3. CASE rows' = rows
    BY <2>1, <2>3 DEF CursorInv, NoRows
  <2>4. CASE rows' = Pruned(rows)
    BY <2>1, <2>4, PruneLeavesTop DEF CursorInv
  <2>5. CASE pc = "create" /\ rows' = Upserted
    <3>1. ConfigStart < cur /\ start = ConfigStart + 1
      BY <2>5 DEF CursorInv
    <3> QED BY <2>1, <2>5, <3>1, UpsertTops DEF CursorInv
  <2> QED BY <2>2, <2>3, <2>4, <2>5
<1>9. CASE Crash
  BY <1>9 DEF Crash, CursorInv, NoRows
<1>10. CASE ChainStep
  BY <1>10 DEF ChainStep, parserVars, CursorInv, NoRows
<1>11. CASE UNCHANGED vars
  BY <1>11 DEF vars, parserVars, CursorInv, NoRows
<1> QED
  BY <1>1, <1>2, <1>3, <1>4, <1>5, <1>6, <1>7, <1>8, <1>9, <1>10, <1>11
  DEF Next, ParserStep

LEMMA HandledInit ==
    ASSUME Init
    PROVE  HandledInv
BY DEF Init, ChainInit, ParserInit, HandledInv

\* Everything below the cursor of a turn has been handled.
LEMMA HandledBelow ==
    ASSUME TypeInv, CursorInv, HandledInv, pc # "down"
    PROVE  /\ start = ConfigStart + 1 /\ start <= cur
           /\ \A m \in start..(cur - 1) : chain[m] \in parsed
<1> USE Numbers
<1>1. CASE NoRows
  BY <1>1 DEF CursorInv
<1>2. CASE ~NoRows
  <2>1. start = ConfigStart + 1 /\ start <= cur
    BY <1>2 DEF CursorInv
  <2>2. PICK n \in DOMAIN rows : n = cur \/ n = cur - 1
    BY <1>2 DEF CursorInv
  <2>3. \A m \in start..(cur - 1) : m \in start..n
    BY <2>2
  <2> QED BY <2>1, <2>2, <2>3 DEF HandledInv
<1> QED BY <1>1, <1>2

\* A handled block has a height.
LEMMA ParserHeights ==
    ASSUME TypeInv
    PROVE  \A b \in parsed : Height[b] \in Nat
BY ChainAssumption DEF TypeInv, TypeOK

\* The row CreateBlockInfo adds closes the handled chain up to the cursor.
LEMMA UpsertHandled ==
    ASSUME TypeInv, FinalInv, CursorInv, HandledInv, pc = "create", rows' = Upserted
    PROVE  \A n \in DOMAIN rows' : \A m \in start..n : chain[m] \in parsed
<1> USE Numbers
<1>1. SUFFICES ASSUME NEW n \in DOMAIN rows', NEW m \in start..n
               PROVE  chain[m] \in parsed
  OBVIOUS
<1>2. CASE n \in DOMAIN rows
  BY <1>2 DEF HandledInv
<1>3. CASE n = cur /\ m = cur
  BY <1>3 DEF FinalInv, HandledInv
<1>4. CASE n = cur /\ m # cur
  BY <1>4, HandledBelow
<1> QED BY <1>2, <1>3, <1>4, UpsertTops

LEMMA HandledStep ==
    ASSUME ReorgsCovered, TypeInv, FinalInv, CursorInv, HandledInv, [Next]_vars
    PROVE  HandledInv'
<1> USE Numbers
<1>1. CASE Boot
  <2>1. UNCHANGED <<tip, chain, rows, parsed>> /\ pc' = "tip"
    BY <1>1 DEF Boot, chainVars
  <2>2. \A n \in DOMAIN rows' : \A m \in start'..n : chain'[m] \in parsed'
    BY <1>1, <2>1 DEF Boot, HandledInv, NoRows
  <2>3. cur' >= cur
    <3>1. cur' = Inc(ResumeFrom)
      BY <1>1 DEF Boot
    <3>2. CASE NoRows
      BY <3>1, <3>2, ResumePoint DEF CursorInv
    <3>3. CASE ~NoRows
      <4>1. MaxRow \in DOMAIN rows /\ cur' = MaxRow + 1 /\ MaxRow >= cur - 1
        BY <3>1, <3>3, ResumePoint DEF IsMaxRow
      <4> HIDE DEF MaxRow
      <4> QED BY <4>1
    <3> QED BY <3>2, <3>3
  <2>4. cur' \in Nat
    BY <1>1, TypeStep, Numbers DEF TypeInv, TypeOK, Next, ParserStep, Word
  <2> QED BY <2>1, <2>2, <2>3, <2>4, ParserHeights DEF HandledInv, IsBuried
<1>2. CASE ReadTip
  BY <1>2 DEF ReadTip, HandledInv, IsBuried, chainVars
<1>3. CASE GetBlock
  BY <1>3 DEF GetBlock, HandledInv, IsBuried, chainVars
<1>4. CASE CheckFork
  BY <1>4, NoFork DEF CheckFork, HandledInv, IsBuried, chainVars
<1>5. CASE ParsingBlockData
  <2>1. UNCHANGED <<tip, chain, rows, cur, start, block>>
    BY <1>5 DEF ParsingBlockData, chainVars
  <2>2. parsed' = parsed \union {block} /\ pc' = "create"
    BY <1>5 DEF ParsingBlockData
  <2>3. block = chain[cur] /\ IsBuried(cur) /\ Height[block] = cur
    BY <1>5, CursorBuried, ChainFacts DEF ParsingBlockData, FinalInv, TypeInv, TypeOK
  <2>4. ConfigStart < cur
    BY <1>5, HandledBelow DEF ParsingBlockData
  <2> QED BY <2>1, <2>2, <2>3, <2>4 DEF HandledInv, IsBuried
<1>6. CASE CreateBlockInfo
  <2>1. UNCHANGED <<tip, chain, parsed, start>> /\ rows' = Upserted
    BY <1>6 DEF CreateBlockInfo, chainVars
  <2>2. cur' = cur + 1 /\ pc' # "create"
    BY <1>6, CursorBuried DEF CreateBlockInfo, Inc
  <2>3. \A n \in DOMAIN rows' : \A m \in start..n : chain[m] \in parsed
    BY <1>6, <2>1, UpsertHandled DEF CreateBlockInfo
  <2> QED BY <2>1, <2>2, <2>3, ParserHeights DEF HandledInv, IsBuried
<1>7. CASE DeleteBlockInfo
  BY <1>7 DEF DeleteBlockInfo, Pruned, HandledInv, IsBuried, chainVars
<1>8. CASE Fail
  <2>1. UNCHANGED <<tip, chain, parsed, start, cur>> /\ pc' = "tip"
    BY <1>8 DEF Fail, chainVars
  <2>2. \/ rows' = rows
        \/ pc = "create" /\ rows' = Upserted
        \/ rows' = Pruned(rows)
    BY <1>8 DEF Fail
  <2>3. \A n \in DOMAIN rows' : \A m \in start..n : chain[m] \in parsed
    BY <2>2, UpsertHandled DEF Pruned, HandledInv
  <2> QED BY <2>1, <2>3 DEF HandledInv, IsBuried
<1>9. CASE Crash
  BY <1>9 DEF Crash, HandledInv, IsBuried, chainVars
<1>10. CASE ChainStep
  <2>1. UNCHANGED <<cur, rows, block, pc, parsed, start>>
    BY <1>10 DEF ChainStep, parserVars
  <2>2. \A n \in DOMAIN rows : \A m \in start..n : chain'[m] \in parsed
    <3>1. SUFFICES ASSUME NEW n \in DOMAIN rows, NEW m \in start..n
                   PROVE  chain'[m] \in parsed
      OBVIOUS
    <3>2. m \in Nat /\ IsBuried(m)
      BY DEF FinalInv, IsBuried
    <3> QED BY <1>10, <3>2, BuriedStays DEF HandledInv
  <2>3. \A b \in parsed : IsBuried(Height[b])' /\ b = chain'[Height[b]]
    BY <1>10, BuriedStays, ParserHeights DEF HandledInv
  <2> QED BY <2>1, <2>2, <2>3 DEF HandledInv
<1>11. CASE UNCHANGED vars
  BY <1>11 DEF vars, parserVars, chainVars, HandledInv, IsBuried
<1> QED
  BY <1>1, <1>2, <1>3, <1>4, <1>5, <1>6, <1>7, <1>8, <1>9, <1>10, <1>11
  DEF Next, ParserStep

\* The inductive invariant: types, buried canonical rows, a table that fixes
\* the cursor, and a handled chain without holes.
THEOREM ParserInvariant ==
    ASSUME ReorgsCovered
    PROVE  Spec => []ParserInv
<1>1. Init => ParserInv
  BY TypeInit, FinalInit, CursorInit, HandledInit DEF ParserInv
<1>2. ParserInv /\ [Next]_vars => ParserInv'
  BY ReorgsCovered, TypeStep, FinalStep, CursorStep, HandledStep DEF ParserInv
<1> QED BY <1>1, <1>2, PTL DEF Spec

\* With confirm_num + 1 confirmations covering every reorganisation, no row of
\* t_block_parser_info is ever stale, in either mode, after failures and
\* restarts, on every chain.
THEOREM RowsAreFinal ==
    ASSUME ReorgsCovered
    PROVE  Spec => []RowsFinal
<1>1. ParserInv => RowsFinal
  <2>1. SUFFICES ASSUME ParserInv, NEW n \in DOMAIN rows
                 PROVE  n \in DOMAIN chain /\ rows[n] = chain[n]
    BY DEF RowsFinal
  <2>2. n \in 0..tip
    BY <2>1, Numbers DEF ParserInv, FinalInv, IsBuried
  <2> QED BY <2>1, <2>2 DEF ParserInv, FinalInv, TypeInv, TypeOK, ChainTypeOK
<1> QED BY <1>1, ParserInvariant, PTL

\* Under the same condition no canonical block is left unhandled behind a
\* stored row: the tables miss no key-list transaction.
THEOREM NothingSkipped ==
    ASSUME ReorgsCovered
    PROVE  Spec => []NoCanonicalBlockSkipped
<1>1. ParserInv => NoCanonicalBlockSkipped
  BY DEF ParserInv, HandledInv, NoCanonicalBlockSkipped
<1> QED BY <1>1, ParserInvariant, PTL

\* Under the same condition the cursor never goes back, not even when the
\* process dies and resumes from the stored rows.
THEOREM CursorNeverBack ==
    ASSUME ReorgsCovered
    PROVE  Spec => CursorMonotone
<1>1. ParserInv /\ [Next]_vars => [cur' >= cur]_vars
  <2>1. SUFFICES ASSUME ParserInv, [Next]_vars, ~UNCHANGED vars
                 PROVE  cur' >= cur
    OBVIOUS
  <2>2. TypeInv /\ FinalInv /\ CursorInv /\ cur \in Nat
    BY <2>1, Numbers DEF ParserInv
  <2>3. CASE Boot
    <3>1. cur' = Inc(ResumeFrom)
      BY <2>3 DEF Boot
    <3>2. CASE NoRows
      BY <2>2, <3>1, <3>2, ResumePoint, Numbers DEF CursorInv
    <3>3. CASE ~NoRows
      <4>1. MaxRow \in DOMAIN rows /\ cur' = MaxRow + 1 /\ MaxRow >= cur - 1
        BY <2>2, <3>1, <3>3, ResumePoint DEF IsMaxRow
      <4> HIDE DEF MaxRow
      <4> QED BY <2>2, <4>1, Numbers
    <3> QED BY <3>2, <3>3
  <2>4. CASE CheckFork
    BY <2>2, <2>4, NoFork DEF CheckFork
  <2>5. CASE CreateBlockInfo
    BY <2>2, <2>5, CursorBuried, Numbers DEF CreateBlockInfo, Inc
  <2>6. CASE \/ ReadTip \/ GetBlock \/ ParsingBlockData \/ DeleteBlockInfo
             \/ Fail \/ Crash \/ ChainStep
    BY <2>2, <2>6 DEF ReadTip, GetBlock, ParsingBlockData, DeleteBlockInfo,
                     Fail, Crash, ChainStep, parserVars
  <2> QED BY <2>1, <2>3, <2>4, <2>5, <2>6 DEF Next, ParserStep
<1> QED BY <1>1, ParserInvariant, PTL DEF Spec, CursorMonotone

\* Under the same condition the parser implements BlockFeed: it hands on one
\* branch, each block once its parent is handled, none skipped.
THEOREM ImplementsBlockFeed ==
    ASSUME ReorgsCovered
    PROVE  Spec => FeedsOneBranch
<1>1. Init => Feed!FeedInit
  BY DEF Init, ParserInit, Feed!FeedInit
<1>2. ParserInv /\ [Next]_vars => [Feed!FeedNext]_parsed
  <2>1. SUFFICES ASSUME ParserInv, [Next]_vars, parsed' # parsed
                 PROVE  Feed!FeedNext
    OBVIOUS
  <2>2. ParsingBlockData
    BY <2>1 DEF Next, ParserStep, Boot, ReadTip, GetBlock, CheckFork,
                CreateBlockInfo, DeleteBlockInfo, Fail, Crash, ChainStep,
                vars, parserVars
  <2>3. parsed' = parsed \union {block} /\ block \notin parsed /\ pc = "parse"
    BY <2>1, <2>2 DEF ParsingBlockData
  <2>4. TypeInv /\ FinalInv /\ CursorInv /\ HandledInv
    BY <2>1 DEF ParserInv
  <2>5. block \in Block /\ block = chain[cur] /\ Height[block] = cur
    BY <2>3, <2>4, CursorBuried, ChainFacts DEF FinalInv, TypeInv, TypeOK
  <2>6. \A c \in parsed : Height[c] < cur
    BY <2>3, <2>4, <2>5, ParserHeights, Numbers DEF HandledInv
  <2>7. start = ConfigStart + 1 /\ start <= cur
    BY <2>3, <2>4, HandledBelow
  <2>8. CASE cur = ConfigStart + 1
    <3>1. parsed = {}
      BY <2>4, <2>6, <2>8, ParserHeights, Numbers DEF HandledInv
    <3> QED BY <2>3, <2>5, <2>8, <3>1 DEF Feed!FeedNext, Feed!Handle
  <2>9. CASE cur # ConfigStart + 1
    <3>1. cur - 1 \in start..(cur - 1) /\ cur \in 1..tip
      BY <2>3, <2>4, <2>7, <2>9, CursorBuried, Numbers
    <3>2. Parent[block] = chain[cur - 1]
      BY <2>4, <2>5, <3>1, ChainFacts DEF TypeInv, TypeOK
    <3>3. Parent[block] \in parsed
      BY <2>3, <2>4, <3>1, <3>2, HandledBelow
    <3> QED BY <2>3, <2>5, <2>6, <3>3 DEF Feed!FeedNext, Feed!Handle
  <2> QED BY <2>8, <2>9
<1> QED BY <1>1, <1>2, ParserInvariant, PTL DEF Spec, FeedsOneBranch, Feed!FeedSpec

-----------------------------------------------------------------------------
(* The sub mode alone, whatever the chain replaces: rows go stale and the  *)
(* parser rewinds.                                                         *)

\* No turn runs in concurrency mode; a reorganisation reaches at most one
\* block below the rows kept; the chain is long enough, and the parser started
\* high enough, for the code's uint64 arithmetic not to wrap.
RewindCovered ==
    /\ ConcurrencyNum <= 1
    /\ MaxReorg <= Keep + ConfirmNum + 1
    /\ ConfirmNum <= MinTip
    /\ MaxHeight + 1 < WordMod
    /\ IF ConfigStart = 0 THEN Keep <= MinTip + 2 ELSE Keep <= ConfigStart + 2

\* Where the parser started, and that an empty table means that nothing above
\* that height has been handled.
StartInv ==
    /\ MinTip <= tip
    /\ IF ConfigStart = 0 THEN start <= tip + 1 ELSE start <= ConfigStart + 1
    /\ pc # "down" \/ ~NoRows => start >= 1 /\ Keep <= start + 1
    /\ NoRows => \A b \in parsed : Height[b] <= start

\* Where the cursor may be: from the start to one above the rows.
PlaceInv ==
    /\ pc # "down" => start <= cur
    /\ pc # "down" /\ NoRows => cur = start
    /\ pc # "down" /\ ~NoRows => \E n \in DOMAIN rows : cur <= n + 1
    /\ pc = "prune" => ~NoRows /\ start < cur
    /\ pc = "fetch" => IsBuried(cur)
    /\ mode = "sub"

\* A row, stale or not, is of a handled block, and the part of today's chain
\* that no reorganisation has replaced since it was stored has been handled.
StoredInv ==
    \A n \in DOMAIN rows :
        /\ start <= n /\ IsBuried(n)
        /\ rows[n] \in parsed /\ Height[rows[n]] = n
        /\ \A m \in start..n : m + MaxReorg <= n + ConfirmNum + 1 => chain[m] \in parsed

\* The latest Keep rows are there.
KeptInv ==
    \A h \in DOMAIN rows : IsMaxRow(h) =>
        \A m \in start..h : h < m + Keep => m \in DOMAIN rows

\* The block at hand was read from chain c when its height was t.
ReadFrom(c, t) ==
    /\ DOMAIN c = 0..t /\ t <= tip
    /\ cur + ConfirmNum < t /\ block = c[cur]
    /\ \A n \in DOMAIN rows : n + ConfirmNum < t
    /\ \A n \in 0..(t - MaxReorg) : c[n] = chain[n]

SeenInv ==
    /\ pc \in {"check", "parse", "create"} =>
          \E c \in Chains : \E t \in 0..MaxHeight : ReadFrom(c, t)
    /\ pc \in {"parse", "create"} /\ start < cur => Parent[block] \in parsed
    /\ pc = "create" => block \in parsed

RewindInv ==
    TypeInv /\ StartInv /\ PlaceInv /\ StoredInv /\ KeptInv /\ SeenInv /\ ParentsParsed

\* What the assumption on the chains says of one of them.
LEMMA ChainIsLinked ==
    ASSUME NEW c \in Chains, NEW t \in Nat, DOMAIN c = 0..t
    PROVE  /\ \A n \in 0..t : c[n] \in Block /\ Height[c[n]] = n
           /\ \A n \in 1..t : Parent[c[n]] = c[n - 1]
<1>1. PICK u \in 0..MaxHeight :
        /\ DOMAIN c = 0..u
        /\ \A n \in 0..u : c[n] \in Block /\ Height[c[n]] = n
        /\ \A n \in 1..u : Parent[c[n]] = c[n - 1]
  BY ChainAssumption
<1>2. u = t
  <2>1. u \in Nat /\ 0..u = 0..t
    BY <1>1, ChainAssumption
  <2>2. u \in 0..t /\ t \in 0..u
    BY <2>1
  <2> QED BY <2>1, <2>2
<1> QED BY <1>1, <1>2

\* With a block, its ancestors down to the start have been handled.
LEMMA AncestorsParsed ==
    ASSUME TypeInv, ParentsParsed,
           NEW c \in Chains, NEW t \in Nat, DOMAIN c = 0..t,
           NEW n \in 0..t, c[n] \in parsed
    PROVE  \A m \in start..n : c[m] \in parsed
<1> DEFINE Down == {k \in Nat : start <= n - k => c[n - k] \in parsed}
<1>1. start \in Nat /\ n \in Nat
  BY Numbers
<1>2. 0 \in Down
  <2>1. n - 0 = n
    BY <1>1
  <2> QED BY <2>1
<1>3. \A k \in Nat : k \in Down => k + 1 \in Down
  <2>1. SUFFICES ASSUME NEW k \in Nat, k \in Down, start <= n - (k + 1)
                 PROVE  c[n - (k + 1)] \in parsed
    OBVIOUS
  <2>2. n - k \in 1..t /\ start < n - k /\ n - (k + 1) = (n - k) - 1
    BY <1>1, <2>1
  <2>3. c[n - k] \in parsed
    BY <1>1, <2>1, <2>2
  <2>4. Height[c[n - k]] = n - k /\ Parent[c[n - k]] = c[(n - k) - 1]
    BY <2>2, ChainIsLinked
  <2> QED BY <2>2, <2>3, <2>4 DEF ParentsParsed
<1>4. \A k \in Nat : k \in Down
  <2> HIDE DEF Down
  <2> QED BY <1>2, <1>3, NatsFrom
<1>5. SUFFICES ASSUME NEW m \in start..n
               PROVE  c[m] \in parsed
  OBVIOUS
<1>6. n - m \in Nat /\ n - (n - m) = m /\ start <= m
  BY <1>1
<1> QED BY <1>4, <1>6

\* The mode tests under RewindCovered.
LEMMA SubModeOnly ==
    ASSUME RewindCovered, TypeInv, MinTip <= tip
    PROVE  /\ ~MayUseConcurrency(tip)
           /\ MayUseSub(tip) => IsBuried(cur)
<1>1. ConfirmNum <= tip /\ ConcurrencyNum <= 1
  BY Numbers DEF RewindCovered
<1>2. Minus(tip, ConfirmNum) = tip - ConfirmNum
  BY <1>1 DEF Minus
<1> QED BY <1>1, <1>2, Numbers DEF MayUseSub, MayUseConcurrency, IsBuried

\* A turn's block is on the chain it was read from, with its parent.
LEMMA BlockReadFrom ==
    ASSUME TypeInv, PlaceInv, StartInv, pc # "down",
           NEW c \in Chains, NEW t \in 0..MaxHeight, ReadFrom(c, t)
    PROVE  /\ cur \in 1..t /\ t \in Nat /\ DOMAIN c = 0..t
           /\ Height[block] = cur /\ Parent[block] = c[cur - 1]
           /\ cur + 1 <= MaxHeight
<1>1. t \in Nat /\ t <= MaxHeight
  BY Numbers
<1>2. 1 <= cur /\ cur + ConfirmNum < t /\ DOMAIN c = 0..t /\ block = c[cur]
  BY Numbers DEF PlaceInv, StartInv, ReadFrom
<1>3. cur \in 0..t /\ cur \in 1..t /\ cur + 1 <= MaxHeight
  BY <1>1, <1>2, Numbers
<1>4. Height[c[cur]] = cur /\ Parent[c[cur]] = c[cur - 1]
  BY <1>1, <1>2, <1>3, ChainIsLinked
<1> QED BY <1>1, <1>2, <1>3, <1>4

\* When checkFork finds no row, the parent was handled before the rows below
\* the latest Keep were deleted, and no reorganisation reaches it.
LEMMA ParentHandled ==
    ASSUME RewindCovered, TypeInv, StartInv, PlaceInv, StoredInv, KeptInv, SeenInv,
           pc = "check", start < cur, cur - 1 \notin DOMAIN rows
    PROVE  Parent[block] \in parsed
<1> USE Numbers
<1>1. PICK c \in Chains, t \in 0..MaxHeight : ReadFrom(c, t)
  BY DEF SeenInv
<1>2. cur \in 1..t /\ Parent[block] = c[cur - 1]
  BY <1>1, BlockReadFrom
<1>3. ~NoRows
  BY DEF PlaceInv
<1>4. PICK h \in DOMAIN rows : IsMaxRow(h)
  BY <1>3 DEF TypeInv, RowsHaveMax
<1>5. cur <= h + 1
  BY <1>3, <1>4 DEF PlaceInv, IsMaxRow
<1>6. cur - 1 \in start..h
  BY <1>5
<1>7. (cur - 1) + Keep <= h
  BY <1>4, <1>6 DEF KeptInv
<1>8. (cur - 1) + MaxReorg <= h + ConfirmNum + 1
  BY <1>7 DEF RewindCovered
<1>9. chain[cur - 1] \in parsed
  BY <1>6, <1>8 DEF StoredInv
<1>10. h + ConfirmNum + 1 <= t
  BY <1>1, <1>4 DEF ReadFrom
<1>11. cur - 1 \in 0..(t - MaxReorg)
  BY <1>2, <1>8, <1>10
<1>12. c[cur - 1] = chain[cur - 1]
  BY <1>1, <1>11 DEF ReadFrom
<1> QED BY <1>2, <1>9, <1>12

\* Where a restart resumes.
LEMMA RestartPoint ==
    ASSUME RewindCovered, TypeInv, StartInv, StoredInv
    PROVE  /\ NoRows => /\ Inc(ResumeFrom) = 1 + (IF ConfigStart = 0 THEN tip ELSE ConfigStart)
                        /\ start <= Inc(ResumeFrom)
           /\ ~NoRows => IsMaxRow(MaxRow) /\ Inc(ResumeFrom) = MaxRow + 1
<1> USE Numbers
<1>1. CASE NoRows
  <2>1. ResumeFrom = (IF ConfigStart = 0 THEN tip ELSE ConfigStart)
    BY <1>1 DEF ResumeFrom
  <2>2. tip + 1 < WordMod
    BY DEF RewindCovered, TypeInv, TypeOK, ChainTypeOK
  <2> QED BY <1>1, <2>1, <2>2 DEF Inc, StartInv
<1>2. CASE ~NoRows
  <2>1. IsMaxRow(MaxRow) /\ ResumeFrom = MaxRow
    BY <1>2, MaxRowIsMax DEF ResumeFrom, TypeInv
  <2> HIDE DEF MaxRow
  <2>2. MaxRow \in Nat /\ MaxRow < tip
    BY <2>1 DEF IsMaxRow, StoredInv, IsBuried
  <2> QED BY <1>2, <2>1, <2>2 DEF Inc
<1> QED BY <1>1, <1>2

\* The DELETE leaves the rows a rewind needs, the highest among them.
LEMMA PruneKeepsLatest ==
    ASSUME RewindCovered, TypeInv, StartInv, PlaceInv, pc = "prune",
           rows' = Pruned(rows)
    PROVE  /\ DOMAIN rows' = {m \in DOMAIN rows : m >= cur - Keep}
           /\ \A n \in DOMAIN rows' : rows'[n] = rows[n]
           /\ \E h \in DOMAIN rows' : IsMaxRow(h) /\ cur <= h + 1
           /\ \A h \in DOMAIN rows' : IsMaxRow(h)' => IsMaxRow(h) /\ cur <= h + 1
<1> USE Numbers
<1>1. Minus(cur, Keep) = cur - Keep
  BY DEF Minus, StartInv, PlaceInv
<1>2. DOMAIN rows' = {m \in DOMAIN rows : m >= cur - Keep}
      /\ \A n \in DOMAIN rows' : rows'[n] = rows[n]
  BY <1>1 DEF Pruned
<1>3. PICK h \in DOMAIN rows : IsMaxRow(h)
  BY DEF PlaceInv, TypeInv, RowsHaveMax
<1>4. cur <= h + 1
  BY <1>3 DEF PlaceInv, IsMaxRow
<1>5. h \in DOMAIN rows'
  BY <1>2, <1>4
<1>6. ASSUME NEW k \in DOMAIN rows', IsMaxRow(k)'
      PROVE  k = h
  <2>1. h <= k /\ k \in DOMAIN rows
    BY <1>2, <1>5, <1>6 DEF IsMaxRow
  <2> QED BY <1>3, <2>1 DEF IsMaxRow
<1> QED BY <1>2, <1>3, <1>4, <1>5, <1>6

LEMMA RewindInit ==
    ASSUME Init
    PROVE  StartInv /\ PlaceInv /\ StoredInv /\ KeptInv /\ SeenInv /\ ParentsParsed
BY ChainAssumption, ParserAssumption
DEF Init, ChainInit, ParserInit, StartInv, PlaceInv, StoredInv, KeptInv, SeenInv,
    ParentsParsed, NoRows

\* Which steps move the start, what was handled, the chain and the rows.
LEMMA RewindFrame ==
    ASSUME [Next]_vars
    PROVE  /\ Boot \/ UNCHANGED start
           /\ ParsingBlockData \/ UNCHANGED parsed
           /\ ChainStep \/ UNCHANGED <<chain, tip>>
           /\ \/ UNCHANGED rows
              \/ pc = "create" /\ rows' = Upserted /\ (CreateBlockInfo \/ Fail)
              \/ pc = "prune" /\ rows' = Pruned(rows) /\ (DeleteBlockInfo \/ Fail)
BY DEF Next, ParserStep, Boot, ReadTip, GetBlock, CheckFork, ParsingBlockData,
       CreateBlockInfo, DeleteBlockInfo, Fail, Crash, ChainStep, Advance,
       vars, chainVars, parserVars

LEMMA StartStep ==
    ASSUME RewindCovered, TypeInv, StartInv, PlaceInv, StoredInv, SeenInv, [Next]_vars
    PROVE  StartInv'
<1> USE Numbers, ParserHeights
<1>1. tip <= tip' /\ tip' \in Nat
  BY RewindFrame DEF ChainStep, Advance
<1>2. CASE Boot
  <2>1. UNCHANGED <<tip, rows, parsed>> /\ start' = IF NoRows THEN Inc(ResumeFrom) ELSE start
    BY <1>2 DEF Boot, chainVars
  <2>2. NoRows' <=> NoRows
    BY <2>1 DEF NoRows
  <2>3. CASE NoRows
    <3>1. /\ start' = 1 + (IF ConfigStart = 0 THEN tip ELSE ConfigStart)
          /\ start <= start'
      BY <2>1, <2>3, RestartPoint
    <3> QED BY <2>1, <2>2, <2>3, <3>1 DEF StartInv, RewindCovered
  <2>4. CASE ~NoRows
    BY <2>1, <2>2, <2>4 DEF StartInv
  <2> QED BY <2>3, <2>4
<1>3. CASE ~Boot
  <2>1. UNCHANGED start
    BY <1>3, RewindFrame
  <2>2. pc' # "down" => pc # "down"
    BY <1>3 DEF Next, ParserStep, ReadTip, GetBlock, CheckFork, ParsingBlockData,
            CreateBlockInfo, DeleteBlockInfo, Fail, Crash, ChainStep, vars, parserVars
  <2>3. ~NoRows' => ~NoRows \/ pc # "down"
    BY RewindFrame DEF NoRows
  <2>4. NoRows' => NoRows
    <3>1. CASE UNCHANGED rows
      BY <3>1 DEF NoRows
    <3>2. CASE rows' = Upserted
      BY <3>2, UpsertTops
    <3>3. CASE pc = "prune" /\ rows' = Pruned(rows)
      BY <3>3, PruneKeepsLatest DEF NoRows
    <3> QED BY <3>1, <3>2, <3>3, RewindFrame
  <2>5. NoRows' => \A b \in parsed' : Height[b] <= start
    <3>1. CASE ParsingBlockData
      <4>1. pc = "parse" /\ parsed' = parsed \union {block}
        BY <3>1 DEF ParsingBlockData
      <4>2. PICK c \in Chains, t \in 0..MaxHeight : ReadFrom(c, t)
        BY <4>1 DEF SeenInv
      <4>3. Height[block] = cur
        BY <4>1, <4>2, BlockReadFrom
      <4>4. NoRows => cur = start
        BY <4>1 DEF PlaceInv
      <4> QED BY <2>4, <4>1, <4>3, <4>4 DEF StartInv
    <3>2. CASE UNCHANGED parsed
      BY <2>4, <3>2 DEF StartInv
    <3> QED BY <3>1, <3>2, RewindFrame
  <2> QED BY <1>1, <2>1, <2>2, <2>3, <2>5 DEF StartInv
<1> QED BY <1>2, <1>3

LEMMA PlaceStep ==
    ASSUME RewindCovered, TypeInv, StartInv, PlaceInv, StoredInv, SeenInv, [Next]_vars
    PROVE  PlaceInv'
<1> USE Numbers
<1>1. CASE Boot
  <2>1. /\ UNCHANGED <<rows, mode>> /\ cur' = Inc(ResumeFrom) /\ pc' = "tip"
        /\ start' = IF NoRows THEN Inc(ResumeFrom) ELSE start
    BY <1>1 DEF Boot
  <2>2. NoRows' <=> NoRows
    BY <2>1 DEF NoRows
  <2>3. CASE NoRows
    <3>1. cur' \in Nat /\ start' = cur'
      BY <2>1, <2>3, RestartPoint
    <3> QED BY <2>1, <2>2, <2>3, <3>1 DEF PlaceInv
  <2>4. CASE ~NoRows
    <3>1. MaxRow \in DOMAIN rows /\ cur' = MaxRow + 1 /\ start' = start
      BY <2>1, <2>4, RestartPoint DEF IsMaxRow
    <3> HIDE DEF MaxRow
    <3>2. start <= MaxRow
      BY <3>1 DEF StoredInv
    <3>3. \E n \in DOMAIN rows' : cur' <= n + 1
      BY <2>1, <3>1
    <3> QED BY <2>1, <2>2, <2>4, <3>1, <3>2, <3>3 DEF PlaceInv
  <2> QED BY <2>3, <2>4
<1>2. CASE ReadTip
  <2>1. mode' = "sub" /\ (pc' = "fetch" => IsBuried(cur)) /\ pc' # "prune"
    BY <1>2, SubModeOnly DEF ReadTip, StartInv, PlaceInv
  <2> QED BY <1>2, <2>1 DEF ReadTip, PlaceInv, NoRows, IsBuried, chainVars
<1>3. CASE GetBlock
  BY <1>3 DEF GetBlock, PlaceInv, NoRows, IsBuried, chainVars
<1>4. CASE CheckFork
  <2>1. CASE IsFork /\ cur' = Dec(cur) /\ pc' = "tip"
    <3>1. cur >= 1
      BY <1>4 DEF CheckFork, StartInv, PlaceInv
    <3>2. cur' = cur - 1 /\ cur - 1 \in DOMAIN rows
      BY <2>1, <3>1 DEF Dec, Minus, IsFork
    <3>3. ~NoRows /\ start <= cur - 1
      BY <3>2 DEF NoRows, StoredInv
    <3>4. \E n \in DOMAIN rows : cur' <= n + 1
      BY <3>2
    <3> QED BY <1>4, <2>1, <3>2, <3>3, <3>4 DEF CheckFork, PlaceInv, NoRows
  <2>2. CASE cur' = cur /\ pc' = "parse"
    BY <1>4, <2>2 DEF CheckFork, PlaceInv, NoRows
  <2> QED BY <1>4, <2>1, <2>2 DEF CheckFork
<1>5. CASE ParsingBlockData
  BY <1>5 DEF ParsingBlockData, PlaceInv, NoRows
<1>6. CASE CreateBlockInfo
  <2>1. PICK c \in Chains, t \in 0..MaxHeight : ReadFrom(c, t)
    BY <1>6 DEF CreateBlockInfo, SeenInv
  <2>2. cur + 1 <= MaxHeight
    BY <1>6, <2>1, BlockReadFrom DEF CreateBlockInfo
  <2>3. cur' = cur + 1
    BY <1>6, <2>2 DEF CreateBlockInfo, Inc, RewindCovered
  <2>4. rows' = Upserted /\ UNCHANGED <<mode, start>> /\ pc' = "prune" /\ start <= cur
    BY <1>6 DEF CreateBlockInfo, PlaceInv
  <2>5. cur \in DOMAIN rows' /\ ~NoRows'
    BY <2>4, UpsertTops
  <2>6. \E n \in DOMAIN rows' : cur' <= n + 1
    BY <2>3, <2>5
  <2> QED BY <2>3, <2>4, <2>5, <2>6 DEF PlaceInv
<1>7. CASE DeleteBlockInfo
  <2>1. rows' = Pruned(rows) /\ UNCHANGED <<mode, start, cur>> /\ pc = "prune" /\ pc' = "tip"
    BY <1>7 DEF DeleteBlockInfo
  <2>2. \E h \in DOMAIN rows' : cur <= h + 1
    BY <2>1, PruneKeepsLatest
  <2>3. ~NoRows'
    BY <2>2 DEF NoRows
  <2> QED BY <2>1, <2>2, <2>3 DEF PlaceInv
<1>8. CASE Fail
  <2>1. UNCHANGED <<mode, start, cur>> /\ pc # "down" /\ pc' = "tip"
    BY <1>8 DEF Fail
  <2>2. \/ rows' = rows
        \/ pc = "create" /\ rows' = Upserted
        \/ pc = "prune" /\ rows' = Pruned(rows)
    BY <1>8 DEF Fail
  <2>3. CASE rows' = rows
    BY <2>1, <2>3 DEF PlaceInv, NoRows
  <2>4. CASE rows' = Upserted
    <3>1. cur \in DOMAIN rows' /\ ~NoRows'
      BY <2>4, UpsertTops
    <3>2. \E n \in DOMAIN rows' : cur <= n + 1
      BY <3>1
    <3> QED BY <2>1, <3>1, <3>2 DEF PlaceInv
  <2>5. CASE pc = "prune" /\ rows' = Pruned(rows)
    <3>1. \E h \in DOMAIN rows' : cur <= h + 1
      BY <2>5, PruneKeepsLatest
    <3>2. ~NoRows'
      BY <3>1 DEF NoRows
    <3> QED BY <2>1, <3>1, <3>2 DEF PlaceInv
  <2> QED BY <2>2, <2>3, <2>4, <2>5
<1>9. CASE Crash
  BY <1>9 DEF Crash, PlaceInv, NoRows
<1>10. CASE ChainStep
  BY <1>10 DEF ChainStep, Advance, parserVars, PlaceInv, NoRows, IsBuried
<1>11. CASE UNCHANGED vars
  BY <1>11 DEF vars, chainVars, parserVars, PlaceInv, NoRows, IsBuried
<1> QED
  BY <1>1, <1>2, <1>3, <1>4, <1>5, <1>6, <1>7, <1>8, <1>9, <1>10, <1>11
  DEF Next, ParserStep

\* The block CreateBlockInfo records was handled, and with it every ancestor;
\* up to the depth of a reorganisation they are on today's chain.
LEMMA UpsertStored ==
    ASSUME RewindCovered, TypeInv, StartInv, PlaceInv, StoredInv, SeenInv,
           ParentsParsed, pc = "create"
    PROVE  /\ start <= cur /\ IsBuried(cur)
           /\ block \in parsed /\ Height[block] = cur
           /\ \A m \in start..cur :
                 m + MaxReorg <= cur + ConfirmNum + 1 => chain[m] \in parsed
<1> USE Numbers
<1>1. PICK c \in Chains, t \in 0..MaxHeight : ReadFrom(c, t)
  BY DEF SeenInv
<1>2. cur \in 1..t /\ t \in Nat /\ DOMAIN c = 0..t /\ Height[block] = cur
  BY <1>1, BlockReadFrom
<1>3. start <= cur /\ IsBuried(cur) /\ block \in parsed
  BY <1>1 DEF PlaceInv, SeenInv, ReadFrom, IsBuried
<1>4. c[cur] \in parsed
  BY <1>1, <1>3 DEF ReadFrom
<1>5. \A m \in start..cur : c[m] \in parsed
  <2>1. cur \in 0..t
    BY <1>2
  <2> QED BY <1>2, <1>4, <2>1, AncestorsParsed
<1>6. SUFFICES ASSUME NEW m \in start..cur, m + MaxReorg <= cur + ConfirmNum + 1
               PROVE  chain[m] \in parsed
  BY <1>2, <1>3
<1>7. m \in 0..(t - MaxReorg)
  BY <1>1, <1>6 DEF ReadFrom
<1>8. c[m] = chain[m]
  BY <1>1, <1>7 DEF ReadFrom
<1> QED BY <1>5, <1>8

LEMMA StoredStep ==
    ASSUME RewindCovered, TypeInv, StartInv, PlaceInv, StoredInv, SeenInv,
           ParentsParsed, [Next]_vars
    PROVE  StoredInv'
<1> USE Numbers
<1>1. parsed \subseteq parsed' /\ tip <= tip' /\ tip' \in Nat
  BY RewindFrame DEF ParsingBlockData, ChainStep, Advance
<1>2. \A n \in Nat : IsBuried(n) => IsBuried(n)'
  BY <1>1 DEF IsBuried
<1>3. ASSUME NEW n \in DOMAIN rows
      PROVE  /\ IsBuried(n)' /\ rows[n] \in parsed'
             /\ \A m \in start..n : m + MaxReorg <= n + ConfirmNum + 1 => chain'[m] \in parsed'
  <2>1. \A m \in start..n : m + MaxReorg <= n + ConfirmNum + 1 => chain'[m] = chain[m]
    <3>1. SUFFICES ASSUME NEW m \in start..n, m + MaxReorg <= n + ConfirmNum + 1
                   PROVE  chain'[m] = chain[m]
      OBVIOUS
    <3>2. n + ConfirmNum < tip
      BY DEF StoredInv, IsBuried
    <3>3. m \in 0..(tip - MaxReorg)
      BY <3>1, <3>2
    <3> QED BY <3>3, RewindFrame DEF ChainStep, Advance
  <2> QED BY <1>1, <1>2, <1>3, <2>1 DEF StoredInv
<1>4. DOMAIN rows # {} => UNCHANGED start
  BY RewindFrame DEF Boot, NoRows
<1>5. CASE UNCHANGED rows
  <2>1. SUFFICES ASSUME NEW n \in DOMAIN rows
                 PROVE  /\ start' <= n /\ IsBuried(n)'
                        /\ rows[n] \in parsed' /\ Height[rows[n]] = n
                        /\ \A m \in start'..n :
                              m + MaxReorg <= n + ConfirmNum + 1 => chain'[m] \in parsed'
    BY <1>5 DEF StoredInv
  <2>2. UNCHANGED start
    BY <1>4
  <2> QED BY <1>3, <2>2 DEF StoredInv
<1>6. CASE pc = "create" /\ rows' = Upserted /\ (CreateBlockInfo \/ Fail)
  <2>1. UNCHANGED <<start, parsed, chain, tip>>
    BY <1>6 DEF CreateBlockInfo, Fail, chainVars
  <2>2. DOMAIN rows' = DOMAIN rows \union {cur}
    BY <1>6, UpsertTops
  <2>3. \A n \in DOMAIN rows' : rows'[n] = IF n = cur THEN block ELSE rows[n]
    BY <1>6, <2>2 DEF Upserted
  <2>4. SUFFICES ASSUME NEW n \in DOMAIN rows'
                 PROVE  /\ start <= n /\ IsBuried(n)
                        /\ rows'[n] \in parsed /\ Height[rows'[n]] = n
                        /\ \A m \in start..n :
                              m + MaxReorg <= n + ConfirmNum + 1 => chain[m] \in parsed
    BY <2>1 DEF StoredInv, IsBuried
  <2>5. CASE n = cur
    BY <1>6, <2>3, <2>5, UpsertStored
  <2>6. CASE n # cur
    BY <2>2, <2>3, <2>6 DEF StoredInv
  <2> QED BY <2>5, <2>6
<1>7. CASE pc = "prune" /\ rows' = Pruned(rows) /\ (DeleteBlockInfo \/ Fail)
  <2>1. UNCHANGED <<start, parsed, chain, tip>>
    BY <1>7 DEF DeleteBlockInfo, Fail, chainVars
  <2>2. /\ DOMAIN rows' \subseteq DOMAIN rows
        /\ \A n \in DOMAIN rows' : rows'[n] = rows[n]
    BY <1>7, PruneKeepsLatest
  <2> QED BY <2>1, <2>2 DEF StoredInv, IsBuried
<1> QED BY <1>5, <1>6, <1>7, RewindFrame

LEMMA KeptStep ==
    ASSUME RewindCovered, TypeInv, StartInv, PlaceInv, StoredInv, KeptInv, SeenInv,
           [Next]_vars
    PROVE  KeptInv'
<1> USE Numbers
<1>1. DOMAIN rows # {} => UNCHANGED start
  BY RewindFrame DEF Boot, NoRows
<1>2. CASE UNCHANGED rows
  BY <1>1, <1>2 DEF KeptInv, IsMaxRow
<1>3. CASE pc = "create" /\ rows' = Upserted /\ (CreateBlockInfo \/ Fail)
  <2>1. UNCHANGED start /\ DOMAIN rows' = DOMAIN rows \union {cur}
    BY <1>3, UpsertTops DEF CreateBlockInfo, Fail
  <2>2. SUFFICES ASSUME NEW h \in DOMAIN rows', IsMaxRow(h)',
                        NEW m \in start..h, h < m + Keep
                 PROVE  m \in DOMAIN rows'
    BY <2>1 DEF KeptInv
  <2>3. h \in Nat /\ m \in Nat /\ \A n \in DOMAIN rows' : n <= h
    BY <2>1, <2>2 DEF IsMaxRow
  <2>4. CASE h \in DOMAIN rows
    <3>1. IsMaxRow(h)
      BY <2>1, <2>3, <2>4 DEF IsMaxRow
    <3> QED BY <2>1, <2>2, <2>4, <3>1 DEF KeptInv
  <2>5. CASE h \notin DOMAIN rows
    <3>1. h = cur
      BY <2>1, <2>5
    <3>2. CASE NoRows
      BY <1>3, <2>1, <2>3, <3>1, <3>2 DEF PlaceInv
    <3>3. CASE ~NoRows
      <4>1. PICK g \in DOMAIN rows : IsMaxRow(g)
        BY <3>3 DEF TypeInv, RowsHaveMax
      <4>2. cur <= g + 1 /\ g <= cur
        BY <1>3, <2>1, <2>3, <3>1, <3>3, <4>1 DEF PlaceInv, IsMaxRow
      <4>3. cur = g + 1
        BY <2>5, <3>1, <4>2
      <4>4. m = cur \/ (m \in start..g /\ g < m + Keep)
        BY <2>2, <2>3, <3>1, <4>3
      <4> QED BY <2>1, <4>1, <4>4 DEF KeptInv
    <3> QED BY <3>2, <3>3
  <2> QED BY <2>4, <2>5
<1>4. CASE pc = "prune" /\ rows' = Pruned(rows) /\ (DeleteBlockInfo \/ Fail)
  <2>1. UNCHANGED start
    BY <1>4 DEF DeleteBlockInfo, Fail
  <2>2. SUFFICES ASSUME NEW h \in DOMAIN rows', IsMaxRow(h)',
                        NEW m \in start..h, h < m + Keep
                 PROVE  m \in DOMAIN rows'
    BY <2>1 DEF KeptInv
  <2>3. h \in DOMAIN rows /\ IsMaxRow(h) /\ cur <= h + 1
    BY <1>4, <2>2, PruneKeepsLatest
  <2>4. m \in DOMAIN rows /\ m >= cur - Keep
    BY <2>2, <2>3 DEF KeptInv
  <2> QED BY <1>4, <2>4, PruneKeepsLatest
<1> QED BY <1>2, <1>3, <1>4, RewindFrame

\* A chain step keeps the chain a block was read from as good a witness.
LEMMA ReadFromStays ==
    ASSUME TypeInv, ChainStep, NEW c \in Chains, NEW t \in 0..MaxHeight, ReadFrom(c, t)
    PROVE  ReadFrom(c, t)'
<1> USE Numbers
<1>1. UNCHANGED <<cur, rows, block>> /\ tip < tip' /\ tip' \in Nat
  BY DEF ChainStep, Advance, parserVars
<1>2. \A n \in 0..(t - MaxReorg) : chain'[n] = chain[n]
  <2>1. \A n \in 0..(t - MaxReorg) : n \in 0..(tip - MaxReorg)
    BY DEF ReadFrom
  <2> QED BY <2>1 DEF ChainStep, Advance
<1> QED BY <1>1, <1>2 DEF ReadFrom

LEMMA SeenStep ==
    ASSUME RewindCovered, TypeInv, StartInv, PlaceInv, StoredInv, KeptInv, SeenInv,
           [Next]_vars
    PROVE  SeenInv'
<1> USE Numbers
<1>1. CASE GetBlock
  <2>1. /\ UNCHANGED <<chain, tip, cur, rows>> /\ block' = chain[cur]
        /\ pc = "fetch" /\ pc' = "check"
    BY <1>1 DEF GetBlock, PlaceInv, chainVars
  <2>2. chain \in Chains /\ tip \in 0..MaxHeight /\ DOMAIN chain = 0..tip
    BY DEF TypeInv, TypeOK, ChainTypeOK
  <2>3. \E c \in Chains : \E t \in 0..MaxHeight : ReadFrom(c, t)'
    <3>1. ASSUME NEW c, NEW t, c = chain, t = tip
          PROVE  ReadFrom(c, t)'
      BY <2>1, <2>2, <3>1 DEF ReadFrom, PlaceInv, StoredInv, IsBuried
    <3> QED BY <2>2, <3>1
  <2> QED BY <2>1, <2>3 DEF SeenInv
<1>2. CASE CheckFork
  <2>1. UNCHANGED <<chain, tip, rows, block, parsed, start>> /\ pc = "check"
    BY <1>2 DEF CheckFork, chainVars
  <2>2. CASE pc' = "tip"
    BY <2>2 DEF SeenInv
  <2>3. CASE ~IsFork /\ cur' = cur /\ pc' = "parse"
    <3>1. \E c \in Chains : \E t \in 0..MaxHeight : ReadFrom(c, t)'
      BY <2>1, <2>3 DEF SeenInv, ReadFrom
    <3>2. start < cur => Parent[block] \in parsed
      <4>1. SUFFICES ASSUME start < cur
                     PROVE  Parent[block] \in parsed
        OBVIOUS
      <4>2. CASE cur - 1 \in DOMAIN rows
        <5>1. Dec(cur) = cur - 1
          BY <4>1 DEF Dec, Minus
        <5> QED BY <2>3, <4>2, <5>1 DEF IsFork, StoredInv
      <4>3. CASE cur - 1 \notin DOMAIN rows
        BY <2>1, <4>1, <4>3, ParentHandled
      <4> QED BY <4>2, <4>3
    <3> QED BY <2>1, <2>3, <3>1, <3>2 DEF SeenInv
  <2> QED BY <1>2, <2>2, <2>3 DEF CheckFork
<1>3. CASE ParsingBlockData
  <2>1. /\ UNCHANGED <<chain, tip, rows, cur, block, start>>
        /\ pc = "parse" /\ pc' = "create" /\ parsed' = parsed \union {block}
    BY <1>3 DEF ParsingBlockData, chainVars
  <2>2. \E c \in Chains : \E t \in 0..MaxHeight : ReadFrom(c, t)'
    BY <2>1 DEF SeenInv, ReadFrom
  <2> QED BY <2>1, <2>2 DEF SeenInv
<1>4. CASE ChainStep
  <2>1. UNCHANGED <<rows, cur, block, start, parsed, pc>>
    BY <1>4 DEF ChainStep, parserVars
  <2>2. CASE pc \in {"check", "parse", "create"}
    <3>1. PICK c \in Chains, t \in 0..MaxHeight : ReadFrom(c, t)
      BY <2>2 DEF SeenInv
    <3>2. ReadFrom(c, t)'
      BY <1>4, <3>1, ReadFromStays
    <3>3. \E d \in Chains : \E u \in 0..MaxHeight : ReadFrom(d, u)'
      BY <3>2
    <3> QED BY <2>1, <3>3 DEF SeenInv
  <2>3. CASE pc \notin {"check", "parse", "create"}
    BY <2>1, <2>3 DEF SeenInv
  <2> QED BY <2>2, <2>3
<1>5. CASE \/ Boot \/ ReadTip \/ CreateBlockInfo \/ DeleteBlockInfo \/ Fail \/ Crash
  <2>1. pc' \notin {"check", "parse", "create"}
    BY <1>5 DEF Boot, ReadTip, CreateBlockInfo, DeleteBlockInfo, Fail, Crash, PlaceInv
  <2> QED BY <2>1 DEF SeenInv
<1>6. CASE UNCHANGED vars
  <2>1. UNCHANGED <<chain, tip, rows, cur, block, start, parsed, pc>>
    BY <1>6 DEF vars, chainVars, parserVars
  <2> QED BY <2>1 DEF SeenInv, ReadFrom
<1> QED BY <1>1, <1>2, <1>3, <1>4, <1>5, <1>6 DEF Next, ParserStep

LEMMA ParentsStep ==
    ASSUME RewindCovered, TypeInv, StartInv, PlaceInv, StoredInv, SeenInv,
           ParentsParsed, [Next]_vars
    PROVE  ParentsParsed'
<1> USE Numbers, ParserHeights
<1>1. CASE Boot
  <2>1. UNCHANGED parsed /\ start' = IF NoRows THEN Inc(ResumeFrom) ELSE start
    BY <1>1 DEF Boot
  <2>2. CASE NoRows
    <3>1. start <= start' /\ start' \in Nat
      BY <2>1, <2>2, RestartPoint
    <3>2. \A b \in parsed : Height[b] <= start
      BY <2>2 DEF StartInv
    <3> QED BY <2>1, <3>1, <3>2 DEF ParentsParsed
  <2>3. CASE ~NoRows
    BY <2>1, <2>3 DEF ParentsParsed
  <2> QED BY <2>2, <2>3
<1>2. CASE ParsingBlockData
  <2>1. /\ UNCHANGED <<cur, block, start>>
        /\ pc = "parse" /\ parsed' = parsed \union {block}
    BY <1>2 DEF ParsingBlockData
  <2>2. PICK c \in Chains, t \in 0..MaxHeight : ReadFrom(c, t)
    BY <2>1 DEF SeenInv
  <2>3. Height[block] = cur
    BY <2>1, <2>2, BlockReadFrom
  <2>4. Height[block] > start => Parent[block] \in parsed
    BY <2>1, <2>3 DEF SeenInv
  <2> QED BY <2>1, <2>4 DEF ParentsParsed
<1>3. CASE UNCHANGED <<parsed, start>>
  BY <1>3 DEF ParentsParsed
<1> QED BY <1>1, <1>2, <1>3, RewindFrame

\* The inductive invariant of a parser whose rows may go stale: every row is of
\* a handled block, the latest Keep rows are there, the chain the block at hand
\* was read from is still a witness for its ancestors, and what was handled has
\* no hole.
THEOREM RewindInvariant ==
    ASSUME RewindCovered
    PROVE  Spec => []RewindInv
<1>1. Init => RewindInv
  BY TypeInit, RewindInit DEF RewindInv
<1>2. RewindInv /\ [Next]_vars => RewindInv'
  BY RewindCovered, TypeStep, StartStep, PlaceStep, StoredStep, KeptStep, SeenStep,
     ParentsStep DEF RewindInv
<1> QED BY <1>1, <1>2, PTL DEF Spec

\* Whatever was rewound, given up half-way by a failed call or a crash, and
\* taken up again, no block above the start is handled before its parent: the
\* branch whose transactions were confirmed has no hole.
THEOREM NoHoleOnAnyBranch ==
    ASSUME RewindCovered
    PROVE  Spec => []ParentsParsed
<1>1. RewindInv => ParentsParsed
  BY DEF RewindInv
<1> QED BY <1>1, RewindInvariant, PTL

\* checkFork's "no row, no fork" is never wrong above the start, although the
\* row it looks for may have been deleted.
THEOREM CheckForkGuessesRight ==
    ASSUME RewindCovered
    PROVE  Spec => []GuessIsRight
<1>1. RewindInv => GuessIsRight
  <2>1. SUFFICES ASSUME RewindInv, pc = "check", cur > start, cur - 1 \notin DOMAIN rows
                 PROVE  Parent[block] \in parsed
    BY DEF GuessIsRight
  <2>2. TypeInv /\ StartInv /\ PlaceInv /\ StoredInv /\ KeptInv /\ SeenInv
    BY <2>1 DEF RewindInv
  <2>3. start < cur
    BY <2>1, <2>2, Numbers
  <2> QED BY RewindCovered, <2>1, <2>2, <2>3, ParentHandled
<1> QED BY <1>1, RewindInvariant, PTL

\* A canonical row means that the whole canonical chain from the start up to it
\* has been handled, although rows beside it may be stale.
THEOREM NothingSkippedRewinding ==
    ASSUME RewindCovered
    PROVE  Spec => []NoCanonicalBlockSkipped
<1>1. RewindInv => NoCanonicalBlockSkipped
  <2>1. SUFFICES ASSUME RewindInv, NEW n \in DOMAIN rows,
                        n \in DOMAIN chain, rows[n] = chain[n]
                 PROVE  \A m \in start..n : chain[m] \in parsed
    BY DEF NoCanonicalBlockSkipped
  <2>2. TypeInv /\ StoredInv /\ ParentsParsed
    BY <2>1 DEF RewindInv
  <2>3. chain \in Chains /\ DOMAIN chain = 0..tip /\ tip \in Nat
    BY <2>2, Numbers DEF TypeInv, TypeOK, ChainTypeOK
  <2>4. n \in 0..tip /\ chain[n] \in parsed
    BY <2>1, <2>2, <2>3 DEF StoredInv
  <2> QED BY <2>2, <2>3, <2>4, AncestorsParsed
<1> QED BY <1>1, RewindInvariant, PTL

=============================================================================
