----------------------------- MODULE BlockParser -----------------------------
(***************************************************************************)
(* The block parser (block_parser/block_parser.go): one goroutine that     *)
(* reads the node's tip, decides how to advance, fetches the block at its  *)
(* cursor, checks it against the hash it stored for the parent, handles    *)
(* its transactions and records it in t_block_parser_info.  The chain      *)
(* moves between any two of its calls; every call may fail, a failed write *)
(* may have been applied, and the process may die and be started again.    *)
(*                                                                         *)
(* An operator named Bad... is a plausible mistake in the definition after *)
(* it; none is part of the specification.  They show that the properties   *)
(* notice such mistakes.                                                   *)
(***************************************************************************)
EXTENDS CkbChain

CONSTANTS
    ConfirmNum,         \* config chain.confirm_num
    ConcurrencyNum,     \* config chain.concurrency_num
    ConfigStart,        \* config chain.current_block_number
    Keep,               \* 20 in the code: rows kept below the cursor
    WordMod             \* 2^64 in the code: block numbers are uint64

ASSUME ParserAssumption ==
    /\ ConfirmNum \in Nat
    /\ ConcurrencyNum \in Nat
    /\ ConfigStart \in Nat
    /\ Keep \in Nat \ {0}
    /\ WordMod \in Nat
    /\ MaxHeight < WordMod
    /\ ConfigStart + 1 < WordMod
    /\ ConfirmNum < WordMod
    /\ ConcurrencyNum < WordMod
    /\ Keep < WordMod

VARIABLES
    cur,        \* b.CurrentBlockNumber
    rows,       \* t_block_parser_info: block_number -> block_hash
    latest,     \* latestBlockNumber of this turn of the loop
    mode,       \* which of the two parser modes this turn runs
    left,       \* concurrency mode: blocks left in this turn
    block,      \* the block fetched last
    pc,         \* the next call of the goroutine; "down" when not running
    parsed,     \* history: blocks parsingBlockData returned nil for
    start       \* history: the cursor at the last boot on an empty table

parserVars == <<cur, rows, latest, mode, left, block, pc, parsed, start>>
vars == <<chainVars, parserVars>>

Word == 0..(WordMod - 1)

\* uint64 subtraction, increment and decrement wrap around.
Minus(a, b) == IF a >= b THEN a - b ELSE a - b + WordMod
Inc(a) == IF a = WordMod - 1 THEN 0 ELSE a + 1
Dec(a) == Minus(a, 1)

IsMaxRow(n) == n \in DOMAIN rows /\ \A m \in DOMAIN rows : m <= n
MaxRow == CHOOSE n \in DOMAIN rows : \A m \in DOMAIN rows : m <= n

NoRows == DOMAIN rows = {}

TypeOK ==
    /\ ChainTypeOK
    /\ cur \in Word
    /\ DOMAIN rows \subseteq Word
    /\ rows \in [DOMAIN rows -> Block]
    /\ latest \in 0..MaxHeight
    /\ mode \in {"sub", "concurrency"}
    /\ left \in 0..ConcurrencyNum
    /\ block \in Block
    /\ pc \in {"down", "tip", "fetch", "check", "parse", "create", "prune"}
    /\ parsed \subseteq Block
    /\ start \in Word

ParserInit ==
    /\ cur = ConfigStart
    /\ rows = [n \in {} |-> chain[0]]
    /\ latest = 0
    /\ mode = "sub"
    /\ left = 0
    /\ block = chain[0]
    /\ pc = "down"
    /\ parsed = {}
    /\ start = ConfigStart

-----------------------------------------------------------------------------
(* One action per call of the goroutine.                                   *)

\* The lowest stored row instead of the highest (the query's DESC missing).
BadResumeFrom ==
    IF ~NoRows THEN CHOOSE n \in DOMAIN rows : \A m \in DOMAIN rows : m >= n
    ELSE IF ConfigStart = 0 THEN tip ELSE ConfigStart

\* initCurrentBlockNumber: the highest stored row, else the configured
\* height, else (configured 0) the tip read at start-up.
ResumeFrom ==
    IF ~NoRows THEN MaxRow
    ELSE IF ConfigStart = 0 THEN tip ELSE ConfigStart

\* Run, up to the start of the goroutine.  When GetTipBlockNumber or
\* FindBlockInfo fails, Run returns and the process ends: it stays down.
Boot ==
    /\ pc = "down"
    /\ cur' = Inc(ResumeFrom)
    /\ start' = IF NoRows THEN Inc(ResumeFrom) ELSE start
    /\ pc' = "tip"
    /\ UNCHANGED <<chainVars, rows, latest, mode, left, block, parsed>>

\* The margin of ConcurrencyNum blocks forgotten.
BadMayUseConcurrency(n) == ConcurrencyNum > 1 /\ cur < Minus(n, ConfirmNum)

MayUseConcurrency(n) ==
    /\ ConcurrencyNum > 1
    /\ cur < Minus(Minus(n, ConfirmNum), ConcurrencyNum)

\* "<=" for "<".
BadMayUseSub(n) == cur <= Minus(n, ConfirmNum)

MayUseSub(n) == cur < Minus(n, ConfirmNum)

\* The head of the loop: read the tip and pick the mode, or sleep.
ReadTip ==
    /\ pc = "tip"
    /\ latest' = tip
    /\ \/ /\ MayUseConcurrency(tip)
          /\ mode' = "concurrency" /\ left' = ConcurrencyNum /\ pc' = "fetch"
       \/ /\ ~MayUseConcurrency(tip) /\ MayUseSub(tip)
          /\ mode' = "sub" /\ left' = 0 /\ pc' = "fetch"
       \/ /\ ~MayUseConcurrency(tip) /\ ~MayUseSub(tip)
          /\ UNCHANGED <<mode, left, pc>>
    /\ UNCHANGED <<chainVars, cur, rows, block, parsed, start>>

\* GetBlockByNumber(cur): the hash now at that height; a height above the
\* tip is an error (Fail).  Only parserSubMode goes on to checkFork.
GetBlock ==
    /\ pc = "fetch"
    /\ cur \in DOMAIN chain
    /\ block' = chain[cur]
    /\ pc' = IF mode = "sub" THEN "check" ELSE "parse"
    /\ UNCHANGED <<chainVars, cur, rows, latest, mode, left, parsed, start>>

\* The row of the cursor itself instead of its parent's.
BadIsFork == cur \in DOMAIN rows /\ rows[cur] # block

\* checkFork's answer: a stored parent that is not the block's parent.
IsFork == Dec(cur) \in DOMAIN rows /\ rows[Dec(cur)] # Parent[block]

\* The cursor not moved back on a fork.
BadCheckFork ==
    /\ pc = "check"
    /\ pc' = IF IsFork THEN "tip" ELSE "parse"
    /\ UNCHANGED <<chainVars, cur, rows, latest, mode, left, block, parsed, start>>

CheckFork ==
    /\ pc = "check"
    /\ \/ IsFork /\ cur' = Dec(cur) /\ pc' = "tip"
       \/ ~IsFork /\ cur' = cur /\ pc' = "parse"
    /\ UNCHANGED <<chainVars, rows, latest, mode, left, block, parsed, start>>

\* parsingBlockData returns nil: every transaction of the block handled.
ParsingBlockData ==
    /\ pc = "parse"
    /\ parsed' = parsed \union {block}
    /\ pc' = "create"
    /\ UNCHANGED <<chainVars, cur, rows, latest, mode, left, block, start>>

\* The upsert of CreateBlockInfo on the unique (parser_type, block_number).
Upserted == [n \in DOMAIN rows \union {cur} |-> IF n = cur THEN block ELSE rows[n]]

\* The loop of the concurrency mode without its bound.
BadCreateBlockInfo ==
    /\ pc = "create"
    /\ rows' = Upserted
    /\ cur' = Inc(cur)
    /\ left' = left - 1
    /\ pc' = IF mode = "concurrency" THEN "fetch" ELSE "prune"
    /\ UNCHANGED <<chainVars, latest, mode, block, parsed, start>>

CreateBlockInfo ==
    /\ pc = "create"
    /\ rows' = Upserted
    /\ cur' = Inc(cur)
    /\ \/ mode = "concurrency" /\ left > 1 /\ left' = left - 1 /\ pc' = "fetch"
       \/ ~(mode = "concurrency" /\ left > 1) /\ left' = 0 /\ pc' = "prune"
    /\ UNCHANGED <<chainVars, latest, mode, block, parsed, start>>

\* "<=" for "<" in the DELETE.
BadPruned(r) == [n \in {m \in DOMAIN r : m > Minus(cur, Keep)} |-> r[n]]

\* DELETE ... WHERE block_number < cur-20, the subtraction in uint64.
Pruned(r) == [n \in {m \in DOMAIN r : m >= Minus(cur, Keep)} |-> r[n]]

DeleteBlockInfo ==
    /\ pc = "prune"
    /\ rows' = Pruned(rows)
    /\ pc' = "tip"
    /\ UNCHANGED <<chainVars, cur, latest, mode, left, block, parsed, start>>

\* A block whose handler failed is given up and the cursor moves on.
BadFail ==
    /\ pc \in {"fetch", "check", "parse", "create", "prune"}
    /\ cur' = IF pc = "parse" THEN Inc(cur) ELSE cur
    /\ pc' = "tip"
    /\ UNCHANGED <<chainVars, rows, latest, mode, left, block, parsed, start>>

\* A call of the turn returns an error: the mode returns and the loop goes
\* round.  The write that failed may have reached the table all the same.
Fail ==
    /\ pc \in {"fetch", "check", "parse", "create", "prune"}
    /\ rows' \in {rows} \union (IF pc = "create" THEN {Upserted} ELSE {})
                        \union (IF pc = "prune" THEN {Pruned(rows)} ELSE {})
    /\ pc' = "tip"
    /\ UNCHANGED <<chainVars, cur, latest, mode, left, block, parsed, start>>

\* The process dies, is told to stop, or the goroutine panics
\* (http_api.RecoverPanic ends it): only the table is left.
Crash ==
    /\ pc # "down"
    /\ pc' = "down"
    /\ UNCHANGED <<chainVars, cur, rows, latest, mode, left, block, parsed, start>>

ParserStep ==
    \/ Boot \/ ReadTip \/ GetBlock \/ CheckFork \/ ParsingBlockData
    \/ CreateBlockInfo \/ DeleteBlockInfo

ChainStep == Advance /\ UNCHANGED parserVars

Next == ParserStep \/ Fail \/ Crash \/ ChainStep

Init == ChainInit /\ ParserInit

Spec == Init /\ [][Next]_vars

\* The goroutine keeps running and a stopped process is started again; a
\* call that is retried for ever succeeds in the end.
FairSpec ==
    /\ Spec
    /\ WF_vars(Boot) /\ WF_vars(ReadTip) /\ WF_vars(DeleteBlockInfo)
    /\ SF_vars(GetBlock) /\ SF_vars(CheckFork)
    /\ SF_vars(ParsingBlockData) /\ SF_vars(CreateBlockInfo)

-----------------------------------------------------------------------------
(* Properties.                                                             *)

\* Every hash the parser has stored is the canonical one: with confirm_num + 1
\* confirmations beyond any reorganisation, the row a fork check, a restart or
\* a prune relies on (CreateBlockInfo, initCurrentBlockNumber) never goes stale,
\* whichever mode wrote it, whatever failed and however often it restarted.
RowsFinal == \A n \in DOMAIN rows : n \in DOMAIN chain /\ rows[n] = chain[n]

\* Every parsed block above the starting height was parsed after its parent:
\* a fork, a rewind, a failed call or a restart in between leaves no hole in
\* the branch whose transactions were confirmed (parsingBlockData).
ParentsParsed ==
    \A b \in parsed : Height[b] > start => Parent[b] \in parsed

\* When the parser has stored the canonical block of some height, it has
\* handled every canonical block from its starting height up to there: no
\* key-list transaction is left unconfirmed behind the cursor.
NoCanonicalBlockSkipped ==
    \A n \in DOMAIN rows :
        (n \in DOMAIN chain /\ rows[n] = chain[n])
            => \A m \in start..n : chain[m] \in parsed

\* checkFork takes "no row" for "no fork" (block.Id == 0).  Only the latest
\* rows are kept (cur-20), so a reorganisation that meets what an interrupted
\* rewind left behind can get below them: the answer is a guess then, and it is
\* right, for the block's parent has been handled.
GuessIsRight ==
    (pc = "check" /\ cur > start /\ cur - 1 \notin DOMAIN rows)
        => Parent[block] \in parsed

\* The cursor never goes back, neither in a turn of the loop nor by a crash
\* and a restart from the stored rows.
CursorMonotone == [][cur' >= cur]_vars

\* The parser hands on one branch: each block after its parent, from the
\* configured height on, never two of the same height (module BlockFeed).
Feed == INSTANCE BlockFeed WITH handled <- parsed, First <- ConfigStart + 1

FeedsOneBranch == Feed!FeedSpec

\* Once the process stays up, every canonical block with more than
\* confirm_num blocks on top of it ends up handled, whatever was rewound and
\* whatever failed on the way.  (The rewound cursor is not stored: a process
\* that kept dying in the middle of a rewind would start it over for ever.)
CatchesUp ==
    <>[](pc # "down")
        => <>[](\A n \in start..(tip - ConfirmNum - 1) : chain[n] \in parsed)

=============================================================================
