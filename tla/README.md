# The backup-device service in TLA+

Specifications of `das-multi-device`, the service that lets the owner of a
passkey-controlled .bit account add and remove backup devices. The service
watches the CKB chain, builds and sends key-list transactions, keeps their
status in a table, and runs a small WebRTC signalling server for its page.

Each module translates Go source; `PROJECT.json` maps every definition to the
lines it stands for. TLC checks small instances (`tlc -config X.cfg MCModule`),
TLAPS proves theorems about every component for all values of the constants
(`tlapm XProofs.tla`): each safety property of a passing run is also a theorem.

## 1. Inventory

| component | source | state | operations | modelled in |
|---|---|---|---|---|
| block parser | `block_parser/`, `dao/t_block_parser_info.go` | cursor `CurrentBlockNumber`; table `t_block_parser_info` | `Run` (one goroutine), `parserSubMode`, `parserConcurrencyMode`, `checkFork`, `parsingBlockData` | `BlockParser` over `CkbChain`, promise in `BlockFeed` |
| pending transactions | `dao/t_webauthn_pending_info.go`, `action_update_keylist.go` | table `t_webauthn_pending_info`: status 0, 1 or -1 | `CreatePending`, `UpdatePendingStatusToConfirm`, `UpdatePendingToRejected` | `TxPending`, with the parser and the chain in `Confirmations` |
| timer | `timer/rejected.go` | a pass over old pending rows | `checkRejected` | `TxPending` |
| key lists | `http_server/handle/authorize.go`, `transaction.go` | key-list cells on the chain, `t_cid_pk`, the cached transactions | `doAuthorize`, `doAuthorizeInfo`, `createKeyListCfgCell`, `buildUpdateAuthorizeTx`, `doTransactionSend`, `doVerifyWebauthnSign` (`ecdsa.go`) | `KeyList` over `TxPending` |
| Redis cache | `cache/` | a lock per master, cached transactions, operate limits | `LockWithRedis`, `UnLockWithRedis`, `SetSignTxCache` | `KeyList` (limits: not) |
| WebRTC signalling | `http_server/handle/webrtc_websocket.go` | `PeersMap`, `Conn2Cid`, one lock | one goroutine per connection: join, route, clean up | `Signalling` |
| old cid file | `http_server/handle/upgradeCid.go` | `conf/old_cid.json` | `CidInfo`, `QueryCid`, `AddTestCid`, `CoverCid` | `OldCidFile` |
| process | `cmd/main.go`, `http_server/http_server.go` | contexts, wait group, exit channel | start by mode, stop by signal | `Server`, started again in `Service` |
| cid info | `http_server/handle/cid_info.go` | table `t_cid_info` | `AddCidInfo`: look, then insert | `Service` |
| metrics | `prometheus/`, `api_code/monitor.go` | two collectors registered on first use | `Api`, `ErrNotify`, `DoMonitorLog` | `Metrics`, used in `Service` |
| transaction status | `transaction.go`, `tables/t_transaction_info.go` | none | `doTransactionStatus`, `FormatTxAction`, `FormatActionType` | `TxStatus` over `TxPending` |
| other address and signature handlers | `ecdsa.go`, `master_addr.go` | none | cryptography and reads | no |
| configuration, logging, routes, page | `config/`, `notify/`, `router.go`, `webrtc/` | none | I/O | no |

How they interact. The request handlers, the parser and the timer never call
one another. They meet at the node (a transaction sent by one is read in a
block by the other), in two MySQL tables, in Redis, and in the tables that
das-database, another service, writes some way behind the chain. That is where
the hard behaviour is: every one of those meetings is a read followed, later,
by a write that assumes the read still holds.

What makes each part correct:

* *Parser.* It handles every canonical block once its confirmations are there,
  leaves none out, and builds on no row that went stale; the calls in a turn may
  fail anywhere (a failed write may have been applied), the process may die
  between any two of them, and the node may reorganise between them.
* *Pending rows.* Status 1 is said only of what cannot leave the chain, a row
  that is there when the parser comes is confirmed and stays so, and in the
  end every row has the right verdict. Four parties write one row.
* *Key lists.* No edit is lost or undone though updates are built from lists
  that may have been replaced before the client signs, up to 100 hours later; where
  the signer is looked up, a device removed since gets nothing through; one
  master gets one list.
* *Signalling.* The maps never speak for a connection that is gone, two pages
  that joined at the same time know of one another, a message reaches whom
  it is addressed to, and a lost connection is forgotten although every join
  holds the lock while it writes to everybody.
* *Old cid file.* A change that was written while no other was under way, and
  answered with success, is neither lost nor unseen as long as the file can be read.
  Changes that overlap may undo one another, and a write that is cut off, or two
  at a time, may lose the file as a whole: nothing in the code stands in the way.
* *Process.* A signal ends it, between two turns of the parser.
* *Cid info.* Who is told that the notes are stored has them for good, whatever
  other requests, exits and restarts do between the look and the insert.
* *Metrics.* The collector that is observed is the one that is exported, and a
  panic in the registration leaves no other request waiting for the lock.
* *Status.* A client is told of the action it asked for, though numbers and
  names of actions are translated by two tables that do not agree.

`PROJECT.json` lists forty hazards with the lines where they bite and the
properties that would catch them, or the reason why none does.

## 2. The modules

Operators called `Bad...` are plausible mistakes in the definition that follows
them. They are not part of any specification; putting one in place of its
definition makes a property fail, which shows that the property notices it.

### CkbChain, BlockParser, BlockFeed

`CkbChain` is the node as its callers see it: `chain` from height to block
hash, `tip`, and one action, `Advance`, by which the node learns of a longer
chain that may replace up to `MaxReorg` blocks. It is external to the
repository. A hash determines parent and height.

`BlockParser` has one action for each call of the goroutine. `pc` is the call
that comes next:

| action | code (`block_parser.go`) |
|---|---|
| `Boot` | `Run` 34-46 with `initCurrentBlockNumber` 82-91 |
| `ReadTip` | 46-78: read the tip, choose the mode or sleep |
| `GetBlock` | 95-101 and 140-146 |
| `CheckFork` | 102-106, 123-135: go back one block or go on |
| `ParsingBlockData` | 164-196 returning nil; `parsed` is its history |
| `CreateBlockInfo` | the upsert, then the cursor's increment |
| `DeleteBlockInfo` | rows below `cur - Keep` go |
| `Fail` | any of these calls returns an error; a failed write may have been applied |
| `Crash` | the process ends or the goroutine panics: only the table is left |
| `ChainStep` | the node moves between any two calls |

Block numbers are `uint64` in the code; `Minus`, `Inc` and `Dec` wrap at
`WordMod`. A failing handler is `Fail` at `pc = "parse"`: some of the block's
transactions may have been handled, which `Confirmations` spells out.

`BlockFeed` is the abstract specification: blocks are handed on as one branch,
each after its parent, never two of one height. `BlockParser` implements it
with `handled <- parsed` (`FeedsOneBranch`) as long as reorganisations are
covered by the confirmations.

### TxPending

One transaction from `SendTransaction` to its verdict: `Submit`,
`CreatePending` or `RecordLost` (the insert fails or the process dies; the code
only logs it), `ApiDies` (the process dies with all of them), the node's `ChainMoves`, the parser's
`UpdatePendingStatusToConfirm` and `StoreBlock`, and the timer's pass as four
actions (`SearchMaybeRejected`, `CheckOne`, `UpdatePendingToRejected`,
`TimerGivesUp`). `ChainMoves` lets any number of transactions move at a time,
each as `LegalMove` allows, because one longer chain moves many. The parser is
what `Confirmations` shows of it: it handles a buried transaction at least once
before it leaves the block behind. `TimerStarted` says whether the timer runs;
`cmd/main.go` does not start it.

### TxStatus

What `/transaction/status` answers from those rows, by hash or by action, with
`FormatTxAction` and `FormatActionType` as functions. They are not each other's
inverse (four actions have a number but no name), which a query by an action's
number depends on. The address filter picks the newest row; which one that is
stays open.

### Confirmations

`BlockParser` with transactions in the blocks. The request and the pool are those
of `TxPending`, on the parser's chain: `NewChain` returns what it takes out to
the pool or drops it, `ActionUpdateKeylist` handles one transaction of the block
in hand, and `HandledBlock` is `ParsingBlockData` once all are done; a failure,
crash or reorganisation may come between any two. `TxPending` (`TxSafeSpec`,
without the timer) is its abstract specification:

| `TxPending` | here |
|---|---|
| `node[t]` | buried under `ConfirmNum` blocks: final; on the chain: committed; in the pool; else none or dropped |
| `handled` | `updated`: its handler has returned nil at least once |
| `passed` | in a canonical block below the cursor |
| `row`, `sends`, `recording` | the same |

Only safety is shown this way. Liveness of the composition is too large for
TLC; `parser_rewind` and `tx_timer` have the two halves of it.

### KeyList

Extends `TxPending`: the content of each transaction and the requests that
build them. `DoAuthorize` to `BuildUpdate` are the stages of one
`/webauthn/authorize` request, `DoTransactionSend` that of
`/transaction/send`. A transaction is known by its first output, the cell.
`indexed` is how far das-database has followed the chain, so a request reads
`DbOutpoint`, which may be old. `PayerFree` is the payer's money: while a
creation is in the pool, its cells are spent and the node refuses another.
`CacheExpires` ends a cached update after 100 hours, `ApiCrash` ends all requests
and leaves Redis as it is.

`doTransactionSend` looks the signer up in the list the update spends (`MaySign`) only when
the `sign_list`, which the client writes, has a webauthn entry (`transaction.go:93-101`).
Any other goes to the node unchecked: its `signer` is `NotAsked`, and whether
its signature opens the cell is decided by lock scripts outside this repository,
so the model lets the node take it. `SignersAuthorized` is therefore about the signers that were
looked up. It compares them with the edits committed before the update
(`AuthorizedAfter`), not with the list that was looked at: that the two agree although
the list was read, edited and cached long before is what could go wrong.

`AuthorizeInfo` and `VerifyWebauthnSign` are what
`/webauthn/authorize-info` shows and `/webauthn/verify` takes, the one from das-database,
the other from the live cell. `Kept` is the loop of a delete, a recursive function, and
`Authorized` the devices that the committed edits amount to, one after the other, which
`NoEditLost` compares the live list with. `SlowCreate` would let a request outlive its four-minute lock.
Capacities, witnesses and address formats are left out.

### Signalling

One goroutine per connection with its `pc`; `lock` is held from `Join` to
`Register`, while announcements (`todo`) are written to every peer. Readers
(`ListPeers`, `Route`) need the lock free, and what they found is used after it
is released. `Lose` breaks a connection at any time. The websocket library
panics when two goroutines write to one connection: `WriterPanics` where the
HTTP server catches it after the deferred clean-up has run, `ProcessPanics`
where nothing does. `Own` gives each connection's page its cid: the page keeps
it in localStorage, joins once per connection, and shares it with other tabs.

### OldCidFile

The four handlers on `conf/old_cid.json`. `ioutil.WriteFile` is two steps,
`Truncate` and `Fill`; a reader that meets the emptied file runs into
`log.Fatalf`, which is `ProcessEnds`: all requests are gone, the file stays
empty. Nothing locks the file, so any number of requests may be in any of these
steps, and the second of two writers meets what the first has put there since
it truncated: `Size` decides whether the tail of a longer list stays behind. A
write that fails after the truncation (`FillFails`) leaves the file empty as well.
`AccountNotFound` is the error of `QueryCid`'s account look-up, which comes before the file.

Four variables are history. `alone` marks a change that was written while no other
was under way; once answered, it is in `accepted`, and `since` keeps what was accepted
of its cid when a request came. `broken` marks that a write was cut off or met another.
`AcceptedStays` says that every list the file holds has what was accepted, however the
changes after it overlap, and that the file is unreadable only while one write is
under way or after `broken`. It does not say that the file survives `broken`: it does not.

### Server, Metrics, Service

`Server` is `runServer` step by step, `ExitMonitoring`'s callback (`Cancel`,
`WaitReturns`), the wait group with das-lib's goroutines and the parser in it,
the parser's turn reduced to which call is under way, requests that an exit cuts
off, and the supervisor's `Restart`, which is external.

`Metrics` is `Api()` step by step: the field read without the lock, the lock, the
new collector, `MustRegister`. A collector is named after the call that made
it. `ErrNotify()` is the same code with the parser's goroutine as its only
caller.

`Service` composes them: the process, started again when it has ended, and
requests that go through `AddCidInfo` (`Verify`, `GetCidInfo`, `CreateCidInfo`),
then `DoMonitorLog` with the steps of `Metrics`, then the answer. An insert may
fail, and may have been applied although it is reported as failed. A panic in
`MustRegister` closes the connection in place of the answer the handler had
prepared; an exit cuts off a request wherever it is; the table survives. The new start,
`RestartNow`, is the supervisor's and external. The
requests of the run are about one cid, since those of different cids meet in
`Api()` only.

## 3. Runs

| run | asks | bounds | states |
|---|---|---|---|
| `parser_final` | both modes with covered reorganisations: rows final, nothing skipped, cursor never back, `BlockFeed` implemented | 9 blocks above genesis, at most 2 competing, `MaxReorg` 2 = `ConfirmNum` + 1, batches of 2 | 40795 |
| `parser_rewind` | sub mode from the tip, with reorganisations deeper than the confirmations: `checkFork` guesses right, no hole, catches up | 10 blocks above genesis, one competing (at height 5 or 6), `MaxReorg` 4 = `Keep` + `ConfirmNum` + 1, `ConfirmNum` 0, `ConfigStart` 0 | 241328 |
| `confirmations` | parser, requests and chain implement `TxPending`; status 1 is final | 2 transactions in 6 blocks, `MaxReorg` 2 = `ConfirmNum` + 1, batches of 2 | 179936 |
| `tx_timer` | parser and timer together: the right verdict in the end; the status handler finds each row by its action | 2 transactions, up to twice, no reorganisations | 23744 |
| `tx_rejected` | violated: a dropped transaction is never reported as rejected | 2 transactions, up to twice, no timer, no reorganisations | to the violation |
| `keylist_edits` | lists well formed, no edit lost, no removed device among the signers looked up; both handlers that show a list agree | 4 transactions, 3 devices, lists of 2, one list, one authorize request at a time, `OneListAllKept` | 222572 |
| `keylist_lock` | one cell is made at a time, the lock is released, `TxPending` implemented | 2 transactions, 2 requests | 52964 |
| `keylist_twice` | violated: a second list is made while das-database lags | 4 transactions, 3 devices, 2 requests | to the violation |
| `signalling` | five properties of the maps | 3 connections, two of them of one cid | 154338 |
| `service` | orderly stop in each mode, notes stored once, metrics exported, every request ends | 2 requests of one cid, 2 goroutines of das-lib, any number of restarts | 157701 |
| `oldcid` | no accepted change lost or unseen, and what loses the file | 3 requests, each of any kind, 2 cids | 2276635 |
| `oldcid_twice` | violated: one cid covered twice | 2 requests, 2 cids | to the violation |

The MC modules give `Block`, `Parent`, `Chains` and the like their values through a
definition that only names another one (`MCBlock == Hashes`): TLC would evaluate
a longer one at every use of the constant.

Why the bounds are enough to be interesting:

* Nine blocks leave room for two batches of the concurrency mode, a crash and a
  restart above them; two competing blocks on a chain give reorganisations of
  reorganisations. `Keep` is 2 or 3 instead of 20 so that pruning happens.
  `parser_final` runs at the edge, `MaxReorg = ConfirmNum + 1`; one deeper and
  `RowsFinal` fails.
* `parser_rewind` starts at the tip (`ConfigStart` 0), so that the first row is
  the tip of the moment the process came up and restarts before the first row
  move the start. It is as small as it can be and still reach the case behind
  `GuessIsRight`: a rewind is given up by a crash and leaves the stale row of
  height 5 below rows of the branch the chain comes back to; a later
  reorganisation at 6 rewinds through that row, past the lowest row kept, and
  `checkFork` finds no row for the parent. So it is not true that rows as deep as a
  reorganisation are always there to compare with. What is true is that the block the
  missing row stood for was handled and is out of the reorganisation's reach.
  With the DELETE off by one it is not, and the property fails.
* In `confirmations` a block holds any set of the two transactions, so one block
  can hold both (a turn that stops halfway) or they lie in competing blocks (a
  transaction that is mined twice, taken out, or put back into the pool).
* Two transactions let one hold back the timer's verdict on the other, and two
  sends let a transaction come back after it was dropped.
* Four transactions are a list's making and three updates, of which two are
  built from the same list: enough for a device to be added and removed while an
  update it may sign, built in between, waits in the cache. One authorize request at
  a time suffices there, because `BuildUpdate` only needs an outpoint, any number of
  updates can be cached, and the interleaving that matters is of sends and commits;
  `keylist_lock` and `keylist_twice` interleave two requests. The constraint
  `OneListAllKept` leaves out what three updates need not meet: a second list, of
  which the properties say nothing (`Creations`), an update that expires, after which
  it can only be sent no more, and a row that is lost, on which no list depends. The
  theorems have none of these limits, and `keylist_lock` has expiries and lost rows.
* Three connections are two tabs of one page, which replace one another's entry,
  and a page for them to talk to.
* Three requests on the old cid file are two changes that overlap and a third,
  or a reader, that has what was accepted before to lose. Any of them may be of
  either cid and of any kind, and the process may die at any point.
* Two requests are enough for the two races of `service`: both look before
  either inserts, and both find the collector's field nil.

`CHECK_DEADLOCK FALSE` is set where the system may stop: transactions that have
all got their verdict, a list no one edits any more, connections that are all
gone, a process told to stop whose parser has panicked: it waits for the
parser's `Done` for ever, and `SignalEndsProcess` excepts it.

`LockReleased`, `LostIsForgotten` and the other liveness properties assume
fairness the code justifies: the parser's loop has no end and repeats what
failed, so each call is strongly fair (`FairSpec`); the chain either commits or
drops what is in the pool; Redis expires keys; a request under way runs on, in
`Service` too; a write to a dead connection ends with an error and a read from
one fails; Go's mutex lets no waiter starve (`SF` on the steps that take `lock`).
Nobody owes the system a `Fail`, a `Crash`, a signal, a message or a restart.
`CatchesUp` holds for a process that in the end stays up: the rewound cursor is
not stored, so one that kept dying in the middle of a rewind would start it over
each time. `EventualVerdict` lets the timer's passes fail for ever as a way out, and
`tx_timer` assumes that no more rows are due than one pass reads (`Limit`).
`RequestEnds` needs no strong fairness for the metrics' lock: a collector is
created once per process, so no request waits behind an endless row of others.

### What the violated runs show

* `tx_rejected`: API.md documents status -1 and `main.go` describes a timer
  server, but nothing starts `checkRejected`. A dropped transaction stays
  pending.
* `keylist_twice`: the check whether a master has a list reads das-database
  before the lock is taken, and the lock is gone with `SendTransaction`. Between
  the commit of the first cell and das-database's reading of it, another request
  makes and pays for a second list. (While the first is in the pool, the payer's
  spent cells stand in the way.)
* `oldcid_twice`: `CoverCid` reads and writes the file with no lock in between,
  so two of the same cid both succeed.

## 4. Proofs

Every theorem is about all values of the constants its modules' named
assumptions admit: any chain, any number of transactions, requests, devices,
connections, restarts, and the real 20, 100 and 10 in place of the runs' small
bounds.

| module | theorem | states | besides the named assumptions |
|---|---|---|---|
| `BlockParserProofs` | `TypeCorrect` | `TypeOK` | |
| | `RowsAreFinal` | `RowsFinal` | `ReorgsCovered` |
| | `NothingSkipped` | `NoCanonicalBlockSkipped` | `ReorgsCovered` |
| | `CursorNeverBack` | `CursorMonotone` | `ReorgsCovered` |
| | `ImplementsBlockFeed` | `FeedsOneBranch` | `ReorgsCovered` |
| | `NoHoleOnAnyBranch` | `ParentsParsed` | `RewindCovered` |
| | `CheckForkGuessesRight` | `GuessIsRight` | `RewindCovered` |
| | `NothingSkippedRewinding` | `NoCanonicalBlockSkipped` | `RewindCovered` |
| `ConfirmationsProofs` | `ConfTypeCorrect` | `ConfTypeOK` | |
| | `ConfirmedStaysFinal` | `ConfirmedIsFinal` | `ReorgsCovered` |
| | `ConfirmationsRefineTxPending` | `ImplementsTxPending` | `ReorgsCovered` |
| `TxPendingProofs` | `TxTypeCorrect` | `TxTypeOK` | |
| | `ConfirmationsStay` | no step takes a confirmation back | |
| | `ConfirmedIsFinalAlone` | `ConfirmedIsFinal` | no timer, as shipped |
| | `ConfirmedIsOnChain` | a confirmed transaction is on the chain, timer or not | no reorganisations |
| | `StatusAnswers` | `AnswersWhatWasAsked` | |
| `KeyListProofs` | `KeyListTypeCorrect` | `KeyListTypeOK` | |
| | `ListsWellFormed` | `KeysWellFormed` | |
| | `RemovedStayOut` | `SignersAuthorized` | |
| | `EditsAddUp` | `NoEditLost` | |
| | `OneMakesACell` | `CreateExclusive` | not `SlowCreate` |
| | `RefinesTxPending` | `SendsAsTxPending` | |
| `SignallingProofs` | `SignallingTypeCorrect` | `SignallingTypeOK` | |
| | `NoEntryOutlives` | `NoClosedPeer` | |
| | `RoutedToAddressee` | `SentToAddressee` | |
| | `PairsMeet` | `EveryPairMeets` | |
| `OldCidFileProofs` | `OldCidTypeCorrect` | `OldCidTypeOK` | |
| | `AcceptedSurvives` | `AcceptedStays` | |
| | `FreshAnswers` | `AnswersAreFresh` | |
| `ServiceProofs` | `ServiceTypeCorrect` | `ServiceTypeOK` | |
| | `WaitIsExact` | `WaitCoversParser` | |
| | `ExitBetweenTurns` | `StoppedBetweenTurns` | |
| | `StoredForGood` | `OkMeansMine` | |
| | `CollectorIsExported` | `ObservedIsExported` | |

`NatInduction` has the induction principle that two of these modules use.

### What the hypotheses mean

`ReorgsCovered` has three parts, which the shipped configuration meets on the
chains it is for (`confirm_num` 4, `concurrency_num` 100, a start in the
millions): reorganisations are no deeper than `ConfirmNum + 1`; the chain is
at least `ConfirmNum + ConcurrencyNum` high, so `latest - confirm - concurrency`
does not wrap; and `Keep <= ConfigStart`, so `cur - 20` does not. TLC refutes
`RowsFinal` without the second and `CursorMonotone` without the third.

`RewindCovered` is for the other regime, in which rows go stale and the parser
rewinds. No turn runs in concurrency mode (`ConcurrencyNum <= 1`; that mode has
no `checkFork`), and `MaxReorg <= Keep + ConfirmNum + 1`: with the code's 20 and 4, a
reorganisation of up to 25 blocks. The rest keeps the `uint64` arithmetic from wrapping.

`SlowCreate` is a request that outlives its lock. That transactions lie in blocks above the configured start only, and
each at most once on a chain, is an assumption of `Confirmations` about the chain.

### The arguments

**The parser with covered reorganisations.** Type correctness needs only that a
non-empty table has a highest row (`RowsHaveMax`), because `Boot` resumes from
it. `ParserInv` adds three parts, each inductive given those before it:

1. `FinalInv`: every stored row, and the block of the turn under way, has
   `ConfirmNum` blocks above it and is canonical. This is `RowsFinal` made
   inductive: it says of the block in hand what `RowsFinal` says of the row it
   will become, and, for the concurrency mode, that the whole rest of the batch is
   buried. A reorganisation cannot reach a buried block (`BuriedStays`).
2. `CursorInv`: the table determines the cursor. The highest row is the
   cursor's or the one below it, an empty table stands for the configured
   height; so a restart loses nothing. `checkFork` never answers yes
   (`NoFork`), which is why the cursor never goes back.
3. `HandledInv`: what has been handled is the canonical chain from the start
   to the rows, and perhaps the cursor's block.

For the refinement, a `ParsingBlockData` step is a `Handle` step of
`BlockFeed` or, when the block is handled again after a failure, a stutter;
every other step leaves `parsed` alone.

**The parser that rewinds.** Nothing can be said of the rows being linked or
canonical: a rewind that is given up leaves any mixture. `RewindInv` says what remains.
A row is of a handled block of its height (`StoredInv`); the latest `Keep` rows
are there (`KeptInv`); the cursor is at most one above the rows, never below the start
(`PlaceInv`); and the block in hand was read from some chain of some height that agrees
with today's up to `MaxReorg` below that height (`SeenInv`). The part that carries
the proof is in `StoredInv`: whatever lies `MaxReorg` or more below the height that a row
was stored under, and is on today's chain, has been handled. A reorganisation cannot change
that, and a new row renews it (`UpsertStored`), because with the block all its
ancestors have been handled: an induction down the chain from `ParentsParsed`
(`AncestorsParsed`). When `checkFork` finds no row, the parent is below the rows
kept, so it is one of those (`ParentHandled`).

**Confirmations.** Every step of `ConfNext` is a step of the parser or leaves
the parser alone (`ParserRuns`), so `ParserInv` holds here as well. `ConfInv` adds that
a parsed block's transactions have had their handler, and that what is in the pool or on
the chain was sent and is in one of them only. `Placed` then says where a transaction is,
and the refinement is one lemma for each kind of step; the mapping of a
reorganisation (`ChainRefines`) and of the cursor's move past a block (`PassRefines`)
need `FinalInv`: behind the cursor means buried.

**TxPending.** A pass of the timer never counts more rows than it listed
(`PassCounts`, by cardinalities). A confirmed row is of a transaction that is final, or, with
the timer, committed (`ConfirmedIsSettled`), which no step takes back without `Reorgs`.

**KeyList.** Updates are built from lists that may be stale; why does no edit get lost?
`EditsInv`: each list is that of the cell it spends after one edit
(`CellsFollow`); of the transactions the node knows no two spend one cell
(`SpentOnce`); and with one creation the committed transactions, in order, each spend the one
before (`OneChain`). A stale update spends a cell that is gone, so the node refuses it. `Kept`
and `Amounts` are recursive functions; what they return is proved by induction
(`KeptKeeps`, `AmountsOfOneMore`). For the refinement of `TxPending` (`RefinesTxPending`) a
transaction that was never sent by `/transaction/send`, a list's creation among them, is
`"none"` to `TxPending`, whatever the node makes of it.

Why does a removed device stay out (`RemovedStayOut`)? A signer that was looked up is on the list
its update spends (`SignerOnSpent`; the list of a built transaction never changes).
`OneChain` says of every prefix of the committed transactions that its last list is what its
edits amount to (`AmountsAgree`, `AmountsOfSame`). And an update that is committed spends the one
committed just before it. So the list looked at is that of the prefix, whatever
was committed between the look-up and the update's own turn: had anything been, the cell
would be spent.

**Signalling.** The two maps agree and name no connection that is done (`MapsAgree`),
an addressee once found is still the one or is gone (`Addressees`), and of two
connections in the map the one that registered last hears of the other, from the
list it takes or has taken (`Meet`).

**OldCidFile.** `FileInv` holds with any number of writers. What was accepted, or
has been written alone and waits for its answer, is in the file (`FileHolds`) and in
every list that may yet be written to it (`ListsHold`). The second is the part that
needs an argument: a request whose list lacks a change read the file before that change
was written, so it was under way at the time, and the change was not alone. A change
has been made in the list it is written from (`ChangeMade`). Until `broken`, at most one
request is between truncation and write, and the file is empty exactly
then (`OneWrites`); what a reader has seen is not older than its request (`SeenFresh`).

**Service.** `wgServer` is exactly the number of goroutines still to call `Done`
(a count of a finite set that each step changes by one); the stages of `runServer` fix which of
them were started (`StartedInOrder`). `CollectorInv` says for each place a caller
of `Api` can be at what the field and the registry hold. `RequestsInv` ties an
`ok` that is on its way to the row that was inserted for it.

### Only model-checked

Liveness: `CatchesUp`, `RowGetsConfirmed`, `EventualVerdict`, `LockReleased`,
`LostIsForgotten`, `SignalEndsProcess`, `RequestEnds`. The prover has no `ENABLED`, so
no fairness condition can be used. The three violations need no proof. The library's
induction theorems take an operator as a parameter, which no installed prover
can instantiate; `NatInduction` states induction for a set instead (from
`WellFoundedInduction`), which is enough for the recursive functions here. No module uses
`RECURSIVE`.

## 5. Not modelled

* Capacities and fees, witness and address encodings, logging: data no property
  here tells apart.
* The cryptography of `ecdsa.go`, `master_addr.go` and `doCidInfo`. These
  handlers keep no state. Some of their errors are returned without setting
  the answer, so the client receives `err_no` 0 with no data; a model would only restate
  the missing assignment.
* The page's half of the WebRTC protocol. `EveryPairMeets` allows both of two
  pages to be told of the other; both then make offers, and whether the peer
  connections survive that is decided in the browser.
* Pushing metrics, notifications, the configuration file's watcher, the set-up
  of the databases: I/O without a protocol. The tables of avatar notes, accounts
  and authorizations belong to other services; the only write here updates
  notes rows that nothing here inserts.
* `Shutdown` of the HTTP server, `checkContractVersion`, `ApiLimitExist`, the
  account and register limits and the paging function have no caller.
* `Keep`, `Limit` and `MaxKeys` stand for 20, 100 and 10.

Outside what the runs assume, each listed as a hazard with its reason: a
connection that joins under two cids, a request that outlives its Redis lock
(`SlowCreate`), more rows due than one pass of the timer reads, the timer on a
chain with reorganisations, and a chain shorter than
`ConfirmNum + ConcurrencyNum`. Inside the models, but promised by nothing in the code
and so by no property: the signer of an update sent without the look-up, changes to the
old cid file that overlap, and that file after a write that was cut off. A delete may name the master or the last key;
`KeyList` reaches such lists, and no line of the repository says what they should
mean.

## 6. Plan

Done, in this order: parser, chain and feed; their proofs; `TxPending`;
`KeyList`; `Signalling`; `Server`; `OldCidFile`; `Confirmations` with the
refinement of `TxPending`; `TxStatus`; `Metrics` and `Service`.

Then the proofs: type correctness and every safety property of each passing
run, the three refinements, and the parser's rewinding. On the way the models changed where the
proofs asked for it: `ForkCheckHasParent`, that the parent's row is always there
above the start, turned out to hold in small instances only and gave way to
`GuessIsRight`; finiteness and distinctness of the sets that TLC gave
as model values became named assumptions.

Left:

1. The safety halves of the liveness properties: that the sets of steps
   the fairness is about are never disabled for good by anything but
   the excuses each property names.
2. The page's offers and answers as a module of their own beside
   `Signalling`, whose route they travel.
