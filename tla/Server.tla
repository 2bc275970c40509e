------------------------------- MODULE Server --------------------------------
(***************************************************************************)
(* The process: cmd/main.go starts the parts its mode asks for, waits for  *)
(* a signal, cancels the context, waits for the wait group and exits.  In  *)
(* the wait group are the block parser and the goroutines of das-lib that  *)
(* refresh contracts, configuration and caches; the HTTP server is not,    *)
(* its Shutdown has no caller.  BlockParser says what the parser's turns   *)
(* do, KeyList what the requests do; to both of them a stop of the process *)
(* is a crash, and this module says what an orderly one spares them.       *)
(*                                                                         *)
(* An operator named Bad... is a plausible mistake in the definition after *)
(* it; none is part of the specification.                                  *)
(***************************************************************************)
EXTENDS Naturals, FiniteSets

CONSTANTS
    Request,    \* HTTP requests under way at one time
    Helper,     \* the goroutines initDasCore has das-lib start
    Modes       \* the -mode options the process may be given

ASSUME ServerAssumption == IsFiniteSet(Helper) /\ Modes \subseteq {"", "api", "timer"}

VARIABLES
    main,       \* runServer: what it does next
    mode,       \* the -mode option
    monitor,    \* ExitMonitoring's goroutine
    cancelled,  \* ctxServer
    wgServer,   \* the counter of the wait group
    helper,     \* das-lib's goroutines
    parser,     \* the parser's goroutine: which call of its turn comes next
    serving,    \* the HTTP server accepts requests
    request     \* the requests: none, running, or answered

vars == <<main, mode, monitor, cancelled, wgServer, helper, parser, serving, request>>

InTurn == {"fetch", "parse", "create"}

ServerTypeOK ==
    /\ main \in {"start", "timer", "api", "monitor", "wait", "exited", "failed"}
    /\ mode \in Modes
    /\ monitor \in {"off", "watch", "cancel", "wait", "exit"}
    /\ cancelled \in BOOLEAN
    /\ wgServer \in 0..Cardinality(Helper) + 1
    /\ helper \in [Helper -> {"off", "run", "done"}]
    /\ parser \in {"off", "loop", "done", "panicked"} \union InTurn
    /\ serving \in BOOLEAN
    /\ request \in [Request -> {"none", "running", "cut"}]

Init ==
    /\ main = "start"
    /\ mode \in Modes
    /\ monitor = "off"
    /\ cancelled = FALSE
    /\ wgServer = 0
    /\ helper = [h \in Helper |-> "off"]
    /\ parser = "off"
    /\ serving = FALSE
    /\ request = [r \in Request |-> "none"]

Running == main \notin {"exited", "failed"}

\* The supervisor starts the process again, in whatever mode.
Restart ==
    /\ ~Running
    /\ main' = "start" /\ mode' \in Modes
    /\ monitor' = "off" /\ cancelled' = FALSE /\ wgServer' = 0
    /\ helper' = [h \in Helper |-> "off"] /\ parser' = "off"
    /\ serving' = FALSE /\ request' = [r \in Request |-> "none"]

-----------------------------------------------------------------------------
(* runServer.                                                              *)

\* An error before the service is up: runServer returns it and main ends the
\* process, with whatever it has started.
StartFails ==
    /\ main \in {"start", "timer"}
    /\ main' = "failed"
    /\ UNCHANGED <<mode, monitor, cancelled, wgServer, helper, parser, serving, request>>

\* Configuration, database, Redis (optional), das core with its goroutines,
\* transaction builder.
Prepare ==
    /\ main = "start"
    /\ main' = IF mode = "api" THEN "api" ELSE "timer"
    /\ wgServer' = wgServer + Cardinality(Helper)
    /\ helper' = [h \in Helper |-> "run"]
    /\ UNCHANGED <<mode, monitor, cancelled, parser, serving, request>>

\* The goroutine started without joining the wait group.
BadInitTimer ==
    /\ main = "timer"
    /\ parser' = "loop"
    /\ main' = IF mode = "timer" THEN "monitor" ELSE "api"
    /\ UNCHANGED <<mode, monitor, cancelled, wgServer, serving, request, helper>>

\* A count of parts instead of goroutines, as in timer.go:51.
BadJoins ==
    /\ main = "timer"
    /\ wgServer' = wgServer + 5
    /\ parser' = "loop"
    /\ main' = IF mode = "timer" THEN "monitor" ELSE "api"
    /\ UNCHANGED <<mode, monitor, cancelled, serving, request, helper>>

\* initTimer: BlockParser.Run, which joins the wait group and starts its loop.
InitTimer ==
    /\ main = "timer"
    /\ wgServer' = wgServer + 1
    /\ parser' = "loop"
    /\ main' = IF mode = "timer" THEN "monitor" ELSE "api"
    /\ UNCHANGED <<mode, monitor, cancelled, serving, request, helper>>

\* initApiServer: two listening goroutines, in no wait group.
InitApiServer ==
    /\ main = "api"
    /\ serving' = TRUE
    /\ main' = "monitor"
    /\ UNCHANGED <<mode, monitor, cancelled, wgServer, parser, request, helper>>

ExitMonitoring ==
    /\ main = "monitor"
    /\ monitor' = "watch"
    /\ main' = "wait"
    /\ UNCHANGED <<mode, cancelled, wgServer, helper, parser, serving, request>>

-----------------------------------------------------------------------------
(* The callback of ExitMonitoring and the end of runServer.                *)

Signal ==
    /\ Running /\ monitor = "watch"
    /\ monitor' = "cancel"
    /\ UNCHANGED <<main, mode, cancelled, wgServer, helper, parser, serving, request>>

\* The order of the two calls swapped.
BadCancel ==
    /\ Running /\ monitor = "cancel" /\ wgServer = 0
    /\ cancelled' = TRUE
    /\ monitor' = "wait"
    /\ UNCHANGED <<main, mode, wgServer, helper, parser, serving, request>>

Cancel ==
    /\ Running /\ monitor = "cancel"
    /\ cancelled' = TRUE
    /\ monitor' = "wait"
    /\ UNCHANGED <<main, mode, wgServer, helper, parser, serving, request>>

\* wgServer.Wait returns; a second later exit <- struct{}{}.
WaitReturns ==
    /\ Running /\ monitor = "wait" /\ wgServer = 0
    /\ monitor' = "exit"
    /\ UNCHANGED <<main, mode, cancelled, wgServer, helper, parser, serving, request>>

\* <-exit: the process ends, and with it every goroutine there is.
Exit ==
    /\ main = "wait" /\ monitor = "exit"
    /\ main' = "exited"
    /\ serving' = FALSE
    /\ request' = [r \in Request |->
                     IF request[r] = "running" THEN "cut" ELSE request[r]]
    /\ UNCHANGED <<mode, monitor, cancelled, wgServer, parser, helper>>

HelperStops(h) ==
    /\ Running /\ cancelled /\ helper[h] = "run"
    /\ helper' = [helper EXCEPT ![h] = "done"]
    /\ wgServer' = wgServer - 1
    /\ UNCHANGED <<main, mode, monitor, cancelled, parser, serving, request>>

-----------------------------------------------------------------------------
(* The parser's goroutine.                                                 *)

Parser(from, to) ==
    /\ Running /\ parser = from /\ parser' = to
    /\ UNCHANGED <<main, mode, monitor, cancelled, serving, request, helper>>

\* default: a turn with a block to handle; select prefers it only while the
\* context is not done.
StartTurn == ~cancelled /\ Parser("loop", "fetch") /\ UNCHANGED wgServer

\* <-b.Ctx.Done().
Stop == cancelled /\ Parser("loop", "done") /\ wgServer' = wgServer - 1

\* The node's calls take the context and fail once it is done; the database's
\* do not, so a block that has been fetched is handled and stored to the end.
Fetched == ~cancelled /\ Parser("fetch", "parse") /\ UNCHANGED wgServer

Handled == Parser("parse", "create") /\ UNCHANGED wgServer

\* The concurrency mode goes on to the next block of the same turn.
Stored == (Parser("create", "loop") \/ Parser("create", "fetch")) /\ UNCHANGED wgServer

\* Done called after an error as well.
BadCallFails ==
    \E from \in InTurn :
        /\ Parser(from, "loop")
        /\ wgServer' = IF wgServer = 0 THEN 0 ELSE wgServer - 1

CallFails == (\E from \in InTurn : Parser(from, "loop")) /\ UNCHANGED wgServer

\* RecoverPanic keeps the process alive; the goroutine is gone without Done.
Panic == (\E from \in InTurn : Parser(from, "panicked")) /\ UNCHANGED wgServer

-----------------------------------------------------------------------------
(* Requests.                                                               *)

Accept(r) ==
    /\ Running /\ serving /\ request[r] = "none"
    /\ request' = [request EXCEPT ![r] = "running"]
    /\ UNCHANGED <<main, mode, monitor, cancelled, wgServer, parser, serving, helper>>

Answer(r) ==
    /\ Running /\ request[r] = "running"
    /\ request' = [request EXCEPT ![r] = "none"]
    /\ UNCHANGED <<main, mode, monitor, cancelled, wgServer, parser, serving, helper>>

StartStep == StartFails \/ Prepare \/ InitTimer \/ InitApiServer \/ ExitMonitoring

MonitorStep == Signal \/ Cancel \/ WaitReturns

ParserStep ==
    StartTurn \/ Stop \/ Fetched \/ Handled \/ Stored \/ CallFails \/ Panic

\* Every goroutine that can go on does; the signal itself need not come, and a
\* handler need not panic.
Fairness ==
    /\ WF_vars(InitTimer) /\ WF_vars(InitApiServer) /\ WF_vars(ExitMonitoring)
    /\ WF_vars(Cancel) /\ WF_vars(WaitReturns) /\ WF_vars(Exit)
    /\ WF_vars(Stop) /\ (\A h \in Helper : WF_vars(HelperStops(h)))
    /\ WF_vars(Fetched \/ Handled \/ Stored \/ CallFails)

-----------------------------------------------------------------------------
(* Properties.                                                             *)

\* An orderly exit finds the parser between two turns: whatever the signal
\* interrupts, a block whose transactions have been handled is stored as well,
\* unless the database refused (cancel, then wgServer.Wait, then exit).
StoppedBetweenTurns ==
    main = "exited" => parser \in {"off", "done"}

\* The wait group counts the goroutines that have joined it and not called
\* Done, a parser that panicked among them, and a wait that has returned finds
\* them all stopped for good.
WaitCoversParser ==
    /\ wgServer = Cardinality({h \in Helper : helper[h] = "run"})
                    + (IF parser \in InTurn \union {"loop", "panicked"} THEN 1 ELSE 0)
    /\ monitor = "exit" => cancelled /\ wgServer = 0

\* A signal ends the process, whatever the parser and the requests are doing,
\* unless the parser's goroutine has panicked: then nobody calls Done, and the
\* process stays until it is killed.
SignalEndsProcess ==
    (monitor = "cancel") ~> (main = "exited" \/ parser = "panicked")

=============================================================================
