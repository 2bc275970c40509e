---------------------------- MODULE ServiceProofs ----------------------------
(***************************************************************************)
(* Proofs about Service: for any number of requests and of das-lib's       *)
(* goroutines, in every mode, over any number of lives of the process.     *)
(***************************************************************************)
EXTENDS Service, FiniteSetTheorems, TLAPS

-----------------------------------------------------------------------------
(* The process: Server's part of every step.                               *)

ServerStep ==
    \/ StartStep \/ MonitorStep \/ ParserStep \/ \E h \in Helper : HelperStops(h)
    \/ Exit \/ Restart
    \/ \E r \in Request : Accept(r) \/ Answer(r)

LEMMA ServerRuns == [ServiceNext]_serviceVars => [ServerStep]_vars
<1> SUFFICES ASSUME [ServiceNext]_serviceVars
             PROVE  [ServerStep]_vars
  OBVIOUS
<1>1. CASE ProcessStep \/ ExitNow \/ RestartNow
  BY <1>1 DEF ProcessStep, ExitNow, RestartNow, ServerStep
<1>2. ASSUME NEW r \in Request, Receive(r) \/ RequestStep(r)
      PROVE  Accept(r) \/ Answer(r) \/ UNCHANGED vars
  BY <1>2 DEF Receive, RequestStep, Verify, GetCidInfo, CreateCidInfo, Handler, Done,
     Monitor, Observe, Reply, CloseConnection
<1>3. CASE UNCHANGED serviceVars
  BY <1>3 DEF serviceVars
<1> QED BY <1>1, <1>2, <1>3 DEF ServiceNext, ServerStep

\* The goroutines of das-lib that have not called Done.
Refreshing == {h \in Helper : helper[h] = "run"}

\* The parser's goroutine has joined the wait group and not called Done.
Parsing == parser \in InTurn \union {"loop", "panicked"}

\* What runServer has not reached yet is not there yet, and the signal is
\* waited for when everything has been started.
StartedInOrder ==
    /\ monitor # "off" => main \in {"wait", "exited"}
    /\ main \in {"start", "timer"} => parser = "off"
    /\ main = "start" => \A h \in Helper : helper[h] = "off"
    /\ main # "exited" \/ monitor = "exit"
    /\ monitor \in {"wait", "exit"} => cancelled
    /\ main \in {"start", "timer", "api", "failed", "exited"} =>
          ~serving /\ \A r \in Request : request[r] # "running"

ServerInv == ServerTypeOK /\ StartedInOrder /\ WaitCoversParser

LEMMA HelpersAreFinite ==
    ASSUME NEW S \in SUBSET Helper
    PROVE  IsFiniteSet(S) /\ Cardinality(S) \in 0..Cardinality(Helper) /\ Cardinality(Helper) \in Nat
<1>1. IsFiniteSet(S) /\ Cardinality(S) <= Cardinality(Helper)
  BY ServerAssumption, FS_Subset
<1>2. Cardinality(S) \in Nat /\ Cardinality(Helper) \in Nat
  BY <1>1, ServerAssumption, FS_CardinalityType
<1> QED BY <1>1, <1>2

LEMMA RefreshingIsFinite ==
    /\ IsFiniteSet(Refreshing) /\ Cardinality(Refreshing) \in 0..Cardinality(Helper)
    /\ Cardinality(Helper) \in Nat
BY HelpersAreFinite DEF Refreshing

LEMMA ServerInit == Init => ServerInv
<1> SUFFICES ASSUME Init PROVE ServerInv
  OBVIOUS
<1>1. Refreshing = {} /\ Cardinality({}) = 0
  BY FS_EmptySet DEF Init, Refreshing
<1>2. ServerTypeOK
  <2>1. 0 \in 0..Cardinality(Helper) + 1
    BY RefreshingIsFinite
  <2> QED BY <2>1 DEF Init, ServerTypeOK
<1>3. StartedInOrder
  BY DEF Init, StartedInOrder
<1>4. WaitCoversParser
  <2>1. wgServer = 0 /\ parser = "off" /\ monitor = "off"
    BY DEF Init
  <2> QED BY <1>1, <2>1 DEF WaitCoversParser, Refreshing, InTurn
<1> QED BY <1>2, <1>3, <1>4 DEF ServerInv

\* The count is exact: a step that leaves the goroutines alone leaves it alone.
LEMMA CountStep ==
    ASSUME ServerInv, ServerStep
    PROVE  wgServer' = Cardinality(Refreshing') + (IF Parsing' THEN 1 ELSE 0)
<1> USE DEF ServerInv
<1>1. wgServer = Cardinality(Refreshing) + (IF Parsing THEN 1 ELSE 0)
  BY DEF WaitCoversParser, Refreshing, Parsing
<1>2. IsFiniteSet(Refreshing) /\ Cardinality(Refreshing) \in Nat /\ Cardinality(Helper) \in Nat
  BY RefreshingIsFinite
<1>3. CASE Prepare
  <2>1. Refreshing = {} /\ Refreshing' = Helper /\ ~Parsing /\ ~Parsing'
    BY <1>3 DEF Prepare, Refreshing, Parsing, StartedInOrder, InTurn
  <2>2. Cardinality(Refreshing) = 0
    BY <2>1, FS_EmptySet
  <2> QED BY <1>1, <1>2, <1>3, <2>1, <2>2 DEF Prepare
<1>4. CASE InitTimer
  <2>1. Refreshing' = Refreshing /\ ~Parsing /\ Parsing'
    BY <1>4 DEF InitTimer, Refreshing, Parsing, StartedInOrder, InTurn
  <2> QED BY <1>1, <1>2, <1>4, <2>1 DEF InitTimer
<1>5. ASSUME NEW h \in Helper, HelperStops(h)
      PROVE  wgServer' = Cardinality(Refreshing') + (IF Parsing' THEN 1 ELSE 0)
  <2>1. Refreshing' = Refreshing \ {h} /\ h \in Refreshing /\ Parsing' = Parsing
    BY <1>5 DEF HelperStops, Refreshing, Parsing, ServerTypeOK
  <2>2. Cardinality(Refreshing') = Cardinality(Refreshing) - 1
    BY <1>2, <2>1, FS_RemoveElement
  <2> QED BY <1>1, <1>2, <1>5, <2>1, <2>2 DEF HelperStops, ServerTypeOK
<1>6. CASE Stop
  <2>1. Refreshing' = Refreshing /\ Parsing /\ ~Parsing'
    BY <1>6 DEF Stop, Parser, Refreshing, Parsing, InTurn
  <2> QED BY <1>1, <1>2, <1>6, <2>1 DEF Stop, ServerTypeOK
<1>7. CASE StartTurn \/ Fetched \/ Handled \/ Stored \/ CallFails \/ Panic
  <2>1. Refreshing' = Refreshing /\ Parsing /\ Parsing' /\ wgServer' = wgServer
    BY <1>7 DEF StartTurn, Fetched, Handled, Stored, CallFails, Panic, Parser, Refreshing,
       Parsing, InTurn
  <2> QED BY <1>1, <2>1
<1>8. CASE Restart
  <2>1. Refreshing' = {} /\ ~Parsing' /\ wgServer' = 0
    BY <1>8 DEF Restart, Refreshing, Parsing, InTurn
  <2>2. Cardinality(Refreshing') = 0
    BY <2>1, FS_EmptySet
  <2> QED BY <2>1, <2>2
<1>9. CASE \/ StartFails \/ InitApiServer \/ ExitMonitoring \/ MonitorStep \/ Exit
           \/ \E r \in Request : Accept(r) \/ Answer(r)
  <2>1. helper' = helper /\ parser' = parser /\ wgServer' = wgServer
    BY <1>9 DEF StartFails, InitApiServer, ExitMonitoring, MonitorStep, Signal, Cancel,
       WaitReturns, Exit, Accept, Answer
  <2>2. Refreshing' = Refreshing /\ Parsing' = Parsing
    BY <2>1 DEF Refreshing, Parsing
  <2> QED BY <1>1, <2>1, <2>2
<1> QED BY <1>3, <1>4, <1>5, <1>6, <1>7, <1>8, <1>9 DEF ServerStep, StartStep, ParserStep

LEMMA ServerTypeStep ==
    ASSUME ServerInv, ServerStep
    PROVE  ServerTypeOK'
<1> USE DEF ServerInv
<1>1. wgServer' = Cardinality(Refreshing') + (IF Parsing' THEN 1 ELSE 0)
  BY CountStep
<1>2. Refreshing' \in SUBSET Helper
  BY DEF Refreshing
<1>3. Cardinality(Refreshing') \in 0..Cardinality(Helper) /\ Cardinality(Helper) \in Nat
  BY <1>2, HelpersAreFinite
<1>4. wgServer' \in 0..Cardinality(Helper) + 1
  BY <1>1, <1>3
<1>5. CASE StartStep \/ MonitorStep
  BY <1>4, <1>5 DEF ServerTypeOK, StartStep, StartFails, Prepare, InitTimer, InitApiServer,
     ExitMonitoring, MonitorStep, Signal, Cancel, WaitReturns
<1>6. CASE ParserStep
  BY <1>4, <1>6 DEF ServerTypeOK, ParserStep, StartTurn, Stop, Fetched, Handled, Stored,
     CallFails, Panic, Parser, InTurn
<1>7. CASE \E h \in Helper : HelperStops(h)
  BY <1>4, <1>7 DEF ServerTypeOK, HelperStops
<1>8. CASE Restart
  BY <1>4, <1>8 DEF ServerTypeOK, Restart
<1>9. CASE Exit
  BY <1>4, <1>9 DEF ServerTypeOK, Exit
<1>10. CASE \E r \in Request : Accept(r) \/ Answer(r)
  BY <1>4, <1>10 DEF ServerTypeOK, Accept, Answer
<1> QED BY <1>5, <1>6, <1>7, <1>8, <1>9, <1>10 DEF ServerStep

LEMMA ServerInvStep == ServerInv /\ [ServerStep]_vars => ServerInv'
<1> SUFFICES ASSUME ServerInv, ServerStep
             PROVE  ServerInv'
  BY DEF ServerInv, ServerTypeOK, StartedInOrder, WaitCoversParser, vars
<1>1. ServerTypeOK'
  BY ServerTypeStep
<1>2. /\ wgServer = Cardinality(Refreshing) + (IF Parsing THEN 1 ELSE 0)
      /\ wgServer' = Cardinality(Refreshing') + (IF Parsing' THEN 1 ELSE 0)
  BY CountStep DEF ServerInv, WaitCoversParser, Refreshing, Parsing
<1>3. Cardinality(Refreshing) \in Nat
  BY RefreshingIsFinite
<1>4. StartedInOrder'
  <2>1. CASE StartStep \/ MonitorStep
    BY <2>1 DEF ServerInv, StartedInOrder, StartStep, StartFails, Prepare, InitTimer, InitApiServer,
       ExitMonitoring, MonitorStep, Signal, Cancel, WaitReturns
  <2>2. CASE ParserStep
    BY <2>2 DEF ServerInv, StartedInOrder, ParserStep, StartTurn, Stop, Fetched, Handled,
       Stored, CallFails, Panic, Parser, InTurn
  <2>3. CASE \E h \in Helper : HelperStops(h)
    BY <2>3 DEF ServerInv, ServerTypeOK, StartedInOrder, HelperStops
  <2>4. CASE Exit \/ Restart \/ \E r \in Request : Accept(r) \/ Answer(r)
    BY <2>4 DEF ServerInv, ServerTypeOK, StartedInOrder, Exit, Restart, Accept, Answer
  <2> QED BY <2>1, <2>2, <2>3, <2>4 DEF ServerStep
<1>5. monitor' = "exit" => cancelled' /\ wgServer' = 0
  <2>1. CASE monitor = "exit"
    <3>1. cancelled /\ wgServer = 0 /\ Refreshing = {} /\ ~Parsing /\ main \in {"wait", "exited"}
      <4>1. cancelled /\ wgServer = 0 /\ main \in {"wait", "exited"}
        BY <2>1 DEF ServerInv, WaitCoversParser, StartedInOrder
      <4>2. Cardinality(Refreshing) = 0 /\ ~Parsing
        BY <1>2, <1>3, <4>1
      <4> QED BY <4>1, <4>2, RefreshingIsFinite, FS_EmptySet
    <3>2. ~ParserStep /\ ~(\E h \in Helper : HelperStops(h)) /\ ~StartStep /\ ~MonitorStep
      BY <2>1, <3>1 DEF ParserStep, StartTurn, Stop, Fetched, Handled, Stored, CallFails,
         Panic, Parser, Parsing, InTurn, HelperStops, Refreshing, StartStep, StartFails,
         Prepare, InitTimer, InitApiServer, ExitMonitoring, MonitorStep, Signal, Cancel,
         WaitReturns
    <3> QED BY <2>1, <3>1, <3>2 DEF ServerStep, Exit, Restart, Accept, Answer
  <2>2. CASE monitor # "exit"
    <3>1. CASE WaitReturns
      BY <3>1 DEF WaitReturns, ServerInv, StartedInOrder
    <3>2. CASE ~WaitReturns
      BY <2>2, <3>2 DEF ServerStep, StartStep, StartFails, Prepare, InitTimer, InitApiServer,
         ExitMonitoring, MonitorStep, Signal, Cancel, ParserStep, StartTurn, Stop, Fetched,
         Handled, Stored, CallFails, Panic, Parser, HelperStops, Exit, Restart, Accept, Answer
    <3> QED BY <3>1, <3>2
  <2> QED BY <2>1, <2>2
<1> QED BY <1>1, <1>2, <1>4, <1>5 DEF ServerInv, WaitCoversParser, Refreshing, Parsing

-----------------------------------------------------------------------------
(* The metrics' collector.                                                 *)

\* One caller is between Lock and Unlock and has the lock; a waiting one has
\* not made the registered collector; the field and the registry go together
\* unless somebody has just put a second collector into the field, or has
\* panicked with it.
CollectorInv ==
    /\ \A c \in Request : call[c] \in {"create", "register"} <=> lock = c
    /\ \A c \in Request : call[c] \in {"wait", "create", "register"} => registered # c
    /\ \A c \in Request : call[c] = "register" => api = c
    /\ panicked => registered # A!Nobody
    /\ registered # A!Nobody => api # A!Nobody
    /\ (\A c \in Request : call[c] # "register") => (api = registered) = ~panicked

\* A process that has ended leaves the lock as it was; the next one has its own.
MetricsInv ==
    /\ A!MetricsTypeOK
    /\ Running => CollectorInv
    /\ ObservedIsExported

LEMMA MetricsInit == ServiceInit => MetricsInv
BY ServiceAssumption DEF ServiceInit, A!MetricsInit, MetricsInv, A!MetricsTypeOK, CollectorInv,
   ObservedIsExported

\* In a running process the collector observed is the one CollectorInv speaks of.
LEMMA CollectorObserved == A!MetricsTypeOK /\ CollectorInv => ObservedIsExported
BY ServiceAssumption DEF CollectorInv, ObservedIsExported, A!MetricsTypeOK

\* A caller's next line in Api().
LEMMA InApiStep ==
    ASSUME A!MetricsTypeOK, CollectorInv, NEW r \in Request, A!InApi(r)
    PROVE  A!MetricsTypeOK' /\ CollectorInv'
<1> USE ServiceAssumption DEF A!MetricsTypeOK, CollectorInv
<1>1. CASE A!ReadField(r)
  BY <1>1 DEF A!ReadField, A!At
<1>2. CASE A!Lock(r)
  BY <1>2 DEF A!Lock, A!At
<1>3. CASE A!Create(r)
  BY <1>3 DEF A!Create, A!At
<1>4. CASE A!Register(r)
  <2>1. lock = r /\ api = r /\ registered # r /\ call[r] = "register"
    BY <1>4 DEF A!Register, A!At
  <2>2. A!MetricsTypeOK'
    BY <1>4, <2>1 DEF A!Register, A!At
  <2>3. /\ call'[r] \in {"return", "panic"}
        /\ \A c \in Request : c # r => call'[c] = call[c] /\ call[c] \notin {"create", "register"}
    BY <1>4, <2>1 DEF A!Register, A!At
  <2> QED BY <1>4, <2>1, <2>2, <2>3 DEF A!Register, A!At
<1> QED BY <1>1, <1>2, <1>3, <1>4 DEF A!InApi

\* Entering, leaving and ending a call do not touch the collector.
LEMMA CallStep ==
    ASSUME A!MetricsTypeOK, CollectorInv, NEW r \in Request,
           NEW from \in {"out", "return", "panic"}, NEW to \in {"out", "check"},
           call[r] = from, call' = [call EXCEPT ![r] = to],
           UNCHANGED <<api, lock, registered, panicked>>
    PROVE  A!MetricsTypeOK' /\ CollectorInv'
BY DEF A!MetricsTypeOK, CollectorInv

-----------------------------------------------------------------------------
(* The requests.                                                           *)

\* Where a request is and what it holds; an "ok" that is on its way, or has
\* arrived, is of the request whose notes are in the row.
RequestsInv ==
    /\ step \in [Request -> {"none", "verify", "get", "create", "log", "answer"}]
    /\ result \in [Request -> Results]
    /\ info \in Request \union {NoRow}
    /\ toldOk \subseteq Request
    /\ \A r \in Request : (step[r] = "none") = (request[r] # "running")
    /\ \A r \in Request : call[r] # "out" => step[r] = "log"
    /\ \A r \in Request : result[r] = "ok" => info = r
    /\ OkMeansMine

ServiceInv == ServerInv /\ MetricsInv /\ RequestsInv

LEMMA ServiceInvInit == ServiceInit => ServiceInv
<1> SUFFICES ASSUME ServiceInit PROVE ServiceInv
  OBVIOUS
<1>1. Init /\ A!MetricsInit
  BY DEF ServiceInit
<1>2. RequestsInv
  BY <1>1, ServiceAssumption DEF ServiceInit, Init, A!MetricsInit, RequestsInv, Results, OkMeansMine
<1> QED BY <1>1, <1>2, ServerInit, MetricsInit DEF ServiceInv

\* A step inside the process keeps it running or ends it, and leaves the
\* requests to themselves.
LEMMA ProcessKeeps ==
    ASSUME ServiceInv, ProcessStep
    PROVE  MetricsInv' /\ RequestsInv'
<1>1. request' = request /\ (Running' => Running)
  BY DEF ProcessStep, StartStep, StartFails, Prepare, InitTimer, InitApiServer,
     ExitMonitoring, MonitorStep, Signal, Cancel, WaitReturns, ParserStep, StartTurn, Stop,
     Fetched, Handled, Stored, CallFails, Panic, Parser, HelperStops, Running
<1>2. UNCHANGED <<step, result, info, toldOk, api, lock, registered, call, panicked>>
  BY DEF ProcessStep, cidVars, metricsVars
<1>3. MetricsInv'
  BY <1>1, <1>2 DEF ServiceInv, MetricsInv, A!MetricsTypeOK, CollectorInv, ObservedIsExported
<1>4. RequestsInv'
  BY <1>1, <1>2 DEF ServiceInv, RequestsInv, OkMeansMine
<1> QED BY <1>3, <1>4

LEMMA ExitKeeps ==
    ASSUME ServiceInv, ExitNow
    PROVE  MetricsInv' /\ RequestsInv'
<1>1. ~Running' /\ \A r \in Request : request'[r] # "running"
  BY DEF ExitNow, Exit, Running, ServiceInv, ServerInv, ServerTypeOK
<1>2. MetricsInv'
  BY <1>1 DEF ExitNow, ServiceInv, MetricsInv, A!MetricsTypeOK, ObservedIsExported
<1>3. RequestsInv'
  BY <1>1 DEF ExitNow, ServiceInv, RequestsInv, Results, OkMeansMine
<1> QED BY <1>2, <1>3

LEMMA RestartKeeps ==
    ASSUME ServiceInv, RestartNow
    PROVE  MetricsInv' /\ RequestsInv'
<1>1. \A r \in Request : request[r] # "running" /\ request'[r] = "none"
  BY DEF RestartNow, Restart, Running, ServiceInv, ServerInv, StartedInOrder
<1>2. MetricsInv'
  BY ServiceAssumption DEF RestartNow, A!Renew, MetricsInv, A!MetricsTypeOK, CollectorInv,
     ObservedIsExported
<1>3. RequestsInv'
  BY <1>1 DEF RestartNow, A!Renew, ServiceInv, RequestsInv, OkMeansMine
<1> QED BY <1>2, <1>3

\* A step of doAddCidInfo: the request goes on, or has its result.
LEMMA HandlerKeeps ==
    ASSUME ServiceInv, NEW r \in Request, Verify(r) \/ GetCidInfo(r) \/ CreateCidInfo(r)
    PROVE  MetricsInv' /\ RequestsInv'
<1> USE DEF ServiceInv
<1>1. \A q \in Request : (step[q] = "none") = (request[q] # "running")
  BY DEF RequestsInv
<1>2. ASSUME NEW from \in {"verify", "get"}, NEW to \in {"get", "create"},
             Handler(r, from, to), UNCHANGED <<result, info>>
      PROVE  MetricsInv' /\ RequestsInv'
  <2>1. UNCHANGED <<main, request, api, lock, registered, call, panicked, toldOk>>
    BY <1>2 DEF Handler, vars, metricsVars
  <2>2. MetricsInv'
    BY <2>1 DEF MetricsInv, A!MetricsTypeOK, CollectorInv, ObservedIsExported, Running
  <2>3. RequestsInv'
    BY <1>2, <2>1 DEF Handler, RequestsInv, OkMeansMine
  <2> QED BY <2>2, <2>3
<1>3. ASSUME NEW from \in {"verify", "get", "create"}, NEW answer \in {"refused", "exists", "ok"},
             Done(r, from, answer),
             \/ answer # "ok" /\ UNCHANGED info
             \/ info = NoRow /\ info' = r
      PROVE  MetricsInv' /\ RequestsInv'
  <2>1. /\ UNCHANGED <<main, request, api, lock, registered, panicked, toldOk>>
        /\ Running /\ step[r] = from
        /\ step' = [step EXCEPT ![r] = "log"] /\ result' = [result EXCEPT ![r] = answer]
        /\ call' = [call EXCEPT ![r] = "check"]
    BY <1>3 DEF Done, vars
  <2>2. call[r] = "out"
    BY <2>1 DEF RequestsInv
  <2>3. A!MetricsTypeOK' /\ CollectorInv'
    BY <2>1, <2>2, CallStep DEF MetricsInv
  <2>4. ObservedIsExported'
    BY <2>1 DEF MetricsInv, ObservedIsExported
  <2>5. \A q \in Request : result'[q] = "ok" => info' = q
    <3>1. \A q \in Request : q # r => result'[q] = result[q]
      BY <2>1 DEF RequestsInv
    <3>2. result'[r] = answer
      BY <2>1 DEF RequestsInv
    <3>3. info = NoRow => \A q \in Request : result[q] # "ok"
      BY ServiceAssumption DEF RequestsInv
    <3> QED BY <1>3, <3>1, <3>2, <3>3 DEF RequestsInv
  <2>6. toldOk' \subseteq {info'}
    BY <1>3, <2>1, ServiceAssumption DEF RequestsInv, OkMeansMine
  <2>7. RequestsInv'
    BY <1>3, <2>1, <2>5, <2>6 DEF RequestsInv, OkMeansMine, Results
  <2> QED BY <2>3, <2>4, <2>7 DEF MetricsInv
<1>4. CASE Verify(r)
  BY <1>2, <1>3, <1>4 DEF Verify
<1>5. CASE GetCidInfo(r)
  BY <1>2, <1>3, <1>5 DEF GetCidInfo
<1>6. CASE CreateCidInfo(r)
  BY <1>3, <1>6 DEF CreateCidInfo
<1> QED BY <1>4, <1>5, <1>6

\* What comes before the handler and after it.
LEMMA AroundKeeps ==
    ASSUME ServiceInv, NEW r \in Request,
           Receive(r) \/ Monitor(r) \/ Observe(r) \/ Reply(r) \/ CloseConnection(r)
    PROVE  MetricsInv' /\ RequestsInv'
<1> USE DEF ServiceInv
<1>1. CASE Receive(r)
  <2>1. /\ UNCHANGED <<main, api, lock, registered, panicked, call, toldOk, info, result>>
        /\ request' = [request EXCEPT ![r] = "running"] /\ request[r] = "none"
        /\ step' = [step EXCEPT ![r] = "verify"]
    BY <1>1 DEF Receive, Accept, metricsVars
  <2>2. MetricsInv'
    BY <2>1 DEF MetricsInv, A!MetricsTypeOK, CollectorInv, ObservedIsExported, Running
  <2>3. RequestsInv'
    BY <2>1 DEF RequestsInv, OkMeansMine, ServerInv, ServerTypeOK
  <2> QED BY <2>2, <2>3
<1>2. CASE Monitor(r)
  <2>1. /\ Running /\ A!InApi(r) /\ UNCHANGED <<main, request, step, result, info, toldOk>>
    BY <1>2 DEF Monitor, vars, cidVars
  <2>2. A!MetricsTypeOK' /\ CollectorInv'
    BY <2>1, InApiStep DEF MetricsInv
  <2>3. ObservedIsExported'
    BY <2>2, ServiceAssumption DEF CollectorInv, ObservedIsExported, A!MetricsTypeOK
  <2>4. \A q \in Request : call'[q] # "out" => call[q] # "out"
    BY <2>1 DEF A!InApi, A!ReadField, A!Lock, A!Create, A!Register, A!At, MetricsInv, A!MetricsTypeOK
  <2>5. RequestsInv'
    BY <2>1, <2>4 DEF RequestsInv, OkMeansMine
  <2> QED BY <2>2, <2>3, <2>5 DEF MetricsInv
<1>3. CASE Observe(r) \/ CloseConnection(r)
  <2>1. /\ Running /\ UNCHANGED <<main, api, lock, registered, panicked, info, toldOk>>
        /\ call[r] \in {"return", "panic"} /\ call' = [call EXCEPT ![r] = "out"]
        /\ \/ /\ request' = request /\ result' = result
              /\ step' = [step EXCEPT ![r] = "answer"]
           \/ /\ request' = [request EXCEPT ![r] = "none"]
              /\ result' = [result EXCEPT ![r] = "none"]
              /\ step' = [step EXCEPT ![r] = "none"]
    BY <1>3 DEF Observe, CloseConnection, Answer, vars
  <2>2. A!MetricsTypeOK' /\ CollectorInv'
    BY <2>1, CallStep DEF MetricsInv
  <2>3. ObservedIsExported'
    BY <2>1 DEF MetricsInv, ObservedIsExported
  <2>4. step[r] = "log" /\ request[r] = "running"
    BY <2>1 DEF RequestsInv
  <2>5. \A q \in Request : q # r => call'[q] = call[q]
    BY <2>1 DEF MetricsInv, A!MetricsTypeOK
  <2>6. call'[r] = "out"
    BY <2>1 DEF MetricsInv, A!MetricsTypeOK
  <2>7. RequestsInv'
    BY <2>1, <2>4, <2>5, <2>6 DEF RequestsInv, OkMeansMine, Results, ServerInv, ServerTypeOK
  <2> QED BY <2>2, <2>3, <2>7 DEF MetricsInv
<1>4. CASE Reply(r)
  <2>1. /\ UNCHANGED <<main, api, lock, registered, panicked, call, info>>
        /\ step[r] = "answer" /\ step' = [step EXCEPT ![r] = "none"]
        /\ request' = [request EXCEPT ![r] = "none"]
        /\ result' = [result EXCEPT ![r] = "none"]
        /\ toldOk' = IF result[r] = "ok" THEN toldOk \union {r} ELSE toldOk
    BY <1>4 DEF Reply, Answer, metricsVars
  <2>2. MetricsInv'
    BY <2>1 DEF MetricsInv, A!MetricsTypeOK, CollectorInv, ObservedIsExported, Running
  <2>3. RequestsInv'
    BY <2>1 DEF RequestsInv, OkMeansMine, Results, ServerInv, ServerTypeOK
  <2> QED BY <2>2, <2>3
<1> QED BY <1>1, <1>2, <1>3, <1>4

LEMMA ServiceInvStep == ServiceInv /\ [ServiceNext]_serviceVars => ServiceInv'
<1> SUFFICES ASSUME ServiceInv, [ServiceNext]_serviceVars
             PROVE  ServiceInv'
  OBVIOUS
<1>1. ServerInv'
  BY ServerRuns, ServerInvStep DEF ServiceInv
<1>2. CASE ServiceNext
  BY <1>1, <1>2, ProcessKeeps, ExitKeeps, RestartKeeps, HandlerKeeps, AroundKeeps
     DEF ServiceNext, RequestStep, ServiceInv
<1>3. CASE UNCHANGED serviceVars
  BY <1>1, <1>3 DEF serviceVars, vars, cidVars, metricsVars, ServiceInv, MetricsInv, Running,
     A!MetricsTypeOK, CollectorInv, ObservedIsExported, RequestsInv, OkMeansMine
<1> QED BY <1>2, <1>3

LEMMA ServiceAlways == ServiceSpec => []ServiceInv
BY ServiceInvInit, ServiceInvStep, PTL DEF ServiceSpec

-----------------------------------------------------------------------------
(* The theorems.                                                           *)

\* Every variable keeps its type; a request is at a line of its handler exactly
\* while the server counts it as running, and in Api() only behind it.
THEOREM ServiceTypeCorrect == ServiceSpec => []ServiceTypeOK
<1>1. ServiceInv => ServiceTypeOK
  BY DEF ServiceInv, ServerInv, MetricsInv, RequestsInv, ServiceTypeOK
<1> QED BY <1>1, ServiceAlways, PTL

\* The counter of the wait group is the number of goroutines that have joined
\* it and not called Done, for any number of das-lib's goroutines: it never
\* goes below zero, and after Wait nobody of them runs or starts.
THEOREM WaitIsExact == ServiceSpec => []WaitCoversParser
<1>1. ServiceInv => WaitCoversParser
  BY DEF ServiceInv, ServerInv
<1> QED BY <1>1, ServiceAlways, PTL

\* An orderly exit finds the parser between two turns, wherever the signal
\* found it and whatever the requests and das-lib's goroutines were doing.
THEOREM ExitBetweenTurns == ServiceSpec => []StoppedBetweenTurns
<1>1. ServiceInv => StoppedBetweenTurns
  <2> SUFFICES ASSUME ServiceInv, main = "exited"
               PROVE  parser \in {"off", "done"}
    BY DEF StoppedBetweenTurns
  <2>1. wgServer = 0 /\ wgServer = Cardinality(Refreshing) + (IF Parsing THEN 1 ELSE 0)
    BY DEF ServiceInv, ServerInv, StartedInOrder, WaitCoversParser, Refreshing, Parsing
  <2>2. ~Parsing
    BY <2>1, RefreshingIsFinite
  <2> QED BY <2>2 DEF Parsing, ServiceInv, ServerInv, ServerTypeOK
<1> QED BY <1>1, ServiceAlways, PTL

\* Whoever was told that the notes of the cid are stored finds them there for
\* good, over any number of requests, panics, exits and restarts.
THEOREM StoredForGood == ServiceSpec => []OkMeansMine
<1>1. ServiceInv => OkMeansMine
  BY DEF ServiceInv, RequestsInv
<1> QED BY <1>1, ServiceAlways, PTL

\* The collector that observations go to is the registered one until two first
\* requests meet in Api(), for any number of requests.
THEOREM CollectorIsExported == ServiceSpec => []ObservedIsExported
<1>1. ServiceInv => ObservedIsExported
  BY DEF ServiceInv, MetricsInv
<1> QED BY <1>1, ServiceAlways, PTL
=============================================================================
