------------------------------- MODULE Service -------------------------------
(***************************************************************************)
(* The service under load: the process of Server, started again by its     *)
(* supervisor when it has ended, with requests running through the whole   *)
(* chain a route gives them: the handler, here AddCidInfo, and behind it   *)
(* DoMonitorLog, which uses the metrics' collector before the answer       *)
(* leaves.  A panic there ends the request with its connection: the client *)
(* does not learn what the handler did.                                    *)
(*                                                                         *)
(* The requests are about one credential id; each carries notes of its     *)
(* own, and its name stands for them.  A client sends a request again when *)
(* it likes.                                                               *)
(***************************************************************************)
EXTENDS Server

VARIABLES
    step,       \* where each request is
    result,     \* what its handler has put into apiResp
    info,       \* the row of the cid in t_cid_info
    toldOk,     \* the requests whose clients have received err_no 0
    api, lock, registered, call, panicked   \* of Metrics

A == INSTANCE Metrics WITH Caller <- Request

metricsVars == <<api, lock, registered, call, panicked>>
cidVars == <<step, result, info, toldOk>>
serviceVars == <<vars, cidVars, metricsVars>>

NoRow == "no row"

ASSUME ServiceAssumption == NoRow \notin Request /\ A!Nobody \notin Request

Results == {"none", "ok", "exists", "refused"}

ServiceTypeOK ==
    /\ ServerTypeOK
    /\ A!MetricsTypeOK
    /\ step \in [Request -> {"none", "verify", "get", "create", "log", "answer"}]
    /\ result \in [Request -> Results]
    /\ info \in Request \union {NoRow}
    /\ toldOk \subseteq Request
    /\ \A r \in Request : (step[r] = "none") = (request[r] # "running")
    /\ \A r \in Request : call[r] # "out" => step[r] = "log"

ServiceInit ==
    /\ Init /\ A!MetricsInit
    /\ step = [r \in Request |-> "none"]
    /\ result = [r \in Request |-> "none"]
    /\ info = NoRow /\ toldOk = {}

-----------------------------------------------------------------------------
(* doAddCidInfo.                                                           *)

\* A step of a request's handler.
Handler(r, from, to) ==
    /\ Running /\ step[r] = from /\ step' = [step EXCEPT ![r] = to]
    /\ UNCHANGED <<vars, toldOk, metricsVars>>

\* The handler sets apiResp and is done: DoMonitorLog goes on.
Done(r, from, answer) ==
    /\ Running /\ step[r] = from /\ step' = [step EXCEPT ![r] = "log"]
    /\ result' = [result EXCEPT ![r] = answer]
    /\ call' = [call EXCEPT ![r] = "check"]
    /\ UNCHANGED <<vars, toldOk, api, lock, registered, panicked>>

Receive(r) ==
    /\ Accept(r)
    /\ step' = [step EXCEPT ![r] = "verify"]
    /\ UNCHANGED <<result, info, toldOk, metricsVars>>

\* The address, the cid behind it, the lengths of notes and device.
Verify(r) ==
    /\ \/ Done(r, "verify", "refused")
       \/ Handler(r, "verify", "get") /\ UNCHANGED result
    /\ UNCHANGED info

GetCidInfo(r) ==
    /\ \/ Done(r, "get", "refused")
       \/ info # NoRow /\ Done(r, "get", "exists")
       \/ info = NoRow /\ Handler(r, "get", "create") /\ UNCHANGED result
    /\ UNCHANGED info

\* A row that is there is overwritten.
BadCreateCidInfo(r) ==
    \/ Done(r, "create", "refused") /\ UNCHANGED info
    \/ Done(r, "create", "ok") /\ info' = r

\* INSERT: the unique index on the cid refuses a second row.  One that was
\* applied may be reported as failed.
CreateCidInfo(r) ==
    \/ Done(r, "create", "refused") /\ UNCHANGED info
    \/ info = NoRow /\ Done(r, "create", "refused") /\ info' = r
    \/ info = NoRow /\ Done(r, "create", "ok") /\ info' = r

-----------------------------------------------------------------------------
(* DoMonitorLog behind the handler, and the end of the request.            *)

Monitor(r) ==
    /\ Running /\ A!InApi(r)
    /\ UNCHANGED <<vars, cidVars>>

\* WithLabelValues(...).Observe(...) on what Api() returned.
Observe(r) ==
    /\ Running /\ call[r] = "return"
    /\ call' = [call EXCEPT ![r] = "out"]
    /\ step' = [step EXCEPT ![r] = "answer"]
    /\ UNCHANGED <<vars, result, info, toldOk, api, lock, registered, panicked>>

\* net/http writes the buffered answer when the handlers have returned.
Reply(r) ==
    /\ step[r] = "answer" /\ Answer(r)
    /\ step' = [step EXCEPT ![r] = "none"]
    /\ toldOk' = IF result[r] = "ok" THEN toldOk \union {r} ELSE toldOk
    /\ result' = [result EXCEPT ![r] = "none"]
    /\ UNCHANGED <<info, metricsVars>>

\* sentrygin panics again, and net/http closes the connection unanswered.
CloseConnection(r) ==
    /\ call[r] = "panic" /\ Answer(r)
    /\ call' = [call EXCEPT ![r] = "out"]
    /\ step' = [step EXCEPT ![r] = "none"]
    /\ result' = [result EXCEPT ![r] = "none"]
    /\ UNCHANGED <<info, toldOk, api, lock, registered, panicked>>

RequestStep(r) ==
    \/ Verify(r) \/ GetCidInfo(r) \/ CreateCidInfo(r)
    \/ Monitor(r) \/ Observe(r) \/ Reply(r) \/ CloseConnection(r)

-----------------------------------------------------------------------------
(* The process.                                                            *)

\* The exit takes the requests under way with it, whatever they were doing.
ExitNow ==
    /\ Exit
    /\ step' = [r \in Request |-> "none"]
    /\ result' = [r \in Request |-> "none"]
    /\ call' = [r \in Request |-> "out"]
    /\ UNCHANGED <<info, toldOk, api, lock, registered, panicked>>

\* The table survives the process.
RestartNow ==
    /\ Restart /\ A!Renew
    /\ UNCHANGED <<step, result, info, toldOk>>

ProcessStep ==
    /\ StartStep \/ MonitorStep \/ ParserStep \/ \E h \in Helper : HelperStops(h)
    /\ UNCHANGED <<cidVars, metricsVars>>

ServiceNext ==
    \/ ProcessStep \/ ExitNow \/ RestartNow
    \/ \E r \in Request : Receive(r) \/ RequestStep(r)

\* Server's fairness, and a request under way goes on.
ServiceSpec ==
    /\ ServiceInit /\ [][ServiceNext]_serviceVars
    /\ Fairness
    /\ \A r \in Request : WF_serviceVars(RequestStep(r))

-----------------------------------------------------------------------------
(* Properties.                                                             *)

\* Who has been told that the notes are stored finds them there for good:
\* no other request, of this process or of a later one, has been told the
\* same or has written over them (t_avatar_notes.go: a cid once added is not
\* to be modified).
OkMeansMine == toldOk \subseteq {info}

\* Every request that reaches the service comes to an end, also one that waits
\* for the metrics' lock while another one panics with it.
RequestEnds ==
    \A r \in Request : (request[r] = "running") ~> (request[r] # "running")

\* While nobody is between Lock and Unlock, the collector every observation
\* goes to is the registered one, unless two first requests met in Api(): then
\* one of them lost its answer, and the field holds a collector that nothing
\* exports until the process ends.
ObservedIsExported ==
    lock = A!Nobody => (api = registered) = ~panicked

=============================================================================
