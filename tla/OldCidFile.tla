----------------------------- MODULE OldCidFile -----------------------------
(***************************************************************************)
(* conf/old_cid.json (http_server/handle/upgradeCid.go): a list of cids    *)
(* that every request reads whole; AddTestCid and CoverCid change it and   *)
(* write it back whole.  Nothing locks the file, so that any of them may   *)
(* be at it at the same time; WriteFile truncates it before it writes, and *)
(* a request that cannot read it ends the process by log.Fatalf.           *)
(*                                                                         *)
(* An operator named Bad... is a plausible mistake in the definition after *)
(* it; none is part of the specification.                                  *)
(***************************************************************************)
EXTENDS Naturals, FiniteSets, FiniteSetsExt

CONSTANTS
    Request,    \* requests under way at one time
    Cid,
    OldCids,    \* the file the service is deployed with
    Torn,       \* a content that is no JSON list: empty, or parts of two
    None        \* of a request that has read nothing yet

\* A list has each cid at most once; Cid1 and IsTest follow from the cid.
Status == {"absent", "plain", "covered"}
List == [Cid -> Status]

ASSUME OldCidAssumption ==
    /\ Cid # {} /\ OldCids \in List
    /\ Torn \notin List /\ None \notin List

VARIABLES
    file,       \* what conf/old_cid.json holds
    pc,         \* each request: what it does next
    op, cid,    \* which handler it is, of which cid
    list,       \* oldCids, as read and then as changed
    yes,        \* is_old_cid, or whether a cid was found
    accepted,   \* history: the changes answered that nothing should undo
    since,      \* history: what was accepted of its cid when a request came
    alone,      \* history: no other change was under way when it was written
    broken      \* history: a write was cut off, or met another one

vars == <<file, pc, op, cid, list, yes, accepted, since, alone, broken>>
request == <<op, cid, list, yes, since>>
history == <<accepted, alone, broken>>

OldCidTypeOK ==
    /\ file \in List \union {Torn}
    /\ pc \in [Request -> {"idle", "read", "decide", "truncate", "fill", "answer"}]
    /\ op \in [Request -> {"info", "query", "add", "cover"}]
    /\ cid \in [Request -> Cid]
    /\ list \in [Request -> List \union {None}]
    /\ yes \in [Request -> BOOLEAN]
    /\ accepted \in List
    /\ since \in [Request -> Status]
    /\ alone \in [Request -> BOOLEAN]
    /\ broken \in BOOLEAN
    /\ \A r \in Request :
         /\ pc[r] \in {"decide", "truncate", "fill"} => list[r] # None
         /\ pc[r] \in {"truncate", "fill"} => op[r] \in {"add", "cover"}
         /\ pc[r] = "answer" /\ op[r] \in {"add", "cover"} => list[r] # None

AnyCid == CHOOSE c \in Cid : TRUE

Init ==
    /\ file = OldCids
    /\ pc = [r \in Request |-> "idle"]
    /\ op = [r \in Request |-> "info"]
    /\ cid = [r \in Request |-> AnyCid]
    /\ list = [r \in Request |-> None]
    /\ yes = [r \in Request |-> FALSE]
    /\ since = [r \in Request |-> "absent"]
    /\ accepted = OldCids
    /\ alone = [r \in Request |-> FALSE]
    /\ broken = FALSE

Goto(r, next) == pc' = [pc EXCEPT ![r] = next]

\* A request has had its answer.
Finish(r) ==
    /\ Goto(r, "idle")
    /\ op' = [op EXCEPT ![r] = "info"]
    /\ cid' = [cid EXCEPT ![r] = AnyCid]
    /\ list' = [list EXCEPT ![r] = None]
    /\ yes' = [yes EXCEPT ![r] = FALSE]
    /\ since' = [since EXCEPT ![r] = "absent"]
    /\ UNCHANGED file

\* It was an error.
Refuse(r) == Finish(r) /\ UNCHANGED history

\* Bytes, but for those every entry has: "true" is shorter than "false".
Size(l) == MapThenSumSet(LAMBDA c : CASE l[c] = "absent" -> 0
                                      [] l[c] = "plain" -> 10
                                      [] l[c] = "covered" -> 9, Cid)

-----------------------------------------------------------------------------

Receive(r) ==
    /\ pc[r] = "idle"
    /\ \E o \in {"info", "query", "add", "cover"}, c \in Cid :
         /\ op' = [op EXCEPT ![r] = o]
         /\ cid' = [cid EXCEPT ![r] = c]
         /\ since' = [since EXCEPT ![r] = accepted[c]]
    /\ Goto(r, "read")
    /\ UNCHANGED <<file, list, yes, history>>

\* The process ends, at any point or by log.Fatalf, and is started again: every
\* request is gone, the file stays as it is.
ProcessEnds ==
    /\ pc' = [r \in Request |-> "idle"]
    /\ op' = [r \in Request |-> "info"]
    /\ cid' = [r \in Request |-> AnyCid]
    /\ list' = [r \in Request |-> None]
    /\ yes' = [r \in Request |-> FALSE]
    /\ since' = [r \in Request |-> "absent"]
    /\ alone' = [r \in Request |-> FALSE]
    /\ broken' = (broken \/ \E r \in Request : pc[r] = "fill")
    /\ UNCHANGED <<file, accepted>>

\* The error of Unmarshal logged only, and the caller goes on with no list.
BadGetOldCid(r) ==
    /\ pc[r] = "read"
    /\ list' = [list EXCEPT ![r] = IF file = Torn THEN None ELSE file]
    /\ Goto(r, "decide")
    /\ UNCHANGED <<file, op, cid, yes, since, history>>

GetOldCid(r) ==
    /\ pc[r] = "read"
    /\ \/ file = Torn /\ ProcessEnds
       \/ /\ file # Torn
          /\ list' = [list EXCEPT ![r] = file]
          /\ Goto(r, "decide")
          /\ UNCHANGED <<file, op, cid, yes, since, history>>

Decides(r, o) == pc[r] = "decide" /\ op[r] = o

Reads(r, result) ==
    /\ yes' = [yes EXCEPT ![r] = result]
    /\ list' = [list EXCEPT ![r] = None]
    /\ Goto(r, "answer")
    /\ UNCHANGED <<file, op, cid, since, history>>

\* The test of IsCover left out.
BadDoCidInfo(r) == Decides(r, "info") /\ Reads(r, list[r][cid[r]] # "absent")

\* is_old_cid; of an old cid the accounts are asked for next, which changes
\* nothing and may fail.
DoCidInfo(r) ==
    /\ Decides(r, "info")
    /\ \/ Reads(r, list[r][cid[r]] = "plain")
       \/ list[r][cid[r]] = "plain" /\ Refuse(r)

\* The account is looked up before the file is read: not there, or an error.
AccountNotFound(r) ==
    /\ pc[r] = "read" /\ op[r] = "query"
    /\ Refuse(r)

DoQueryCid(r) == Decides(r, "query") /\ Reads(r, list[r][cid[r]] # "absent")

\* The change to the list, written if the handler goes on and else answered
\* with "params invalid".
Changes(r, allowed, status) ==
    \/ /\ allowed
       /\ list' = [list EXCEPT ![r][cid[r]] = status]
       /\ Goto(r, "truncate")
       /\ UNCHANGED <<file, op, cid, yes, since, history>>
    \/ ~allowed /\ Refuse(r)

\* The entry made anew whether or not there is one.
BadDoAddTestCid(r) == Decides(r, "add") /\ Changes(r, TRUE, "plain")

DoAddTestCid(r) == Decides(r, "add") /\ Changes(r, list[r][cid[r]] = "absent", "plain")

DoCoverCid(r) == Decides(r, "cover") /\ Changes(r, list[r][cid[r]] = "plain", "covered")

\* WriteFile opens the file, which empties it, ...
Truncate(r) ==
    /\ pc[r] = "truncate"
    /\ file' = Torn
    /\ broken' = (broken \/ \E w \in Request : pc[w] = "fill")
    /\ Goto(r, "fill")
    /\ UNCHANGED <<request, accepted, alone>>

\* A request that has read the file to change it and has not written it yet.
Changing(r) == op[r] \in {"add", "cover"} /\ pc[r] \in {"decide", "truncate", "fill"}

\* ... and writes from its beginning: what another writer has put there since
\* stays behind the end of a shorter list.
Fill(r) ==
    /\ pc[r] = "fill"
    /\ file' = IF file # Torn /\ Size(file) > Size(list[r]) THEN Torn ELSE list[r]
    /\ alone' = [alone EXCEPT ![r] = ~\E w \in Request \ {r} : Changing(w)]
    /\ Goto(r, "answer")
    /\ UNCHANGED <<request, accepted, broken>>

\* The write fails (a full disk): "updateOldCid err", and the file stays empty.
FillFails(r) ==
    /\ pc[r] = "fill"
    /\ Finish(r)
    /\ broken' = TRUE
    /\ UNCHANGED <<accepted, alone>>

\* What a client can rely on after the answer to r: a change that was written
\* while no other was under way.  A cover is not undone by an addition that was
\* written before it and answered after.
Promised(r) ==
    IF op[r] = "add" /\ accepted[cid[r]] = "covered" THEN "covered" ELSE list[r][cid[r]]

\* The answer; of a change, that it was made.
Answer(r) ==
    /\ pc[r] = "answer"
    /\ accepted' = IF op[r] \in {"add", "cover"} /\ alone[r]
                   THEN [accepted EXCEPT ![cid[r]] = Promised(r)] ELSE accepted
    /\ alone' = [alone EXCEPT ![r] = FALSE]
    /\ Finish(r)
    /\ UNCHANGED broken

RequestStep(r) ==
    \/ Receive(r) \/ AccountNotFound(r) \/ GetOldCid(r)
    \/ DoCidInfo(r) \/ DoQueryCid(r) \/ DoAddTestCid(r) \/ DoCoverCid(r)
    \/ Truncate(r) \/ Fill(r) \/ FillFails(r) \/ Answer(r)

Next == ProcessEnds \/ \E r \in Request : RequestStep(r)

Spec == Init /\ [][Next]_vars

-----------------------------------------------------------------------------
(* Properties.                                                             *)

\* A change that was written while no other was under way, and answered with
\* success (AddTestCid, CoverCid), is not lost to any change that comes after,
\* however those overlap: every list the file holds has it.  The file is lost as
\* a whole, and all that was ever answered with it, by two things that nothing
\* in the code prevents: a write that fails or dies after the truncation, and
\* two writes at a time.  Short of those it is unreadable only while written.
AcceptedStays ==
    /\ file # Torn =>
         \A c \in Cid :
             /\ accepted[c] = "covered" => file[c] = "covered"
             /\ accepted[c] = "plain" => file[c] # "absent"
    /\ file = Torn => broken \/ \E w \in Request : pc[w] = "fill"

\* A request that came after such an answer goes by it, although writers empty
\* the file on the way, overlap, and die: a covered cid is no old cid and is not
\* covered again, one that was added is found and is not added again.
AnswersAreFresh ==
    \A r \in Request :
        pc[r] = "answer" =>
            /\ op[r] = "info" /\ since[r] = "covered" => ~yes[r]
            /\ op[r] = "query" /\ since[r] # "absent" => yes[r]
            /\ op[r] = "add" => since[r] = "absent"
            /\ op[r] = "cover" => since[r] # "covered"

\* "cid not found or has been covered": a cid is covered once, so that of two
\* requests that cover the same one at most one is told it has done so.
CoveredOnce ==
    \A r, s \in Request :
        /\ pc[r] = "answer" /\ op[r] = "cover"
        /\ pc[s] = "answer" /\ op[s] = "cover" /\ cid[s] = cid[r]
        => r = s

=============================================================================
