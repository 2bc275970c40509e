-------------------------- MODULE OldCidFileProofs --------------------------
(***************************************************************************)
(* Proofs about OldCidFile: for any file, any cids and any number of       *)
(* requests, all of which may change it at the same time.                  *)
(***************************************************************************)
EXTENDS OldCidFile, TLAPS

-----------------------------------------------------------------------------
(* The order of a cid's life: absent, plain, covered.                      *)

NotBelow(s, a) == (a = "covered" => s = "covered") /\ (a = "plain" => s # "absent")

AtLeast(l, m) == \A c \in Cid : NotBelow(l[c], m[c])

LEMMA NotBelowOrder ==
    /\ \A s \in Status : NotBelow(s, s) /\ NotBelow(s, "absent")
    /\ \A s, t, u \in Status : NotBelow(s, t) /\ NotBelow(t, u) => NotBelow(s, u)
BY DEF NotBelow, Status

\* A list changed in one place upwards.
LEMMA Raised ==
    ASSUME NEW l \in List, NEW c \in Cid, NEW s \in Status, NotBelow(s, l[c])
    PROVE  /\ [l EXCEPT ![c] = s] \in List
           /\ [l EXCEPT ![c] = s][c] = s
           /\ AtLeast([l EXCEPT ![c] = s], l)
BY NotBelowOrder DEF List, AtLeast

\* An order between two of them goes by steps.
LEMMA AtLeastOrder ==
    ASSUME NEW l \in List, NEW m \in List, NEW n \in List, AtLeast(l, m), AtLeast(m, n)
    PROVE  AtLeast(l, n)
BY NotBelowOrder DEF List, AtLeast

-----------------------------------------------------------------------------
(* The inductive invariant.                                                *)

\* A change that no other one met has been written, and not yet been answered.
Written(r) == pc[r] = "answer" /\ op[r] \in {"add", "cover"} /\ alone[r]

\* A list with everything promised, or about to be.
Held(l) ==
    /\ AtLeast(l, accepted)
    /\ \A s \in Request : Written(s) => NotBelow(l[cid[s]], list[s][cid[s]])

FileHolds == file # Torn => Held(file)

\* So has each list that may yet be written: who read before a change was
\* written is under way when it is, and then the change is not alone.
ListsHold == \A r \in Request : Changing(r) => list[r] \in List /\ Held(list[r])

\* A list on its way to the file, and after, has the change it was made for.
ChangeMade ==
    \A r \in Request :
        pc[r] \in {"truncate", "fill", "answer"} /\ op[r] \in {"add", "cover"}
            => list[r][cid[r]] = IF op[r] = "cover" THEN "covered" ELSE "plain"

\* Until a write is cut off or meets another, one writes at a time, and finds
\* the file as it has emptied it.
OneWrites ==
    ~broken =>
        /\ \A r, s \in Request : pc[r] = "fill" /\ pc[s] = "fill" => r = s
        /\ file = Torn <=> \E w \in Request : pc[w] = "fill"

\* What a request has seen of its cid is not older than the promise it came
\* with, and a change that goes on did not come after its like.
SeenFresh ==
    \A r \in Request :
        /\ pc[r] = "read" => NotBelow(accepted[cid[r]], since[r])
        /\ pc[r] = "decide" => NotBelow(list[r][cid[r]], since[r])
        /\ pc[r] \in {"truncate", "fill"} =>
             /\ op[r] = "add" => since[r] = "absent"
             /\ op[r] = "cover" => since[r] # "covered"

FileInv ==
    /\ OldCidTypeOK
    /\ FileHolds /\ ListsHold /\ ChangeMade /\ OneWrites /\ SeenFresh
    /\ AnswersAreFresh

LEMMA AnyCidIsCid == AnyCid \in Cid
BY OldCidAssumption DEF AnyCid

LEMMA FileInit == Init => FileInv
<1> SUFFICES ASSUME Init PROVE FileInv
  OBVIOUS
<1>1. OldCidTypeOK
  BY AnyCidIsCid, OldCidAssumption DEF Init, OldCidTypeOK, Status
<1>2. AtLeast(OldCids, OldCids)
  BY NotBelowOrder, OldCidAssumption DEF AtLeast, List
<1>3. Held(OldCids)
  BY <1>2 DEF Held, Written, Init
<1>4. FileHolds /\ ListsHold /\ ChangeMade /\ OneWrites /\ SeenFresh /\ AnswersAreFresh
  BY <1>3, OldCidAssumption DEF Init, FileHolds, ListsHold, Changing, ChangeMade,
     OneWrites, SeenFresh, AnswersAreFresh
<1> QED BY <1>1, <1>4 DEF FileInv

\* The end of the process takes the requests and leaves the rest.
LEMMA EndsKeeps ==
    ASSUME FileInv, ProcessEnds
    PROVE  FileInv'
<1>1. \A r \in Request : pc'[r] = "idle"
  BY DEF ProcessEnds
<1>2. OldCidTypeOK'
  BY AnyCidIsCid DEF FileInv, OldCidTypeOK, ProcessEnds, Status
<1>3. FileHolds'
  BY <1>1 DEF FileInv, FileHolds, Held, Written, ProcessEnds, AtLeast
<1>4. OneWrites'
  BY <1>1 DEF FileInv, OneWrites, ProcessEnds
<1>5. ListsHold' /\ ChangeMade' /\ SeenFresh' /\ AnswersAreFresh'
  BY <1>1 DEF ListsHold, Changing, ChangeMade, SeenFresh, AnswersAreFresh
<1> QED BY <1>2, <1>3, <1>4, <1>5 DEF FileInv

-----------------------------------------------------------------------------
(* Type correctness, one kind of step at a time.                           *)

LEMMA FinishKeepsType ==
    ASSUME OldCidTypeOK, NEW r \in Request, Finish(r), accepted' \in List,
           alone' \in [Request -> BOOLEAN], broken' \in BOOLEAN
    PROVE  OldCidTypeOK'
BY AnyCidIsCid DEF OldCidTypeOK, Finish, Goto, Status

LEMMA TypeStep ==
    ASSUME OldCidTypeOK, NEW r \in Request, RequestStep(r), ~ProcessEnds
    PROVE  OldCidTypeOK'
<1>1. CASE Receive(r)
  BY <1>1 DEF OldCidTypeOK, Receive, Goto, history, List
<1>2. CASE GetOldCid(r)
  <2>1. file \in List /\ file # None
    BY <1>2, OldCidAssumption DEF OldCidTypeOK, GetOldCid
  <2> QED BY <1>2, <2>1 DEF OldCidTypeOK, GetOldCid, Goto, history
<1>3. ASSUME Refuse(r)
      PROVE  OldCidTypeOK'
  BY <1>3, FinishKeepsType DEF OldCidTypeOK, Refuse, history
<1>4. ASSUME NEW o \in {"info", "query"}, Decides(r, o),
             NEW result \in BOOLEAN, Reads(r, result)
      PROVE  OldCidTypeOK'
  BY <1>4 DEF OldCidTypeOK, Decides, Reads, Goto, history
<1>5. CASE AccountNotFound(r) \/ DoCidInfo(r) \/ DoQueryCid(r)
  BY <1>3, <1>4, <1>5 DEF AccountNotFound, DoCidInfo, DoQueryCid
<1>6. CASE DoAddTestCid(r) \/ DoCoverCid(r)
  <2>1. /\ pc[r] = "decide" /\ op[r] \in {"add", "cover"}
        /\ \E allowed \in BOOLEAN, status \in Status : Changes(r, allowed, status)
    BY <1>6 DEF DoAddTestCid, DoCoverCid, Decides, Status
  <2>2. PICK allowed \in BOOLEAN, status \in Status : Changes(r, allowed, status)
    BY <2>1
  <2>3. CASE Refuse(r)
    BY <1>3, <2>3
  <2>4. CASE ~Refuse(r)
    <3>1. list[r] \in List /\ cid[r] \in Cid
      BY <2>1 DEF OldCidTypeOK
    <3>2. [list[r] EXCEPT ![cid[r]] = status] \in List
      BY <3>1 DEF List
    <3>3. list' = [list EXCEPT ![r] = [list[r] EXCEPT ![cid[r]] = status]]
      BY <2>2, <2>4 DEF OldCidTypeOK, Changes
    <3>4. list' \in [Request -> List \union {None}] /\ list'[r] # None
      BY <3>2, <3>3, OldCidAssumption DEF OldCidTypeOK
    <3>5. \A s \in Request : s # r => list'[s] = list[s]
      BY <3>3 DEF OldCidTypeOK
    <3> QED BY <2>1, <2>2, <2>4, <3>4, <3>5 DEF OldCidTypeOK, Changes, Goto, history
  <2> QED BY <2>3, <2>4
<1>7. CASE Truncate(r)
  BY <1>7 DEF OldCidTypeOK, Truncate, Goto, request
<1>8. CASE Fill(r)
  <2>1. list[r] \in List /\ op[r] \in {"add", "cover"}
    BY <1>8 DEF OldCidTypeOK, Fill
  <2>2. file' \in List \union {Torn}
    BY <1>8, <2>1 DEF Fill
  <2> QED BY <1>8, <2>1, <2>2 DEF OldCidTypeOK, Fill, Goto, request
<1>9. CASE FillFails(r)
  BY <1>9, FinishKeepsType DEF OldCidTypeOK, FillFails
<1>10. CASE Answer(r)
  <2>1. cid[r] \in Cid /\ accepted \in List
    BY DEF OldCidTypeOK
  <2>2. accepted' \in List
    <3>1. CASE op[r] \in {"add", "cover"} /\ alone[r]
      <4>1. list[r] \in List
        BY <1>10, <3>1 DEF Answer, OldCidTypeOK
      <4>2. Promised(r) \in Status
        BY <2>1, <4>1 DEF Promised, List, Status
      <4> QED BY <1>10, <2>1, <3>1, <4>2 DEF Answer, List
    <3> QED BY <1>10, <2>1, <3>1 DEF Answer
  <2> QED BY <1>10, <2>2, FinishKeepsType DEF OldCidTypeOK, Answer
<1> QED BY <1>1, <1>2, <1>5, <1>6, <1>7, <1>8, <1>9, <1>10 DEF RequestStep

-----------------------------------------------------------------------------
(* What a step leaves alone.                                               *)

\* The others' steps leave a request where it is.
LEMMA OthersStay ==
    ASSUME OldCidTypeOK, NEW r \in Request, RequestStep(r), ~ProcessEnds,
           NEW s \in Request, s # r
    PROVE  /\ pc'[s] = pc[s] /\ op'[s] = op[s] /\ cid'[s] = cid[s]
           /\ list'[s] = list[s] /\ yes'[s] = yes[s] /\ since'[s] = since[s]
           /\ alone'[s] = alone[s]
<1>1. CASE Receive(r) \/ GetOldCid(r)
  BY <1>1 DEF OldCidTypeOK, Receive, GetOldCid, Goto, history
<1>2. CASE AccountNotFound(r) \/ DoCidInfo(r) \/ DoQueryCid(r)
  BY <1>2 DEF OldCidTypeOK, AccountNotFound, DoCidInfo, DoQueryCid, Reads, Refuse,
     Finish, Goto, history
<1>3. CASE DoAddTestCid(r) \/ DoCoverCid(r)
  BY <1>3 DEF OldCidTypeOK, DoAddTestCid, DoCoverCid, Changes, Refuse, Finish, Goto, history
<1>4. CASE Truncate(r) \/ Fill(r)
  BY <1>4 DEF OldCidTypeOK, Truncate, Fill, Goto, request
<1>5. CASE FillFails(r) \/ Answer(r)
  BY <1>5 DEF OldCidTypeOK, FillFails, Answer, Finish, Goto
<1> QED BY <1>1, <1>2, <1>3, <1>4, <1>5 DEF RequestStep

\* Only a write touches the file, and only an answer what was accepted.
LEMMA FileStays ==
    ASSUME NEW r \in Request, RequestStep(r), ~ProcessEnds
    PROVE  /\ ~Truncate(r) /\ ~Fill(r) => file' = file
           /\ ~Answer(r) => accepted' = accepted
           /\ ~Truncate(r) /\ ~FillFails(r) => broken' = broken
BY DEF RequestStep, Receive, GetOldCid, AccountNotFound, DoCidInfo, DoQueryCid,
   DoAddTestCid, DoCoverCid, Reads, Changes, Truncate, Fill, FillFails, Answer, Refuse,
   Finish, history, request

\* The ways a request gets to writing.
LEMMA OwnStep ==
    ASSUME OldCidTypeOK, NEW r \in Request, RequestStep(r), ~ProcessEnds
    PROVE  \/ pc'[r] = "idle"
           \/ pc'[r] = "read"
           \/ /\ GetOldCid(r) /\ pc[r] = "read" /\ pc'[r] = "decide"
              /\ file \in List /\ list'[r] = file
              /\ op'[r] = op[r] /\ cid'[r] = cid[r] /\ since'[r] = since[r]
           \/ \E o \in {"info", "query"} :
                /\ op[r] = o /\ op'[r] = o /\ pc[r] = "decide" /\ pc'[r] = "answer"
                /\ since'[r] = since[r]
                /\ o = "info" => yes'[r] = (list[r][cid[r]] = "plain")
                /\ o = "query" => yes'[r] = (list[r][cid[r]] # "absent")
           \/ \E s \in {"plain", "covered"} :
                /\ pc[r] = "decide" /\ pc'[r] = "truncate"
                /\ op[r] = (IF s = "covered" THEN "cover" ELSE "add")
                /\ list[r][cid[r]] = (IF s = "covered" THEN "plain" ELSE "absent")
                /\ list'[r] = [list[r] EXCEPT ![cid[r]] = s]
                /\ op'[r] = op[r] /\ cid'[r] = cid[r] /\ since'[r] = since[r]
           \/ /\ \/ Truncate(r) /\ pc[r] = "truncate" /\ pc'[r] = "fill"
                 \/ Fill(r) /\ pc[r] = "fill" /\ pc'[r] = "answer"
              /\ list'[r] = list[r]
              /\ op'[r] = op[r] /\ cid'[r] = cid[r] /\ since'[r] = since[r]
<1>1. CASE Receive(r)
  BY <1>1 DEF OldCidTypeOK, Receive, Goto
<1>2. CASE GetOldCid(r)
  BY <1>2 DEF OldCidTypeOK, GetOldCid, Goto
<1>3. ASSUME Finish(r)
      PROVE  pc'[r] = "idle"
  BY <1>3 DEF OldCidTypeOK, Finish, Goto
<1>4. CASE AccountNotFound(r) \/ FillFails(r) \/ Answer(r)
  BY <1>3, <1>4 DEF AccountNotFound, FillFails, Answer, Refuse
<1>5. CASE DoCidInfo(r) \/ DoQueryCid(r)
  BY <1>3, <1>5 DEF OldCidTypeOK, DoCidInfo, DoQueryCid, Decides, Reads, Refuse, Goto
<1>6. CASE DoAddTestCid(r) \/ DoCoverCid(r)
  BY <1>3, <1>6 DEF OldCidTypeOK, DoAddTestCid, DoCoverCid, Decides, Changes, Refuse, Goto
<1>7. CASE Truncate(r) \/ Fill(r)
  BY <1>7 DEF OldCidTypeOK, Truncate, Fill, Goto, request
<1> QED BY <1>1, <1>2, <1>4, <1>5, <1>6, <1>7 DEF RequestStep

-----------------------------------------------------------------------------
(* The promises only grow, and lists keep them.                            *)

LEMMA PromisesGrow ==
    ASSUME FileInv, NEW r \in Request, Answer(r)
    PROVE  /\ AtLeast(accepted', accepted)
           /\ \A l \in List : Held(l) => AtLeast(l, accepted')
<1>1. accepted \in List /\ cid[r] \in Cid
  BY DEF FileInv, OldCidTypeOK
<1>2. AtLeast(accepted, accepted)
  BY <1>1, NotBelowOrder DEF AtLeast, List
<1>3. CASE op[r] \in {"add", "cover"} /\ alone[r]
  <2>1. accepted' = [accepted EXCEPT ![cid[r]] = Promised(r)] /\ Written(r)
    BY <1>3 DEF Answer, Written
  <2>2. list[r][cid[r]] = IF op[r] = "cover" THEN "covered" ELSE "plain"
    BY <1>3 DEF Answer, FileInv, ChangeMade
  <2>3. Promised(r) \in {accepted[cid[r]], list[r][cid[r]]} /\ Promised(r) \in Status
    BY <1>1, <2>2 DEF Promised, Status
  <2>4. NotBelow(Promised(r), accepted[cid[r]])
    BY <1>1, <1>3, <2>2 DEF Promised, NotBelow, List, Status
  <2>5. AtLeast(accepted', accepted)
    BY <1>1, <2>1, <2>3, <2>4, Raised
  <2>6. ASSUME NEW l \in List, Held(l)
        PROVE  AtLeast(l, accepted')
    <3>1. NotBelow(l[cid[r]], Promised(r))
      BY <1>1, <2>1, <2>3, <2>6 DEF Held, AtLeast
    <3>2. \A c \in Cid : accepted'[c] = IF c = cid[r] THEN Promised(r) ELSE accepted[c]
      BY <1>1, <2>1 DEF List
    <3> QED BY <2>6, <3>1, <3>2 DEF Held, AtLeast
  <2> QED BY <2>5, <2>6
<1>4. CASE ~(op[r] \in {"add", "cover"} /\ alone[r])
  BY <1>2, <1>4 DEF Answer, Held
<1> QED BY <1>3, <1>4

\* A list that holds what it must goes on to do so, unless a change is written
\* that no other was under way to meet, and the list is without it.
LEMMA HeldStays ==
    ASSUME FileInv, NEW r \in Request, RequestStep(r), ~ProcessEnds,
           NEW l \in List, Held(l),
           Fill(r) /\ alone'[r] => NotBelow(l[cid[r]], list[r][cid[r]])
    PROVE  Held(l)'
<1>1. OldCidTypeOK
  BY DEF FileInv
<1>2. AtLeast(l, accepted')
  BY PromisesGrow, FileStays DEF Held
<1>3. ASSUME NEW s \in Request, Written(s)'
      PROVE  NotBelow(l[cid'[s]], list'[s][cid'[s]])
  <2>1. CASE s # r
    BY <1>1, <1>3, <2>1, OthersStay DEF Held, Written
  <2>2. CASE s = r
    BY <1>1, <1>3, <2>2, OwnStep DEF Written
  <2> QED BY <2>1, <2>2
<1> QED BY <1>2, <1>3 DEF Held

LEMMA HeldRaised ==
    ASSUME OldCidTypeOK, NEW l \in List, NEW m \in List, Held(l), AtLeast(m, l),
           \A s \in Request : Written(s) => list[s] \in List
    PROVE  Held(m)
<1>1. accepted \in List /\ \A s \in Request : cid[s] \in Cid
  BY DEF OldCidTypeOK
<1>2. AtLeast(m, accepted)
  BY <1>1, AtLeastOrder DEF Held
<1>3. ASSUME NEW s \in Request, Written(s)
      PROVE  NotBelow(m[cid[s]], list[s][cid[s]])
  <2>1. NotBelow(m[cid[s]], l[cid[s]]) /\ NotBelow(l[cid[s]], list[s][cid[s]])
    BY <1>1, <1>3 DEF Held, AtLeast
  <2>2. m[cid[s]] \in Status /\ l[cid[s]] \in Status /\ list[s][cid[s]] \in Status
    BY <1>1, <1>3 DEF List
  <2> QED BY <2>1, <2>2, NotBelowOrder
<1> QED BY <1>2, <1>3 DEF Held

LEMMA FileHoldsStep ==
    ASSUME FileInv, NEW r \in Request, RequestStep(r), ~ProcessEnds
    PROVE  FileHolds'
<1> SUFFICES ASSUME file' # Torn
             PROVE  Held(file)'
  BY DEF FileHolds
<1>1. CASE Fill(r)
  <2>1. Changing(r) /\ file' = list[r]
    BY <1>1 DEF Fill, Changing, FileInv, OldCidTypeOK
  <2>2. list[r] \in List /\ Held(list[r]) /\ cid[r] \in Cid
    BY <2>1 DEF FileInv, ListsHold, OldCidTypeOK
  <2>3. NotBelow(list[r][cid[r]], list[r][cid[r]])
    BY <2>2, NotBelowOrder DEF List
  <2>4. ASSUME NEW l \in List, l = list[r]
        PROVE  Held(l)'
    BY <2>2, <2>3, <2>4, HeldStays
  <2> QED BY <2>1, <2>2, <2>4 DEF Held, AtLeast
<1>2. CASE ~Fill(r)
  <2>1. ~Truncate(r)
    BY DEF Truncate
  <2>2. file' = file /\ file \in List /\ Held(file)
    BY <1>2, <2>1, FileStays DEF FileInv, FileHolds, OldCidTypeOK
  <2>3. ASSUME NEW l \in List, l = file
        PROVE  Held(l)'
    BY <1>2, <2>2, <2>3, HeldStays
  <2> QED BY <2>2, <2>3 DEF Held, AtLeast
<1> QED BY <1>1, <1>2

LEMMA ListsHoldStep ==
    ASSUME FileInv, NEW r \in Request, RequestStep(r), ~ProcessEnds
    PROVE  ListsHold'
<1>1. OldCidTypeOK /\ \A s \in Request : cid[s] \in Cid
  BY DEF FileInv, OldCidTypeOK
<1>2. ASSUME NEW w \in Request, Changing(w)'
      PROVE  list'[w] \in List /\ Held(list[w])'
  <2>1. CASE w # r
    <3>1. list'[w] = list[w] /\ Changing(w)
      BY <1>1, <1>2, <2>1, OthersStay DEF Changing
    <3>2. list[w] \in List /\ Held(list[w])
      BY <3>1 DEF FileInv, ListsHold
    <3>3. Fill(r) => ~alone'[r]
      BY <1>1, <2>1, <3>1 DEF Fill, OldCidTypeOK
    <3>4. ASSUME NEW l \in List, l = list[w]
          PROVE  Held(l)'
      BY <3>2, <3>3, <3>4, HeldStays
    <3> QED BY <3>1, <3>2, <3>4 DEF Held, AtLeast
  <2>2. CASE w = r
    <3>1. \E l \in List : Held(l) /\ l = list'[r] /\ ~Fill(r)
      <4>1. CASE GetOldCid(r) /\ file \in List /\ list'[r] = file
        <5>1. ~Fill(r) /\ Held(file)
          BY <4>1, OldCidAssumption DEF GetOldCid, Fill, FileInv, FileHolds
        <5> QED BY <4>1, <5>1
      <4>2. ASSUME NEW s \in {"plain", "covered"}, pc[r] = "decide",
                   op[r] = (IF s = "covered" THEN "cover" ELSE "add"),
                   list[r][cid[r]] = (IF s = "covered" THEN "plain" ELSE "absent"),
                   list'[r] = [list[r] EXCEPT ![cid[r]] = s]
            PROVE  \E l \in List : Held(l) /\ l = list'[r] /\ ~Fill(r)
        <5>1. list[r] \in List /\ Held(list[r])
          BY <4>2 DEF Changing, FileInv, ListsHold
        <5>2. NotBelow(s, list[r][cid[r]]) /\ s \in Status
          BY <4>2 DEF NotBelow, Status
        <5>3. list'[r] \in List /\ AtLeast(list'[r], list[r])
          BY <1>1, <4>2, <5>1, <5>2, Raised
        <5>4. \A t \in Request : Written(t) => list[t] \in List
          BY <1>1 DEF Written, OldCidTypeOK
        <5>5. ASSUME NEW l \in List, NEW m \in List, l = list[r], m = list'[r]
              PROVE  Held(m)
          BY <1>1, <5>1, <5>3, <5>4, <5>5, HeldRaised
        <5>6. Held(list'[r])
          BY <5>1, <5>3, <5>5
        <5> QED BY <4>2, <5>3, <5>6 DEF Fill
      <4>3. CASE Truncate(r) /\ pc[r] = "truncate" /\ list'[r] = list[r]
        <5>1. Changing(r)
          BY <1>1, <4>3 DEF Changing, OldCidTypeOK
        <5> QED BY <4>3, <5>1 DEF FileInv, ListsHold, Fill
      <4> QED BY <1>1, <1>2, <2>2, <4>1, <4>2, <4>3, OwnStep DEF Changing
    <3>2. PICK l \in List : Held(l) /\ l = list'[r] /\ ~Fill(r)
      BY <3>1
    <3>3. Held(l)'
      BY <3>2, HeldStays
    <3> QED BY <2>2, <3>2, <3>3 DEF Held, AtLeast
  <2> QED BY <2>1, <2>2
<1> QED BY <1>2 DEF ListsHold

-----------------------------------------------------------------------------
(* The other parts of the invariant.                                       *)

LEMMA ChangeMadeStep ==
    ASSUME FileInv, NEW r \in Request, RequestStep(r), ~ProcessEnds
    PROVE  ChangeMade'
<1>1. OldCidTypeOK
  BY DEF FileInv
<1>2. ASSUME NEW s \in Request, pc'[s] \in {"truncate", "fill", "answer"},
             op'[s] \in {"add", "cover"}
      PROVE  list'[s][cid'[s]] = IF op'[s] = "cover" THEN "covered" ELSE "plain"
  <2>1. CASE s # r
    BY <1>1, <1>2, <2>1, OthersStay DEF FileInv, ChangeMade
  <2>2. CASE s = r
    <3>1. ASSUME NEW t \in {"plain", "covered"}, pc[r] = "decide",
                 op[r] = (IF t = "covered" THEN "cover" ELSE "add"),
                 list'[r] = [list[r] EXCEPT ![cid[r]] = t],
                 op'[r] = op[r], cid'[r] = cid[r]
          PROVE  list'[r][cid'[r]] = IF op'[r] = "cover" THEN "covered" ELSE "plain"
      <4>1. list[r] \in List /\ cid[r] \in Cid
        BY <1>1, <3>1 DEF OldCidTypeOK
      <4> QED BY <3>1, <4>1 DEF List
    <3>2. CASE /\ pc[r] \in {"truncate", "fill"}
               /\ list'[r] = list[r] /\ op'[r] = op[r] /\ cid'[r] = cid[r]
      BY <1>2, <2>2, <3>2 DEF FileInv, ChangeMade
    <3> QED BY <1>1, <1>2, <2>2, <3>1, <3>2, OwnStep
  <2> QED BY <2>1, <2>2
<1> QED BY <1>2 DEF ChangeMade

LEMMA OneWritesStep ==
    ASSUME FileInv, NEW r \in Request, RequestStep(r), ~ProcessEnds
    PROVE  OneWrites'
<1> SUFFICES ASSUME ~broken'
             PROVE  /\ \A s, t \in Request : pc'[s] = "fill" /\ pc'[t] = "fill" => s = t
                    /\ file' = Torn <=> \E w \in Request : pc'[w] = "fill"
  BY DEF OneWrites
<1>1. OldCidTypeOK /\ r \in Request
  BY DEF FileInv
<1>2. ~broken /\ ~FillFails(r)
  BY FileStays DEF Truncate, FillFails
<1>3. /\ \A s, t \in Request : pc[s] = "fill" /\ pc[t] = "fill" => s = t
      /\ file = Torn <=> \E w \in Request : pc[w] = "fill"
  BY <1>2 DEF FileInv, OneWrites
<1>4. \A s \in Request : s # r => pc'[s] = pc[s]
  BY <1>1, OthersStay
<1>5. CASE Truncate(r)
  <2>1. file' = Torn /\ pc'[r] = "fill" /\ \A w \in Request : pc[w] # "fill"
    BY <1>1, <1>5 DEF Truncate, Goto, OldCidTypeOK
  <2> QED BY <1>4, <2>1
<1>6. CASE Fill(r)
  <2>1. pc[r] = "fill" /\ file = Torn /\ file' = list[r] /\ pc'[r] = "answer"
    BY <1>1, <1>3, <1>6 DEF Fill, Goto, OldCidTypeOK
  <2>2. file' # Torn
    BY <1>1, <2>1, OldCidAssumption DEF OldCidTypeOK
  <2>3. \A w \in Request : pc'[w] # "fill"
    BY <1>3, <1>4, <2>1
  <2> QED BY <2>2, <2>3
<1>7. CASE ~Truncate(r) /\ ~Fill(r)
  <2>1. file' = file
    BY <1>7, FileStays
  <2>2. pc[r] # "fill" /\ pc'[r] # "fill"
    <3>1. pc[r] # "fill"
      BY <1>2, <1>7 DEF RequestStep, Receive, GetOldCid, AccountNotFound, DoCidInfo,
         DoQueryCid, DoAddTestCid, DoCoverCid, Decides, Answer
    <3>2. pc'[r] # "fill"
      BY <1>1, <1>7, OwnStep
    <3> QED BY <3>1, <3>2
  <2> QED BY <1>3, <1>4, <2>1, <2>2
<1> QED BY <1>5, <1>6, <1>7

LEMMA FreshStep ==
    ASSUME FileInv, NEW r \in Request, RequestStep(r), ~ProcessEnds
    PROVE  SeenFresh' /\ AnswersAreFresh'
<1>1. /\ OldCidTypeOK
      /\ accepted \in List /\ accepted' \in List
      /\ \A s \in Request : cid[s] \in Cid /\ since[s] \in Status
  BY TypeStep DEF FileInv, OldCidTypeOK
<1>2. AtLeast(accepted', accepted)
  <2>1. AtLeast(accepted, accepted)
    BY <1>1, NotBelowOrder DEF AtLeast, List
  <2> QED BY <2>1, PromisesGrow, FileStays
<1> DEFINE
      Fresh(s) ==
        /\ pc'[s] = "read" => NotBelow(accepted'[cid'[s]], since'[s])
        /\ pc'[s] = "decide" => NotBelow(list'[s][cid'[s]], since'[s])
        /\ pc'[s] \in {"truncate", "fill", "answer"} =>
             /\ op'[s] = "add" => since'[s] = "absent"
             /\ op'[s] = "cover" => since'[s] # "covered"
        /\ pc'[s] = "answer" =>
             /\ op'[s] = "info" /\ since'[s] = "covered" => ~yes'[s]
             /\ op'[s] = "query" /\ since'[s] # "absent" => yes'[s]
<1>3. ASSUME NEW s \in Request, s # r
      PROVE  Fresh(s)
  <2>1. pc[s] = "read" => NotBelow(accepted'[cid[s]], since[s])
    BY <1>1, <1>2, NotBelowOrder DEF FileInv, SeenFresh, AtLeast, List
  <2> QED BY <1>1, <1>3, <2>1, OthersStay DEF FileInv, SeenFresh, AnswersAreFresh
<1>4. Fresh(r)
  <2>1. CASE pc'[r] = "idle"
    BY <2>1
  <2>2. CASE pc'[r] = "read"
    <3>1. Receive(r)
      BY <1>1, <2>2 DEF RequestStep, Receive, GetOldCid, AccountNotFound, DoCidInfo,
         DoQueryCid, DoAddTestCid, DoCoverCid, Reads, Changes, Truncate, Fill, FillFails,
         Answer, Refuse, Finish, Goto, OldCidTypeOK
    <3>2. PICK c \in Cid : /\ cid' = [cid EXCEPT ![r] = c]
                           /\ since' = [since EXCEPT ![r] = accepted[c]]
      BY <3>1 DEF Receive
    <3>3. cid'[r] = c /\ since'[r] = accepted[c] /\ accepted' = accepted
      BY <1>1, <3>1, <3>2 DEF Receive, OldCidTypeOK, history
    <3> QED BY <1>1, <2>2, <3>3, NotBelowOrder DEF List
  <2>3. CASE /\ GetOldCid(r) /\ pc[r] = "read" /\ pc'[r] = "decide"
             /\ file \in List /\ list'[r] = file
             /\ cid'[r] = cid[r] /\ since'[r] = since[r]
    <3>1. Held(file)
      BY <2>3, OldCidAssumption DEF FileInv, FileHolds
    <3>2. /\ NotBelow(file[cid[r]], accepted[cid[r]])
          /\ NotBelow(accepted[cid[r]], since[r])
          /\ file[cid[r]] \in Status /\ accepted[cid[r]] \in Status
      BY <1>1, <2>3, <3>1 DEF Held, AtLeast, FileInv, SeenFresh, List
    <3> QED BY <1>1, <2>3, <3>2, NotBelowOrder
  <2>4. CASE \E o \in {"info", "query"} :
               /\ op[r] = o /\ op'[r] = o /\ pc[r] = "decide" /\ pc'[r] = "answer"
               /\ since'[r] = since[r]
               /\ o = "info" => yes'[r] = (list[r][cid[r]] = "plain")
               /\ o = "query" => yes'[r] = (list[r][cid[r]] # "absent")
    <3>1. NotBelow(list[r][cid[r]], since[r]) /\ since[r] \in Status
      BY <1>1, <2>4 DEF FileInv, SeenFresh
    <3> QED BY <2>4, <3>1 DEF NotBelow, Status
  <2>5. CASE \E s \in {"plain", "covered"} :
               /\ pc[r] = "decide" /\ pc'[r] = "truncate"
               /\ op[r] = (IF s = "covered" THEN "cover" ELSE "add")
               /\ list[r][cid[r]] = (IF s = "covered" THEN "plain" ELSE "absent")
               /\ op'[r] = op[r] /\ since'[r] = since[r]
    <3>1. NotBelow(list[r][cid[r]], since[r]) /\ since[r] \in Status
      BY <1>1, <2>5 DEF FileInv, SeenFresh
    <3> QED BY <2>5, <3>1 DEF NotBelow, Status
  <2>6. CASE /\ pc[r] \in {"truncate", "fill"} /\ pc'[r] \in {"fill", "answer"}
             /\ op'[r] = op[r] /\ since'[r] = since[r]
    <3>1. op[r] \in {"add", "cover"}
      BY <1>1, <2>6 DEF OldCidTypeOK
    <3> QED BY <2>6, <3>1 DEF FileInv, SeenFresh
  <2> HIDE DEF Fresh
  <2> QED BY <1>1, <2>1, <2>2, <2>3, <2>4, <2>5, <2>6, OwnStep
<1>5. \A s \in Request : Fresh(s)
  BY <1>3, <1>4
<1> QED BY <1>5 DEF SeenFresh, AnswersAreFresh

LEMMA FileStep == FileInv /\ [Next]_vars => FileInv'
<1> SUFFICES ASSUME FileInv, [Next]_vars
             PROVE  FileInv'
  OBVIOUS
<1>1. CASE ProcessEnds
  BY <1>1, EndsKeeps
<1>2. ASSUME NEW r \in Request, RequestStep(r), ~ProcessEnds
      PROVE  FileInv'
  <2>1. OldCidTypeOK'
    BY <1>2, TypeStep DEF FileInv
  <2> QED BY <1>2, <2>1, FileHoldsStep, ListsHoldStep, ChangeMadeStep, OneWritesStep,
             FreshStep DEF FileInv
<1>3. CASE UNCHANGED vars
  BY <1>3 DEF FileInv, OldCidTypeOK, FileHolds, ListsHold, Changing, Held, Written,
     ChangeMade, OneWrites, SeenFresh, AnswersAreFresh, AtLeast, vars
<1> QED BY <1>1, <1>2, <1>3 DEF Next

LEMMA FileAlways == Spec => []FileInv
BY FileInit, FileStep, PTL DEF Spec

-----------------------------------------------------------------------------
(* The theorems.                                                           *)

\* Every variable keeps its type: a list that is written is one that was read
\* and changed, and only AddTestCid and CoverCid get as far as writing.
THEOREM OldCidTypeCorrect == Spec => []OldCidTypeOK
<1>1. FileInv => OldCidTypeOK
  BY DEF FileInv
<1> QED BY <1>1, FileAlways, PTL

\* However many requests change the file at a time, a change that was written
\* while no other was under way (updateOldCid), and answered with success, is in
\* every list the file holds from then on; and the file is unreadable only while
\* it is written, until a write is cut off or meets another one.
THEOREM AcceptedSurvives == Spec => []AcceptedStays
<1>1. FileInv => AcceptedStays
  BY DEF FileInv, FileHolds, Held, AtLeast, NotBelow, OneWrites, AcceptedStays
<1> QED BY <1>1, FileAlways, PTL

\* Whoever asks after such an answer sees what it promised, and whoever asks for
\* the same change is refused (getOldCid and the four handlers), however many
\* requests write the file meanwhile.
THEOREM FreshAnswers == Spec => []AnswersAreFresh
<1>1. FileInv => AnswersAreFresh
  BY DEF FileInv
<1> QED BY <1>1, FileAlways, PTL
=============================================================================
