-------------------------- MODULE SignallingProofs --------------------------
(***************************************************************************)
(* Proofs about Signalling: for any number of connections, pages and cids. *)
(***************************************************************************)
EXTENDS Signalling, TLAPS

Msg == [to : Cid \union {NoCid}, target : Conn \union {NoConn}, list : SUBSET Cid]

-----------------------------------------------------------------------------
(* Type correctness.                                                       *)

\* Setting one connection's message.
LEMMA MsgForm ==
    ASSUME SignallingTypeOK, NEW k \in Conn, NEW m \in Msg, msg' = [msg EXCEPT ![k] = m]
    PROVE  msg' \in [Conn -> Msg] /\ msg'[k] = m /\ \A j \in Conn : j # k => msg'[j] = msg[j]
<1>1. msg \in [Conn -> Msg]
  BY DEF SignallingTypeOK, Msg
<1> HIDE DEF Msg
<1> QED BY <1>1

LEMMA MsgSteps ==
    ASSUME SignallingTypeOK, NEW k \in Conn
    PROVE  /\ \A c \in Cid : msg' = [msg EXCEPT ![k].to = c] =>
                 msg' = [msg EXCEPT ![k] = [msg[k] EXCEPT !.to = c]]
           /\ \A t : msg' = [msg EXCEPT ![k].target = t] =>
                 msg' = [msg EXCEPT ![k] = [msg[k] EXCEPT !.target = t]]
           /\ \A L : msg' = [msg EXCEPT ![k].list = L] =>
                 msg' = [msg EXCEPT ![k] = [msg[k] EXCEPT !.list = L]]
           /\ msg[k] \in Msg
BY DEF SignallingTypeOK, Msg

LEMMA TypeInit == Init => SignallingTypeOK
BY SignallingAssumption DEF Init, SignallingTypeOK, NoMsg

\* Who is about to look an addressee up, or has, knows whom.
Addressed == \A k \in Conn : pc[k] \in {"route", "send"} => msg[k].to \in Cid

\* The message a step leaves its connection with: unless it is kept it is gone,
\* or one field of it is set.
LEMMA MsgAfter ==
    ASSUME SignallingTypeOK, Addressed, NEW k \in Conn, ConnStep(k)
    PROVE  \/ msg' = msg
           \/ msg' = [msg EXCEPT ![k] = NoMsg]
           \/ \E c \in Cid : msg' = [msg EXCEPT ![k].to = c]
           \/ \E t \in Conn : msg' = [msg EXCEPT ![k].target = t]
           \/ \E L \in SUBSET Cid : msg' = [msg EXCEPT ![k].list = L]
<1>1. PeersMap \in [Cid -> Conn \union {NoConn}]
  BY DEF SignallingTypeOK
<1>2. CASE Route(k)
  <2>1. pc[k] = "route" /\ msg[k].to \in Cid
    BY <1>2 DEF Route, Addressed
  <2>2. \/ msg' = [msg EXCEPT ![k] = NoMsg]
        \/ /\ PeersMap[msg[k].to] # NoConn
           /\ msg' = [msg EXCEPT ![k].target = PeersMap[msg[k].to]]
    BY <1>2 DEF Route, ReadOn
  <2> QED BY <1>1, <2>1, <2>2
<1>3. CASE ListPeers(k)
  <2>1. \/ msg' = [msg EXCEPT ![k] = NoMsg]
        \/ msg' = [msg EXCEPT ![k].list = Present \ {Own[k]}]
    BY <1>3 DEF ListPeers, ReadOn
  <2> QED BY <2>1 DEF Present
<1>4. CASE ReadJSON(k)
  BY <1>4 DEF ReadJSON
<1>5. ASSUME ~Route(k), ~ListPeers(k), ~ReadJSON(k)
      PROVE  msg' = msg \/ msg' = [msg EXCEPT ![k] = NoMsg]
  BY <1>5 DEF ConnStep, Upgrade, Lose, ReadFails, Join, Announced, Register, Reply,
     Send, Cleanup, WriterPanics, ReadOn
<1> QED BY <1>2, <1>3, <1>4, <1>5

LEMMA MsgType ==
    ASSUME SignallingTypeOK, Addressed, NEW k \in Conn, ConnStep(k)
    PROVE  msg' \in [Conn -> Msg] /\ \A j \in Conn : j # k => msg'[j] = msg[j]
<1>1. msg \in [Conn -> Msg] /\ msg[k] \in Msg
  BY MsgSteps DEF SignallingTypeOK, Msg
<1>2. CASE msg' = msg
  BY <1>1, <1>2
<1>3. ASSUME NEW m \in Msg, msg' = [msg EXCEPT ![k] = m]
      PROVE  msg' \in [Conn -> Msg] /\ \A j \in Conn : j # k => msg'[j] = msg[j]
  BY <1>3, MsgForm
<1>4. NoMsg \in Msg
  BY DEF Msg, NoMsg
<1>5. ASSUME NEW c \in Cid, msg' = [msg EXCEPT ![k].to = c]
      PROVE  \E m \in Msg : msg' = [msg EXCEPT ![k] = m]
  <2>1. [msg[k] EXCEPT !.to = c] \in Msg
    BY <1>1 DEF Msg
  <2> QED BY <1>5, <2>1, MsgSteps
<1>6. ASSUME NEW t \in Conn, msg' = [msg EXCEPT ![k].target = t]
      PROVE  \E m \in Msg : msg' = [msg EXCEPT ![k] = m]
  <2>1. [msg[k] EXCEPT !.target = t] \in Msg
    BY <1>1 DEF Msg
  <2> QED BY <1>6, <2>1, MsgSteps
<1>7. ASSUME NEW L \in SUBSET Cid, msg' = [msg EXCEPT ![k].list = L]
      PROVE  \E m \in Msg : msg' = [msg EXCEPT ![k] = m]
  <2>1. [msg[k] EXCEPT !.list = L] \in Msg
    BY <1>1 DEF Msg
  <2> QED BY <1>7, <2>1, MsgSteps
<1> HIDE DEF Msg
<1> QED BY <1>2, <1>3, <1>4, <1>5, <1>6, <1>7, MsgAfter

\* A connection's step leaves the others alone.
LEMMA Alone ==
    ASSUME SignallingTypeOK, Addressed, NEW k \in Conn, ConnStep(k), NEW j \in Conn, j # k
    PROVE  /\ pc'[j] = pc[j] /\ link'[j] = link[j] /\ msg'[j] = msg[j]
           /\ told'[j] = told[j] /\ Conn2Cid'[j] = Conn2Cid[j]
<1>1. msg'[j] = msg[j]
  BY MsgType
<1>2. pc'[j] = pc[j]
  BY DEF SignallingTypeOK, ConnStep, Upgrade, Lose, ReadJSON, ReadFails, Join, Announced,
     Register, ListPeers, Reply, Route, Send, Cleanup, WriterPanics, ReadOn, Goto
<1>3. link'[j] = link[j]
  BY DEF SignallingTypeOK, ConnStep, Upgrade, Lose, ReadJSON, ReadFails, Join, Announced,
     Register, ListPeers, Reply, Route, Send, Cleanup, WriterPanics
<1>4. told'[j] = told[j] /\ Conn2Cid'[j] = Conn2Cid[j]
  BY DEF SignallingTypeOK, ConnStep, Upgrade, Lose, ReadJSON, ReadFails, Join, Announced,
     Register, ListPeers, Reply, Route, Send, Cleanup, WriterPanics
<1> QED BY <1>1, <1>2, <1>3, <1>4

\* The next line of a connection's goroutine; the others stay where they are.
LEMMA Goes ==
    ASSUME SignallingTypeOK, NEW k \in Conn, NEW next, Goto(k, next)
    PROVE  pc'[k] = next /\ DOMAIN pc' = Conn
BY DEF SignallingTypeOK, Goto

LEMMA TypeStep ==
    SignallingTypeOK /\ Addressed /\ [Next]_vars => SignallingTypeOK'
<1> SUFFICES ASSUME SignallingTypeOK, Addressed, [Next]_vars
             PROVE  SignallingTypeOK'
  OBVIOUS
<1>1. ASSUME NEW k \in Conn, ConnStep(k)
      PROVE  SignallingTypeOK'
  <2>1. msg' \in [Conn -> Msg]
    BY <1>1, MsgType
  <2>2. PeersMap' \in [Cid -> Conn \union {NoConn}]
    <3>1. CASE Register(k)
      BY <3>1 DEF SignallingTypeOK, Register
    <3>2. CASE Cleanup(k)
      BY <3>2 DEF SignallingTypeOK, Cleanup
    <3>3. ASSUME ~Register(k), ~Cleanup(k)
          PROVE  PeersMap' = PeersMap
      BY <1>1, <3>3 DEF ConnStep, Upgrade, Lose, ReadJSON, ReadFails, Join, Announced,
         ListPeers, Reply, Route, Send, WriterPanics
    <3> QED BY <3>1, <3>2, <3>3 DEF SignallingTypeOK
  <2>6. Conn2Cid' \in [Conn -> Cid \union {NoCid}]
    BY <1>1, SignallingAssumption DEF SignallingTypeOK, ConnStep, Upgrade, Lose, ReadJSON,
       ReadFails, Join, Announced, Register, ListPeers, Reply, Route, Send, Cleanup, WriterPanics
  <2>7. link' \in [Conn -> BOOLEAN]
    BY <1>1 DEF SignallingTypeOK, ConnStep, Upgrade, Lose, ReadJSON, ReadFails, Join,
       Announced, Register, ListPeers, Reply, Route, Send, Cleanup, WriterPanics
  <2>3. todo' \in [Conn -> SUBSET Conn]
    <3>1. CASE Join(k)
      <4>1. {PeersMap[c] : c \in Present} \in SUBSET Conn
        BY DEF SignallingTypeOK, Present
      <4> QED BY <3>1, <4>1 DEF SignallingTypeOK, Join
    <3>2. CASE \E p \in Conn : Announced(k, p)
      BY <3>2 DEF SignallingTypeOK, Announced
    <3>3. ASSUME ~Join(k), ~(\E p \in Conn : Announced(k, p))
          PROVE  todo' = todo
      BY <1>1, <3>3 DEF ConnStep, Upgrade, Lose, ReadJSON, ReadFails, Register, ListPeers,
         Reply, Route, Send, Cleanup, WriterPanics
    <3> QED BY <3>1, <3>2, <3>3 DEF SignallingTypeOK
  <2>4. told' \in [Conn -> SUBSET Cid]
    <3>1. CASE Reply(k)
      BY <3>1 DEF SignallingTypeOK, Reply
    <3>2. ASSUME ~Reply(k)
          PROVE  told' = told
      BY <1>1, <3>2 DEF ConnStep, Upgrade, Lose, ReadJSON, ReadFails, Join, Announced,
         Register, ListPeers, Route, Send, Cleanup, WriterPanics
    <3> QED BY <3>1, <3>2 DEF SignallingTypeOK
  <2>5. /\ lock' \in Conn \union {NoConn}
        /\ pc' \in [Conn -> {"off", "read", "join", "notify", "list", "reply",
                             "route", "send", "cleanup", "done"}]
        /\ \A j \in Conn : pc'[j] = "notify" <=> lock' = j
    <3>1. CASE Join(k)
      BY <3>1, SignallingAssumption DEF SignallingTypeOK, Join, Goto
    <3>2. CASE Register(k)
      BY <3>2, SignallingAssumption DEF SignallingTypeOK, Register, Goto
    <3>3. ASSUME ~Join(k), ~Register(k)
          PROVE  /\ lock' = lock
                 /\ \/ pc' = pc
                    \/ /\ pc[k] # "notify" /\ lock # k
                       /\ \E next \in {"read", "join", "list", "reply", "route", "send",
                                       "cleanup", "done"} : pc' = [pc EXCEPT ![k] = next]
      BY <1>1, <3>3 DEF SignallingTypeOK, ConnStep, Upgrade, Lose, ReadJSON, ReadFails,
         Announced, ListPeers, Reply, Route, Send, Cleanup, WriterPanics, ReadOn, Goto
    <3> QED BY <3>1, <3>2, <3>3 DEF SignallingTypeOK
  <2> QED BY <2>1, <2>2, <2>3, <2>4, <2>5, <2>6, <2>7 DEF SignallingTypeOK, Msg
<1>2. CASE ProcessPanics
  BY <1>2, SignallingAssumption DEF SignallingTypeOK, ProcessPanics, NoMsg
<1>3. CASE UNCHANGED vars
  BY <1>3 DEF SignallingTypeOK, vars
<1> QED BY <1>1, <1>2, <1>3 DEF Next

-----------------------------------------------------------------------------
(* The two maps.                                                           *)

\* The maps agree, and what is in them is a connection that was upgraded and
\* not yet cleaned up; a goroutine at its end has a connection that is gone.
MapsAgree ==
    /\ \A k \in Conn : Conn2Cid[k] \in {NoCid, Own[k]}
    /\ \A c \in Present :
         Conn2Cid[PeersMap[c]] = c /\ pc[PeersMap[c]] \notin {"off", "done"}
    /\ \A k \in Conn : pc[k] \in {"cleanup", "done"} => ~link[k]

\* The addressee found is one that had joined under the cid; if it is not any
\* more, it is gone.
Addressees ==
    /\ Addressed
    /\ \A k \in Conn :
         pc[k] = "send" =>
            /\ msg[k].target \in Conn
            /\ pc[msg[k].target] # "off"
            /\ Conn2Cid[msg[k].target] = msg[k].to \/ ~link[msg[k].target]

\* j knows of k, is about to learn of it, or is gone.
Hears(j, k) ==
    \/ Own[k] \in told[j]
    \/ pc[j] = "list"
    \/ pc[j] = "reply" /\ Own[k] \in msg[j].list
    \/ ~link[j]

\* Of two connections in the map the one that registered last hears of the
\* other: the other was in the map when it took its list, or has left since.
Meet ==
    \A j, k \in Conn :
        (PeersMap[Own[j]] = j /\ PeersMap[Own[k]] = k /\ Own[j] # Own[k])
            => Hears(j, k) \/ Hears(k, j)

SignallingInv == SignallingTypeOK /\ MapsAgree /\ Addressees /\ Meet

LEMMA InvInit == Init => SignallingInv
<1> SUFFICES ASSUME Init PROVE SignallingInv
  OBVIOUS
<1>1. SignallingTypeOK
  BY TypeInit
<1>2. \A c \in Cid : PeersMap[c] \notin Conn
  BY SignallingAssumption DEF Init
<1>3. MapsAgree /\ Addressees /\ Meet
  BY <1>2, SignallingAssumption DEF Init, MapsAgree, Addressees, Addressed, Meet, Present
<1> QED BY <1>1, <1>3 DEF SignallingInv

\* An entry is there after a step only if it was there, or was just registered.
LEMMA Entries ==
    ASSUME SignallingTypeOK, NEW k \in Conn, ConnStep(k), NEW c \in Cid
    PROVE  \/ PeersMap'[c] = PeersMap[c] /\ ~(Cleanup(k) /\ c = Conn2Cid[k])
           \/ PeersMap'[c] = NoConn /\ Cleanup(k) /\ c = Conn2Cid[k]
           \/ PeersMap'[c] = k /\ Register(k) /\ c = Own[k]
<1>1. CASE Register(k)
  BY <1>1, SignallingAssumption DEF SignallingTypeOK, Register, Cleanup
<1>2. CASE Cleanup(k)
  BY <1>2 DEF SignallingTypeOK, Cleanup
<1>3. ASSUME ~Register(k), ~Cleanup(k)
      PROVE  PeersMap' = PeersMap
  BY <1>3 DEF ConnStep, Upgrade, Lose, ReadJSON, ReadFails, Join, Announced, ListPeers,
     Reply, Route, Send, WriterPanics
<1> QED BY <1>1, <1>2, <1>3

\* What a step does to its own connection, as far as the maps are concerned.
LEMMA OwnSide ==
    ASSUME SignallingTypeOK, NEW k \in Conn, ConnStep(k)
    PROVE  /\ Conn2Cid'[k] = IF Register(k) THEN Own[k]
                             ELSE IF Cleanup(k) THEN NoCid ELSE Conn2Cid[k]
           /\ (pc'[k] = "off" => pc[k] = "off") /\ (pc'[k] = "done" => pc[k] = "done" \/ Cleanup(k))
           /\ link'[k] => link[k] \/ pc[k] = "off"
           /\ pc'[k] = "cleanup" => ~link'[k] \/ pc[k] = "cleanup"
<1>1. CASE Register(k)
  BY <1>1 DEF SignallingTypeOK, Register, Goto
<1>2. CASE Cleanup(k)
  BY <1>2 DEF SignallingTypeOK, Cleanup, Register, Goto
<1>3. ASSUME ~Register(k), ~Cleanup(k)
      PROVE  Conn2Cid' = Conn2Cid
  BY <1>3 DEF ConnStep, Upgrade, Lose, ReadJSON, ReadFails, Join, Announced, ListPeers,
     Reply, Route, Send, WriterPanics
<1>4. ASSUME ~Register(k), ~Cleanup(k)
      PROVE  /\ (pc'[k] = "off" => pc[k] = "off") /\ (pc'[k] = "done" => pc[k] = "done")
             /\ link'[k] => link[k] \/ pc[k] = "off"
             /\ pc'[k] = "cleanup" => ~link'[k] \/ pc[k] = "cleanup"
  <2>1. CASE Lose(k)
    BY <2>1 DEF SignallingTypeOK, Lose
  <2>2. CASE ReadFails(k) \/ WriterPanics(k)
    BY <2>2 DEF SignallingTypeOK, ReadFails, WriterPanics, Goto
  <2>3. CASE Upgrade(k)
    BY <2>3 DEF SignallingTypeOK, Upgrade, Goto
  <2>4. ASSUME ~Lose(k), ~ReadFails(k), ~WriterPanics(k), ~Upgrade(k)
        PROVE  /\ link' = link
               /\ \/ pc' = pc
                  \/ \E next \in {"read", "join", "notify", "reply", "route", "send"} :
                       Goto(k, next)
    BY <1>4, <2>4 DEF ConnStep, ReadJSON, Join, Announced, ListPeers, Reply, Route, Send, ReadOn
  <2> QED BY <2>1, <2>2, <2>3, <2>4, Goes
<1> QED BY <1>1, <1>2, <1>3, <1>4

LEMMA MapsStep ==
    ASSUME SignallingInv, NEW k \in Conn, ConnStep(k)
    PROVE  MapsAgree'
<1> USE DEF SignallingInv
<1>1. ASSUME NEW j \in Conn
      PROVE  /\ Conn2Cid'[j] \in {NoCid, Own[j]}
             /\ pc'[j] \in {"cleanup", "done"} => ~link'[j]
  <2>1. CASE j = k
    <3>1. pc[k] \in {"cleanup", "done"} => ~link[k]
      BY DEF MapsAgree
    <3>2. CASE Cleanup(k)
      BY <2>1, <3>1, <3>2, OwnSide DEF Cleanup, MapsAgree
    <3> QED BY <2>1, <3>1, <3>2, OwnSide DEF MapsAgree
  <2>2. CASE j # k
    BY <2>2, Alone DEF MapsAgree, Addressees
  <2> QED BY <2>1, <2>2
<1>2. ASSUME NEW c \in Cid, PeersMap'[c] # NoConn
      PROVE  Conn2Cid'[PeersMap'[c]] = c /\ pc'[PeersMap'[c]] \notin {"off", "done"}
  <2>1. CASE PeersMap'[c] = k /\ Register(k) /\ c = Own[k]
    <3>1. pc'[k] = "list"
      BY <2>1, Goes DEF Register
    <3> QED BY <2>1, <3>1, OwnSide
  <2>2. CASE PeersMap'[c] = PeersMap[c] /\ ~(Cleanup(k) /\ c = Conn2Cid[k])
    <3>1. /\ PeersMap[c] \in Conn
          /\ Conn2Cid[PeersMap[c]] = c /\ pc[PeersMap[c]] \notin {"off", "done"}
      BY <1>2, <2>2 DEF MapsAgree, Present, SignallingTypeOK
    <3>2. CASE PeersMap[c] = k
      <4>1. ~Cleanup(k)
        BY <2>2, <3>1, <3>2
      <4>2. Conn2Cid[k] = Own[k]
        BY <3>1, <3>2, SignallingAssumption DEF MapsAgree
      <4> QED BY <2>2, <3>1, <3>2, <4>1, <4>2, OwnSide
    <3>3. CASE PeersMap[c] # k
      BY <2>2, <3>1, <3>3, Alone DEF Addressees
    <3> QED BY <3>2, <3>3
  <2> QED BY <1>2, <2>1, <2>2, Entries
<1> QED BY <1>1, <1>2 DEF MapsAgree, Present

LEMMA AddresseesStep ==
    ASSUME SignallingInv, NEW k \in Conn, ConnStep(k)
    PROVE  Addressees'
<1> USE DEF SignallingInv
<1>1. msg \in [Conn -> Msg] /\ msg' \in [Conn -> Msg] /\ Addressed
  BY MsgType DEF SignallingTypeOK, Msg, Addressees
<1>2. ASSUME NEW j \in Conn, pc'[j] \in {"route", "send"}
      PROVE  /\ msg'[j].to \in Cid
             /\ pc'[j] = "send" =>
                  /\ msg'[j].target \in Conn
                  /\ pc[msg'[j].target] # "off"
                  /\ \/ Conn2Cid[msg'[j].target] = msg'[j].to
                     \/ ~link[msg'[j].target]
  <2>1. CASE j # k
    BY <1>2, <2>1, <1>1, Alone DEF Addressees, Addressed
  <2>2. CASE j = k
    <3>1. CASE ReadJSON(k)
      <4>1. pc'[k] = "route" /\ \E c \in Cid : msg' = [msg EXCEPT ![k].to = c]
        BY <1>2, <2>2, <3>1, Goes DEF ReadJSON
      <4>2. msg'[k].to \in Cid
        BY <4>1, <1>1, MsgSteps DEF Msg
      <4> QED BY <2>2, <4>1, <4>2
    <3>2. CASE Route(k)
      <4>1. pc[k] = "route" /\ msg[k].to \in Cid
        BY <3>2, <1>1 DEF Route, Addressed
      <4>2. /\ PeersMap[msg[k].to] # NoConn
            /\ msg' = [msg EXCEPT ![k].target = PeersMap[msg[k].to]]
        BY <1>2, <2>2, <3>2, Goes DEF Route, ReadOn
      <4>3. /\ PeersMap[msg[k].to] \in Conn
            /\ Conn2Cid[PeersMap[msg[k].to]] = msg[k].to
            /\ pc[PeersMap[msg[k].to]] # "off"
        BY <4>1, <4>2 DEF MapsAgree, Present, SignallingTypeOK
      <4>4. msg'[k].target = PeersMap[msg[k].to] /\ msg'[k].to = msg[k].to
        BY <4>2, <1>1 DEF Msg
      <4> QED BY <2>2, <4>1, <4>3, <4>4
    <3>3. CASE Lose(k) \/ \E p \in Conn : Announced(k, p)
      BY <1>2, <2>2, <3>3, <1>1 DEF Lose, Announced, Addressees, Addressed
    <3>4. ASSUME ~ReadJSON(k), ~Route(k), ~Lose(k), ~(\E p \in Conn : Announced(k, p))
          PROVE  \E next \in {"read", "join", "notify", "list", "reply", "cleanup", "done"} :
                   Goto(k, next)
      BY <3>4 DEF ConnStep, Upgrade, ReadFails, Join, Register, ListPeers,
         Reply, Send, Cleanup, WriterPanics, ReadOn, Goto
    <3> QED BY <1>2, <2>2, <3>1, <3>2, <3>3, <3>4, Goes
  <2> QED BY <2>1, <2>2
<1>3. ASSUME NEW t \in Conn, NEW c \in Cid, pc[t] # "off", Conn2Cid[t] = c \/ ~link[t]
      PROVE  pc'[t] # "off" /\ (Conn2Cid'[t] = c \/ ~link'[t])
  <2>1. CASE t # k
    BY <1>3, <2>1, <1>1, Alone
  <2>2. CASE t = k
    <3>1. CASE Cleanup(k)
      BY <1>3, <2>2, <3>1, OwnSide DEF Cleanup, MapsAgree
    <3>2. CASE Register(k) /\ Conn2Cid[k] = c
      BY <1>3, <2>2, <3>2, OwnSide, SignallingAssumption DEF MapsAgree
    <3> QED BY <1>3, <2>2, <3>1, <3>2, OwnSide
  <2> QED BY <2>1, <2>2
<1>4. ASSUME NEW j \in Conn, pc'[j] = "send"
      PROVE  /\ msg'[j].target \in Conn
             /\ pc'[msg'[j].target] # "off"
             /\ Conn2Cid'[msg'[j].target] = msg'[j].to \/ ~link'[msg'[j].target]
  BY <1>2, <1>3, <1>4
<1> QED BY <1>2, <1>4 DEF Addressees, Addressed

\* Who hears of a connection in the map goes on to.
LEMMA HearsOn ==
    ASSUME SignallingInv, NEW x \in Conn, ConnStep(x), NEW j \in Conn, NEW k \in Conn,
           Hears(j, k), pc[j] # "off", PeersMap[Own[k]] = k, Own[j] # Own[k]
    PROVE  Hears(j, k)'
<1> USE DEF SignallingInv
<1>1. msg \in [Conn -> Msg] /\ msg' \in [Conn -> Msg] /\ Addressed
  BY MsgType DEF SignallingTypeOK, Msg, Addressees
<1>2. Own[k] \in Present \ {Own[j]}
  BY SignallingAssumption DEF Present
<1>3. CASE x # j
  BY <1>1, <1>3, Alone DEF Hears
<1>4. CASE x = j
  <2>1. CASE ~link[j]
    BY <1>4, <2>1, OwnSide DEF Hears
  <2>2. CASE Own[k] \in told[j]
    <3>1. told'[j] = told[j] \/ told'[j] = told[j] \union msg[j].list
      BY <1>4 DEF SignallingTypeOK, ConnStep, Upgrade, Lose, ReadJSON, ReadFails, Join, Announced,
         Register, ListPeers, Reply, Route, Send, Cleanup, WriterPanics
    <3> QED BY <2>2, <3>1 DEF Hears
  <2>3. CASE pc[j] = "list"
    <3>1. ListPeers(j) \/ Lose(j) \/ \E p \in Conn : Announced(j, p)
      BY <1>4, <2>3 DEF ConnStep, Upgrade, ReadJSON, ReadFails, Join,
         Register, Reply, Route, Send, Cleanup, WriterPanics
    <3>2. CASE ListPeers(j)
      <4>1. Goto(j, "reply") /\ msg' = [msg EXCEPT ![j].list = Present \ {Own[j]}]
        BY <1>2, <3>2 DEF ListPeers
      <4>2. msg'[j].list = Present \ {Own[j]}
        BY <1>1, <4>1 DEF Msg
      <4> QED BY <1>2, <4>1, <4>2, Goes DEF Hears
    <3>3. CASE Lose(j) \/ \E p \in Conn : Announced(j, p)
      BY <2>3, <3>3 DEF Lose, Announced, Hears
    <3> QED BY <3>1, <3>2, <3>3
  <2>4. CASE pc[j] = "reply" /\ Own[k] \in msg[j].list /\ link[j]
    <3>1. \/ Reply(j) \/ Lose(j) \/ (\E p \in Conn : Announced(j, p)) \/ WriterPanics(j)
      BY <1>4, <2>4 DEF ConnStep, Upgrade, ReadJSON, ReadFails, Join,
         Register, ListPeers, Route, Send, Cleanup
    <3>2. CASE Reply(j)
      BY <2>4, <3>2 DEF SignallingTypeOK, Reply, Hears
    <3>3. CASE Lose(j) \/ \E p \in Conn : Announced(j, p)
      BY <2>4, <3>3 DEF Lose, Announced, Hears
    <3>4. CASE WriterPanics(j)
      BY <3>4 DEF SignallingTypeOK, WriterPanics, Hears
    <3> QED BY <3>1, <3>2, <3>3, <3>4
  <2> QED BY <2>1, <2>2, <2>3, <2>4 DEF Hears
<1> QED BY <1>3, <1>4

LEMMA MeetStep ==
    ASSUME SignallingInv, NEW x \in Conn, ConnStep(x)
    PROVE  Meet'
<1> USE DEF SignallingInv
<1>1. ASSUME NEW j \in Conn, NEW k \in Conn, Own[j] # Own[k],
             PeersMap'[Own[j]] = j, PeersMap'[Own[k]] = k
      PROVE  Hears(j, k)' \/ Hears(k, j)'
  <2>1. CASE Register(x) /\ x \in {j, k}
    <3>1. pc'[x] = "list"
      BY <2>1, Goes DEF Register
    <3> QED BY <2>1, <3>1 DEF Hears
  <2>2. CASE ~(Register(x) /\ x \in {j, k})
    <3>1. Own[j] \in Cid /\ Own[k] \in Cid /\ j # NoConn /\ k # NoConn
      BY SignallingAssumption
    <3>2. PeersMap[Own[j]] = j /\ PeersMap[Own[k]] = k
      BY <1>1, <2>2, <3>1, Entries
    <3>3. pc[j] # "off" /\ pc[k] # "off"
      BY <3>1, <3>2 DEF MapsAgree, Present
    <3>4. Hears(j, k) \/ Hears(k, j)
      BY <1>1, <3>2 DEF Meet
    <3> QED BY <1>1, <3>2, <3>3, <3>4, HearsOn
  <2> QED BY <2>1, <2>2
<1> QED BY <1>1 DEF Meet, Hears

LEMMA InvStep == SignallingInv /\ [Next]_vars => SignallingInv'
<1> SUFFICES ASSUME SignallingInv, [Next]_vars
             PROVE  SignallingInv'
  OBVIOUS
<1>1. SignallingTypeOK'
  BY TypeStep DEF SignallingInv, Addressees
<1>2. CASE \E k \in Conn : ConnStep(k)
  BY <1>1, <1>2, MapsStep, AddresseesStep, MeetStep DEF SignallingInv
<1>3. CASE ProcessPanics
  <2>1. \A c \in Cid : PeersMap'[c] \notin Conn
    BY <1>3, SignallingAssumption DEF ProcessPanics
  <2>2. \A k \in Conn : pc'[k] \in {"off", "done"} /\ Conn2Cid'[k] = NoCid /\ ~link'[k]
    BY <1>3 DEF ProcessPanics
  <2>3. Present' = {}
    BY <1>3 DEF Present, ProcessPanics
  <2>4. MapsAgree' /\ Addressees' /\ Meet'
    BY <2>1, <2>2, <2>3, SignallingAssumption DEF MapsAgree, Addressees, Addressed, Meet
  <2> QED BY <1>1, <2>4 DEF SignallingInv
<1>4. CASE UNCHANGED vars
  BY <1>1, <1>4 DEF SignallingInv, MapsAgree, Addressees, Addressed, Meet, Hears, Present, vars
<1> QED BY <1>2, <1>3, <1>4 DEF Next

LEMMA InvAlways == Spec => []SignallingInv
BY InvInit, InvStep, PTL DEF Spec

-----------------------------------------------------------------------------
(* The theorems.                                                           *)

\* Every variable keeps its type, and the write lock of the two maps is held
\* by the one goroutine that is announcing a join, and by nobody otherwise.
THEOREM SignallingTypeCorrect == Spec => []SignallingTypeOK
<1>1. SignallingInv => SignallingTypeOK
  BY DEF SignallingInv
<1> QED BY <1>1, InvAlways, PTL

\* However joins, losses, panics and cleanups of the connections interleave,
\* the maps never lead to a connection whose goroutine is at its end.
THEOREM NoEntryOutlives == Spec => []NoClosedPeer
<1>1. SignallingInv => NoClosedPeer
  BY DEF SignallingInv, MapsAgree, NoClosedPeer
<1> QED BY <1>1, InvAlways, PTL

\* A message that was routed under the read lock and is written after it goes
\* to a connection of the cid it names, or to one that has gone meanwhile.
THEOREM RoutedToAddressee == Spec => []SentToAddressee
<1>1. SignallingInv => SentToAddressee
  BY DEF SignallingInv, Addressees, SentToAddressee
<1> QED BY <1>1, InvAlways, PTL

\* Of two pages that have joined and were answered, one has been told of the
\* other, for any number of connections that join, leave and share cids.
THEOREM PairsMeet == Spec => []EveryPairMeets
<1>1. SignallingInv => EveryPairMeets
  BY DEF SignallingInv, Meet, Hears, Settled, EveryPairMeets
<1> QED BY <1>1, InvAlways, PTL
=============================================================================
