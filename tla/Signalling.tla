------------------------------ MODULE Signalling ------------------------------
(***************************************************************************)
(* The signalling server of the WebRTC page                                *)
(* (http_server/handle/webrtc_websocket.go): one goroutine per connection  *)
(* reads its messages; two maps, behind one lock, say which connection     *)
(* speaks for which cid.  A join is announced to everybody under the lock  *)
(* and answered after it with the others' cids; offers, answers and        *)
(* candidates are passed on by cid.  Messages are written without a lock   *)
(* of the connection's own, and the library panics on two writers.         *)
(*                                                                         *)
(* An operator named Bad... is a plausible mistake in the definition after *)
(* it; none is part of the specification.                                  *)
(***************************************************************************)
EXTENDS Naturals, FiniteSets

CONSTANTS
    Conn,       \* connections, each with one life
    Cid,        \* the cids clients call themselves
    Own,        \* the cid of each connection's page (localStorage: tabs share it)
    NoConn, NoCid

ASSUME SignallingAssumption ==
    Own \in [Conn -> Cid] /\ NoConn \notin Conn /\ NoCid \notin Cid

VARIABLES
    PeersMap,   \* cid -> connection
    Conn2Cid,   \* connection -> cid
    lock,       \* who holds peersMapLock for writing
    pc,         \* what each connection's goroutine does next
    link,       \* whether the connection still works
    todo,       \* announcements under way for a join
    msg,        \* the message read last: its type, its To and what it resolves to
    told        \* history: the cids each connection was answered with

vars == <<PeersMap, Conn2Cid, lock, pc, link, todo, msg, told>>

NoMsg == [to |-> NoCid, target |-> NoConn, list |-> {}]

SignallingTypeOK ==
    /\ PeersMap \in [Cid -> Conn \union {NoConn}]
    /\ Conn2Cid \in [Conn -> Cid \union {NoCid}]
    /\ lock \in Conn \union {NoConn}
    /\ pc \in [Conn -> {"off", "read", "join", "notify", "list", "reply",
                        "route", "send", "cleanup", "done"}]
    /\ link \in [Conn -> BOOLEAN]
    /\ todo \in [Conn -> SUBSET Conn]
    /\ msg \in [Conn -> [to : Cid \union {NoCid}, target : Conn \union {NoConn},
                         list : SUBSET Cid]]
    /\ told \in [Conn -> SUBSET Cid]
    /\ \A k \in Conn : pc[k] = "notify" <=> lock = k

Init ==
    /\ PeersMap = [c \in Cid |-> NoConn]
    /\ Conn2Cid = [k \in Conn |-> NoCid]
    /\ lock = NoConn
    /\ pc = [k \in Conn |-> "off"]
    /\ link = [k \in Conn |-> FALSE]
    /\ todo = [k \in Conn |-> {}]
    /\ msg = [k \in Conn |-> NoMsg]
    /\ told = [k \in Conn |-> {}]

Present == {c \in Cid : PeersMap[c] # NoConn}

Goto(k, next) == pc' = [pc EXCEPT ![k] = next]

\* Back to ReadJSON; what the message held is gone.
ReadOn(k) == Goto(k, "read") /\ msg' = [msg EXCEPT ![k] = NoMsg]

-----------------------------------------------------------------------------

Upgrade(k) ==
    /\ pc[k] = "off"
    /\ link' = [link EXCEPT ![k] = TRUE]
    /\ Goto(k, "read")
    /\ UNCHANGED <<PeersMap, Conn2Cid, lock, todo, msg, told>>

\* The client or the network goes away, seen or not yet seen by the goroutine.
Lose(k) ==
    /\ link[k]
    /\ link' = [link EXCEPT ![k] = FALSE]
    /\ UNCHANGED <<PeersMap, Conn2Cid, lock, pc, todo, msg, told>>

\* ReadJSON returns a join in the page's cid, or a message for another cid.
ReadJSON(k) ==
    /\ pc[k] = "read" /\ link[k]
    /\ \/ Goto(k, "join") /\ UNCHANGED msg
       \/ \E c \in Cid \ {Own[k]} :
            Goto(k, "route") /\ msg' = [msg EXCEPT ![k].to = c]
    /\ UNCHANGED <<PeersMap, Conn2Cid, lock, link, todo, told>>

\* ReadJSON fails, on a message that is no JSON too: the loop ends and the
\* deferred function closes the connection.
ReadFails(k) ==
    /\ pc[k] = "read"
    /\ link' = [link EXCEPT ![k] = FALSE]
    /\ Goto(k, "cleanup")
    /\ UNCHANGED <<PeersMap, Conn2Cid, lock, todo, msg, told>>

\* "join": take the lock and announce the cid on every connection in the map,
\* each in a goroutine of its own.
Join(k) ==
    /\ pc[k] = "join" /\ lock = NoConn
    /\ lock' = k
    /\ todo' = [todo EXCEPT ![k] = {PeersMap[c] : c \in Present}]
    /\ Goto(k, "notify")
    /\ UNCHANGED <<PeersMap, Conn2Cid, link, msg, told>>

\* One announcement written, or failed; nothing depends on which.
Announced(k, p) ==
    /\ p \in todo[k]
    /\ todo' = [todo EXCEPT ![k] = @ \ {p}]
    /\ UNCHANGED <<PeersMap, Conn2Cid, lock, pc, link, msg, told>>

\* The lock kept.
BadRegister(k) ==
    /\ pc[k] = "notify" /\ todo[k] = {}
    /\ PeersMap' = [PeersMap EXCEPT ![Own[k]] = k]
    /\ Conn2Cid' = [Conn2Cid EXCEPT ![k] = Own[k]]
    /\ Goto(k, "list")
    /\ UNCHANGED <<lock, link, todo, msg, told>>

\* After wg.Wait: the entries, whoever had the cid before, and the unlock.
Register(k) ==
    /\ pc[k] = "notify" /\ todo[k] = {}
    /\ PeersMap' = [PeersMap EXCEPT ![Own[k]] = k]
    /\ Conn2Cid' = [Conn2Cid EXCEPT ![k] = Own[k]]
    /\ lock' = NoConn
    /\ Goto(k, "list")
    /\ UNCHANGED <<link, todo, msg, told>>

\* break for continue at the connection's own cid, in a map's order.
BadListPeers(k) ==
    /\ pc[k] = "list" /\ lock = NoConn
    /\ \E others \in SUBSET (Present \ {Own[k]}) :
         IF others = {} THEN ReadOn(k)
         ELSE Goto(k, "reply") /\ msg' = [msg EXCEPT ![k].list = others]
    /\ UNCHANGED <<PeersMap, Conn2Cid, lock, link, todo, told>>

\* Under a read lock of its own: the other cids of that moment.
ListPeers(k) ==
    /\ pc[k] = "list" /\ lock = NoConn
    /\ LET others == Present \ {Own[k]}
       IN  IF others = {} THEN ReadOn(k)
           ELSE Goto(k, "reply") /\ msg' = [msg EXCEPT ![k].list = others]
    /\ UNCHANGED <<PeersMap, Conn2Cid, lock, link, todo, told>>

\* The answer; after an error break leaves only the switch.
Reply(k) ==
    /\ pc[k] = "reply"
    /\ told' = IF link[k] THEN [told EXCEPT ![k] = @ \union msg[k].list] ELSE told
    /\ ReadOn(k)
    /\ UNCHANGED <<PeersMap, Conn2Cid, lock, link, todo>>

\* From taken for To.
BadRoute(k) ==
    /\ pc[k] = "route" /\ lock = NoConn
    /\ LET target == PeersMap[Own[k]]
       IN  IF target = NoConn THEN ReadOn(k)
           ELSE Goto(k, "send") /\ msg' = [msg EXCEPT ![k].target = target]
    /\ UNCHANGED <<PeersMap, Conn2Cid, lock, link, todo, told>>

\* "offer", "answer", "candidate": look the addressee up under a read lock.
Route(k) ==
    /\ pc[k] = "route" /\ lock = NoConn
    /\ LET target == PeersMap[msg[k].to]
       IN  IF target = NoConn THEN ReadOn(k)
           ELSE Goto(k, "send") /\ msg' = [msg EXCEPT ![k].target = target]
    /\ UNCHANGED <<PeersMap, Conn2Cid, lock, link, todo, told>>

\* Written to the connection found, which may be closed by now.
Send(k) ==
    /\ pc[k] = "send"
    /\ ReadOn(k)
    /\ UNCHANGED <<PeersMap, Conn2Cid, lock, link, todo, told>>

\* The entry of the cid forgotten.
BadCleanup(k) ==
    /\ pc[k] = "cleanup" /\ lock = NoConn
    /\ Conn2Cid' = [Conn2Cid EXCEPT ![k] = NoCid]
    /\ Goto(k, "done")
    /\ UNCHANGED <<PeersMap, lock, link, todo, msg, told>>

\* The deferred function: both entries go, the cid's whoever holds it now.
Cleanup(k) ==
    /\ pc[k] = "cleanup" /\ lock = NoConn
    /\ Conn2Cid' = [Conn2Cid EXCEPT ![k] = NoCid]
    /\ PeersMap' = [c \in Cid |-> IF c = Conn2Cid[k] THEN NoConn ELSE PeersMap[c]]
    /\ Goto(k, "done")
    /\ UNCHANGED <<lock, link, todo, msg, told>>

\* Connections some goroutine is writing a message to.
Written == {k \in Conn : pc[k] = "reply"} \union UNION {todo[k] : k \in Conn}
             \union {msg[k].target : k \in {j \in Conn : pc[j] = "send"}}

\* A second writer, the ping of every second at least, meets the first in the
\* library.  In a connection's own goroutine the HTTP server catches the panic
\* after the deferred function has run ...
WriterPanics(k) ==
    /\ \/ pc[k] = "reply" /\ link[k]
       \/ pc[k] = "send" /\ link[msg[k].target]
    /\ link' = [link EXCEPT ![k] = FALSE]
    /\ Goto(k, "cleanup")
    /\ msg' = [msg EXCEPT ![k] = NoMsg]
    /\ UNCHANGED <<PeersMap, Conn2Cid, lock, todo, told>>

\* ... in an announcement's or the ping's it ends the process.
ProcessPanics ==
    /\ \E k \in Written : link[k]
    /\ PeersMap' = [c \in Cid |-> NoConn]
    /\ Conn2Cid' = [k \in Conn |-> NoCid]
    /\ lock' = NoConn
    /\ pc' = [k \in Conn |-> IF pc[k] = "off" THEN "off" ELSE "done"]
    /\ link' = [k \in Conn |-> FALSE]
    /\ todo' = [k \in Conn |-> {}]
    /\ msg' = [k \in Conn |-> NoMsg]
    /\ UNCHANGED told

ConnStep(k) ==
    \/ Upgrade(k) \/ Lose(k) \/ ReadJSON(k) \/ ReadFails(k)
    \/ Join(k) \/ (\E p \in Conn : Announced(k, p)) \/ Register(k)
    \/ ListPeers(k) \/ Reply(k) \/ Route(k) \/ Send(k)
    \/ Cleanup(k) \/ WriterPanics(k)

Next == (\E k \in Conn : ConnStep(k)) \/ ProcessPanics

\* Writes return, in the end with an error on a dead connection; a read on a
\* dead connection fails; Go's RWMutex lets nobody wait for ever.
Fairness ==
    \A k \in Conn :
        /\ WF_vars(\/ ~link[k] /\ ReadFails(k)
                   \/ \E p \in Conn : Announced(k, p)
                   \/ Register(k) \/ Reply(k) \/ Send(k))
        /\ SF_vars(Join(k) \/ ListPeers(k) \/ Route(k) \/ Cleanup(k))

Spec == Init /\ [][Next]_vars /\ Fairness

-----------------------------------------------------------------------------
(* Properties.                                                             *)

\* No entry outlives its connection's goroutine, and the two maps agree on
\* whom it speaks for, although a cleanup may remove another tab's entry.
NoClosedPeer ==
    \A c \in Present : Conn2Cid[PeersMap[c]] = c /\ pc[PeersMap[c]] # "done"

\* Joined, answered and still in the map.
Settled(k) == PeersMap[Own[k]] = k /\ link[k] /\ pc[k] \in {"read", "route", "send"}

\* Of two pages in the map at least one was told of the other, however their
\* joins interleaved: the announcement precedes the entry and the answer comes
\* after the unlock.  (The page makes offers to the cids it is answered with.)
EveryPairMeets ==
    \A j, k \in Conn :
        (Settled(j) /\ Settled(k) /\ Own[j] # Own[k])
            => Own[k] \in told[j] \/ Own[j] \in told[k]

\* A message goes to a connection that speaks for the cid it is addressed to,
\* or to one that is already gone: the lookup is used after the unlock.
SentToAddressee ==
    \A k \in Conn :
        pc[k] = "send" => \/ Conn2Cid[msg[k].target] = msg[k].to
                          \/ ~link[msg[k].target]

\* A connection that is lost is out of the map for good in the end, though it takes a
\* lock that joins hold while they write to everybody.
LostIsForgotten ==
    \A k \in Conn :
        (pc[k] # "off" /\ ~link[k]) ~> [](\A c \in Cid : PeersMap[c] # k)

=============================================================================
