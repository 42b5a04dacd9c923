---------------------------- MODULE ServerProofs ----------------------------
(***************************************************************************)
(* Parts of the server that keep their own state, proved one by one for    *)
(* any values of their constants, and then for the server in which one of  *)
(* them runs.                                                              *)
(***************************************************************************)
EXTENDS Server, SequenceLemmas, ClientProofs

----------------------------------------------------------------------------
(* The slave's side of the replication link: the handlers work on a copy x *)
(* of the state.                                                           *)

ReplStates == {"NONE", "CONNECT", "CONNECTING", "RECEIVE_PONG", "TRANSFER", "CONNECTED"}
Socket == [host : Hosts \cup {NoHost}, events : SUBSET {"sync_r", "sync_w", "payload"}]

IsSlave(x) ==
    /\ x = [host |-> x.host, state |-> x.state, sockets |-> x.sockets, s |-> x.s,
            master |-> x.master, tmp |-> x.tmp, size |-> x.size, opened |-> x.opened]
    /\ x.host \in Hosts \cup {NoHost} /\ x.state \in ReplStates
    /\ x.sockets \in [DOMAIN x.sockets -> Socket] /\ DOMAIN x.sockets \subseteq 1 .. x.opened
    /\ x.opened \in Nat

(* A single socket is open, the one in use, with the handlers of its state. *)
OneSocket(x, id, evs) ==
    DOMAIN x.sockets = {id} /\ x.sockets[id] = [host |-> x.host, events |-> evs]

(* The link, whatever the host is called that it was told meanwhile.       *)
Linked(x) ==
    /\ IsSlave(x)
    /\ x.state \in {"NONE", "CONNECT"} => DOMAIN x.sockets = {}
    /\ x.state \in Handshake \cup {"TRANSFER"} => DOMAIN x.sockets = {x.s}
    /\ x.state = "CONNECTED" => DOMAIN x.sockets = {x.master}
    /\ (x.master # NoSocket) <=> (x.state = "CONNECTED")
    /\ x.tmp = (x.state = "TRANSFER")

SlaveInv(x) ==
    /\ Linked(x)
    /\ x.state = "CONNECTING" => OneSocket(x, x.s, {"sync_r", "sync_w"})
    /\ x.state = "RECEIVE_PONG" => OneSocket(x, x.s, {"sync_r"})
    /\ x.state = "TRANSFER" => OneSocket(x, x.s, {"payload"})
    /\ x.state = "CONNECTED" => OneSocket(x, x.master, {})
    /\ (x.host = NoHost) <=> (x.state = "NONE")

\* A record whose fields have their types.
LEMMA SlaveRecordType ==
    ASSUME NEW host \in Hosts \cup {NoHost}, NEW state \in ReplStates, NEW s, NEW m, NEW tmp, NEW known,
           NEW n \in Nat, NEW D \in SUBSET (1 .. n), NEW socks \in [D -> Socket]
    PROVE  LET x == [host |-> host, state |-> state, sockets |-> socks, s |-> s,
                     master |-> m, tmp |-> tmp, size |-> known, opened |-> n]
           IN  IsSlave(x) /\ DOMAIN x.sockets = D
  BY DEF IsSlave

\* Closing a socket.
LEMMA CloseFacts ==
    ASSUME NEW x, IsSlave(x), NEW id
    PROVE  /\ DOMAIN Close(x, id).sockets = DOMAIN x.sockets \ {id}
           /\ \A st \in ReplStates : \A tmp, m, s :
                LET y == [host |-> x.host, state |-> st, sockets |-> Close(x, id).sockets, s |-> s,
                          master |-> m, tmp |-> tmp, size |-> x.size, opened |-> x.opened]
                IN  IsSlave(y)
           /\ Close(x, id) = [host |-> x.host, state |-> x.state, sockets |-> Close(x, id).sockets, s |-> x.s,
                              master |-> x.master, tmp |-> x.tmp, size |-> x.size, opened |-> x.opened]
<1> DEFINE D == DOMAIN x.sockets \ {id}
           t == [i \in D |-> x.sockets[i]]
           y == Close(x, id)
<1>1. x = [host |-> x.host, state |-> x.state, sockets |-> x.sockets, s |-> x.s,
           master |-> x.master, tmp |-> x.tmp, size |-> x.size, opened |-> x.opened]
  BY DEF IsSlave
<1>2. y = [x EXCEPT !.sockets = t]
  BY DEF Close
<1>3. t \in [D -> Socket] /\ D \in SUBSET (1 .. x.opened)
  BY DEF IsSlave
<1>4. DOMAIN t = D
  OBVIOUS
<1> HIDE DEF t, y, D
<1>5. y = [host |-> x.host, state |-> x.state, sockets |-> t, s |-> x.s,
           master |-> x.master, tmp |-> x.tmp, size |-> x.size, opened |-> x.opened]
  BY <1>1, <1>2
<1>6. y.sockets = t
  BY <1>5
<1>7. \A st \in ReplStates : \A tmp, m, s :
                LET z == [host |-> x.host, state |-> st, sockets |-> t, s |-> s,
                          master |-> m, tmp |-> tmp, size |-> x.size, opened |-> x.opened]
                IN  IsSlave(z)
  <2> TAKE st \in ReplStates
  <2> TAKE tmp, m, s
  <2>1. x.host \in Hosts \cup {NoHost} /\ x.opened \in Nat
    BY DEF IsSlave
  <2> QED
    BY <1>3, <2>1, SlaveRecordType
<1> QED
  BY <1>4, <1>5, <1>6, <1>7 DEF y, D

\* What ends a link leaves no socket and no file.
Unlinked(x, y) ==
    /\ Linked(y) /\ y.host = x.host
    /\ x.state \notin {"NONE", "CONNECT"} => y.state = "CONNECT"
    /\ x.state \in {"NONE", "CONNECT"} => y = x

LEMMA LinkEnds ==
    ASSUME NEW x, Linked(x)
    PROVE  /\ x.state = "CONNECTED" => Unlinked(x, FreeMaster(x))
           /\ x.state # "CONNECTED" => FreeMaster(x) = x
           /\ x.state # "CONNECTED" => Unlinked(x, cancelReplicationHandshake(x))
           /\ x.state \in {"NONE", "CONNECT"} => cancelReplicationHandshake(x) = x
           /\ x.state = "TRANSFER" => Unlinked(x, replicationAbortSyncTransfer(x))
           /\ x.state \in Handshake => Unlinked(x, undoConnectWithMaster(x))
<1> DEFINE S(id) == Close(x, id).sockets
           N(id, s, m) == [host |-> x.host, state |-> "CONNECT", sockets |-> S(id), s |-> s,
                           master |-> m, tmp |-> FALSE, size |-> x.size, opened |-> x.opened]
<1>1. ASSUME NEW id, NEW s, x.state \notin {"NONE", "CONNECT"}, DOMAIN x.sockets = {id}
      PROVE  Unlinked(x, N(id, s, NoSocket))
  <2>1. IsSlave(x) /\ "CONNECT" \in ReplStates
    BY DEF Linked, ReplStates
  <2>2. IsSlave(N(id, s, NoSocket)) /\ DOMAIN S(id) = {}
    BY <1>1, <2>1, CloseFacts
  <2> HIDE DEF S
  <2> DEFINE n == N(id, s, NoSocket)
  <2>3. /\ n.host = x.host /\ n.state = "CONNECT" /\ n.sockets = S(id)
        /\ n.master = NoSocket /\ n.tmp = FALSE
    OBVIOUS
  <2>4. IsSlave(n)
    BY <2>2
  <2> HIDE DEF n, N
  <2>5. Unlinked(x, n)
    BY <1>1, <2>2, <2>3, <2>4 DEF Unlinked, Linked, Handshake
  <2> QED
    BY <2>5 DEF n
<1>2. ASSUME NEW id
      PROVE  Close(x, id) = [host |-> x.host, state |-> x.state, sockets |-> S(id), s |-> x.s,
                             master |-> x.master, tmp |-> x.tmp, size |-> x.size, opened |-> x.opened]
  BY CloseFacts DEF Linked
<1>3. ASSUME x.state = "CONNECTED" PROVE Unlinked(x, FreeMaster(x))
  <2>1. DOMAIN x.sockets = {x.master} /\ x.master # NoSocket /\ x.tmp = FALSE
    BY <1>3 DEF Linked
  <2> DEFINE c == Close(x, x.master)
             y == FreeMaster(x)
             t == S(x.master)
  <2>2. y = [c EXCEPT !.master = NoSocket, !.state = "CONNECT"]
    BY <2>1 DEF FreeMaster
  <2>3. c = [host |-> x.host, state |-> x.state, sockets |-> t, s |-> x.s,
             master |-> x.master, tmp |-> x.tmp, size |-> x.size, opened |-> x.opened]
    BY <1>2
  <2> HIDE DEF c, y, t, S
  <2>4. y = [host |-> x.host, state |-> "CONNECT", sockets |-> t, s |-> x.s,
             master |-> NoSocket, tmp |-> FALSE, size |-> x.size, opened |-> x.opened]
    BY <2>1, <2>2, <2>3
  <2> QED
    BY <1>1, <1>3, <2>1, <2>4 DEF y, t
<1>4. ASSUME x.state = "TRANSFER" PROVE Unlinked(x, replicationAbortSyncTransfer(x))
  <2>1. DOMAIN x.sockets = {x.s} /\ x.master = NoSocket
    BY <1>4 DEF Linked
  <2> DEFINE c == Close(x, x.s)
             y == replicationAbortSyncTransfer(x)
             t == S(x.s)
  <2>2. y = [c EXCEPT !.tmp = FALSE, !.state = "CONNECT"]
    BY DEF replicationAbortSyncTransfer
  <2>3. c = [host |-> x.host, state |-> x.state, sockets |-> t, s |-> x.s,
             master |-> x.master, tmp |-> x.tmp, size |-> x.size, opened |-> x.opened]
    BY <1>2
  <2> HIDE DEF c, y, t, S
  <2>4. y = [host |-> x.host, state |-> "CONNECT", sockets |-> t, s |-> x.s,
             master |-> NoSocket, tmp |-> FALSE, size |-> x.size, opened |-> x.opened]
    BY <2>1, <2>2, <2>3
  <2> QED
    BY <1>1, <1>4, <2>1, <2>4 DEF y, t
<1>5. ASSUME x.state \in Handshake PROVE Unlinked(x, undoConnectWithMaster(x))
  <2>1. DOMAIN x.sockets = {x.s} /\ x.master = NoSocket /\ x.tmp = FALSE
    BY <1>5 DEF Linked, Handshake
  <2> DEFINE c == Close(x, x.s)
             y == undoConnectWithMaster(x)
             t == S(x.s)
  <2>2. y = [c EXCEPT !.s = NoSocket, !.state = "CONNECT"]
    BY DEF undoConnectWithMaster
  <2>3. c = [host |-> x.host, state |-> x.state, sockets |-> t, s |-> x.s,
             master |-> x.master, tmp |-> x.tmp, size |-> x.size, opened |-> x.opened]
    BY <1>2
  <2> HIDE DEF c, y, t, S
  <2>4. y = [host |-> x.host, state |-> "CONNECT", sockets |-> t, s |-> NoSocket,
             master |-> NoSocket, tmp |-> FALSE, size |-> x.size, opened |-> x.opened]
    BY <2>1, <2>2, <2>3
  <2>5. x.state \notin {"NONE", "CONNECT"}
    BY <1>5 DEF Handshake
  <2> QED
    BY <1>1, <2>1, <2>4, <2>5 DEF y, t
<1>6. ASSUME x.state # "CONNECTED" PROVE FreeMaster(x) = x
  BY <1>6 DEF FreeMaster, Linked
<1>7. ASSUME x.state \in {"NONE", "CONNECT"}
      PROVE  cancelReplicationHandshake(x) = x /\ Unlinked(x, x)
  BY <1>7 DEF cancelReplicationHandshake, Handshake, Unlinked
<1>8. x.state \in {"NONE", "CONNECT", "CONNECTED", "TRANSFER"} \cup Handshake
  BY DEF Linked, IsSlave, ReplStates, Handshake
<1> QED
  BY <1>3, <1>4, <1>5, <1>6, <1>7, <1>8 DEF cancelReplicationHandshake

\* SLAVEOF: what is there ends, and the state starts anew with the host.
LEMMA NewMaster ==
    ASSUME NEW x, SlaveInv(x), NEW h \in Hosts \cup {NoHost}, NEW st,
           st = IF h = NoHost THEN "NONE" ELSE "CONNECT"
    PROVE  SlaveInv([cancelReplicationHandshake(FreeMaster([x EXCEPT !.host = h])) EXCEPT !.state = st])
<1> DEFINE x0 == [x EXCEPT !.host = h]
           x1 == FreeMaster(x0)
           x2 == cancelReplicationHandshake(x1)
           n  == [x2 EXCEPT !.state = st]
<1>1. Linked(x0)
  <2>1. x = [host |-> x.host, state |-> x.state, sockets |-> x.sockets, s |-> x.s,
             master |-> x.master, tmp |-> x.tmp, size |-> x.size, opened |-> x.opened]
    BY DEF SlaveInv, Linked, IsSlave
  <2>2. x0 = [x EXCEPT !.host = h]
    OBVIOUS
  <2> HIDE DEF x0
  <2>3. x0 = [host |-> h, state |-> x.state, sockets |-> x.sockets, s |-> x.s,
              master |-> x.master, tmp |-> x.tmp, size |-> x.size, opened |-> x.opened]
    BY <2>1, <2>2
  <2>4. /\ x.state \in ReplStates /\ x.sockets \in [DOMAIN x.sockets -> Socket]
        /\ DOMAIN x.sockets \in SUBSET (1 .. x.opened) /\ x.opened \in Nat
    BY DEF SlaveInv, Linked, IsSlave
  <2>5. IsSlave(x0)
    BY <2>3, <2>4, SlaveRecordType
  <2>6. /\ x0.state = x.state /\ x0.sockets = x.sockets /\ x0.s = x.s /\ x0.master = x.master /\ x0.tmp = x.tmp
    BY <2>3
  <2> QED
    BY <2>5, <2>6 DEF SlaveInv, Linked
<1> HIDE DEF x0
<1>2. Linked(x1) /\ x1.state # "CONNECTED"
  <2>1. CASE x0.state = "CONNECTED"
    BY <1>1, <2>1, LinkEnds DEF Unlinked
  <2>2. CASE x0.state # "CONNECTED"
    BY <1>1, <2>2, LinkEnds
  <2> QED
    BY <2>1, <2>2
<1> HIDE DEF x1
<1>3. Linked(x2) /\ x2.state \in {"NONE", "CONNECT"}
  BY <1>2, LinkEnds DEF Unlinked
<1>4. x2.host = h
  <2>1. x0.host = h
    BY DEF x0, SlaveInv, Linked, IsSlave
  <2>2. x1.host = x0.host
    BY <1>1, LinkEnds DEF x1, Unlinked
  <2>3. x2.host = x1.host
    BY <1>2, LinkEnds DEF Unlinked
  <2> QED
    BY <2>1, <2>2, <2>3
<1> HIDE DEF x2
<1>5. x2 = [host |-> x2.host, state |-> x2.state, sockets |-> x2.sockets, s |-> x2.s,
            master |-> x2.master, tmp |-> x2.tmp, size |-> x2.size, opened |-> x2.opened]
  BY <1>3 DEF Linked, IsSlave
<1>6. n = [x2 EXCEPT !.state = st]
  OBVIOUS
<1> HIDE DEF n
<1>7. n = [host |-> x2.host, state |-> st, sockets |-> x2.sockets, s |-> x2.s,
           master |-> x2.master, tmp |-> x2.tmp, size |-> x2.size, opened |-> x2.opened]
  BY <1>5, <1>6
<1>8. /\ x2.sockets \in [DOMAIN x2.sockets -> Socket] /\ x2.host \in Hosts \cup {NoHost}
      /\ DOMAIN x2.sockets \in SUBSET (1 .. x2.opened) /\ x2.opened \in Nat
  BY <1>3 DEF Linked, IsSlave
<1>9. st \in ReplStates
  BY DEF ReplStates
<1>10. IsSlave(n)
  BY <1>7, <1>8, <1>9, SlaveRecordType
<1>11. /\ n.host = h /\ n.state = st /\ n.sockets = x2.sockets /\ n.master = x2.master /\ n.tmp = x2.tmp
  BY <1>4, <1>7
<1>12. Linked(n)
  BY <1>3, <1>10, <1>11 DEF Linked, Handshake
<1>13. SlaveInv(n)
  BY <1>11, <1>12 DEF SlaveInv
<1> QED
  BY <1>13 DEF n, x2, x1, x0

\* A link that ended while the master is still configured is looked for again.
LEMMA EndedIsInv ==
    ASSUME NEW x, SlaveInv(x), NEW y, Unlinked(x, y)
    PROVE  SlaveInv(y)
<1>1. CASE x.state \in {"NONE", "CONNECT"}
  BY <1>1 DEF Unlinked
<1>2. CASE x.state \notin {"NONE", "CONNECT"}
  <2>1. y.state = "CONNECT" /\ Linked(y) /\ y.host = x.host /\ x.host # NoHost
    BY <1>2 DEF Unlinked, SlaveInv
  <2> QED
    BY <2>1 DEF SlaveInv
<1> QED
  BY <1>1, <1>2

\* A timeout ends whatever is under way.
LEMMA TimeoutEnds ==
    ASSUME NEW x, SlaveInv(x)
    PROVE  SlaveInv(Timeout(x)) /\ Timeout(x).opened \in Nat
<1>1. Linked(x) /\ x.state \in ReplStates
  BY DEF SlaveInv, Linked, IsSlave
<1>2. CASE x.state \in Handshake
  <2>1. Timeout(x) = undoConnectWithMaster(x)
    BY <1>2 DEF Timeout, Handshake
  <2> QED
    BY <1>1, <1>2, <2>1, LinkEnds, EndedIsInv DEF SlaveInv, Linked, IsSlave
<1>3. CASE x.state = "TRANSFER"
  <2>1. Timeout(x) = replicationAbortSyncTransfer(x)
    BY <1>3 DEF Timeout, Handshake
  <2> QED
    BY <1>1, <1>3, <2>1, LinkEnds, EndedIsInv DEF SlaveInv, Linked, IsSlave
<1>4. CASE x.state = "CONNECTED"
  <2>1. Timeout(x) = FreeMaster(x)
    BY <1>4 DEF Timeout, Handshake
  <2> QED
    BY <1>1, <1>4, <2>1, LinkEnds, EndedIsInv DEF SlaveInv, Linked, IsSlave
<1>5. CASE x.state \in {"NONE", "CONNECT"}
  <2>1. Timeout(x) = x
    BY <1>5 DEF Timeout, Handshake
  <2> QED
    BY <2>1 DEF SlaveInv, Linked, IsSlave
<1> QED
  BY <1>1, <1>2, <1>3, <1>4, <1>5 DEF ReplStates, Handshake

\* The record that a handler leaves is the next state.
LEMMA SlaveNextRecord ==
    ASSUME NEW x, SlaveBecomes(x),
           x = [host |-> x.host, state |-> x.state, sockets |-> x.sockets, s |-> x.s,
                master |-> x.master, tmp |-> x.tmp, size |-> x.size, opened |-> x.opened]
    PROVE  Slave' = x
  BY DEF SlaveBecomes, Slave

LEMMA SlaveFields ==
    /\ Slave.host = masterhost /\ Slave.state = repl_state /\ Slave.sockets = sockets
    /\ Slave.s = repl_transfer_s /\ Slave.master = master /\ Slave.tmp = tmpfile
    /\ Slave.size = size /\ Slave.opened = opened
  BY DEF Slave

\* replicationCron connects to the master that is configured.
LEMMA ConnectFacts ==
    ASSUME NEW x, SlaveInv(x), x.state = "CONNECT"
    PROVE  SlaveInv(connectWithMaster(x))
<1> DEFINE id == x.opened + 1
           D == DOMAIN x.sockets \cup {id}
           new == [host |-> x.host, events |-> {"sync_r", "sync_w"}]
           t == [i \in D |-> IF i = id THEN new ELSE x.sockets[i]]
           n == connectWithMaster(x)
<1>1. /\ x = [host |-> x.host, state |-> x.state, sockets |-> x.sockets, s |-> x.s,
              master |-> x.master, tmp |-> x.tmp, size |-> x.size, opened |-> x.opened]
      /\ x.opened \in Nat /\ x.host \in Hosts \cup {NoHost} /\ DOMAIN x.sockets = {}
      /\ x.tmp = FALSE /\ x.master = NoSocket
  BY DEF SlaveInv, Linked, IsSlave
<1>2. new \in Socket
  BY <1>1 DEF Socket
<1>3. D = {id} /\ id \in Nat /\ id \in 1 .. id
  BY <1>1
<1>4. t \in [D -> Socket] /\ DOMAIN t = {id} /\ t[id] = new
  BY <1>2, <1>3
<1>5. n = [x EXCEPT !.opened = id, !.s = id, !.state = "CONNECTING", !.sockets = t]
  BY <1>1 DEF connectWithMaster
<1>6. D \in SUBSET (1 .. id)
  BY <1>3
<1> HIDE DEF n, t, new, D, id
<1>7. n = [host |-> x.host, state |-> "CONNECTING", sockets |-> t, s |-> id,
           master |-> x.master, tmp |-> x.tmp, size |-> x.size, opened |-> id]
  BY <1>1, <1>5
<1>8. "CONNECTING" \in ReplStates
  BY DEF ReplStates
<1>9. IsSlave(n)
  BY <1>1, <1>3, <1>4, <1>6, <1>7, <1>8, SlaveRecordType
<1>10. /\ n.host = x.host /\ n.state = "CONNECTING" /\ n.sockets = t /\ n.s = id
       /\ n.master = NoSocket /\ n.tmp = FALSE
  BY <1>1, <1>7
<1>11. x.host # NoHost
  BY DEF SlaveInv
<1>12. Linked(n)
  BY <1>4, <1>9, <1>10 DEF Linked, Handshake
<1>13. OneSocket(n, n.s, {"sync_r", "sync_w"})
  BY <1>4, <1>10 DEF OneSocket, new
<1>14. SlaveInv(n)
  BY <1>10, <1>11, <1>12, <1>13 DEF SlaveInv
<1> QED
  BY <1>14 DEF n

\* The socket in use gets the handlers of the state st, and the link that state.
EventsOf(st) == CASE st = "RECEIVE_PONG" -> {"sync_r"} [] st = "TRANSFER" -> {"payload"} [] OTHER -> {}
MasterOf(st, id) == IF st = "CONNECTED" THEN id ELSE NoSocket

LEMMA HandlersChange ==
    ASSUME NEW x, SlaveInv(x), NEW id, DOMAIN x.sockets = {id}, id = x.s, x.host # NoHost,
           NEW st \in {"RECEIVE_PONG", "TRANSFER", "CONNECTED"},
           NEW known, NEW tmp, tmp = (st = "TRANSFER")
    PROVE  SlaveInv([host |-> x.host, state |-> st, sockets |-> [x.sockets EXCEPT ![id].events = EventsOf(st)],
                     s |-> x.s, master |-> MasterOf(st, id), tmp |-> tmp, size |-> known, opened |-> x.opened])
<1> DEFINE ev == EventsOf(st)
           t  == [x.sockets EXCEPT ![id].events = ev]
           m  == MasterOf(st, id)
           n  == [host |-> x.host, state |-> st, sockets |-> t, s |-> x.s,
                  master |-> m, tmp |-> tmp, size |-> known, opened |-> x.opened]
<1>0. /\ ev = CASE st = "RECEIVE_PONG" -> {"sync_r"} [] st = "TRANSFER" -> {"payload"} [] OTHER -> {}
      /\ m = IF st = "CONNECTED" THEN id ELSE NoSocket
      /\ t = [x.sockets EXCEPT ![id].events = ev]
      /\ n = [host |-> x.host, state |-> st, sockets |-> t, s |-> x.s,
              master |-> m, tmp |-> tmp, size |-> known, opened |-> x.opened]
  BY DEF EventsOf, MasterOf
<1>14. ev \in SUBSET {"sync_r", "sync_w", "payload"}
  BY DEF EventsOf
<1> HIDE DEF ev, t, m, n
<1>1. /\ x.sockets \in [DOMAIN x.sockets -> Socket] /\ x.host \in Hosts \cup {NoHost}
      /\ DOMAIN x.sockets \in SUBSET (1 .. x.opened) /\ x.opened \in Nat
  BY DEF SlaveInv, Linked, IsSlave
<1>2. x.sockets[id].host = x.host /\ x.sockets[id] \in Socket
  <2>1. x.state \notin {"NONE", "CONNECT"}
    BY DEF SlaveInv, Linked
  <2>2. x.state \in ReplStates
    BY DEF SlaveInv, Linked, IsSlave
  <2>3. \E e : OneSocket(x, id, e)
    BY <2>1, <2>2 DEF SlaveInv, Linked, Handshake, ReplStates, OneSocket
  <2> QED
    BY <1>1, <2>3 DEF OneSocket
<1>3. DOMAIN t = {id} /\ t[id] = [host |-> x.host, events |-> ev]
  <2>1. DOMAIN t = {id}
    BY <1>0
  <2>2. t[id] = [x.sockets[id] EXCEPT !.events = ev]
    BY <1>0
  <2>3. x.sockets[id] = [host |-> x.sockets[id].host, events |-> x.sockets[id].events]
    BY <1>2 DEF Socket
  <2>4. t[id] = [host |-> x.sockets[id].host, events |-> ev]
    BY <2>2, <2>3
  <2> QED
    BY <1>2, <2>1, <2>4
<1>4. [host |-> x.host, events |-> ev] \in Socket
  BY <1>1, <1>14 DEF Socket
<1>5. t \in [{id} -> Socket]
  <2>1. t = [i \in {id} |-> [host |-> x.host, events |-> ev]]
    BY <1>0, <1>3
  <2> QED
    BY <1>4, <2>1
<1>6. st \in ReplStates
  BY DEF ReplStates
<1>7. IsSlave(n)
  BY <1>0, <1>1, <1>3, <1>5, <1>6, SlaveRecordType
<1>8. id \in Nat /\ id # NoSocket
  BY <1>1 DEF NoSocket
<1>9. /\ n.host = x.host /\ n.state = st /\ n.sockets = t /\ n.s = id
      /\ n.master = m /\ n.tmp = tmp
  BY <1>0
<1>10. OneSocket(n, id, ev)
  BY <1>3, <1>9 DEF OneSocket
<1>11. Linked(n)
  BY <1>0, <1>3, <1>7, <1>8, <1>9 DEF Linked, Handshake
<1>12. SlaveInv(n)
  BY <1>0, <1>9, <1>10, <1>11 DEF SlaveInv
<1> QED
  BY <1>12 DEF n, t, ev, m

\* Which socket an event is of.
LEMMA EventOfTheSocket ==
    ASSUME NEW x, SlaveInv(x), NEW id \in DOMAIN x.sockets
    PROVE  /\ x.sockets[id].events \cap {"sync_r", "sync_w"} # {} => x.state \in Handshake
           /\ "payload" \in x.sockets[id].events => x.state = "TRANSFER"
           /\ x.state \in Handshake \cup {"TRANSFER"} =>
                DOMAIN x.sockets = {id} /\ id = x.s /\ x.host # NoHost
           /\ x.state = "CONNECTING" => x.sockets[id].events = {"sync_r", "sync_w"}
           /\ x.state = "RECEIVE_PONG" => x.sockets[id].events = {"sync_r"}
           /\ x.state = "TRANSFER" => x.sockets[id].events = {"payload"}
<1>1. x.state \in ReplStates
  BY DEF SlaveInv, Linked, IsSlave
<1>2. x.state \in Handshake \cup {"TRANSFER"} => DOMAIN x.sockets = {id} /\ id = x.s /\ x.host # NoHost
  BY DEF SlaveInv, Linked, Handshake
<1>3. CASE x.state \in {"NONE", "CONNECT"}
  BY <1>3 DEF SlaveInv, Linked
<1>4. CASE x.state = "CONNECTING"
  BY <1>2, <1>4 DEF SlaveInv, OneSocket, Handshake
<1>5. CASE x.state = "RECEIVE_PONG"
  BY <1>2, <1>5 DEF SlaveInv, OneSocket, Handshake
<1>6. CASE x.state = "TRANSFER"
  BY <1>2, <1>6 DEF SlaveInv, OneSocket, Handshake
<1>7. CASE x.state = "CONNECTED"
  <2>1. x.sockets[id].events = {}
    BY <1>7 DEF SlaveInv, OneSocket
  <2> QED
    BY <1>7, <2>1 DEF Handshake
<1> QED
  BY <1>1, <1>3, <1>4, <1>5, <1>6, <1>7 DEF ReplStates

LEMMA SyncStep ==
    ASSUME SlaveInv(Slave), NEW id \in DOMAIN sockets, syncWithMaster(id)
    PROVE  SlaveInv(Slave)'
<1> DEFINE x == Slave
<1>1. x.sockets = sockets /\ x.state = repl_state /\ id \in DOMAIN x.sockets
  BY SlaveFields
<1>2. x = [host |-> x.host, state |-> x.state, sockets |-> x.sockets, s |-> x.s,
           master |-> x.master, tmp |-> x.tmp, size |-> x.size, opened |-> x.opened]
  BY DEF SlaveInv, Linked, IsSlave
<1>3. x.sockets[id].events \cap {"sync_r", "sync_w"} # {}
  BY <1>1 DEF syncWithMaster
<1> HIDE DEF x
<1>4. SlaveInv(x)
  BY DEF x
<1>5. /\ x.state \in Handshake /\ DOMAIN x.sockets = {id} /\ id = x.s /\ x.host # NoHost
      /\ x.master = NoSocket /\ x.tmp = FALSE
  BY <1>1, <1>3, <1>4, EventOfTheSocket DEF SlaveInv, Linked, Handshake
<1> DEFINE wait == [DeleteFileEvent(x, id, {"sync_w"}) EXCEPT !.state = "RECEIVE_PONG"]
<1>6. PICK ok \in BOOLEAN : SlaveBecomes(
          IF ~ok THEN SyncFails(x, id)
          ELSE IF x.state = "CONNECTING" THEN wait ELSE StartTransfer(x, id))
  BY <1>1, <1>5 DEF syncWithMaster, x, Handshake
<1>7. SlaveInv(SyncFails(x, id))
  <2>1. SyncFails(x, id) = undoConnectWithMaster(x)
    BY <1>5 DEF SyncFails, undoConnectWithMaster
  <2> QED
    BY <1>4, <1>5, <2>1, LinkEnds, EndedIsInv DEF SlaveInv
<1>8. ASSUME x.state = "CONNECTING" PROVE SlaveInv(wait)
  <2> DEFINE t == [x.sockets EXCEPT ![id].events = {"sync_r"}]
             n == wait
  <2>1. x.sockets[id].events = {"sync_r", "sync_w"}
    BY <1>1, <1>4, <1>8, EventOfTheSocket
  <2>2. DeleteFileEvent(x, id, {"sync_w"}) = [x EXCEPT !.sockets[id].events = {"sync_r"}]
    <3>1. x.sockets[id].events \ {"sync_w"} = {"sync_r"}
      BY <2>1
    <3> QED
      BY <1>1, <3>1 DEF DeleteFileEvent
  <2>3. [x EXCEPT !.sockets[id].events = {"sync_r"}] = [x EXCEPT !.sockets = t]
    BY <1>2
  <2> DEFINE d == DeleteFileEvent(x, id, {"sync_w"})
  <2>4. n = [d EXCEPT !.state = "RECEIVE_PONG"]
    OBVIOUS
  <2>5. d = [x EXCEPT !.sockets = t]
    BY <2>2, <2>3
  <2>6. t = [x.sockets EXCEPT ![id].events = {"sync_r"}]
    OBVIOUS
  <2> HIDE DEF n, d, t
  <2>7. d = [host |-> x.host, state |-> x.state, sockets |-> t, s |-> x.s,
             master |-> x.master, tmp |-> x.tmp, size |-> x.size, opened |-> x.opened]
    BY <1>2, <2>5
  <2>8. n = [host |-> x.host, state |-> "RECEIVE_PONG", sockets |-> t, s |-> x.s,
             master |-> NoSocket, tmp |-> FALSE, size |-> x.size, opened |-> x.opened]
    BY <1>5, <2>4, <2>7
  <2> DEFINE st == "RECEIVE_PONG"
             no == FALSE
  <2>9. /\ st \in {"RECEIVE_PONG", "TRANSFER", "CONNECTED"} /\ no = (st = "TRANSFER")
        /\ n = [host |-> x.host, state |-> st, sockets |-> [x.sockets EXCEPT ![id].events = EventsOf(st)],
                s |-> x.s, master |-> MasterOf(st, id), tmp |-> no, size |-> x.size, opened |-> x.opened]
    BY <2>6, <2>8 DEF EventsOf, MasterOf
  <2> HIDE DEF st, no
  <2>10. SlaveInv(n)
    BY <1>4, <1>5, <2>9, HandlersChange
  <2> QED
    BY <2>10 DEF n
<1>9. ASSUME x.state = "RECEIVE_PONG" PROVE SlaveInv(StartTransfer(x, id))
  <2> DEFINE t == [x.sockets EXCEPT ![id].events = {"payload"}]
             n == StartTransfer(x, id)
  <2>1. x.sockets[id].events = {"sync_r"}
    BY <1>1, <1>4, <1>9, EventOfTheSocket
  <2>2. (x.sockets[id].events \ {"sync_r"}) \cup {"payload"} = {"payload"}
    BY <2>1
  <2>3. n = [x EXCEPT !.sockets = t, !.state = "TRANSFER", !.size = FALSE, !.tmp = TRUE]
    BY <1>2, <2>2 DEF StartTransfer
  <2>4. t = [x.sockets EXCEPT ![id].events = {"payload"}]
    OBVIOUS
  <2> HIDE DEF n, t
  <2>5. n = [host |-> x.host, state |-> "TRANSFER", sockets |-> t, s |-> x.s,
             master |-> NoSocket, tmp |-> TRUE, size |-> FALSE, opened |-> x.opened]
    BY <1>2, <1>5, <2>3
  <2> DEFINE st == "TRANSFER"
             yes == TRUE
             no == FALSE
  <2>6. /\ st \in {"RECEIVE_PONG", "TRANSFER", "CONNECTED"} /\ yes = (st = "TRANSFER")
        /\ n = [host |-> x.host, state |-> st, sockets |-> [x.sockets EXCEPT ![id].events = EventsOf(st)],
                s |-> x.s, master |-> MasterOf(st, id), tmp |-> yes, size |-> no, opened |-> x.opened]
    BY <2>4, <2>5 DEF EventsOf, MasterOf
  <2> HIDE DEF st, yes, no
  <2>7. SlaveInv(n)
    BY <1>4, <1>5, <2>6, HandlersChange
  <2> QED
    BY <2>7 DEF n
<1> HIDE DEF wait
<1>10. \E y : SlaveBecomes(y) /\ SlaveInv(y)
  BY <1>5, <1>6, <1>7, <1>8, <1>9 DEF Handshake
<1> QED
  BY <1>10, SlaveNextRecord DEF SlaveInv, Linked, IsSlave

LEMMA PayloadStep ==
    ASSUME SlaveInv(Slave), NEW id \in DOMAIN sockets, readSyncBulkPayload(id)
    PROVE  SlaveInv(Slave)'
<1> DEFINE x == Slave
<1>1. x.sockets = sockets /\ x.state = repl_state /\ id \in DOMAIN x.sockets
  BY SlaveFields
<1>2. x = [host |-> x.host, state |-> x.state, sockets |-> x.sockets, s |-> x.s,
           master |-> x.master, tmp |-> x.tmp, size |-> x.size, opened |-> x.opened]
  BY DEF SlaveInv, Linked, IsSlave
<1>3. "payload" \in x.sockets[id].events
  BY <1>1 DEF readSyncBulkPayload
<1> DEFINE known == [x EXCEPT !.size = TRUE]
           full  == SyncFinished(x, id)
           aborted == replicationAbortSyncTransfer(x)
<1>4. SlaveBecomes(aborted) \/ SlaveBecomes(known) \/ SlaveBecomes(full)
  BY DEF readSyncBulkPayload
<1> HIDE DEF x
<1>5. SlaveInv(x)
  BY DEF x
<1>6. /\ x.state = "TRANSFER" /\ DOMAIN x.sockets = {id} /\ id = x.s /\ x.host # NoHost
      /\ x.master = NoSocket /\ x.tmp = TRUE /\ x.sockets[id].events = {"payload"}
  BY <1>1, <1>3, <1>5, EventOfTheSocket DEF SlaveInv, Linked, Handshake
<1>7. SlaveInv(aborted)
  BY <1>5, <1>6, LinkEnds, EndedIsInv DEF SlaveInv
<1>8. SlaveInv(known)
  <2> DEFINE n == known
             st == "TRANSFER"
             yes == TRUE
             t == [x.sockets EXCEPT ![id].events = {"payload"}]
  <2>1. n = [x EXCEPT !.size = TRUE]
    OBVIOUS
  <2>2. t = x.sockets
    BY <1>6, <1>5 DEF SlaveInv, Linked, IsSlave, Socket
  <2> HIDE DEF n
  <2>3. n = [host |-> x.host, state |-> st, sockets |-> t, s |-> x.s,
             master |-> NoSocket, tmp |-> yes, size |-> yes, opened |-> x.opened]
    BY <1>2, <1>6, <2>1, <2>2
  <2>4. /\ st \in {"RECEIVE_PONG", "TRANSFER", "CONNECTED"} /\ yes = (st = "TRANSFER")
        /\ n = [host |-> x.host, state |-> st, sockets |-> [x.sockets EXCEPT ![id].events = EventsOf(st)],
                s |-> x.s, master |-> MasterOf(st, id), tmp |-> yes, size |-> yes, opened |-> x.opened]
    BY <2>3 DEF EventsOf, MasterOf
  <2> HIDE DEF st, yes, t
  <2>5. SlaveInv(n)
    BY <1>5, <1>6, <2>4, HandlersChange
  <2> QED
    BY <2>5 DEF n
<1>9. SlaveInv(full)
  <2> DEFINE n == full
             st == "CONNECTED"
             no == FALSE
             t == [x.sockets EXCEPT ![id].events = {}]
             d == DeleteFileEvent(x, id, {"payload"})
  <2>1. d = [x EXCEPT !.sockets[id].events = {}]
    <3>1. x.sockets[id].events \ {"payload"} = {}
      BY <1>6
    <3> QED
      BY <1>1, <3>1 DEF DeleteFileEvent
  <2>2. d = [x EXCEPT !.sockets = t]
    BY <1>2, <2>1
  <2>3. n = [d EXCEPT !.tmp = FALSE, !.master = x.s, !.state = "CONNECTED"]
    BY DEF SyncFinished
  <2>4. t = [x.sockets EXCEPT ![id].events = {}]
    OBVIOUS
  <2> HIDE DEF n, d, t
  <2>5. d = [host |-> x.host, state |-> x.state, sockets |-> t, s |-> x.s,
             master |-> x.master, tmp |-> x.tmp, size |-> x.size, opened |-> x.opened]
    BY <1>2, <2>2
  <2>6. n = [host |-> x.host, state |-> st, sockets |-> t, s |-> x.s,
             master |-> x.s, tmp |-> no, size |-> x.size, opened |-> x.opened]
    BY <2>3, <2>5
  <2>7. /\ st \in {"RECEIVE_PONG", "TRANSFER", "CONNECTED"} /\ no = (st = "TRANSFER")
        /\ n = [host |-> x.host, state |-> st, sockets |-> [x.sockets EXCEPT ![id].events = EventsOf(st)],
                s |-> x.s, master |-> MasterOf(st, id), tmp |-> no, size |-> x.size, opened |-> x.opened]
    BY <1>6, <2>4, <2>6 DEF EventsOf, MasterOf
  <2> HIDE DEF st, no
  <2>8. SlaveInv(n)
    BY <1>5, <1>6, <2>7, HandlersChange
  <2> QED
    BY <2>8 DEF n
<1> HIDE DEF aborted, known, full
<1>10. \E y : SlaveBecomes(y) /\ SlaveInv(y)
  BY <1>4, <1>7, <1>8, <1>9
<1> QED
  BY <1>10, SlaveNextRecord DEF SlaveInv, Linked, IsSlave

LEMMA SlaveStarts ==
    ASSUME SlaveInit PROVE SlaveInv(Slave)
<1> DEFINE none == {}
           empty == <<>>
           zero == 0
           no == FALSE
           x == [host |-> masterhost, state |-> repl_state, sockets |-> empty, s |-> NoSocket,
                 master |-> NoSocket, tmp |-> no, size |-> no, opened |-> zero]
<1>1. /\ masterhost \in Hosts \cup {NoHost}
      /\ repl_state = IF masterhost = NoHost THEN "NONE" ELSE "CONNECT"
      /\ Slave = x
  BY DEF SlaveInit, Slave
<1>2. empty \in [none -> Socket] /\ none \in SUBSET (1 .. zero) /\ zero \in Nat /\ none = {} /\ no = FALSE
  OBVIOUS
<1>3. repl_state \in ReplStates
  BY <1>1 DEF ReplStates
<1> HIDE DEF empty, zero, none, no
<1>4. IsSlave(x) /\ DOMAIN x.sockets = none
  BY <1>1, <1>2, <1>3, SlaveRecordType
<1>5. x.host = masterhost /\ x.state = repl_state /\ x.master = NoSocket /\ x.tmp = no
  OBVIOUS
<1> HIDE DEF x
<1>6. Linked(x)
  BY <1>1, <1>2, <1>4, <1>5 DEF Linked, Handshake
<1> QED
  BY <1>1, <1>5, <1>6 DEF SlaveInv

LEMMA SlaveSteps ==
    ASSUME SlaveInv(Slave), SlaveNext
    PROVE  SlaveInv(Slave)'
<1>0. SlaveInv(Slave) /\ Linked(Slave) /\ Slave.host \in Hosts \cup {NoHost}
  BY DEF SlaveInv, Linked, IsSlave
<1>1. ASSUME NEW y, SlaveBecomes(y), SlaveInv(y) PROVE SlaveInv(Slave)'
  BY <1>1, SlaveNextRecord DEF SlaveInv, Linked, IsSlave
<1>2. ASSUME SlaveofNoOne PROVE SlaveInv(Slave)'
  <2> DEFINE st == "NONE"
             n == [cancelReplicationHandshake(FreeMaster([Slave EXCEPT !.host = NoHost])) EXCEPT !.state = st]
  <2>1. SlaveBecomes(n)
    BY <1>2 DEF SlaveofNoOne
  <2>2. st = IF NoHost = NoHost THEN "NONE" ELSE "CONNECT"
    OBVIOUS
  <2> HIDE DEF st
  <2>3. SlaveInv(n)
    BY <1>0, <2>2, NewMaster
  <2> QED
    BY <1>1, <2>1, <2>3
<1>3. ASSUME NEW h \in Hosts, SlaveofHost(h) PROVE SlaveInv(Slave)'
  <2> DEFINE st == "CONNECT"
             n == [cancelReplicationHandshake(FreeMaster([Slave EXCEPT !.host = h])) EXCEPT !.state = st]
  <2>1. SlaveBecomes(n)
    BY <1>3 DEF SlaveofHost
  <2>2. h # NoHost
    BY SlaveLinkAssumption
  <2>3. st = IF h = NoHost THEN "NONE" ELSE "CONNECT"
    BY <2>2
  <2> HIDE DEF st
  <2>4. SlaveInv(n)
    BY <1>0, <2>3, NewMaster
  <2> QED
    BY <1>1, <2>1, <2>4
<1>4. ASSUME MasterLost PROVE SlaveInv(Slave)'
  <2>1. SlaveBecomes(FreeMaster(Slave)) /\ Slave.master # NoSocket
    BY <1>4, SlaveFields DEF MasterLost
  <2>2. Slave.state = "CONNECTED"
    BY <1>0, <2>1 DEF Linked
  <2>3. SlaveInv(FreeMaster(Slave))
    BY <1>0, <2>2, LinkEnds, EndedIsInv
  <2> QED
    BY <1>1, <2>1, <2>3
<1>5. ASSUME replicationCron PROVE SlaveInv(Slave)'
  <2>1. PICK late, up \in BOOLEAN :
          SlaveBecomes(IF (IF late /\ masterhost # NoHost THEN Timeout(Slave) ELSE Slave).state = "CONNECT" /\ up
                       THEN connectWithMaster(IF late /\ masterhost # NoHost THEN Timeout(Slave) ELSE Slave)
                       ELSE IF late /\ masterhost # NoHost THEN Timeout(Slave) ELSE Slave)
    BY <1>5 DEF replicationCron
  <2> DEFINE x == IF late /\ masterhost # NoHost THEN Timeout(Slave) ELSE Slave
  <2>2. SlaveInv(x)
    BY <1>0, TimeoutEnds
  <2> HIDE DEF x
  <2>3. SlaveBecomes(IF x.state = "CONNECT" /\ up THEN connectWithMaster(x) ELSE x)
    BY <2>1 DEF x
  <2> QED
    BY <1>1, <2>2, <2>3, ConnectFacts
<1>6. ASSUME NEW id \in DOMAIN sockets, syncWithMaster(id) \/ readSyncBulkPayload(id) PROVE SlaveInv(Slave)'
  BY <1>0, <1>6, SyncStep, PayloadStep
<1> QED
  BY <1>2, <1>3, <1>4, <1>5, <1>6 DEF SlaveNext

LEMMA SlaveRests ==
    ASSUME SlaveInv(Slave), UNCHANGED slaveVars
    PROVE  SlaveInv(Slave)'
<1>1. Slave' = Slave
  BY DEF Slave, slaveVars
<1> QED
  BY <1>1

LEMMA SlaveInvImplies ==
    ASSUME SlaveInv(Slave) PROVE LinkIsOfItsMaster
<1>1. Linked(Slave) /\ Slave.state \in ReplStates
  BY DEF SlaveInv, Linked, IsSlave
<1>2. /\ (master # NoSocket) <=> (repl_state = "CONNECTED")
      /\ (masterhost = NoHost) <=> (repl_state = "NONE")
      /\ tmpfile <=> (repl_state = "TRANSFER")
  BY <1>1, SlaveFields DEF SlaveInv, Linked
<1>3. CASE repl_state \in {"NONE", "CONNECT"}
  BY <1>1, <1>2, <1>3, SlaveFields DEF LinkIsOfItsMaster, Linked, Handshake
<1>4. CASE repl_state = "CONNECTING"
  BY <1>1, <1>2, <1>4, SlaveFields DEF LinkIsOfItsMaster, SlaveInv, OneSocket, Handshake
<1>5. CASE repl_state = "RECEIVE_PONG"
  BY <1>1, <1>2, <1>5, SlaveFields DEF LinkIsOfItsMaster, SlaveInv, OneSocket, Handshake
<1>6. CASE repl_state = "TRANSFER"
  BY <1>1, <1>2, <1>6, SlaveFields DEF LinkIsOfItsMaster, SlaveInv, OneSocket, Handshake
<1>7. CASE repl_state = "CONNECTED"
  BY <1>1, <1>2, <1>7, SlaveFields DEF LinkIsOfItsMaster, SlaveInv, OneSocket, Handshake
<1> QED
  BY <1>1, <1>3, <1>4, <1>5, <1>6, <1>7, SlaveFields DEF ReplStates

\* Whatever the order of SLAVEOF, timeouts, lost links, late events of
\* sockets and failed transfers (replicationCron, syncWithMaster,
\* readSyncBulkPayload, freeClient), a slave has no socket open but the one
\* in use, with the handlers of its state, and it leads to the master that is
\* configured.
THEOREM SlaveHasOneLink ==
    SlaveInit /\ [][SlaveNext]_slaveVars => []LinkIsOfItsMaster
<1>1. SlaveInit => SlaveInv(Slave)
  BY SlaveStarts
<1>2. SlaveInv(Slave) /\ [SlaveNext]_slaveVars => SlaveInv(Slave)'
  BY SlaveSteps, SlaveRests
<1>3. SlaveInv(Slave) => LinkIsOfItsMaster
  BY SlaveInvImplies
<1> QED
  BY <1>1, <1>2, <1>3, PTL

----------------------------------------------------------------------------
(* The queue of a Sentinel's scripts.                                      *)

ScriptJob == [state : {"NONE", "DELAYED", "RUNNING"}, retry_num : Nat]
ScriptEnd == {"runs", "exit0", "exit1", "signal"}

(* The jobs are numbered by the n that were scheduled.                     *)
IsQueue(q, n) ==
    /\ q \in [DOMAIN q -> ScriptJob] /\ DOMAIN q \subseteq 1 .. n
    /\ Cardinality(DOMAIN q) <= SCRIPT_MAX_QUEUE

(* The counter is not below the number of jobs that run.                   *)
CounterOk(q, running) ==
    /\ running \in Int
    /\ Cardinality(RunningJobs(q)) <= running /\ running <= SCRIPT_MAX_RUNNING

(* A job that runs has one process, and every process has its job.         *)
ChildrenOk(q, kids) ==
    /\ \A c \in kids : c = [pid |-> c.pid, state |-> c.state] /\ c.state \in ScriptEnd
    /\ \A c, d \in kids : c.pid = d.pid => c = d
    /\ \A c \in kids : c.pid[1] \in RunningJobs(q) /\ c.pid = Pid(q, c.pid[1])
    /\ \A i \in RunningJobs(q) : \E c \in kids : c.pid = Pid(q, i)

ScriptsInv ==
    /\ scheduled \in Nat
    /\ IsQueue(scripts_queue, scheduled)
    /\ CounterOk(scripts_queue, running_scripts)
    /\ ChildrenOk(scripts_queue, children)

\* A set of numbered jobs is finite, and so are its parts.
LEMMA JobsAreFinite ==
    ASSUME NEW n \in Nat, NEW I, I \subseteq 1 .. n
    PROVE  IsFiniteSet(I) /\ Cardinality(I) \in Nat
<1>1. IsFiniteSet(1 .. n)
  BY FS_Interval
<1>2. IsFiniteSet(I)
  BY <1>1, FS_Subset
<1> QED
  BY <1>2, FS_CardinalityType

\* Of two jobs the later one has more before it.
LEMMA LaterHasMoreBefore ==
    ASSUME NEW n \in Nat, NEW I, I \subseteq 1 .. n, NEW i \in I, NEW j \in I, i < j
    PROVE  Cardinality({k \in I : k < i}) < Cardinality({k \in I : k < j})
<1> DEFINE A == {k \in I : k < i}
           B == {k \in I : k < j}
<1>0. I \subseteq Nat
  OBVIOUS
<1>1. A \subseteq B /\ i \in B /\ i \notin A
  <2>1. \A k \in I : k \in Nat
    BY <1>0
  <2>2. \A k \in I : k < i => k < j
    BY <2>1
  <2>3. ~(i < i)
    BY <2>1
  <2> QED
    BY <2>2, <2>3
<1>2. IsFiniteSet(B) /\ Cardinality(B) \in Nat /\ Cardinality(A) \in Nat
  <2>1. A \subseteq 1 .. n /\ B \subseteq 1 .. n
    OBVIOUS
  <2> HIDE DEF A, B
  <2> QED
    BY <2>1, JobsAreFinite
<1> HIDE DEF A, B
<1>3. Cardinality(A) <= Cardinality(B) /\ (Cardinality(B) = Cardinality(A) => B = A)
  BY <1>1, <1>2, FS_Subset
<1>4. Cardinality(A) < Cardinality(B)
  BY <1>1, <1>2, <1>3
<1> QED
  BY <1>4 DEF A, B

\* The first jobs are no more than asked for, and the first one is there.
LEMMA FirstJobsFacts ==
    ASSUME NEW n \in Nat, NEW I, I \subseteq 1 .. n, NEW r \in Int
    PROVE  /\ FirstJobs(I, r) \subseteq I
           /\ r >= 0 => Cardinality(FirstJobs(I, r)) <= r
           /\ r < 0 => FirstJobs(I, r) = {}
           /\ r > 0 /\ I # {} => FirstJobs(I, r) # {}
<1> DEFINE F == FirstJobs(I, r)
           R(i) == Cardinality({k \in I : k < i})
           rank == [i \in F |-> R(i)]
<1>0. I \subseteq Nat
  OBVIOUS
<1>1. F \subseteq I /\ F = {i \in I : Cardinality({k \in I : k < i}) < r}
  BY DEF FirstJobs
<1>2. \A i \in I : Cardinality({k \in I : k < i}) \in Nat
  <2> TAKE i \in I
  <2>1. {k \in I : k < i} \subseteq 1 .. n
    OBVIOUS
  <2> QED
    BY <2>1, JobsAreFinite
<1>3. r < 0 => F = {}
  <2>1. \A i \in I : R(i) \in Nat
    BY <1>2
  <2>2. F = {i \in I : R(i) < r}
    BY <1>1
  <2> HIDE DEF F, R
  <2> QED
    BY <2>1, <2>2
<1>4. ASSUME r >= 0 PROVE Cardinality(F) <= r
  <2>0. /\ \A i \in F : i \in I /\ i \in Nat /\ R(i) \in Nat /\ R(i) < r
        /\ \A i, j \in F : i < j => R(i) < R(j)
    <3>1. \A i \in F : i \in I /\ i \in Nat /\ R(i) \in Nat /\ R(i) < r
      BY <1>0, <1>1, <1>2
    <3>2. ASSUME NEW i \in F, NEW j \in F, i < j PROVE R(i) < R(j)
      BY <1>1, <3>2, LaterHasMoreBefore
    <3> QED
      BY <3>1, <3>2
  <2>1. rank \in [F -> 0 .. (r - 1)]
    <3>1. \A i \in F : R(i) \in 0 .. (r - 1)
      <4> HIDE DEF F, R
      <4> QED
        BY <2>0
    <3> HIDE DEF F, R
    <3> QED
      BY <3>1
  <2>2. \A i, j \in F : i # j => rank[i] # rank[j]
    <3> HIDE DEF F, R
    <3>1. \A i, j \in F : i # j => i < j \/ j < i
      BY <2>0
    <3>2. \A i, j \in F : i # j => R(i) # R(j)
      BY <2>0, <3>1
    <3> QED
      BY <3>2
  <2>3. rank \in Injection(F, 0 .. (r - 1))
    <3> HIDE DEF rank
    <3> QED
      BY <2>1, <2>2 DEF Injection, IsInjective
  <2>4. IsFiniteSet(0 .. (r - 1)) /\ Cardinality(0 .. (r - 1)) = IF 0 > r - 1 THEN 0 ELSE r - 1 - 0 + 1
    BY FS_Interval
  <2>5. Cardinality(F) <= Cardinality(0 .. (r - 1))
    BY <2>3, <2>4, FS_Injection
  <2>6. Cardinality(F) \in Nat
    <3>1. F \subseteq 1 .. n
      BY <1>1
    <3> HIDE DEF F
    <3> QED
      BY <3>1, JobsAreFinite
  <2> QED
    BY <1>4, <2>4, <2>5, <2>6
<1>5. ASSUME r > 0, I # {} PROVE F # {}
  <2>1. \E m \in I : \A t \in I : m <= t
    BY <1>0, <1>5, MinOfNaturals
  <2>2. PICK m \in I : \A t \in I : m <= t
    BY <2>1
  <2>3. \A k \in I : k \in Nat
    BY <1>0
  <2>4. \A k \in I : ~(k < m)
    BY <2>2, <2>3
  <2>5. {k \in I : k < m} = {}
    BY <2>4
  <2>6. Cardinality({k \in I : k < m}) = 0
    BY <2>5, FS_EmptySet
  <2>7. m \in F
    BY <1>1, <1>5, <2>6
  <2> QED
    BY <2>7
<1> QED
  BY <1>1, <1>3, <1>4, <1>5

\* What a queue holds is finite.
LEMMA QueueIsFinite ==
    ASSUME NEW n \in Nat, NEW q, DOMAIN q \subseteq 1 .. n, NEW I, I \subseteq DOMAIN q
    PROVE  IsFiniteSet(I) /\ Cardinality(I) \in Nat /\ IsFiniteSet(DOMAIN q) /\ Cardinality(DOMAIN q) \in Nat
  BY JobsAreFinite

\* A smaller set of jobs has no more of them.
LEMMA FewerJobs ==
    ASSUME NEW n \in Nat, NEW J, J \subseteq 1 .. n, NEW I, I \subseteq J
    PROVE  Cardinality(I) <= Cardinality(J)
  BY JobsAreFinite, FS_Subset

\* Room is made without a job that runs.
LEMMA RemoveOldestFacts ==
    ASSUME NEW n \in Nat, NEW q, q \in [DOMAIN q -> ScriptJob], DOMAIN q \subseteq 1 .. n,
           Cardinality(DOMAIN q) <= SCRIPT_MAX_QUEUE + 1, DOMAIN q # RunningJobs(q)
    PROVE  /\ IsQueue(RemoveOldest(q), n)
           /\ RunningJobs(RemoveOldest(q)) = RunningJobs(q)
           /\ \A i \in RunningJobs(q) : Pid(RemoveOldest(q), i) = Pid(q, i)
<1> DEFINE I == DOMAIN q \ RunningJobs(q)
           F == FirstJobs(I, 1)
<1>1. RunningJobs(q) \subseteq DOMAIN q
  BY DEF RunningJobs
<1>2. I \subseteq 1 .. n /\ I # {}
  BY <1>1
<1>3. F \subseteq I /\ F # {}
  <2> HIDE DEF I
  <2>1. \A r \in Int : F = FirstJobs(I, 1) /\ FirstJobs(I, r) \subseteq I /\ (r > 0 => FirstJobs(I, r) # {})
    BY <1>2, FirstJobsFacts
  <2>2. 1 \in Int /\ 1 > 0
    OBVIOUS
  <2> HIDE DEF F
  <2> QED
    BY <2>1, <2>2
<1>4. CASE Cardinality(DOMAIN q) <= SCRIPT_MAX_QUEUE
  BY <1>4 DEF RemoveOldest, IsQueue
<1>5. CASE ~(Cardinality(DOMAIN q) <= SCRIPT_MAX_QUEUE)
  <2> DEFINE w == QueueWithout(q, F)
  <2>1. RemoveOldest(q) = w
    BY <1>5 DEF RemoveOldest
  <2>2. w = [i \in DOMAIN q \ F |-> q[i]]
    BY DEF QueueWithout
  <2> HIDE DEF F, w
  <2>3. DOMAIN w = DOMAIN q \ F /\ \A i \in DOMAIN w : w[i] = q[i]
    BY <2>2
  <2>4. w \in [DOMAIN w -> ScriptJob]
    BY <2>2, <2>3
  <2>5. PICK x \in F : TRUE
    BY <1>3
  <2>6. DOMAIN w \subseteq DOMAIN q \ {x} /\ x \in DOMAIN q
    BY <1>3, <2>3, <2>5
  <2>7. Cardinality(DOMAIN w) <= Cardinality(DOMAIN q \ {x})
    <3>1. DOMAIN q \ {x} \subseteq 1 .. n
      OBVIOUS
    <3> QED
      BY <2>6, <3>1, FewerJobs
  <2>8. Cardinality(DOMAIN q \ {x}) = Cardinality(DOMAIN q) - 1
    BY <2>6, FS_RemoveElement, QueueIsFinite
  <2>9. Cardinality(DOMAIN w) \in Nat /\ Cardinality(DOMAIN q) \in Nat
    BY <2>6, JobsAreFinite, QueueIsFinite
  <2>10. IsQueue(w, n)
    <3>1. Cardinality(DOMAIN w) <= SCRIPT_MAX_QUEUE
      BY <2>7, <2>8, <2>9, ScriptsAssumption
    <3> QED
      BY <2>4, <2>6, <3>1 DEF IsQueue
  <2>11. \A i \in RunningJobs(q) : i \in DOMAIN w
    BY <1>1, <1>3, <2>3
  <2>12. RunningJobs(w) = RunningJobs(q)
    BY <2>3, <2>11 DEF RunningJobs
  <2>13. \A i \in RunningJobs(q) : Pid(w, i) = Pid(q, i)
    BY <2>3, <2>11 DEF Pid
  <2> QED
    BY <2>1, <2>10, <2>12, <2>13
<1> QED
  BY <1>4, <1>5

\* A script is scheduled (sentinelScheduleScriptExecution).
LEMMA ScheduleKeeps ==
    ASSUME ScriptsInv, sentinelScheduleScriptExecution PROVE ScriptsInv'
<1> DEFINE m == scheduled + 1
           job == [state |-> "NONE", retry_num |-> 0]
           q == [i \in DOMAIN scripts_queue \cup {m} |-> IF i = m THEN job ELSE scripts_queue[i]]
<1>1. /\ scheduled \in Nat /\ scripts_queue \in [DOMAIN scripts_queue -> ScriptJob]
      /\ DOMAIN scripts_queue \subseteq 1 .. scheduled
      /\ Cardinality(DOMAIN scripts_queue) <= SCRIPT_MAX_QUEUE
  BY DEF ScriptsInv, IsQueue
<1>2. scheduled' = m /\ scripts_queue' = RemoveOldest(q) /\ running_scripts' = running_scripts /\ children' = children
  BY DEF sentinelScheduleScriptExecution
<1>3. m \in Nat /\ m \notin DOMAIN scripts_queue /\ DOMAIN scripts_queue \cup {m} \subseteq 1 .. m
  BY <1>1
<1>4. job \in ScriptJob /\ job.state = "NONE"
  BY DEF ScriptJob
<1> HIDE DEF m, job
<1>5. /\ DOMAIN q = DOMAIN scripts_queue \cup {m} /\ q[m] = job
      /\ \A i \in DOMAIN scripts_queue : q[i] = scripts_queue[i]
  BY <1>3
<1>6. q \in [DOMAIN q -> ScriptJob]
  BY <1>1, <1>4, <1>5
<1> HIDE DEF q
<1>7. Cardinality(DOMAIN q) <= SCRIPT_MAX_QUEUE + 1
  <2>1. IsFiniteSet(DOMAIN scripts_queue) /\ Cardinality(DOMAIN scripts_queue) \in Nat
    BY <1>1, JobsAreFinite
  <2>2. Cardinality(DOMAIN scripts_queue \cup {m}) = Cardinality(DOMAIN scripts_queue) + 1
    BY <1>3, <2>1, FS_AddElement
  <2> QED
    BY <1>1, <1>5, <2>1, <2>2, ScriptsAssumption
<1>8. RunningJobs(q) = RunningJobs(scripts_queue) /\ m \notin RunningJobs(q)
  BY <1>3, <1>4, <1>5 DEF RunningJobs
<1>9. \A i \in RunningJobs(q) : Pid(q, i) = Pid(scripts_queue, i)
  BY <1>5, <1>8 DEF RunningJobs, Pid
<1>10. DOMAIN q # RunningJobs(q) /\ DOMAIN q \subseteq 1 .. m
  BY <1>3, <1>5, <1>8
<1> DEFINE r == RemoveOldest(q)
<1>11. /\ IsQueue(r, m) /\ RunningJobs(r) = RunningJobs(q)
       /\ \A i \in RunningJobs(q) : Pid(r, i) = Pid(q, i)
  BY <1>3, <1>6, <1>7, <1>10, RemoveOldestFacts
<1> HIDE DEF r
<1>12. RunningJobs(r) = RunningJobs(scripts_queue) /\ \A i \in RunningJobs(r) : Pid(r, i) = Pid(scripts_queue, i)
  BY <1>8, <1>9, <1>11
<1>13. CounterOk(r, running_scripts)
  BY <1>12 DEF ScriptsInv, CounterOk
<1>14. ChildrenOk(r, children)
  BY <1>12 DEF ScriptsInv, ChildrenOk
<1>15. scripts_queue' = r /\ scheduled' = m
  BY <1>2 DEF r
<1> QED
  BY <1>2, <1>3, <1>11, <1>13, <1>14, <1>15 DEF ScriptsInv

\* A process ends by itself.
LEMMA EndKeeps ==
    ASSUME ScriptsInv, ScriptEnds PROVE ScriptsInv'
<1>1. PICK c \in children, how \in {"exit0", "exit1", "signal"} :
         c.state = "runs" /\ children' = (children \ {c}) \cup {[c EXCEPT !.state = how]}
  BY DEF ScriptEnds
<1> DEFINE e == [pid |-> c.pid, state |-> how]
<1>2. ChildrenOk(scripts_queue, children)
  BY DEF ScriptsInv
<1>3. [c EXCEPT !.state = how] = e
  BY <1>2 DEF ChildrenOk
<1>4. children' = (children \ {c}) \cup {e} /\ e.pid = c.pid /\ e.state = how /\ e = [pid |-> e.pid, state |-> e.state]
  BY <1>1, <1>3
<1> HIDE DEF e
<1>5. ChildrenOk(scripts_queue, children')
  <2>1. \A d \in children' : d = [pid |-> d.pid, state |-> d.state] /\ d.state \in ScriptEnd
    BY <1>1, <1>2, <1>4 DEF ChildrenOk, ScriptEnd
  <2>2. \A d, f \in children' : d.pid = f.pid => d = f
    BY <1>2, <1>4 DEF ChildrenOk
  <2>3. \A d \in children' : d.pid[1] \in RunningJobs(scripts_queue) /\ d.pid = Pid(scripts_queue, d.pid[1])
    BY <1>2, <1>4 DEF ChildrenOk
  <2>4. \A i \in RunningJobs(scripts_queue) : \E d \in children' : d.pid = Pid(scripts_queue, i)
    BY <1>2, <1>4 DEF ChildrenOk
  <2> QED
    BY <2>1, <2>2, <2>3, <2>4 DEF ChildrenOk
<1>6. scripts_queue' = scripts_queue /\ running_scripts' = running_scripts /\ scheduled' = scheduled
  BY DEF ScriptEnds
<1> QED
  BY <1>5, <1>6 DEF ScriptsInv

(* The same of the copy that the timer's functions hand on.                *)
ScriptsOk(s) == IsQueue(s.queue, scheduled) /\ CounterOk(s.queue, s.running) /\ ChildrenOk(s.queue, s.children)

\* Jobs that were idle get a process each (sentinelRunPendingScripts).
LEMMA StartedJobs ==
    ASSUME NEW n \in Nat, NEW q, IsQueue(q, n), NEW running, CounterOk(q, running), NEW kids, ChildrenOk(q, kids),
           NEW N, N \subseteq DOMAIN q, N \cap RunningJobs(q) = {}, Cardinality(N) <= SCRIPT_MAX_RUNNING - running,
           NEW p, p \in [DOMAIN q -> ScriptJob], RunningJobs(p) = RunningJobs(q) \cup N,
           \A i \in RunningJobs(q) : p[i] = q[i],
           NEW more, more = {[pid |-> Pid(p, i), state |-> "runs"] : i \in N}
    PROVE  IsQueue(p, n) /\ CounterOk(p, running + Cardinality(N)) /\ ChildrenOk(p, kids \cup more)
<1>0. RunningJobs(q) \subseteq DOMAIN q /\ DOMAIN q \subseteq 1 .. n
  BY DEF RunningJobs, IsQueue
<1>1. IsQueue(p, n)
  <2>1. DOMAIN p = DOMAIN q
    OBVIOUS
  <2> QED
    BY <2>1 DEF IsQueue
<1>2. CounterOk(p, running + Cardinality(N))
  <2>1. /\ IsFiniteSet(N) /\ Cardinality(N) \in Nat
        /\ IsFiniteSet(RunningJobs(q)) /\ Cardinality(RunningJobs(q)) \in Nat
    BY <1>0, QueueIsFinite
  <2>2. Cardinality(RunningJobs(q) \cup N)
          = Cardinality(RunningJobs(q)) + Cardinality(N) - Cardinality(RunningJobs(q) \cap N)
    BY <2>1, FS_Union
  <2>3. RunningJobs(q) \cap N = {}
    OBVIOUS
  <2>4. Cardinality(RunningJobs(q) \cap N) = 0
    BY <2>3, FS_EmptySet
  <2>5. Cardinality(RunningJobs(p)) = Cardinality(RunningJobs(q)) + Cardinality(N)
    BY <2>1, <2>2, <2>4
  <2>6. running \in Int /\ Cardinality(RunningJobs(q)) <= running
    BY DEF CounterOk
  <2> QED
    BY <2>1, <2>5, <2>6, ScriptsAssumption DEF CounterOk
<1>3. /\ \A i \in RunningJobs(q) : Pid(p, i) = Pid(q, i)
      /\ \A i \in DOMAIN q : Pid(p, i)[1] = i
  BY DEF Pid
<1>4. \A c \in more : \E i \in N : c = [pid |-> Pid(p, i), state |-> "runs"]
  OBVIOUS
<1>5. \A i \in N : [pid |-> Pid(p, i), state |-> "runs"] \in more
  OBVIOUS
<1>6. /\ \A c \in more : c = [pid |-> c.pid, state |-> c.state] /\ c.state \in ScriptEnd
      /\ \A c \in more : c.pid[1] \in N /\ c.pid = Pid(p, c.pid[1]) /\ c.state = "runs"
      /\ \A i \in N : \E c \in more : c.pid = Pid(p, i)
  <2>1. ASSUME NEW c \in more
        PROVE  /\ c = [pid |-> c.pid, state |-> c.state] /\ c.state \in ScriptEnd
               /\ c.pid[1] \in N /\ c.pid = Pid(p, c.pid[1]) /\ c.state = "runs"
    <3>1. PICK i \in N : c = [pid |-> Pid(p, i), state |-> "runs"]
      BY <1>4
    <3>2. c.pid = Pid(p, i) /\ c.state = "runs" /\ c.pid[1] = i
      BY <1>3, <3>1
    <3> QED
      BY <3>1, <3>2 DEF ScriptEnd
  <2>2. ASSUME NEW i \in N PROVE \E c \in more : c.pid = Pid(p, i)
    BY <1>5
  <2> QED
    BY <2>1, <2>2
<1>7. ChildrenOk(p, kids \cup more)
  <2> DEFINE all == kids \cup more
  <2>1. \A d \in all : d = [pid |-> d.pid, state |-> d.state] /\ d.state \in ScriptEnd
    BY <1>6 DEF ChildrenOk
  <2>2. \A d \in all : d.pid[1] \in RunningJobs(p) /\ d.pid = Pid(p, d.pid[1])
    BY <1>3, <1>6 DEF ChildrenOk
  <2>3. \A d, f \in all : d.pid = f.pid => d = f
    <3> SUFFICES ASSUME NEW d \in all, NEW f \in all, d.pid = f.pid PROVE d = f
      OBVIOUS
    <3>1. CASE d \in more /\ f \in more
      <4>1. d.state = f.state
        BY <1>6, <3>1
      <4> QED
        BY <2>1, <4>1
    <3>2. CASE d \in kids /\ f \in kids
      BY <3>2 DEF ChildrenOk
    <3>3. ~(d \in kids /\ f \in more) /\ ~(d \in more /\ f \in kids)
      BY <1>6 DEF ChildrenOk
    <3> QED
      BY <3>1, <3>2, <3>3
  <2>4. \A i \in RunningJobs(p) : \E d \in all : d.pid = Pid(p, i)
    <3> SUFFICES ASSUME NEW i \in RunningJobs(p) PROVE \E d \in all : d.pid = Pid(p, i)
      OBVIOUS
    <3>1. CASE i \in N
      BY <1>6, <3>1
    <3>2. CASE i \in RunningJobs(q)
      BY <1>3, <3>2 DEF ChildrenOk
    <3> QED
      BY <3>1, <3>2
  <2> HIDE DEF all
  <2>5. ChildrenOk(p, all)
    BY <2>1, <2>2, <2>3, <2>4 DEF ChildrenOk
  <2> QED
    BY <2>5 DEF all
<1> QED
  BY <1>1, <1>2, <1>7

LEMMA RunPendingKeeps ==
    ASSUME ScriptsInv, NEW due \in SUBSET Jobs("DELAYED"), NEW forked \in BOOLEAN
    PROVE  ScriptsOk(sentinelRunPendingScripts(due, forked))
<1> DEFINE q == scripts_queue
           room == SCRIPT_MAX_RUNNING - running_scripts
           ready == {i \in DOMAIN q : q[i].state = "NONE" \/ i \in due}
           tried == IF forked THEN FirstJobs(ready, room) ELSE {i \in ready : room > 0}
           p == [i \in DOMAIN q |-> IF i \in tried THEN Started(q[i], forked) ELSE q[i]]
           new == {i \in tried : forked}
           more == {[pid |-> Pid(p, i), state |-> "runs"] : i \in new}
<1>1. sentinelRunPendingScripts(due, forked)
        = [queue |-> p, running |-> running_scripts + Cardinality(new), children |-> children \cup more]
  BY DEF sentinelRunPendingScripts
<1>2. /\ scheduled \in Nat /\ IsQueue(q, scheduled) /\ CounterOk(q, running_scripts) /\ ChildrenOk(q, children)
  BY DEF ScriptsInv
<1>3. q \in [DOMAIN q -> ScriptJob] /\ DOMAIN q \subseteq 1 .. scheduled
  BY <1>2 DEF IsQueue
<1>4. \A i \in ready : i \in DOMAIN q /\ i \notin RunningJobs(q)
  BY DEF Jobs, RunningJobs
<1>5. room \in Int /\ room >= 0
  BY <1>2, ScriptsAssumption DEF CounterOk
<1>6. ready \subseteq 1 .. scheduled
  BY <1>3
<1> HIDE DEF ready, room
<1>7. tried \subseteq ready /\ new \subseteq tried /\ Cardinality(new) <= room
  <2>1. CASE forked
    <3>1. tried = FirstJobs(ready, room) /\ new = tried
      BY <2>1
    <3> HIDE DEF tried, new
    <3>2. FirstJobs(ready, room) \subseteq ready /\ Cardinality(FirstJobs(ready, room)) <= room
      BY <1>2, <1>5, <1>6, FirstJobsFacts
    <3> QED
      BY <3>1, <3>2
  <2>2. CASE ~forked
    <3>1. tried \subseteq ready /\ new = {}
      BY <2>2
    <3> HIDE DEF tried, new
    <3> QED
      BY <1>5, <3>1, FS_EmptySet
  <2> QED
    BY <2>1, <2>2
<1>8. new = {i \in tried : forked}
  OBVIOUS
<1> HIDE DEF tried, new
<1>9. \A i \in DOMAIN q : /\ i \in tried => p[i] = Started(q[i], forked)
                          /\ i \notin tried => p[i] = q[i]
  OBVIOUS
<1>10. \A job \in ScriptJob : /\ Started(job, forked) \in ScriptJob
                              /\ (Started(job, forked).state = "RUNNING") <=> forked
  BY ScriptsAssumption DEF Started, NextAttempt, ScriptJob
<1>11. p \in [DOMAIN q -> ScriptJob]
  BY <1>3, <1>10
<1>12. DOMAIN p = DOMAIN q
  OBVIOUS
<1> HIDE DEF p
<1>13. RunningJobs(p) = RunningJobs(q) \cup new
  <2>1. \A i \in DOMAIN q : (p[i].state = "RUNNING") <=> (i \in RunningJobs(q) \/ i \in new)
    <3> SUFFICES ASSUME NEW i \in DOMAIN q
                 PROVE  (p[i].state = "RUNNING") <=> (i \in RunningJobs(q) \/ i \in new)
      OBVIOUS
    <3>1. CASE i \in tried
      <4>1. p[i].state = "RUNNING" <=> forked
        BY <1>3, <1>9, <1>10, <3>1
      <4>2. i \notin RunningJobs(q)
        BY <1>4, <1>7, <3>1
      <4>3. i \in new <=> forked
        BY <1>8, <3>1
      <4> QED
        BY <4>1, <4>2, <4>3
    <3>2. CASE i \notin tried
      BY <1>7, <1>9, <3>2 DEF RunningJobs
    <3> QED
      BY <3>1, <3>2
  <2>2. RunningJobs(p) = {i \in DOMAIN q : i \in RunningJobs(q) \/ i \in new}
    BY <1>12, <2>1 DEF RunningJobs
  <2>3. RunningJobs(q) \subseteq DOMAIN q /\ new \subseteq DOMAIN q
    BY <1>4, <1>7 DEF RunningJobs
  <2> QED
    BY <2>2, <2>3
<1>14. \A i \in RunningJobs(q) : p[i] = q[i]
  BY <1>4, <1>7, <1>9 DEF RunningJobs
<1>15. new \subseteq DOMAIN q /\ new \cap RunningJobs(q) = {}
  BY <1>4, <1>7
<1>16. Cardinality(new) <= SCRIPT_MAX_RUNNING - running_scripts
  BY <1>7 DEF room
<1>17. more = {[pid |-> Pid(p, i), state |-> "runs"] : i \in new}
  OBVIOUS
<1> HIDE DEF more
<1>18. /\ IsQueue(p, scheduled) /\ CounterOk(p, running_scripts + Cardinality(new))
       /\ ChildrenOk(p, children \cup more)
  <2> HIDE DEF q
  <2> QED
    BY <1>2, <1>11, <1>13, <1>14, <1>15, <1>16, <1>17, StartedJobs
<1> QED
  BY <1>1, <1>18 DEF ScriptsOk

\* The jobs that ended leave the queue or wait; the others keep their
\* processes (sentinelCollectTerminatedScripts).
LEMMA CollectKeeps ==
    ASSUME scheduled \in Nat, NEW s, ScriptsOk(s) PROVE ScriptsOk(sentinelCollectTerminatedScripts(s))
<1> DEFINE q == s.queue
           ended == EndedAs(s, {"signal", "exit1", "exit0"})
           again == Retried(s)
           gone == ended \ again
           p == [i \in DOMAIN q \ gone |-> IF i \in again THEN [q[i] EXCEPT !.state = "DELAYED"] ELSE q[i]]
           kids == {c \in s.children : c.state = "runs"}
           n == s.running - Cardinality(gone)
<1>1. sentinelCollectTerminatedScripts(s) = [queue |-> p, running |-> n, children |-> kids]
  BY DEF sentinelCollectTerminatedScripts
<1>2. IsQueue(q, scheduled) /\ CounterOk(q, s.running) /\ ChildrenOk(q, s.children)
  BY DEF ScriptsOk
<1>3. ended = {i \in RunningJobs(q) : \E c \in s.children : c.pid = Pid(q, i) /\ c.state \in {"signal", "exit1", "exit0"}}
  BY DEF EndedAs
<1>4. again \subseteq ended
  BY DEF Retried, EndedAs
<1>5. q \in [DOMAIN q -> ScriptJob] /\ DOMAIN q \subseteq 1 .. scheduled /\ Cardinality(DOMAIN q) <= SCRIPT_MAX_QUEUE
  BY <1>2 DEF IsQueue
<1>6. RunningJobs(q) \subseteq DOMAIN q /\ ended \subseteq RunningJobs(q)
  BY <1>3 DEF RunningJobs
<1> HIDE DEF again, ended
<1>7. \A i \in DOMAIN q : /\ q[i] \in ScriptJob /\ [q[i] EXCEPT !.state = "DELAYED"] \in ScriptJob
                          /\ [q[i] EXCEPT !.state = "DELAYED"].state = "DELAYED"
  BY <1>5 DEF ScriptJob
<1>8. gone \subseteq ended /\ \A i \in ended : i \in gone \/ i \in again
  OBVIOUS
<1> HIDE DEF gone
<1>9. /\ DOMAIN p = DOMAIN q \ gone
      /\ \A i \in DOMAIN p : i \in again => p[i].state = "DELAYED"
      /\ \A i \in DOMAIN p : i \notin again => p[i] = q[i]
      /\ p \in [DOMAIN q \ gone -> ScriptJob]
  BY <1>7
<1> HIDE DEF p
<1>10. IsQueue(p, scheduled)
  <2>1. DOMAIN p \subseteq DOMAIN q /\ p \in [DOMAIN p -> ScriptJob]
    BY <1>9
  <2>2. Cardinality(DOMAIN p) <= Cardinality(DOMAIN q) /\ Cardinality(DOMAIN p) \in Nat /\ Cardinality(DOMAIN q) \in Nat
    BY <1>5, <2>1, FewerJobs, JobsAreFinite
  <2>3. Cardinality(DOMAIN p) <= SCRIPT_MAX_QUEUE
    BY <1>5, <2>2, ScriptsAssumption
  <2> QED
    BY <1>5, <2>1, <2>3 DEF IsQueue
<1>11. RunningJobs(p) = RunningJobs(q) \ ended
  <2>1. ASSUME NEW i PROVE i \in RunningJobs(p) <=> i \in RunningJobs(q) /\ i \notin ended
    <3>1. ASSUME i \in RunningJobs(p) PROVE i \in RunningJobs(q) /\ i \notin ended
      <4>1. i \in DOMAIN p /\ p[i].state = "RUNNING"
        BY <3>1 DEF RunningJobs
      <4>2. i \notin again /\ p[i] = q[i] /\ i \in DOMAIN q /\ i \notin gone
        BY <1>9, <4>1
      <4> QED
        BY <1>8, <4>1, <4>2 DEF RunningJobs
    <3>2. ASSUME i \in RunningJobs(q), i \notin ended PROVE i \in RunningJobs(p)
      <4>1. i \in DOMAIN q /\ q[i].state = "RUNNING"
        BY <3>2 DEF RunningJobs
      <4>2. i \in DOMAIN p /\ p[i] = q[i]
        BY <1>4, <1>8, <1>9, <3>2, <4>1
      <4> QED
        BY <4>1, <4>2 DEF RunningJobs
    <3> QED
      BY <3>1, <3>2
  <2> QED
    BY <2>1
<1>12. CounterOk(p, n)
  <2>1. RunningJobs(p) \subseteq RunningJobs(q) \ gone /\ gone \subseteq RunningJobs(q)
    BY <1>6, <1>8, <1>11
  <2>2. IsFiniteSet(RunningJobs(q)) /\ Cardinality(RunningJobs(q)) \in Nat /\ Cardinality(gone) \in Nat
    <3>1. RunningJobs(q) \subseteq 1 .. scheduled /\ gone \subseteq 1 .. scheduled
      BY <1>5, <1>6, <2>1
    <3> QED
      BY <3>1, JobsAreFinite
  <2>3. Cardinality(RunningJobs(q) \ gone) = Cardinality(RunningJobs(q)) - Cardinality(RunningJobs(q) \cap gone)
    BY <2>2, FS_Difference
  <2>4. RunningJobs(q) \cap gone = gone
    BY <2>1
  <2>5. Cardinality(RunningJobs(p)) <= Cardinality(RunningJobs(q) \ gone) /\ Cardinality(RunningJobs(p)) \in Nat
    <3>1. RunningJobs(q) \ gone \subseteq 1 .. scheduled
      BY <1>5, <1>6
    <3>2. RunningJobs(p) \subseteq 1 .. scheduled
      BY <2>1, <3>1
    <3> QED
      BY <2>1, <3>1, <3>2, FewerJobs, JobsAreFinite
  <2>6. s.running \in Int /\ Cardinality(RunningJobs(q)) <= s.running /\ s.running <= SCRIPT_MAX_RUNNING
    BY <1>2 DEF CounterOk
  <2>7. Cardinality(RunningJobs(p)) <= Cardinality(RunningJobs(q)) - Cardinality(gone)
    BY <2>3, <2>4, <2>5
  <2>8. n = s.running - Cardinality(gone)
    OBVIOUS
  <2> HIDE DEF n
  <2>9. n \in Int /\ Cardinality(RunningJobs(p)) <= n /\ n <= SCRIPT_MAX_RUNNING
    BY <2>2, <2>5, <2>6, <2>7, <2>8, ScriptsAssumption
  <2> QED
    BY <2>9 DEF CounterOk
<1>13. ChildrenOk(p, kids)
  <2>1. \A i \in RunningJobs(p) : Pid(p, i) = Pid(q, i)
    <3>1. \A i \in RunningJobs(p) : i \in DOMAIN p /\ i \notin again
      BY <1>4, <1>11 DEF RunningJobs
    <3> QED
      BY <1>9, <3>1 DEF Pid
  <2>2. \A c \in kids : c \in s.children /\ c.state = "runs"
    OBVIOUS
  <2>3. \A c \in kids : c.pid[1] \in RunningJobs(p)
    <3> SUFFICES ASSUME NEW c \in kids PROVE c.pid[1] \in RunningJobs(p)
      OBVIOUS
    <3>1. c.pid[1] \in RunningJobs(q) /\ c.pid = Pid(q, c.pid[1]) /\ c.state = "runs" /\ c \in s.children
      BY <1>2, <2>2 DEF ChildrenOk
    <3>2. ASSUME c.pid[1] \in ended PROVE FALSE
      <4>1. PICK d \in s.children : d.pid = Pid(q, c.pid[1]) /\ d.state \in {"signal", "exit1", "exit0"}
        BY <1>3, <3>2
      <4>2. d = c
        BY <1>2, <3>1, <4>1 DEF ChildrenOk
      <4> QED
        BY <3>1, <4>1, <4>2
    <3> QED
      BY <1>11, <3>1, <3>2
  <2>4. \A c \in kids : c.pid = Pid(p, c.pid[1])
    BY <1>2, <2>1, <2>2, <2>3 DEF ChildrenOk
  <2>5. \A i \in RunningJobs(p) : \E c \in kids : c.pid = Pid(p, i)
    <3> SUFFICES ASSUME NEW i \in RunningJobs(p) PROVE \E c \in kids : c.pid = Pid(p, i)
      OBVIOUS
    <3>1. i \in RunningJobs(q) /\ i \notin ended
      BY <1>11
    <3>2. PICK c \in s.children : c.pid = Pid(q, i)
      BY <1>2, <3>1 DEF ChildrenOk
    <3>3. c.state \in ScriptEnd /\ c.state \notin {"signal", "exit1", "exit0"}
      BY <1>2, <1>3, <3>1, <3>2 DEF ChildrenOk
    <3>4. c.state = "runs"
      BY <3>3 DEF ScriptEnd
    <3> QED
      BY <2>1, <3>2, <3>4
  <2>6. /\ \A c \in kids : c = [pid |-> c.pid, state |-> c.state] /\ c.state \in ScriptEnd
        /\ \A c, d \in kids : c.pid = d.pid => c = d
    BY <1>2, <2>2 DEF ChildrenOk
  <2> HIDE DEF kids
  <2> QED
    BY <2>3, <2>4, <2>5, <2>6 DEF ChildrenOk
<1> QED
  BY <1>1, <1>10, <1>12, <1>13 DEF ScriptsOk

\* Processes that run for too long are killed (sentinelKillTimedoutScripts).
LEMMA KillKeeps ==
    ASSUME NEW q, NEW running, NEW kids, NEW late, ScriptsOk([queue |-> q, running |-> running, children |-> kids])
    PROVE  ScriptsOk(sentinelKillTimedoutScripts([queue |-> q, running |-> running, children |-> kids], late))
<1> DEFINE s == [queue |-> q, running |-> running, children |-> kids]
           Killed(c) == IF c.state = "runs" /\ c.pid[1] \in late THEN [c EXCEPT !.state = "signal"] ELSE c
           all == {Killed(c) : c \in kids}
<1>1. sentinelKillTimedoutScripts(s, late) = [queue |-> q, running |-> running, children |-> all]
  <2>1. s.children = kids
    OBVIOUS
  <2>2. \A e : [s EXCEPT !.children = e] = [queue |-> q, running |-> running, children |-> e]
    OBVIOUS
  <2>3. sentinelKillTimedoutScripts(s, late) = [s EXCEPT !.children = {Killed(c) : c \in s.children}]
    BY DEF sentinelKillTimedoutScripts
  <2> HIDE DEF s, Killed
  <2>4. {Killed(c) : c \in s.children} = all
    BY <2>1
  <2> HIDE DEF all
  <2>5. sentinelKillTimedoutScripts(s, late) = [s EXCEPT !.children = all]
    BY <2>3, <2>4
  <2> QED
    BY <2>2, <2>5
<1>2. ChildrenOk(q, kids) /\ IsQueue(q, scheduled) /\ CounterOk(q, running)
  BY DEF ScriptsOk
<1>3. \A c \in kids : Killed(c).pid = c.pid /\ Killed(c) = [pid |-> Killed(c).pid, state |-> Killed(c).state]
                      /\ Killed(c).state \in ScriptEnd
  <2> SUFFICES ASSUME NEW c \in kids
               PROVE  Killed(c).pid = c.pid /\ Killed(c) = [pid |-> Killed(c).pid, state |-> Killed(c).state]
                      /\ Killed(c).state \in ScriptEnd
    OBVIOUS
  <2>1. c = [pid |-> c.pid, state |-> c.state] /\ c.state \in ScriptEnd
    BY <1>2 DEF ChildrenOk
  <2>2. [c EXCEPT !.state = "signal"] = [pid |-> c.pid, state |-> "signal"]
    BY <2>1
  <2>3. Killed(c) = [pid |-> c.pid, state |-> "signal"] \/ Killed(c) = c
    BY <2>2
  <2> HIDE DEF Killed
  <2> QED
    BY <2>1, <2>3 DEF ScriptEnd
<1>4. /\ \A d \in all : \E c \in kids : d = Killed(c)
      /\ \A c \in kids : Killed(c) \in all
  OBVIOUS
<1> HIDE DEF Killed, all
<1>5. ChildrenOk(q, all)
  <2>1. \A d \in all : d = [pid |-> d.pid, state |-> d.state] /\ d.state \in ScriptEnd
    BY <1>3, <1>4
  <2>2. \A d, f \in all : d.pid = f.pid => d = f
    BY <1>2, <1>3, <1>4 DEF ChildrenOk
  <2>3. \A d \in all : d.pid[1] \in RunningJobs(q) /\ d.pid = Pid(q, d.pid[1])
    BY <1>2, <1>3, <1>4 DEF ChildrenOk
  <2>4. \A i \in RunningJobs(q) : \E d \in all : d.pid = Pid(q, i)
    BY <1>2, <1>3, <1>4 DEF ChildrenOk
  <2> QED
    BY <2>1, <2>2, <2>3, <2>4 DEF ChildrenOk
<1> QED
  BY <1>1, <1>2, <1>5 DEF ScriptsOk

\* What sentinelTimer does with the scripts.
LEMMA ScriptsTimerKeeps ==
    ASSUME ScriptsInv, ScriptsTimer PROVE ScriptsInv'
<1>1. PICK due \in SUBSET Jobs("DELAYED"), late \in SUBSET Jobs("RUNNING"), forked \in BOOLEAN :
         LET s == sentinelKillTimedoutScripts(
                      sentinelCollectTerminatedScripts(sentinelRunPendingScripts(due, forked)), late)
         IN  scripts_queue' = s.queue /\ running_scripts' = s.running /\ children' = s.children
  BY DEF ScriptsTimer
<1> DEFINE c == sentinelCollectTerminatedScripts(sentinelRunPendingScripts(due, forked))
           k == sentinelKillTimedoutScripts(c, late)
<1>2. ScriptsOk(c)
  BY RunPendingKeeps, CollectKeeps DEF ScriptsInv
<1>3. c = [queue |-> c.queue, running |-> c.running, children |-> c.children]
  BY DEF sentinelCollectTerminatedScripts
<1>4. scripts_queue' = k.queue /\ running_scripts' = k.running /\ children' = k.children /\ scheduled' = scheduled
  BY <1>1 DEF ScriptsTimer
<1> HIDE DEF c
<1>5. ScriptsOk(k)
  BY <1>2, <1>3, KillKeeps
<1> HIDE DEF k
<1> QED
  BY <1>4, <1>5 DEF ScriptsInv, ScriptsOk

LEMMA ScriptsStart ==
    ASSUME ScriptsInit PROVE ScriptsInv
<1>1. DOMAIN scripts_queue = {} /\ scripts_queue \in [{} -> ScriptJob] /\ RunningJobs(scripts_queue) = {}
  BY DEF ScriptsInit, RunningJobs
<1>2. Cardinality({}) = 0
  BY FS_EmptySet
<1>3. IsQueue(scripts_queue, 0)
  BY <1>1, <1>2, ScriptsAssumption DEF IsQueue
<1>4. CounterOk(scripts_queue, 0)
  BY <1>1, <1>2, ScriptsAssumption DEF CounterOk
<1>5. ChildrenOk(scripts_queue, {})
  BY <1>1 DEF ChildrenOk
<1> QED
  BY <1>3, <1>4, <1>5 DEF ScriptsInit, ScriptsInv

LEMMA ScriptsStep ==
    ASSUME ScriptsInv, [ScriptsNext]_scriptVars PROVE ScriptsInv'
<1>1. CASE UNCHANGED scriptVars
  BY <1>1 DEF scriptVars, ScriptsInv
<1> QED
  BY <1>1, ScheduleKeeps, ScriptsTimerKeeps, EndKeeps DEF ScriptsNext

LEMMA ScriptsInvImplies ==
    ASSUME ScriptsInv PROVE ScriptsAreCounted
<1>1. ChildrenOk(scripts_queue, children)
  BY DEF ScriptsInv
<1>2. {c.pid : c \in children} = {Pid(scripts_queue, i) : i \in RunningJobs(scripts_queue)}
  BY <1>1 DEF ChildrenOk
<1> QED
  BY <1>2 DEF ScriptsInv, IsQueue, CounterOk, ScriptsAreCounted

\* Whatever is scheduled, however the scripts end, whichever forks fail and
\* whenever the timer runs (sentinelScheduleScriptExecution,
\* sentinelRunPendingScripts, sentinelCollectTerminatedScripts,
\* sentinelKillTimedoutScripts), the queue and the processes keep their
\* limits, and the processes are those of the jobs that run.
THEOREM ScriptsKeepTheirLimits ==
    ScriptsInit /\ [][ScriptsNext]_scriptVars => []ScriptsAreCounted
<1>1. ScriptsInit => ScriptsInv
  BY ScriptsStart
<1>2. ScriptsInv /\ [ScriptsNext]_scriptVars => ScriptsInv'
  BY ScriptsStep
<1>3. ScriptsInv => ScriptsAreCounted
  BY ScriptsInvImplies
<1> QED
  BY <1>1, <1>2, <1>3, PTL

----------------------------------------------------------------------------
(* The connections of a Sentinel: the handlers work on a copy of the state. *)

LinkCommand == {"AUTH", "INFO", "PING", "PUBLISH", "ASK", "SCRIPT KILL", "SLAVEOF"}

LinkOf(f, cc, pc, pcAuth, pending, w, n) ==
    [ri |-> [flags |-> f, cc |-> cc, pc |-> pc, pcAuth |-> pcAuth, pending |-> pending], waiting |-> w, issued |-> n]

(* The connections that are used are there, and the counter is not above   *)
(* the number of commands that wait.                                       *)
LinkValues(f, cc, pc, pcAuth, pending, w, n) ==
    /\ cc \in BOOLEAN /\ pc \in BOOLEAN /\ pcAuth \in BOOLEAN
    /\ pending \in Int /\ n \in Nat /\ w \in Seq(LinkCommand)
    /\ "DISCONNECTED" \notin f => cc /\ (kind = "master" => pc)
    /\ ~cc => w = <<>>
    /\ pending <= Len(w)

LinkOk(s) == \E f, cc, pc, pcAuth, pending, w, n :
                s = LinkOf(f, cc, pc, pcAuth, pending, w, n) /\ LinkValues(f, cc, pc, pcAuth, pending, w, n)

\* A command is sent on a connection that is there, counted or not.
LEMMA SendOnCc ==
    ASSUME NEW s, LinkOk(s), s.ri.cc, NEW cmd \in LinkCommand
    PROVE  LinkOk(Send(s, cmd)) /\ LinkOk(SendCounted(s, cmd))
<1>1. PICK f, cc, pc, pcAuth, pending, w, n :
         s = LinkOf(f, cc, pc, pcAuth, pending, w, n) /\ LinkValues(f, cc, pc, pcAuth, pending, w, n)
  BY DEF LinkOk
<1>2. cc
  BY <1>1 DEF LinkOf
<1>3. Send(s, cmd) = LinkOf(f, cc, pc, pcAuth, pending, Append(w, cmd), n + 1)
  <2>1. s.waiting = w /\ s.issued = n /\ s = [ri |-> s.ri, waiting |-> w, issued |-> n]
    BY <1>1 DEF LinkOf
  <2>2. Send(s, cmd) = [s EXCEPT !.waiting = Append(w, cmd), !.issued = n + 1]
    BY <2>1 DEF Send
  <2>3. Send(s, cmd) = [ri |-> s.ri, waiting |-> Append(w, cmd), issued |-> n + 1]
    BY <2>1, <2>2
  <2> QED
    BY <1>1, <2>3 DEF LinkOf
<1>4. SendCounted(s, cmd) = LinkOf(f, cc, pc, pcAuth, pending + 1, Append(w, cmd), n + 1)
  <2> DEFINE t == Send(s, cmd)
  <2>1. SendCounted(s, cmd) = [t EXCEPT !.ri.pending = t.ri.pending + 1]
    BY DEF SendCounted
  <2>2. t = LinkOf(f, cc, pc, pcAuth, pending, Append(w, cmd), n + 1)
    BY <1>3
  <2> HIDE DEF t
  <2> QED
    BY <2>1, <2>2 DEF LinkOf
<1>5. Append(w, cmd) \in Seq(LinkCommand) /\ Len(Append(w, cmd)) = Len(w) + 1 /\ Len(w) \in Nat
  BY <1>1 DEF LinkValues
<1>6. LinkValues(f, cc, pc, pcAuth, pending, Append(w, cmd), n + 1)
  BY <1>1, <1>2, <1>5 DEF LinkValues
<1>7. LinkValues(f, cc, pc, pcAuth, pending + 1, Append(w, cmd), n + 1)
  BY <1>1, <1>2, <1>5 DEF LinkValues
<1> QED
  BY <1>3, <1>4, <1>6, <1>7 DEF LinkOk

\* The connections are closed (sentinelKillLink).
LEMMA KillCcKeeps ==
    ASSUME NEW s, LinkOk(s) PROVE LinkOk(KillCc(s))
<1>1. PICK f, cc, pc, pcAuth, pending, w, n :
         s = LinkOf(f, cc, pc, pcAuth, pending, w, n) /\ LinkValues(f, cc, pc, pcAuth, pending, w, n)
  BY DEF LinkOk
<1>2. CASE cc
  <2>1. KillCc(s) = LinkOf(f \cup {"DISCONNECTED"}, FALSE, pc, pcAuth, 0, <<>>, n)
    BY <1>1, <1>2 DEF LinkOf, KillCc
  <2>2. LinkValues(f \cup {"DISCONNECTED"}, FALSE, pc, pcAuth, 0, <<>>, n)
    BY <1>1 DEF LinkValues
  <2> QED
    BY <2>1, <2>2 DEF LinkOk
<1>3. CASE ~cc
  <2>1. KillCc(s) = s
    BY <1>1, <1>3 DEF LinkOf, KillCc
  <2> QED
    BY <2>1
<1> QED
  BY <1>1, <1>2, <1>3 DEF LinkValues

LEMMA KillPcKeeps ==
    ASSUME NEW s, LinkOk(s) PROVE LinkOk(KillPc(s))
<1>1. PICK f, cc, pc, pcAuth, pending, w, n :
         s = LinkOf(f, cc, pc, pcAuth, pending, w, n) /\ LinkValues(f, cc, pc, pcAuth, pending, w, n)
  BY DEF LinkOk
<1>2. CASE pc
  <2>1. KillPc(s) = LinkOf(f \cup {"DISCONNECTED"}, cc, FALSE, FALSE, pending, w, n)
    BY <1>1, <1>2 DEF LinkOf, KillPc
  <2>2. LinkValues(f \cup {"DISCONNECTED"}, cc, FALSE, FALSE, pending, w, n)
    BY <1>1 DEF LinkValues
  <2> QED
    BY <2>1, <2>2 DEF LinkOk
<1>3. CASE ~pc
  <2>1. KillPc(s) = s
    BY <1>1, <1>3 DEF LinkOf, KillPc
  <2> QED
    BY <2>1
<1> QED
  BY <1>1, <1>2, <1>3 DEF LinkValues

\* Connections that are not there are opened (sentinelReconnectInstance).
LEMMA ReconnectCcKeeps ==
    ASSUME NEW s, LinkOk(s), NEW up PROVE LinkOk(ReconnectCc(s, up))
<1>1. PICK f, cc, pc, pcAuth, pending, w, n :
         s = LinkOf(f, cc, pc, pcAuth, pending, w, n) /\ LinkValues(f, cc, pc, pcAuth, pending, w, n)
  BY DEF LinkOk
<1>2. CASE ~cc /\ "cc" \in up
  <2> DEFINE t == [s EXCEPT !.ri.cc = TRUE]
  <2>1. t = LinkOf(f, TRUE, pc, pcAuth, pending, w, n)
    <3>1. \A v : [s EXCEPT !.ri.cc = v] = LinkOf(f, v, pc, pcAuth, pending, w, n)
      BY <1>1 DEF LinkOf
    <3> QED
      BY <3>1
  <2>2. ReconnectCc(s, up) = sentinelSendAuthIfNeeded(t)
    BY <1>1, <1>2 DEF ReconnectCc, LinkOf
  <2>3. LinkValues(f, TRUE, pc, pcAuth, pending, w, n)
    BY <1>1, <1>2 DEF LinkValues
  <2> HIDE DEF t
  <2>4. LinkOk(t) /\ t.ri.cc
    <3>1. LinkOk(t)
      BY <2>1, <2>3 DEF LinkOk
    <3>2. t.ri.cc
      BY <2>1 DEF LinkOf
    <3> QED
      BY <3>1, <3>2
  <2>5. LinkOk(Send(t, "AUTH"))
    BY <2>4, SendOnCc DEF LinkCommand
  <2> QED
    BY <2>2, <2>4, <2>5 DEF sentinelSendAuthIfNeeded
<1>3. CASE ~(~cc /\ "cc" \in up)
  <2>1. ReconnectCc(s, up) = s
    BY <1>1, <1>3 DEF LinkOf, ReconnectCc
  <2> QED
    BY <2>1
<1> QED
  BY <1>2, <1>3

LEMMA ReconnectPcKeeps ==
    ASSUME auth \in BOOLEAN, NEW s, LinkOk(s), NEW up PROVE LinkOk(ReconnectPc(s, up))
<1>1. PICK f, cc, pc, pcAuth, pending, w, n :
         s = LinkOf(f, cc, pc, pcAuth, pending, w, n) /\ LinkValues(f, cc, pc, pcAuth, pending, w, n)
  BY DEF LinkOk
<1>2. CASE ~pc /\ "pc" \in up /\ kind = "master"
  <2>1. ReconnectPc(s, up) = LinkOf(f, cc, TRUE, auth, pending, w, n)
    BY <1>1, <1>2 DEF LinkOf, ReconnectPc
  <2>2. LinkValues(f, cc, TRUE, auth, pending, w, n)
    BY <1>1 DEF LinkValues
  <2> QED
    BY <2>1, <2>2 DEF LinkOk
<1>3. CASE ~(~pc /\ "pc" \in up /\ kind = "master")
  <2>1. ReconnectPc(s, up) = s
    BY <1>1, <1>3 DEF LinkOf, ReconnectPc
  <2> QED
    BY <2>1
<1> QED
  BY <1>2, <1>3

LEMMA ReconnectKeeps ==
    ASSUME auth \in BOOLEAN, NEW s, LinkOk(s), NEW up PROVE LinkOk(sentinelReconnectInstance(s, up))
<1> DEFINE t == ReconnectPc(ReconnectCc(s, up), up)
<1>1. LinkOk(t)
  BY ReconnectCcKeeps, ReconnectPcKeeps
<1> HIDE DEF t
<1>2. LinkOk(ClearDisconnected(t))
  <2>1. PICK f, cc, pc, pcAuth, pending, w, n :
           t = LinkOf(f, cc, pc, pcAuth, pending, w, n) /\ LinkValues(f, cc, pc, pcAuth, pending, w, n)
    BY <1>1 DEF LinkOk
  <2>2. CASE cc /\ (kind # "master" \/ pc)
    <3>1. ClearDisconnected(t) = LinkOf(f \ {"DISCONNECTED"}, cc, pc, pcAuth, pending, w, n)
      BY <2>1, <2>2 DEF LinkOf, ClearDisconnected
    <3>2. LinkValues(f \ {"DISCONNECTED"}, cc, pc, pcAuth, pending, w, n)
      BY <2>1, <2>2 DEF LinkValues
    <3> QED
      BY <3>1, <3>2 DEF LinkOk
  <2>3. CASE ~(cc /\ (kind # "master" \/ pc))
    <3>1. ClearDisconnected(t) = t
      BY <2>1, <2>3 DEF LinkOf, ClearDisconnected
    <3> QED
      BY <1>1, <3>1
  <2> QED
    BY <2>2, <2>3
<1> QED
  BY <1>2 DEF t, sentinelReconnectInstance

\* An instance that is not disconnected has its cc.
LEMMA ConnectedHasCc ==
    ASSUME NEW s, LinkOk(s), ~LinkHas(s, "DISCONNECTED") PROVE s.ri.cc
  BY DEF LinkOk, LinkOf, LinkHas, LinkValues

\* The periodic commands (sentinelPingInstance and
\* sentinelAskMasterStateToOtherSentinels).
LEMMA PingKeeps ==
    ASSUME NEW s, LinkOk(s), NEW due \in Due PROVE LinkOk(sentinelPingInstance(s, due))
<1>1. due = "nothing" \/ due \in LinkCommand
  BY DEF Due, LinkCommand
<1> QED
  BY <1>1, ConnectedHasCc, SendOnCc DEF sentinelPingInstance

LEMMA AskKeeps ==
    ASSUME NEW s, LinkOk(s), NEW ask \in BOOLEAN PROVE LinkOk(AskMasterState(s, ask))
<1>1. "ASK" \in LinkCommand
  BY DEF LinkCommand
<1> QED
  BY <1>1, ConnectedHasCc, SendOnCc DEF AskMasterState

\* Other flags than DISCONNECTED may change.
LEMMA FlagsChange ==
    ASSUME NEW s, LinkOk(s), NEW g, "DISCONNECTED" \in s.ri.flags => "DISCONNECTED" \in g
    PROVE  LinkOk([s EXCEPT !.ri.flags = g])
<1>1. PICK f, cc, pc, pcAuth, pending, w, n :
         s = LinkOf(f, cc, pc, pcAuth, pending, w, n) /\ LinkValues(f, cc, pc, pcAuth, pending, w, n)
  BY DEF LinkOk
<1>2. [s EXCEPT !.ri.flags = g] = LinkOf(g, cc, pc, pcAuth, pending, w, n) /\ s.ri.flags = f
  BY <1>1 DEF LinkOf
<1>3. LinkValues(g, cc, pc, pcAuth, pending, w, n)
  BY <1>1, <1>2 DEF LinkValues
<1> QED
  BY <1>2, <1>3 DEF LinkOk

LEMMA CheckDownKeeps ==
    ASSUME NEW s, LinkOk(s), NEW idle, NEW down \in BOOLEAN PROVE LinkOk(CheckSubjectivelyDown(s, idle, down))
<1> DEFINE c == IF "cc" \in idle THEN KillCc(s) ELSE s
           p == IF "pc" \in idle THEN KillPc(c) ELSE c
           g == IF down THEN p.ri.flags \cup {"S_DOWN"} ELSE p.ri.flags \ {"S_DOWN", "SCRIPT_KILL_SENT"}
<1>1. LinkOk(c)
  BY KillCcKeeps
<1> HIDE DEF c
<1>2. LinkOk(p)
  BY <1>1, KillPcKeeps
<1>3. CheckSubjectivelyDown(s, idle, down) = [p EXCEPT !.ri.flags = g]
  BY DEF CheckSubjectivelyDown, c
<1> HIDE DEF p
<1>4. "DISCONNECTED" \in p.ri.flags => "DISCONNECTED" \in g
  OBVIOUS
<1> HIDE DEF g
<1> QED
  BY <1>2, <1>3, <1>4, FlagsChange

\* The callback of a command that waits, with the SCRIPT KILL it may send.
LEMMA CallbackKeeps ==
    ASSUME NEW s, LinkOk(s), s.waiting # <<>>, NEW busy \in BOOLEAN PROVE LinkOk(Callback(s, busy))
<1>1. PICK f, cc, pc, pcAuth, pending, w, n :
         s = LinkOf(f, cc, pc, pcAuth, pending, w, n) /\ LinkValues(f, cc, pc, pcAuth, pending, w, n)
  BY DEF LinkOk
<1> DEFINE done == [s EXCEPT !.waiting = Tail(@), !.ri.pending = @ - 1]
           again == [Send(done, "SCRIPT KILL") EXCEPT !.ri.flags = @ \cup {"SCRIPT_KILL_SENT"}]
<1>2. w # <<>> /\ cc
  BY <1>1 DEF LinkOf, LinkValues
<1>3. done = LinkOf(f, cc, pc, pcAuth, pending - 1, Tail(w), n)
  <2>1. s.waiting = w /\ s.ri.pending = pending
    BY <1>1 DEF LinkOf
  <2>2. done = [s EXCEPT !.waiting = Tail(w), !.ri.pending = pending - 1]
    BY <2>1
  <2> HIDE DEF done
  <2> QED
    BY <1>1, <2>2 DEF LinkOf
<1>4. Tail(w) \in Seq(LinkCommand) /\ Len(Tail(w)) = Len(w) - 1 /\ Len(w) \in Nat
  BY <1>1, <1>2 DEF LinkValues
<1>5. LinkValues(f, cc, pc, pcAuth, pending - 1, Tail(w), n)
  BY <1>1, <1>2, <1>4 DEF LinkValues
<1> HIDE DEF done
<1>6. LinkOk(done)
  BY <1>3, <1>5 DEF LinkOk
<1>7. done.ri.cc
  BY <1>2, <1>3 DEF LinkOf
<1>8. LinkOk(again)
  <2>1. LinkOk(Send(done, "SCRIPT KILL"))
    BY <1>6, <1>7, SendOnCc DEF LinkCommand
  <2> DEFINE t == Send(done, "SCRIPT KILL")
  <2>2. again = [t EXCEPT !.ri.flags = t.ri.flags \cup {"SCRIPT_KILL_SENT"}]
    OBVIOUS
  <2> HIDE DEF t, again
  <2>3. LinkOk([t EXCEPT !.ri.flags = t.ri.flags \cup {"SCRIPT_KILL_SENT"}])
    BY <2>1, FlagsChange DEF t
  <2> QED
    BY <2>2, <2>3
<1>9. Callback(s, busy) = done \/ Callback(s, busy) = again
  BY DEF Callback, done
<1> QED
  BY <1>6, <1>8, <1>9

LEMMA PcAuthKeeps ==
    ASSUME NEW s, LinkOk(s) PROVE LinkOk(PcAuthReply(s))
<1>1. PICK f, cc, pc, pcAuth, pending, w, n :
         s = LinkOf(f, cc, pc, pcAuth, pending, w, n) /\ LinkValues(f, cc, pc, pcAuth, pending, w, n)
  BY DEF LinkOk
<1>2. CASE pcAuth
  <2>1. PcAuthReply(s) = LinkOf(f, cc, pc, FALSE, pending - 1, w, n)
    BY <1>1, <1>2 DEF LinkOf, PcAuthReply
  <2>2. Len(w) \in Nat
    BY <1>1 DEF LinkValues
  <2>3. LinkValues(f, cc, pc, FALSE, pending - 1, w, n)
    BY <1>1, <2>2 DEF LinkValues
  <2> QED
    BY <2>1, <2>3 DEF LinkOk
<1>3. CASE ~pcAuth
  <2>1. PcAuthReply(s) = s
    BY <1>1, <1>3 DEF LinkOf, PcAuthReply
  <2> QED
    BY <2>1
<1> QED
  BY <1>2, <1>3

\* hiredis reports that a connection broke
\* (sentinelDisconnectInstanceFromContext).
LEMMA CcBreaksKeeps ==
    ASSUME NEW s, LinkOk(s)
    PROVE  LinkOk([s EXCEPT !.ri.cc = FALSE, !.ri.pending = @ - Len(s.waiting), !.waiting = <<>>,
                            !.ri.flags = @ \cup {"DISCONNECTED"}])
<1> DEFINE b == [s EXCEPT !.ri.cc = FALSE, !.ri.pending = @ - Len(s.waiting), !.waiting = <<>>,
                          !.ri.flags = @ \cup {"DISCONNECTED"}]
<1>1. PICK f, cc, pc, pcAuth, pending, w, n :
         s = LinkOf(f, cc, pc, pcAuth, pending, w, n) /\ LinkValues(f, cc, pc, pcAuth, pending, w, n)
  BY DEF LinkOk
<1>2. b = LinkOf(f \cup {"DISCONNECTED"}, FALSE, pc, pcAuth, pending - Len(w), <<>>, n)
  <2> DEFINE g == f \cup {"DISCONNECTED"}
             m == pending - Len(w)
  <2>1. s.waiting = w /\ s.ri.pending = pending /\ s.ri.flags = f
    BY <1>1 DEF LinkOf
  <2>2. b = [s EXCEPT !.ri.cc = FALSE, !.ri.pending = m, !.waiting = <<>>, !.ri.flags = g]
    BY <2>1
  <2> HIDE DEF b, g, m
  <2>3. b = LinkOf(g, FALSE, pc, pcAuth, m, <<>>, n)
    BY <1>1, <2>2 DEF LinkOf
  <2> QED
    BY <2>3 DEF g, m
<1>3. Len(w) \in Nat /\ Len(<<>>) = 0
  BY <1>1 DEF LinkValues
<1>4. LinkValues(f \cup {"DISCONNECTED"}, FALSE, pc, pcAuth, pending - Len(w), <<>>, n)
  BY <1>1, <1>3 DEF LinkValues
<1> QED
  BY <1>2, <1>4 DEF LinkOk

LEMMA PcBreaksKeeps ==
    ASSUME NEW s, LinkOk(s)
    PROVE  LinkOk([s EXCEPT !.ri.pc = FALSE, !.ri.flags = @ \cup {"DISCONNECTED"}])
<1> DEFINE b == [s EXCEPT !.ri.pc = FALSE, !.ri.flags = @ \cup {"DISCONNECTED"}]
<1>1. PICK f, cc, pc, pcAuth, pending, w, n :
         s = LinkOf(f, cc, pc, pcAuth, pending, w, n) /\ LinkValues(f, cc, pc, pcAuth, pending, w, n)
  BY DEF LinkOk
<1>2. b = LinkOf(f \cup {"DISCONNECTED"}, cc, FALSE, pcAuth, pending, w, n)
  <2> DEFINE g == f \cup {"DISCONNECTED"}
  <2>1. s.ri.flags = f
    BY <1>1 DEF LinkOf
  <2>2. b = [s EXCEPT !.ri.pc = FALSE, !.ri.flags = g]
    BY <2>1
  <2> HIDE DEF b, g
  <2>3. b = LinkOf(g, cc, FALSE, pcAuth, pending, w, n)
    BY <1>1, <2>2 DEF LinkOf
  <2> QED
    BY <2>3 DEF g
<1>3. LinkValues(f \cup {"DISCONNECTED"}, cc, FALSE, pcAuth, pending, w, n)
  BY <1>1 DEF LinkValues
<1> QED
  BY <1>2, <1>3 DEF LinkOk

\* It stays so while the kind of the instance is the same.
LEMMA LinkOkStays ==
    ASSUME NEW s, LinkOk(s), kind' = kind PROVE LinkOk(s)'
<1>1. PICK f, cc, pc, pcAuth, pending, w, n :
         s = LinkOf(f, cc, pc, pcAuth, pending, w, n) /\ LinkValues(f, cc, pc, pcAuth, pending, w, n)
  BY DEF LinkOk
<1>2. LinkValues(f, cc, pc, pcAuth, pending, w, n)'
  BY <1>1 DEF LinkValues
<1>3. LinkOf(f, cc, pc, pcAuth, pending, w, n)' = LinkOf(f, cc, pc, pcAuth, pending, w, n)
  BY DEF LinkOf
<1> QED
  BY <1>1, <1>2, <1>3 DEF LinkOk

LinksInv == auth \in BOOLEAN /\ LinkOk(LinkState)

\* The copy becomes the state.
LEMMA LinkBecomesOk ==
    ASSUME auth \in BOOLEAN, NEW s, LinkOk(s), LinkBecomes(s) PROVE LinksInv'
<1>1. kind' = kind /\ auth' = auth /\ linkRi' = s.ri /\ waiting' = s.waiting /\ issued' = s.issued
  BY DEF LinkBecomes
<1>2. s = [ri |-> s.ri, waiting |-> s.waiting, issued |-> s.issued]
  BY DEF LinkOk, LinkOf
<1>3. LinkState' = s
  BY <1>1, <1>2 DEF LinkState
<1>4. LinkOk(s)'
  BY <1>1, LinkOkStays
<1> QED
  BY <1>1, <1>3, <1>4 DEF LinksInv

LEMMA LinksStep ==
    ASSUME LinksInv, [LinksNext]_linkVars PROVE LinksInv'
<1> DEFINE s == LinkState
<1>1. auth \in BOOLEAN /\ LinkOk(s) /\ s = [ri |-> linkRi, waiting |-> waiting, issued |-> issued]
  BY DEF LinksInv, LinkState
<1>2. CASE UNCHANGED linkVars
  <2>1. kind' = kind /\ auth' = auth /\ LinkState' = LinkState
    BY <1>2 DEF linkVars, LinkState
  <2>2. LinkOk(s)'
    BY <1>1, <2>1, LinkOkStays
  <2> QED
    BY <1>1, <2>1, <2>2 DEF LinksInv
<1>3. CASE LinkTimer
  <2>1. PICK up, idle \in SUBSET {"cc", "pc"}, due \in Due, ask, down, tilted \in BOOLEAN :
          LET t == AskMasterState(sentinelPingInstance(sentinelReconnectInstance(s, up), due), ask)
          IN  LinkBecomes(IF tilted THEN t ELSE CheckSubjectivelyDown(t, idle, down))
    BY <1>3 DEF LinkTimer
  <2> DEFINE t == AskMasterState(sentinelPingInstance(sentinelReconnectInstance(s, up), due), ask)
  <2>2. LinkOk(t)
    BY <1>1, ReconnectKeeps, PingKeeps, AskKeeps
  <2> HIDE DEF t
  <2>3. LinkOk(CheckSubjectivelyDown(t, idle, down))
    BY <2>2, CheckDownKeeps
  <2>4. LinkBecomes(t) \/ LinkBecomes(CheckSubjectivelyDown(t, idle, down))
    BY <2>1 DEF t
  <2> QED
    BY <1>1, <2>2, <2>3, <2>4, LinkBecomesOk
<1>4. CASE Reply
  <2>1. PICK busy \in BOOLEAN : LinkBecomes(Callback(s, busy)) /\ s.waiting # <<>>
    BY <1>1, <1>4 DEF Reply
  <2>2. LinkOk(Callback(s, busy))
    BY <1>1, <2>1, CallbackKeeps
  <2> QED
    BY <1>1, <2>1, <2>2, LinkBecomesOk
<1>5. CASE PcReply
  <2>1. LinkBecomes(PcAuthReply(s)) /\ LinkOk(PcAuthReply(s))
    BY <1>1, <1>5, PcAuthKeeps DEF PcReply
  <2> QED
    BY <1>1, <2>1, LinkBecomesOk
<1>6. CASE SendSlaveOf
  <2>1. LinkOk(SendCounted(s, "SLAVEOF")) /\ LinkOk(Send(s, "SLAVEOF"))
    BY <1>1, <1>6, ConnectedHasCc, SendOnCc DEF SendSlaveOf, LinkCommand
  <2> QED
    BY <1>1, <1>6, <2>1, LinkBecomesOk DEF SendSlaveOf
<1>7. CASE CcBreaks
  <2> DEFINE b == [s EXCEPT !.ri.cc = FALSE, !.ri.pending = @ - Len(s.waiting), !.waiting = <<>>,
                            !.ri.flags = @ \cup {"DISCONNECTED"}]
  <2>1. LinkBecomes(b)
    BY <1>1, <1>7 DEF CcBreaks
  <2>2. LinkOk(b)
    BY <1>1, CcBreaksKeeps
  <2> QED
    BY <1>1, <2>1, <2>2, LinkBecomesOk
<1>8. CASE PcBreaks
  <2> DEFINE p == PcAuthReply(s)
             b == [p EXCEPT !.ri.pc = FALSE, !.ri.flags = @ \cup {"DISCONNECTED"}]
  <2>1. LinkBecomes(b)
    BY <1>8 DEF PcBreaks
  <2>2. LinkOk(p)
    BY <1>1, PcAuthKeeps
  <2>3. LinkOk(b)
    BY <2>2, PcBreaksKeeps
  <2> QED
    BY <1>1, <2>1, <2>3, LinkBecomesOk
<1>9. CASE LinkReset
  <2> DEFINE k == KillPc(KillCc(s))
             g == k.ri.flags \cap {"DISCONNECTED"}
  <2>1. LinkBecomes([k EXCEPT !.ri.flags = g])
    BY <1>9 DEF LinkReset
  <2>2. LinkOk(k)
    BY <1>1, KillCcKeeps, KillPcKeeps
  <2> HIDE DEF k
  <2>3. LinkOk([k EXCEPT !.ri.flags = g])
    BY <2>2, FlagsChange
  <2> QED
    BY <1>1, <2>1, <2>3, LinkBecomesOk
<1> QED
  BY <1>2, <1>3, <1>4, <1>5, <1>6, <1>7, <1>8, <1>9 DEF LinksNext

LEMMA LinksStart ==
    ASSUME LinksInit PROVE LinksInv
<1>1. LinkState = LinkOf({"DISCONNECTED"}, FALSE, FALSE, FALSE, 0, <<>>, 0)
  BY DEF LinksInit, LinkState, LinkOf
<1>2. LinkValues({"DISCONNECTED"}, FALSE, FALSE, FALSE, 0, <<>>, 0)
  BY DEF LinkValues
<1> QED
  BY <1>1, <1>2 DEF LinksInv, LinksInit, LinkOk

LEMMA LinksInvImplies ==
    ASSUME LinksInv PROVE LinksAreUsable
  BY DEF LinksInv, LinkState, LinkOk, LinkOf, LinkValues, LinksAreUsable, LinkHas

\* Whatever breaks, is killed or reconnects, and whatever replies come or
\* stay away (sentinelReconnectInstance, sentinelPingInstance,
\* sentinelDisconnectInstanceFromContext, sentinelKillLink and the callbacks),
\* an instance that is not flagged as disconnected has the connections that
\* are used without a check, and its counter does not pass the number of
\* commands that wait.
THEOREM LinksStayUsable ==
    LinksInit /\ [][LinksNext]_linkVars => []LinksAreUsable
<1>1. LinksInit => LinksInv
  BY LinksStart
<1>2. LinksInv /\ [LinksNext]_linkVars => LinksInv'
  BY LinksStep
<1>3. LinksInv => LinksAreUsable
  BY LinksInvImplies
<1> QED
  BY <1>1, <1>2, <1>3, PTL

\* The same of the server in which Sentinel's scripts and connections are
\* two of the parts.
THEOREM BooksAreKept ==
    ServerSpec => []SentinelKeepsBooks
<1>1. ServerInit => ScriptsInv /\ LinksInv
  BY ScriptsStart, LinksStart DEF ServerInit
<1>2. ScriptsInv /\ LinksInv /\ [ServerNext]_serverPartVars => (ScriptsInv /\ LinksInv)'
  <2>1. [ServerNext]_serverPartVars => [ScriptsNext]_scriptVars /\ [LinksNext]_linkVars
    BY DEF ServerNext, Runs, serverPartVars
  <2> QED
    BY <2>1, ScriptsStep, LinksStep
<1>3. ScriptsInv /\ LinksInv => SentinelKeepsBooks
  BY ScriptsInvImplies, LinksInvImplies DEF SentinelKeepsBooks
<1> QED
  BY <1>1, <1>2, <1>3, PTL DEF ServerSpec

----------------------------------------------------------------------------
(* The pass of the event loop through its time events.                     *)

\* The multiples of a number are that number apart.
LEMMA MultiplesAreApart ==
    ASSUME NEW M \in Nat \ {0}, NEW a \in Int, NEW b \in Int, a < b
    PROVE  a * M + M <= b * M
<1>1. (b - a - 1) * M >= 0
  <2>1. \A k \in Nat : k * M >= 0
    OBVIOUS
  <2>2. b - a - 1 \in Nat
    OBVIOUS
  <2> QED
    BY <2>1, <2>2
<1>2. (b - a - 1) * M = b * M - a * M - M
  OBVIOUS
<1>3. a * M \in Int /\ b * M \in Int
  OBVIOUS
<1> QED
  BY <1>1, <1>2, <1>3

\* The second and the millisecond of a time.
LEMMA TimeHasParts ==
    ASSUME NEW t \in Nat
    PROVE  /\ Sec(t) \in Nat /\ Msec(t) \in 0..MS - 1
           /\ t = Sec(t) * MS + Msec(t)
  BY LoopAssumption DEF Sec, Msec

\* A later time is in a later second, or in the same one and not earlier there.
LEMMA LaterTime ==
    ASSUME NEW c \in Nat, NEW d \in Nat, c <= d
    PROVE  Sec(c) < Sec(d) \/ (Sec(c) = Sec(d) /\ Msec(c) <= Msec(d))
<1> DEFINE q == Sec(c)
           r == Msec(c)
           y == Sec(d)
           z == Msec(d)
<1>1. q \in Nat /\ r \in 0..MS - 1 /\ c = q * MS + r
  BY TimeHasParts
<1>2. y \in Nat /\ z \in 0..MS - 1 /\ d = y * MS + z
  BY TimeHasParts
<1>3. MS \in Nat \ {0} /\ q * MS \in Nat /\ y * MS \in Nat
  BY LoopAssumption, <1>1, <1>2
<1> HIDE DEF q, r, y, z
<1>4. ASSUME y < q PROVE FALSE
  <2>1. y * MS + MS <= q * MS
    BY <1>1, <1>2, <1>3, <1>4, MultiplesAreApart
  <2> QED
    BY <1>1, <1>2, <1>3, <2>1
<1>5. ASSUME y = q PROVE r <= z
  BY <1>1, <1>2, <1>3, <1>5
<1>6. q < y \/ (q = y /\ r <= z)
  BY <1>1, <1>2, <1>4, <1>5
<1> QED
  BY <1>6 DEF q, r, y, z

\* From the first second on, the second of a time is not zero.
LEMMA TheFirstSecond ==
    ASSUME NEW t \in Nat, t >= MS
    PROVE  Sec(t) > 0
<1>1. Sec(t) \in Nat /\ Msec(t) \in 0..MS - 1 /\ t = Sec(t) * MS + Msec(t)
  BY TimeHasParts
<1>2. ASSUME Sec(t) = 0 PROVE FALSE
  <2>1. Sec(t) * MS = 0
    BY <1>2, LoopAssumption
  <2> QED
    BY <1>1, <2>1, LoopAssumption
<1> QED
  BY <1>1, <1>2

(* A time event.                                                           *)
LoopEvent == [id : Nat, sec : Nat, ms : Nat]

\* The time of a new event.
LEMMA NewEventType ==
    ASSUME NEW now \in Nat, NEW i \in Nat, NEW n \in Nat
    PROVE  aeAddMillisecondsToNow(now, i, n) \in LoopEvent /\ aeAddMillisecondsToNow(now, i, n).id = i
<1> DEFINE u == Msec(now) + (n % MS)
           v == Sec(now) + (n \div MS)
<1>1. u \in Nat /\ v \in Nat
  <2>1. n % MS \in 0..MS - 1 /\ n \div MS \in Nat
    BY LoopAssumption
  <2>2. Msec(now) \in 0..MS - 1 /\ Sec(now) \in Nat
    BY TimeHasParts
  <2> QED
    BY <2>1, <2>2, LoopAssumption
<1>2. aeAddMillisecondsToNow(now, i, n) =
        [id |-> i, sec |-> v + (IF u >= MS THEN 1 ELSE 0), ms |-> IF u >= MS THEN u - MS ELSE u]
  BY DEF aeAddMillisecondsToNow
<1> HIDE DEF u, v
<1>3. v + (IF u >= MS THEN 1 ELSE 0) \in Nat /\ (IF u >= MS THEN u - MS ELSE u) \in Nat
  BY <1>1, LoopAssumption
<1> QED
  BY <1>2, <1>3 DEF LoopEvent

\* An event is found if there is one, and the first to come is one of them.
LEMMA NearestIsAnEvent ==
    ASSUME timeEvents \in Seq(LoopEvent), timeEvents # <<>>
    PROVE  aeSearchNearestTimer \in LoopEvent
<1> DEFINE T == ToSet(timeEvents)
           secs == {e.sec : e \in T}
<1>1. T \subseteq LoopEvent /\ T # {}
  BY ToSetIsSubset
<1>2. secs \subseteq Nat /\ secs # {}
  BY <1>1 DEF LoopEvent
<1>3. Min(secs) \in secs /\ \A t \in secs : Min(secs) <= t
  BY <1>2, MinOfNaturals
<1> DEFINE sm == Min(secs)
           mss == {e.ms : e \in {f \in T : f.sec = sm}}
<1>4. mss \subseteq Nat /\ mss # {}
  BY <1>1, <1>3 DEF LoopEvent
<1>5. Min(mss) \in mss /\ \A t \in mss : Min(mss) <= t
  BY <1>4, MinOfNaturals
<1>6. PICK e \in T : e.sec = sm /\ e.ms = Min(mss)
  BY <1>5
<1>7. ASSUME NEW f \in T PROVE e.sec < f.sec \/ (e.sec = f.sec /\ e.ms <= f.ms)
  <2>1. f.sec \in secs /\ f.sec \in Nat /\ e.sec \in Nat /\ e.sec <= f.sec
    BY <1>1, <1>3, <1>6 DEF LoopEvent
  <2>2. CASE f.sec = e.sec
    <3>1. f.ms \in mss
      BY <1>6, <2>2
    <3> QED
      BY <1>5, <1>6, <2>2, <3>1
  <2> QED
    BY <2>1, <2>2
<1>8. aeSearchNearestTimer \in T
  BY <1>6, <1>7 DEF aeSearchNearestTimer
<1> QED
  BY <1>1, <1>8

\* A deleted event is gone and no other: the list keeps every event with another id.
LEMMA DeleteKeepsOthers ==
    ASSUME NEW s \in Seq(LoopEvent), NEW i
    PROVE  /\ aeDeleteTimeEvent(s, i) \in Seq(LoopEvent)
           /\ ToSet(aeDeleteTimeEvent(s, i)) \subseteq ToSet(s)
           /\ \A e \in ToSet(s) : e.id # i => e \in ToSet(aeDeleteTimeEvent(s, i))
<1>1. CASE \E k \in 1..Len(s) : s[k].id = i
  <2> DEFINE T == {k \in 1..Len(s) : s[k].id = i}
             n == Min(T)
  <2>1. Len(s) \in Nat
    BY LenProperties
  <2>2. n \in T
    <3>1. T \subseteq Nat /\ T # {}
      BY <1>1, <2>1
    <3> HIDE DEF T
    <3> QED
      BY <3>1, MinOfNaturals
  <2>3. aeDeleteTimeEvent(s, i) = RemoveAt(s, n)
    BY <1>1 DEF aeDeleteTimeEvent, RemoveFirstMatch, SelectInSeq
  <2>4. n \in 1..Len(s) /\ s[n].id = i
    BY <2>2
  <2> HIDE DEF n
  <2>5. /\ RemoveAt(s, n) \in Seq(LoopEvent)
        /\ ToSet(RemoveAt(s, n)) \subseteq ToSet(s)
        /\ ToSet(s) \subseteq ToSet(RemoveAt(s, n)) \cup {s[n]}
    BY <2>4, RemoveAtElements
  <2> QED
    BY <2>3, <2>4, <2>5
<1>2. CASE ~\E k \in 1..Len(s) : s[k].id = i
  <2>1. aeDeleteTimeEvent(s, i) = s
    BY <1>2 DEF aeDeleteTimeEvent, RemoveFirstMatch
  <2> QED
    BY <2>1
<1> QED
  BY <1>1, <1>2

(* An event is due at a time c.                                            *)
DueAt(c, e) == Sec(c) > e.sec \/ (Sec(c) = e.sec /\ Msec(c) >= e.ms)

\* What is due stays due while the clock goes on.
LEMMA DueIsLasting ==
    ASSUME NEW c \in Nat, NEW d \in Nat, c <= d, NEW e \in LoopEvent, DueAt(c, e)
    PROVE  DueAt(d, e)
<1>1. /\ Sec(c) \in Nat /\ Msec(c) \in 0..MS - 1
      /\ Sec(d) \in Nat /\ Msec(d) \in 0..MS - 1
  BY TimeHasParts
<1>2. e.sec \in Nat /\ e.ms \in Nat
  BY DEF LoopEvent
<1>3. Msec(c) \in Int /\ Msec(d) \in Int
  BY <1>1, LoopAssumption
<1>4. Sec(c) < Sec(d) \/ (Sec(c) = Sec(d) /\ Msec(c) <= Msec(d))
  BY LaterTime
<1> QED
  BY <1>1, <1>2, <1>3, <1>4 DEF DueAt

LoopTypes ==
    /\ clock \in Nat /\ clock >= MS
    /\ timeEvents \in Seq(LoopEvent)
    /\ timeEventNextId \in Nat \ {0}
    /\ \A e \in ToSet(timeEvents) : e.id < timeEventNextId
    /\ te \in Nat \ {0}
    /\ maxId \in Int /\ lastTime \in Nat

(* An event that is owed was due in the second in which the pass began, or *)
(* before.                                                                 *)
OwedAreOld ==
    \A i \in owed : \E k \in 1..Len(timeEvents) :
       timeEvents[k].id = i /\ timeEvents[k].sec <= lastTime

OwedAreThere ==
    \A i \in owed : \E k \in 1..Len(timeEvents) :
       te <= k /\ timeEvents[k].id = i /\ i <= maxId /\ DueAt(clock, timeEvents[k])

(* What a pass owes is in the rest of the list, due, and not newer than    *)
(* the pass, if the clock was not set back since it began.                 *)
LoopInv ==
    /\ LoopTypes /\ OwedAreOld
    /\ loopAt = "pass" /\ ~back => OwedAreThere

\* The only event at the start is serverCron's.
LEMMA LoopInitial == LoopInit => LoopInv
<1> SUFFICES ASSUME LoopInit PROVE LoopInv
  OBVIOUS
<1> DEFINE first == [id |-> 0, sec |-> 1, ms |-> 0]
<1>1. first \in LoopEvent /\ first.id = 0
  BY DEF LoopEvent
<1>2. timeEvents = <<first>>
  BY DEF LoopInit
<1> HIDE DEF first
<1>3. timeEvents \in Seq(LoopEvent) /\ ToSet(timeEvents) = {first}
  <2>1. timeEvents \in Seq(LoopEvent) /\ Len(timeEvents) = 1 /\ timeEvents[1] = first
    BY <1>1, <1>2
  <2> QED
    BY <2>1 DEF ToSet
<1>4. /\ clock = MS /\ timeEventNextId = 1 /\ te = 1 /\ maxId = 0 /\ lastTime = 1
      /\ loopAt = "poll" /\ owed = {}
  BY DEF LoopInit
<1>5. LoopTypes
  BY <1>1, <1>3, <1>4, LoopAssumption DEF LoopTypes
<1>6. OwedAreOld
  BY <1>4 DEF OwedAreOld
<1> QED
  BY <1>4, <1>5, <1>6 DEF LoopInv

\* The poll ends later than it began.
LEMMA PollKeeps == ASSUME LoopInv, aeApiPoll PROVE LoopInv'
<1> DEFINE e == aeSearchNearestTimer
<1>1. /\ timeEvents # <<>>
      /\ \E n \in 0..PollTimeout(e) : clock' = clock + n
      /\ loopAt' = "time"
      /\ UNCHANGED <<timeEvents, timeEventNextId, lastTime, te, maxId, owed>>
  BY DEF aeApiPoll
<1>2. e \in LoopEvent
  BY <1>1, NearestIsAnEvent DEF LoopInv, LoopTypes
<1> HIDE DEF e
<1>3. clock' \in Nat /\ clock' >= MS
  <2>1. PollTimeout(e) \in Int
    <3>1. /\ e.sec \in Nat /\ e.ms \in Nat /\ MS \in Nat
          /\ Sec(clock) \in Nat /\ Msec(clock) \in 0..MS - 1
      BY <1>2, TimeHasParts, LoopAssumption DEF LoopEvent, LoopInv, LoopTypes
    <3>2. Msec(clock) \in Nat
      BY <3>1
    <3> DEFINE borrow == e.ms < Msec(clock)
               s == e.sec - Sec(clock) - (IF borrow THEN 1 ELSE 0)
               m == IF borrow THEN e.ms + MS - Msec(clock) ELSE e.ms - Msec(clock)
               p == IF s < 0 THEN 0 ELSE s
    <3>3. PollTimeout(e) = p * MS + m
      BY DEF PollTimeout
    <3>4. s \in Int /\ m \in Int
      BY <3>1, <3>2
    <3>5. p \in Int
      <4> HIDE DEF s
      <4> QED
        BY <3>4
    <3> HIDE DEF p, m
    <3> QED
      BY <3>1, <3>3, <3>4, <3>5
  <2>2. PICK n \in 0..PollTimeout(e) : clock' = clock + n
    BY <1>1
  <2>3. n \in Nat
    BY <2>1, <2>2
  <2> QED
    BY <2>2, <2>3, LoopAssumption DEF LoopInv, LoopTypes
<1>4. LoopTypes'
  BY <1>1, <1>3 DEF LoopInv, LoopTypes
<1>5. OwedAreOld'
  BY <1>1 DEF LoopInv, OwedAreOld
<1> QED
  BY <1>1, <1>4, <1>5 DEF LoopInv

\* Where a pass begins, it owes what is due, or everything after a skew.
LEMMA PassBegins == ASSUME LoopInv, processTimeEvents PROVE LoopInv'
<1>1. /\ clock \in Nat /\ clock >= MS
      /\ timeEvents \in Seq(LoopEvent)
      /\ timeEventNextId \in Nat \ {0}
      /\ \A e \in ToSet(timeEvents) : e.id < timeEventNextId
      /\ lastTime \in Nat /\ Sec(clock) \in Nat
  BY TimeHasParts DEF LoopInv, LoopTypes
<1>2. Len(timeEvents) \in Nat /\ \A k \in 1..Len(timeEvents) : timeEvents[k] \in LoopEvent
  BY <1>1, LenProperties, ElementOfSeq
<1>3. /\ timeEvents' = DetectSkew(timeEvents)
      /\ te' = 1 /\ maxId' = timeEventNextId - 1 /\ clock' = clock /\ timeEventNextId' = timeEventNextId
      /\ lastTime' = Sec(clock)
      /\ owed' = (IF Sec(clock) < lastTime THEN Ids(timeEvents) ELSE {e.id : e \in {f \in ToSet(timeEvents) : EventIsDue(f)}})
                   \cup (IF Sec(clock) = lastTime THEN {} ELSE owed)
  BY DEF processTimeEvents
<1>4. /\ timeEvents' \in Seq(LoopEvent) /\ Len(timeEvents') = Len(timeEvents)
      /\ \A k \in 1..Len(timeEvents) : timeEvents'[k].id = timeEvents[k].id
  <2>1. CASE Sec(clock) < lastTime
    <3>1. timeEvents' = [k \in 1..Len(timeEvents) |-> [timeEvents[k] EXCEPT !.sec = 0]]
      BY <1>3, <2>1 DEF DetectSkew
    <3>2. \A k \in 1..Len(timeEvents) : timeEvents'[k] = [timeEvents[k] EXCEPT !.sec = 0]
      BY <3>1
    <3>3. ASSUME NEW k \in 1..Len(timeEvents)
          PROVE  timeEvents'[k] \in LoopEvent /\ timeEvents'[k].id = timeEvents[k].id
      <4>1. timeEvents[k] \in LoopEvent
        BY <1>2
      <4>2. \A e \in LoopEvent : [e EXCEPT !.sec = 0] \in LoopEvent /\ [e EXCEPT !.sec = 0].id = e.id
        BY DEF LoopEvent
      <4> QED
        BY <3>2, <4>1, <4>2
    <3>4. timeEvents' \in Seq(LoopEvent) /\ Len(timeEvents') = Len(timeEvents)
      BY <1>2, <3>1, <3>3
    <3> QED
      BY <3>3, <3>4
  <2>2. CASE ~(Sec(clock) < lastTime)
    BY <1>1, <1>3, <2>2 DEF DetectSkew
  <2> QED
    BY <2>1, <2>2
<1>5. \A e \in ToSet(timeEvents') : e.id < timeEventNextId
  <2> SUFFICES ASSUME NEW e \in ToSet(timeEvents') PROVE e.id < timeEventNextId
    OBVIOUS
  <2>1. PICK k \in 1..Len(timeEvents) : timeEvents'[k] = e
    BY <1>4, ToSetMember
  <2>2. timeEvents[k] \in ToSet(timeEvents)
    BY <1>1, <2>1, ToSetMember
  <2> QED
    BY <1>1, <1>4, <2>1, <2>2
<1>6. ASSUME NEW i \in owed'
      PROVE  \E k \in 1..Len(timeEvents) :
                /\ timeEvents[k].id = i
                /\ timeEvents'[k].sec <= lastTime' /\ DueAt(clock', timeEvents'[k])
  <2>1. CASE Sec(clock) < lastTime
    <3>1. PICK k \in 1..Len(timeEvents) : timeEvents[k].id = i
      <4>1. i \in Ids(timeEvents) \/ i \in owed
        BY <1>3, <1>6, <2>1
      <4>2. ASSUME i \in Ids(timeEvents) PROVE \E k \in 1..Len(timeEvents) : timeEvents[k].id = i
        <5>1. PICK e \in ToSet(timeEvents) : e.id = i
          BY <4>2 DEF Ids
        <5> QED
          BY <1>1, <5>1, ToSetMember
      <4>3. ASSUME i \in owed PROVE \E k \in 1..Len(timeEvents) : timeEvents[k].id = i
        BY <4>3 DEF LoopInv, OwedAreOld
      <4> QED
        BY <4>1, <4>2, <4>3
    <3>2. timeEvents'[k] = [timeEvents[k] EXCEPT !.sec = 0]
      BY <1>3, <2>1, <3>1 DEF DetectSkew
    <3>3. timeEvents'[k].sec = 0
      BY <1>2, <3>1, <3>2 DEF LoopEvent
    <3>4. Sec(clock) > 0
      BY <1>1, TheFirstSecond
    <3> QED
      BY <1>1, <1>3, <3>1, <3>3, <3>4 DEF DueAt
  <2>2. CASE ~(Sec(clock) < lastTime)
    <3>1. timeEvents' = timeEvents
      BY <1>3, <2>2 DEF DetectSkew
    <3>2. CASE \E e \in ToSet(timeEvents) : e.id = i /\ EventIsDue(e)
      <4>1. PICK e \in ToSet(timeEvents) : e.id = i /\ EventIsDue(e)
        BY <3>2
      <4>2. PICK k \in 1..Len(timeEvents) : timeEvents[k] = e
        BY <1>1, <4>1, ToSetMember
      <4>3. DueAt(clock, timeEvents[k])
        BY <4>1, <4>2 DEF DueAt, EventIsDue
      <4>4. timeEvents[k].sec \in Nat
        BY <1>2, <4>2 DEF LoopEvent
      <4>5. timeEvents[k].sec <= Sec(clock)
        BY <1>1, <4>3, <4>4 DEF DueAt
      <4> QED
        BY <1>3, <3>1, <4>1, <4>2, <4>3, <4>5
    <3>3. CASE i \in owed /\ Sec(clock) # lastTime
      <4>1. PICK k \in 1..Len(timeEvents) : timeEvents[k].id = i /\ timeEvents[k].sec <= lastTime
        BY <3>3 DEF LoopInv, OwedAreOld
      <4>2. timeEvents[k].sec \in Nat
        BY <1>2, <4>1 DEF LoopEvent
      <4>3. timeEvents[k].sec < Sec(clock)
        BY <1>1, <2>2, <3>3, <4>1, <4>2
      <4>4. DueAt(clock, timeEvents[k])
        BY <4>3 DEF DueAt
      <4> QED
        BY <1>1, <1>3, <3>1, <4>1, <4>2, <4>3, <4>4
    <3> QED
      BY <1>3, <1>6, <2>2, <3>2, <3>3
  <2> QED
    BY <2>1, <2>2
<1>7. OwedAreOld'
  BY <1>4, <1>6 DEF OwedAreOld
<1>8. OwedAreThere'
  <2> SUFFICES ASSUME NEW i \in owed'
               PROVE  \E k \in 1..Len(timeEvents') :
                         te' <= k /\ timeEvents'[k].id = i /\ i <= maxId' /\ DueAt(clock', timeEvents'[k])
    BY DEF OwedAreThere
  <2>1. PICK k \in 1..Len(timeEvents) : timeEvents[k].id = i /\ DueAt(clock', timeEvents'[k])
    BY <1>6
  <2>2. timeEvents[k] \in LoopEvent /\ timeEvents[k] \in ToSet(timeEvents)
    BY <1>1, <1>2, <2>1, ToSetMember
  <2>3. i \in Nat /\ i < timeEventNextId /\ k \in Nat /\ 1 <= k
    BY <1>1, <1>2, <2>1, <2>2 DEF LoopEvent
  <2> QED
    BY <1>1, <1>3, <1>4, <2>1, <2>3
<1>9. LoopTypes'
  BY <1>1, <1>3, <1>4, <1>5 DEF LoopTypes
<1> QED
  BY <1>7, <1>8, <1>9 DEF LoopInv

\* A handler that runs settles its own event; the others stay, wherever they are in the list now.
LEMMA HandlerKeeps == ASSUME LoopInv, NEW n \in 0..MS, RunTimeEvent(n) PROVE LoopInv'
<1> DEFINE id == timeEvents[te].id
<1>1. /\ clock \in Nat /\ clock >= MS
      /\ timeEvents \in Seq(LoopEvent)
      /\ timeEventNextId \in Nat \ {0}
      /\ \A e \in ToSet(timeEvents) : e.id < timeEventNextId
      /\ te \in Nat \ {0} /\ maxId \in Int /\ lastTime \in Nat
  BY DEF LoopInv, LoopTypes
<1>2. /\ loopAt = "pass" /\ te <= Len(timeEvents)
      /\ te' = 1 /\ loopAt' = loopAt /\ maxId' = maxId /\ lastTime' = lastTime
  BY DEF RunTimeEvent
<1>3. PICK now \in MS .. MaxNow, create \in BOOLEAN, delete \in (Ids(timeEvents) \ {timeEvents[te].id}) \cup {NoEvent} :
         LET kept  == aeDeleteTimeEvent(timeEvents, delete)
             after == IF create THEN aeCreateTimeEvent(kept, now, timeEventNextId, 0) ELSE kept
         IN  /\ timeEventNextId' = IF create THEN timeEventNextId + 1 ELSE timeEventNextId
             /\ timeEvents' = IF n = 0 THEN aeDeleteTimeEvent(after, id)
                              ELSE [k \in 1 .. Len(after) |->
                                       IF after[k].id = id THEN aeAddMillisecondsToNow(now, id, n) ELSE after[k]]
             /\ owed' = owed \ {delete, id}
             /\ clock' = now
             /\ back' = (back \/ now < clock)
  BY DEF RunTimeEvent
<1> DEFINE kept  == aeDeleteTimeEvent(timeEvents, delete)
           new   == aeAddMillisecondsToNow(now, timeEventNextId, 0)
           after == IF create THEN aeCreateTimeEvent(kept, now, timeEventNextId, 0) ELSE kept
<1>4. id \in Nat /\ id < timeEventNextId /\ n \in Nat
  <2>1. te \in 1..Len(timeEvents) /\ timeEvents[te] \in LoopEvent /\ timeEvents[te] \in ToSet(timeEvents)
    BY <1>1, <1>2, LenProperties, ElementOfSeq, ToSetMember
  <2> QED
    BY <1>1, <2>1, LoopAssumption DEF LoopEvent
<1>5. /\ timeEventNextId' = IF create THEN timeEventNextId + 1 ELSE timeEventNextId
      /\ timeEvents' = IF n = 0 THEN aeDeleteTimeEvent(after, id)
                       ELSE [k \in 1 .. Len(after) |->
                                IF after[k].id = id THEN aeAddMillisecondsToNow(now, id, n) ELSE after[k]]
      /\ owed' = owed \ {delete, id}
      /\ clock' = now
      /\ back' = (back \/ now < clock)
  BY <1>3
<1>0. now \in Nat /\ now >= MS
  BY <1>3, LoopAssumption
<1> HIDE DEF id
<1>6. /\ kept \in Seq(LoopEvent) /\ ToSet(kept) \subseteq ToSet(timeEvents)
      /\ \A e \in ToSet(timeEvents) : e.id # delete => e \in ToSet(kept)
  BY <1>1, DeleteKeepsOthers
<1>7. new \in LoopEvent /\ new.id = timeEventNextId
  BY <1>0, <1>1, NewEventType
<1>8. after = IF create THEN <<new>> \o kept ELSE kept
  BY DEF aeCreateTimeEvent
<1> HIDE DEF kept, new, after
<1>9. /\ after \in Seq(LoopEvent)
      /\ ToSet(after) \subseteq ToSet(kept) \cup (IF create THEN {new} ELSE {})
      /\ ToSet(kept) \subseteq ToSet(after)
  <2>1. CASE create
    <3>1. <<new>> \in Seq(LoopEvent) /\ ToSet(<<new>>) = {new}
      <4>1. <<new>> \in Seq(LoopEvent) /\ Len(<<new>>) = 1 /\ <<new>>[1] = new
        BY <1>7
      <4> QED
        BY <4>1 DEF ToSet
    <3>2. after = <<new>> \o kept
      BY <1>8, <2>1
    <3>3. after \in Seq(LoopEvent)
      BY <1>6, <3>1, <3>2, ConcatProperties
    <3>4. ToSet(after) = ToSet(<<new>>) \cup ToSet(kept)
      <4>1. kept \in Seq(LoopEvent) /\ <<new>> \in Seq(LoopEvent)
        BY <1>6, <3>1
      <4>2. ToSet(<<new>> \o kept) = ToSet(<<new>>) \cup ToSet(kept)
        BY ONLY <4>1, ToSetConcat
      <4> QED
        BY <3>2, <4>2
    <3> QED
      BY <2>1, <3>1, <3>3, <3>4
  <2>2. CASE ~create
    BY <1>6, <1>8, <2>2
  <2> QED
    BY <2>1, <2>2
<1>10. timeEventNextId' \in Nat \ {0} /\ timeEventNextId <= timeEventNextId'
  BY <1>1, <1>5
<1>11. \A e \in ToSet(after) : e.id < timeEventNextId'
  <2> SUFFICES ASSUME NEW e \in ToSet(after) PROVE e.id < timeEventNextId'
    OBVIOUS
  <2>1. CASE e \in ToSet(timeEvents)
    <3>1. ToSet(timeEvents) \subseteq LoopEvent
      BY <1>1, ToSetIsSubset
    <3>2. e.id < timeEventNextId /\ e.id \in Nat
      BY <1>1, <2>1, <3>1 DEF LoopEvent
    <3> QED
      BY <1>1, <1>10, <3>2
  <2>2. CASE create /\ e = new
    BY <1>1, <1>5, <1>7, <2>2
  <2>3. e \in ToSet(timeEvents) \/ (create /\ e = new)
    BY <1>6, <1>9
  <2> QED
    BY <2>1, <2>2, <2>3
<1>12. /\ timeEvents' \in Seq(LoopEvent)
       /\ \A e \in ToSet(timeEvents') : e.id < timeEventNextId'
       /\ \A e \in ToSet(after) : e.id # id => e \in ToSet(timeEvents')
  <2>1. CASE n = 0
    <3>1. timeEvents' = aeDeleteTimeEvent(after, id)
      BY <1>5, <2>1
    <3>2. /\ timeEvents' \in Seq(LoopEvent)
          /\ ToSet(timeEvents') \subseteq ToSet(after)
          /\ \A e \in ToSet(after) : e.id # id => e \in ToSet(timeEvents')
      BY <1>9, <3>1, DeleteKeepsOthers
    <3> QED
      BY <1>11, <3>2
  <2>2. CASE n # 0
    <3> DEFINE again == aeAddMillisecondsToNow(now, id, n)
    <3>1. again \in LoopEvent /\ again.id = id
      BY <1>0, <1>4, NewEventType
    <3>2. timeEvents' = [k \in 1 .. Len(after) |-> IF after[k].id = id THEN again ELSE after[k]]
      BY <1>5, <2>2
    <3> HIDE DEF again
    <3>3. Len(after) \in Nat /\ \A k \in 1..Len(after) : after[k] \in LoopEvent
      BY <1>9, LenProperties, ElementOfSeq
    <3>4. /\ timeEvents' \in Seq(LoopEvent) /\ Len(timeEvents') = Len(after)
          /\ \A k \in 1..Len(after) : timeEvents'[k] = IF after[k].id = id THEN again ELSE after[k]
      BY <3>1, <3>2, <3>3
    <3>5. ASSUME NEW e \in ToSet(timeEvents') PROVE e.id < timeEventNextId'
      <4>1. PICK k \in 1..Len(after) : timeEvents'[k] = e
        BY <3>4, <3>5, ToSetMember
      <4>2. e = again \/ e = after[k]
        BY <3>4, <4>1
      <4>3. after[k] \in ToSet(after)
        BY <1>9, <4>1, ToSetMember
      <4>4. again.id < timeEventNextId'
        BY <1>1, <1>4, <1>10, <3>1
      <4> QED
        BY <1>11, <4>2, <4>3, <4>4
    <3>6. ASSUME NEW e \in ToSet(after), e.id # id PROVE e \in ToSet(timeEvents')
      <4>1. PICK k \in 1..Len(after) : after[k] = e
        BY <1>9, <3>6, ToSetMember
      <4>2. timeEvents'[k] = e
        BY <3>4, <3>6, <4>1
      <4> QED
        BY <3>4, <4>1, <4>2, ToSetMember
    <3> QED
      BY <3>4, <3>5, <3>6
  <2> QED
    BY <2>1, <2>2
<1>13. ASSUME NEW i \in owed', NEW j \in 1..Len(timeEvents), timeEvents[j].id = i
       PROVE  \E k \in 1..Len(timeEvents') : timeEvents'[k] = timeEvents[j] /\ 1 <= k
  <2> DEFINE e == timeEvents[j]
  <2>1. e \in ToSet(timeEvents) /\ e.id # delete /\ e.id # id
    BY <1>1, <1>5, <1>13, ToSetMember
  <2> HIDE DEF e
  <2>2. e \in ToSet(timeEvents')
    BY <1>6, <1>9, <1>12, <2>1
  <2>3. PICK k \in 1..Len(timeEvents') : timeEvents'[k] = e
    BY <1>12, <2>2, ToSetMember
  <2>4. 1 <= k
    BY <1>12, <2>3, LenProperties
  <2> QED
    BY <2>3, <2>4 DEF e
<1>14. OwedAreOld'
  <2> SUFFICES ASSUME NEW i \in owed'
               PROVE  \E k \in 1..Len(timeEvents') : timeEvents'[k].id = i /\ timeEvents'[k].sec <= lastTime'
    BY DEF OwedAreOld
  <2>1. PICK j \in 1..Len(timeEvents) : timeEvents[j].id = i /\ timeEvents[j].sec <= lastTime
    BY <1>5 DEF LoopInv, OwedAreOld
  <2>2. PICK k \in 1..Len(timeEvents') : timeEvents'[k] = timeEvents[j]
    BY <1>13, <2>1
  <2> QED
    BY <1>2, <2>1, <2>2
<1>15. ASSUME ~back' PROVE OwedAreThere'
  <2> SUFFICES ASSUME NEW i \in owed'
               PROVE  \E k \in 1..Len(timeEvents') :
                         te' <= k /\ timeEvents'[k].id = i /\ i <= maxId' /\ DueAt(clock', timeEvents'[k])
    BY DEF OwedAreThere
  <2>1. ~back /\ clock <= now
    <3>1. back' = (back \/ now < clock)
      BY <1>5
    <3>2. ~back /\ ~(now < clock)
      BY <1>15, <3>1, Zenon
    <3> QED
      BY <1>0, <1>1, <3>2
  <2>2. PICK j \in 1..Len(timeEvents) : timeEvents[j].id = i /\ i <= maxId /\ DueAt(clock, timeEvents[j])
    BY <1>2, <1>5, <2>1 DEF LoopInv, OwedAreThere
  <2>3. timeEvents[j] \in LoopEvent
    BY <1>1, <2>2, ElementOfSeq
  <2>4. DueAt(now, timeEvents[j])
    BY <1>0, <1>1, <2>1, <2>2, <2>3, DueIsLasting
  <2>5. PICK k \in 1..Len(timeEvents') : timeEvents'[k] = timeEvents[j] /\ 1 <= k
    BY <1>13, <2>2
  <2> QED
    BY <1>2, <1>5, <2>2, <2>4, <2>5
<1>16. LoopTypes'
  BY <1>0, <1>1, <1>2, <1>5, <1>10, <1>12 DEF LoopTypes
<1> QED
  BY <1>14, <1>15, <1>16 DEF LoopInv

\* An event that is passed over is none that the pass owes.
LEMMA SkipKeeps == ASSUME LoopInv, SkipTimeEvent PROVE LoopInv'
<1>1. /\ LoopTypes /\ OwedAreOld /\ loopAt = "pass" /\ (~back => OwedAreThere)
      /\ te <= Len(timeEvents)
      /\ timeEvents[te].id > maxId \/ ~DueAt(clock, timeEvents[te])
      /\ te' = te + 1
      /\ UNCHANGED <<clock, timeEvents, timeEventNextId, lastTime, loopAt, maxId, owed, back>>
  BY DEF LoopInv, SkipTimeEvent, EventIsDue, DueAt
<1>2. te \in Nat /\ Len(timeEvents) \in Nat /\ te \in 1..Len(timeEvents)
  BY <1>1, LenProperties DEF LoopTypes
<1>3. ASSUME ~back PROVE OwedAreThere'
  <2> SUFFICES ASSUME NEW i \in owed
               PROVE  \E k \in 1..Len(timeEvents) :
                         te + 1 <= k /\ timeEvents[k].id = i /\ i <= maxId /\ DueAt(clock, timeEvents[k])
    BY <1>1 DEF OwedAreThere
  <2>1. PICK k \in 1..Len(timeEvents) :
              te <= k /\ timeEvents[k].id = i /\ i <= maxId /\ DueAt(clock, timeEvents[k])
    BY <1>1, <1>3 DEF OwedAreThere
  <2>2. k # te
    <3> SUFFICES ASSUME k = te PROVE FALSE
      OBVIOUS
    <3>1. i > maxId
      BY <1>1, <2>1
    <3>2. i \in Nat
      <4>1. timeEvents[k] \in LoopEvent
        BY <1>1, <2>1, ElementOfSeq DEF LoopTypes
      <4> QED
        BY <2>1, <4>1 DEF LoopEvent
    <3> QED
      BY <1>1, <2>1, <3>1, <3>2 DEF LoopTypes
  <2>3. te + 1 <= k
    BY <1>2, <2>1, <2>2
  <2> QED
    BY <2>1, <2>3
<1>4. LoopTypes'
  BY <1>1, <1>2 DEF LoopTypes
<1>5. OwedAreOld'
  BY <1>1 DEF OwedAreOld
<1> QED
  BY <1>1, <1>3, <1>4, <1>5 DEF LoopInv

\* The clock goes on, or is set back, and that is noted if it is while a pass runs.
LEMMA ClockKeeps == ASSUME LoopInv, TimePasses \/ ClockIsSetBack PROVE LoopInv'
<1>1. CASE TimePasses
  <2>1. clock' = clock + 1 /\ UNCHANGED <<timeEvents, timeEventNextId, lastTime, loopAt, te, maxId, owed, back>>
    BY <1>1 DEF TimePasses
  <2>2. clock \in Nat /\ timeEvents \in Seq(LoopEvent)
    BY DEF LoopInv, LoopTypes
  <2>3. ASSUME OwedAreThere PROVE OwedAreThere'
    <3> SUFFICES ASSUME NEW i \in owed
                 PROVE  \E k \in 1..Len(timeEvents) :
                           te <= k /\ timeEvents[k].id = i /\ i <= maxId /\ DueAt(clock + 1, timeEvents[k])
      BY <2>1 DEF OwedAreThere
    <3>1. PICK k \in 1..Len(timeEvents) :
                te <= k /\ timeEvents[k].id = i /\ i <= maxId /\ DueAt(clock, timeEvents[k])
      BY <2>3 DEF OwedAreThere
    <3>2. timeEvents[k] \in LoopEvent
      BY <2>2, <3>1, ElementOfSeq
    <3>3. DueAt(clock + 1, timeEvents[k])
      BY <2>2, <3>1, <3>2, DueIsLasting
    <3> QED
      BY <3>1, <3>3
  <2>4. LoopTypes'
    BY <2>1, LoopAssumption DEF LoopInv, LoopTypes
  <2>5. OwedAreOld'
    BY <2>1 DEF LoopInv, OwedAreOld
  <2> QED
    BY <2>1, <2>3, <2>4, <2>5 DEF LoopInv
<1>2. CASE ClockIsSetBack
  <2>1. /\ back' = (back \/ loopAt = "pass")
        /\ UNCHANGED <<timeEvents, timeEventNextId, lastTime, loopAt, te, maxId, owed>>
        /\ \E t \in MS .. clock - 1 : clock' = t
    BY <1>2 DEF ClockIsSetBack
  <2>2. clock' \in Nat /\ clock' >= MS
    BY <2>1, LoopAssumption DEF LoopInv, LoopTypes
  <2>3. LoopTypes'
    BY <2>1, <2>2 DEF LoopInv, LoopTypes
  <2>4. OwedAreOld'
    BY <2>1 DEF LoopInv, OwedAreOld
  <2> QED
    BY <2>1, <2>3, <2>4 DEF LoopInv
<1> QED
  BY <1>1, <1>2

\* Every step of the event loop keeps the invariant.
LEMMA LoopSteps == LoopInv /\ [LoopNext]_loopVars => LoopInv'
<1> SUFFICES ASSUME LoopInv, [LoopNext]_loopVars PROVE LoopInv'
  OBVIOUS
<1>1. ASSUME PassEnds PROVE LoopInv'
  BY <1>1 DEF PassEnds, LoopInv, LoopTypes, OwedAreOld
<1>2. ASSUME UNCHANGED loopVars PROVE LoopInv'
  <2>1. UNCHANGED <<clock, timeEvents, timeEventNextId, lastTime, loopAt, te, maxId, owed, back>>
    BY <1>2 DEF loopVars
  <2>2. LoopTypes'
    BY <2>1 DEF LoopInv, LoopTypes
  <2>3. OwedAreThere => OwedAreThere'
    BY <2>1 DEF OwedAreThere
  <2>4. OwedAreOld'
    BY <2>1 DEF LoopInv, OwedAreOld
  <2> QED
    BY <2>1, <2>2, <2>3, <2>4 DEF LoopInv
<1> QED
  BY <1>1, <1>2, PollKeeps, PassBegins, HandlerKeeps, SkipKeeps, ClockKeeps DEF LoopNext

\* A pass that has gone through the list owes nothing, unless the clock was set back meanwhile.
LEMMA NothingIsOwedAtTheEnd == ASSUME LoopInv, PassEnds PROVE back \/ owed = {}
<1>1. LoopTypes /\ (~back => OwedAreThere) /\ te > Len(timeEvents)
  BY DEF LoopInv, PassEnds
<1>2. te \in Nat /\ Len(timeEvents) \in Nat
  BY <1>1, LenProperties DEF LoopTypes
<1> QED
  BY <1>1, <1>2 DEF OwedAreThere

\* A pass of the time events during which the clock is not set back runs what
\* was due when it began, unless a handler deletes it, and what an earlier
\* pass left over because the clock was set back while it ran, unless it
\* begins in the second in which that one began.  The clock may be set back
\* whenever it is not being read (processTimeEvents).
THEOREM LoopRunsWhatIsDue == LoopInit /\ [][LoopNext]_loopVars => DueEventsRun
<1>1. LoopInv /\ [LoopNext]_loopVars => [PassEnds => back \/ owed = {}]_loopVars
  BY NothingIsOwedAtTheEnd
<1> QED
  BY <1>1, LoopInitial, LoopSteps, PTL DEF DueEventsRun

----------------------------------------------------------------------------
(* The server in which these parts are among those that may run.           *)

\* Replies leave in order, a slave that replays a script executes what the
\* master did, its link leads to the master it was told, and every list of
\* clients and subscriptions holds the clients that are there, once each, in
\* the server in which these are four of the parts (addReply and
\* sendReplyToClient, luaRedisGenericCommand, replicationCron, freeClient).
\* Without maxmemory: an eviction during a slow script is propagated before
\* the script.
THEOREM ClientsStayServed ==
    ASSUME ~Evicts
    PROVE  ServerSpec => []ClientsAreServed
<1> DEFINE Inv == SlaveInv(Slave) /\ SubInv /\ LuaInv /\ OutInv
<1>1. ServerInit => Inv
  BY SlaveStarts, SubInitial, LuaInitInv, OutInitInv DEF ServerInit
<1>2. Inv /\ [ServerNext]_serverPartVars => Inv'
  <2>1. [ServerNext]_serverPartVars
          => [SlaveNext]_slaveVars /\ [SubNext]_subVars /\ [LuaNext]_luaVars /\ [OutNext]_outVars
    BY DEF ServerNext, Runs, serverPartVars
  <2> QED
    BY <2>1, SlaveSteps, SlaveRests, SubSteps, SubRests, LuaStep, OutStep
<1>3. Inv => ClientsAreServed
  BY SlaveInvImplies, SubInvImplies, InvKeepsOrder DEF ClientsAreServed, LuaInv, ScriptsAreReplayed
<1> QED
  BY <1>1, <1>2, <1>3, PTL DEF ServerSpec

\* In the server in which the event loop is one of the parts, a pass during
\* which the clock is not set back runs what was due when it began, and what
\* an earlier one left over in another second (processTimeEvents).
THEOREM ServerRunsWhatIsDue ==
    ServerSpec => DueEventsRun
<1>1. ServerInit => LoopInv
  BY LoopInitial DEF ServerInit
<1>2. [ServerNext]_serverPartVars => [LoopNext]_loopVars
  BY DEF ServerNext, Runs, serverPartVars
<1>3. LoopInv /\ [LoopNext]_loopVars => LoopInv' /\ [PassEnds => back \/ owed = {}]_loopVars
  BY LoopSteps, NothingIsOwedAtTheEnd
<1> QED
  BY <1>1, <1>2, <1>3, PTL DEF ServerSpec, DueEventsRun

----------------------------------------------------------------------------
(* The votes of the other Sentinels.  A run id and an address are p plus a *)
(* multiple of Apart for the Sentinel p that has or had them.              *)

Belongs(x, p) == \E k \in Nat : x = p + k * Apart

HelloRecord == [runid : Nat, addr : Nat]
AnswerRecord == [runid : Nat, down : BOOLEAN, leader : Vote]
OtherSentinel ==
    [runid : Nat, disconnected : BOOLEAN, down : BOOLEAN, leader : Vote \cup {NoVote},
     reply : {<<>>} \cup {<<r>> : r \in AnswerRecord}]

(* pr is process.  The run id r was seen at the address a, and if it is a  *)
(* new one of p then p has not moved since.                                *)
SeenAt(pr, p, r, a) ==
    /\ Belongs(r, p) /\ Belongs(a, p)
    /\ r # p => a = pr[p].addr /\ pr[p].runid # p

(* The run id r answered through the instance at a, which has run id id.   *)
AnsweredBy(pr, p, a, id, r) ==
    /\ Belongs(r, p)
    /\ r = p => id = p
    /\ r # p => a = pr[p].addr /\ pr[p].runid # p

HasVote(s) == s.down \/ s.leader # NoVote
IsVoteOf(s, sd, r) == r \in DOMAIN sd /\ sd[r] = [down |-> s.down, leader |-> s.leader]

EntryOf(pr, p, s, a, sd) ==
    /\ s \in OtherSentinel
    /\ SeenAt(pr, p, s.runid, a)
    /\ s.reply # <<>> => AnsweredBy(pr, p, a, s.runid, s.reply[1].runid)
    /\ HasVote(s) => \E r : IsVoteOf(s, sd, r) /\ AnsweredBy(pr, p, a, s.runid, r)

ProcessOk(pr) ==
    /\ pr \in [Others -> HelloRecord]
    /\ \A p \in Others : SeenAt(pr, p, pr[p].runid, pr[p].addr)
HelloOk(pr, h) == h \in Seq(HelloRecord) /\ \A i \in 1 .. Len(h) : \E p \in Others : SeenAt(pr, p, h[i].runid, h[i].addr)
TableOk(pr, t, sd) ==
    /\ \A a \in DOMAIN t : \E p \in Others : EntryOf(pr, p, t[a], a, sd)
    /\ \A a, b \in DOMAIN t : t[a].runid = t[b].runid => a = b
SaidOk(sd) == IsFiniteSet(DOMAIN sd)

VotesInv == ProcessOk(process) /\ HelloOk(process, hello) /\ TableOk(process, sentinels, said) /\ SaidOk(said)

\* A number is of one Sentinel.
LEMMA OneOwner ==
    ASSUME NEW p \in Others, NEW q \in Others, NEW x, Belongs(x, p), Belongs(x, q)
    PROVE  p = q
<1>1. PICK k \in Nat : x = p + k * Apart
  BY DEF Belongs
<1>2. PICK j \in Nat : x = q + j * Apart
  BY DEF Belongs
<1>3. p \in Nat /\ q \in Nat /\ 1 <= p /\ 1 <= q /\ p <= Apart /\ q <= Apart /\ Apart \in Nat
  BY VotesAssumption
<1>4. ASSUME NEW m \in Nat, NEW n \in Nat, m < n PROVE m * Apart + Apart <= n * Apart
  <2>1. PICK d \in Nat : n = m + 1 + d
    <3>1. n - m - 1 \in Nat /\ n = m + 1 + (n - m - 1)
      BY <1>4
    <3> QED
      BY <3>1
  <2>2. n * Apart = m * Apart + Apart + d * Apart
    BY <2>1, <1>3
  <2>3. d * Apart \in Nat /\ m * Apart \in Nat
    BY <1>3
  <2> QED
    BY <2>2, <2>3, <1>3
<1>5. k * Apart \in Nat /\ j * Apart \in Nat
  BY <1>3
<1>6. CASE k < j
  BY <1>1, <1>2, <1>3, <1>4, <1>5, <1>6
<1>7. CASE j < k
  BY <1>1, <1>2, <1>3, <1>4, <1>5, <1>7
<1>8. CASE j = k
  BY <1>1, <1>2, <1>3, <1>5, <1>8
<1> QED
  BY <1>6, <1>7, <1>8

LEMMA BelongsFacts ==
    ASSUME NEW p \in Others
    PROVE  /\ Belongs(p, p)
           /\ \A x : Belongs(x, p) => Belongs(x + Apart, p) /\ x + Apart # p /\ x \in Nat /\ x + Apart \in Nat
<1>1. p \in Nat /\ 1 <= p /\ p <= Apart /\ Apart \in Nat
  BY VotesAssumption
<1>2. p = p + 0 * Apart
  BY <1>1
<1>3. ASSUME NEW x, Belongs(x, p) PROVE Belongs(x + Apart, p) /\ x + Apart # p /\ x \in Nat /\ x + Apart \in Nat
  <2>1. PICK k \in Nat : x = p + k * Apart
    BY <1>3 DEF Belongs
  <2>2. k * Apart \in Nat /\ (k + 1) * Apart = k * Apart + Apart
    BY <1>1
  <2>3. x + Apart = p + (k + 1) * Apart /\ k + 1 \in Nat
    BY <2>1, <2>2, <1>1
  <2>4. x \in Nat /\ x + Apart \in Nat /\ x + Apart # p
    BY <2>1, <2>2, <1>1
  <2> QED
    BY <2>3, <2>4 DEF Belongs
<1> QED
  BY <1>2, <1>3 DEF Belongs

\* A run id is the voter of one instance.
LEMMA VotersDiffer ==
    ASSUME NEW pr, NEW t, NEW sd, TableOk(pr, t, sd), NEW a \in DOMAIN t, NEW b \in DOMAIN t,
           NEW p \in Others, NEW q \in Others, NEW r,
           AnsweredBy(pr, p, a, t[a].runid, r), AnsweredBy(pr, q, b, t[b].runid, r)
    PROVE  a = b
<1>1. p = q
  BY OneOwner DEF AnsweredBy
<1>2. CASE r = p
  BY <1>1, <1>2 DEF AnsweredBy, TableOk
<1>3. CASE r # p
  BY <1>1, <1>3 DEF AnsweredBy
<1> QED
  BY <1>2, <1>3

\* Votes of the table are of as many run ids.
LEMMA VotesAreSaid ==
    ASSUME NEW pr, NEW t, NEW sd, TableOk(pr, t, sd), SaidOk(sd),
           NEW A \in SUBSET DOMAIN t, \A a \in A : HasVote(t[a]),
           NEW R \in SUBSET DOMAIN sd,
           \A a \in A, r \in DOMAIN sd : IsVoteOf(t[a], sd, r) => r \in R
    PROVE  Cardinality(A) \in Nat /\ Cardinality(R) \in Nat /\ Cardinality(A) <= Cardinality(R)
<1> DEFINE Voter(a, r) == /\ IsVoteOf(t[a], sd, r)
                          /\ \E p \in Others : AnsweredBy(pr, p, a, t[a].runid, r)
           f == [a \in A |-> CHOOSE r : Voter(a, r)]
<1>1. ASSUME NEW a \in A PROVE \E r : Voter(a, r)
  BY <1>1 DEF TableOk, EntryOf
<1>2. ASSUME NEW a \in A PROVE Voter(a, f[a]) /\ f[a] \in R
  <2>1. f[a] = CHOOSE r : Voter(a, r)
    BY <1>2
  <2>2. Voter(a, f[a])
    BY <1>1, <2>1
  <2>3. f[a] \in DOMAIN sd /\ IsVoteOf(t[a], sd, f[a])
    BY <2>2 DEF IsVoteOf
  <2> QED
    BY <2>2, <2>3
<1>3. ASSUME NEW a \in A, NEW b \in A, f[a] = f[b] PROVE a = b
  BY <1>2, <1>3, VotersDiffer
<1>4. f \in [A -> R]
  BY <1>2
<1> HIDE DEF f, Voter
<1>5. f \in Injection(A, R)
  BY <1>3, <1>4 DEF Injection, IsInjective
<1>6. IsFiniteSet(R)
  BY FS_Subset DEF SaidOk
<1>7. IsFiniteSet(A) /\ Cardinality(A) <= Cardinality(R)
  BY <1>5, <1>6, FS_Injection
<1> QED
  BY <1>6, <1>7, FS_CardinalityType

LEMMA VotesStart == VotesInit => VotesInv
<1> SUFFICES ASSUME VotesInit PROVE VotesInv
  OBVIOUS
<1>1. ProcessOk(process)
  <2>1. process = [p \in Others |-> [runid |-> p, addr |-> p]]
    BY DEF VotesInit
  <2>2. Others \subseteq Nat
    BY VotesAssumption
  <2> QED
    BY <2>1, <2>2, BelongsFacts DEF ProcessOk, HelloRecord, SeenAt
<1>2. hello = <<>> /\ DOMAIN sentinels = {} /\ DOMAIN said = {}
  BY DEF VotesInit
<1>3. HelloOk(process, hello)
  BY <1>2, EmptySeq DEF HelloOk
<1> QED
  BY <1>1, <1>2, <1>3, FS_EmptySet DEF VotesInv, TableOk, SaidOk

\* A hello message on the way.
LEMMA PublishKeeps == ASSUME VotesInv, NEW p \in Others, Publish(p) PROVE VotesInv'
<1>1. hello' = Append(hello, process[p]) /\ process' = process /\ sentinels' = sentinels /\ said' = said
  BY DEF Publish
<1>2. hello \in Seq(HelloRecord) /\ process[p] \in HelloRecord /\ SeenAt(process, p, process[p].runid, process[p].addr)
  BY DEF VotesInv, HelloOk, ProcessOk
<1>3. /\ hello' \in Seq(HelloRecord) /\ Len(hello) \in Nat /\ Len(hello') = Len(hello) + 1
      /\ \A i \in 1 .. Len(hello) : hello'[i] = hello[i]
      /\ hello'[Len(hello) + 1] = process[p]
  BY <1>1, <1>2, AppendProperties, LenProperties
<1>4. ASSUME NEW i \in 1 .. Len(hello') PROVE \E q \in Others : SeenAt(process, q, hello'[i].runid, hello'[i].addr)
  <2>1. CASE i = Len(hello) + 1
    BY <1>2, <1>3, <2>1
  <2>2. CASE i \in 1 .. Len(hello)
    BY <1>3, <2>2 DEF VotesInv, HelloOk
  <2> QED
    BY <1>3, <2>1, <2>2
<1>5. HelloOk(process, hello')
  BY <1>3, <1>4 DEF HelloOk
<1> QED
  BY <1>1, <1>5 DEF VotesInv

\* The table after a hello message: the instances with its address or its
\* run id are replaced by one that has not voted.
LEMMA ReceiveHelloKeeps == ASSUME VotesInv, ReceiveHello PROVE VotesInv'
<1> DEFINE h   == Head(hello)
           gone == removeMatchingSentinelsFromMaster(h)
           new == [runid |-> h.runid, disconnected |-> TRUE, down |-> FALSE, leader |-> NoVote, reply |-> <<>>]
           t   == Recorded(Without(sentinels, gone), h.addr, new)
<1>1. /\ hello # <<>> /\ hello' = Tail(hello) /\ process' = process /\ said' = said
      /\ sentinels' = sentinels \/ sentinels' = t
  BY DEF ReceiveHello
<1>2. hello \in Seq(HelloRecord) /\ Len(hello) \in Nat /\ Len(hello) >= 1 /\ h = hello[1]
  BY <1>1, HeadTailProperties, EmptySeq, LenProperties DEF VotesInv, HelloOk
<1>3. h \in HelloRecord
  BY <1>2
<1>4. PICK p \in Others : SeenAt(process, p, h.runid, h.addr)
  BY <1>2 DEF VotesInv, HelloOk
<1>5. HelloOk(process, hello')
  <2>1. /\ hello' \in Seq(HelloRecord) /\ Len(hello') = Len(hello) - 1
        /\ \A i \in 1 .. Len(hello') : hello'[i] = hello[i + 1]
    BY <1>1, <1>2, HeadTailProperties
  <2>2. ASSUME NEW i \in 1 .. Len(hello') PROVE \E q \in Others : SeenAt(process, q, hello'[i].runid, hello'[i].addr)
    <3>1. i + 1 \in 1 .. Len(hello) /\ hello'[i] = hello[i + 1]
      BY <1>2, <2>1
    <3> QED
      BY <3>1 DEF VotesInv, HelloOk
  <2> QED
    BY <2>1, <2>2 DEF HelloOk
<1> HIDE DEF h
<1>6. new \in OtherSentinel /\ ~HasVote(new) /\ new.runid = h.runid /\ new.reply = <<>>
  BY <1>3 DEF OtherSentinel, HelloRecord, HasVote
<1>7. EntryOf(process, p, new, h.addr, said)
  BY <1>4, <1>6 DEF EntryOf
<1> HIDE DEF new
<1>8. /\ DOMAIN t = {h.addr} \cup (DOMAIN sentinels \ gone)
      /\ t[h.addr] = new
      /\ \A a \in DOMAIN sentinels \ gone : t[a] = sentinels[a] /\ a # h.addr /\ sentinels[a].runid # h.runid
  <2>1. \A a \in DOMAIN sentinels \ gone : a # h.addr /\ sentinels[a].runid # h.runid
    BY DEF removeMatchingSentinelsFromMaster
  <2> HIDE DEF gone
  <2> QED
    BY <2>1 DEF Without, Recorded
<1> HIDE DEF t, gone
<1>9. TableOk(process, t, said)
  <2>1. ASSUME NEW a \in DOMAIN t PROVE \E q \in Others : EntryOf(process, q, t[a], a, said)
    <3>1. CASE a = h.addr
      BY <1>7, <1>8, <3>1
    <3>2. CASE a \in DOMAIN sentinels \ gone
      BY <1>8, <3>2 DEF VotesInv, TableOk
    <3> QED
      BY <1>8, <3>1, <3>2
  <2>2. ASSUME NEW a \in DOMAIN t, NEW b \in DOMAIN t, t[a].runid = t[b].runid PROVE a = b
    BY <1>6, <1>8, <2>2 DEF VotesInv, TableOk
  <2> QED
    BY <2>1, <2>2 DEF TableOk
<1> QED
  BY <1>1, <1>5, <1>9 DEF VotesInv

\* An answer is given by the run id that the Sentinel has.
LEMMA AnswerKeeps == ASSUME VotesInv, NEW p \in Others, Answer(p) PROVE VotesInv'
<1> DEFINE a == process[p].addr
           id == process[p].runid
<1>1. /\ a \in DOMAIN sentinels /\ process' = process /\ hello' = hello /\ said' = said
  BY DEF Answer
<1>2. PICK d \in BOOLEAN, l \in Vote :
         sentinels' = [sentinels EXCEPT ![a].reply = <<[runid |-> id, down |-> d, leader |-> l]>>]
  BY DEF Answer
<1> DEFINE r == [runid |-> id, down |-> d, leader |-> l]
           s == sentinels[a]
           u == [s EXCEPT !.reply = <<r>>]
<1>3. SeenAt(process, p, id, a) /\ id \in Nat
  BY DEF VotesInv, ProcessOk, HelloRecord
<1>4. PICK q \in Others : EntryOf(process, q, s, a, said)
  BY <1>1 DEF VotesInv, TableOk
<1>5. q = p
  BY <1>3, <1>4, OneOwner DEF EntryOf, SeenAt
<1>6. /\ u \in OtherSentinel /\ u.runid = s.runid /\ u.down = s.down /\ u.leader = s.leader
      /\ u.reply # <<>> /\ u.reply[1].runid = id
  <2>1. s \in OtherSentinel /\ r \in AnswerRecord /\ r.runid = id
    BY <1>3, <1>4 DEF EntryOf, AnswerRecord
  <2> HIDE DEF r, s, id
  <2>2. <<r>> # <<>> /\ <<r>>[1] = r
    OBVIOUS
  <2>3. u \in OtherSentinel /\ u.runid = s.runid /\ u.down = s.down /\ u.leader = s.leader /\ u.reply = <<r>>
    BY <2>1 DEF OtherSentinel
  <2> QED
    BY <2>1, <2>2, <2>3
<1>7. DOMAIN sentinels' = DOMAIN sentinels /\ sentinels'[a] = u /\ \A b \in DOMAIN sentinels \ {a} : sentinels'[b] = sentinels[b]
  BY <1>1, <1>2
<1>8. AnsweredBy(process, p, a, s.runid, id)
  <2>1. s.runid # p => id # p
    BY <1>4, <1>5 DEF EntryOf, SeenAt
  <2> QED
    BY <1>3, <2>1 DEF AnsweredBy, SeenAt
<1> HIDE DEF u, s, id, a
<1>9. EntryOf(process, p, u, a, said)
  BY <1>4, <1>5, <1>6, <1>8 DEF EntryOf, HasVote, IsVoteOf
<1>10. TableOk(process, sentinels', said)
  <2>1. ASSUME NEW b \in DOMAIN sentinels' PROVE \E o \in Others : EntryOf(process, o, sentinels'[b], b, said)
    <3>1. CASE b = a
      BY <1>7, <1>9, <3>1
    <3>2. CASE b # a
      BY <1>7, <3>2 DEF VotesInv, TableOk
    <3> QED
      BY <3>1, <3>2
  <2>2. \A b \in DOMAIN sentinels' : sentinels'[b].runid = sentinels[b].runid
    BY <1>6, <1>7 DEF s
  <2> QED
    BY <1>7, <2>1, <2>2 DEF VotesInv, TableOk
<1> QED
  BY <1>1, <1>10 DEF VotesInv

\* An answer that is received is recorded of the run id that gave it.
LEMMA ReceiveReplyKeeps ==
    ASSUME VotesInv, NEW a \in DOMAIN sentinels, sentinelReceiveIsMasterDownReply(a) PROVE VotesInv'
<1> DEFINE r == Head(sentinels[a].reply)
           s == sentinels[a]
           v == [down |-> r.down, leader |-> r.leader]
           u == [s EXCEPT !.reply = <<>>, !.down = r.down, !.leader = r.leader]
<1>1. /\ s.reply # <<>> /\ process' = process /\ hello' = hello
      /\ sentinels' = [sentinels EXCEPT ![a].reply = <<>>, ![a].down = r.down, ![a].leader = r.leader]
      /\ said' = Recorded(said, r.runid, v)
  BY DEF sentinelReceiveIsMasterDownReply
<1>2. PICK p \in Others : EntryOf(process, p, s, a, said)
  BY DEF VotesInv, TableOk
<1>3. r \in AnswerRecord /\ s.reply[1] = r
  <2>1. PICK x \in AnswerRecord : s.reply = <<x>>
    BY <1>1, <1>2 DEF EntryOf, OtherSentinel
  <2> QED
    BY <2>1
<1>4. AnsweredBy(process, p, a, s.runid, r.runid)
  BY <1>1, <1>2, <1>3 DEF EntryOf
<1>5. DOMAIN sentinels' = DOMAIN sentinels /\ sentinels'[a] = u /\ \A b \in DOMAIN sentinels \ {a} : sentinels'[b] = sentinels[b]
  BY <1>1
<1>6. DOMAIN said' = {r.runid} \cup DOMAIN said /\ said'[r.runid] = v /\ \A x \in DOMAIN said \ {r.runid} : said'[x] = said[x]
  BY <1>1 DEF Recorded
<1> HIDE DEF r
<1>7. u \in OtherSentinel /\ u.runid = s.runid /\ u.reply = <<>> /\ u.down = r.down /\ u.leader = r.leader
  BY <1>2, <1>3 DEF EntryOf, OtherSentinel, AnswerRecord
<1>8. IsVoteOf(u, said', r.runid)
  BY <1>6, <1>7 DEF IsVoteOf
<1>9. \A b \in DOMAIN sentinels' : sentinels'[b].runid = sentinels[b].runid
  BY <1>5, <1>7
<1> HIDE DEF u, v
<1>10. EntryOf(process, p, u, a, said')
  BY <1>2, <1>4, <1>7, <1>8 DEF EntryOf
<1>11. ASSUME NEW b \in DOMAIN sentinels, b # a PROVE \E q \in Others : EntryOf(process, q, sentinels[b], b, said')
  <2>1. PICK q \in Others : EntryOf(process, q, sentinels[b], b, said)
    BY <1>11 DEF VotesInv, TableOk
  <2>2. ASSUME NEW x, IsVoteOf(sentinels[b], said, x), AnsweredBy(process, q, b, sentinels[b].runid, x)
        PROVE  IsVoteOf(sentinels[b], said', x)
    <3>1. x # r.runid
      BY <1>4, <1>11, <2>2, VotersDiffer DEF VotesInv, s
    <3> QED
      BY <1>6, <2>2, <3>1 DEF IsVoteOf
  <2> QED
    BY <2>1, <2>2 DEF EntryOf
<1>12. TableOk(process, sentinels', said')
  <2>1. ASSUME NEW b \in DOMAIN sentinels' PROVE \E q \in Others : EntryOf(process, q, sentinels'[b], b, said')
    BY <1>5, <1>10, <1>11, <2>1
  <2> QED
    BY <1>5, <1>9, <2>1 DEF VotesInv, TableOk
<1>13. SaidOk(said')
  BY <1>6, FS_AddElement DEF VotesInv, SaidOk
<1> QED
  BY <1>1, <1>12, <1>13 DEF VotesInv

LEMMA TimerTableOk ==
    ASSUME VotesInv, NEW old \in SUBSET DOMAIN sentinels
    PROVE  TableOk(process, TimerTable(old), TimerSaid(old)) /\ SaidOk(TimerSaid(old))
<1> DEFINE t  == TimerTable(old)
           sd == TimerSaid(old)
<1>1. DOMAIN t = DOMAIN sentinels
  BY DEF TimerTable
<1>2. DOMAIN sd = DOMAIN said \ {sentinels[a].runid : a \in old} /\ \A x \in DOMAIN sd : sd[x] = said[x]
  BY DEF TimerSaid, Without
<1>3. ASSUME NEW a \in DOMAIN sentinels, NEW p \in Others, EntryOf(process, p, sentinels[a], a, said)
      PROVE  /\ t[a] \in OtherSentinel /\ t[a].runid = sentinels[a].runid /\ t[a].reply = sentinels[a].reply
             /\ HasVote(t[a]) => /\ a \notin old /\ HasVote(sentinels[a])
                                 /\ t[a].down = sentinels[a].down /\ t[a].leader = sentinels[a].leader
  <2>1. sentinels[a] \in OtherSentinel
    BY <1>3 DEF EntryOf
  <2>2. t[a] = [sentinels[a] EXCEPT !.down = @ /\ a \notin old, !.disconnected = FALSE,
                                    !.leader = IF a \in old THEN NoVote ELSE @]
    BY <1>3 DEF TimerTable
  <2>3. CASE a \in old
    <3>1. t[a] = [sentinels[a] EXCEPT !.down = FALSE, !.disconnected = FALSE, !.leader = NoVote]
      BY <2>1, <2>2, <2>3
    <3> HIDE DEF t
    <3> QED
      BY <2>1, <3>1 DEF OtherSentinel, HasVote
  <2>4. CASE a \notin old
    <3>1. t[a] = [sentinels[a] EXCEPT !.disconnected = FALSE]
      BY <2>1, <2>2, <2>4 DEF OtherSentinel
    <3> HIDE DEF t
    <3> QED
      BY <2>1, <2>4, <3>1 DEF OtherSentinel, HasVote
  <2> QED
    BY <2>3, <2>4
<1> HIDE DEF t, sd
<1>4. ASSUME NEW a \in DOMAIN sentinels PROVE \E p \in Others : EntryOf(process, p, t[a], a, sd)
  <2>1. PICK p \in Others : EntryOf(process, p, sentinels[a], a, said)
    BY <1>4 DEF VotesInv, TableOk
  <2>2. ASSUME NEW r, IsVoteOf(sentinels[a], said, r), AnsweredBy(process, p, a, sentinels[a].runid, r), a \notin old
        PROVE  r \in DOMAIN sd
    <3>1. SUFFICES ASSUME NEW b \in old, sentinels[b].runid = r PROVE FALSE
      BY <1>2, <2>2 DEF IsVoteOf
    <3>2. b \in DOMAIN sentinels /\ b # a
      BY <2>2, <3>1
    <3>3. PICK q \in Others : EntryOf(process, q, sentinels[b], b, said)
      BY <3>2 DEF VotesInv, TableOk
    <3>4. SeenAt(process, q, r, b)
      BY <3>1, <3>3 DEF EntryOf
    <3>5. q = p
      BY <2>2, <3>4, OneOwner DEF SeenAt, AnsweredBy
    <3>6. CASE r = p
      BY <2>2, <3>1, <3>2, <3>6 DEF AnsweredBy, VotesInv, TableOk
    <3>7. CASE r # p
      BY <2>2, <3>2, <3>4, <3>5, <3>7 DEF AnsweredBy, SeenAt
    <3> QED
      BY <3>6, <3>7
  <2>3. HasVote(t[a]) => \E r : IsVoteOf(t[a], sd, r) /\ AnsweredBy(process, p, a, t[a].runid, r)
    <3>1. SUFFICES ASSUME HasVote(t[a]) PROVE \E r : IsVoteOf(t[a], sd, r) /\ AnsweredBy(process, p, a, t[a].runid, r)
      OBVIOUS
    <3>2. PICK r : IsVoteOf(sentinels[a], said, r) /\ AnsweredBy(process, p, a, sentinels[a].runid, r)
      BY <1>3, <1>4, <2>1, <3>1 DEF EntryOf
    <3>3. r \in DOMAIN sd
      BY <1>3, <1>4, <2>1, <2>2, <3>1, <3>2
    <3>4. IsVoteOf(t[a], sd, r)
      BY <1>2, <1>3, <1>4, <2>1, <3>1, <3>2, <3>3 DEF IsVoteOf
    <3> QED
      BY <1>3, <1>4, <2>1, <3>2, <3>4
  <2> QED
    BY <1>3, <1>4, <2>1, <2>3 DEF EntryOf
<1>5. \A a \in DOMAIN sentinels : t[a].runid = sentinels[a].runid
  BY <1>3 DEF VotesInv, TableOk
<1>6. TableOk(process, t, sd)
  BY <1>1, <1>4, <1>5 DEF VotesInv, TableOk
<1>7. SaidOk(sd)
  BY <1>2, FS_Subset DEF VotesInv, SaidOk
<1> QED
  BY <1>6, <1>7 DEF t, sd

LEMMA VoteTimerIs ==
    ASSUME VoteTimer
    PROVE  /\ process' = process /\ hello' = hello
           /\ \E old \in SUBSET DOMAIN sentinels, fresh \in SUBSET Smaller, sdown, lags \in BOOLEAN :
                 /\ sentinels' = TimerTable(old) /\ said' = TimerSaid(old)
                 /\ masterIs'.odown = CheckObjectivelyDown(TimerTable(old), sdown)
                 /\ masterIs'.failover = "leader"
                      => \/ masterIs.failover = "leader"
                         \/ MyRunId \in sentinelGetObjectiveLeader(TimerTable(old), fresh, masterIs.failover # "none")
<1>1. PICK old \in SUBSET DOMAIN sentinels, fresh \in SUBSET Smaller, sdown \in BOOLEAN, lags \in BOOLEAN :
         LET t      == TimerTable(old)
             odown  == CheckObjectivelyDown(t, sdown)
             inprog == masterIs.failover # "none"
             won    == (odown \/ inprog) /\ MyRunId \in sentinelGetObjectiveLeader(t, fresh, inprog)
         IN  /\ sentinels' = t
             /\ masterIs' = [sdown |-> sdown, odown |-> odown,
                             failover |-> IF won /\ (inprog => lags) THEN "leader" ELSE masterIs.failover]
             /\ said' = TimerSaid(old)
  BY DEF VoteTimer
<1>2. /\ masterIs'.odown = CheckObjectivelyDown(TimerTable(old), sdown)
      /\ masterIs'.failover = "leader"
           => \/ masterIs.failover = "leader"
              \/ MyRunId \in sentinelGetObjectiveLeader(TimerTable(old), fresh, masterIs.failover # "none")
  BY <1>1
<1>3. process' = process /\ hello' = hello
  BY DEF VoteTimer
<1> QED
  BY <1>1, <1>2, <1>3

LEMMA VoteTimerKeeps == ASSUME VotesInv, VoteTimer PROVE VotesInv'
<1>1. process' = process /\ hello' = hello
  BY VoteTimerIs
<1>2. PICK old \in SUBSET DOMAIN sentinels : sentinels' = TimerTable(old) /\ said' = TimerSaid(old)
  BY VoteTimerIs
<1>3. TableOk(process, sentinels', said') /\ SaidOk(said')
  BY <1>2, TimerTableOk
<1> QED
  BY <1>1, <1>3 DEF VotesInv

\* Where p becomes new, the rest of what refers to it stays true.
LEMMA MovesKeep ==
    ASSUME ~MayMoveAgain, VotesInv, NEW p \in Others, NEW pr,
           \/ pr = [process EXCEPT ![p] = NewRunId(p)]
           \/ (HasNewRunId(p) => MayMoveAgain) /\ pr = [process EXCEPT ![p] = NewAddress(p)]
    PROVE  /\ ProcessOk(pr)
           /\ \A q \in Others : \A r, a : SeenAt(process, q, r, a) => SeenAt(pr, q, r, a)
           /\ \A q \in Others : \A r, a, id : AnsweredBy(process, q, a, id, r) => AnsweredBy(pr, q, a, id, r)
<1>1. process \in [Others -> HelloRecord] /\ SeenAt(process, p, process[p].runid, process[p].addr)
  BY DEF VotesInv, ProcessOk
<1>2. process[p] \in HelloRecord /\ process[p].runid \in Nat /\ process[p].addr \in Nat
  BY <1>1 DEF HelloRecord
<1> DEFINE r0 == process[p].runid
           a0 == process[p].addr
<1>3. /\ Belongs(r0 + Apart, p) /\ r0 + Apart # p /\ r0 + Apart \in Nat
      /\ Belongs(a0 + Apart, p) /\ a0 + Apart \in Nat
  BY <1>1, BelongsFacts DEF SeenAt
<1>4. \A q \in Others \ {p} : pr[q] = process[q]
  BY <1>1
<1>5. CASE pr = [process EXCEPT ![p] = NewRunId(p)]
  <2>1. pr[p] = [runid |-> r0 + Apart, addr |-> a0] /\ pr \in [Others -> HelloRecord]
    BY <1>1, <1>2, <1>3, <1>5 DEF NewRunId, HelloRecord
  <2>2. pr[p].runid # p /\ pr[p].addr = a0 /\ pr[p].runid = r0 + Apart
    BY <1>3, <2>1
  <2> HIDE DEF r0, a0
  <2>3. ASSUME NEW q \in Others, NEW r, NEW a, SeenAt(process, q, r, a) PROVE SeenAt(pr, q, r, a)
    BY <1>4, <2>2, <2>3 DEF SeenAt, a0
  <2>4. ASSUME NEW q \in Others, NEW r, NEW a, NEW id, AnsweredBy(process, q, a, id, r) PROVE AnsweredBy(pr, q, a, id, r)
    BY <1>4, <2>2, <2>4 DEF AnsweredBy, a0
  <2>5. SeenAt(pr, p, pr[p].runid, pr[p].addr)
    BY <1>1, <1>3, <2>2 DEF SeenAt, a0
  <2>6. \A q \in Others : SeenAt(pr, q, pr[q].runid, pr[q].addr)
    BY <1>4, <2>3, <2>5 DEF VotesInv, ProcessOk
  <2> QED
    BY <2>1, <2>3, <2>4, <2>6 DEF ProcessOk
<1>6. CASE (HasNewRunId(p) => MayMoveAgain) /\ pr = [process EXCEPT ![p] = NewAddress(p)]
  <2>1. r0 = p
    BY <1>6 DEF HasNewRunId
  <2>2. pr[p] = [runid |-> r0, addr |-> a0 + Apart] /\ pr \in [Others -> HelloRecord]
    BY <1>1, <1>2, <1>3, <1>6 DEF NewAddress, HelloRecord
  <2>3. pr[p].runid = p /\ pr[p].addr = a0 + Apart
    BY <2>1, <2>2
  <2> HIDE DEF a0
  <2>4. ASSUME NEW q \in Others, NEW r, NEW a, SeenAt(process, q, r, a) PROVE SeenAt(pr, q, r, a)
    BY <1>4, <2>1, <2>4 DEF SeenAt
  <2>5. ASSUME NEW q \in Others, NEW r, NEW a, NEW id, AnsweredBy(process, q, a, id, r) PROVE AnsweredBy(pr, q, a, id, r)
    BY <1>4, <2>1, <2>5 DEF AnsweredBy
  <2>6. SeenAt(pr, p, pr[p].runid, pr[p].addr)
    BY <1>3, <2>3, BelongsFacts DEF SeenAt
  <2>7. \A q \in Others : SeenAt(pr, q, pr[q].runid, pr[q].addr)
    BY <1>4, <2>4, <2>6 DEF VotesInv, ProcessOk
  <2> QED
    BY <2>2, <2>4, <2>5, <2>7 DEF ProcessOk
<1> QED
  BY <1>5, <1>6

\* A restart or a change of address; the link to the old address breaks.
LEMMA MoveKeeps == ASSUME ~MayMoveAgain, VotesInv, NEW p \in Others, Move(p) PROVE VotesInv'
<1> DEFINE c == process[p].addr
           u == [sentinels[c] EXCEPT !.disconnected = TRUE, !.reply = <<>>]
<1>1. /\ ProcessOk(process')
      /\ \A q \in Others : \A r, a : SeenAt(process, q, r, a) => SeenAt(process', q, r, a)
      /\ \A q \in Others : \A r, a, id : AnsweredBy(process, q, a, id, r) => AnsweredBy(process', q, a, id, r)
  <2>1. \/ process' = [process EXCEPT ![p] = NewRunId(p)]
        \/ (HasNewRunId(p) => MayMoveAgain) /\ process' = [process EXCEPT ![p] = NewAddress(p)]
    BY DEF Move
  <2> QED
    BY <2>1, MovesKeep
<1>2. hello' = hello /\ said' = said
  BY DEF Move
<1>3. HelloOk(process', hello')
  BY <1>1, <1>2 DEF VotesInv, HelloOk
<1>4. DOMAIN sentinels' = DOMAIN sentinels /\ \A a \in DOMAIN sentinels : sentinels'[a] = IF a = c THEN u ELSE sentinels[a]
  BY DEF Move
<1>5. ASSUME NEW a \in DOMAIN sentinels
      PROVE  sentinels'[a].runid = sentinels[a].runid /\ \E q \in Others : EntryOf(process', q, sentinels'[a], a, said)
  <2>1. PICK q \in Others : EntryOf(process, q, sentinels[a], a, said)
    BY <1>5 DEF VotesInv, TableOk
  <2>2. EntryOf(process', q, sentinels[a], a, said)
    BY <1>1, <2>1 DEF EntryOf
  <2>3. CASE a # c
    BY <1>4, <1>5, <2>2, <2>3
  <2>4. CASE a = c
    <3>1. sentinels'[a] = u /\ sentinels[a] \in OtherSentinel
      BY <1>4, <1>5, <2>1, <2>4 DEF EntryOf
    <3>2. /\ u \in OtherSentinel /\ u.runid = sentinels[a].runid /\ u.down = sentinels[a].down
          /\ u.leader = sentinels[a].leader /\ u.reply = <<>>
      BY <2>4, <3>1 DEF OtherSentinel
    <3> HIDE DEF u
    <3>3. EntryOf(process', q, u, a, said)
      BY <2>2, <3>2 DEF EntryOf, HasVote, IsVoteOf
    <3> QED
      BY <3>1, <3>2, <3>3
  <2> QED
    BY <2>3, <2>4
<1>6. TableOk(process', sentinels', said')
  BY <1>2, <1>4, <1>5 DEF VotesInv, TableOk
<1> QED
  BY <1>1, <1>2, <1>3, <1>6 DEF VotesInv

LEMMA VotesSteps == ASSUME ~MayMoveAgain PROVE VotesInv /\ [VotesNext]_voteVars => VotesInv'
<1> SUFFICES ASSUME VotesInv, [VotesNext]_voteVars PROVE VotesInv'
  OBVIOUS
<1>1. CASE UNCHANGED voteVars
  BY <1>1 DEF voteVars, VotesInv
<1>2. CASE FailoverChanges
  BY <1>2 DEF FailoverChanges, VotesInv
<1> QED
  BY <1>1, <1>2, ReceiveHelloKeeps, VoteTimerKeeps, PublishKeeps, AnswerKeeps, MoveKeeps, ReceiveReplyKeeps DEF VotesNext

(* What QuorumIsReal says of a step.                                       *)
CountsAreReal ==
    /\ masterIs'.odown /\ ~masterIs.odown => 1 + Saying' >= QUORUM
    /\ masterIs'.failover = "leader" /\ masterIs.failover # "leader" => 1 + ForMe' >= QUORUM

LEMMA TimerCounts == ASSUME VotesInv, VoteTimer PROVE CountsAreReal
<1>1. PICK old \in SUBSET DOMAIN sentinels, fresh \in SUBSET Smaller, sdown \in BOOLEAN, lags \in BOOLEAN :
         /\ sentinels' = TimerTable(old) /\ said' = TimerSaid(old)
         /\ masterIs'.odown = CheckObjectivelyDown(TimerTable(old), sdown)
         /\ masterIs'.failover = "leader"
              => \/ masterIs.failover = "leader"
                 \/ MyRunId \in sentinelGetObjectiveLeader(TimerTable(old), fresh, masterIs.failover # "none")
  BY VoteTimerIs
<1> DEFINE t  == TimerTable(old)
           sd == TimerSaid(old)
<1>2. TableOk(process, t, sd) /\ SaidOk(sd)
  BY TimerTableOk
<1>3. QUORUM \in Nat
  BY VotesAssumption
<1> HIDE DEF t, sd
<1>4. ASSUME CheckObjectivelyDown(t, sdown) PROVE 1 + Saying' >= QUORUM
  <2> DEFINE A == {a \in DOMAIN t : t[a].down}
             R == {r \in DOMAIN sd : sd[r].down}
  <2>1. \A a \in A, r \in DOMAIN sd : IsVoteOf(t[a], sd, r) => r \in R
    BY DEF IsVoteOf
  <2>2. \A a \in A : HasVote(t[a])
    BY DEF HasVote
  <2>3. Cardinality(A) \in Nat /\ Cardinality(R) \in Nat /\ Cardinality(A) <= Cardinality(R)
    BY <1>2, <2>1, <2>2, VotesAreSaid
  <2>4. 1 + Cardinality(A) >= QUORUM
    BY <1>4 DEF CheckObjectivelyDown
  <2>5. Saying' = Cardinality(R)
    BY <1>1 DEF Saying, sd
  <2> QED
    BY <1>3, <2>3, <2>4, <2>5
<1>5. ASSUME NEW inprog, MyRunId \in sentinelGetObjectiveLeader(t, fresh, inprog) PROVE 1 + ForMe' >= QUORUM
  <2> DEFINE voters == {a \in DOMAIN t : t[a].leader # NoVote /\ (inprog \/ t[a].down)}
             A == {a \in voters : t[a].leader = MyRunId}
             R == {r \in DOMAIN sd : sd[r].leader = MyRunId}
             mine == sentinelGetSubjectiveLeader(t, fresh)
  <2>1. \A a \in A, r \in DOMAIN sd : IsVoteOf(t[a], sd, r) => r \in R
    BY DEF IsVoteOf
  <2>2. \A a \in A : HasVote(t[a])
    BY DEF HasVote
  <2>3. Cardinality(A) \in Nat /\ Cardinality(R) \in Nat /\ Cardinality(A) <= Cardinality(R)
    BY <1>2, <2>1, <2>2, VotesAreSaid
  <2>4. Cardinality(A) + (IF mine = MyRunId THEN 1 ELSE 0) >= QUORUM
    BY <1>5 DEF sentinelGetObjectiveLeader
  <2>5. ForMe' = Cardinality(R)
    BY <1>1 DEF ForMe, sd
  <2> HIDE DEF A, R, mine
  <2> QED
    BY <1>3, <2>3, <2>4, <2>5
<1> QED
  BY <1>1, <1>4, <1>5 DEF CountsAreReal, t

LEMMA OnlyTheTimerCounts == [VotesNext]_voteVars => VoteTimer \/ CountsAreReal
<1> SUFFICES ASSUME [VotesNext]_voteVars, ~VoteTimer PROVE CountsAreReal
  OBVIOUS
<1>1. CASE masterIs' = masterIs
  BY <1>1 DEF CountsAreReal
<1>2. CASE FailoverChanges
  <2>1. masterIs' = [masterIs EXCEPT !.failover = IF @ = "none" THEN "observer" ELSE "none"]
    BY <1>2 DEF FailoverChanges
  <2>2. masterIs'.failover # "leader" \/ masterIs' = masterIs
    BY <2>1
  <2>3. masterIs'.odown = masterIs.odown
    BY <2>1
  <2> QED
    BY <2>2, <2>3 DEF CountsAreReal
<1>3. CASE ReceiveHello \/ UNCHANGED voteVars
  BY <1>1, <1>3 DEF ReceiveHello, voteVars
<1>4. CASE \E p \in Others : Publish(p) \/ Answer(p) \/ Move(p)
  BY <1>1, <1>4 DEF Publish, Answer, Move
<1>5. CASE \E a \in DOMAIN sentinels : sentinelReceiveIsMasterDownReply(a)
  BY <1>1, <1>5 DEF sentinelReceiveIsMasterDownReply
<1> QED
  BY <1>2, <1>3, <1>4, <1>5 DEF VotesNext

\* When a master is taken for objectively down, and when a failover starts,
\* a quorum of run ids really said so, however many Sentinels there are and
\* in whatever order hello messages, answers, restarts and moves come
\* (sentinelCheckObjectivelyDown, sentinelGetObjectiveLeader,
\* removeMatchingSentinelsFromMaster).  A Sentinel that restarted does not
\* move to another address: it would be counted at both.
THEOREM CountedSentinelsAreReal ==
    ASSUME ~MayMoveAgain
    PROVE  VotesInit /\ [][VotesNext]_voteVars => QuorumIsReal
<1>1. VotesInv /\ [VotesNext]_voteVars => VotesInv' /\ [CountsAreReal]_voteVars
  BY VotesSteps, OnlyTheTimerCounts, TimerCounts
<1> QED
  BY <1>1, VotesStart, PTL DEF QuorumIsReal, CountsAreReal

\* The same of the server in which the counting of votes is one of the parts
\* (sentinelGetObjectiveLeader).
THEOREM ServerCountsRealSentinels ==
    ASSUME ~MayMoveAgain
    PROVE  ServerSpec => QuorumIsReal
<1>1. ServerInit => VotesInv
  BY VotesStart DEF ServerInit
<1>2. [ServerNext]_serverPartVars => [VotesNext]_voteVars
  BY DEF ServerNext, Runs, serverPartVars
<1>3. VotesInv /\ [VotesNext]_voteVars => VotesInv' /\ [CountsAreReal]_voteVars
  BY VotesSteps, OnlyTheTimerCounts, TimerCounts
<1> QED
  BY <1>1, <1>2, <1>3, PTL DEF ServerSpec, QuorumIsReal, CountsAreReal

----------------------------------------------------------------------------
\* In the server in which the input of a client is one of the parts, the
\* commands that are executed are those that the client sent, once and in
\* their order, for any cut of the stream into reads (readQueryFromClient,
\* processInputBuffer).
THEOREM ServerExecutesRequests ==
    ServerSpec => []RequestsAreExecuted
<1>1. ServerInit => InputInv
  BY InputBegins DEF ServerInit
<1>2. [ServerNext]_serverPartVars => [InNext]_inVars
  BY DEF ServerNext, Runs, serverPartVars
<1>3. InputInv /\ [InNext]_inVars => InputInv'
  BY InputStep
<1>4. InputInv => RequestsAreExecuted
  BY InputInvSays DEF RequestsAreExecuted
<1> QED
  BY <1>1, <1>2, <1>3, <1>4, PTL DEF ServerSpec

=============================================================================
