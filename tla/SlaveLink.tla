----------------------------- MODULE SlaveLink -----------------------------
(***************************************************************************)
(* The slave's side of the replication link (replication.c): the state     *)
(* repl_state that the cron, the handlers of the socket and SLAVEOF        *)
(* advance, the socket and the handlers installed on it, the temporary     *)
(* file of the transfer, and the append only file that is started again    *)
(* when the transfer is complete.                                          *)
(***************************************************************************)
EXTENDS Integers, Sequences, FiniteSets, FiniteSetsExt

CONSTANTS
    Hosts,          \* masters SLAVEOF may name
    AofEnabled,     \* appendonly yes
    MaxSockets      \* connections to masters

NoHost == "none"

ASSUME SlaveLinkAssumption == NoHost \notin Hosts

NoSocket == -1
Handshake == {"CONNECTING", "RECEIVE_PONG"}
AOF_RETRY == 10

VARIABLES
    masterhost,      \* server.masterhost, NoHost for NULL
    repl_state,      \* server.repl_state
    sockets,         \* open sockets: the host they lead to and the handlers installed on them
    repl_transfer_s, \* the socket of the handshake and of the transfer
    master,          \* the socket of server.master, NoSocket for NULL
    tmpfile,         \* the temporary file of a transfer exists
    size,            \* the length of the transfer is known
    opened,          \* sockets opened so far
    aofOn,           \* server.aof_state is not AOF_OFF
    exited           \* the process called exit

slaveVars == <<masterhost, repl_state, sockets, repl_transfer_s, master, tmpfile, size, opened, aofOn, exited>>

(* The handlers work on a copy of the state.                               *)
Slave == [host |-> masterhost, state |-> repl_state, sockets |-> sockets, s |-> repl_transfer_s,
          master |-> master, tmp |-> tmpfile, size |-> size, opened |-> opened]
SlaveBecomes(x) ==
    /\ masterhost' = x.host
    /\ repl_state' = x.state
    /\ sockets' = x.sockets
    /\ repl_transfer_s' = x.s
    /\ master' = x.master
    /\ tmpfile' = x.tmp
    /\ size' = x.size
    /\ opened' = x.opened

Close(x, id) == [x EXCEPT !.sockets = [i \in DOMAIN @ \ {id} |-> @[i]]]
DeleteFileEvent(x, id, ev) == IF id \notin DOMAIN x.sockets THEN x ELSE [x EXCEPT !.sockets[id].events = @ \ ev]

-----------------------------------------------------------------------------
replicationAbortSyncTransfer(x) ==
    [Close(x, x.s) EXCEPT !.tmp = FALSE, !.state = "CONNECT"]

undoConnectWithMaster(x) == [Close(x, x.s) EXCEPT !.s = NoSocket, !.state = "CONNECT"]

(* A bug that leaves the transfer that is under way alone.                 *)
CancelOnlyHandshake(x) == IF x.state \in Handshake THEN undoConnectWithMaster(x) ELSE x

cancelReplicationHandshake(x) ==
    IF x.state = "TRANSFER" THEN replicationAbortSyncTransfer(x)
    ELSE IF x.state \in Handshake THEN undoConnectWithMaster(x) ELSE x

(* freeClient of the master.                                               *)
FreeMaster(x) ==
    IF x.master = NoSocket THEN x
    ELSE [Close(x, x.master) EXCEPT !.master = NoSocket, !.state = "CONNECT"]

SlaveofNoOne ==
    /\ masterhost # NoHost
    /\ SlaveBecomes([cancelReplicationHandshake(FreeMaster([Slave EXCEPT !.host = NoHost])) EXCEPT !.state = "NONE"])
    /\ UNCHANGED <<aofOn, exited>>

SlaveofHost(h) ==
    /\ masterhost # h
    /\ SlaveBecomes([cancelReplicationHandshake(FreeMaster([Slave EXCEPT !.host = h])) EXCEPT !.state = "CONNECT"])
    /\ UNCHANGED <<aofOn, exited>>

-----------------------------------------------------------------------------
(* The link of the connected master breaks, or its client is killed.       *)
MasterLost ==
    /\ master # NoSocket
    /\ SlaveBecomes(FreeMaster(Slave))
    /\ UNCHANGED <<aofOn, exited>>

connectWithMaster(x) ==
    [x EXCEPT !.opened = @ + 1, !.s = x.opened + 1, !.state = "CONNECTING",
              !.sockets = [i \in DOMAIN @ \cup {x.opened + 1} |->
                              IF i = x.opened + 1 THEN [host |-> x.host, events |-> {"sync_r", "sync_w"}] ELSE @[i]]]

(* replicationCron: timeouts, then a new connection if there is none.      *)
(* late: nothing came for repl_timeout; up: the connect can be started.    *)
Timeout(x) ==
    CASE x.state \in Handshake   -> undoConnectWithMaster(x)
      [] x.state = "TRANSFER"    -> replicationAbortSyncTransfer(x)
      [] x.state = "CONNECTED"   -> FreeMaster(x)
      [] OTHER                   -> x
replicationCron ==
    /\ \E late, up \in BOOLEAN :
          LET x == IF late /\ masterhost # NoHost THEN Timeout(Slave) ELSE Slave
          IN  /\ x.state = "CONNECT" /\ up => x.opened < MaxSockets
              /\ SlaveBecomes(IF x.state = "CONNECT" /\ up THEN connectWithMaster(x) ELSE x)
    /\ UNCHANGED <<aofOn, exited>>

-----------------------------------------------------------------------------
(* The handler of a socket that is being connected.  The error path closes *)
(* the socket the event is of.                                             *)
SyncFails(x, id) == [Close(x, id) EXCEPT !.s = NoSocket, !.state = "CONNECT"]

(* The PONG was read; AUTH, REPLCONF and SYNC follow at once.              *)
StartTransfer(x, id) ==
    [x EXCEPT !.sockets[id].events = (@ \ {"sync_r"}) \cup {"payload"},
              !.state = "TRANSFER", !.size = FALSE, !.tmp = TRUE]

syncWithMaster(id) ==
    /\ sockets[id].events \cap {"sync_r", "sync_w"} # {}
    /\ \E ok \in BOOLEAN :
          SlaveBecomes(
              IF repl_state = "NONE" THEN Close(Slave, id)
              ELSE IF ~ok THEN SyncFails(Slave, id)
              ELSE IF repl_state = "CONNECTING"
                   THEN [DeleteFileEvent(Slave, id, {"sync_w"}) EXCEPT !.state = "RECEIVE_PONG"]
              ELSE StartTransfer(Slave, id))
    /\ UNCHANGED <<aofOn, exited>>

(* The last bytes came and the snapshot is loaded.                         *)
SyncFinished(x, id) ==
    [DeleteFileEvent(x, id, {"payload"}) EXCEPT !.tmp = FALSE, !.master = x.s, !.state = "CONNECTED"]

(* The append only file is stopped and started again; fails counts the     *)
(* attempts that fail.  The loop and the test after it use the same        *)
(* counter.                                                                *)
RetryLeft(fails) == IF fails = AOF_RETRY THEN -1 ELSE AOF_RETRY - fails - 1

readSyncBulkPayload(id) ==
    /\ "payload" \in sockets[id].events
    /\ \/ SlaveBecomes(replicationAbortSyncTransfer(Slave)) /\ UNCHANGED <<aofOn, exited>>
       \/ ~size /\ SlaveBecomes([Slave EXCEPT !.size = TRUE]) /\ UNCHANGED <<aofOn, exited>>
       \/ \E fails \in IF aofOn THEN 0 .. AOF_RETRY ELSE {0} :
             /\ size
             /\ SlaveBecomes(SyncFinished(Slave, id))
             /\ aofOn' = (aofOn /\ fails < AOF_RETRY)
             /\ exited' = (aofOn /\ RetryLeft(fails) = 0)

SlaveInit ==
    /\ masterhost \in Hosts \cup {NoHost}
    /\ repl_state = IF masterhost = NoHost THEN "NONE" ELSE "CONNECT"
    /\ sockets = <<>>
    /\ repl_transfer_s = NoSocket
    /\ master = NoSocket
    /\ tmpfile = FALSE
    /\ size = FALSE
    /\ opened = 0
    /\ aofOn = AofEnabled
    /\ exited = FALSE

SlaveNext ==
    /\ ~exited
    /\ \/ SlaveofNoOne \/ MasterLost \/ replicationCron
       \/ \E h \in Hosts : SlaveofHost(h)
       \/ \E id \in DOMAIN sockets : syncWithMaster(id) \/ readSyncBulkPayload(id)

-----------------------------------------------------------------------------
(* Whatever the order of SLAVEOF, timeouts, lost links and late events:    *)
(* no socket is left open but the one in use, which leads to the master    *)
(* that is configured; it has the handlers of its state, and the           *)
(* temporary file exists only during a transfer.                           *)
LinkIsOfItsMaster ==
    LET Events == CASE repl_state = "CONNECTING"   -> {"sync_r", "sync_w"}
                    [] repl_state = "RECEIVE_PONG" -> {"sync_r"}
                    [] repl_state = "TRANSFER"     -> {"payload"}
                    [] OTHER                       -> {}
        inUse  == CASE repl_state \in Handshake \cup {"TRANSFER"} -> {repl_transfer_s}
                    [] repl_state = "CONNECTED"                   -> {master}
                    [] OTHER                                      -> {}
    IN  /\ DOMAIN sockets = inUse
        /\ \A id \in inUse : sockets[id].host = masterhost /\ sockets[id].events = Events
        /\ (master # NoSocket) <=> (repl_state = "CONNECTED")
        /\ (masterhost = NoHost) <=> (repl_state = "NONE")
        /\ tmpfile <=> (repl_state = "TRANSFER")

(* "the AOF can't be turned on. Exiting now.": a slave that was configured *)
(* with an append only file and finished a synchronisation goes on only    *)
(* with the file turned on.                                                *)
AofOnOrExit == AofEnabled /\ ~exited => aofOn

=============================================================================
