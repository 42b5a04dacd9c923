---------------------------- MODULE Replication ----------------------------
(***************************************************************************)
(* Master-slave replication (replication.c, with the parts of rdb.c,       *)
(* redis.c and networking.c it drives): a master that executes writes,     *)
(* saves its dataset with a forked child, and brings slaves up to date by  *)
(* sending them an RDB file followed by the commands executed since the    *)
(* snapshot was taken.                                                     *)
(*                                                                         *)
(* A dataset is the sequence of write commands that built it, so that two  *)
(* datasets are equal exactly when the same commands ran in the same       *)
(* databases in the same order.  A command is <<db, n>>: the n-th write of *)
(* the run, executed in database db.                                       *)
(*                                                                         *)
(* A member of Slave is a slave instance and its client structure on the   *)
(* master.  A connection the slave has already given up, but which the     *)
(* master has not yet closed, keeps its replstate until FreeClient.        *)
(***************************************************************************)
EXTENDS Integers, Sequences

CONSTANTS
    Slave,       \* the slave instances
    DB,          \* the databases clients write to
    StopWrites,  \* stop-writes-on-bgsave-error, with a save point configured
    Faults,      \* the kinds of fault that may happen
    MaxWrites,   \* bound: writes executed by the master
    MaxFaults    \* bound: faults of all kinds

FaultKind == {"link",         \* a connection is closed or reset
              "childerr",     \* the saving child exits with status 1
              "signal",       \* the saving child is killed by a signal
              "fork",         \* fork() fails
              "open",         \* dump.rdb cannot be opened or copied
              "slavebgsave"}  \* a background save of a slave's own fails

\* Database 0 is the one every new connection starts in.
ASSUME ReplicationAssumption ==
    /\ 0 \in DB
    /\ DB \subseteq Nat
    /\ StopWrites \in BOOLEAN
    /\ Faults \subseteq FaultKind
    /\ MaxWrites \in Nat
    /\ MaxFaults \in Nat

VARIABLES
    data,               \* the master's dataset
    child,              \* the saving child, "none" while rdb_child_pid is -1
    snap,               \* the dataset the child saw when it was forked
    rdb,                \* content of dump.rdb on the master
    lastbgsave_status,  \* outcome of the master's last save
    replstate,          \* per slave: its state on the master
    slaveseldb,         \* per slave: the database the master believes selected
    outdb,              \* per slave: the database selected by the queued output
    reply,              \* per slave: output buffer of its client on the master
    repldb,             \* per slave: content of the file behind repldbfd
    bulksent,           \* per slave: the whole RDB file is in the socket ...
    bulk,               \* ... and its content
    sock,               \* per slave: commands in the socket
    repl_state,         \* slave side: state of the link
    sdata,              \* slave side: dataset
    sbgsave_status,     \* slave side: outcome of its own last save
    faults              \* number of faults so far

childVars == <<child, snap, rdb, lastbgsave_status>>
clientVars == <<replstate, slaveseldb, outdb, reply, repldb>>
slaveVars == <<bulksent, bulk, sock, repl_state, sdata, sbgsave_status>>
vars == <<data, childVars, clientVars, slaveVars, faults>>

Command == DB \X Nat
Dataset == Seq(Command)

ReplState == {"NONE", "WAIT_BGSAVE_START", "WAIT_BGSAVE_END", "SEND_BULK",
              "ONLINE"}

TypeOK ==
    /\ data \in Dataset
    /\ child \in {"none", "running", "ok", "err", "signaled"}
    /\ snap \in Dataset
    /\ rdb \in Dataset
    /\ lastbgsave_status \in {"OK", "ERR"}
    /\ replstate \in [Slave -> ReplState]
    /\ slaveseldb \in [Slave -> DB]
    /\ outdb \in [Slave -> DB]
    /\ reply \in [Slave -> Dataset]
    /\ repldb \in [Slave -> Dataset]
    /\ bulksent \in [Slave -> BOOLEAN]
    /\ bulk \in [Slave -> Dataset]
    /\ sock \in [Slave -> Dataset]
    /\ repl_state \in [Slave -> {"CONNECT", "TRANSFER", "CONNECTED"}]
    /\ sdata \in [Slave -> Dataset]
    /\ sbgsave_status \in [Slave -> {"OK", "ERR"}]
    /\ faults \in Nat

Init ==
    /\ data = <<>>
    /\ child = "none"
    /\ snap = <<>>
    /\ rdb = <<>>
    /\ lastbgsave_status = "OK"
    /\ replstate = [s \in Slave |-> "NONE"]
    /\ slaveseldb = [s \in Slave |-> 0]
    /\ outdb = [s \in Slave |-> 0]
    /\ reply = [s \in Slave |-> <<>>]
    /\ repldb = [s \in Slave |-> <<>>]
    /\ bulksent = [s \in Slave |-> FALSE]
    /\ bulk = [s \in Slave |-> <<>>]
    /\ sock = [s \in Slave |-> <<>>]
    /\ repl_state = [s \in Slave |-> "CONNECT"]
    /\ sdata = [s \in Slave |-> <<>>]
    /\ sbgsave_status = [s \in Slave |-> "OK"]
    /\ faults = 0

----------------------------------------------------------------------------
(* Faults *)

MayFail(kind) == kind \in Faults /\ faults < MaxFaults
CountFault == faults' = faults + 1

----------------------------------------------------------------------------
(* Commands on the master *)

\* Mutant: a slave is fed only once its BGSAVE has ended.
FedAfterBgsave(s) == replstate[s] \in {"SEND_BULK", "ONLINE"}

\* Members of server.slaves that replicationFeedSlaves() queues output for.
Fed(s) == replstate[s] \notin {"NONE", "WAIT_BGSAVE_START"}

\* Mutant: slaveseldb is not updated after a SELECT was queued.
FeedWithoutSeldb(dictid, n) ==
    /\ outdb' =
         [s \in Slave |-> IF Fed(s) /\ slaveseldb[s] # dictid
                          THEN dictid ELSE outdb[s]]
    /\ reply' =
         [s \in Slave |-> IF Fed(s) THEN Append(reply[s], <<outdb'[s], n>>)
                          ELSE reply[s]]
    /\ UNCHANGED slaveseldb

\* Queue the n-th write for the slaves.  SELECT is queued in front of it only
\* when slaveseldb differs from the database of the command.
replicationFeedSlaves(dictid, n) ==
    /\ slaveseldb' =
         [s \in Slave |-> IF Fed(s) THEN dictid ELSE slaveseldb[s]]
    /\ outdb' =
         [s \in Slave |-> IF Fed(s) /\ slaveseldb[s] # dictid
                          THEN dictid ELSE outdb[s]]
    /\ reply' =
         [s \in Slave |-> IF Fed(s) THEN Append(reply[s], <<outdb'[s], n>>)
                          ELSE reply[s]]

\* A client's write: processCommand() lets it through, call() executes it and
\* propagates it.
WriteCommand(dictid) ==
    /\ Len(data) < MaxWrites
    /\ StopWrites => lastbgsave_status = "OK"
    /\ data' = Append(data, <<dictid, Len(data) + 1>>)
    /\ replicationFeedSlaves(dictid, Len(data) + 1)
    /\ UNCHANGED <<childVars, replstate, repldb, slaveVars, faults>>

\* SAVE, in the foreground.
SaveCommand ==
    /\ child = "none"
    /\ rdb' = data
    /\ lastbgsave_status' = "OK"
    /\ UNCHANGED <<data, child, snap, clientVars, slaveVars, faults>>

\* fork() succeeded: the child holds a copy of the dataset as it is now.
rdbSaveBackground ==
    /\ child' = "running"
    /\ snap' = data

\* BGSAVE, or a save point reached in serverCron().
BgsaveCommand ==
    /\ child = "none"
    /\ rdbSaveBackground
    /\ UNCHANGED <<data, rdb, lastbgsave_status, clientVars, slaveVars, faults>>

----------------------------------------------------------------------------
(* The saving child *)

\* The child renames its temporary file to dump.rdb, then exits with status 0.
ChildSucceeds ==
    /\ child = "running"
    /\ child' = "ok"
    /\ rdb' = snap
    /\ UNCHANGED <<data, snap, lastbgsave_status, clientVars, slaveVars, faults>>

ChildFails ==
    /\ child = "running"
    /\ \/ MayFail("childerr") /\ child' = "err"
       \/ MayFail("signal") /\ child' = "signaled"
    /\ CountFault
    /\ UNCHANGED <<data, snap, rdb, lastbgsave_status, clientVars, slaveVars>>

\* The status handed to updateSlavesWaitingBgsave(): WEXITSTATUS() of a child
\* killed by a signal is 0.
BgsaveErr == IF child = "err" THEN "ERR" ELSE "OK"

\* Mutant: a slave waiting for a BGSAVE to start is left as it is.
StateAfterBgsaveNoStart(s, unopened) ==
    IF replstate[s] # "WAIT_BGSAVE_END" THEN replstate[s]
    ELSE IF BgsaveErr = "OK" /\ s \notin unopened THEN "SEND_BULK" ELSE "NONE"

\* What updateSlavesWaitingBgsave() makes of one slave when the files of the
\* slaves in "unopened" cannot be opened.  "NONE" stands for freeClient().
StateAfterBgsave(s, unopened) ==
    CASE replstate[s] = "WAIT_BGSAVE_START" -> "WAIT_BGSAVE_END"
      [] replstate[s] = "WAIT_BGSAVE_END" /\ BgsaveErr = "OK"
         /\ s \notin unopened -> "SEND_BULK"
      [] replstate[s] = "WAIT_BGSAVE_END"
         /\ (BgsaveErr # "OK" \/ s \in unopened) -> "NONE"
      [] OTHER -> replstate[s]

\* Mutant: the output buffer survives the client.
freeClientsKeepReply(gone, files) ==
    /\ slaveseldb' = [s \in Slave |-> IF s \in gone THEN 0 ELSE slaveseldb[s]]
    /\ outdb' = [s \in Slave |-> IF s \in gone THEN 0 ELSE outdb[s]]
    /\ repldb' = [s \in Slave |-> IF s \in gone THEN <<>> ELSE files[s]]
    /\ UNCHANGED reply

\* freeClient() of the slaves in "gone": their output is dropped with them.  The
\* others keep the files in "files" open.
freeClients(gone, files) ==
    /\ slaveseldb' = [s \in Slave |-> IF s \in gone THEN 0 ELSE slaveseldb[s]]
    /\ outdb' = [s \in Slave |-> IF s \in gone THEN 0 ELSE outdb[s]]
    /\ reply' = [s \in Slave |-> IF s \in gone THEN <<>> ELSE reply[s]]
    /\ repldb' = [s \in Slave |-> IF s \in gone THEN <<>> ELSE files[s]]

updateSlavesWaitingBgsave(unopened) ==
    /\ replstate' = [s \in Slave |-> StateAfterBgsave(s, unopened)]
    /\ freeClients({s \in Slave : replstate'[s] = "NONE"},
                   [s \in Slave |-> IF /\ replstate[s] # "SEND_BULK"
                                      /\ replstate'[s] = "SEND_BULK"
                                   THEN rdb ELSE repldb[s]])

\* Mutant: a BGSAVE is started for the slaves whose BGSAVE has ended.
SlavesWaitingEnd == {s \in Slave : replstate[s] = "WAIT_BGSAVE_END"}

\* The slaves that make updateSlavesWaitingBgsave() set startbgsave.
SlavesWaitingStart == {s \in Slave : replstate[s] = "WAIT_BGSAVE_START"}

\* serverCron() collects the child and calls backgroundSaveDoneHandler().  When
\* some slave was waiting for a BGSAVE to start, another one is started; the
\* slaves were moved to WAIT_BGSAVE_END before, so that its failure frees none
\* of them.
backgroundSaveDoneHandler ==
    /\ child \in {"ok", "err", "signaled"}
    /\ lastbgsave_status' = IF child = "ok" THEN "OK" ELSE "ERR"
    /\ \E unopened \in SUBSET {s \in Slave : replstate[s] = "WAIT_BGSAVE_END"} :
         /\ unopened # {} => MayFail("open")
         /\ updateSlavesWaitingBgsave(unopened)
         /\ \/ SlavesWaitingStart = {} /\ child' = "none" /\ snap' = <<>>
            \/ SlavesWaitingStart # {} /\ rdbSaveBackground
            \/ /\ SlavesWaitingStart # {}
               /\ MayFail("fork")
               /\ child' = "none"
               /\ snap' = <<>>
         /\ faults' = IF \/ unopened # {}
                         \/ SlavesWaitingStart # {} /\ child' = "none"
                      THEN faults + 1 ELSE faults
    /\ UNCHANGED <<data, rdb, slaveVars>>

----------------------------------------------------------------------------
(* Slave clients on the master *)

\* Mutant: a joining slave starts with an empty output buffer.
JoinWithoutBuffer(s, t) == UNCHANGED <<reply, outdb>>

copyClientOutputBuffer(s, t) ==
    /\ reply' = [reply EXCEPT ![s] = reply[t]]
    /\ outdb' = [outdb EXCEPT ![s] = outdb[t]]

\* SYNC from slave s, taken together with the slave's entering of the TRANSFER
\* state that precedes it.  When fork() fails the master answers with an error
\* and both sides stay as they were.  A slave that joins while another one is
\* already registering differences takes a copy of its output, but slaveseldb is
\* that of a new client.
SyncCommand(s) ==
    /\ replstate[s] = "NONE"
    /\ repl_state[s] = "CONNECT"
    /\ repl_state' = [repl_state EXCEPT ![s] = "TRANSFER"]
    /\ slaveseldb' = [slaveseldb EXCEPT ![s] = 0]
    /\ \/ /\ child # "none"
          /\ \E t \in Slave :
               /\ replstate[t] = "WAIT_BGSAVE_END"
               /\ copyClientOutputBuffer(s, t)
          /\ replstate' = [replstate EXCEPT ![s] = "WAIT_BGSAVE_END"]
          /\ UNCHANGED <<child, snap>>
       \/ /\ child # "none"
          /\ \A t \in Slave : replstate[t] # "WAIT_BGSAVE_END"
          /\ replstate' = [replstate EXCEPT ![s] = "WAIT_BGSAVE_START"]
          /\ UNCHANGED <<reply, outdb, child, snap>>
       \/ /\ child = "none"
          /\ rdbSaveBackground
          /\ replstate' = [replstate EXCEPT ![s] = "WAIT_BGSAVE_END"]
          /\ UNCHANGED <<reply, outdb>>
    /\ UNCHANGED <<data, rdb, lastbgsave_status, repldb, bulksent, bulk, sock,
                   sdata, sbgsave_status, faults>>

\* The last chunk of the RDB file goes into the socket; the chunks before it
\* change nothing that is modelled.
sendBulkToSlave(s) ==
    /\ replstate[s] = "SEND_BULK"
    /\ replstate' = [replstate EXCEPT ![s] = "ONLINE"]
    /\ repldb' = [repldb EXCEPT ![s] = <<>>]
    /\ IF repl_state[s] = "TRANSFER"
       THEN /\ bulksent' = [bulksent EXCEPT ![s] = TRUE]
            /\ bulk' = [bulk EXCEPT ![s] = repldb[s]]
       ELSE UNCHANGED <<bulksent, bulk>>
    /\ UNCHANGED <<data, childVars, slaveseldb, outdb, reply, sock, repl_state,
                   sdata, sbgsave_status, faults>>

\* One command of the output buffer goes into the socket.  It is lost when the
\* slave has already closed its end.
sendReplyToClient(s) ==
    /\ replstate[s] = "ONLINE"
    /\ reply[s] # <<>>
    /\ reply' = [reply EXCEPT ![s] = Tail(reply[s])]
    /\ sock' = IF repl_state[s] = "CONNECT" THEN sock
               ELSE [sock EXCEPT ![s] = Append(sock[s], Head(reply[s]))]
    /\ UNCHANGED <<data, childVars, replstate, slaveseldb, outdb, repldb,
                   bulksent, bulk, repl_state, sdata, sbgsave_status, faults>>

\* Mutant: the master does not notice that the slave closed its end.
OnlyOnError(s) == repl_state[s] # "CONNECT" /\ MayFail("link") /\ CountFault

\* The slave closed its end, or a timeout, an output buffer limit, CLIENT KILL
\* or a write error makes the master close the connection.
ReasonToFree(s) ==
    \/ repl_state[s] = "CONNECT" /\ UNCHANGED faults
    \/ repl_state[s] # "CONNECT" /\ MayFail("link") /\ CountFault

FreeClient(s) ==
    /\ replstate[s] # "NONE"
    /\ ReasonToFree(s)
    /\ replstate' = [replstate EXCEPT ![s] = "NONE"]
    /\ freeClients({s}, repldb)
    /\ UNCHANGED <<data, childVars, slaveVars>>

----------------------------------------------------------------------------
(* The slave instance *)

\* emptyDb() and rdbLoad().
LoadedDataset(s) == bulk[s]

\* The whole RDB file has arrived: the slave drops its dataset and loads it.
readSyncBulkPayload(s) ==
    /\ repl_state[s] = "TRANSFER"
    /\ bulksent[s]
    /\ sdata' = [sdata EXCEPT ![s] = LoadedDataset(s)]
    /\ repl_state' = [repl_state EXCEPT ![s] = "CONNECTED"]
    /\ bulksent' = [bulksent EXCEPT ![s] = FALSE]
    /\ bulk' = [bulk EXCEPT ![s] = <<>>]
    /\ UNCHANGED <<data, childVars, clientVars, sock, sbgsave_status, faults>>

\* A command from the master reaches processCommand() on the slave, which
\* refuses writes, those of the master included, after a failed save of its own.
ProcessStream(s) ==
    /\ repl_state[s] = "CONNECTED"
    /\ sock[s] # <<>>
    /\ sock' = [sock EXCEPT ![s] = Tail(sock[s])]
    /\ sdata' = IF StopWrites /\ sbgsave_status[s] = "ERR" THEN sdata
                ELSE [sdata EXCEPT ![s] = Append(sdata[s], Head(sock[s]))]
    /\ UNCHANGED <<data, childVars, clientVars, bulksent, bulk, repl_state,
                   sbgsave_status, faults>>

\* The slave's end of the connection closes: the master closed it, a read error
\* or a timeout.  What was in the socket is lost.
LinkLost(s) ==
    /\ repl_state[s] # "CONNECT"
    /\ \/ replstate[s] = "NONE" /\ UNCHANGED faults
       \/ replstate[s] # "NONE" /\ MayFail("link") /\ CountFault
    /\ repl_state' = [repl_state EXCEPT ![s] = "CONNECT"]
    /\ bulksent' = [bulksent EXCEPT ![s] = FALSE]
    /\ bulk' = [bulk EXCEPT ![s] = <<>>]
    /\ sock' = [sock EXCEPT ![s] = <<>>]
    /\ UNCHANGED <<data, childVars, clientVars, sdata, sbgsave_status>>

\* A save of the slave's own ends.
SlaveBgsaveDone(s) ==
    /\ \/ /\ sbgsave_status[s] = "OK"
          /\ MayFail("slavebgsave")
          /\ CountFault
          /\ sbgsave_status' = [sbgsave_status EXCEPT ![s] = "ERR"]
       \/ /\ sbgsave_status[s] = "ERR"
          /\ sbgsave_status' = [sbgsave_status EXCEPT ![s] = "OK"]
          /\ UNCHANGED faults
    /\ UNCHANGED <<data, childVars, clientVars, bulksent, bulk, sock, repl_state,
                   sdata>>

----------------------------------------------------------------------------

Next ==
    \/ \E d \in DB : WriteCommand(d)
    \/ SaveCommand
    \/ BgsaveCommand
    \/ ChildSucceeds
    \/ ChildFails
    \/ backgroundSaveDoneHandler
    \/ \E s \in Slave :
         \/ SyncCommand(s)
         \/ sendBulkToSlave(s)
         \/ sendReplyToClient(s)
         \/ FreeClient(s)
         \/ readSyncBulkPayload(s)
         \/ ProcessStream(s)
         \/ LinkLost(s)
         \/ SlaveBgsaveDone(s)

Spec == Init /\ [][Next]_vars

(* The event loop of each process serves every ready connection and runs      *)
(* serverCron() forever; a saving child ends; a slave whose link is down       *)
(* reconnects (replicationCron()); a closed connection is noticed by the peer. *)
(* Clients need not write, save, or run SAVE and BGSAVE.                       *)
Fairness ==
    /\ WF_vars(ChildSucceeds \/ ChildFails)
    /\ WF_vars(backgroundSaveDoneHandler)
    /\ \A s \in Slave :
         /\ WF_vars(SyncCommand(s))
         /\ WF_vars(sendBulkToSlave(s))
         /\ WF_vars(sendReplyToClient(s))
         /\ WF_vars(readSyncBulkPayload(s))
         /\ WF_vars(ProcessStream(s))
         /\ WF_vars(repl_state[s] = "CONNECT" /\ FreeClient(s))
         /\ WF_vars(replstate[s] = "NONE" /\ LinkLost(s))

FairSpec == Spec /\ Fairness

----------------------------------------------------------------------------
(* Safety *)

Prefix(p, q) == Len(p) <= Len(q) /\ p = SubSeq(q, 1, Len(p))

\* What the slave will hold once it has received everything the master has
\* queued for it or is about to send it.
WillHold(s) ==
    CASE replstate[s] = "WAIT_BGSAVE_END" -> snap \o reply[s]
      [] replstate[s] = "SEND_BULK" -> repldb[s] \o reply[s]
      [] replstate[s] = "ONLINE" /\ bulksent[s] -> bulk[s] \o sock[s] \o reply[s]
      [] OTHER -> sdata[s] \o sock[s] \o reply[s]

\* The connection of a slave the master feeds has not been closed by the slave.
Attached(s) == Fed(s) /\ repl_state[s] # "CONNECT"

\* Whatever the master keeps for an attached slave (the snapshot being saved,
\* the open RDB file, the output buffer, the socket) adds up to the master's
\* dataset: replicationFeedSlaves() and the joins of syncCommand() and
\* updateSlavesWaitingBgsave() lose and repeat no write.
NothingLostInFlight == \A s \in Slave : Attached(s) => WillHold(s) = data

\* The dataset of a slave is one the master has had: no write is skipped,
\* repeated, reordered or executed in another database.
CopyIsPrefix == \A s \in Slave : Prefix(sdata[s], data)

\* A slave waits for the start of a BGSAVE only while a child is running whose
\* end will start it (redis.h:230).
StartHasChild ==
    \A s \in Slave : replstate[s] = "WAIT_BGSAVE_START" => child # "none"

\* A slave waits for the end of a BGSAVE only while a child exists whose end
\* will start its transfer (redis.h:231).
EndHasChild ==
    \A s \in Slave : replstate[s] = "WAIT_BGSAVE_END" => child # "none"

\* No slave is forgotten: syncCommand(), a BGSAVE of somebody else and the end
\* of a child, with the next child that updateSlavesWaitingBgsave() starts for
\* those that came too late, leave no slave that waits for a child nobody runs.
\* Only a fork() that fails there does (replication.c:425).
WaitersHaveChild == StartHasChild /\ EndHasChild

\* The RDB file is transferred to a slave only after the background saving it
\* waits for has succeeded (replication.c:367).
TransferOnlyAfterSuccess ==
    [][\A s \in Slave : /\ replstate[s] = "WAIT_BGSAVE_END"
                        /\ replstate'[s] = "SEND_BULK"
                        => child = "ok"]_vars

\* The inductive invariant behind NothingLostInFlight and CopyIsPrefix, for one
\* database and without the faults the code does not survive.  First, dump.rdb
\* holds the snapshot of a child that has exited with status 0.
ChildInv ==
    /\ child = "ok" => rdb = snap
    /\ child # "signaled"

\* What the master keeps for a slave that has not been sent the RDB file yet.
ClientInv(s) ==
    /\ replstate[s] \in {"NONE", "WAIT_BGSAVE_START"} => reply[s] = <<>>
    /\ replstate[s] = "WAIT_BGSAVE_END" =>
         child # "none" /\ snap \o reply[s] = data
    /\ replstate[s] = "SEND_BULK" => repldb[s] \o reply[s] = data

\* How far the transfer is, seen from the slave's end of the connection.
LinkInv(s) ==
    /\ bulksent[s] => repl_state[s] = "TRANSFER"
    /\ ~bulksent[s] /\ repl_state[s] # "CONNECTED" => sock[s] = <<>>
    /\ replstate[s] \in {"WAIT_BGSAVE_START", "WAIT_BGSAVE_END", "SEND_BULK"} =>
         ~bulksent[s] /\ repl_state[s] # "CONNECTED"
    /\ replstate[s] = "ONLINE" /\ repl_state[s] = "TRANSFER" => bulksent[s]

\* What is in the socket continues the slave's dataset, and so does the output
\* buffer while the master feeds the slave.
StreamInv(s) ==
    /\ Prefix(sdata[s], data)
    /\ bulksent[s] =>
         /\ Prefix(bulk[s] \o sock[s], data)
         /\ replstate[s] = "ONLINE" => (bulk[s] \o sock[s]) \o reply[s] = data
    /\ repl_state[s] = "CONNECTED" =>
         /\ Prefix(sdata[s] \o sock[s], data)
         /\ replstate[s] = "ONLINE" => (sdata[s] \o sock[s]) \o reply[s] = data
    /\ sbgsave_status[s] = "OK"

IInv ==
    /\ TypeOK
    /\ ChildInv
    /\ \A s \in Slave : ClientInv(s) /\ LinkInv(s) /\ StreamInv(s)

\* What the slaves execute is what AsyncReplication describes.
Abstract == INSTANCE AsyncReplication
              WITH log <- data,
                   copy <- sdata,
                   linked <- [s \in Slave |-> repl_state[s] = "CONNECTED"]

ImplementsAsyncReplication == Abstract!Spec

----------------------------------------------------------------------------
(* Liveness *)

\* A slave that waits for a BGSAVE is eventually sent the RDB file, or its
\* connection is closed (so that it can retry).
WaiterIsServed ==
    \A s \in Slave :
        replstate[s] \in {"WAIT_BGSAVE_START", "WAIT_BGSAVE_END"}
            ~> replstate[s] \in {"SEND_BULK", "ONLINE", "NONE"}

\* Once writes and faults stop, every slave ends up an exact copy of the master
\* with its link up.
EventuallyCopies ==
    <>[](\A s \in Slave : repl_state[s] = "CONNECTED" /\ sdata[s] = data)
=============================================================================
