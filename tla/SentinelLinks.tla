--------------------------- MODULE SentinelLinks ---------------------------
(***************************************************************************)
(* The two connections a Sentinel keeps to an instance (sentinel.c): cc    *)
(* for commands and, to a master, pc for Pub/Sub; the commands that wait   *)
(* for their reply, and the counter that limits them.  hiredis runs the    *)
(* callbacks of the waiting commands, without a reply, when a connection   *)
(* breaks; a connection that the Sentinel kills no longer knows the        *)
(* instance, and its callbacks do nothing.                                 *)
(***************************************************************************)
EXTENDS Integers, Sequences, FiniteSets, SequencesExt

CONSTANTS
    MAX_PENDING_COMMANDS,
    MaxCommands     \* commands sent on the command link

VARIABLES
    kind,     \* "master", "slave" or "sentinel"
    auth,     \* a password is configured
    linkRi,   \* flags, cc, pc and pending_commands of the sentinelRedisInstance, and
              \* whether the reply to AUTH is awaited on pc
    waiting,  \* commands sent on cc that wait for their reply
    issued    \* commands sent on cc so far

linkVars == <<kind, auth, linkRi, waiting, issued>>

(* The handlers work on a copy of the state.                               *)
LinkState == [ri |-> linkRi, waiting |-> waiting, issued |-> issued]
LinkBecomes(s) ==
    /\ linkRi' = s.ri
    /\ waiting' = s.waiting
    /\ issued' = s.issued
    /\ issued' <= MaxCommands
    /\ -linkRi'.pending <= MaxCommands
    /\ UNCHANGED <<kind, auth>>

LinkHas(s, f) == f \in s.ri.flags

(* redisAsyncCommand on cc, with and without pending_commands++.           *)
Send(s, cmd) == [s EXCEPT !.waiting = Append(@, cmd), !.issued = @ + 1]
SendCounted(s, cmd) == [Send(s, cmd) EXCEPT !.ri.pending = @ + 1]

-----------------------------------------------------------------------------
KillCc(s) == IF ~s.ri.cc THEN s ELSE
             [s EXCEPT !.ri.cc = FALSE, !.ri.pending = 0, !.ri.flags = @ \cup {"DISCONNECTED"}, !.waiting = <<>>]

(* A bug that forgets that the instance is not connected any more.         *)
KillPcSilently(s) == [s EXCEPT !.ri.pc = FALSE, !.ri.pcAuth = FALSE]

KillPc(s) == IF ~s.ri.pc THEN s ELSE
             [s EXCEPT !.ri.pc = FALSE, !.ri.pcAuth = FALSE, !.ri.flags = @ \cup {"DISCONNECTED"}]

sentinelSendAuthIfNeeded(s) == IF auth THEN Send(s, "AUTH") ELSE s

(* up: the connections for which connect, and SUBSCRIBE, succeed.          *)
ReconnectCc(s, up) ==
    IF s.ri.cc \/ "cc" \notin up THEN s
    ELSE sentinelSendAuthIfNeeded([s EXCEPT !.ri.cc = TRUE])
ReconnectPc(s, up) ==
    IF s.ri.pc \/ "pc" \notin up \/ kind # "master" THEN s
    ELSE [s EXCEPT !.ri.pc = TRUE, !.ri.pcAuth = auth]
ClearDisconnected(s) ==
    IF s.ri.cc /\ (kind # "master" \/ s.ri.pc) THEN [s EXCEPT !.ri.flags = @ \ {"DISCONNECTED"}] ELSE s
sentinelReconnectInstance(s, up) ==
    IF LinkHas(s, "DISCONNECTED") THEN ClearDisconnected(ReconnectPc(ReconnectCc(s, up), up)) ELSE s

(* A bug that counts a command that was not sent.                          *)
PingCountsTwice(s, due) ==
    IF LinkHas(s, "DISCONNECTED") \/ s.ri.pending >= MAX_PENDING_COMMANDS \/ due = "nothing" THEN s
    ELSE [SendCounted(s, due) EXCEPT !.ri.pending = @ + 1]

(* due: the first of INFO, PING and PUBLISH whose period has passed.       *)
sentinelPingInstance(s, due) ==
    IF LinkHas(s, "DISCONNECTED") \/ s.ri.pending >= MAX_PENDING_COMMANDS \/ due = "nothing" THEN s
    ELSE SendCounted(s, due)
Due == {"nothing", "PING"} \cup (IF kind = "sentinel" THEN {} ELSE {"INFO"})
                           \cup (IF kind = "master" THEN {"PUBLISH"} ELSE {})

(* SENTINEL is-master-down-by-addr.                                        *)
AskMasterState(s, ask) ==
    IF ask /\ kind = "sentinel" /\ ~LinkHas(s, "DISCONNECTED") THEN SendCounted(s, "ASK") ELSE s

(* idle: the connections without activity; down: no valid reply.           *)
CheckSubjectivelyDown(s, idle, down) ==
    LET c == IF "cc" \in idle THEN KillCc(s) ELSE s
        p == IF "pc" \in idle THEN KillPc(c) ELSE c
    IN  [p EXCEPT !.ri.flags = IF down THEN @ \cup {"S_DOWN"} ELSE @ \ {"S_DOWN", "SCRIPT_KILL_SENT"}]

(* sentinelHandleRedisInstance; in TILT mode its second half is left out.  *)
LinkTimer ==
    \E up, idle \in SUBSET {"cc", "pc"}, due \in Due, ask, down, tilted \in BOOLEAN :
       LET s == AskMasterState(sentinelPingInstance(sentinelReconnectInstance(LinkState, up), due), ask)
       IN  LinkBecomes(IF tilted THEN s ELSE CheckSubjectivelyDown(s, idle, down))

-----------------------------------------------------------------------------
(* The callback of the first waiting command.  A reply to PING may be      *)
(* BUSY.                                                                   *)
Callback(s, busy) ==
    LET cmd  == Head(s.waiting)
        done == [s EXCEPT !.waiting = Tail(@), !.ri.pending = @ - 1]
        kill == cmd = "PING" /\ busy /\ LinkHas(s, "S_DOWN") /\ ~LinkHas(s, "SCRIPT_KILL_SENT")
    IN  IF kill THEN [Send(done, "SCRIPT KILL") EXCEPT !.ri.flags = @ \cup {"SCRIPT_KILL_SENT"}] ELSE done

Reply ==
    /\ waiting # <<>>
    /\ \E busy \in BOOLEAN : LinkBecomes(Callback(LinkState, busy))

PcAuthReply(s) == IF s.ri.pcAuth THEN [s EXCEPT !.ri.pcAuth = FALSE, !.ri.pending = @ - 1] ELSE s
PcReply == linkRi.pcAuth /\ LinkBecomes(PcAuthReply(LinkState))

(* An INFO reply may start SLAVEOF for a slave that is to be demoted; the  *)
(* failover sends it counted, or not when it ends or is aborted.           *)
SendSlaveOf ==
    /\ kind = "slave" /\ ~LinkHas(LinkState, "DISCONNECTED")
    /\ LinkBecomes(SendCounted(LinkState, "SLAVEOF")) \/ LinkBecomes(Send(LinkState, "SLAVEOF"))

(* sentinelDisconnectInstanceFromContext: the connection broke.            *)
CcBreaks ==
    /\ linkRi.cc
    /\ LinkBecomes([LinkState EXCEPT !.ri.cc = FALSE, !.ri.pending = @ - Len(waiting), !.waiting = <<>>,
                                     !.ri.flags = @ \cup {"DISCONNECTED"}])
PcBreaks ==
    /\ linkRi.pc
    /\ LinkBecomes([PcAuthReply(LinkState) EXCEPT !.ri.pc = FALSE, !.ri.flags = @ \cup {"DISCONNECTED"}])

(* sentinelResetMaster closes both.                                        *)
LinkReset ==
    /\ kind = "master"
    /\ LinkBecomes([KillPc(KillCc(LinkState)) EXCEPT !.ri.flags = @ \cap {"DISCONNECTED"}])

LinksInit ==
    /\ kind \in {"master", "slave", "sentinel"}
    /\ auth \in BOOLEAN
    /\ linkRi = [flags |-> {"DISCONNECTED"}, cc |-> FALSE, pc |-> FALSE, pcAuth |-> FALSE, pending |-> 0]
    /\ waiting = <<>>
    /\ issued = 0

LinksNext == LinkTimer \/ Reply \/ PcReply \/ SendSlaveOf \/ CcBreaks \/ PcBreaks \/ LinkReset

-----------------------------------------------------------------------------
(* An instance that is not flagged as disconnected has the connections     *)
(* whose contexts the code uses without a check.  The counter is never     *)
(* above the number of commands that wait, so that an instance that        *)
(* answers is always pinged again.                                         *)
LinksAreUsable ==
    /\ ~LinkHas(LinkState, "DISCONNECTED") => linkRi.cc /\ (kind = "master" => linkRi.pc)
    /\ ~linkRi.cc => waiting = <<>>
    /\ linkRi.pending <= Len(waiting)

(* pending_commands is the "Number of commands sent waiting for a reply":  *)
(* it is not, since the reply to a command that was not counted is         *)
(* subtracted.                                                             *)
PendingIsExact == linkRi.pending = Len(waiting)

=============================================================================
