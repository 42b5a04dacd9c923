------------------------------ MODULE Sentinel ------------------------------
(***************************************************************************)
(* One Sentinel process that monitors one master (sentinel.c): what it     *)
(* learns from INFO, when it takes an instance for down, and the failover  *)
(* it drives as the leader or follows as an observer.  Around it are the   *)
(* Redis instances, that crash, restart and obey the SLAVEOF commands      *)
(* which arrive, and other Sentinels that promote slaves as they like.     *)
(*                                                                         *)
(* The time of the code appears only in comparisons of a timer with a      *)
(* period.  A comparison can come out either way whenever it is evaluated  *)
(* (a reply may be late, a process may be stopped), except that it is      *)
(* false right after the timer was reset.  What the other Sentinels vote   *)
(* is the subject of SentinelVotes: here the agreement on O_DOWN and the   *)
(* leader are any.                                                         *)
(***************************************************************************)
EXTENDS Integers, Sequences, FiniteSets, FiniteSetsExt, SequencesExt

CONSTANTS
    Addr,           \* addresses of instances, numbers; the order is that of their run ids
    Priority(_),    \* slave_priority of an instance
    PARALLEL_SYNCS, \* slaves reconfigured at the same time
    MaxFaults,      \* instances that stop answering, crashes, lost links, promotions by others,
                    \* clock jumps, commands of the user
    MaxFlight       \* SLAVEOF commands on the way to an instance

ASSUME SentinelAssumption ==
    /\ Addr \subseteq Nat \ {0} /\ Addr # {} /\ IsFiniteSet(Addr)
    /\ \A a \in Addr : Priority(a) \in Nat
    /\ PARALLEL_SYNCS \in Nat /\ MaxFaults \in Nat /\ MaxFlight \in Nat

None == 0
FirstMaster == Min(Addr)

VARIABLES
    v,        \* the sentinelRedisInstance of the master, with its slaves
    tilt,     \* sentinel.tilt
    cmds,     \* SLAVEOF commands sent to each instance: the address of the new master, or None
    role,     \* the master of each instance, None for a master
    alive,    \* instances that run
    runid,    \* how often each instance was started
    faults,   \* faults so far
    seen      \* history: the instances that reported to be a master since the last switch

vars == <<v, tilt, cmds, role, alive, runid, faults, seen>>

States == {"NONE", "WAIT_START", "SELECT_SLAVE", "SEND_SLAVEOF_NOONE", "WAIT_PROMOTION",
           "RECONF_SLAVES", "DETECT_END", "UPDATE_CONFIG"}
MasterFlags == {"DISCONNECTED", "S_DOWN", "O_DOWN", "FAILOVER_IN_PROGRESS", "I_AM_THE_LEADER", "FORCE_FAILOVER"}
SlaveFlags == {"DISCONNECTED", "S_DOWN", "PROMOTED", "RECONF_SENT", "RECONF_INPROG", "RECONF_DONE", "DEMOTE"}
Reconf == {"RECONF_SENT", "RECONF_INPROG", "RECONF_DONE"}

-----------------------------------------------------------------------------
(* Instances.  m is the record of the master; m.sent collects the SLAVEOF  *)
(* commands of the handler that runs.                                      *)

Slaves(m) == DOMAIN m.slaves
Has(m, a, f) == f \in m.slaves[a].flags
Flag(m, a, f) == [m EXCEPT !.slaves[a].flags = @ \cup f]
Unflag(m, a, f) == [m EXCEPT !.slaves[a].flags = @ \ f]

(* One for each address, unless there is one.                              *)
createSentinelRedisInstance(m, addrs, flags) ==
    LET ri == [flags |-> flags \cup {"DISCONNECTED"}, runid |-> None]
    IN  [m EXCEPT !.slaves = [a \in Slaves(m) \cup addrs |-> IF a \in Slaves(m) THEN m.slaves[a] ELSE ri]]

sentinelAddFlagsToDictOfRedisInstances(m, f) ==
    [m EXCEPT !.slaves = [a \in Slaves(m) |-> [m.slaves[a] EXCEPT !.flags = @ \cup f]]]
sentinelDelFlagsToDictOfRedisInstances(m, f) ==
    [m EXCEPT !.slaves = [a \in Slaves(m) |-> [m.slaves[a] EXCEPT !.flags = @ \ f]]]

(* A bug that forgets the failover but not its state.                      *)
ResetKeepsState(m) == [m EXCEPT !.flags = {"DISCONNECTED"}, !.promoted = None, !.slaves = <<>>]

(* The slaves are forgotten, and with them their links.                    *)
sentinelResetMaster(m) ==
    [m EXCEPT !.flags = {"DISCONNECTED"}, !.fstate = "NONE", !.promoted = None, !.slaves = <<>>]
sentinelResetMasterAndChangeAddress(m, a) == [sentinelResetMaster(m) EXCEPT !.addr = a]

SendSlaveof(m, a, to) == [m EXCEPT !.sent = @ \cup {<<a, to>>}]

-----------------------------------------------------------------------------
(* Failover *)

(* The one with the lowest priority and, of these, with the lowest run id; *)
(* one whose run id is not known comes last.  stale are the slaves whose   *)
(* last PONG or INFO is too old, or whose link with the master was down    *)
(* for too long.                                                           *)
sentinelSelectSlave(m, stale) ==
    LET good  == {a \in Slaves(m) \ stale :
                     Priority(a) # 0 /\ m.slaves[a].flags \cap {"S_DOWN", "DISCONNECTED", "DEMOTE"} = {}}
        best  == {a \in good : Priority(a) = Min({Priority(b) : b \in good})}
        known == {a \in best : m.slaves[a].runid # None}
    IN  CASE good = {}  -> None
          [] known # {} -> Min(known)
          [] OTHER      -> CHOOSE a \in best : TRUE

(* A bug that forgets the flags of the slaves it has reconfigured.         *)
AbortKeepsFlags(m) ==
    [m EXCEPT !.flags = @ \ {"FAILOVER_IN_PROGRESS", "I_AM_THE_LEADER", "FORCE_FAILOVER"},
              !.fstate = "NONE", !.promoted = None,
              !.slaves = [a \in DOMAIN @ |-> [@[a] EXCEPT !.flags = @ \ {"PROMOTED"}]]]

(* The leader sends the slaves back to the old master.                     *)
sentinelAbortFailover(m) ==
    LET undo == {a \in Slaves(m) : /\ "I_AM_THE_LEADER" \in m.flags
                                   /\ ~Has(m, a, "DISCONNECTED")
                                   /\ m.slaves[a].flags \cap (Reconf \cup {"PROMOTED"}) # {}}
    IN  [m EXCEPT !.flags = @ \ {"FAILOVER_IN_PROGRESS", "I_AM_THE_LEADER", "FORCE_FAILOVER"},
                  !.fstate = "NONE", !.promoted = None,
                  !.slaves = [a \in Slaves(m) |->
                      [m.slaves[a] EXCEPT !.flags = @ \ (Reconf \cup IF a = m.promoted THEN {"PROMOTED"} ELSE {})]],
                  !.sent = @ \cup {<<a, m.addr>> : a \in undo}]

sentinelStartFailover(m, state) ==
    [m EXCEPT !.fstate = state, !.flags = @ \cup {"FAILOVER_IN_PROGRESS", "I_AM_THE_LEADER"}]

(* won: this Sentinel is the objective leader.  An observer takes over a   *)
(* failover that lags.                                                     *)
sentinelStartFailoverIfNeeded(m, won, el, stale) ==
    IF ~won \/ m.flags \cap {"O_DOWN", "FAILOVER_IN_PROGRESS"} = {} THEN m
    ELSE IF "FAILOVER_IN_PROGRESS" \in m.flags
         THEN IF "I_AM_THE_LEADER" \in m.flags \/ "quarter" \notin el THEN m
              ELSE sentinelDelFlagsToDictOfRedisInstances(sentinelStartFailover(m, "RECONF_SLAVES"), {"RECONF_SENT"})
         ELSE IF sentinelSelectSlave(m, stale) = None THEN m ELSE sentinelStartFailover(m, "WAIT_START")

sentinelFailoverWaitStart(m, el) ==
    IF m.flags \cap {"S_DOWN", "O_DOWN", "FORCE_FAILOVER"} = {} THEN sentinelAbortFailover(m)
    ELSE IF "start" \in el THEN [m EXCEPT !.fstate = "SELECT_SLAVE"] ELSE m

sentinelFailoverSelectSlave(m, a) ==
    IF a = None THEN sentinelAbortFailover(m)
    ELSE [Flag(m, a, {"PROMOTED"}) EXCEPT !.promoted = a, !.fstate = "SEND_SLAVEOF_NOONE"]

sentinelFailoverSendSlaveOfNoOne(m) ==
    IF Has(m, m.promoted, "DISCONNECTED") THEN m
    ELSE [SendSlaveof(m, m.promoted, None) EXCEPT !.fstate = "WAIT_PROMOTION"]

(* A bug that goes on without the promotion.                               *)
WaitPromotionGivesUp(m, el) == IF "retry" \in el THEN [m EXCEPT !.fstate = "RECONF_SLAVES"] ELSE m

sentinelFailoverWaitPromotion(m, el) ==
    IF "retry" \in el THEN [Unflag(m, m.promoted, {"PROMOTED"}) EXCEPT !.fstate = "SELECT_SLAVE", !.promoted = None]
    ELSE m

(* The end of the failover, and the last attempt at the slaves that are    *)
(* not reconfigured when it ends by a timeout.                             *)
sentinelFailoverDetectEnd(m, el) ==
    LET late == "timeout" \in el
        left == {a \in Slaves(m) : m.slaves[a].flags \cap {"PROMOTED", "RECONF_DONE", "S_DOWN"} = {}}
        be   == {a \in Slaves(m) : m.slaves[a].flags \cap {"RECONF_DONE", "RECONF_SENT", "DISCONNECTED"} = {}}
        sent == IF late /\ "I_AM_THE_LEADER" \in m.flags THEN be ELSE {}
    IN  IF m.promoted = None THEN m ELSE
        IF Has(m, m.promoted, "S_DOWN") THEN m ELSE
        [m EXCEPT !.fstate = IF late \/ left = {} THEN "UPDATE_CONFIG" ELSE @,
                  !.sent = @ \cup {<<a, m.promoted>> : a \in sent},
                  !.slaves = [a \in Slaves(m) |->
                      [m.slaves[a] EXCEPT !.flags = @ \cup IF a \in sent THEN {"RECONF_SENT"} ELSE {}]]]

(* The slaves that are told of the new master next, in the order of the    *)
(* table until PARALLEL_SYNCS are at it.  One that was told too long ago   *)
(* is told again.                                                          *)
sentinelFailoverReconfNextSlave(m, el) ==
    LET busy   == {a \in Slaves(m) : m.slaves[a].flags \cap {"RECONF_SENT", "RECONF_INPROG"} # {}}
        room   == PARALLEL_SYNCS - Cardinality(busy)
        open   == {a \in Slaves(m) : m.slaves[a].flags \cap {"PROMOTED", "RECONF_DONE"} = {}}
        Left(a) == m.slaves[a].flags \ (IF "reconf" \in el THEN {"RECONF_SENT"} ELSE {})
        due    == {a \in open : Left(a) \cap {"DISCONNECTED", "RECONF_SENT", "RECONF_INPROG"} = {}}
        passed == IF room <= 0 THEN {}
                  ELSE CHOOSE p \in SUBSET Slaves(m) :
                            \/ p = Slaves(m) /\ Cardinality(due) <= room
                            \/ Cardinality(p \cap due) = room
        told   == passed \cap due
    IN  sentinelFailoverDetectEnd(
            [m EXCEPT !.slaves = [a \in Slaves(m) |->
                          [m.slaves[a] EXCEPT !.flags = IF a \in told THEN @ \cup {"RECONF_SENT"}
                                                        ELSE IF a \in passed \cap open THEN Left(a) ELSE @]],
                      !.sent = @ \cup {<<a, m.promoted>> : a \in told}], el)

sentinelFailoverStateMachine(m, el, stale) ==
    IF "FAILOVER_IN_PROGRESS" \notin m.flags THEN m
    ELSE CASE m.fstate = "WAIT_START"         -> sentinelFailoverWaitStart(m, el)
           [] m.fstate = "SELECT_SLAVE"       -> sentinelFailoverSelectSlave(m, sentinelSelectSlave(m, stale))
           [] m.fstate = "SEND_SLAVEOF_NOONE" -> sentinelFailoverSendSlaveOfNoOne(m)
           [] m.fstate = "WAIT_PROMOTION"     -> sentinelFailoverWaitPromotion(m, el)
           [] m.fstate = "RECONF_SLAVES"      -> sentinelFailoverReconfNextSlave(m, el)
           [] m.fstate = "DETECT_END"         -> sentinelFailoverDetectEnd(m, el)
           [] OTHER -> m

sentinelAbortFailoverIfNeeded(m, el) ==
    IF "FAILOVER_IN_PROGRESS" \notin m.flags \/ m.promoted = None \/ "xsdown" \notin el THEN m
    ELSE IF Has(m, m.promoted, "S_DOWN") THEN sentinelAbortFailover(m) ELSE m

(* The old master becomes a slave that is to be demoted.                   *)
sentinelFailoverSwitchToPromotedSlave(m) ==
    IF m.fstate # "UPDATE_CONFIG" THEN m
    ELSE IF m.promoted = None THEN sentinelResetMasterAndChangeAddress(m, m.addr)
    ELSE createSentinelRedisInstance(sentinelResetMasterAndChangeAddress(m, m.promoted), {m.addr}, {"DEMOTE"})

-----------------------------------------------------------------------------
(* INFO.  i is what the instance reports: its role, its master, the state  *)
(* of their link, its run id and its slaves.                               *)

(* The INFO of the monitored master.                                       *)
RefreshMaster(m, i) ==
    IF i.master # None THEN sentinelResetMasterAndChangeAddress(m, i.master)
    ELSE createSentinelRedisInstance(m, i.slaves, {})

(* A slave that says it is a master.  calm: no SDOWN, ODOWN or TILT for    *)
(* long enough; recent: the INFO of the master is not old.                 *)
DemoteOldMaster(m, a, calm, recent) ==
    IF ~calm THEN m
    ELSE IF m.flags \cap {"S_DOWN", "O_DOWN"} = {} /\ recent THEN SendSlaveof(m, a, m.addr)
    ELSE Unflag(m, a, {"DEMOTE"})

FailoverDetected(m, a) ==
    LET n == IF "FAILOVER_IN_PROGRESS" \in m.flags THEN sentinelAbortFailover(m) ELSE m
        o == [n EXCEPT !.flags = @ \cup {"FAILOVER_IN_PROGRESS"}, !.fstate = "DETECT_END", !.promoted = a]
    IN  sentinelAddFlagsToDictOfRedisInstances(Unflag(Flag(o, a, {"PROMOTED"}), a, {"DEMOTE"}), {"RECONF_SENT"})

SlaveIsMaster(m, a, reboot, t, calm, recent) ==
    LET inprog == "FAILOVER_IN_PROGRESS" \in m.flags
        leads  == inprog /\ "I_AM_THE_LEADER" \in m.flags
    IN  IF ~t /\ Has(m, a, "DEMOTE") THEN DemoteOldMaster(m, a, calm, recent)
        ELSE IF ~inprog /\ reboot THEN [m EXCEPT !.slaves = [b \in Slaves(m) \ {a} |-> m.slaves[b]]]
        ELSE IF ~t /\ Has(m, a, "PROMOTED")
             THEN IF leads /\ m.fstate = "WAIT_PROMOTION" THEN [m EXCEPT !.fstate = "RECONF_SLAVES"] ELSE m
        ELSE IF ~t /\ (~inprog \/ (leads /\ m.fstate = "WAIT_START")) THEN FailoverDetected(m, a)
        ELSE m

(* A slave that says it is one: the progress of its reconfiguration.       *)
SlaveReconfigured(m, a, i) ==
    LET s == IF Has(m, a, "RECONF_SENT") /\ i.master = m.promoted
             THEN Flag(Unflag(m, a, {"RECONF_SENT"}), a, {"RECONF_INPROG"}) ELSE m
        d == IF Has(s, a, "RECONF_INPROG") /\ i.link = "up"
             THEN Flag(Unflag(s, a, {"RECONF_INPROG"}), a, {"RECONF_DONE"}) ELSE s
    IN  Unflag(d, a, {"DEMOTE"})

RefreshSlave(m, a, i, t, calm, recent) ==
    LET reboot == m.slaves[a].runid # i.runid
        n      == [m EXCEPT !.slaves[a].runid = i.runid]
    IN  IF i.master = None THEN SlaveIsMaster(n, a, reboot, t, calm, recent)
        ELSE IF t THEN n ELSE SlaveReconfigured(n, a, i)

-----------------------------------------------------------------------------
(* Timers *)

(* down: the last valid reply is older than down_after_period.             *)
sentinelCheckSubjectivelyDown(flags, down) == IF down THEN flags \cup {"S_DOWN"} ELSE flags \ {"S_DOWN"}

(* agree: enough Sentinels say that the master is down.                    *)
sentinelCheckObjectivelyDown(m, agree) ==
    IF "S_DOWN" \in m.flags /\ agree THEN [m EXCEPT !.flags = @ \cup {"O_DOWN"}]
    ELSE [m EXCEPT !.flags = @ \ {"O_DOWN"}]

(* The timers that can have elapsed in a state.                            *)
Timers(m) ==
    (CASE m.fstate = "WAIT_START"     -> {"start"}
       [] m.fstate = "WAIT_PROMOTION" -> {"retry"}
       [] m.fstate = "RECONF_SLAVES"  -> {"timeout", "reconf"}
       [] m.fstate = "DETECT_END"     -> {"timeout", "quarter"}
       [] OTHER -> {})
    \cup IF m.promoted # None /\ Has(m, m.promoted, "S_DOWN") THEN {"xsdown"} ELSE {}

(* The slaves that may look stale.  They matter when one is selected.      *)
Stale(m) == CASE m.fstate = "SELECT_SLAVE" -> SUBSET Slaves(m)
              [] m.fstate = "NONE"         -> {{}, Slaves(m)}
              [] OTHER                     -> {{}}

(* The acting half of sentinelHandleRedisInstance for the master, and the  *)
(* switch that follows it in sentinelHandleDictOfRedisInstances.  A        *)
(* failover that was just taken over has not timed out.                    *)
Act(m, el, stale) == sentinelAbortFailoverIfNeeded(sentinelFailoverStateMachine(m, el, stale), el)
HandleMaster(m, down, agree, won, el, stale) ==
    LET o == sentinelCheckObjectivelyDown([m EXCEPT !.flags = sentinelCheckSubjectivelyDown(@, down)], agree)
        s == sentinelStartFailoverIfNeeded(o, won, el, stale)
    IN  sentinelFailoverSwitchToPromotedSlave(
            Act(s, IF s.fstate = m.fstate THEN el ELSE el \ {"timeout"}, stale))

(* An instance that stops answering is a fault, one that goes on is not.   *)
Down(flags, down) ==
    /\ faults' = IF down /\ "S_DOWN" \notin flags THEN faults + 1 ELSE faults
    /\ faults' <= MaxFaults

(* The handler is done: what it sent is on the way.                        *)
Becomes(m) ==
    /\ v' = [m EXCEPT !.sent = {}]
    /\ cmds' = [a \in Addr |-> IF \E c \in m.sent : c[1] = a
                               THEN Append(cmds[a], (CHOOSE c \in m.sent : c[1] = a)[2]) ELSE cmds[a]]
    /\ \A a \in Addr : Len(cmds'[a]) <= MaxFlight

MasterTimer ==
    /\ \/ /\ tilt
          /\ v' = [v EXCEPT !.flags = @ \ {"DISCONNECTED"}]
          /\ UNCHANGED <<tilt, cmds, faults>>
       \/ \E down \in BOOLEAN, el \in SUBSET Timers(v), stale \in Stale(v) :
             \E agree \in {FALSE, down} : \E won \in {FALSE, agree \/ "quarter" \in el} :
                /\ tilt' = FALSE
                /\ Down(v.flags, down)
                /\ Becomes(HandleMaster([v EXCEPT !.flags = @ \ {"DISCONNECTED"}], down, agree, won, el, stale))
    /\ seen' = IF v'.addr = v.addr THEN seen ELSE {}
    /\ UNCHANGED <<role, alive, runid>>

(* sentinelHandleRedisInstance for a slave: the link is opened again.      *)
SlaveTimer(a) ==
    /\ a \in Slaves(v)
    /\ \E down \in BOOLEAN :
          LET n == Unflag(v, a, {"DISCONNECTED"})
          IN  /\ v' = IF tilt THEN n ELSE [n EXCEPT !.slaves[a].flags = sentinelCheckSubjectivelyDown(@, down)]
              /\ Down(v.slaves[a].flags, down /\ ~tilt)
    /\ UNCHANGED <<tilt, cmds, role, alive, runid, seen>>

-----------------------------------------------------------------------------
(* Replies, and what happens around *)

Connected(a) == \/ a = v.addr /\ "DISCONNECTED" \notin v.flags
                \/ a \in Slaves(v) /\ ~Has(v, a, "DISCONNECTED")

DemoteIsDue(a) == a \in Slaves(v) /\ Has(v, a, "DEMOTE") /\ role[a] = None /\ ~tilt

(* The reply to INFO.  The link of a slave is up only with a master that   *)
(* is alive.                                                               *)
InfoReply(a) ==
    /\ Connected(a) /\ a \in alive
    /\ \E link \in {"up", "down"}, calm, recent \in IF DemoteIsDue(a) THEN BOOLEAN ELSE {FALSE} :
          LET i == [master |-> role[a], link |-> link, runid |-> runid[a],
                    slaves |-> {b \in alive : role[b] = a}]
          IN  /\ link = "up" => role[a] \in alive
              /\ Becomes(IF a = v.addr THEN RefreshMaster(v, i) ELSE RefreshSlave(v, a, i, tilt, calm, recent))
    /\ seen' = IF v'.addr # v.addr THEN {} ELSE IF role[a] = None THEN seen \cup {a} ELSE seen
    /\ UNCHANGED <<tilt, role, alive, runid, faults>>

(* SLAVEOF reaches the instance, or is lost with the link.                 *)
Slaveof(a) ==
    /\ cmds[a] # <<>>
    /\ \/ a \in alive /\ role' = [role EXCEPT ![a] = Head(cmds[a])]
       \/ ~Connected(a) /\ UNCHANGED role
    /\ cmds' = [cmds EXCEPT ![a] = Tail(@)]
    /\ UNCHANGED <<v, tilt, alive, runid, faults, seen>>

Fault == faults < MaxFaults /\ faults' = faults + 1

(* sentinelDisconnectInstanceFromContext, or sentinelKillLink of a link    *)
(* without activity.                                                       *)
LinkLost(a) ==
    /\ Fault /\ Connected(a)
    /\ v' = IF a = v.addr THEN [v EXCEPT !.flags = @ \cup {"DISCONNECTED"}] ELSE Flag(v, a, {"DISCONNECTED"})
    /\ UNCHANGED <<tilt, cmds, role, alive, runid, seen>>

Crash(a) ==
    /\ Fault /\ a \in alive
    /\ alive' = alive \ {a}
    /\ UNCHANGED <<v, tilt, cmds, role, runid, seen>>

(* A restart loses what was configured with SLAVEOF: the first master of   *)
(* the configuration files is the first master.                            *)
Restart(a) ==
    /\ a \notin alive
    /\ alive' = alive \cup {a}
    /\ runid' = [runid EXCEPT ![a] = @ + 1]
    /\ role' = [role EXCEPT ![a] = IF a = FirstMaster THEN None ELSE FirstMaster]
    /\ UNCHANGED <<v, tilt, cmds, faults, seen>>

(* Another Sentinel, or the user, promotes a slave.                        *)
OtherPromotes(a) ==
    /\ Fault /\ a \in alive /\ role[a] # None
    /\ role' = [role EXCEPT ![a] = None]
    /\ UNCHANGED <<v, tilt, cmds, alive, runid, seen>>

(* sentinelCheckTiltCondition: the clock jumped.                           *)
Tilt ==
    /\ Fault /\ ~tilt
    /\ tilt' = TRUE
    /\ UNCHANGED <<v, cmds, role, alive, runid, seen>>

(* SENTINEL FAILOVER and SENTINEL RESET.                                   *)
FailoverCommand ==
    /\ Fault /\ "FAILOVER_IN_PROGRESS" \notin v.flags
    /\ \E stale \in SUBSET Slaves(v) : sentinelSelectSlave(v, stale) # None
    /\ v' = [sentinelStartFailover(v, "WAIT_START") EXCEPT !.flags = @ \cup {"FORCE_FAILOVER"}]
    /\ UNCHANGED <<tilt, cmds, role, alive, runid, seen>>

ResetCommand ==
    /\ Fault
    /\ v' = sentinelResetMaster(v)
    /\ UNCHANGED <<tilt, cmds, role, alive, runid, seen>>

Init ==
    /\ v = [addr |-> FirstMaster, flags |-> {"DISCONNECTED"}, fstate |-> "NONE", promoted |-> None,
            slaves |-> <<>>, sent |-> {}]
    /\ tilt = FALSE
    /\ cmds = [a \in Addr |-> <<>>]
    /\ role = [a \in Addr |-> IF a = FirstMaster THEN None ELSE FirstMaster]
    /\ alive = Addr
    /\ runid = [a \in Addr |-> 1]
    /\ faults = 0
    /\ seen = {}

Next ==
    \/ MasterTimer \/ Tilt \/ FailoverCommand \/ ResetCommand
    \/ \E a \in Addr : SlaveTimer(a) \/ InfoReply(a) \/ Slaveof(a)
                       \/ LinkLost(a) \/ Crash(a) \/ Restart(a) \/ OtherPromotes(a)

Spec == Init /\ [][Next]_vars

-----------------------------------------------------------------------------
(* Properties *)

(* What is known of a slave, and of the master with its slaves.            *)
SlaveRecord  == [flags : SUBSET SlaveFlags, runid : Nat]
IsMaster(m) ==
    /\ m \in [addr : Addr, flags : SUBSET MasterFlags, fstate : States, promoted : Addr \cup {None},
               slaves : [Slaves(m) -> SlaveRecord], sent : SUBSET (Addr \X (Addr \cup {None}))]
    /\ Slaves(m) \subseteq Addr

(* Every variable has its type.                                            *)
TypeOK ==
    /\ IsMaster(v) /\ tilt \in BOOLEAN
    /\ cmds \in [Addr -> Seq(Addr \cup {None})] /\ role \in [Addr -> Addr \cup {None}]
    /\ alive \subseteq Addr /\ runid \in [Addr -> Nat] /\ faults \in Nat /\ seen \subseteq Addr

(* The promoted slave is dereferenced without a check wherever the code    *)
(* relies on it: in the states from SEND_SLAVEOF_NOONE on, and when a      *)
(* slave with RECONF_SENT reports its master.  It is a slave of the table  *)
(* and the only one that is flagged.                                       *)
PromotedIsThere ==
    /\ v.fstate \in {"SEND_SLAVEOF_NOONE", "WAIT_PROMOTION", "RECONF_SLAVES", "DETECT_END"} => v.promoted # None
    /\ (\E a \in Slaves(v) : Has(v, a, "RECONF_SENT")) => v.promoted # None
    /\ \A a \in Slaves(v) : Has(v, a, "PROMOTED") <=> a = v.promoted
    /\ v.promoted # None => v.promoted \in Slaves(v)

(* The failover state and the flags agree: a state other than NONE only    *)
(* while a failover is in progress, an observer only waits for its end.    *)
FailoverStateAgrees ==
    /\ (v.fstate = "NONE") <=> ("FAILOVER_IN_PROGRESS" \notin v.flags)
    /\ "FAILOVER_IN_PROGRESS" \in v.flags /\ "I_AM_THE_LEADER" \notin v.flags => v.fstate = "DETECT_END"
    /\ "I_AM_THE_LEADER" \in v.flags => v.fstate # "DETECT_END"

(* The Sentinel moves to another master only if that one reported to be a  *)
(* master, or if the old master reported to be its slave.                  *)
SwitchesToAMaster ==
    [][v'.addr # v.addr => v'.addr \in seen \/ role[v.addr] = v'.addr]_vars

(* No instance is told to replicate from itself.                           *)
NeverSlaveOfItself == \A a \in Addr : \A i \in 1 .. Len(cmds[a]) : cmds[a][i] # a

-----------------------------------------------------------------------------
(* The inductive invariant behind the properties, for the proofs           *)

(* The slaves are being told of their new master.                          *)
Following == {"RECONF_SLAVES", "DETECT_END", "UPDATE_CONFIG"}

(* Of the record of the master while a handler runs, where masters are the *)
(* instances that said they are one: a slave is promoted in some states of *)
(* the failover and in no other, and once slaves follow it, it has said    *)
(* that it is a master.                                                    *)
FailoverInv(m, masters) ==
    /\ m.fstate = "NONE" <=> "FAILOVER_IN_PROGRESS" \notin m.flags
    /\ "I_AM_THE_LEADER" \in m.flags => m.fstate \notin {"NONE", "DETECT_END"}
    /\ "I_AM_THE_LEADER" \notin m.flags => m.fstate \in {"NONE", "DETECT_END", "UPDATE_CONFIG"}
    /\ m.promoted # None <=> m.fstate \notin {"NONE", "WAIT_START", "SELECT_SLAVE"}
    /\ m.promoted # None => m.promoted \in Slaves(m)
    /\ \A a \in Slaves(m) : Has(m, a, "PROMOTED") <=> a = m.promoted
    /\ (\E a \in Slaves(m) : Has(m, a, "RECONF_SENT")) => m.fstate \in Following
    /\ m.fstate \in Following => m.promoted \in masters

(* Between the handlers, UPDATE_CONFIG has been acted upon.                *)
SentinelInv == TypeOK /\ FailoverInv(v, seen) /\ v.fstate # "UPDATE_CONFIG"

=============================================================================
