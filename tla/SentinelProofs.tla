--------------------------- MODULE SentinelProofs ---------------------------
(***************************************************************************)
(* The failover of a Sentinel, for any instances, priorities, number of    *)
(* parallel reconfigurations and faults: the promoted slave is there when  *)
(* it is dereferenced, flags and state agree, and the Sentinel moves only  *)
(* to a master.  A handler is a chain of functions from the record of the  *)
(* master to the record of the master: each keeps FailoverInv.             *)
(***************************************************************************)
EXTENDS Sentinel, SequenceLemmas

(* The record of the master while a handler runs.                          *)
Good(m, masters) == IsMaster(m) /\ FailoverInv(m, masters) /\ masters \subseteq Addr

(* The parts of the record that the state of the failover is kept in.      *)
SameFailover(m, n) ==
    /\ n.addr = m.addr /\ n.fstate = m.fstate /\ n.promoted = m.promoted
    /\ {"FAILOVER_IN_PROGRESS", "I_AM_THE_LEADER"} \cap n.flags
         = {"FAILOVER_IN_PROGRESS", "I_AM_THE_LEADER"} \cap m.flags

LEMMA NoneIsNoAddress == None \notin Addr /\ None \in Nat
  BY SentinelAssumption DEF None

LEMMA MasterFields ==
    ASSUME NEW m, IsMaster(m)
    PROVE  /\ m = [addr |-> m.addr, flags |-> m.flags, fstate |-> m.fstate, promoted |-> m.promoted,
                   slaves |-> m.slaves, sent |-> m.sent]
           /\ m.addr \in Addr /\ m.flags \subseteq MasterFlags /\ m.fstate \in States
           /\ m.promoted \in Addr \cup {None} /\ m.sent \subseteq Addr \X (Addr \cup {None})
           /\ m.slaves \in [Slaves(m) -> SlaveRecord] /\ Slaves(m) \subseteq Addr
           /\ \A a \in Slaves(m) : /\ m.slaves[a] \in SlaveRecord
                                  /\ m.slaves[a].flags \subseteq SlaveFlags /\ m.slaves[a].runid \in Nat
                                  /\ m.slaves[a] = [flags |-> m.slaves[a].flags, runid |-> m.slaves[a].runid]
  BY DEF IsMaster, SlaveRecord

\* A record whose fields have their types is one of a master.
LEMMA MasterRecord ==
    ASSUME NEW addr \in Addr, NEW flags \in SUBSET MasterFlags, NEW fstate \in States,
           NEW promoted \in Addr \cup {None}, NEW known \in SUBSET Addr,
           NEW slaves \in [known -> SlaveRecord], NEW sent \in SUBSET (Addr \X (Addr \cup {None}))
    PROVE  LET n == [addr |-> addr, flags |-> flags, fstate |-> fstate, promoted |-> promoted,
                     slaves |-> slaves, sent |-> sent]
           IN  IsMaster(n) /\ Slaves(n) = known
<1> DEFINE n == [addr |-> addr, flags |-> flags, fstate |-> fstate, promoted |-> promoted,
                 slaves |-> slaves, sent |-> sent]
<1>1. n.slaves = slaves /\ DOMAIN slaves = known
  OBVIOUS
<1>2. Slaves(n) = known
  BY <1>1 DEF Slaves
<1> QED
  BY <1>2 DEF IsMaster

\* Changes of the flags of slaves that leave SRI_PROMOTED alone, and set
\* SRI_RECONF_SENT only while slaves are told of their new master.
LEMMA SlavesChange ==
    ASSUME NEW m, NEW s, NEW n, Good(m, s), IsMaster(n), SameFailover(m, n), Slaves(n) = Slaves(m),
           \A a \in Slaves(m) : Has(n, a, "PROMOTED") <=> Has(m, a, "PROMOTED"),
           \A a \in Slaves(m) : Has(n, a, "RECONF_SENT") => Has(m, a, "RECONF_SENT") \/ m.fstate \in Following
    PROVE  Good(n, s)
  BY DEF Good, FailoverInv, Following, SameFailover

\* Changes of the other flags of the master.
LEMMA FlagsChange ==
    ASSUME NEW m, NEW s, Good(m, s), NEW g \in SUBSET MasterFlags,
           {"FAILOVER_IN_PROGRESS", "I_AM_THE_LEADER"} \cap g
             = {"FAILOVER_IN_PROGRESS", "I_AM_THE_LEADER"} \cap m.flags
    PROVE  Good([m EXCEPT !.flags = g], s) /\ SameFailover(m, [m EXCEPT !.flags = g])
<1> DEFINE n == [m EXCEPT !.flags = g]
<1>1. n = [addr |-> m.addr, flags |-> g, fstate |-> m.fstate, promoted |-> m.promoted,
           slaves |-> m.slaves, sent |-> m.sent]
  BY MasterFields DEF Good
<1>2. IsMaster(n) /\ Slaves(n) = Slaves(m)
  BY <1>1, MasterFields, MasterRecord DEF Good
<1>3. SameFailover(m, n) /\ n.slaves = m.slaves
  BY <1>1 DEF SameFailover
<1> QED
  BY <1>2, <1>3, SlavesChange DEF Has

\* Setting and clearing flags of one slave.
LEMMA FlagFacts ==
    ASSUME NEW m, IsMaster(m), NEW a \in Slaves(m), NEW f \in SUBSET SlaveFlags
    PROVE  /\ IsMaster(Flag(m, a, f)) /\ IsMaster(Unflag(m, a, f))
           /\ SameFailover(m, Flag(m, a, f)) /\ SameFailover(m, Unflag(m, a, f))
           /\ Flag(m, a, f).flags = m.flags /\ Unflag(m, a, f).flags = m.flags
           /\ Slaves(Flag(m, a, f)) = Slaves(m) /\ Slaves(Unflag(m, a, f)) = Slaves(m)
           /\ \A b \in Slaves(m) : \A x :
                /\ Has(Flag(m, a, f), b, x) <=> Has(m, b, x) \/ (b = a /\ x \in f)
                /\ Has(Unflag(m, a, f), b, x) <=> Has(m, b, x) /\ ~(b = a /\ x \in f)
<1> DEFINE N(g) == [m EXCEPT !.slaves[a].flags = g]
<1>1. ASSUME NEW g \in SUBSET SlaveFlags
      PROVE  /\ IsMaster(N(g)) /\ SameFailover(m, N(g)) /\ Slaves(N(g)) = Slaves(m) /\ N(g).flags = m.flags
             /\ N(g).slaves[a].flags = g
             /\ \A b \in Slaves(m) : b # a => N(g).slaves[b] = m.slaves[b]
  <2> DEFINE n == N(g)
             t == [m.slaves EXCEPT ![a].flags = g]
  <2>1. n = [addr |-> m.addr, flags |-> m.flags, fstate |-> m.fstate, promoted |-> m.promoted,
             slaves |-> t, sent |-> m.sent]
    BY MasterFields
  <2>2. t \in [Slaves(m) -> SlaveRecord] /\ t[a].flags = g /\ \A b \in Slaves(m) : b # a => t[b] = m.slaves[b]
    BY MasterFields DEF SlaveRecord
  <2> HIDE DEF t
  <2>3. IsMaster(n) /\ Slaves(n) = Slaves(m)
    <3>1. /\ m.addr \in Addr /\ m.flags \in SUBSET MasterFlags /\ m.fstate \in States
          /\ m.promoted \in Addr \cup {None} /\ Slaves(m) \in SUBSET Addr
          /\ m.sent \in SUBSET (Addr \X (Addr \cup {None}))
      BY MasterFields
    <3>2. t \in [Slaves(m) -> SlaveRecord]
      BY <2>2
    <3> DEFINE K == Slaves(m)
    <3> HIDE DEF n, N, K
    <3>3. t \in [K -> SlaveRecord] /\ K \in SUBSET Addr
      BY <3>1, <3>2 DEF K
    <3> DEFINE r == [addr |-> m.addr, flags |-> m.flags, fstate |-> m.fstate, promoted |-> m.promoted,
                     slaves |-> t, sent |-> m.sent]
    <3>4. IsMaster(r) /\ Slaves(r) = K
      <4>1. Slaves(r) = K
        BY <3>3 DEF Slaves
      <4> QED
        BY <3>1, <3>3, <4>1 DEF IsMaster
    <3> HIDE DEF r
    <3>5. n = r
      BY <2>1 DEF r
    <3> QED
      BY <3>4, <3>5 DEF K
  <2>4. SameFailover(m, n) /\ n.slaves = t /\ n.flags = m.flags
    BY <2>1 DEF SameFailover
  <2> QED
    BY <2>2, <2>3, <2>4
<1>2. m.slaves[a].flags \subseteq SlaveFlags
  BY MasterFields
<1>3. /\ Flag(m, a, f) = N(m.slaves[a].flags \cup f)
      /\ Unflag(m, a, f) = N(m.slaves[a].flags \ f)
  BY DEF Flag, Unflag
<1> HIDE DEF N
<1>4. m.slaves[a].flags \cup f \in SUBSET SlaveFlags /\ m.slaves[a].flags \ f \in SUBSET SlaveFlags
  BY <1>2
<1>5. /\ IsMaster(Flag(m, a, f)) /\ SameFailover(m, Flag(m, a, f)) /\ Slaves(Flag(m, a, f)) = Slaves(m)
      /\ Flag(m, a, f).flags = m.flags
      /\ Flag(m, a, f).slaves[a].flags = m.slaves[a].flags \cup f
      /\ \A b \in Slaves(m) : b # a => Flag(m, a, f).slaves[b] = m.slaves[b]
  BY <1>1, <1>3, <1>4
<1>6. /\ IsMaster(Unflag(m, a, f)) /\ SameFailover(m, Unflag(m, a, f)) /\ Slaves(Unflag(m, a, f)) = Slaves(m)
      /\ Unflag(m, a, f).flags = m.flags
      /\ Unflag(m, a, f).slaves[a].flags = m.slaves[a].flags \ f
      /\ \A b \in Slaves(m) : b # a => Unflag(m, a, f).slaves[b] = m.slaves[b]
  BY <1>1, <1>3, <1>4
<1> QED
  BY <1>5, <1>6 DEF Has

----------------------------------------------------------------------------
(* The functions that handlers are made of *)

\* A new instance takes part in no failover yet.
LEMMA CreateKeeps ==
    ASSUME NEW m, NEW s, Good(m, s), NEW addrs \in SUBSET Addr,
           NEW f \in SUBSET (SlaveFlags \ {"PROMOTED", "RECONF_SENT"})
    PROVE  LET n == createSentinelRedisInstance(m, addrs, f)
           IN  Good(n, s) /\ SameFailover(m, n)
<1> DEFINE n  == createSentinelRedisInstance(m, addrs, f)
           ri == [flags |-> f \cup {"DISCONNECTED"}, runid |-> None]
           t  == [a \in Slaves(m) \cup addrs |-> IF a \in Slaves(m) THEN m.slaves[a] ELSE ri]
<1>1. n = [addr |-> m.addr, flags |-> m.flags, fstate |-> m.fstate, promoted |-> m.promoted,
           slaves |-> t, sent |-> m.sent]
  <2>1. m = [addr |-> m.addr, flags |-> m.flags, fstate |-> m.fstate, promoted |-> m.promoted,
             slaves |-> m.slaves, sent |-> m.sent]
    BY MasterFields DEF Good
  <2>2. n = [m EXCEPT !.slaves = t]
    BY DEF createSentinelRedisInstance, Slaves
  <2> HIDE DEF n, t
  <2> QED
    BY <2>1, <2>2
<1>2. ri \in SlaveRecord /\ "PROMOTED" \notin ri.flags /\ "RECONF_SENT" \notin ri.flags
  BY NoneIsNoAddress DEF SlaveRecord, SlaveFlags
<1>3. t \in [Slaves(m) \cup addrs -> SlaveRecord]
  BY <1>2, MasterFields DEF Good
<1>4. /\ \A a \in Slaves(m) : t[a] = m.slaves[a]
      /\ \A a \in (Slaves(m) \cup addrs) \ Slaves(m) : t[a] = ri
  OBVIOUS
<1> HIDE DEF t, ri
<1>5. IsMaster(n) /\ Slaves(n) = Slaves(m) \cup addrs
  <2>1. /\ m.addr \in Addr /\ m.flags \in SUBSET MasterFlags /\ m.fstate \in States
        /\ m.promoted \in Addr \cup {None} /\ Slaves(m) \cup addrs \in SUBSET Addr
        /\ m.sent \in SUBSET (Addr \X (Addr \cup {None}))
    BY MasterFields DEF Good
  <2> HIDE DEF n
  <2> QED
    BY <1>1, <1>3, <2>1, MasterRecord
<1>6. SameFailover(m, n) /\ n.slaves = t /\ n.flags = m.flags
  BY <1>1 DEF SameFailover
<1>7. ASSUME NEW a \in Slaves(n)
      PROVE  /\ Has(n, a, "PROMOTED") <=> a = n.promoted
             /\ Has(n, a, "RECONF_SENT") => n.fstate \in Following
  <2>1. CASE a \in Slaves(m)
    BY <1>4, <1>6, <2>1 DEF Has, Good, FailoverInv, Following, SameFailover
  <2>2. CASE a \notin Slaves(m)
    <3>1. a # m.promoted
      BY <1>5, <1>7, <2>2, NoneIsNoAddress DEF Good, FailoverInv, Following
    <3> QED
      BY <1>2, <1>4, <1>5, <1>6, <2>2, <3>1 DEF Has, SameFailover
  <2> QED
    BY <2>1, <2>2
<1>8. FailoverInv(n, s)
  BY <1>5, <1>6, <1>7 DEF Good, FailoverInv, Following, SameFailover
<1> QED
  BY <1>5, <1>6, <1>8 DEF Good

\* What is left after a reset takes part in no failover.
LEMMA ResetKeeps ==
    ASSUME NEW m, NEW s, NEW r, Good(m, s), r \subseteq Addr, NEW a \in Addr
    PROVE  /\ Good(sentinelResetMaster(m), r) /\ sentinelResetMaster(m).addr = m.addr
           /\ sentinelResetMaster(m).fstate = "NONE"
           /\ Good(sentinelResetMasterAndChangeAddress(m, a), r)
           /\ sentinelResetMasterAndChangeAddress(m, a).addr = a
           /\ sentinelResetMasterAndChangeAddress(m, a).fstate = "NONE"
<1>1. ASSUME NEW b \in Addr
      PROVE  LET n == [addr |-> b, flags |-> {"DISCONNECTED"}, fstate |-> "NONE", promoted |-> None,
                       slaves |-> <<>>, sent |-> m.sent]
             IN  Good(n, r)
  <2> DEFINE n == [addr |-> b, flags |-> {"DISCONNECTED"}, fstate |-> "NONE", promoted |-> None,
                   slaves |-> <<>>, sent |-> m.sent]
  <2>1. {"DISCONNECTED"} \in SUBSET MasterFlags /\ "NONE" \in States /\ {} \in SUBSET Addr
        /\ None \in Addr \cup {None}
    BY DEF MasterFlags, States
  <2>2. <<>> \in [{} -> SlaveRecord]
    OBVIOUS
  <2>3. m.sent \in SUBSET (Addr \X (Addr \cup {None}))
    BY MasterFields DEF Good
  <2>4. IsMaster(n) /\ Slaves(n) = {}
    <3> DEFINE f == {"DISCONNECTED"}
               none == {}
               t == <<>>
    <3>1. f \in SUBSET MasterFlags /\ none \in SUBSET Addr /\ t \in [none -> SlaveRecord]
      BY <2>1, <2>2
    <3>2. n = [addr |-> b, flags |-> f, fstate |-> "NONE", promoted |-> None, slaves |-> t, sent |-> m.sent]
      OBVIOUS
    <3> HIDE DEF f, none, t, n
    <3>3. IsMaster(n) /\ Slaves(n) = none
      BY <2>1, <2>3, <3>1, <3>2, MasterRecord
    <3> QED
      BY <3>3 DEF none
  <2> QED
    BY <2>4 DEF Good, FailoverInv, Following
<1> DEFINE n1 == sentinelResetMaster(m)
           n2 == sentinelResetMasterAndChangeAddress(m, a)
<1>2. n1 =
        [addr |-> m.addr, flags |-> {"DISCONNECTED"}, fstate |-> "NONE", promoted |-> None,
         slaves |-> <<>>, sent |-> m.sent]
  <2>1. m = [addr |-> m.addr, flags |-> m.flags, fstate |-> m.fstate, promoted |-> m.promoted,
             slaves |-> m.slaves, sent |-> m.sent]
    BY MasterFields DEF Good
  <2>2. n1 = [m EXCEPT !.flags = {"DISCONNECTED"}, !.fstate = "NONE", !.promoted = None, !.slaves = <<>>]
    BY DEF sentinelResetMaster
  <2> HIDE DEF n1
  <2> QED
    BY <2>1, <2>2
<1>3. n2 =
        [addr |-> a, flags |-> {"DISCONNECTED"}, fstate |-> "NONE", promoted |-> None,
         slaves |-> <<>>, sent |-> m.sent]
  <2>1. n2 = [n1 EXCEPT !.addr = a]
    BY DEF sentinelResetMasterAndChangeAddress
  <2> HIDE DEF n1, n2
  <2> QED
    BY <1>2, <2>1
<1>4. m.addr \in Addr
  BY MasterFields DEF Good
<1> QED
  BY <1>1, <1>2, <1>3, <1>4

\* An aborted failover leaves no promoted slave and no flags of one.
LEMMA AbortKeeps ==
    ASSUME NEW m, NEW s, Good(m, s)
    PROVE  LET n == sentinelAbortFailover(m)
           IN  /\ Good(n, s) /\ n.addr = m.addr /\ n.fstate = "NONE" /\ Slaves(n) = Slaves(m)
<1> DEFINE n    == sentinelAbortFailover(m)
           undo == {a \in Slaves(m) : /\ "I_AM_THE_LEADER" \in m.flags
                                      /\ ~Has(m, a, "DISCONNECTED")
                                      /\ m.slaves[a].flags \cap (Reconf \cup {"PROMOTED"}) # {}}
           fl   == m.flags \ {"FAILOVER_IN_PROGRESS", "I_AM_THE_LEADER", "FORCE_FAILOVER"}
           F(a) == m.slaves[a].flags \ (Reconf \cup IF a = m.promoted THEN {"PROMOTED"} ELSE {})
           t    == [a \in Slaves(m) |-> [m.slaves[a] EXCEPT !.flags = F(a)]]
           snd  == m.sent \cup {<<a, m.addr>> : a \in undo}
<1>1. n = [addr |-> m.addr, flags |-> fl, fstate |-> "NONE", promoted |-> None, slaves |-> t, sent |-> snd]
  <2>1. m = [addr |-> m.addr, flags |-> m.flags, fstate |-> m.fstate, promoted |-> m.promoted,
             slaves |-> m.slaves, sent |-> m.sent]
    BY MasterFields DEF Good
  <2>2. n = [m EXCEPT !.flags = fl, !.fstate = "NONE", !.promoted = None, !.slaves = t, !.sent = snd]
    BY DEF sentinelAbortFailover, Slaves
  <2> HIDE DEF n, t, fl, snd
  <2> QED
    BY <2>1, <2>2
<1>2. ASSUME NEW a \in Slaves(m)
      PROVE  t[a] = [flags |-> F(a), runid |-> m.slaves[a].runid] /\ t[a] \in SlaveRecord
  <2>1. /\ m.slaves[a] = [flags |-> m.slaves[a].flags, runid |-> m.slaves[a].runid]
        /\ m.slaves[a].flags \subseteq SlaveFlags /\ m.slaves[a].runid \in Nat
    BY MasterFields DEF Good
  <2>2. F(a) \subseteq SlaveFlags
    BY <2>1
  <2>3. t[a] = [m.slaves[a] EXCEPT !.flags = F(a)]
    OBVIOUS
  <2> HIDE DEF t, F
  <2> QED
    BY <2>1, <2>2, <2>3 DEF SlaveRecord
<1>3. t \in [Slaves(m) -> SlaveRecord]
  BY <1>2
<1>4. fl \in SUBSET MasterFlags /\ "NONE" \in States /\ None \in Addr \cup {None} /\ m.addr \in Addr
  BY MasterFields DEF Good, States
<1>5. snd \in SUBSET (Addr \X (Addr \cup {None}))
  <2>1. m.addr \in Addr /\ undo \subseteq Addr /\ m.sent \subseteq Addr \X (Addr \cup {None})
    BY MasterFields DEF Good
  <2> HIDE DEF undo
  <2> QED
    BY <2>1
<1>6. \A a \in Slaves(m) : t[a].flags = F(a)
  <2>1. ASSUME NEW a \in Slaves(m) PROVE t[a].flags = F(a)
    <3>1. t[a] = [flags |-> F(a), runid |-> m.slaves[a].runid]
      BY <1>2
    <3> HIDE DEF t, F
    <3> QED
      BY <3>1
  <2> QED
    BY <2>1
<1> HIDE DEF t, snd, F
<1>7. IsMaster(n) /\ Slaves(n) = Slaves(m)
  <2>1. Slaves(m) \subseteq Addr
    BY MasterFields DEF Good
  <2> HIDE DEF n, fl
  <2> QED
    BY <1>1, <1>3, <1>4, <1>5, <2>1, MasterRecord
<1>8. \A a \in Slaves(m) : ~Has(n, a, "PROMOTED") /\ ~Has(n, a, "RECONF_SENT") /\ a # None
  BY <1>1, <1>6, NoneIsNoAddress, MasterFields DEF Has, F, Reconf, Good, FailoverInv, Following
<1> QED
  BY <1>1, <1>7, <1>8 DEF Good, FailoverInv, Following

\* The slave that is selected is one of the table.
LEMMA SelectFacts ==
    ASSUME NEW m, IsMaster(m), NEW stale, sentinelSelectSlave(m, stale) # None
    PROVE  sentinelSelectSlave(m, stale) \in Slaves(m)
<1> DEFINE good  == {a \in Slaves(m) \ stale :
                        Priority(a) # 0 /\ m.slaves[a].flags \cap {"S_DOWN", "DISCONNECTED", "DEMOTE"} = {}}
           ps    == {Priority(b) : b \in good}
           best  == {a \in good : Priority(a) = Min({Priority(b) : b \in good})}
           known == {a \in best : m.slaves[a].runid # None}
<1>1. sentinelSelectSlave(m, stale) =
        CASE good = {}  -> None
          [] known # {} -> Min(known)
          [] OTHER      -> CHOOSE a \in best : TRUE
  BY DEF sentinelSelectSlave
<1>2. good # {}
  BY <1>1
<1>3. good \subseteq Addr /\ good \subseteq Nat /\ good \subseteq Slaves(m)
  BY MasterFields, SentinelAssumption
<1>4. ps \subseteq Nat /\ ps # {}
  BY <1>2, <1>3, SentinelAssumption
<1>5. Min(ps) \in ps
  <2> HIDE DEF ps
  <2> QED
    BY <1>4, MinOfNaturals
<1>6. best # {}
  BY <1>5
<1>7. CASE known # {}
  <2>1. known \subseteq Nat /\ known \subseteq Slaves(m)
    BY <1>3
  <2> HIDE DEF known
  <2>2. Min(known) \in known
    BY <1>7, <2>1, MinOfNaturals
  <2> QED
    BY <1>1, <1>2, <1>7, <2>1, <2>2
<1>8. CASE known = {}
  <2>1. (CHOOSE a \in best : TRUE) \in best
    BY <1>6
  <2>2. best \subseteq Slaves(m)
    BY <1>3
  <2> HIDE DEF best, known, good
  <2> QED
    BY <1>1, <1>2, <1>8, <2>1, <2>2
<1> QED
  BY <1>7, <1>8

----------------------------------------------------------------------------
(* The states of the failover *)

\* A failover starts when there is none, or is taken over from the state in
\* which an observer waits, in which a slave is promoted.
LEMMA StartKeeps ==
    ASSUME NEW m, NEW s, Good(m, s), m.fstate # "UPDATE_CONFIG", NEW won, NEW el, NEW stale
    PROVE  LET n == sentinelStartFailoverIfNeeded(m, won, el, stale)
           IN  Good(n, s) /\ n.addr = m.addr /\ n.fstate # "UPDATE_CONFIG"
<1> DEFINE fl      == m.flags \cup {"FAILOVER_IN_PROGRESS", "I_AM_THE_LEADER"}
           Go(st)  == sentinelStartFailover(m, st)
<1>1. ASSUME NEW st \in {"WAIT_START", "RECONF_SLAVES"}
      PROVE  /\ Go(st) = [addr |-> m.addr, flags |-> fl, fstate |-> st, promoted |-> m.promoted,
                          slaves |-> m.slaves, sent |-> m.sent]
             /\ IsMaster(Go(st)) /\ Slaves(Go(st)) = Slaves(m)
  <2> DEFINE n == Go(st)
  <2>1. m = [addr |-> m.addr, flags |-> m.flags, fstate |-> m.fstate, promoted |-> m.promoted,
             slaves |-> m.slaves, sent |-> m.sent]
    BY MasterFields DEF Good
  <2>2. n = [m EXCEPT !.fstate = st, !.flags = fl]
    BY DEF sentinelStartFailover
  <2>3. fl \in SUBSET MasterFlags /\ st \in States
    BY MasterFields DEF Good, MasterFlags, States
  <2> HIDE DEF n, fl
  <2>4. n = [addr |-> m.addr, flags |-> fl, fstate |-> st, promoted |-> m.promoted,
             slaves |-> m.slaves, sent |-> m.sent]
    BY <2>1, <2>2
  <2>5. IsMaster(n) /\ Slaves(n) = Slaves(m)
    BY <2>3, <2>4, MasterFields, MasterRecord DEF Good
  <2> QED
    BY <2>4, <2>5 DEF n
<1>2. ASSUME "FAILOVER_IN_PROGRESS" \notin m.flags PROVE Good(Go("WAIT_START"), s)
  <2>1. m.fstate = "NONE" /\ m.promoted = None
    BY <1>2 DEF Good, FailoverInv, Following
  <2>2. \A a \in Slaves(m) : ~Has(m, a, "PROMOTED") /\ ~Has(m, a, "RECONF_SENT") /\ a # None
    BY <2>1, NoneIsNoAddress, MasterFields DEF Good, FailoverInv, Following
  <2> DEFINE n == Go("WAIT_START")
  <2>3. n.fstate = "WAIT_START" /\ n.promoted = None /\ n.slaves = m.slaves /\ n.flags = fl
        /\ IsMaster(n) /\ Slaves(n) = Slaves(m)
    BY <1>1, <2>1
  <2> HIDE DEF n
  <2>4. FailoverInv(n, s)
    BY <2>2, <2>3 DEF FailoverInv, Following, Has
  <2> QED
    BY <2>3, <2>4 DEF Good, n
<1>3. ASSUME "FAILOVER_IN_PROGRESS" \in m.flags, "I_AM_THE_LEADER" \notin m.flags
      PROVE  LET n == sentinelDelFlagsToDictOfRedisInstances(Go("RECONF_SLAVES"), {"RECONF_SENT"})
             IN  Good(n, s) /\ n.addr = m.addr /\ n.fstate = "RECONF_SLAVES"
  <2> DEFINE g == Go("RECONF_SLAVES")
             n == sentinelDelFlagsToDictOfRedisInstances(g, {"RECONF_SENT"})
             t == [a \in Slaves(m) |-> [m.slaves[a] EXCEPT !.flags = @ \ {"RECONF_SENT"}]]
  <2>1. m.fstate = "DETECT_END" /\ m.promoted # None /\ m.promoted \in s
    BY <1>3 DEF Good, FailoverInv, Following
  <2>2. g = [addr |-> m.addr, flags |-> fl, fstate |-> "RECONF_SLAVES", promoted |-> m.promoted,
             slaves |-> m.slaves, sent |-> m.sent]
        /\ IsMaster(g) /\ Slaves(g) = Slaves(m)
    BY <1>1
  <2> HIDE DEF g
  <2>3. n = [g EXCEPT !.slaves = t]
    <3>1. n = [g EXCEPT !.slaves = [a \in Slaves(g) |-> [g.slaves[a] EXCEPT !.flags = @ \ {"RECONF_SENT"}]]]
      BY DEF sentinelDelFlagsToDictOfRedisInstances
    <3>2. g.slaves = m.slaves
      BY <2>2
    <3> QED
      BY <2>2, <3>1, <3>2
  <2>4. ASSUME NEW a \in Slaves(m)
        PROVE  t[a] \in SlaveRecord /\ t[a].flags = m.slaves[a].flags \ {"RECONF_SENT"}
    <3>1. /\ m.slaves[a] = [flags |-> m.slaves[a].flags, runid |-> m.slaves[a].runid]
          /\ m.slaves[a].flags \subseteq SlaveFlags /\ m.slaves[a].runid \in Nat
      BY MasterFields DEF Good
    <3>2. t[a] = [m.slaves[a] EXCEPT !.flags = @ \ {"RECONF_SENT"}]
      OBVIOUS
    <3> HIDE DEF t
    <3> QED
      BY <3>1, <3>2 DEF SlaveRecord
  <2>5. t \in [Slaves(m) -> SlaveRecord]
    BY <2>4
  <2> HIDE DEF t, n, fl
  <2>6. n = [addr |-> m.addr, flags |-> fl, fstate |-> "RECONF_SLAVES", promoted |-> m.promoted,
             slaves |-> t, sent |-> m.sent]
    BY <2>2, <2>3
  <2>7. fl \in SUBSET MasterFlags /\ "RECONF_SLAVES" \in States
    BY MasterFields DEF Good, MasterFlags, States, fl
  <2>8. IsMaster(n) /\ Slaves(n) = Slaves(m)
    BY <2>5, <2>6, <2>7, MasterFields, MasterRecord DEF Good
  <2>9. \A a \in Slaves(m) : Has(n, a, "PROMOTED") <=> Has(m, a, "PROMOTED")
    BY <2>4, <2>6 DEF Has
  <2>10. FailoverInv(n, s)
    BY <2>1, <2>6, <2>8, <2>9 DEF Good, FailoverInv, Following, fl
  <2> QED
    BY <2>6, <2>8, <2>10 DEF Good, n, g
<1>4. sentinelStartFailoverIfNeeded(m, won, el, stale) =
        IF ~won \/ m.flags \cap {"O_DOWN", "FAILOVER_IN_PROGRESS"} = {} THEN m
        ELSE IF "FAILOVER_IN_PROGRESS" \in m.flags
             THEN IF "I_AM_THE_LEADER" \in m.flags \/ "quarter" \notin el THEN m
                  ELSE sentinelDelFlagsToDictOfRedisInstances(Go("RECONF_SLAVES"), {"RECONF_SENT"})
             ELSE IF sentinelSelectSlave(m, stale) = None THEN m ELSE Go("WAIT_START")
  BY DEF sentinelStartFailoverIfNeeded
<1>5. Go("WAIT_START").addr = m.addr /\ Go("WAIT_START").fstate = "WAIT_START"
  BY <1>1
<1> HIDE DEF Go
<1> QED
  BY <1>2, <1>3, <1>4, <1>5

\* What each state of the leader, or of an observer, does.
LEMMA DetectEndKeeps ==
    ASSUME NEW m, NEW s, Good(m, s), m.fstate \in {"RECONF_SLAVES", "DETECT_END"}, NEW el
    PROVE  LET n == sentinelFailoverDetectEnd(m, el)
           IN  Good(n, s) /\ n.addr = m.addr
<1> DEFINE late == "timeout" \in el
           left == {a \in Slaves(m) : m.slaves[a].flags \cap {"PROMOTED", "RECONF_DONE", "S_DOWN"} = {}}
           be   == {a \in Slaves(m) : m.slaves[a].flags \cap {"RECONF_DONE", "RECONF_SENT", "DISCONNECTED"} = {}}
           sent == IF late /\ "I_AM_THE_LEADER" \in m.flags THEN be ELSE {}
           st   == IF late \/ left = {} THEN "UPDATE_CONFIG" ELSE m.fstate
           F(a) == m.slaves[a].flags \cup IF a \in sent THEN {"RECONF_SENT"} ELSE {}
           t    == [a \in Slaves(m) |-> [m.slaves[a] EXCEPT !.flags = F(a)]]
           snd  == m.sent \cup {<<a, m.promoted>> : a \in sent}
           n    == [m EXCEPT !.fstate = st, !.sent = snd, !.slaves = t]
<1>1. sentinelFailoverDetectEnd(m, el) \in {m, n}
  BY DEF sentinelFailoverDetectEnd
<1>2. m = [addr |-> m.addr, flags |-> m.flags, fstate |-> m.fstate, promoted |-> m.promoted,
           slaves |-> m.slaves, sent |-> m.sent]
  BY MasterFields DEF Good
<1>3. n = [addr |-> m.addr, flags |-> m.flags, fstate |-> st, promoted |-> m.promoted, slaves |-> t, sent |-> snd]
  <2>1. n = [m EXCEPT !.fstate = st, !.sent = snd, !.slaves = t]
    OBVIOUS
  <2> HIDE DEF n, st, snd, t
  <2> QED
    BY <1>2, <2>1
<1>4. /\ m.promoted \in Addr /\ m.promoted # None /\ m.promoted \in s
      /\ sent \subseteq Slaves(m) /\ Slaves(m) \subseteq Addr
      /\ m.sent \subseteq Addr \X (Addr \cup {None})
  BY MasterFields DEF Good, FailoverInv, Following
<1>5. ASSUME NEW a \in Slaves(m) PROVE t[a] \in SlaveRecord /\ t[a].flags = F(a)
  <2>1. /\ m.slaves[a] = [flags |-> m.slaves[a].flags, runid |-> m.slaves[a].runid]
        /\ m.slaves[a].flags \subseteq SlaveFlags /\ m.slaves[a].runid \in Nat
    BY MasterFields DEF Good
  <2>2. F(a) \subseteq SlaveFlags
    BY <2>1 DEF SlaveFlags
  <2>3. t[a] = [m.slaves[a] EXCEPT !.flags = F(a)]
    OBVIOUS
  <2> HIDE DEF t, F
  <2> QED
    BY <2>1, <2>2, <2>3 DEF SlaveRecord
<1> HIDE DEF t
<1>6. t \in [Slaves(m) -> SlaveRecord]
  <2>1. t = [a \in Slaves(m) |-> t[a]]
    BY DEF t
  <2> QED
    BY <1>5, <2>1
<1> HIDE DEF sent, be
<1>7. snd \in SUBSET (Addr \X (Addr \cup {None}))
  BY <1>4
<1>8. st \in {m.fstate, "UPDATE_CONFIG"} /\ st \in States
  BY MasterFields DEF Good, States
<1>9. IsMaster(n) /\ Slaves(n) = Slaves(m)
  <2> HIDE DEF n, st, snd
  <2> QED
    BY <1>3, <1>6, <1>7, <1>8, MasterFields, MasterRecord DEF Good
<1> HIDE DEF n, st, snd
<1>10. \A a \in Slaves(m) : Has(n, a, "PROMOTED") <=> Has(m, a, "PROMOTED")
  BY <1>3, <1>5 DEF Has
<1>11. FailoverInv(n, s)
  BY <1>3, <1>4, <1>8, <1>9, <1>10 DEF Good, FailoverInv, Following
<1> QED
  BY <1>1, <1>3, <1>9, <1>11 DEF Good

LEMMA ReconfKeeps ==
    ASSUME NEW m, NEW s, Good(m, s), m.fstate = "RECONF_SLAVES", NEW el
    PROVE  LET n == sentinelFailoverReconfNextSlave(m, el)
           IN  Good(n, s) /\ n.addr = m.addr
<1>1. ASSUME NEW told, NEW cleared, told \subseteq Slaves(m)
      PROVE  LET n == [m EXCEPT !.slaves = [a \in Slaves(m) |->
                                [m.slaves[a] EXCEPT !.flags =
                                    IF a \in told THEN @ \cup {"RECONF_SENT"}
                                    ELSE IF a \in cleared
                                         THEN m.slaves[a].flags
                                                \ (IF "reconf" \in el THEN {"RECONF_SENT"} ELSE {})
                                         ELSE @]],
                                !.sent = @ \cup {<<a, m.promoted>> : a \in told}]
             IN  Good(n, s) /\ n.addr = m.addr /\ n.fstate = "RECONF_SLAVES"
  <2> DEFINE F(a) == IF a \in told THEN m.slaves[a].flags \cup {"RECONF_SENT"}
                     ELSE IF a \in cleared
                          THEN m.slaves[a].flags \ (IF "reconf" \in el THEN {"RECONF_SENT"} ELSE {})
                          ELSE m.slaves[a].flags
             t    == [a \in Slaves(m) |-> [m.slaves[a] EXCEPT !.flags = F(a)]]
             snd  == m.sent \cup {<<a, m.promoted>> : a \in told}
             n    == [m EXCEPT !.slaves = t, !.sent = snd]
  <2>2. m = [addr |-> m.addr, flags |-> m.flags, fstate |-> m.fstate, promoted |-> m.promoted,
             slaves |-> m.slaves, sent |-> m.sent]
    BY MasterFields DEF Good
  <2>3. n = [addr |-> m.addr, flags |-> m.flags, fstate |-> m.fstate, promoted |-> m.promoted,
             slaves |-> t, sent |-> snd]
    <3>1. n = [m EXCEPT !.slaves = t, !.sent = snd]
      OBVIOUS
    <3> HIDE DEF n, snd, t
    <3> QED
      BY <2>2, <3>1
  <2>4. m.promoted \in Addr /\ Slaves(m) \subseteq Addr /\ m.sent \subseteq Addr \X (Addr \cup {None})
        /\ m.promoted # None
    BY MasterFields DEF Good, FailoverInv, Following
  <2>5. ASSUME NEW a \in Slaves(m) PROVE t[a] \in SlaveRecord /\ t[a].flags = F(a)
    <3>1. /\ m.slaves[a] = [flags |-> m.slaves[a].flags, runid |-> m.slaves[a].runid]
          /\ m.slaves[a].flags \subseteq SlaveFlags /\ m.slaves[a].runid \in Nat
      BY MasterFields DEF Good
    <3>2. F(a) \subseteq SlaveFlags
      BY <3>1 DEF SlaveFlags
    <3>3. t[a] = [m.slaves[a] EXCEPT !.flags = F(a)]
      OBVIOUS
    <3> HIDE DEF t, F
    <3> QED
      BY <3>1, <3>2, <3>3 DEF SlaveRecord
  <2>6. snd \in SUBSET (Addr \X (Addr \cup {None}))
    BY <1>1, <2>4
  <2> HIDE DEF t, snd, n
  <2>7. t \in [Slaves(m) -> SlaveRecord]
    <3>1. t = [a \in Slaves(m) |-> t[a]]
      BY DEF t
    <3> QED
      BY <2>5, <3>1
  <2>8. IsMaster(n) /\ Slaves(n) = Slaves(m)
    BY <2>3, <2>6, <2>7, MasterFields, MasterRecord DEF Good
  <2>9. \A a \in Slaves(m) : Has(n, a, "PROMOTED") <=> Has(m, a, "PROMOTED")
    <3>1. \A a \in Slaves(m) : "PROMOTED" \in F(a) <=> "PROMOTED" \in m.slaves[a].flags
      OBVIOUS
    <3>2. n.slaves = t
      BY <2>3
    <3> HIDE DEF F
    <3> QED
      BY <2>5, <3>1, <3>2 DEF Has
  <2>10. SameFailover(m, n)
    BY <2>3 DEF SameFailover
  <2>11. m.fstate \in Following
    BY DEF Following
  <2>12. Good(n, s)
    BY <2>8, <2>9, <2>10, <2>11, SlavesChange
  <2> QED
    BY <2>3, <2>12 DEF n, t, snd
<1> DEFINE busy   == {a \in Slaves(m) : m.slaves[a].flags \cap {"RECONF_SENT", "RECONF_INPROG"} # {}}
           room   == PARALLEL_SYNCS - Cardinality(busy)
           open   == {a \in Slaves(m) : m.slaves[a].flags \cap {"PROMOTED", "RECONF_DONE"} = {}}
           Left(a) == m.slaves[a].flags \ (IF "reconf" \in el THEN {"RECONF_SENT"} ELSE {})
           due    == {a \in open : Left(a) \cap {"DISCONNECTED", "RECONF_SENT", "RECONF_INPROG"} = {}}
           passed == IF room <= 0 THEN {}
                     ELSE CHOOSE p \in SUBSET Slaves(m) :
                               \/ p = Slaves(m) /\ Cardinality(due) <= room
                               \/ Cardinality(p \cap due) = room
           told   == passed \cap due
           n      == [m EXCEPT !.slaves = [a \in Slaves(m) |->
                                   [m.slaves[a] EXCEPT !.flags = IF a \in told THEN @ \cup {"RECONF_SENT"}
                                                                 ELSE IF a \in passed \cap open THEN Left(a) ELSE @]],
                               !.sent = @ \cup {<<a, m.promoted>> : a \in told}]
<1>2. sentinelFailoverReconfNextSlave(m, el) = sentinelFailoverDetectEnd(n, el)
  BY DEF sentinelFailoverReconfNextSlave
<1>3. told \subseteq Slaves(m)
  OBVIOUS
<1>4. Good(n, s) /\ n.addr = m.addr /\ n.fstate = "RECONF_SLAVES"
  <2> HIDE DEF told, passed, open
  <2> QED
    BY <1>1, <1>3
<1> HIDE DEF n
<1> QED
  BY <1>2, <1>4, DetectEndKeeps

LEMMA StateMachineKeeps ==
    ASSUME NEW m, NEW s, Good(m, s), m.fstate # "UPDATE_CONFIG", NEW el, NEW stale
    PROVE  LET n == sentinelFailoverStateMachine(m, el, stale)
           IN  Good(n, s) /\ n.addr = m.addr
<1>1. m = [addr |-> m.addr, flags |-> m.flags, fstate |-> m.fstate, promoted |-> m.promoted,
           slaves |-> m.slaves, sent |-> m.sent]
  BY MasterFields DEF Good
<1>2. IsMaster(m)
  BY DEF Good
\* The same record but for the state, the promoted slave and its flags.
<1>3. ASSUME NEW n, NEW st \in States, NEW p \in Addr \cup {None}, NEW t \in [Slaves(m) -> SlaveRecord],
             NEW snd \in SUBSET (Addr \X (Addr \cup {None})),
             n = [addr |-> m.addr, flags |-> m.flags, fstate |-> st, promoted |-> p, slaves |-> t, sent |-> snd]
      PROVE  IsMaster(n) /\ Slaves(n) = Slaves(m)
  BY <1>3, MasterFields, MasterRecord DEF Good
<1>4. ASSUME m.fstate = "WAIT_START"
      PROVE  LET n == sentinelFailoverWaitStart(m, el) IN Good(n, s) /\ n.addr = m.addr
  <2> DEFINE n == [m EXCEPT !.fstate = "SELECT_SLAVE"]
  <2>1. n = [addr |-> m.addr, flags |-> m.flags, fstate |-> "SELECT_SLAVE", promoted |-> m.promoted,
             slaves |-> m.slaves, sent |-> m.sent]
    BY <1>1
  <2> HIDE DEF n
  <2>2. IsMaster(n) /\ Slaves(n) = Slaves(m)
    BY <1>3, <2>1, MasterFields DEF Good, States
  <2>3. FailoverInv(n, s)
    BY <1>4, <2>1, <2>2 DEF Good, FailoverInv, Following, Has
  <2>4. sentinelFailoverWaitStart(m, el) \in {m, n, sentinelAbortFailover(m)}
    BY DEF sentinelFailoverWaitStart, n
  <2>5. n.addr = m.addr
    BY <2>1
  <2> QED
    BY <2>2, <2>3, <2>4, <2>5, AbortKeeps DEF Good
<1>5. ASSUME m.fstate = "SELECT_SLAVE", NEW a, a = None \/ a \in Slaves(m)
      PROVE  LET n == sentinelFailoverSelectSlave(m, a) IN Good(n, s) /\ n.addr = m.addr
  <2>1. CASE a = None
    BY <2>1, AbortKeeps DEF sentinelFailoverSelectSlave
  <2>2. CASE a # None
    <3> DEFINE f == Flag(m, a, {"PROMOTED"})
               n == [f EXCEPT !.promoted = a, !.fstate = "SEND_SLAVEOF_NOONE"]
    <3>1. /\ IsMaster(f) /\ SameFailover(m, f) /\ Slaves(f) = Slaves(m) /\ f.flags = m.flags
          /\ \A b \in Slaves(m) : \A x : Has(f, b, x) <=> Has(m, b, x) \/ (b = a /\ x \in {"PROMOTED"})
      BY <1>2, <1>5, <2>2, FlagFacts DEF SlaveFlags
    <3> HIDE DEF f
    <3>2. n = [addr |-> f.addr, flags |-> f.flags, fstate |-> "SEND_SLAVEOF_NOONE", promoted |-> a,
               slaves |-> f.slaves, sent |-> f.sent]
      <4>1. f = [addr |-> f.addr, flags |-> f.flags, fstate |-> f.fstate, promoted |-> f.promoted,
                 slaves |-> f.slaves, sent |-> f.sent]
        BY <3>1, MasterFields
      <4>2. n = [f EXCEPT !.promoted = a, !.fstate = "SEND_SLAVEOF_NOONE"]
        OBVIOUS
      <4> HIDE DEF n
      <4> QED
        BY <4>1, <4>2
    <3> HIDE DEF n
    <3>3. a \in Addr /\ a \in Slaves(m)
      BY <1>2, <1>5, <2>2, MasterFields
    <3>4. IsMaster(n) /\ Slaves(n) = Slaves(m)
      BY <3>1, <3>2, <3>3, MasterFields, MasterRecord DEF States
    <3>5. m.promoted = None /\ \A b \in Slaves(m) : ~Has(m, b, "PROMOTED")
      BY <1>2, <1>5, NoneIsNoAddress, MasterFields DEF Good, FailoverInv, Following
    <3>6. \A b \in Slaves(m) : Has(n, b, "PROMOTED") <=> b = a
      BY <3>1, <3>2, <3>5 DEF Has
    <3>7. n.addr = m.addr /\ n.flags = m.flags /\ n.fstate = "SEND_SLAVEOF_NOONE" /\ n.promoted = a
      BY <3>1, <3>2 DEF SameFailover
    <3>8. \A b \in Slaves(m) : ~Has(n, b, "RECONF_SENT")
      BY <1>5, <3>1, <3>2 DEF Has, Good, FailoverInv, Following
    <3>9. FailoverInv(n, s)
      BY <1>5, <2>2, <3>3, <3>4, <3>6, <3>7, <3>8 DEF Good, FailoverInv, Following
    <3> QED
      BY <2>2, <3>4, <3>7, <3>9 DEF Good, sentinelFailoverSelectSlave, n, f
  <2> QED
    BY <2>1, <2>2
<1>6. ASSUME m.fstate = "SEND_SLAVEOF_NOONE"
      PROVE  LET n == sentinelFailoverSendSlaveOfNoOne(m) IN Good(n, s) /\ n.addr = m.addr
  <2> DEFINE snd == m.sent \cup {<<m.promoted, None>>}
             n   == [SendSlaveof(m, m.promoted, None) EXCEPT !.fstate = "WAIT_PROMOTION"]
  <2>1. n = [addr |-> m.addr, flags |-> m.flags, fstate |-> "WAIT_PROMOTION", promoted |-> m.promoted,
             slaves |-> m.slaves, sent |-> snd]
    <3> DEFINE o == SendSlaveof(m, m.promoted, None)
    <3>1. o = [addr |-> m.addr, flags |-> m.flags, fstate |-> m.fstate, promoted |-> m.promoted,
               slaves |-> m.slaves, sent |-> snd]
      <4>1. o = [m EXCEPT !.sent = snd]
        BY DEF SendSlaveof
      <4> HIDE DEF o, snd
      <4> QED
        BY <1>1, <4>1
    <3>2. n = [o EXCEPT !.fstate = "WAIT_PROMOTION"]
      OBVIOUS
    <3> HIDE DEF o, n, snd
    <3> QED
      BY <3>1, <3>2
  <2>2. snd \in SUBSET (Addr \X (Addr \cup {None}))
    <3>1. m.promoted \in Addr /\ m.sent \subseteq Addr \X (Addr \cup {None})
      BY <1>2, <1>6, MasterFields DEF Good, FailoverInv, Following
    <3> QED
      BY <3>1
  <2> HIDE DEF n, snd
  <2>3. IsMaster(n) /\ Slaves(n) = Slaves(m)
    BY <1>3, <2>1, <2>2, MasterFields DEF Good, States
  <2>4. FailoverInv(n, s)
    BY <1>6, <2>1, <2>3 DEF Good, FailoverInv, Following, Has
  <2>5. sentinelFailoverSendSlaveOfNoOne(m) \in {m, n} /\ n.addr = m.addr
    BY <2>1 DEF sentinelFailoverSendSlaveOfNoOne, n
  <2> QED
    BY <2>3, <2>4, <2>5 DEF Good
<1>7. ASSUME m.fstate = "WAIT_PROMOTION"
      PROVE  LET n == sentinelFailoverWaitPromotion(m, el) IN Good(n, s) /\ n.addr = m.addr
  <2> DEFINE p == m.promoted
             f == Unflag(m, p, {"PROMOTED"})
             n == [f EXCEPT !.fstate = "SELECT_SLAVE", !.promoted = None]
  <2>1. p \in Slaves(m) /\ \A b \in Slaves(m) : Has(m, b, "PROMOTED") <=> b = p
    BY <1>7 DEF Good, FailoverInv, Following
  <2> HIDE DEF p
  <2>2. /\ IsMaster(f) /\ SameFailover(m, f) /\ Slaves(f) = Slaves(m) /\ f.flags = m.flags
        /\ \A b \in Slaves(m) : \A x : Has(f, b, x) <=> Has(m, b, x) /\ ~(b = p /\ x \in {"PROMOTED"})
    BY <1>2, <2>1, FlagFacts DEF SlaveFlags
  <2> HIDE DEF f
  <2>3. n = [addr |-> f.addr, flags |-> f.flags, fstate |-> "SELECT_SLAVE", promoted |-> None,
             slaves |-> f.slaves, sent |-> f.sent]
    <3>1. f = [addr |-> f.addr, flags |-> f.flags, fstate |-> f.fstate, promoted |-> f.promoted,
               slaves |-> f.slaves, sent |-> f.sent]
      BY <2>2, MasterFields
    <3>2. n = [f EXCEPT !.fstate = "SELECT_SLAVE", !.promoted = None]
      OBVIOUS
    <3> HIDE DEF n
    <3> QED
      BY <3>1, <3>2
  <2> HIDE DEF n
  <2>4. IsMaster(n) /\ Slaves(n) = Slaves(m)
    BY <2>2, <2>3, MasterFields, MasterRecord DEF States
  <2>5. n.addr = m.addr /\ n.flags = m.flags /\ n.fstate = "SELECT_SLAVE" /\ n.promoted = None
    BY <2>2, <2>3 DEF SameFailover
  <2>6. \A b \in Slaves(m) : ~Has(n, b, "PROMOTED") /\ b # None
    BY <1>2, <2>1, <2>2, <2>3, NoneIsNoAddress, MasterFields DEF Has
  <2>7. \A b \in Slaves(m) : ~Has(n, b, "RECONF_SENT")
    BY <1>7, <2>2, <2>3 DEF Has, Good, FailoverInv, Following
  <2>8. FailoverInv(n, s)
    BY <1>7, <2>4, <2>5, <2>6, <2>7 DEF Good, FailoverInv, Following
  <2>9. sentinelFailoverWaitPromotion(m, el) \in {m, n}
    BY DEF sentinelFailoverWaitPromotion, n, f, p
  <2> QED
    BY <2>4, <2>5, <2>8, <2>9 DEF Good
<1> QED
  BY <1>2, <1>4, <1>5, <1>6, <1>7, SelectFacts, ReconfKeeps, DetectEndKeeps DEF sentinelFailoverStateMachine

\* A promoted slave that is down ends the failover.
LEMMA AbortIfNeededKeeps ==
    ASSUME NEW m, NEW s, Good(m, s), NEW el
    PROVE  LET n == sentinelAbortFailoverIfNeeded(m, el)
           IN  Good(n, s) /\ n.addr = m.addr
<1>1. sentinelAbortFailoverIfNeeded(m, el) \in {m, sentinelAbortFailover(m)}
  BY DEF sentinelAbortFailoverIfNeeded
<1> QED
  BY <1>1, AbortKeeps

\* The address changes only from UPDATE_CONFIG, to that of the promoted
\* slave, and the failover is over.
LEMMA SwitchKeeps ==
    ASSUME NEW m, NEW s, Good(m, s)
    PROVE  LET n == sentinelFailoverSwitchToPromotedSlave(m)
           IN  /\ n.addr # m.addr => n.addr \in s
               /\ Good(n, IF n.addr = m.addr THEN s ELSE {}) /\ n.fstate # "UPDATE_CONFIG"
<1>1. CASE m.fstate # "UPDATE_CONFIG"
  BY <1>1 DEF sentinelFailoverSwitchToPromotedSlave
<1>2. CASE m.fstate = "UPDATE_CONFIG"
  <2> DEFINE o == sentinelResetMasterAndChangeAddress(m, m.promoted)
             n == createSentinelRedisInstance(o, {m.addr}, {"DEMOTE"})
  <2>1. m.promoted # None /\ m.promoted \in s /\ m.promoted \in Addr /\ m.addr \in Addr
    BY <1>2, MasterFields DEF Good, FailoverInv, Following
  <2>2. ASSUME NEW r \in SUBSET Addr
        PROVE  Good(n, r) /\ n.addr = m.promoted /\ n.fstate = "NONE"
    <3>1. Good(o, r) /\ o.addr = m.promoted /\ o.fstate = "NONE"
      BY <2>1, <2>2, ResetKeeps
    <3> DEFINE old == {m.addr}
               f   == {"DEMOTE"}
    <3>2. old \in SUBSET Addr /\ f \in SUBSET (SlaveFlags \ {"PROMOTED", "RECONF_SENT"})
      BY <2>1 DEF SlaveFlags
    <3>3. n = createSentinelRedisInstance(o, old, f)
      OBVIOUS
    <3> HIDE DEF o, old, f, n
    <3>4. Good(n, r) /\ SameFailover(o, n)
      BY <3>1, <3>2, <3>3, CreateKeeps
    <3> QED
      BY <3>1, <3>4 DEF SameFailover
  <2>3. sentinelFailoverSwitchToPromotedSlave(m) = n
    BY <1>2, <2>1 DEF sentinelFailoverSwitchToPromotedSlave
  <2> HIDE DEF n
  <2>4. s \in SUBSET Addr /\ {} \in SUBSET Addr
    BY DEF Good
  <2> QED
    BY <2>1, <2>2, <2>3, <2>4
<1> QED
  BY <1>1, <1>2

\* The whole handler of the master.
LEMMA HandleMasterKeeps ==
    ASSUME NEW m, NEW s, Good(m, s), m.fstate # "UPDATE_CONFIG",
           NEW down, NEW agree, NEW won, NEW el, NEW stale
    PROVE  LET n == HandleMaster(m, down, agree, won, el, stale)
           IN  /\ n.addr # m.addr => n.addr \in s
               /\ Good(n, IF n.addr = m.addr THEN s ELSE {}) /\ n.fstate # "UPDATE_CONFIG"
<1> DEFINE g   == sentinelCheckSubjectivelyDown(m.flags, down)
           sd  == [m EXCEPT !.flags = sentinelCheckSubjectivelyDown(@, down)]
           o   == sentinelCheckObjectivelyDown(sd, agree)
           st  == sentinelStartFailoverIfNeeded(o, won, el, stale)
           e   == IF st.fstate = m.fstate THEN el ELSE el \ {"timeout"}
           ma  == sentinelFailoverStateMachine(st, e, stale)
           ab  == sentinelAbortFailoverIfNeeded(ma, e)
           n   == sentinelFailoverSwitchToPromotedSlave(ab)
<1>1. Good(sd, s) /\ sd.addr = m.addr /\ sd.fstate = m.fstate
  <2>1. g \in SUBSET MasterFlags /\ {"FAILOVER_IN_PROGRESS", "I_AM_THE_LEADER"} \cap g
                                      = {"FAILOVER_IN_PROGRESS", "I_AM_THE_LEADER"} \cap m.flags
    BY MasterFields DEF Good, sentinelCheckSubjectivelyDown, MasterFlags
  <2>2. sd = [m EXCEPT !.flags = g]
    OBVIOUS
  <2> HIDE DEF g, sd
  <2>3. Good(sd, s) /\ SameFailover(m, sd)
    BY <2>1, <2>2, FlagsChange
  <2> QED
    BY <2>3 DEF SameFailover
<1> HIDE DEF sd
<1>2. Good(o, s) /\ o.addr = m.addr /\ o.fstate = m.fstate
  <2>1. ASSUME NEW h \in {sd.flags \cup {"O_DOWN"}, sd.flags \ {"O_DOWN"}}
        PROVE  Good([sd EXCEPT !.flags = h], s) /\ SameFailover(sd, [sd EXCEPT !.flags = h])
    <3>1. h \in SUBSET MasterFlags /\ {"FAILOVER_IN_PROGRESS", "I_AM_THE_LEADER"} \cap h
                                        = {"FAILOVER_IN_PROGRESS", "I_AM_THE_LEADER"} \cap sd.flags
      BY <1>1, <2>1, MasterFields DEF Good, MasterFlags
    <3> QED
      BY <1>1, <3>1, FlagsChange
  <2>2. \E h \in {sd.flags \cup {"O_DOWN"}, sd.flags \ {"O_DOWN"}} : o = [sd EXCEPT !.flags = h]
    BY DEF sentinelCheckObjectivelyDown
  <2> HIDE DEF o
  <2>3. Good(o, s) /\ SameFailover(sd, o)
    BY <2>1, <2>2
  <2> QED
    BY <1>1, <2>3 DEF SameFailover
<1> HIDE DEF o
<1>3. Good(st, s) /\ st.addr = m.addr /\ st.fstate # "UPDATE_CONFIG"
  BY <1>2, StartKeeps
<1> HIDE DEF st, e
<1>4. Good(ma, s) /\ ma.addr = m.addr
  BY <1>3, StateMachineKeeps
<1> HIDE DEF ma
<1>5. Good(ab, s) /\ ab.addr = m.addr
  BY <1>4, AbortIfNeededKeeps
<1> HIDE DEF ab
<1>6. /\ n.addr # m.addr => n.addr \in s
      /\ Good(n, IF n.addr = m.addr THEN s ELSE {}) /\ n.fstate # "UPDATE_CONFIG"
  BY <1>5, SwitchKeeps
<1>7. HandleMaster(m, down, agree, won, el, stale) = n
  BY DEF HandleMaster, Act, n, ab, ma, e, st, o, sd
<1> HIDE DEF n
<1> QED
  BY <1>6, <1>7

----------------------------------------------------------------------------
(* The replies to INFO *)

\* One more instance that said it is a master.
LEMMA MoreMasters ==
    ASSUME NEW m, NEW s, Good(m, s), NEW a \in Addr
    PROVE  Good(m, s \cup {a})
  BY DEF Good, FailoverInv

LEMMA FlagKeeps ==
    ASSUME NEW m, NEW s, Good(m, s), NEW a \in Slaves(m), NEW f \in SUBSET (SlaveFlags \ {"PROMOTED"})
    PROVE  /\ Good(Unflag(m, a, f), s) /\ SameFailover(m, Unflag(m, a, f))
           /\ Slaves(Unflag(m, a, f)) = Slaves(m)
           /\ "RECONF_SENT" \notin f => /\ Good(Flag(m, a, f), s) /\ SameFailover(m, Flag(m, a, f))
                                        /\ Slaves(Flag(m, a, f)) = Slaves(m)
<1>1. IsMaster(m) /\ f \in SUBSET SlaveFlags
  BY DEF Good
<1> DEFINE u == Unflag(m, a, f)
           g == Flag(m, a, f)
<1>2. /\ IsMaster(g) /\ IsMaster(u) /\ SameFailover(m, g) /\ SameFailover(m, u)
      /\ Slaves(g) = Slaves(m) /\ Slaves(u) = Slaves(m)
      /\ \A b \in Slaves(m) : \A x :
            /\ Has(g, b, x) <=> Has(m, b, x) \/ (b = a /\ x \in f)
            /\ Has(u, b, x) <=> Has(m, b, x) /\ ~(b = a /\ x \in f)
  BY <1>1, FlagFacts
<1> HIDE DEF u, g
<1>3. Good(u, s)
  BY <1>2, SlavesChange
<1>4. "RECONF_SENT" \notin f => Good(g, s)
  BY <1>2, SlavesChange
<1> QED
  BY <1>2, <1>3, <1>4 DEF u, g

LEMMA SendKeeps ==
    ASSUME NEW m, NEW s, Good(m, s), NEW a \in Addr, NEW to \in Addr \cup {None}
    PROVE  Good(SendSlaveof(m, a, to), s) /\ SameFailover(m, SendSlaveof(m, a, to))
<1> DEFINE n   == SendSlaveof(m, a, to)
           snd == m.sent \cup {<<a, to>>}
<1>1. n = [addr |-> m.addr, flags |-> m.flags, fstate |-> m.fstate, promoted |-> m.promoted,
           slaves |-> m.slaves, sent |-> snd]
  <2>1. m = [addr |-> m.addr, flags |-> m.flags, fstate |-> m.fstate, promoted |-> m.promoted,
             slaves |-> m.slaves, sent |-> m.sent]
    BY MasterFields DEF Good
  <2>2. n = [m EXCEPT !.sent = snd]
    BY DEF SendSlaveof
  <2> HIDE DEF n, snd
  <2> QED
    BY <2>1, <2>2
<1>2. snd \in SUBSET (Addr \X (Addr \cup {None}))
  BY MasterFields DEF Good
<1> HIDE DEF n, snd
<1>3. IsMaster(n) /\ Slaves(n) = Slaves(m)
  BY <1>1, <1>2, MasterFields, MasterRecord DEF Good
<1>4. SameFailover(m, n) /\ n.slaves = m.slaves
  BY <1>1 DEF SameFailover
<1>5. Good(n, s)
  BY <1>3, <1>4, SlavesChange DEF Has
<1> QED
  BY <1>4, <1>5 DEF n

LEMMA RunidKeeps ==
    ASSUME NEW m, NEW s, Good(m, s), NEW a \in Slaves(m), NEW r \in Nat
    PROVE  LET n == [m EXCEPT !.slaves[a].runid = r]
           IN  Good(n, s) /\ SameFailover(m, n) /\ Slaves(n) = Slaves(m)
<1> DEFINE t == [m.slaves EXCEPT ![a].runid = r]
           n == [m EXCEPT !.slaves[a].runid = r]
<1>1. n = [addr |-> m.addr, flags |-> m.flags, fstate |-> m.fstate, promoted |-> m.promoted,
           slaves |-> t, sent |-> m.sent]
  BY MasterFields DEF Good
<1>2. t \in [Slaves(m) -> SlaveRecord] /\ \A b \in Slaves(m) : t[b].flags = m.slaves[b].flags
  BY MasterFields DEF Good, SlaveRecord
<1> HIDE DEF t, n
<1>3. IsMaster(n) /\ Slaves(n) = Slaves(m)
  BY <1>1, <1>2, MasterFields, MasterRecord DEF Good
<1>4. SameFailover(m, n) /\ n.slaves = t
  BY <1>1 DEF SameFailover
<1>5. Good(n, s)
  BY <1>2, <1>3, <1>4, SlavesChange DEF Has
<1> QED
  BY <1>3, <1>4, <1>5 DEF n

\* A slave is removed only while there is no failover.
LEMMA RemoveKeeps ==
    ASSUME NEW m, NEW s, Good(m, s), "FAILOVER_IN_PROGRESS" \notin m.flags, NEW a
    PROVE  LET n == [m EXCEPT !.slaves = [b \in Slaves(m) \ {a} |-> m.slaves[b]]]
           IN  Good(n, s) /\ SameFailover(m, n)
<1> DEFINE left == Slaves(m) \ {a}
           t    == [b \in left |-> m.slaves[b]]
           n    == [m EXCEPT !.slaves = t]
<1>1. n = [addr |-> m.addr, flags |-> m.flags, fstate |-> m.fstate, promoted |-> m.promoted,
           slaves |-> t, sent |-> m.sent]
  <2>1. m = [addr |-> m.addr, flags |-> m.flags, fstate |-> m.fstate, promoted |-> m.promoted,
             slaves |-> m.slaves, sent |-> m.sent]
    BY MasterFields DEF Good
  <2>2. n = [m EXCEPT !.slaves = t]
    OBVIOUS
  <2> HIDE DEF n, t
  <2> QED
    BY <2>1, <2>2
<1>2. t \in [left -> SlaveRecord] /\ left \in SUBSET Addr /\ \A b \in left : t[b] = m.slaves[b]
  BY MasterFields DEF Good
<1>3. left \subseteq Slaves(m)
  OBVIOUS
<1> HIDE DEF t, n, left
<1>4. IsMaster(n) /\ Slaves(n) = left
  BY <1>1, <1>2, MasterFields, MasterRecord DEF Good
<1>5. SameFailover(m, n) /\ n.slaves = t
  BY <1>1 DEF SameFailover
<1>6. m.fstate = "NONE" /\ m.promoted = None
  BY DEF Good, FailoverInv
<1>7. \A b \in left : ~Has(n, b, "PROMOTED") /\ ~Has(n, b, "RECONF_SENT") /\ b # None
  BY <1>2, <1>3, <1>5, <1>6, NoneIsNoAddress DEF Has, Good, FailoverInv, Following
<1>8. FailoverInv(n, s)
  BY <1>4, <1>5, <1>6, <1>7 DEF FailoverInv, Following, SameFailover, Good
<1> QED
  BY <1>4, <1>5, <1>8 DEF Good, n, t, left

\* A slave that is promoted although no failover, or none that has selected
\* one, is in progress: this Sentinel follows the failover of another one.
LEMMA DetectedKeeps ==
    ASSUME NEW m, NEW s, Good(m, s), NEW a \in Slaves(m),
           "FAILOVER_IN_PROGRESS" \in m.flags => m.fstate = "WAIT_START"
    PROVE  LET n == FailoverDetected(m, a)
           IN  Good(n, s \cup {a}) /\ n.addr = m.addr /\ n.fstate = "DETECT_END"
<1> DEFINE r  == IF "FAILOVER_IN_PROGRESS" \in m.flags THEN sentinelAbortFailover(m) ELSE m
           fl == r.flags \cup {"FAILOVER_IN_PROGRESS"}
           o  == [r EXCEPT !.flags = @ \cup {"FAILOVER_IN_PROGRESS"}, !.fstate = "DETECT_END", !.promoted = a]
           p  == Flag(o, a, {"PROMOTED"})
           d  == Unflag(p, a, {"DEMOTE"})
           n  == sentinelAddFlagsToDictOfRedisInstances(d, {"RECONF_SENT"})
<1>1. Good(r, s) /\ r.addr = m.addr /\ r.fstate = "NONE" /\ Slaves(r) = Slaves(m)
  <2>1. CASE "FAILOVER_IN_PROGRESS" \in m.flags
    BY <2>1, AbortKeeps
  <2>2. CASE "FAILOVER_IN_PROGRESS" \notin m.flags
    BY <2>2 DEF Good, FailoverInv
  <2> QED
    BY <2>1, <2>2
<1> HIDE DEF r
<1>2. a \in Addr /\ r.promoted = None /\ "I_AM_THE_LEADER" \notin r.flags
      /\ \A b \in Slaves(m) : ~Has(r, b, "PROMOTED")
  BY <1>1, NoneIsNoAddress, MasterFields DEF Good, FailoverInv
<1>3. o = [addr |-> m.addr, flags |-> fl, fstate |-> "DETECT_END", promoted |-> a,
           slaves |-> r.slaves, sent |-> r.sent]
  <2>1. r = [addr |-> r.addr, flags |-> r.flags, fstate |-> r.fstate, promoted |-> r.promoted,
             slaves |-> r.slaves, sent |-> r.sent]
    BY <1>1, MasterFields DEF Good
  <2>2. o = [r EXCEPT !.flags = fl, !.fstate = "DETECT_END", !.promoted = a]
    OBVIOUS
  <2> HIDE DEF o, fl
  <2>3. o = [addr |-> r.addr, flags |-> fl, fstate |-> "DETECT_END", promoted |-> a,
             slaves |-> r.slaves, sent |-> r.sent]
    BY <2>1, <2>2
  <2> QED
    BY <1>1, <2>3
<1>4. fl \in SUBSET MasterFlags
  BY <1>1, MasterFields DEF Good, MasterFlags
<1> HIDE DEF o
<1>5. IsMaster(o) /\ Slaves(o) = Slaves(m)
  <2> HIDE DEF fl
  <2> QED
    BY <1>1, <1>2, <1>3, <1>4, MasterFields, MasterRecord DEF Good, States
<1>6. /\ IsMaster(p) /\ SameFailover(o, p) /\ Slaves(p) = Slaves(m) /\ p.flags = o.flags
      /\ \A b \in Slaves(m) : \A x : Has(p, b, x) <=> Has(o, b, x) \/ (b = a /\ x \in {"PROMOTED"})
  BY <1>5, FlagFacts DEF SlaveFlags
<1> HIDE DEF p
<1>7. /\ IsMaster(d) /\ SameFailover(p, d) /\ Slaves(d) = Slaves(m) /\ d.flags = p.flags
      /\ \A b \in Slaves(m) : \A x : Has(d, b, x) <=> Has(p, b, x) /\ ~(b = a /\ x \in {"DEMOTE"})
  BY <1>6, FlagFacts DEF SlaveFlags
<1> HIDE DEF d
<1>8. \A b \in Slaves(m) : Has(d, b, "PROMOTED") <=> b = a
  <2>1. \A b \in Slaves(m) : ~Has(o, b, "PROMOTED")
    BY <1>2, <1>3 DEF Has
  <2> QED
    BY <1>6, <1>7, <2>1
<1> DEFINE t == [b \in Slaves(d) |-> [d.slaves[b] EXCEPT !.flags = @ \cup {"RECONF_SENT"}]]
<1>9. ASSUME NEW b \in Slaves(m)
      PROVE  t[b] \in SlaveRecord /\ t[b].flags = d.slaves[b].flags \cup {"RECONF_SENT"}
  <2>1. /\ d.slaves[b] = [flags |-> d.slaves[b].flags, runid |-> d.slaves[b].runid]
        /\ d.slaves[b].flags \subseteq SlaveFlags /\ d.slaves[b].runid \in Nat
    BY <1>7, MasterFields
  <2>2. t[b] = [d.slaves[b] EXCEPT !.flags = @ \cup {"RECONF_SENT"}]
    BY <1>7
  <2> HIDE DEF t
  <2> QED
    BY <2>1, <2>2 DEF SlaveRecord, SlaveFlags
<1>10. t \in [Slaves(m) -> SlaveRecord]
  <2>1. t = [b \in Slaves(m) |-> t[b]]
    BY <1>7
  <2> HIDE DEF t
  <2> QED
    BY <1>9, <2>1
<1>11. n = [addr |-> d.addr, flags |-> d.flags, fstate |-> d.fstate, promoted |-> d.promoted,
            slaves |-> t, sent |-> d.sent]
  <2>1. d = [addr |-> d.addr, flags |-> d.flags, fstate |-> d.fstate, promoted |-> d.promoted,
             slaves |-> d.slaves, sent |-> d.sent]
    BY <1>7, MasterFields
  <2>2. n = [d EXCEPT !.slaves = t]
    BY DEF sentinelAddFlagsToDictOfRedisInstances
  <2> HIDE DEF n, t
  <2> QED
    BY <2>1, <2>2
<1> HIDE DEF t, n
<1>12. IsMaster(n) /\ Slaves(n) = Slaves(m)
  BY <1>7, <1>10, <1>11, MasterFields, MasterRecord
<1>13. \A b \in Slaves(m) : Has(n, b, "PROMOTED") <=> b = a
  BY <1>8, <1>9, <1>11 DEF Has
<1>14. n.addr = m.addr /\ n.flags = fl /\ n.fstate = "DETECT_END" /\ n.promoted = a
  BY <1>3, <1>6, <1>7, <1>11 DEF SameFailover
<1>15. FailoverInv(n, s \cup {a})
  BY <1>2, <1>12, <1>13, <1>14, NoneIsNoAddress DEF FailoverInv, Following
<1>16. FailoverDetected(m, a) = n
  BY DEF FailoverDetected, n, d, p, o, r
<1> QED
  BY <1>2, <1>12, <1>14, <1>15, <1>16 DEF Good

\* The INFO of a slave keeps the address and ends no failover.
LEMMA RefreshSlaveKeeps ==
    ASSUME NEW m, NEW s, Good(m, s), m.fstate # "UPDATE_CONFIG", NEW a \in Slaves(m),
           NEW i, i.runid \in Nat, NEW t, NEW calm, NEW recent
    PROVE  LET n == RefreshSlave(m, a, i, t, calm, recent)
           IN  /\ i.master = None => Good(n, s \cup {a})
               /\ i.master # None => Good(n, s)
               /\ n.addr = m.addr /\ n.fstate # "UPDATE_CONFIG"
<1> DEFINE o == [m EXCEPT !.slaves[a].runid = i.runid]
<1>1. Good(o, s) /\ o.addr = m.addr /\ o.fstate # "UPDATE_CONFIG" /\ a \in Slaves(o) /\ a \in Addr
  <2>1. Good(o, s) /\ SameFailover(m, o) /\ Slaves(o) = Slaves(m)
    BY RunidKeeps
  <2> HIDE DEF o
  <2> QED
    BY <2>1, MasterFields DEF SameFailover, Good
<1> HIDE DEF o
<1>2. LET n == DemoteOldMaster(o, a, calm, recent)
      IN  Good(n, s) /\ n.addr = m.addr /\ n.fstate # "UPDATE_CONFIG"
  <2>1. o.addr \in Addr \cup {None} /\ {"DEMOTE"} \in SUBSET (SlaveFlags \ {"PROMOTED"})
    BY <1>1, MasterFields DEF Good, SlaveFlags
  <2>2. Good(SendSlaveof(o, a, o.addr), s) /\ SameFailover(o, SendSlaveof(o, a, o.addr))
    BY <1>1, <2>1, SendKeeps
  <2>3. Good(Unflag(o, a, {"DEMOTE"}), s) /\ SameFailover(o, Unflag(o, a, {"DEMOTE"}))
    BY <1>1, <2>1, FlagKeeps
  <2>4. DemoteOldMaster(o, a, calm, recent) \in {o, SendSlaveof(o, a, o.addr), Unflag(o, a, {"DEMOTE"})}
    BY DEF DemoteOldMaster
  <2> QED
    BY <1>1, <2>2, <2>3, <2>4 DEF SameFailover
<1>3. ASSUME NEW reboot
      PROVE  LET n == SlaveIsMaster(o, a, reboot, t, calm, recent)
             IN  Good(n, s \cup {a}) /\ n.addr = m.addr /\ n.fstate # "UPDATE_CONFIG"
  <2> DEFINE gone   == [o EXCEPT !.slaves = [b \in Slaves(o) \ {a} |-> o.slaves[b]]]
             on     == [o EXCEPT !.fstate = "RECONF_SLAVES"]
             inprog == "FAILOVER_IN_PROGRESS" \in o.flags
             leads  == inprog /\ "I_AM_THE_LEADER" \in o.flags
             G(n)   == Good(n, s \cup {a}) /\ n.addr = m.addr /\ n.fstate # "UPDATE_CONFIG"
  <2>1. G(o) /\ G(DemoteOldMaster(o, a, calm, recent))
    BY <1>1, <1>2, MoreMasters
  <2>2. ASSUME ~inprog PROVE G(gone)
    <3>1. Good(gone, s) /\ SameFailover(o, gone)
      BY <1>1, <2>2, RemoveKeeps
    <3> HIDE DEF gone
    <3> QED
      BY <1>1, <3>1, MoreMasters DEF SameFailover
  <2>3. ASSUME leads, o.fstate = "WAIT_PROMOTION", Has(o, a, "PROMOTED") PROVE G(on)
    <3>1. o = [addr |-> o.addr, flags |-> o.flags, fstate |-> o.fstate, promoted |-> o.promoted,
               slaves |-> o.slaves, sent |-> o.sent]
      BY <1>1, MasterFields DEF Good
    <3>2. on = [addr |-> o.addr, flags |-> o.flags, fstate |-> "RECONF_SLAVES", promoted |-> o.promoted,
                slaves |-> o.slaves, sent |-> o.sent]
      <4>1. on = [o EXCEPT !.fstate = "RECONF_SLAVES"]
        OBVIOUS
      <4> HIDE DEF on
      <4> QED
        BY <3>1, <4>1
    <3>3. a = o.promoted
      BY <1>1, <2>3 DEF Good, FailoverInv
    <3> HIDE DEF on
    <3>4. IsMaster(on) /\ Slaves(on) = Slaves(o)
      BY <1>1, <3>2, MasterFields, MasterRecord DEF Good, States
    <3>5. FailoverInv(on, s \cup {a})
      BY <1>1, <2>3, <3>2, <3>3, <3>4 DEF Good, FailoverInv, Following, Has
    <3> QED
      BY <1>1, <3>2, <3>4, <3>5 DEF Good
  <2>4. ASSUME ~inprog \/ (leads /\ o.fstate = "WAIT_START") PROVE G(FailoverDetected(o, a))
    BY <1>1, <2>4, DetectedKeeps
  <2>5. SlaveIsMaster(o, a, reboot, t, calm, recent) =
          IF ~t /\ Has(o, a, "DEMOTE") THEN DemoteOldMaster(o, a, calm, recent)
          ELSE IF ~inprog /\ reboot THEN gone
          ELSE IF ~t /\ Has(o, a, "PROMOTED")
               THEN IF leads /\ o.fstate = "WAIT_PROMOTION" THEN on ELSE o
          ELSE IF ~t /\ (~inprog \/ (leads /\ o.fstate = "WAIT_START")) THEN FailoverDetected(o, a)
          ELSE o
    BY DEF SlaveIsMaster
  <2> HIDE DEF gone, on, inprog, leads, G
  <2>6. G(SlaveIsMaster(o, a, reboot, t, calm, recent))
    BY <2>1, <2>2, <2>3, <2>4, <2>5
  <2> QED
    BY <2>6 DEF G
<1>4. LET n == SlaveReconfigured(o, a, i)
      IN  Good(n, s) /\ n.addr = m.addr /\ n.fstate # "UPDATE_CONFIG"
  <2> DEFINE G(n) == /\ Good(n, s) /\ n.addr = m.addr /\ n.fstate # "UPDATE_CONFIG"
                     /\ a \in Slaves(n)
  <2>1. ASSUME NEW n, G(n), NEW f \in {"RECONF_SENT", "RECONF_INPROG", "RECONF_DONE", "DEMOTE"}
        PROVE  G(Unflag(n, a, {f})) /\ (f # "RECONF_SENT" => G(Flag(n, a, {f})))
    <3> DEFINE g == {f}
    <3>1. g \in SUBSET (SlaveFlags \ {"PROMOTED"})
      BY DEF SlaveFlags
    <3>2. "RECONF_SENT" \in g <=> f = "RECONF_SENT"
      OBVIOUS
    <3> HIDE DEF g
    <3>3. /\ Good(Unflag(n, a, g), s) /\ SameFailover(n, Unflag(n, a, g)) /\ Slaves(Unflag(n, a, g)) = Slaves(n)
          /\ "RECONF_SENT" \notin g => /\ Good(Flag(n, a, g), s) /\ SameFailover(n, Flag(n, a, g))
                                       /\ Slaves(Flag(n, a, g)) = Slaves(n)
      BY <2>1, <3>1, FlagKeeps
    <3>4. G(Unflag(n, a, g)) /\ (f # "RECONF_SENT" => G(Flag(n, a, g)))
      BY <2>1, <3>2, <3>3 DEF SameFailover
    <3> QED
      BY <3>4 DEF g
  <2> DEFINE x == IF Has(o, a, "RECONF_SENT") /\ i.master = o.promoted
                  THEN Flag(Unflag(o, a, {"RECONF_SENT"}), a, {"RECONF_INPROG"}) ELSE o
             y == IF Has(x, a, "RECONF_INPROG") /\ i.link = "up"
                  THEN Flag(Unflag(x, a, {"RECONF_INPROG"}), a, {"RECONF_DONE"}) ELSE x
  <2>2. G(o)
    BY <1>1
  <2>3. SlaveReconfigured(o, a, i) = Unflag(y, a, {"DEMOTE"})
    BY DEF SlaveReconfigured
  <2> HIDE DEF G
  <2>4. G(x)
    BY <2>1, <2>2
  <2> HIDE DEF x
  <2>5. G(y)
    BY <2>1, <2>4
  <2> HIDE DEF y
  <2>6. G(Unflag(y, a, {"DEMOTE"}))
    BY <2>1, <2>5
  <2> QED
    BY <2>3, <2>6 DEF G
<1>5. RefreshSlave(m, a, i, t, calm, recent) =
        IF i.master = None THEN SlaveIsMaster(o, a, m.slaves[a].runid # i.runid, t, calm, recent)
        ELSE IF t THEN o ELSE SlaveReconfigured(o, a, i)
  BY DEF RefreshSlave, o
<1>6. CASE i.master = None
  BY <1>3, <1>5, <1>6
<1>7. CASE i.master # None
  BY <1>1, <1>4, <1>5, <1>7
<1> QED
  BY <1>6, <1>7

\* The master is replaced by the one that it says it replicates from.
LEMMA RefreshMasterKeeps ==
    ASSUME NEW m, NEW s, Good(m, s), m.fstate # "UPDATE_CONFIG",
           NEW i, i.master \in Addr \cup {None}, i.slaves \subseteq Addr
    PROVE  LET n == RefreshMaster(m, i)
           IN  /\ n.addr = IF i.master = None THEN m.addr ELSE i.master
               /\ Good(n, IF i.master = None THEN s ELSE {}) /\ n.fstate # "UPDATE_CONFIG"
<1>1. CASE i.master = None
  <2> DEFINE f == {}
             n == createSentinelRedisInstance(m, i.slaves, f)
  <2>1. f \in SUBSET (SlaveFlags \ {"PROMOTED", "RECONF_SENT"})
    OBVIOUS
  <2> HIDE DEF f
  <2>2. Good(n, s) /\ SameFailover(m, n)
    BY <2>1, CreateKeeps
  <2>3. RefreshMaster(m, i) = n
    BY <1>1 DEF RefreshMaster, f
  <2> HIDE DEF n
  <2> QED
    BY <1>1, <2>2, <2>3 DEF SameFailover
<1>2. CASE i.master # None
  <2>1. i.master \in Addr
    BY <1>2
  <2> DEFINE k    == i.master
             none == {}
             n    == sentinelResetMasterAndChangeAddress(m, k)
  <2>2. none \subseteq Addr
    OBVIOUS
  <2>3. RefreshMaster(m, i) = n
    BY <1>2 DEF RefreshMaster
  <2> HIDE DEF k, none
  <2>4. k \in Addr
    BY <2>1 DEF k
  <2>5. Good(n, none) /\ n.addr = k /\ n.fstate = "NONE"
    BY <2>2, <2>4, ResetKeeps
  <2> HIDE DEF n
  <2> QED
    BY <1>2, <2>3, <2>5 DEF k, none
<1> QED
  BY <1>1, <1>2

----------------------------------------------------------------------------
(* The actions *)

\* What the handler has made of the master is what the Sentinel knows next.
LEMMA BecomesKeeps ==
    ASSUME TypeOK, NEW m, NEW s, Good(m, s), Becomes(m)
    PROVE  /\ Good(v', s) /\ v'.addr = m.addr /\ v'.fstate = m.fstate
           /\ cmds' \in [Addr -> Seq(Addr \cup {None})]
<1>1. v' = [m EXCEPT !.sent = {}]
  BY DEF Becomes
<1> DEFINE n    == v'
           none == {}
<1>2. n = [m EXCEPT !.sent = none] /\ none \in SUBSET (Addr \X (Addr \cup {None}))
  BY <1>1
<1>3. n = [addr |-> m.addr, flags |-> m.flags, fstate |-> m.fstate, promoted |-> m.promoted,
           slaves |-> m.slaves, sent |-> none]
  <2>1. m = [addr |-> m.addr, flags |-> m.flags, fstate |-> m.fstate, promoted |-> m.promoted,
             slaves |-> m.slaves, sent |-> m.sent]
    BY MasterFields DEF Good
  <2> HIDE DEF n, none
  <2> QED
    BY <1>2, <2>1
<1>4. Good(n, s) /\ n.addr = m.addr /\ n.fstate = m.fstate
  <2> HIDE DEF n, none
  <2>1. IsMaster(n) /\ Slaves(n) = Slaves(m)
    BY <1>2, <1>3, MasterFields, MasterRecord DEF Good
  <2>2. SameFailover(m, n) /\ n.slaves = m.slaves
    BY <1>3 DEF SameFailover
  <2>3. Good(n, s)
    BY <2>1, <2>2, SlavesChange DEF Has
  <2> QED
    BY <2>2, <2>3 DEF SameFailover
<1>5. ASSUME NEW a \in Addr, \E c \in m.sent : c[1] = a
      PROVE  Append(cmds[a], (CHOOSE c \in m.sent : c[1] = a)[2]) \in Seq(Addr \cup {None})
  <2> DEFINE k == CHOOSE c \in m.sent : c[1] = a
  <2>1. k \in m.sent
    BY <1>5
  <2>2. k[2] \in Addr \cup {None}
    BY <2>1, MasterFields DEF Good
  <2> HIDE DEF k
  <2> QED
    BY <2>2 DEF TypeOK, k
<1>6. cmds' = [a \in Addr |-> IF \E c \in m.sent : c[1] = a
                              THEN Append(cmds[a], (CHOOSE c \in m.sent : c[1] = a)[2]) ELSE cmds[a]]
  BY DEF Becomes
<1>7. cmds' \in [Addr -> Seq(Addr \cup {None})]
  BY <1>5, <1>6 DEF TypeOK
<1> QED
  BY <1>4, <1>7

\* The invariant as a fact about Good records.
LEMMA InvIsGood ==
    /\ SentinelInv <=> TypeOK /\ Good(v, seen) /\ v.fstate # "UPDATE_CONFIG"
    /\ SentinelInv' <=> TypeOK' /\ Good(v', seen') /\ v'.fstate # "UPDATE_CONFIG"
<1>1. SentinelInv <=> TypeOK /\ Good(v, seen) /\ v.fstate # "UPDATE_CONFIG"
  BY DEF SentinelInv, TypeOK, Good
<1>2. SentinelInv' <=> TypeOK' /\ Good(v', seen') /\ v'.fstate # "UPDATE_CONFIG"
  BY DEF SentinelInv, TypeOK, Good, IsMaster, FailoverInv, Slaves, Has
<1> QED
  BY <1>1, <1>2

\* Where the Sentinel may go in a step.
Switch == v'.addr # v.addr => v'.addr \in seen \/ role[v.addr] = v'.addr

LEMMA InitInv == Init => SentinelInv
<1> SUFFICES ASSUME Init PROVE SentinelInv
  OBVIOUS
<1>1. FirstMaster \in Addr
  BY MinOfNaturals, SentinelAssumption DEF FirstMaster
<1>2. IsMaster(v) /\ Slaves(v) = {}
  <2> DEFINE f    == {"DISCONNECTED"}
             none == {}
             t    == <<>>
             st   == "NONE"
             p    == None
             w    == FirstMaster
             snd  == {}
  <2>1. /\ f \in SUBSET MasterFlags /\ none \in SUBSET Addr /\ t \in [none -> SlaveRecord] /\ st \in States
        /\ p \in Addr \cup {None} /\ snd \in SUBSET (Addr \X (Addr \cup {None}))
    BY DEF MasterFlags, States
  <2>2. v = [addr |-> w, flags |-> f, fstate |-> st, promoted |-> p, slaves |-> t, sent |-> snd] /\ w \in Addr
    BY <1>1 DEF Init
  <2> HIDE DEF f, none, t, st, p, w, snd
  <2>3. LET n == [addr |-> w, flags |-> f, fstate |-> st, promoted |-> p, slaves |-> t, sent |-> snd]
        IN  IsMaster(n) /\ Slaves(n) = none
    BY <2>1, <2>2, MasterRecord
  <2> QED
    BY <2>2, <2>3 DEF none
<1>3. TypeOK
  <2>1. cmds \in [Addr -> Seq(Addr \cup {None})]
    BY DEF Init
  <2>2. role \in [Addr -> Addr \cup {None}] /\ runid \in [Addr -> Nat]
    BY <1>1 DEF Init
  <2>3. tilt \in BOOLEAN /\ alive \subseteq Addr /\ faults \in Nat /\ seen \subseteq Addr
    BY DEF Init
  <2> QED
    BY <1>2, <2>1, <2>2, <2>3 DEF TypeOK
<1>4. FailoverInv(v, seen) /\ v.fstate # "UPDATE_CONFIG"
  BY <1>2 DEF Init, FailoverInv, Following
<1> QED
  BY <1>3, <1>4 DEF SentinelInv

LEMMA MasterTimerKeeps ==
    ASSUME SentinelInv, MasterTimer
    PROVE  SentinelInv' /\ Switch
<1> DEFINE u == [v EXCEPT !.flags = @ \ {"DISCONNECTED"}]
<1>1. Good(u, seen) /\ u.addr = v.addr /\ u.fstate # "UPDATE_CONFIG"
  <2> DEFINE g == v.flags \ {"DISCONNECTED"}
  <2>1. g \in SUBSET MasterFlags /\ {"FAILOVER_IN_PROGRESS", "I_AM_THE_LEADER"} \cap g
                                      = {"FAILOVER_IN_PROGRESS", "I_AM_THE_LEADER"} \cap v.flags
    BY InvIsGood, MasterFields DEF Good
  <2>2. u = [v EXCEPT !.flags = g]
    OBVIOUS
  <2> HIDE DEF u, g
  <2>3. Good(u, seen) /\ SameFailover(v, u)
    BY <2>1, <2>2, InvIsGood, FlagsChange
  <2> QED
    BY <2>3, InvIsGood DEF SameFailover
<1> HIDE DEF u
<1>2. CASE tilt /\ v' = u /\ UNCHANGED <<tilt, cmds, faults>>
  <2>1. seen' = seen /\ UNCHANGED <<role, alive, runid>>
    BY <1>1, <1>2 DEF MasterTimer
  <2>2. Good(v', seen') /\ v'.fstate # "UPDATE_CONFIG" /\ v'.addr = v.addr
    BY <1>1, <1>2, <2>1
  <2>3. TypeOK'
    BY <1>2, <2>1, <2>2, InvIsGood DEF TypeOK, Good, IsMaster, Slaves
  <2> QED
    BY <2>2, <2>3, InvIsGood DEF Switch
<1>3. ASSUME NEW down \in BOOLEAN, NEW agree, NEW won, NEW el, NEW stale, tilt' = FALSE,
             Down(v.flags, down), Becomes(HandleMaster(u, down, agree, won, el, stale))
      PROVE  SentinelInv' /\ Switch
  <2> DEFINE n == HandleMaster(u, down, agree, won, el, stale)
             r == IF n.addr = u.addr THEN seen ELSE {}
  <2>1. /\ n.addr # u.addr => n.addr \in seen
        /\ Good(n, r) /\ n.fstate # "UPDATE_CONFIG"
    BY <1>1, HandleMasterKeeps
  <2> HIDE DEF n, r
  <2>2. Becomes(n)
    BY <1>3 DEF n
  <2>3. /\ Good(v', r) /\ v'.addr = n.addr /\ v'.fstate = n.fstate
        /\ cmds' \in [Addr -> Seq(Addr \cup {None})]
    BY <2>1, <2>2, InvIsGood, BecomesKeeps
  <2>4. seen' = r /\ UNCHANGED <<role, alive, runid>>
    BY <1>1, <2>3 DEF MasterTimer, r
  <2>5. faults' \in Nat
    BY <1>3, InvIsGood DEF Down, TypeOK
  <2>6. TypeOK'
    BY <1>3, <2>3, <2>4, <2>5, InvIsGood DEF TypeOK, Good, IsMaster, Slaves
  <2> QED
    BY <1>1, <2>1, <2>3, <2>4, <2>6, InvIsGood DEF Switch
<1> QED
  BY <1>2, <1>3 DEF MasterTimer, u

\* A change of the flag of a link or of a slave that is down.
LEMMA SlaveTimerKeeps ==
    ASSUME SentinelInv, NEW a \in Addr, SlaveTimer(a)
    PROVE  SentinelInv' /\ Switch
<1> DEFINE n == Unflag(v, a, {"DISCONNECTED"})
           x == Flag(n, a, {"S_DOWN"})
           y == Unflag(n, a, {"S_DOWN"})
<1>1. Good(v, seen) /\ v.fstate # "UPDATE_CONFIG" /\ a \in Slaves(v)
  BY InvIsGood DEF SlaveTimer
<1>2. \A f \in {"DISCONNECTED", "S_DOWN"} : {f} \in SUBSET (SlaveFlags \ {"PROMOTED"})
                                             /\ "RECONF_SENT" \notin {f}
  BY DEF SlaveFlags
<1>3. Good(n, seen) /\ SameFailover(v, n) /\ Slaves(n) = Slaves(v)
  BY <1>1, <1>2, FlagKeeps
<1> HIDE DEF n
<1>4. /\ Good(x, seen) /\ SameFailover(n, x)
      /\ Good(y, seen) /\ SameFailover(n, y)
  BY <1>1, <1>2, <1>3, FlagKeeps
<1>5. v' \in {n, x, y}
  BY DEF SlaveTimer, sentinelCheckSubjectivelyDown, Flag, Unflag, n
<1> HIDE DEF x, y
<1>6. UNCHANGED <<tilt, cmds, role, alive, runid, seen>> /\ faults' \in Nat
  BY InvIsGood DEF SlaveTimer, Down, TypeOK
<1>7. Good(v', seen') /\ v'.addr = v.addr /\ v'.fstate = v.fstate
  BY <1>3, <1>4, <1>5, <1>6 DEF SameFailover
<1>8. TypeOK'
  BY <1>6, <1>7, InvIsGood DEF TypeOK, Good, IsMaster, Slaves
<1> QED
  BY <1>1, <1>7, <1>8, InvIsGood DEF Switch

LEMMA InfoReplyKeeps ==
    ASSUME SentinelInv, NEW a \in Addr, InfoReply(a)
    PROVE  SentinelInv' /\ Switch
<1> DEFINE I(link) == [master |-> role[a], link |-> link, runid |-> runid[a],
                       slaves |-> {b \in alive : role[b] = a}]
<1>1. Good(v, seen) /\ v.fstate # "UPDATE_CONFIG" /\ TypeOK
  BY InvIsGood
<1>2. PICK link \in {"up", "down"}, calm \in BOOLEAN, recent \in BOOLEAN :
          Becomes(IF a = v.addr THEN RefreshMaster(v, I(link))
                  ELSE RefreshSlave(v, a, I(link), tilt, calm, recent))
  BY DEF InfoReply
<1> DEFINE i == I(link)
           n == IF a = v.addr THEN RefreshMaster(v, i) ELSE RefreshSlave(v, a, i, tilt, calm, recent)
<1>3. /\ i.master = role[a] /\ i.master \in Addr \cup {None} /\ i.runid \in Nat
      /\ i.slaves \subseteq Addr
  BY <1>1 DEF TypeOK
<1> HIDE DEF i
<1>4. CASE a = v.addr
  <2>1. /\ n.addr = IF i.master = None THEN v.addr ELSE i.master
        /\ Good(n, IF i.master = None THEN seen ELSE {}) /\ n.fstate # "UPDATE_CONFIG"
    BY <1>1, <1>3, <1>4, RefreshMasterKeeps
  <2> HIDE DEF n
  <2>2. Becomes(n)
    BY <1>2 DEF n, i
  <2> DEFINE r == IF i.master = None THEN seen ELSE {}
  <2>3. Good(n, r) /\ r \subseteq seen /\ seen \subseteq Addr
    BY <1>1, <2>1 DEF TypeOK
  <2> HIDE DEF r
  <2>4. /\ Good(v', r) /\ v'.addr = n.addr /\ v'.fstate = n.fstate
        /\ cmds' \in [Addr -> Seq(Addr \cup {None})]
    BY <1>1, <2>2, <2>3, BecomesKeeps
  <2>5. UNCHANGED <<tilt, role, alive, runid, faults>>
        /\ seen' = IF v'.addr # v.addr THEN {} ELSE IF role[a] = None THEN seen \cup {a} ELSE seen
    BY DEF InfoReply
  <2>6. r \subseteq seen' /\ seen' \subseteq Addr
    <3>1. CASE v'.addr # v.addr
      BY <1>3, <2>1, <2>4, <2>5, <3>1 DEF r
    <3>2. CASE v'.addr = v.addr
      BY <2>3, <2>5, <3>2
    <3> QED
      BY <3>1, <3>2
  <2>7. Good(v', seen')
    BY <2>4, <2>6 DEF Good, FailoverInv
  <2>8. TypeOK'
    BY <1>1, <2>4, <2>5, <2>6, <2>7 DEF TypeOK, Good, IsMaster, Slaves
  <2>9. Switch
    BY <1>3, <1>4, <2>1, <2>4 DEF Switch
  <2> QED
    BY <2>1, <2>4, <2>7, <2>8, <2>9, InvIsGood
<1>5. CASE a # v.addr
  <2>1. a \in Slaves(v)
    BY <1>5 DEF InfoReply, Connected
  <2> DEFINE r == IF i.master = None THEN seen \cup {a} ELSE seen
  <2>2. Good(n, r) /\ n.addr = v.addr /\ n.fstate # "UPDATE_CONFIG"
    <3> DEFINE o == RefreshSlave(v, a, i, tilt, calm, recent)
    <3>1. Good(o, r) /\ o.addr = v.addr /\ o.fstate # "UPDATE_CONFIG"
      <4>1. Good(v, seen) /\ v.fstate # "UPDATE_CONFIG" /\ i.runid \in Nat
        BY <1>1, <1>3
      <4> HIDE DEF n, r
      <4>2. /\ i.master = None => Good(o, seen \cup {a})
            /\ i.master # None => Good(o, seen)
            /\ o.addr = v.addr /\ o.fstate # "UPDATE_CONFIG"
        BY <2>1, <4>1, RefreshSlaveKeeps
      <4> QED
        BY <4>2 DEF r
    <3>2. n = o
      BY <1>5
    <3> HIDE DEF n, o
    <3> QED
      BY <3>1, <3>2
  <2> HIDE DEF n, r
  <2>3. Becomes(n)
    BY <1>2 DEF n, i
  <2>4. /\ Good(v', r) /\ v'.addr = n.addr /\ v'.fstate = n.fstate
        /\ cmds' \in [Addr -> Seq(Addr \cup {None})]
    BY <1>1, <2>2, <2>3, BecomesKeeps
  <2>5. UNCHANGED <<tilt, role, alive, runid, faults>> /\ seen' = r
    BY <1>3, <2>2, <2>4 DEF InfoReply, r
  <2>6. TypeOK'
    BY <1>1, <2>4, <2>5 DEF TypeOK, Good, IsMaster, Slaves
  <2> QED
    BY <2>2, <2>4, <2>5, <2>6, InvIsGood DEF Switch
<1> QED
  BY <1>4, <1>5

LEMMA LinkLostKeeps ==
    ASSUME SentinelInv, NEW a \in Addr, LinkLost(a)
    PROVE  SentinelInv' /\ Switch
<1>1. Good(v, seen) /\ v.fstate # "UPDATE_CONFIG" /\ TypeOK
  BY InvIsGood
<1>2. UNCHANGED <<tilt, cmds, role, alive, runid, seen>> /\ faults' \in Nat
  BY <1>1 DEF LinkLost, Fault, TypeOK
<1>3. Good(v', seen') /\ v'.addr = v.addr /\ v'.fstate = v.fstate
  <2>1. CASE a = v.addr
    <3> DEFINE g == v.flags \cup {"DISCONNECTED"}
    <3>1. g \in SUBSET MasterFlags /\ {"FAILOVER_IN_PROGRESS", "I_AM_THE_LEADER"} \cap g
                                        = {"FAILOVER_IN_PROGRESS", "I_AM_THE_LEADER"} \cap v.flags
      BY <1>1, MasterFields DEF Good, MasterFlags
    <3>2. v' = [v EXCEPT !.flags = g]
      BY <2>1 DEF LinkLost
    <3> HIDE DEF g
    <3> QED
      BY <1>1, <1>2, <3>1, <3>2, FlagsChange DEF SameFailover
  <2>2. CASE a # v.addr
    <3>1. a \in Slaves(v) /\ v' = Flag(v, a, {"DISCONNECTED"})
      BY <2>2 DEF LinkLost, Connected
    <3>2. {"DISCONNECTED"} \in SUBSET (SlaveFlags \ {"PROMOTED"})
      BY DEF SlaveFlags
    <3> QED
      BY <1>1, <1>2, <3>1, <3>2, FlagKeeps DEF SameFailover
  <2> QED
    BY <2>1, <2>2
<1>4. TypeOK'
  BY <1>1, <1>2, <1>3 DEF TypeOK, Good, IsMaster, Slaves
<1> QED
  BY <1>1, <1>3, <1>4, InvIsGood DEF Switch

LEMMA FailoverCommandKeeps ==
    ASSUME SentinelInv, FailoverCommand
    PROVE  SentinelInv' /\ Switch
<1> DEFINE fl == v.flags \cup {"FAILOVER_IN_PROGRESS", "I_AM_THE_LEADER", "FORCE_FAILOVER"}
           n  == v'
<1>1. Good(v, seen) /\ TypeOK /\ v.fstate = "NONE" /\ v.promoted = None
  BY InvIsGood DEF FailoverCommand, Good, FailoverInv
<1>2. n = [addr |-> v.addr, flags |-> fl, fstate |-> "WAIT_START", promoted |-> v.promoted,
           slaves |-> v.slaves, sent |-> v.sent] /\ fl \in SUBSET MasterFlags
  <2> DEFINE o == sentinelStartFailover(v, "WAIT_START")
             g == v.flags \cup {"FAILOVER_IN_PROGRESS", "I_AM_THE_LEADER"}
  <2>1. v = [addr |-> v.addr, flags |-> v.flags, fstate |-> v.fstate, promoted |-> v.promoted,
             slaves |-> v.slaves, sent |-> v.sent] /\ v.flags \subseteq MasterFlags
    BY <1>1, MasterFields DEF Good
  <2>2. o = [addr |-> v.addr, flags |-> g, fstate |-> "WAIT_START", promoted |-> v.promoted,
             slaves |-> v.slaves, sent |-> v.sent]
    <3>1. o = [v EXCEPT !.fstate = "WAIT_START", !.flags = g]
      BY DEF sentinelStartFailover
    <3> HIDE DEF o, g
    <3> QED
      BY <2>1, <3>1
  <2>3. n = [o EXCEPT !.flags = @ \cup {"FORCE_FAILOVER"}]
    BY DEF FailoverCommand
  <2>4. n = [o EXCEPT !.flags = fl]
    <3>1. fl = o.flags \cup {"FORCE_FAILOVER"}
      BY <2>2
    <3> HIDE DEF fl, n, o
    <3> QED
      BY <2>3, <3>1
  <2>5. fl \in SUBSET MasterFlags
    BY <2>1 DEF MasterFlags
  <2> HIDE DEF n, o, fl, g
  <2> QED
    BY <2>2, <2>4, <2>5
<1>3. Good(n, seen) /\ n.addr = v.addr /\ n.fstate = "WAIT_START"
  <2> HIDE DEF n, fl
  <2>1. IsMaster(n) /\ Slaves(n) = Slaves(v)
    BY <1>1, <1>2, MasterFields, MasterRecord DEF Good, States
  <2>2. \A b \in Slaves(v) : ~Has(n, b, "PROMOTED") /\ ~Has(n, b, "RECONF_SENT") /\ b # None
    BY <1>1, <1>2, NoneIsNoAddress, MasterFields DEF Has, Good, FailoverInv, Following
  <2>3. FailoverInv(n, seen)
    BY <1>1, <1>2, <2>1, <2>2 DEF FailoverInv, Following, fl
  <2> QED
    BY <1>1, <1>2, <2>1, <2>3 DEF Good
<1>4. UNCHANGED <<tilt, cmds, role, alive, runid, seen>> /\ faults' \in Nat
  BY <1>1 DEF FailoverCommand, Fault, TypeOK
<1>5. TypeOK'
  BY <1>1, <1>3, <1>4 DEF TypeOK, Good, IsMaster, Slaves
<1> QED
  BY <1>3, <1>4, <1>5, InvIsGood DEF Switch

LEMMA OtherActionsKeep ==
    ASSUME SentinelInv,
           \/ Tilt \/ ResetCommand
           \/ \E a \in Addr : Slaveof(a) \/ Crash(a) \/ Restart(a) \/ OtherPromotes(a)
           \/ UNCHANGED vars
    PROVE  SentinelInv' /\ Switch
<1>1. Good(v, seen) /\ v.fstate # "UPDATE_CONFIG" /\ TypeOK /\ FirstMaster \in Addr
  BY InvIsGood, MinOfNaturals, SentinelAssumption DEF FirstMaster
<1>2. CASE ResetCommand
  <2>1. Good(v', seen) /\ v'.addr = v.addr /\ v'.fstate = "NONE"
    BY <1>1, <1>2, ResetKeeps, MasterFields DEF Good, ResetCommand
  <2>2. UNCHANGED <<tilt, cmds, role, alive, runid, seen>> /\ faults' \in Nat
    BY <1>1, <1>2 DEF ResetCommand, Fault, TypeOK
  <2>3. TypeOK'
    BY <1>1, <2>1, <2>2 DEF TypeOK, Good, IsMaster, Slaves
  <2> QED
    BY <2>1, <2>2, <2>3, InvIsGood DEF Switch
<1>3. ASSUME v' = v, seen' = seen, tilt' \in BOOLEAN, cmds' \in [Addr -> Seq(Addr \cup {None})],
             role' \in [Addr -> Addr \cup {None}], alive' \subseteq Addr, runid' \in [Addr -> Nat], faults' \in Nat
      PROVE  SentinelInv' /\ Switch
  BY <1>1, <1>3, InvIsGood DEF Switch, TypeOK, IsMaster, Slaves
<1>4. ASSUME NEW a \in Addr, Slaveof(a) PROVE SentinelInv' /\ Switch
  <2>1. cmds[a] \in Seq(Addr \cup {None}) /\ cmds[a] # <<>>
    BY <1>1, <1>4 DEF TypeOK, Slaveof
  <2>2. Head(cmds[a]) \in Addr \cup {None} /\ Tail(cmds[a]) \in Seq(Addr \cup {None})
    BY <2>1
  <2>3. /\ cmds' \in [Addr -> Seq(Addr \cup {None})]
        /\ role' \in [Addr -> Addr \cup {None}]
        /\ UNCHANGED <<v, tilt, alive, runid, faults, seen>>
    BY <1>1, <1>4, <2>2 DEF TypeOK, Slaveof
  <2> QED
    BY <1>1, <1>3, <2>3 DEF TypeOK
<1>5. ASSUME NEW a \in Addr, Crash(a) PROVE SentinelInv' /\ Switch
  BY <1>1, <1>3, <1>5 DEF Crash, Fault, TypeOK
<1>6. ASSUME NEW a \in Addr, Restart(a) PROVE SentinelInv' /\ Switch
  <2>1. /\ role' \in [Addr -> Addr \cup {None}] /\ runid' \in [Addr -> Nat] /\ alive' \subseteq Addr
        /\ UNCHANGED <<v, tilt, cmds, faults, seen>>
    BY <1>1, <1>6 DEF Restart, TypeOK
  <2> QED
    BY <1>1, <1>3, <2>1 DEF TypeOK
<1>7. ASSUME NEW a \in Addr, OtherPromotes(a) PROVE SentinelInv' /\ Switch
  <2>1. /\ role' \in [Addr -> Addr \cup {None}] /\ faults' \in Nat
        /\ UNCHANGED <<v, tilt, cmds, alive, runid, seen>>
    BY <1>1, <1>7 DEF OtherPromotes, Fault, TypeOK
  <2> QED
    BY <1>1, <1>3, <2>1 DEF TypeOK
<1>8. CASE Tilt
  BY <1>1, <1>3, <1>8 DEF Tilt, Fault, TypeOK
<1>9. CASE UNCHANGED vars
  BY <1>1, <1>3, <1>9 DEF vars, TypeOK
<1> QED
  BY <1>2, <1>4, <1>5, <1>6, <1>7, <1>8, <1>9

LEMMA StepKeeps == SentinelInv /\ [Next]_vars => SentinelInv' /\ Switch
<1> SUFFICES ASSUME SentinelInv, [Next]_vars PROVE SentinelInv' /\ Switch
  OBVIOUS
<1>1. CASE MasterTimer
  BY <1>1, MasterTimerKeeps
<1>2. CASE FailoverCommand
  BY <1>2, FailoverCommandKeeps
<1>3. ASSUME NEW a \in Addr, SlaveTimer(a) \/ InfoReply(a) \/ LinkLost(a) PROVE SentinelInv' /\ Switch
  BY <1>3, SlaveTimerKeeps, InfoReplyKeeps, LinkLostKeeps
<1>4. CASE \/ Tilt \/ ResetCommand
           \/ \E a \in Addr : Slaveof(a) \/ Crash(a) \/ Restart(a) \/ OtherPromotes(a)
           \/ UNCHANGED vars
  BY <1>4, OtherActionsKeep
<1> QED
  BY <1>1, <1>2, <1>3, <1>4 DEF Next

----------------------------------------------------------------------------
(* Theorems *)

\* Between its handlers the Sentinel's record of the master is consistent
\* (sentinelHandleRedisInstance, sentinelRefreshInstanceInfo and the
\* commands), whatever the instances and the other Sentinels do.
THEOREM RecordIsConsistent == Spec => []SentinelInv
  BY InitInv, StepKeeps, PTL DEF Spec

\* Every variable of the Sentinel and of the instances has its type.
THEOREM SentinelTypes == Spec => []TypeOK
<1>1. SentinelInv => TypeOK
  BY DEF SentinelInv
<1> QED
  BY <1>1, RecordIsConsistent, PTL

\* ri->promoted_slave is there, in the table and alone with its flag, in
\* every state of the failover that dereferences it without a check.
THEOREM PromotedSlaveIsThere == Spec => []PromotedIsThere
<1>1. SentinelInv => PromotedIsThere
  BY DEF SentinelInv, FailoverInv, Following, PromotedIsThere, TypeOK, IsMaster
<1> QED
  BY <1>1, RecordIsConsistent, PTL

\* failover_state and the flags SRI_FAILOVER_IN_PROGRESS and
\* SRI_I_AM_THE_LEADER agree after every handler.
THEOREM StateAndFlagsAgree == Spec => []FailoverStateAgrees
<1>1. SentinelInv => FailoverStateAgrees
  BY DEF SentinelInv, FailoverInv, FailoverStateAgrees
<1> QED
  BY <1>1, RecordIsConsistent, PTL

\* sentinelResetMasterAndChangeAddress is only ever called with the address
\* of an instance that said it is a master, or that the old master follows.
THEOREM SwitchesOnlyToAMaster == Spec => SwitchesToAMaster
<1>1. SentinelInv /\ [Next]_vars => [v'.addr # v.addr => v'.addr \in seen \/ role[v.addr] = v'.addr]_vars
  BY StepKeeps DEF Switch
<1> QED
  BY <1>1, RecordIsConsistent, PTL DEF Spec, SwitchesToAMaster

=============================================================================
