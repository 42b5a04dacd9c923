-------------------------- MODULE AsyncReplication --------------------------
(***************************************************************************)
(* What master-slave replication promises.  The master executes commands   *)
(* one after the other; a slave whose link is up executes exactly these    *)
(* commands, in the same order, each once, with any delay.  When the link   *)
(* comes up the slave replaces its dataset by one the master has had.      *)
(***************************************************************************)
EXTENDS Naturals, Sequences

CONSTANT Slave

VARIABLES
    log,    \* commands executed by the master
    copy,   \* per slave: the commands its dataset is the result of
    linked  \* per slave: the link is up

avars == <<log, copy, linked>>

Init ==
    /\ log = <<>>
    /\ copy = [s \in Slave |-> <<>>]
    /\ linked = [s \in Slave |-> FALSE]

\* The log grows by one command, any command.
Write ==
    /\ Len(log') = Len(log) + 1
    /\ log' = Append(log, log'[Len(log')])
    /\ UNCHANGED <<copy, linked>>

Load(s) ==
    /\ ~linked[s]
    /\ linked' = [linked EXCEPT ![s] = TRUE]
    /\ \E n \in 0..Len(log) : copy' = [copy EXCEPT ![s] = SubSeq(log, 1, n)]
    /\ UNCHANGED log

Apply(s) ==
    /\ linked[s]
    /\ Len(copy[s]) < Len(log)
    /\ copy' = [copy EXCEPT ![s] = Append(copy[s], log[Len(copy[s]) + 1])]
    /\ UNCHANGED <<log, linked>>

Unlink(s) ==
    /\ linked[s]
    /\ linked' = [linked EXCEPT ![s] = FALSE]
    /\ UNCHANGED <<log, copy>>

Next == Write \/ \E s \in Slave : Load(s) \/ Apply(s) \/ Unlink(s)

Spec == Init /\ [][Next]_avars
=============================================================================
