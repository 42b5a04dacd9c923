----------------------------- MODULE DurableLog -----------------------------
(***************************************************************************)
(* What the append only file promises.  There is one log of writes.  A     *)
(* client that was answered has a write at or below position acked.  A     *)
(* crash of any kind may drop the end of the log, never its middle, and    *)
(* never a write that was answered.                                        *)
(***************************************************************************)
EXTENDS Sequences, Naturals

CONSTANT DB  \* the databases

VARIABLES
    log,    \* the writes that the dataset is made of
    acked   \* writes 1..acked were answered while the log was promised

vars == <<log, acked>>

Init ==
    /\ log = <<>>
    /\ acked = 0

Execute == \E d \in DB :
    /\ log' = Append(log, [db |-> d, id |-> Len(log) + 1])
    /\ UNCHANGED acked

Answer ==
    /\ acked' \in acked + 1 .. Len(log)
    /\ UNCHANGED log

Crash == \E n \in acked .. Len(log) :
    /\ log' = SubSeq(log, 1, n)
    /\ UNCHANGED acked

Next == Execute \/ Answer \/ Crash

Spec == Init /\ [][Next]_vars

=============================================================================
