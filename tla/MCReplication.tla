--------------------------- MODULE MCReplication ---------------------------
(* Model values and symmetry for checking Replication with TLC. *)
EXTENDS Replication, TLC

CONSTANTS s1, s2

MCTwoSlaves == {s1, s2}
MCOneSlave == {s1}
MCSymmetry == Permutations(MCTwoSlaves)
=============================================================================
