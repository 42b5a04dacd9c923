-------------------------- MODULE MCAppendOnlyFile --------------------------
(* Instances of AppendOnlyFile for TLC: the model values of two clients.   *)
EXTENDS AppendOnlyFile

CONSTANTS c1, c2

=============================================================================
