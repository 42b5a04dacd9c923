----------------------------- MODULE MCSentinel -----------------------------
(* The instances of the runs of Sentinel: they have the same priority.     *)
EXTENDS Sentinel

MCPriority(a) == 100

=============================================================================
