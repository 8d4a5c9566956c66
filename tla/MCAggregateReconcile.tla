-------------------------- MODULE MCAggregateReconcile --------------------------
(* A small instance of AggregateReconcile for TLC. *)
EXTENDS AggregateReconcile

CONSTANTS r1, junior, engineer, w1

MCRoleOf == [c \in Cells |-> engineer]

\* The LISTEN bridge is on.
MCAnnounced == EventIds

=============================================================================
