--------------------------- MODULE MCAggregateWorker ---------------------------
(* Small instances of AggregateWorker for TLC. *)
EXTENDS AggregateWorker

CONSTANTS r1, junior, senior, unspecified, engineer, w1, w2

\* Every level belongs to the one role.
MCRoleOf == [c \in Cells |-> engineer]

\* The LISTEN bridge was down when the first event of r1 was written, and goes
\* down after the second.
MCAnnounced == {<<r1, 2>>}

=============================================================================
