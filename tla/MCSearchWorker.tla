---------------------------- MODULE MCSearchWorker ----------------------------
(* A small instance of SearchWorker for TLC. *)
EXTENDS SearchWorker

CONSTANTS r1, c1, w1

\* The LISTEN bridge is on.
MCAnnounced == EventIds

=============================================================================
