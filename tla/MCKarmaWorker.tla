---------------------------- MODULE MCKarmaWorker ----------------------------
(* Small instances of KarmaWorker for TLC. *)
EXTENDS KarmaWorker

CONSTANTS r1, u1, x1, w1, c1

\* Every report has the one author.
MCAuthorOf == [r \in Reports |-> u1]

\* The LISTEN bridge is on.
MCAnnounced == EventIds

=============================================================================
