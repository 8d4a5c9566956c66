-------------------------------- MODULE Outbox --------------------------------
(***************************************************************************)
(* The events table: the transactional outbox every report write inserts   *)
(* into, and the per-consumer *_processed_at markers.                      *)
(*                                                                         *)
(* An event is identified by <<r, n>>: the n-th event of report r.  The    *)
(* program orders a claim by created_at, which is the start time of the    *)
(* writing transaction and so does not follow the commit order of two      *)
(* transactions that overlap; only the commit order of the events of one   *)
(* report is kept here, and a consumer may meet the pending events in any  *)
(* order.                                                                  *)
(***************************************************************************)
EXTENDS Naturals, Sequences

CONSTANTS
  Reports,    \* identifiers of interview_reports rows, created or not yet
  Cells,      \* (company, role, level) triples
  Consumers,  \* "aggregate", "search", "karma": one marker column each
  MaxLog      \* bound: events one report may accumulate

ASSUME MaxLogAssumption == MaxLog \in Nat

VARIABLES
  log,        \* log[r]: the events of report r, in commit order
  pending     \* pending[k]: the events whose marker of consumer k is NULL

Ops == {"created", "updated", "deleted"}

Event == [op : Ops, cell : Cells]

EventIds == Reports \X (1 .. MaxLog)

OutboxTypeOK ==
  /\ log \in [Reports -> Seq(Event)]
  /\ pending \in [Consumers -> SUBSET EventIds]
  /\ \A k \in Consumers : \A e \in pending[k] : e[2] <= Len(log[e[1]])

OutboxInit ==
  /\ log = [r \in Reports |-> << >>]
  /\ pending = [k \in Consumers |-> {}]

-----------------------------------------------------------------------------

Entry(op, c) == [op |-> op, cell |-> c]

\* Row contents of event e.
EventOf(e) == log[e[1]][e[2]]

\* Every event committed so far.
Committed == {e \in EventIds : e[2] <= Len(log[e[1]])}

\* A batch of events that concerns report r alone.
On(r, entries) == [x \in Reports |-> IF x = r THEN entries ELSE << >>]

\* What emitReportEvent leaves behind when its transaction commits: the new
\* rows es[r], for each report r, with all the markers NULL.
EmitReportEvent(es) ==
  /\ \A r \in Reports : Len(log[r]) + Len(es[r]) <= MaxLog
  /\ log' = [r \in Reports |-> log[r] \o es[r]]
  /\ pending' = [k \in Consumers |->
       pending[k] \cup {e \in EventIds :
                          /\ e[2] > Len(log[e[1]])
                          /\ e[2] <= Len(log[e[1]]) + Len(es[e[1]])}]

\* Guarded on the marker still being NULL: stamping it twice changes nothing.
MarkEventProcessed(k, e) ==
  /\ pending' = [pending EXCEPT ![k] = @ \ {e}]
  /\ UNCHANGED log

=============================================================================
