---------------------------- MODULE AggregateWorker ----------------------------
(***************************************************************************)
(* The refresh-aggregate consumer: each event recomputes the row of its    *)
(* (company, role, level) cell, then the row of the (company, role) above  *)
(* it, and is then stamped.                                                *)
(*                                                                         *)
(* refresh_aggregate_cell and refresh_aggregate_role are volatile plpgsql  *)
(* functions run at READ COMMITTED: the counts and the round and topic     *)
(* statistics are separate statements, each with a snapshot of its own,    *)
(* and the row they write becomes visible with the upsert, after them.     *)
(***************************************************************************)
EXTENDS OutboxConsumer

CONSTANTS
  Roles,     \* (company, role) pairs
  RoleOf,    \* RoleOf[c]: the pair above cell c
  Sentinel   \* cells whose level is 'N/A' or 'Unspecified'

ASSUME RoleOfAssumption == RoleOf \in [Cells -> Roles]
ASSUME KeysAssumption == Cells \cap Roles = {}
ASSUME SentinelAssumption == Sentinel \subseteq Cells

VARIABLES
  agg,     \* agg[k]: the row of key k in the two aggregate tables
  grain,   \* the table worker w is refreshing
  head,    \* the reports worker w counted
  detail   \* the reports its statistics were computed over

refreshVars == <<grain, head, detail>>
workerVars == <<consumerVars, agg, grain, head, detail>>
vars == <<feedVars, workerVars>>

Keys == Cells \cup Roles
Phases == {"idle", "next", "read", "detail", "write", "mark"}

\* What a statement over a cell's live reports can depend on.
Inputs == SUBSET (Reports \X Bodies)

\* A row is known by the reports behind its counts and those behind its
\* statistics; a row that does not exist counts none.
Row(h, d) == [head |-> h, detail |-> d]
NoRow == Row({}, {})

TypeOK ==
  /\ FeedTypeOK
  /\ JobTypeOK(Phases)
  /\ agg \in [Keys -> [head : Inputs, detail : Inputs]]
  /\ grain \in [Workers -> {"cell", "role"}]
  /\ head \in [Workers -> Inputs]
  /\ detail \in [Workers -> Inputs]

Init ==
  /\ FeedInit
  /\ ConsumerInit
  /\ agg = [k \in Keys |-> NoRow]
  /\ grain = [w \in Workers |-> "cell"]
  /\ head = [w \in Workers |-> {}]
  /\ detail = [w \in Workers |-> {}]

-----------------------------------------------------------------------------

\* The keys whose rows an entry in cell c counts towards.
KeysOf(c) == {c, RoleOf[c]}

Live(k) == {r \in Reports : content[r] # Hidden /\ k \in KeysOf(content[r].cell)}

\* The level grain never holds a row for a skipped level.
Counted(k) ==
  IF k \in Sentinel THEN {} ELSE {<<r, content[r].body>> : r \in Live(k)}

KeyOf(w) ==
  LET c == EventOf(ev[w]).cell IN IF grain[w] = "cell" THEN c ELSE RoleOf[c]

\* v_count and the outcomes; with no live report the row is deleted next.
ReadCounts(w) ==
  /\ pc[w] = "read"
  /\ head' = [head EXCEPT ![w] = Counted(KeyOf(w))]
  /\ pc' = [pc EXCEPT ![w] = IF Counted(KeyOf(w)) = {} THEN "write" ELSE "detail"]
  /\ UNCHANGED <<ev, todo, onJob, queueVars, failures, feedVars, agg, grain, detail>>

\* A defect: the statistics come with the keys of the reports only.
ReadDetailsByReport(w) ==
  /\ pc[w] = "detail"
  /\ detail' = [detail EXCEPT ![w] = Live(KeyOf(w))]
  /\ pc' = [pc EXCEPT ![w] = "write"]
  /\ UNCHANGED <<ev, todo, onJob, queueVars, failures, feedVars, agg, grain, head>>

\* v_median, v_mode_seq and v_top, over what is live by now.
ReadDetails(w) ==
  /\ pc[w] = "detail"
  /\ detail' = [detail EXCEPT ![w] = Counted(KeyOf(w))]
  /\ pc' = [pc EXCEPT ![w] = "write"]
  /\ UNCHANGED <<ev, todo, onJob, queueVars, failures, feedVars, agg, grain, head>>

\* A defect: the role above the cell is forgotten.
WriteCellOnly(w) ==
  /\ pc[w] = "write"
  /\ agg' = [agg EXCEPT ![KeyOf(w)] = Row(head[w], detail[w])]
  /\ head' = [head EXCEPT ![w] = {}]
  /\ detail' = [detail EXCEPT ![w] = {}]
  /\ pc' = [pc EXCEPT ![w] = "mark"]
  /\ UNCHANGED <<ev, todo, onJob, queueVars, failures, feedVars, grain>>

\* The upsert, or the delete, and the return from the function.  The cell comes
\* first, then the role; then the event is stamped.
Write(w) ==
  /\ pc[w] = "write"
  /\ agg' = [agg EXCEPT ![KeyOf(w)] = Row(head[w], detail[w])]
  /\ head' = [head EXCEPT ![w] = {}]
  /\ detail' = [detail EXCEPT ![w] = {}]
  /\ IF grain[w] = "cell"
       THEN /\ grain' = [grain EXCEPT ![w] = "role"]
            /\ pc' = [pc EXCEPT ![w] = "read"]
       ELSE /\ grain' = [grain EXCEPT ![w] = "cell"]
            /\ pc' = [pc EXCEPT ![w] = "mark"]
  /\ UNCHANGED <<ev, todo, onJob, queueVars, failures, feedVars>>

Mark(w) == Stamp(w) /\ UNCHANGED <<agg, refreshVars>>

\* The function's transaction rolls back with the job.
Crash(w) ==
  /\ Fail(w)
  /\ grain' = [grain EXCEPT ![w] = "cell"]
  /\ head' = [head EXCEPT ![w] = {}]
  /\ detail' = [detail EXCEPT ![w] = {}]
  /\ UNCHANGED agg

Begin(w) == Start(w) /\ UNCHANGED <<agg, refreshVars>>

Refresh(w) == ReadCounts(w) \/ ReadDetails(w) \/ Write(w) \/ Mark(w)

Hear == (\E e \in EventIds : Notify(e)) /\ UNCHANGED <<agg, refreshVars>>

ReportsChange == Produce /\ UNCHANGED workerVars

Next ==
  \/ ReportsChange
  \/ Hear
  \/ \E w \in Workers : Begin(w)
  \/ \E w \in Workers : Refresh(w)
  \/ \E w \in Workers : Crash(w)

Spec == Init /\ [][Next]_vars

-----------------------------------------------------------------------------

Exact(k) == Row(Counted(k), Counted(k))

Touches(e, k) == k \in KeysOf(EventOf(e).cell)

\* An unprocessed event, or a restored report, says the row of k is in doubt.
InDoubt(k) ==
  \/ \E e \in pending[Mine] : Touches(e, k)
  \/ Live(k) \cap unannounced # {}

\* Once every event of a cell is processed, its row counts exactly the reports
\* that are live in it, over one and the same set of them, and so does the row
\* of its role: however the reports change under the refresh, wherever a job
\* dies, and whatever order the events come in (refreshAggregateForEvent).
\* Restored reports, which write no event, are excepted.
SettledIsExact == \A k \in Keys : ~ InDoubt(k) => agg[k] = Exact(k)

=============================================================================
