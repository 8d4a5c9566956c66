--------------------------- MODULE AggregateReconcile ---------------------------
(***************************************************************************)
(* The daily reconcile job beside the refresh-aggregate workers.           *)
(*                                                                         *)
(* refresh_all_aggregates is one transaction: its writes are staged, with  *)
(* their rows locked, until it commits, while each of its statements reads *)
(* what the other transactions have committed by then.                     *)
(***************************************************************************)
EXTENDS AggregateWorker

CONSTANT NoKey

ASSUME NoKeyAssumption == NoKey \notin Keys

VARIABLES
  stage,    \* "off", or the grain the reconcile job is rebuilding
  plan,     \* keys its loop still has to refresh
  current,  \* the key it is refreshing
  counted,  \* the reports it counted there
  staged    \* staged[k]: the row it wrote for k; its domain is locked

reconcileVars == <<stage, plan, current, counted, staged>>
allVars == <<vars, reconcileVars>>

ReconcileTypeOK ==
  /\ stage \in {"off", "cells", "roles"}
  /\ plan \in SUBSET Keys
  /\ current \in Keys \cup {NoKey}
  /\ counted \in Inputs
  /\ DOMAIN staged \subseteq Keys
  /\ \A k \in DOMAIN staged : staged[k] \in [head : Inputs, detail : Inputs]

ReconcileInit ==
  /\ Init
  /\ stage = "off"
  /\ plan = {}
  /\ current = NoKey
  /\ counted = {}
  /\ staged = << >>

-----------------------------------------------------------------------------

\* The row of k as the reconcile transaction sees it.
Seen(k) == IF k \in DOMAIN staged THEN staged[k] ELSE agg[k]

Stage(rows) ==
  staged' = [k \in DOMAIN rows \cup DOMAIN staged |->
               IF k \in DOMAIN rows THEN rows[k] ELSE staged[k]]

\* A defect: rows of keys with no live report are left alone.
RebuildWithoutOrphans(keys) ==
  /\ staged' = staged
  /\ plan' = {k \in keys : Live(k) # {}} \ Sentinel
  /\ UNCHANGED <<current, counted>>

\* The rows of keys with no live report are deleted; every other key with one
\* will be refreshed.
Rebuild(keys) ==
  /\ Stage([k \in {j \in keys : Live(j) = {} /\ Seen(j) # NoRow} |-> NoRow])
  /\ plan' = {k \in keys : Live(k) # {}} \ Sentinel
  /\ UNCHANGED <<current, counted>>

StartReconcile ==
  /\ stage = "off"
  /\ stage' = "cells"
  /\ Rebuild(Cells)
  /\ UNCHANGED vars

StartRoles ==
  /\ stage = "cells"
  /\ plan = {}
  /\ current = NoKey
  /\ stage' = "roles"
  /\ Rebuild(Roles)
  /\ UNCHANGED vars

\* A defect: the reports themselves are taken for what was counted of them.
CountReports(k) ==
  /\ current = NoKey
  /\ k \in plan
  /\ current' = k
  /\ counted' = Live(k)
  /\ UNCHANGED <<vars, stage, plan, staged>>

\* The first statement of the refresh of k.
CountAgain(k) ==
  /\ current = NoKey
  /\ k \in plan
  /\ current' = k
  /\ counted' = Counted(k)
  /\ UNCHANGED <<vars, stage, plan, staged>>

\* The others, and the write.  A delete that finds no row locks nothing.
StageRow ==
  /\ current # NoKey
  /\ IF counted # {}
       THEN Stage([k \in {current} |-> Row(counted, Counted(current))])
       ELSE IF Seen(current) # NoRow THEN Stage([k \in {current} |-> NoRow])
                                     ELSE UNCHANGED staged
  /\ plan' = plan \ {current}
  /\ current' = NoKey
  /\ counted' = {}
  /\ UNCHANGED <<vars, stage>>

Forget ==
  /\ stage' = "off"
  /\ plan' = {}
  /\ current' = NoKey
  /\ counted' = {}
  /\ staged' = << >>

CommitReconcile ==
  /\ stage = "roles"
  /\ plan = {}
  /\ current = NoKey
  /\ agg' = [k \in Keys |-> Seen(k)]
  /\ Forget
  /\ UNCHANGED <<feedVars, consumerVars, refreshVars>>

\* The job fails; the next one starts over.
AbortReconcile ==
  /\ stage # "off"
  /\ failures < MaxFailures
  /\ failures' = failures + 1
  /\ Forget
  /\ UNCHANGED <<feedVars, pc, ev, todo, onJob, queueVars, agg, refreshVars>>

\* The write of worker w waits for a row lock: the delete of a row that does
\* not exist takes none.
Waits(w) ==
  /\ pc[w] = "write"
  /\ KeyOf(w) \in DOMAIN staged
  /\ head[w] # {} \/ agg[KeyOf(w)] # NoRow

Reconcile ==
  \/ StartReconcile
  \/ StartRoles
  \/ \E k \in Keys : CountAgain(k)
  \/ StageRow
  \/ CommitReconcile

Work(w) == Refresh(w) /\ ~ Waits(w) /\ UNCHANGED reconcileVars

ReconcileNext ==
  \/ /\ ReportsChange \/ Hear \/ \E w \in Workers : Begin(w) \/ Crash(w)
     /\ UNCHANGED reconcileVars
  \/ \E w \in Workers : Work(w)
  \/ Reconcile
  \/ AbortReconcile

\* BullMQ runs the jobs it has, ticks the sweep for ever and starts the
\* reconcile job every day.  Postgres hands a row lock to who
\* waits for it, so a worker is not overtaken for ever by the next rebuild.
ReconcileSpec ==
  /\ ReconcileInit
  /\ [][ReconcileNext]_allVars
  /\ \A w \in Workers : WF_allVars(Begin(w) /\ UNCHANGED reconcileVars)
                        /\ SF_allVars(Work(w))
  /\ WF_allVars(Reconcile)

\* Once reports stop changing, every row ends up exact and stays so, although
\* workers race on a key, restored reports write no event, and the reconcile
\* job itself may overwrite a row with an older one.
EventuallyExact == <>[](\A k \in Keys : agg[k] = Exact(k))

\* Every committed event is processed in the end, by a sweep or a job of its
\* own, whatever failed before (finitely often) and however often the daily
\* rebuild holds the rows its refresh has to write.
EventsAreDrained ==
  \A e \in EventIds : e \in pending[Mine] ~> e \notin pending[Mine]

=============================================================================
