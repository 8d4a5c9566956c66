---------------------------- MODULE OutboxConsumer ----------------------------
(***************************************************************************)
(* The part that the consumers of the outbox share: a BullMQ queue whose   *)
(* workers run sweep jobs (drain whatever is unprocessed) and, when the    *)
(* LISTEN bridge is on, one job per notified event.  What a worker does    *)
(* between taking an event and stamping it is left to the module of the    *)
(* consumer: it starts at "read" and ends at "mark".                       *)
(***************************************************************************)
EXTENDS ReportFeed, FiniteSets

CONSTANTS
  Workers,      \* concurrent processors of the queue (WORKER_CONCURRENCY)
  Mine,         \* the consumer this queue serves
  ClaimLimit,   \* events one sweep claims at most
  Announced,    \* events whose NOTIFY may reach the LISTEN bridge: any of them
                \* with WORKER_EVENT_LISTENER on, none with it off or down
  MaxFailures,  \* bound: failing jobs, process crashes included
  NoEvent

ASSUME MineAssumption == Mine \in Consumers
ASSUME ClaimLimitAssumption == ClaimLimit \in Nat \ {0}
ASSUME AnnouncedAssumption == Announced \subseteq EventIds
ASSUME MaxFailuresAssumption == MaxFailures \in Nat
ASSUME NoEventAssumption == NoEvent \notin EventIds

VARIABLES
  pc,        \* pc[w]: where worker w is in its job
  ev,        \* ev[w]: the event w is handling
  todo,      \* todo[w]: the rest of the batch a sweep claimed
  onJob,     \* workers whose job is an event job, not a sweep
  jobs,      \* event jobs in the queue
  heard,     \* events whose NOTIFY was delivered
  failures

jobVars == <<pc, ev, todo, onJob>>
queueVars == <<jobs, heard>>
consumerVars == <<pc, ev, todo, onJob, jobs, heard, failures>>

JobTypeOK(phases) ==
  /\ pc \in [Workers -> phases]
  /\ ev \in [Workers -> EventIds \cup {NoEvent}]
  /\ todo \in [Workers -> SUBSET EventIds]
  /\ onJob \in SUBSET Workers
  /\ jobs \in SUBSET EventIds
  /\ heard \in SUBSET EventIds
  /\ failures \in 0 .. MaxFailures

ConsumerInit ==
  /\ pc = [w \in Workers |-> "idle"]
  /\ ev = [w \in Workers |-> NoEvent]
  /\ todo = [w \in Workers |-> {}]
  /\ onJob = {}
  /\ jobs = {}
  /\ heard = {}
  /\ failures = 0

-----------------------------------------------------------------------------

\* A defect: deletions are left to somebody else.
ClaimExceptDeletions ==
  {{e \in pending[Mine] : EventOf(e).op # "deleted"}} \ {{}}

\* One sweep reads up to ClaimLimit of the rows it still owes.  "Oldest first"
\* follows transaction start times, so any rows can be those.
ClaimUnprocessedEvents ==
  {batch \in SUBSET pending[Mine] :
     \/ batch = pending[Mine] /\ Cardinality(batch) <= ClaimLimit
     \/ Cardinality(batch) = ClaimLimit}

\* A tick of the repeatable sweep; with nothing to drain it has no effect.
StartSweep(w) ==
  /\ pc[w] = "idle"
  /\ pending[Mine] # {}
  /\ \E batch \in ClaimUnprocessedEvents : todo' = [todo EXCEPT ![w] = batch]
  /\ pc' = [pc EXCEPT ![w] = "next"]
  /\ UNCHANGED <<ev, onJob, queueVars, failures, feedVars>>

Handle(w, e) ==
  /\ ev' = [ev EXCEPT ![w] = e]
  /\ pc' = [pc EXCEPT ![w] = "read"]

\* The sweep goes on to the next event of its batch, whether or not another job
\* has stamped it in the meantime.
Take(w, e) ==
  /\ pc[w] = "next"
  /\ e \in todo[w]
  /\ Handle(w, e)
  /\ todo' = [todo EXCEPT ![w] = @ \ {e}]
  /\ UNCHANGED <<onJob, queueVars, failures, feedVars>>

\* The LISTEN callback enqueues a job for the event, soon or late.  A
\* notification that is lost is one for which this never happens.
Notify(e) ==
  /\ e \in (Committed \cap Announced) \ heard
  /\ heard' = heard \cup {e}
  /\ jobs' = jobs \cup {e}
  /\ UNCHANGED <<jobVars, failures, feedVars>>

StartEventJob(w, e) ==
  /\ pc[w] = "idle"
  /\ e \in jobs
  /\ jobs' = jobs \ {e}
  /\ Handle(w, e)
  /\ onJob' = onJob \cup {w}
  /\ UNCHANGED <<todo, heard, failures, feedVars>>

\* A worker takes up a job, or the next event of its sweep.
Start(w) ==
  \/ StartSweep(w)
  \/ \E e \in EventIds : Take(w, e)
  \/ \E e \in EventIds : StartEventJob(w, e)

\* The last step of a handler.  The job is over, or a sweep has more to do.
Stamp(w) ==
  /\ pc[w] = "mark"
  /\ MarkEventProcessed(Mine, ev[w])
  /\ pc' = [pc EXCEPT ![w] = IF todo[w] = {} THEN "idle" ELSE "next"]
  /\ ev' = [ev EXCEPT ![w] = NoEvent]
  /\ onJob' = onJob \ {w}
  /\ UNCHANGED <<todo, queueVars, failures, content, unannounced>>

\* The job throws, or the process dies with it.  A sweep drops the rest of its
\* batch and the next tick claims again; an event job is tried again unless its
\* attempts are used up.
Fail(w) ==
  /\ pc[w] # "idle"
  /\ failures < MaxFailures
  /\ failures' = failures + 1
  /\ pc' = [pc EXCEPT ![w] = "idle"]
  /\ ev' = [ev EXCEPT ![w] = NoEvent]
  /\ todo' = [todo EXCEPT ![w] = {}]
  /\ onJob' = onJob \ {w}
  /\ \/ UNCHANGED jobs
     \/ w \in onJob /\ jobs' = jobs \cup {ev[w]}
  /\ UNCHANGED <<heard, feedVars>>

=============================================================================
