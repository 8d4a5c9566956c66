----------------------------- MODULE SearchWorker -----------------------------
(***************************************************************************)
(* The index-typesense consumer and the daily backfill: one document per   *)
(* visible report, rebuilt from the report on every event.                 *)
(*                                                                         *)
(* getReportForIndex runs outside a transaction: the visible row is read   *)
(* first, its rounds and questions after it.  Typesense is a second store; *)
(* each upsert, delete or import takes effect in a step of its own.        *)
(***************************************************************************)
EXTENDS OutboxConsumer

CONSTANTS
  BatchSize,    \* REPORT_BATCH
  NoDocument,
  NoReport

Document == [cell : Cells, head : Bodies, children : Bodies]

ASSUME BatchSizeAssumption == BatchSize \in Nat \ {0}
ASSUME NoDocumentAssumption == NoDocument \notin Document
ASSUME NoReportAssumption == NoReport \notin Reports

VARIABLES
  index,     \* index[r]: the document with the id of report r
  draft,     \* draft[w]: what worker w is about to write
  imported,  \* reports whose document was last written by the backfill
  listed,    \* visible reports the backfill has still to read
  reading,   \* the report it is reading
  partial,   \* what it has read of it
  batch      \* documents it has built; its domain is the batch

backfillVars == <<listed, reading, partial, batch>>
searchVars == <<index, draft, imported, backfillVars>>
workerVars == <<consumerVars, searchVars>>
vars == <<feedVars, workerVars>>

Phases == {"idle", "next", "read", "children", "write", "mark"}

TypeOK ==
  /\ FeedTypeOK
  /\ JobTypeOK(Phases)
  /\ index \in [Reports -> Document \cup {NoDocument}]
  /\ draft \in [Workers -> Document \cup {NoDocument}]
  /\ imported \in SUBSET Reports
  /\ listed \in SUBSET Reports
  /\ reading \in Reports \cup {NoReport}
  /\ partial \in Document \cup {NoDocument}
  /\ DOMAIN batch \subseteq Reports
  /\ \A r \in DOMAIN batch : batch[r] \in Document

Init ==
  /\ FeedInit
  /\ ConsumerInit
  /\ index = [r \in Reports |-> NoDocument]
  /\ draft = [w \in Workers |-> NoDocument]
  /\ imported = {}
  /\ listed = {}
  /\ reading = NoReport
  /\ partial = NoDocument
  /\ batch = << >>

-----------------------------------------------------------------------------

\* The document of a visible report, as far as its row tells.
Heading(r) ==
  [cell |-> content[r].cell, head |-> content[r].body, children |-> content[r].body]

\* A defect: the children of a report are read under the visibility filter too.
ChildrenIfVisible(r) == IF content[r] = Hidden THEN {NoDocument} ELSE {content[r].body}

\* The rounds and questions of r: those of its body, or, for a report that was
\* hidden after its row was read, whatever it had before.
Children(r) == IF content[r] = Hidden THEN Bodies ELSE {content[r].body}

ReportOf(w) == ev[w][1]

\* A deletion is taken at its word; any other event reads the report again.
ReadHead(w) ==
  LET r == ReportOf(w)
      drop == EventOf(ev[w]).op = "deleted" \/ content[r] = Hidden IN
  /\ pc[w] = "read"
  /\ draft' = [draft EXCEPT ![w] = IF drop THEN NoDocument ELSE Heading(r)]
  /\ pc' = [pc EXCEPT ![w] = IF drop THEN "write" ELSE "children"]
  /\ UNCHANGED <<ev, todo, onJob, queueVars, failures, feedVars, index, imported,
                 backfillVars>>

ReadChildren(w) ==
  /\ pc[w] = "children"
  /\ \E b \in Children(ReportOf(w)) :
       draft' = [draft EXCEPT ![w].children = b]
  /\ pc' = [pc EXCEPT ![w] = "write"]
  /\ UNCHANGED <<ev, todo, onJob, queueVars, failures, feedVars, index, imported,
                 backfillVars>>

\* A defect: a report that is no longer visible keeps its document.
WriteIfVisible(w) ==
  /\ pc[w] = "write"
  /\ index' = [index EXCEPT ![ReportOf(w)] =
                 IF draft[w] = NoDocument /\ EventOf(ev[w]).op # "deleted"
                   THEN @ ELSE draft[w]]
  /\ imported' = imported \ {ReportOf(w)}
  /\ draft' = [draft EXCEPT ![w] = NoDocument]
  /\ pc' = [pc EXCEPT ![w] = "mark"]
  /\ UNCHANGED <<ev, todo, onJob, queueVars, failures, feedVars, backfillVars>>

\* upsertReportDoc or deleteReportDoc; deleting what is not there is no error.
Write(w) ==
  /\ pc[w] = "write"
  /\ index' = [index EXCEPT ![ReportOf(w)] = draft[w]]
  /\ imported' = imported \ {ReportOf(w)}
  /\ draft' = [draft EXCEPT ![w] = NoDocument]
  /\ pc' = [pc EXCEPT ![w] = "mark"]
  /\ UNCHANGED <<ev, todo, onJob, queueVars, failures, feedVars, backfillVars>>

Mark(w) == Stamp(w) /\ UNCHANGED searchVars

Crash(w) ==
  /\ Fail(w)
  /\ draft' = [draft EXCEPT ![w] = NoDocument]
  /\ UNCHANGED <<index, imported, backfillVars>>

Begin(w) == Start(w) /\ UNCHANGED searchVars

Project(w) == ReadHead(w) \/ ReadChildren(w) \/ Write(w) \/ Mark(w)

Hear == (\E e \in EventIds : Notify(e)) /\ UNCHANGED searchVars

-----------------------------------------------------------------------------
(* backfillReports, in the daily reconcile job.                            *)

BackfillIsOff == listed = {} /\ reading = NoReport /\ batch = << >>

\* A defect: only what the index does not hold is read again.
StartBackfillOfMissing ==
  /\ BackfillIsOff
  /\ listed' = {r \in Reports : content[r] # Hidden /\ index[r] = NoDocument}
  /\ UNCHANGED <<feedVars, consumerVars, index, draft, imported, reading, partial,
                 batch>>

\* listVisibleReportIds.
StartBackfill ==
  /\ BackfillIsOff
  /\ listed' = {r \in Reports : content[r] # Hidden}
  /\ UNCHANGED <<feedVars, consumerVars, index, draft, imported, reading, partial,
                 batch>>

\* A full batch is imported before the next report is read.
Full == Cardinality(DOMAIN batch) >= BatchSize

BackfillHead(r) ==
  /\ reading = NoReport /\ ~ Full
  /\ r \in listed
  /\ IF content[r] = Hidden
       THEN listed' = listed \ {r} /\ UNCHANGED <<reading, partial>>
       ELSE reading' = r /\ partial' = Heading(r) /\ UNCHANGED listed
  /\ UNCHANGED <<feedVars, consumerVars, index, draft, imported, batch>>

BackfillChildren ==
  /\ reading # NoReport
  /\ \E b \in Children(reading) :
       batch' = [r \in DOMAIN batch \cup {reading} |->
                   IF r = reading THEN [partial EXCEPT !.children = b] ELSE batch[r]]
  /\ listed' = listed \ {reading}
  /\ reading' = NoReport
  /\ partial' = NoDocument
  /\ UNCHANGED <<feedVars, consumerVars, index, draft, imported>>

Imported(D) ==
  /\ index' = [r \in Reports |-> IF r \in D THEN batch[r] ELSE index[r]]
  /\ imported' = imported \cup D

ReadyToImport == reading = NoReport /\ batch # << >> /\ (Full \/ listed = {})

\* importReportDocs: nothing is ever deleted here.
Import ==
  /\ ReadyToImport
  /\ Imported(DOMAIN batch)
  /\ batch' = << >>
  /\ UNCHANGED <<feedVars, consumerVars, draft, listed, reading, partial>>

\* The job fails, or Typesense takes only some of a batch: the rest is left to
\* the next run.
AbortBackfill ==
  /\ ~ BackfillIsOff
  /\ failures < MaxFailures
  /\ failures' = failures + 1
  /\ \E D \in SUBSET DOMAIN batch : (D # {} => ReadyToImport) /\ Imported(D)
  /\ listed' = {}
  /\ reading' = NoReport
  /\ partial' = NoDocument
  /\ batch' = << >>
  /\ UNCHANGED <<feedVars, pc, ev, todo, onJob, queueVars, draft>>

Backfill ==
  \/ StartBackfill
  \/ \E r \in Reports : BackfillHead(r)
  \/ BackfillChildren
  \/ Import

-----------------------------------------------------------------------------

ReportsChange == Produce /\ UNCHANGED workerVars

Next ==
  \/ ReportsChange
  \/ Hear
  \/ \E w \in Workers : Begin(w)
  \/ \E w \in Workers : Project(w)
  \/ \E w \in Workers : Crash(w)
  \/ Backfill
  \/ AbortBackfill

Spec == Init /\ [][Next]_vars

\* BullMQ runs the jobs it has, ticks the sweep for ever and starts the backfill
\* every day.
FairSpec ==
  /\ Spec
  /\ \A w \in Workers : WF_vars(Begin(w)) /\ WF_vars(Project(w))
  /\ WF_vars(Backfill)

-----------------------------------------------------------------------------

DocumentOf(r) == IF content[r] = Hidden THEN NoDocument ELSE Heading(r)

Pending(r) == \E e \in pending[Mine] : e[1] = r

\* Once the events of a report are processed, its document is exactly what the
\* public can see of it, or there is none: a hidden or deleted report cannot be
\* found, and an edit shows whole, whatever it raced with.  Restored reports,
\* which write no event, and reports the backfill wrote last are excepted.
SettledIsIndexed ==
  \A r \in Reports :
    Pending(r) \/ r \in unannounced \cup imported \/ index[r] = DocumentOf(r)

\* Once reports stop changing, every visible report is found, as it is: restored
\* ones too, which only the backfill can bring back.
EventuallyFindable ==
  <>[](\A r \in Reports : content[r] # Hidden => index[r] = DocumentOf(r))

\* "One Typesense doc per visible report": once reports stop changing, nothing
\* else is found.
EventuallyOnlyVisible ==
  <>[](\A r \in Reports : content[r] = Hidden => index[r] = NoDocument)

=============================================================================
