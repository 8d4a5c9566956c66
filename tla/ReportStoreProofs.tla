--------------------------- MODULE ReportStoreProofs ---------------------------
(***************************************************************************)
(* Theorems about ReportStore, for any reports, users, cells, bodies and   *)
(* requests in flight.                                                     *)
(***************************************************************************)
EXTENDS ReportStore, SequenceTheorems, TLAPS

-----------------------------------------------------------------------------
(* The outbox.                                                             *)

\* The entries of one report's step form a batch.
LEMMA OnType ==
  ASSUME NEW r \in Reports, NEW entries \in Seq(Event)
  PROVE  On(r, entries) \in [Reports -> Seq(Event)]
BY DEF On

\* An entry about a cell is an event.
LEMMA EntryType ==
  ASSUME NEW op \in Ops, NEW c \in Cells
  PROVE  Entry(op, c) \in Event
BY DEF Entry, Event

\* Inserting a batch of events keeps the outbox well-formed: a pending event is
\* always one that was committed.
LEMMA EmitKeepsOutbox ==
  ASSUME OutboxTypeOK, NEW es \in [Reports -> Seq(Event)], EmitReportEvent(es)
  PROVE  OutboxTypeOK'
<1>1. log' \in [Reports -> Seq(Event)]
  BY DEF OutboxTypeOK, EmitReportEvent
<1>2. pending' \in [Consumers -> SUBSET EventIds]
  BY DEF OutboxTypeOK, EmitReportEvent
<1>3. ASSUME NEW k \in Consumers, NEW e \in pending'[k]
      PROVE  e[2] <= Len(log'[e[1]])
  <2>1. PICK r \in Reports, n \in 1 .. MaxLog : e = <<r, n>>
    BY <1>2, <1>3 DEF EventIds
  <2>2. e[1] = r /\ e[2] = n /\ n \in Nat
    BY <2>1, MaxLogAssumption
  <2>3. log[r] \in Seq(Event) /\ es[r] \in Seq(Event)
    BY DEF OutboxTypeOK
  <2>4. log'[r] = log[r] \o es[r]
    BY DEF EmitReportEvent
  <2>5. /\ Len(log'[r]) = Len(log[r]) + Len(es[r])
        /\ Len(log[r]) \in Nat
        /\ Len(es[r]) \in Nat
    BY <2>3, <2>4
  <2>6. CASE e \in pending[k]
    BY <2>2, <2>5, <2>6 DEF OutboxTypeOK
  <2>7. CASE e \notin pending[k]
    <3>1. e[2] <= Len(log[e[1]]) + Len(es[e[1]])
      BY <1>3, <2>7 DEF EmitReportEvent
    <3> QED
      BY <2>2, <2>5, <3>1
  <2> QED
    BY <2>6, <2>7
<1> QED
  BY <1>1, <1>2, <1>3 DEF OutboxTypeOK

\* A step that leaves the events table alone.
LEMMA OutboxUnchanged ==
  ASSUME OutboxTypeOK, UNCHANGED <<log, pending>>
  PROVE  OutboxTypeOK'
BY DEF OutboxTypeOK

-----------------------------------------------------------------------------
(* Type correctness.                                                       *)

\* The table of reports and the requests, apart from the outbox.
RowsTypeOK ==
  /\ status \in [Reports -> Status]
  /\ cell \in [Reports -> Cells]
  /\ body \in [Reports -> Bodies]
  /\ locked \in [Reports -> BOOLEAN]
  /\ expired \in [Reports -> BOOLEAN]
  /\ purged \in [Reports -> BOOLEAN]
  /\ gone \in SUBSET Users
  /\ modlog \in [Reports -> SUBSET ModAction]
  /\ doomed \in SUBSET Reports

RequestsTypeOK ==
  /\ phase \in [Sessions -> Phase]
  /\ target \in [Sessions -> Reports \cup {NoReport}]
  /\ chosen \in [Sessions -> Cells \cup {NoCell}]

\* The events of an edit.
LEMMA UpdateEntriesType ==
  ASSUME NEW before \in Cells, NEW c \in Cells
  PROVE  UpdateEntries(before, c) \in Seq(Event)
BY EntryType DEF UpdateEntries, Ops

\* A request always writes a report, and a cell, of its own choosing: the
\* placeholders are only there while it is idle.
RequestsBusy ==
  \A s \in Sessions :
    /\ phase[s] # "idle" => target[s] \in Reports
    /\ phase[s] \in {"read", "capped"} => chosen[s] \in Cells

TypeInv == OutboxTypeOK /\ RowsTypeOK /\ RequestsTypeOK /\ RequestsBusy

\* The inductive invariant is the type invariant, and more.
LEMMA TypeInvIsTypeOK == TypeInv => TypeOK
BY DEF TypeInv, TypeOK, RowsTypeOK, RequestsTypeOK

\* An empty store, with no request in flight, is well typed.
LEMMA InitTypeInv == Init => TypeInv
<1> SUFFICES ASSUME Init PROVE TypeInv
  OBVIOUS
<1>1. OutboxTypeOK
  BY DEF Init, OutboxInit, OutboxTypeOK
<1>2. (CHOOSE c \in Cells : TRUE) \in Cells
  BY CellsAssumption
<1>3. RowsTypeOK
  BY <1>2, BlankBodyAssumption DEF Init, RowsTypeOK, Status
<1>4. RequestsTypeOK /\ RequestsBusy
  BY DEF Init, RequestsTypeOK, RequestsBusy, Phase
<1> QED
  BY <1>1, <1>3, <1>4 DEF TypeInv

\* Every request of the submission flow keeps the types.
LEMMA SubmissionKeepsTypeInv == TypeInv /\ Submission => TypeInv'
<1> SUFFICES ASSUME TypeInv, Submission PROVE TypeInv'
  OBVIOUS
<1>0. OutboxTypeOK /\ RowsTypeOK /\ RequestsTypeOK /\ RequestsBusy
  BY DEF TypeInv
<1>1. CASE \E s \in Sessions, r \in Reports : GateEdit(s, r)
  <2>1. PICK s \in Sessions, r \in Reports : GateEdit(s, r)
    BY <1>1
  <2>2. OutboxTypeOK' /\ RowsTypeOK'
    BY <1>0, <2>1, OutboxUnchanged DEF GateEdit, RowsTypeOK, rows
  <2>3. RequestsTypeOK' /\ RequestsBusy'
    BY <1>0, <2>1 DEF GateEdit, RequestsTypeOK, RequestsBusy, Phase
  <2> QED
    BY <2>2, <2>3 DEF TypeInv
<1>2. CASE \E s \in Sessions : ReadCellBefore(s)
  <2>1. PICK s \in Sessions : ReadCellBefore(s)
    BY <1>2
  <2>2. OutboxTypeOK' /\ RowsTypeOK'
    BY <1>0, <2>1, OutboxUnchanged DEF ReadCellBefore, RowsTypeOK, rows
  <2>3. RequestsTypeOK' /\ RequestsBusy'
    BY <1>0, <2>1 DEF ReadCellBefore, RequestsTypeOK, RequestsBusy, RowsTypeOK, Phase
  <2> QED
    BY <2>2, <2>3 DEF TypeInv
<1>3. CASE \E s \in Sessions, c \in Cells, b \in Written : UpdateReport(s, c, b)
  <2>1. PICK s \in Sessions, c \in Cells, b \in Written : UpdateReport(s, c, b)
    BY <1>3
  <2>2. target[s] \in Reports /\ chosen[s] \in Cells
    BY <1>0, <2>1 DEF UpdateReport, RequestsBusy
  <2>3. OutboxTypeOK'
    BY <1>0, <2>1, <2>2, UpdateEntriesType, OnType, EmitKeepsOutbox DEF UpdateReport
  <2>4. RowsTypeOK'
    BY <1>0, <2>1, <2>2, WrittenBodyAssumption DEF UpdateReport, RowsTypeOK
  <2>5. RequestsTypeOK' /\ RequestsBusy'
    BY <1>0, <2>1 DEF UpdateReport, Return, RequestsTypeOK, RequestsBusy, Phase
  <2> QED
    BY <2>3, <2>4, <2>5 DEF TypeInv
<1>4. CASE \E s \in Sessions, r \in Reports, c \in Cells : CapCheck(s, r, c)
  <2>1. PICK s \in Sessions, r \in Reports, c \in Cells : CapCheck(s, r, c)
    BY <1>4
  <2>2. OutboxTypeOK' /\ RowsTypeOK'
    BY <1>0, <2>1, OutboxUnchanged DEF CapCheck, RowsTypeOK, rows
  <2>3. RequestsTypeOK' /\ RequestsBusy'
    BY <1>0, <2>1 DEF CapCheck, RequestsTypeOK, RequestsBusy, Phase
  <2> QED
    BY <2>2, <2>3 DEF TypeInv
<1>5. CASE \E s \in Sessions, st \in Status, b \in Written : CreateReport(s, st, b)
  <2>1. PICK s \in Sessions, st \in Status, b \in Written : CreateReport(s, st, b)
    BY <1>5
  <2>2. target[s] \in Reports /\ chosen[s] \in Cells
    BY <1>0, <2>1 DEF CreateReport, RequestsBusy
  <2>3. <<Entry("created", chosen[s])>> \in Seq(Event)
    BY <2>2, EntryType DEF Ops
  <2>4. OutboxTypeOK'
    BY <1>0, <2>1, <2>2, <2>3, OnType, EmitKeepsOutbox DEF CreateReport
  <2>5. RowsTypeOK'
    BY <1>0, <2>1, <2>2, WrittenBodyAssumption DEF CreateReport, RowsTypeOK
  <2>6. RequestsTypeOK' /\ RequestsBusy'
    BY <1>0, <2>1 DEF CreateReport, Return, RequestsTypeOK, RequestsBusy, Phase
  <2> QED
    BY <2>4, <2>5, <2>6 DEF TypeInv
<1>6. CASE \E s \in Sessions : AbandonRequest(s)
  <2>1. PICK s \in Sessions : AbandonRequest(s)
    BY <1>6
  <2>2. OutboxTypeOK' /\ RowsTypeOK'
    BY <1>0, <2>1, OutboxUnchanged DEF AbandonRequest, RowsTypeOK, rows
  <2>3. RequestsTypeOK' /\ RequestsBusy'
    BY <1>0, <2>1 DEF AbandonRequest, Return, RequestsTypeOK, RequestsBusy, Phase
  <2> QED
    BY <2>2, <2>3 DEF TypeInv
<1> QED
  BY <1>1, <1>2, <1>3, <1>4, <1>5, <1>6 DEF Submission

\* Deleting a set of reports keeps the types.
LEMMA MarkDeletedKeepsTypes ==
  ASSUME TypeInv, NEW D \in SUBSET Reports, MarkDeleted(D),
         gone' \in SUBSET Users, modlog' \in [Reports -> SUBSET ModAction]
  PROVE  TypeInv'
<1> DEFINE es == [r \in Reports |->
                    IF r \in D THEN <<Entry("deleted", cell[r])>> ELSE << >>]
<1>1. es \in [Reports -> Seq(Event)]
  <2> SUFFICES ASSUME NEW r \in Reports
               PROVE  (IF r \in D THEN <<Entry("deleted", cell[r])>> ELSE << >>)
                        \in Seq(Event)
    OBVIOUS
  <2>1. cell[r] \in Cells
    BY DEF TypeInv, RowsTypeOK
  <2>2. Entry("deleted", cell[r]) \in Event
    BY <2>1, EntryType DEF Ops
  <2> QED
    BY <2>2
<1>2. OutboxTypeOK'
  <2>1. EmitReportEvent(es)
    BY DEF MarkDeleted
  <2> HIDE DEF es
  <2> QED
    BY <1>1, <2>1, EmitKeepsOutbox DEF TypeInv
<1>3. RowsTypeOK'
  BY DEF TypeInv, MarkDeleted, RowsTypeOK, Status
<1>4. RequestsTypeOK' /\ RequestsBusy'
  BY DEF TypeInv, MarkDeleted, RequestsTypeOK, RequestsBusy, requests
<1> QED
  BY <1>2, <1>3, <1>4 DEF TypeInv

\* Every way to delete reports keeps the types.
LEMMA RemovalKeepsTypeInv == TypeInv /\ Removal => TypeInv'
<1> SUFFICES ASSUME TypeInv, Removal PROVE TypeInv'
  OBVIOUS
<1>0. gone \in SUBSET Users /\ modlog \in [Reports -> SUBSET ModAction]
  BY DEF TypeInv, RowsTypeOK
<1>1. CASE \E r \in Reports : SoftDeleteReport(r)
  BY <1>0, <1>1, MarkDeletedKeepsTypes DEF SoftDeleteReport
<1>2. CASE \E u \in Users : DeleteUserAccount(u)
  BY <1>0, <1>2, MarkDeletedKeepsTypes DEF DeleteUserAccount
<1> QED
  BY <1>1, <1>2 DEF Removal

\* Every moderator command keeps the types.
LEMMA ModerationKeepsTypeInv == TypeInv /\ Moderation => TypeInv'
<1> SUFFICES ASSUME TypeInv, Moderation PROVE TypeInv'
  OBVIOUS
<1>0. OutboxTypeOK /\ RowsTypeOK /\ RequestsTypeOK /\ RequestsBusy
  BY DEF TypeInv
<1>1. CASE \E r \in Reports : ApproveHeldReport(r)
  <2>1. PICK r \in Reports : ApproveHeldReport(r)
    BY <1>1
  <2>2. <<Entry("updated", cell[r])>> \in Seq(Event)
    BY <1>0, EntryType DEF RowsTypeOK, Ops
  <2>3. OutboxTypeOK'
    BY <1>0, <2>1, <2>2, OnType, EmitKeepsOutbox DEF ApproveHeldReport
  <2>4. RowsTypeOK'
    BY <1>0, <2>1 DEF ApproveHeldReport, Logged, RowsTypeOK, Status, ModAction
  <2>5. RequestsTypeOK' /\ RequestsBusy'
    BY <1>0, <2>1 DEF ApproveHeldReport, RequestsTypeOK, RequestsBusy, requests
  <2> QED
    BY <2>3, <2>4, <2>5 DEF TypeInv
<1>2. CASE \E r \in Reports : RejectHeldReport(r)
  <2>1. PICK r \in Reports : RejectHeldReport(r)
    BY <1>2
  <2>2. OutboxTypeOK'
    BY <1>0, <2>1, OutboxUnchanged DEF RejectHeldReport
  <2>3. RowsTypeOK'
    BY <1>0, <2>1 DEF RejectHeldReport, Logged, RowsTypeOK, Status, ModAction
  <2>4. RequestsTypeOK' /\ RequestsBusy'
    BY <1>0, <2>1 DEF RejectHeldReport, RequestsTypeOK, RequestsBusy, requests
  <2> QED
    BY <2>2, <2>3, <2>4 DEF TypeInv
<1>3. CASE \E r \in Reports : HideFlaggedReport(r)
  <2>1. PICK r \in Reports : HideFlaggedReport(r)
    BY <1>3
  <2>2. gone' \in SUBSET Users /\ modlog' \in [Reports -> SUBSET ModAction]
    BY <1>0, <2>1 DEF HideFlaggedReport, Logged, RowsTypeOK, ModAction
  <2> QED
    BY <2>1, <2>2, MarkDeletedKeepsTypes DEF HideFlaggedReport
<1>4. CASE \E r \in Reports : RestoreSoftDeleted(r)
  <2>1. PICK r \in Reports : RestoreSoftDeleted(r)
    BY <1>4
  <2>2. OutboxTypeOK'
    BY <1>0, <2>1, OutboxUnchanged DEF RestoreSoftDeleted
  <2>3. RowsTypeOK'
    BY <1>0, <2>1 DEF RestoreSoftDeleted, Logged, RowsTypeOK, Status, ModAction
  <2>4. RequestsTypeOK' /\ RequestsBusy'
    BY <1>0, <2>1 DEF RestoreSoftDeleted, RequestsTypeOK, RequestsBusy, requests
  <2> QED
    BY <2>2, <2>3, <2>4 DEF TypeInv
<1> QED
  BY <1>1, <1>2, <1>3, <1>4 DEF Moderation

\* The purge, and time, keep the types.
LEMMA RetentionKeepsTypeInv == TypeInv /\ Retention => TypeInv'
<1> SUFFICES ASSUME TypeInv, Retention PROVE TypeInv'
  OBVIOUS
<1>0. OutboxTypeOK /\ RowsTypeOK /\ RequestsTypeOK /\ RequestsBusy
  BY DEF TypeInv
<1>1. OutboxTypeOK'
  BY <1>0, OutboxUnchanged DEF Retention, SelectDue, ScrubDue, AbandonPurge,
     EditWindowCloses, RetentionElapses
<1>2. RequestsTypeOK' /\ RequestsBusy'
  <2>1. UNCHANGED requests
    BY DEF Retention, SelectDue, ScrubDue, AbandonPurge, EditWindowCloses,
       RetentionElapses
  <2> QED
    BY <1>0, <2>1 DEF RequestsTypeOK, RequestsBusy, requests
<1>3. RowsTypeOK'
  <2>1. CASE SelectDue
    BY <1>0, <2>1 DEF SelectDue, RowsTypeOK, rows
  <2>2. CASE ScrubDue
    BY <1>0, <2>2, BlankBodyAssumption DEF ScrubDue, RowsTypeOK
  <2>3. CASE AbandonPurge
    BY <1>0, <2>3 DEF AbandonPurge, RowsTypeOK, rows
  <2>4. CASE \E r \in Reports : EditWindowCloses(r)
    BY <1>0, <2>4 DEF EditWindowCloses, RowsTypeOK
  <2>5. CASE \E r \in Reports : RetentionElapses(r)
    BY <1>0, <2>5 DEF RetentionElapses, RowsTypeOK
  <2> QED
    BY <2>1, <2>2, <2>3, <2>4, <2>5 DEF Retention
<1> QED
  BY <1>1, <1>2, <1>3 DEF TypeInv

\* A step that changes nothing.
LEMMA StutterKeepsTypeInv == TypeInv /\ UNCHANGED vars => TypeInv'
BY DEF TypeInv, vars, OutboxTypeOK, RowsTypeOK, RequestsTypeOK, RequestsBusy

\* Every step of the store keeps the types.
LEMMA NextKeepsTypeInv == TypeInv /\ [Next]_vars => TypeInv'
BY SubmissionKeepsTypeInv, RemovalKeepsTypeInv, ModerationKeepsTypeInv,
   RetentionKeepsTypeInv, StutterKeepsTypeInv DEF Next

\* Rows, requests and outbox are well typed in every reachable store, and a
\* request in flight has a report, and a cell, of its own.
THEOREM StoreTypeInv == Spec => []TypeInv
<1> QED
  BY InitTypeInv, NextKeepsTypeInv, PTL DEF Spec

\* Every variable keeps its type, in a store of any size: in particular no
\* request ever writes a report or a cell it has not chosen, and no consumer
\* owes an event that was not committed.
THEOREM StoreTypeOK == Spec => []TypeOK
BY StoreTypeInv, TypeInvIsTypeOK, PTL

-----------------------------------------------------------------------------
(* Moderation decisions.  HoldDecisionStands and PublicOnlyByModerator are   *)
(* not inductive: an insertion could overwrite a row a moderator had already *)
(* decided on, and an undecided report could carry an old decision.  So the  *)
(* invariant also says that a request about to insert has a fresh row to     *)
(* itself, that nothing is logged about a report before its decision, and     *)
(* that one that was restored cannot be rejected any more.                    *)

FreshTargets ==
  \A s \in Sessions :
    phase[s] = "capped" =>
      /\ status[target[s]] = "none"
      /\ \A t \in Sessions \ {s} : target[t] # target[s]

Undecided ==
  \A r \in Reports :
    /\ status[r] \in {"none", "pending_moderation"} => modlog[r] = {}
    /\ status[r] = "rejected" => "restore" \notin modlog[r]

DecisionInv ==
  /\ TypeInv
  /\ FreshTargets
  /\ Undecided
  /\ HoldDecisionStands
  /\ PublicOnlyByModerator

\* Nothing is decided, and nobody is about to insert, at first.
LEMMA InitDecisionInv == Init => DecisionInv
<1> SUFFICES ASSUME Init PROVE DecisionInv
  OBVIOUS
<1>1. TypeInv
  BY InitTypeInv
<1>2. FreshTargets /\ Undecided
  BY DEF Init, FreshTargets, Undecided
<1>3. HoldDecisionStands /\ PublicOnlyByModerator
  BY DEF Init, HoldDecisionStands, PublicOnlyByModerator
<1> QED
  BY <1>1, <1>2, <1>3 DEF DecisionInv

\* A step that leaves statuses and decisions alone can only disturb the targets.
LEMMA DecisionsUntouched ==
  ASSUME DecisionInv, TypeInv', FreshTargets', UNCHANGED <<status, modlog>>
  PROVE  DecisionInv'
BY DEF DecisionInv, Undecided, HoldDecisionStands, PublicOnlyByModerator

\* Requests that do not insert keep the targets fresh if they choose their own
\* with care.
LEMMA TargetsUntouched ==
  ASSUME FreshTargets, TypeInv, UNCHANGED <<phase, target>>,
         \A r \in Reports : status[r] = "none" => status'[r] = "none"
  PROVE  FreshTargets'
BY DEF FreshTargets, TypeInv, RequestsTypeOK, RequestsBusy

\* Edits and insertions.
LEMMA SubmissionKeepsDecisions == DecisionInv /\ TypeInv' /\ Submission => DecisionInv'
<1> SUFFICES ASSUME DecisionInv, TypeInv', Submission PROVE DecisionInv'
  OBVIOUS
<1>0. TypeInv /\ RowsTypeOK /\ RequestsTypeOK /\ RequestsBusy /\ FreshTargets
  BY DEF DecisionInv, TypeInv
<1>1. CASE \E s \in Sessions, r \in Reports : GateEdit(s, r)
  <2>1. PICK s \in Sessions, r \in Reports : GateEdit(s, r)
    BY <1>1
  <2>2. FreshTargets'
    BY <1>0, <2>1 DEF GateEdit, Exists, FreshTargets, RequestsTypeOK, rows
  <2> QED
    BY <2>1, <2>2, DecisionsUntouched DEF GateEdit, rows
<1>2. CASE \E s \in Sessions : ReadCellBefore(s)
  <2>1. PICK s \in Sessions : ReadCellBefore(s)
    BY <1>2
  <2>2. FreshTargets'
    BY <1>0, <2>1 DEF ReadCellBefore, FreshTargets, RequestsTypeOK, rows
  <2> QED
    BY <2>1, <2>2, DecisionsUntouched DEF ReadCellBefore, rows
<1>3. CASE \E s \in Sessions, c \in Cells, b \in Written : UpdateReport(s, c, b)
  <2>1. PICK s \in Sessions, c \in Cells, b \in Written : UpdateReport(s, c, b)
    BY <1>3
  <2>2. FreshTargets'
    BY <1>0, <2>1, NoReportAssumption
       DEF UpdateReport, Return, FreshTargets, RequestsTypeOK, RequestsBusy
  <2> QED
    BY <2>1, <2>2, DecisionsUntouched DEF UpdateReport
<1>4. CASE \E s \in Sessions, r \in Reports, c \in Cells : CapCheck(s, r, c)
  <2>1. PICK s \in Sessions, r \in Reports, c \in Cells : CapCheck(s, r, c)
    BY <1>4
  <2>2. FreshTargets'
    BY <1>0, <2>1 DEF CapCheck, Exists, InFlight, FreshTargets, RequestsTypeOK, rows
  <2> QED
    BY <2>1, <2>2, DecisionsUntouched DEF CapCheck, rows
<1>5. CASE \E s \in Sessions, st \in Status, b \in Written : CreateReport(s, st, b)
  <2>1. PICK s \in Sessions, st \in Status, b \in Written : CreateReport(s, st, b)
    BY <1>5
  <2>2. /\ target[s] \in Reports
        /\ status[target[s]] = "none"
        /\ \A t \in Sessions \ {s} : target[t] # target[s]
    BY <1>0, <2>1 DEF CreateReport, FreshTargets, RequestsBusy
  <2>3. FreshTargets'
    <3> SUFFICES ASSUME NEW t \in Sessions, phase'[t] = "capped"
                 PROVE  /\ status'[target'[t]] = "none"
                        /\ \A u \in Sessions \ {t} : target'[u] # target'[t]
      BY DEF FreshTargets
    <3>1. t # s /\ phase[t] = "capped" /\ target'[t] = target[t]
      BY <1>0, <2>1 DEF CreateReport, Return, RequestsTypeOK
    <3>2. target[t] \in Reports /\ target[t] # target[s]
      BY <1>0, <2>2, <3>1 DEF RequestsBusy
    <3>3. status'[target'[t]] = "none"
      BY <1>0, <2>1, <3>1, <3>2 DEF CreateReport, FreshTargets, RowsTypeOK
    <3>4. ASSUME NEW u \in Sessions \ {t} PROVE target'[u] # target'[t]
      BY <1>0, <2>1, <3>1, <3>2, NoReportAssumption
         DEF CreateReport, Return, FreshTargets, RequestsTypeOK
    <3> QED
      BY <3>3, <3>4
  <2>4. modlog' = modlog /\ modlog[target[s]] = {}
    BY <2>1, <2>2 DEF CreateReport, DecisionInv, Undecided
  <2>5. \A r \in Reports : status'[r] = IF r = target[s] THEN st ELSE status[r]
    BY <1>0, <2>1 DEF CreateReport, RowsTypeOK
  <2>6. Undecided' /\ HoldDecisionStands'
    BY <2>1, <2>4, <2>5, InitialAssumption
       DEF DecisionInv, CreateReport, Undecided, HoldDecisionStands
  <2>7. PublicOnlyByModerator'
    BY <2>1, <2>4, <2>5, InitialAssumption
       DEF DecisionInv, CreateReport, PublicOnlyByModerator
  <2> QED
    BY <2>3, <2>6, <2>7 DEF DecisionInv
<1>6. CASE \E s \in Sessions : AbandonRequest(s)
  <2>1. PICK s \in Sessions : AbandonRequest(s)
    BY <1>6
  <2>2. FreshTargets'
    BY <1>0, <2>1, NoReportAssumption
       DEF AbandonRequest, Return, FreshTargets, RequestsTypeOK, RequestsBusy, rows
  <2> QED
    BY <2>1, <2>2, DecisionsUntouched DEF AbandonRequest, rows
<1> QED
  BY <1>1, <1>2, <1>3, <1>4, <1>5, <1>6 DEF Submission

\* Deletions, by the owner, with the account or by a moderator.
LEMMA MarkDeletedKeepsDecisions ==
  ASSUME DecisionInv, TypeInv', NEW D \in SUBSET Reports, MarkDeleted(D),
         \A r \in D : status[r] \notin {"none", "deleted"},
         \A r \in Reports : modlog'[r] \in {modlog[r], modlog[r] \cup {"hide"}},
         \A r \in Reports \ D : modlog'[r] = modlog[r]
  PROVE  DecisionInv'
<1>0. \A r \in Reports : status'[r] = IF r \in D THEN "deleted" ELSE status[r]
  BY DEF MarkDeleted
<1>1. FreshTargets'
  BY <1>0, TargetsUntouched DEF DecisionInv, MarkDeleted, requests
<1>2. \A r \in Reports \ D : status'[r] = status[r] /\ modlog'[r] = modlog[r]
  BY <1>0
<1>3. \A r \in D :
        /\ status'[r] = "deleted"
        /\ "approve" \in modlog'[r] => "approve" \in modlog[r]
        /\ "reject" \in modlog'[r] => "reject" \in modlog[r]
  BY <1>0
<1>4. Undecided' /\ PublicOnlyByModerator'
  BY <1>2, <1>3 DEF DecisionInv, Undecided, PublicOnlyByModerator
<1>5. HoldDecisionStands'
  BY <1>2, <1>3 DEF DecisionInv, HoldDecisionStands
<1> QED
  BY <1>1, <1>4, <1>5 DEF DecisionInv

\* The owner's delete and the account deletion take nothing that is not there,
\* so a fresh target stays fresh.
LEMMA RemovalKeepsDecisions == DecisionInv /\ TypeInv' /\ Removal => DecisionInv'
<1> SUFFICES ASSUME DecisionInv, TypeInv', Removal PROVE DecisionInv'
  OBVIOUS
<1>1. CASE \E r \in Reports : SoftDeleteReport(r)
  BY <1>1, MarkDeletedKeepsDecisions DEF SoftDeleteReport
<1>2. CASE \E u \in Users : DeleteUserAccount(u)
  <2>1. PICK u \in Users : DeleteUserAccount(u)
    BY <1>2
  <2> DEFINE D == {r \in Reports : AuthorOf[r] = u
                                    /\ status[r] \notin {"none", "deleted"}}
  <2>2. MarkDeleted(D) /\ modlog' = modlog
    BY <2>1 DEF DeleteUserAccount
  <2>3. D \in SUBSET Reports /\ \A r \in D : status[r] \notin {"none", "deleted"}
    OBVIOUS
  <2> HIDE DEF D
  <2> QED
    BY <2>2, <2>3, MarkDeletedKeepsDecisions
<1> QED
  BY <1>1, <1>2 DEF Removal

\* Moderator commands.
LEMMA ModerationKeepsDecisions == DecisionInv /\ TypeInv' /\ Moderation => DecisionInv'
<1> SUFFICES ASSUME DecisionInv, TypeInv', Moderation PROVE DecisionInv'
  OBVIOUS
<1>0. TypeInv /\ RowsTypeOK /\ FreshTargets
  BY DEF DecisionInv, TypeInv
<1>1. CASE \E r \in Reports : ApproveHeldReport(r)
  <2>1. PICK r \in Reports : ApproveHeldReport(r)
    BY <1>1
  <2>2. FreshTargets'
    BY <1>0, <2>1, TargetsUntouched DEF ApproveHeldReport, RowsTypeOK, requests
  <2>3. Undecided' /\ HoldDecisionStands' /\ PublicOnlyByModerator'
    BY <1>0, <2>1 DEF DecisionInv, ApproveHeldReport, Logged, RowsTypeOK, Undecided,
       HoldDecisionStands, PublicOnlyByModerator
  <2> QED
    BY <2>2, <2>3 DEF DecisionInv
<1>2. CASE \E r \in Reports : RejectHeldReport(r)
  <2>1. PICK r \in Reports : RejectHeldReport(r)
    BY <1>2
  <2>2. FreshTargets'
    BY <1>0, <2>1, TargetsUntouched DEF RejectHeldReport, RowsTypeOK, requests
  <2>3. Undecided' /\ HoldDecisionStands' /\ PublicOnlyByModerator'
    BY <1>0, <2>1 DEF DecisionInv, RejectHeldReport, Logged, RowsTypeOK, Undecided,
       HoldDecisionStands, PublicOnlyByModerator
  <2> QED
    BY <2>2, <2>3 DEF DecisionInv
<1>3. CASE \E r \in Reports : HideFlaggedReport(r)
  <2>1. PICK r \in Reports : HideFlaggedReport(r)
    BY <1>3
  <2>2. \A x \in Reports :
          modlog'[x] = IF x = r THEN modlog[x] \cup {"hide"} ELSE modlog[x]
    BY <1>0, <2>1 DEF HideFlaggedReport, Logged, RowsTypeOK
  <2> QED
    BY <2>1, <2>2, MarkDeletedKeepsDecisions DEF HideFlaggedReport
<1>4. CASE \E r \in Reports : RestoreSoftDeleted(r)
  <2>1. PICK r \in Reports : RestoreSoftDeleted(r)
    BY <1>4
  <2>2. FreshTargets'
    BY <1>0, <2>1, TargetsUntouched DEF RestoreSoftDeleted, RowsTypeOK, requests
  <2>3. Undecided' /\ HoldDecisionStands' /\ PublicOnlyByModerator'
    BY <1>0, <2>1 DEF DecisionInv, RestoreSoftDeleted, Logged, RowsTypeOK, Undecided,
       HoldDecisionStands, PublicOnlyByModerator
  <2> QED
    BY <2>2, <2>3 DEF DecisionInv
<1> QED
  BY <1>1, <1>2, <1>3, <1>4 DEF Moderation

\* The purge, time, and steps that change nothing.
LEMMA RetentionKeepsDecisions == DecisionInv /\ TypeInv' /\ Retention => DecisionInv'
<1> SUFFICES ASSUME DecisionInv, TypeInv', Retention PROVE DecisionInv'
  OBVIOUS
<1>1. UNCHANGED <<status, modlog, phase, target>>
  BY DEF Retention, SelectDue, ScrubDue, AbandonPurge, EditWindowCloses,
     RetentionElapses, rows, requests
<1> QED
  BY <1>1, TargetsUntouched, DecisionsUntouched DEF DecisionInv

\* A step that changes nothing.
LEMMA StutterKeepsDecisions ==
  DecisionInv /\ TypeInv' /\ UNCHANGED vars => DecisionInv'
BY TargetsUntouched, DecisionsUntouched DEF DecisionInv, vars

\* Every step of the store keeps the decisions of its moderators.
LEMMA NextKeepsDecisions == DecisionInv /\ [Next]_vars => DecisionInv'
<1> SUFFICES ASSUME DecisionInv, [Next]_vars PROVE DecisionInv'
  OBVIOUS
<1>1. TypeInv'
  BY NextKeepsTypeInv DEF DecisionInv
<1> QED
  BY <1>1, SubmissionKeepsDecisions, RemovalKeepsDecisions, ModerationKeepsDecisions,
     RetentionKeepsDecisions, StutterKeepsDecisions DEF Next

\* Every reachable store respects its moderators' decisions, inserts only into
\* fresh rows and has no decision on record about an undecided report.
THEOREM StoreDecisionInv == Spec => []DecisionInv
BY InitDecisionInv, NextKeepsDecisions, PTL DEF Spec

\* A hold is decided once, whoever races on the row: with any number of
\* reports, moderators and requests.
THEOREM StoreHoldDecisionStands == Spec => []HoldDecisionStands
<1>1. DecisionInv => HoldDecisionStands
  BY DEF DecisionInv
<1> QED
  BY <1>1, StoreDecisionInv, PTL

\* With every submission starting on hold, only a moderator makes a report
\* public.
THEOREM StorePublicOnlyByModerator == Spec => []PublicOnlyByModerator
<1>1. DecisionInv => PublicOnlyByModerator
  BY DEF DecisionInv
<1> QED
  BY <1>1, StoreDecisionInv, PTL

-----------------------------------------------------------------------------
(* The retention clock.                                                    *)

\* Only reports that are not yet deleted are deleted.
LEMMA MarkDeletedKeepsClock ==
  ASSUME NEW D, MarkDeleted(D), \A r \in D : status[r] # "deleted"
  PROVE  ClockKept
BY DEF MarkDeleted, ClockKept

\* No step restarts the clock of a report that stays deleted.
LEMMA NextKeepsClock == TypeInv /\ [Next]_vars => [ClockKept]_vars
<1> SUFFICES ASSUME TypeInv, Next PROVE ClockKept
  OBVIOUS
<1>0. RowsTypeOK
  BY DEF TypeInv
<1>1. CASE Submission
  <2>1. UNCHANGED expired
    BY <1>1 DEF Submission, GateEdit, ReadCellBefore, UpdateReport, CapCheck,
       CreateReport, AbandonRequest, rows
  <2> QED
    BY <2>1 DEF ClockKept
<1>2. CASE Removal
  BY <1>2, MarkDeletedKeepsClock DEF Removal, SoftDeleteReport, DeleteUserAccount
<1>3. CASE Moderation
  <2>1. CASE \E r \in Reports : ApproveHeldReport(r)
    BY <2>1 DEF ApproveHeldReport, ClockKept
  <2>2. CASE \E r \in Reports : RejectHeldReport(r)
    BY <2>2 DEF RejectHeldReport, ClockKept
  <2>3. CASE \E r \in Reports : HideFlaggedReport(r)
    BY <2>3, MarkDeletedKeepsClock DEF HideFlaggedReport
  <2>4. CASE \E r \in Reports : RestoreSoftDeleted(r)
    BY <1>0, <2>4 DEF RestoreSoftDeleted, RowsTypeOK, ClockKept
  <2> QED
    BY <1>3, <2>1, <2>2, <2>3, <2>4 DEF Moderation
<1>4. CASE Retention
  BY <1>0, <1>4 DEF Retention, SelectDue, ScrubDue, AbandonPurge, EditWindowCloses,
     RetentionElapses, RowsTypeOK, ClockKept, rows
<1> QED
  BY <1>1, <1>2, <1>3, <1>4 DEF Next

\* The purge of a deleted report cannot be put off by deleting it again, by any
\* of the three ways to delete, however many reports go with an account.
THEOREM StorePurgeClockNeverSlides == Spec => PurgeClockNeverSlides
BY StoreTypeInv, NextKeepsClock, PTL DEF Spec, PurgeClockNeverSlides

-----------------------------------------------------------------------------
(***************************************************************************)
(* ReportStore implements ReportFeed, for any reports, users, cells,       *)
(* bodies and requests, provided the edits of one report do not overlap.   *)
(***************************************************************************)

(* The events of a report, seen as a sequence.                             *)

HasEnd(s) == \E n \in 1 .. Len(s) : s[n].op = "deleted"

\* A history ends if either of its parts does.
LEMMA HasEndConcat ==
  ASSUME NEW s \in Seq(Event), NEW t \in Seq(Event)
  PROVE  HasEnd(s \o t) <=> HasEnd(s) \/ HasEnd(t)
<1>1. /\ Len(s) \in Nat /\ Len(t) \in Nat
      /\ Len(s \o t) = Len(s) + Len(t)
  OBVIOUS
<1>2. \A n \in 1 .. Len(s) : (s \o t)[n] = s[n]
  OBVIOUS
<1>3. \A n \in 1 .. Len(t) : (s \o t)[Len(s) + n] = t[n]
  OBVIOUS
<1>4. HasEnd(s) => HasEnd(s \o t)
  <2> SUFFICES ASSUME NEW n \in 1 .. Len(s), s[n].op = "deleted"
               PROVE  HasEnd(s \o t)
    BY DEF HasEnd
  <2>1. n \in 1 .. Len(s \o t) /\ (s \o t)[n].op = "deleted"
    BY <1>1, <1>2
  <2> QED
    BY <2>1 DEF HasEnd
<1>5. HasEnd(t) => HasEnd(s \o t)
  <2> SUFFICES ASSUME NEW n \in 1 .. Len(t), t[n].op = "deleted"
               PROVE  HasEnd(s \o t)
    BY DEF HasEnd
  <2>1. Len(s) + n \in 1 .. Len(s \o t) /\ (s \o t)[Len(s) + n].op = "deleted"
    BY <1>1, <1>3
  <2> QED
    BY <2>1 DEF HasEnd
<1>6. HasEnd(s \o t) => HasEnd(s) \/ HasEnd(t)
  <2> SUFFICES ASSUME NEW n \in 1 .. Len(s \o t), (s \o t)[n].op = "deleted"
               PROVE  HasEnd(s) \/ HasEnd(t)
    BY DEF HasEnd
  <2>1. CASE n <= Len(s)
    <3>1. n \in 1 .. Len(s) /\ s[n].op = "deleted"
      BY <1>1, <1>2, <2>1
    <3> QED
      BY <3>1 DEF HasEnd
  <2>2. CASE n > Len(s)
    <3>1. n - Len(s) \in 1 .. Len(t) /\ Len(s) + (n - Len(s)) = n
      BY <1>1, <2>2
    <3>2. t[n - Len(s)].op = "deleted"
      BY <1>3, <3>1
    <3> QED
      BY <3>1, <3>2 DEF HasEnd
  <2> QED
    BY <1>1, <2>1, <2>2
<1> QED
  BY <1>4, <1>5, <1>6

\* A report nothing happened to has not ended.
LEMMA HasEndNone == ~ HasEnd(<< >>)
BY DEF HasEnd

\* One event ends a history if it is the deletion.
LEMMA HasEndOne ==
  ASSUME NEW op \in Ops, NEW c \in Cells
  PROVE  HasEnd(<<Entry(op, c)>>) <=> op = "deleted"
BY DEF HasEnd, Entry

\* The events of an edit, one or two, do not end a history.
LEMMA HasEndEdit ==
  ASSUME NEW before \in Cells, NEW c \in Cells
  PROVE  ~ HasEnd(UpdateEntries(before, c)) /\ UpdateEntries(before, c) # << >>
<1>1. CASE before = c
  BY <1>1, HasEndOne DEF UpdateEntries, Ops
<1>2. CASE before # c
  BY <1>2 DEF UpdateEntries, HasEnd, Entry
<1> QED
  BY <1>1, <1>2

\* The feed's notion of a report that was deleted once.
LEMMA EndedIsHasEnd == \A r : Feed!Ended(r) <=> HasEnd(log[r])
BY DEF Feed!Ended, HasEnd

\* What a batch does to the history of a report.
LEMMA EmitHistory ==
  ASSUME OutboxTypeOK, NEW es \in [Reports -> Seq(Event)], EmitReportEvent(es),
         NEW r \in Reports
  PROVE  /\ HasEnd(log'[r]) <=> HasEnd(log[r]) \/ HasEnd(es[r])
         /\ log'[r] = << >> <=> log[r] = << >> /\ es[r] = << >>
         /\ es[r] = << >> => log'[r] = log[r]
<1>1. log[r] \in Seq(Event) /\ es[r] \in Seq(Event) /\ log'[r] = log[r] \o es[r]
  BY DEF OutboxTypeOK, EmitReportEvent
<1>2. HasEnd(log'[r]) <=> HasEnd(log[r]) \/ HasEnd(es[r])
  BY <1>1, HasEndConcat
<1>3. log'[r] = << >> <=> log[r] = << >> /\ es[r] = << >>
  BY <1>1, ConcatEqualIffEmpty
<1>4. es[r] = << >> => log'[r] = log[r]
  BY <1>1, ConcatEmptySeq
<1> QED
  BY <1>2, <1>3, <1>4

-----------------------------------------------------------------------------
(* What the refinement needs to know of a reachable store: how the history of *)
(* a report and its row agree, and that a request's view of the report it     *)
(* edits is still right.                                                      *)

HistoryInv ==
  \A r \in Reports :
    /\ log[r] = << >> <=> status[r] = "none"
    /\ status[r] = "deleted" => HasEnd(log[r])
    /\ HasEnd(log[r]) => status[r] = "deleted" \/ r \in Restored
    /\ r \in doomed \/ purged[r] => status[r] = "deleted" \/ r \in Restored
    /\ status[r] # "none" /\ ~ purged[r] => body[r] \in Written

EditInv ==
  /\ \A s \in Sessions :
       /\ phase[s] \in {"gated", "read"} => status[target[s]] # "none"
       /\ phase[s] = "read" => chosen[s] = cell[target[s]]
  /\ \A s, t \in Sessions :
       s # t /\ phase[s] # "idle" /\ phase[t] # "idle" => target[s] # target[t]
  /\ \A s \in Sessions : phase[s] = "idle" => target[s] = NoReport

RefinementInv == DecisionInv /\ HistoryInv /\ EditInv

\* With no reports and no requests there is nothing to disagree about.
LEMMA InitRefinementInv == Init => RefinementInv
<1> SUFFICES ASSUME Init PROVE RefinementInv
  OBVIOUS
<1>1. DecisionInv
  BY InitDecisionInv
<1>2. EditInv
  BY DEF Init, EditInv
<1>3. \A r \in Reports :
        log[r] = << >> /\ status[r] = "none" /\ r \notin doomed /\ ~ purged[r]
  BY DEF Init, OutboxInit
<1>4. HistoryInv
  BY <1>3, HasEndNone DEF HistoryInv
<1> QED
  BY <1>1, <1>2, <1>4 DEF RefinementInv

\* Requests stay as they are, while rows keep existing where they did and keep
\* their cells.
LEMMA EditsUntouched ==
  ASSUME TypeInv, EditInv, UNCHANGED <<requests, cell>>,
         \A r \in Reports : status[r] # "none" => status'[r] # "none"
  PROVE  EditInv'
BY DEF EditInv, requests, TypeInv, RequestsBusy

\* A request that is told its report is its own for as long as it is in flight
\* knows the cell the report is in.
LEMMA SubmissionKeepsEdits ==
  ~ OverlappingEdits /\ RefinementInv /\ Submission => EditInv'
<1> SUFFICES ASSUME ~ OverlappingEdits, RefinementInv, Submission PROVE EditInv'
  OBVIOUS
<1>0. RowsTypeOK /\ RequestsTypeOK /\ RequestsBusy /\ EditInv /\ FreshTargets
  BY DEF RefinementInv, DecisionInv, TypeInv
<1>1. CASE \E s \in Sessions, r \in Reports : GateEdit(s, r)
  BY <1>0, <1>1, NoReportAssumption DEF GateEdit, Exists, InFlight, EditInv, RequestsTypeOK, rows
<1>2. CASE \E s \in Sessions : ReadCellBefore(s)
  BY <1>0, <1>2 DEF ReadCellBefore, EditInv, RequestsTypeOK, rows
<1>3. CASE \E s \in Sessions, c \in Cells, b \in Written : UpdateReport(s, c, b)
  <2>1. PICK s \in Sessions, c \in Cells, b \in Written : UpdateReport(s, c, b)
    BY <1>3
  <2>2. \A t \in Sessions : t # s /\ phase[t] # "idle" =>
          /\ phase'[t] = phase[t] /\ target'[t] = target[t] /\ chosen'[t] = chosen[t]
          /\ target[t] # target[s]
          /\ cell'[target[t]] = cell[target[t]]
    BY <1>0, <2>1 DEF UpdateReport, Return, EditInv, RequestsTypeOK, RequestsBusy, RowsTypeOK
  <2>3. phase'[s] = "idle" /\ target'[s] = NoReport
    BY <1>0, <2>1 DEF UpdateReport, Return, RequestsTypeOK
  <2> QED
    BY <1>0, <2>1, <2>2, <2>3 DEF UpdateReport, Return, EditInv, RequestsTypeOK
<1>4. CASE \E s \in Sessions, r \in Reports, c \in Cells : CapCheck(s, r, c)
  BY <1>0, <1>4 DEF CapCheck, InFlight, EditInv, RequestsTypeOK, rows
<1>5. CASE \E s \in Sessions, st \in Status, b \in Written : CreateReport(s, st, b)
  <2>1. PICK s \in Sessions, st \in Status, b \in Written : CreateReport(s, st, b)
    BY <1>5
  <2>2. \A t \in Sessions : t # s /\ phase[t] # "idle" =>
          /\ phase'[t] = phase[t] /\ target'[t] = target[t] /\ chosen'[t] = chosen[t]
          /\ target[t] # target[s]
          /\ cell'[target[t]] = cell[target[t]]
          /\ status'[target[t]] = status[target[t]]
    BY <1>0, <2>1 DEF CreateReport, Return, EditInv, RequestsTypeOK, RequestsBusy, RowsTypeOK
  <2>3. phase'[s] = "idle" /\ target'[s] = NoReport
    BY <1>0, <2>1 DEF CreateReport, Return, RequestsTypeOK
  <2> QED
    BY <1>0, <2>1, <2>2, <2>3 DEF CreateReport, Return, EditInv, RequestsTypeOK
<1>6. CASE \E s \in Sessions : AbandonRequest(s)
  BY <1>0, <1>6 DEF AbandonRequest, Return, EditInv, RequestsTypeOK, rows
<1> QED
  BY <1>1, <1>2, <1>3, <1>4, <1>5, <1>6 DEF Submission

\* No other transaction moves a report, or makes one cease to exist.
LEMMA NextKeepsEdits ==
  ~ OverlappingEdits /\ RefinementInv /\ [Next]_vars => EditInv'
<1> SUFFICES ASSUME ~ OverlappingEdits, RefinementInv, [Next]_vars PROVE EditInv'
  OBVIOUS
<1>0. TypeInv /\ EditInv /\ RowsTypeOK
  BY DEF RefinementInv, DecisionInv, TypeInv
<1>1. CASE Submission
  BY <1>1, SubmissionKeepsEdits
<1>2. CASE Removal
  BY <1>0, <1>2, EditsUntouched DEF Removal, SoftDeleteReport, DeleteUserAccount, MarkDeleted
<1>3. CASE Moderation
  BY <1>0, <1>3, EditsUntouched
     DEF Moderation, ApproveHeldReport, RejectHeldReport, HideFlaggedReport,
         RestoreSoftDeleted, MarkDeleted, RowsTypeOK
<1>4. CASE Retention
  BY <1>0, <1>4, EditsUntouched DEF Retention, SelectDue, ScrubDue, AbandonPurge,
     EditWindowCloses, RetentionElapses, rows
<1>5. CASE UNCHANGED vars
  BY <1>0, <1>5, EditsUntouched DEF vars, requests
<1> QED
  BY <1>1, <1>2, <1>3, <1>4, <1>5 DEF Next

-----------------------------------------------------------------------------
(* The history of a report and its row.                                    *)

\* A batch about one report adds its entries to the history of that report.
LEMMA EmitOn ==
  ASSUME OutboxTypeOK, NEW t \in Reports, NEW entries \in Seq(Event),
         EmitReportEvent(On(t, entries))
  PROVE  /\ \A r \in Reports \ {t} : log'[r] = log[r]
         /\ HasEnd(log'[t]) <=> HasEnd(log[t]) \/ HasEnd(entries)
         /\ log'[t] = << >> <=> log[t] = << >> /\ entries = << >>
<1>1. On(t, entries) \in [Reports -> Seq(Event)]
  BY OnType
<1>2. On(t, entries)[t] = entries /\ \A r \in Reports \ {t} : On(t, entries)[r] = << >>
  BY DEF On
<1> QED
  BY <1>1, <1>2, EmitHistory

\* Deleting reports ends their histories, and no other.
LEMMA MarkDeletedHistory ==
  ASSUME TypeInv, NEW D \in SUBSET Reports, MarkDeleted(D)
  PROVE  /\ \A r \in Reports \ D : log'[r] = log[r]
         /\ \A r \in D : HasEnd(log'[r]) /\ log'[r] # << >>
<1> DEFINE es == [r \in Reports |->
                    IF r \in D THEN <<Entry("deleted", cell[r])>> ELSE << >>]
<1>1. \A r \in D : /\ <<Entry("deleted", cell[r])>> \in Seq(Event)
                   /\ HasEnd(<<Entry("deleted", cell[r])>>)
  <2> SUFFICES ASSUME NEW r \in D
               PROVE  /\ <<Entry("deleted", cell[r])>> \in Seq(Event)
                      /\ HasEnd(<<Entry("deleted", cell[r])>>)
    OBVIOUS
  <2>1. cell[r] \in Cells /\ "deleted" \in Ops
    BY DEF TypeInv, RowsTypeOK, Ops
  <2> QED
    BY <2>1, EntryType, HasEndOne
<1>2. es \in [Reports -> Seq(Event)]
  <2> SUFFICES ASSUME NEW r \in Reports
               PROVE  (IF r \in D THEN <<Entry("deleted", cell[r])>> ELSE << >>)
                        \in Seq(Event)
    OBVIOUS
  <2>1. CASE r \in D
    BY <1>1, <2>1
  <2>2. CASE r \notin D
    BY <2>2
  <2> QED
    BY <2>1, <2>2
<1>3. \A r \in Reports : es[r] = IF r \in D THEN <<Entry("deleted", cell[r])>> ELSE << >>
  OBVIOUS
<1>4. EmitReportEvent(es)
  BY DEF MarkDeleted
<1> HIDE DEF es
<1>5. \A r \in D : HasEnd(es[r]) /\ es[r] # << >>
  <2> SUFFICES ASSUME NEW r \in D PROVE HasEnd(es[r]) /\ es[r] # << >>
    OBVIOUS
  <2>1. es[r] = <<Entry("deleted", cell[r])>>
    BY <1>3
  <2> QED
    BY <1>1, <2>1
<1>6. \A r \in Reports \ D : es[r] = << >>
  BY <1>3
<1> QED
  BY <1>2, <1>4, <1>5, <1>6, EmitHistory DEF TypeInv

\* Deleting reports keeps histories and rows in agreement.
LEMMA MarkDeletedKeepsHistory ==
  ASSUME RefinementInv, NEW D \in SUBSET Reports, MarkDeleted(D),
         \A r \in D : status[r] # "none",
         \A r \in Reports : "restore" \in modlog[r] => "restore" \in modlog'[r]
  PROVE  HistoryInv'
<1>1. TypeInv /\ HistoryInv
  BY DEF RefinementInv, DecisionInv
<1>2. \A r \in Reports : r \in Restored => r \in Restored'
  BY DEF Restored
<1>3. \A r \in Reports \ D : log'[r] = log[r] /\ status'[r] = status[r]
  BY <1>1, MarkDeletedHistory DEF MarkDeleted
<1>4. \A r \in D : HasEnd(log'[r]) /\ log'[r] # << >> /\ status'[r] = "deleted"
  BY <1>1, MarkDeletedHistory DEF MarkDeleted
<1>5. UNCHANGED <<body, purged, doomed>>
  BY DEF MarkDeleted
<1> QED
  BY <1>1, <1>2, <1>3, <1>4, <1>5 DEF HistoryInv

\* Edits and insertions keep histories and rows in agreement.
LEMMA SubmissionKeepsHistory == RefinementInv /\ Submission => HistoryInv'
<1> SUFFICES ASSUME RefinementInv, Submission PROVE HistoryInv'
  OBVIOUS
<1>0. /\ OutboxTypeOK /\ RowsTypeOK /\ RequestsTypeOK /\ RequestsBusy
      /\ HistoryInv /\ EditInv /\ FreshTargets /\ Undecided
  BY DEF RefinementInv, DecisionInv, TypeInv
<1>1. CASE UNCHANGED <<rows, modlog, doomed, log>>
  BY <1>0, <1>1 DEF HistoryInv, rows, Restored
<1>2. CASE \E s \in Sessions, c \in Cells, b \in Written : UpdateReport(s, c, b)
  <2>1. PICK s \in Sessions, c \in Cells, b \in Written : UpdateReport(s, c, b)
    BY <1>2
  <2> DEFINE t == target[s]
             entries == UpdateEntries(chosen[s], c)
  <2>2. t \in Reports /\ chosen[s] \in Cells /\ status[t] # "none"
    BY <1>0, <2>1 DEF UpdateReport, RequestsBusy, EditInv
  <2>3. entries \in Seq(Event) /\ ~ HasEnd(entries) /\ entries # << >>
    BY <2>2, UpdateEntriesType, HasEndEdit
  <2>4. EmitReportEvent(On(t, entries))
    BY <2>1 DEF UpdateReport
  <2>5. UNCHANGED <<status, purged, doomed, modlog>>
    BY <2>1 DEF UpdateReport
  <2>6. \A r \in Reports : body'[r] = IF r = t THEN b ELSE body[r]
    BY <1>0, <2>1 DEF UpdateReport, RowsTypeOK
  <2> HIDE DEF t, entries
  <2>7. /\ \A r \in Reports \ {t} : log'[r] = log[r]
        /\ HasEnd(log'[t]) <=> HasEnd(log[t])
        /\ log'[t] # << >>
    BY <1>0, <2>2, <2>3, <2>4, EmitOn
  <2> QED
    BY <1>0, <2>2, <2>5, <2>6, <2>7 DEF HistoryInv, Restored
<1>3. CASE \E s \in Sessions, st \in Status, b \in Written : CreateReport(s, st, b)
  <2>1. PICK s \in Sessions, st \in Status, b \in Written : CreateReport(s, st, b)
    BY <1>3
  <2> DEFINE t == target[s]
             entries == <<Entry("created", chosen[s])>>
  <2>2. t \in Reports /\ chosen[s] \in Cells /\ status[t] = "none"
    BY <1>0, <2>1 DEF CreateReport, RequestsBusy, FreshTargets
  <2>3. entries \in Seq(Event) /\ ~ HasEnd(entries) /\ entries # << >>
    BY <2>2, EntryType, HasEndOne DEF Ops
  <2>4. EmitReportEvent(On(t, entries))
    BY <2>1 DEF CreateReport
  <2>5. UNCHANGED <<purged, doomed, modlog>>
    BY <2>1 DEF CreateReport
  <2>6. /\ \A r \in Reports : body'[r] = IF r = t THEN b ELSE body[r]
        /\ \A r \in Reports : status'[r] = IF r = t THEN st ELSE status[r]
        /\ st # "none"
    BY <1>0, <2>1, InitialAssumption DEF CreateReport, RowsTypeOK
  <2> HIDE DEF t, entries
  <2>7. /\ \A r \in Reports \ {t} : log'[r] = log[r]
        /\ HasEnd(log'[t]) <=> HasEnd(log[t])
        /\ log'[t] # << >>
    BY <1>0, <2>2, <2>3, <2>4, EmitOn
  <2>8. log[t] = << >> /\ ~ HasEnd(log[t]) /\ t \notin doomed /\ ~ purged[t]
    BY <1>0, <2>2, HasEndNone DEF HistoryInv, Undecided, Restored
  <2>9. Restored' = Restored
    BY <2>5 DEF Restored
  <2>10. \A r \in Reports \ {t} :
           status'[r] = status[r] /\ body'[r] = body[r] /\ log'[r] = log[r]
    BY <2>6, <2>7
  <2>11. status'[t] # "none" /\ ~ HasEnd(log'[t]) /\ body'[t] \in Written
    BY <2>2, <2>6, <2>7, <2>8
  <2>12. status'[t] # "deleted"
    BY <2>1, <2>2, <2>6, InitialAssumption DEF CreateReport
  <2> QED
    BY <1>0, <2>5, <2>7, <2>8, <2>9, <2>10, <2>11, <2>12 DEF HistoryInv
<1> QED
  BY <1>1, <1>2, <1>3 DEF Submission, GateEdit, ReadCellBefore, CapCheck, AbandonRequest

\* Moderator commands keep histories and rows in agreement.
LEMMA ModerationKeepsHistory == RefinementInv /\ Moderation => HistoryInv'
<1> SUFFICES ASSUME RefinementInv, Moderation PROVE HistoryInv'
  OBVIOUS
<1>0. /\ OutboxTypeOK /\ RowsTypeOK /\ HistoryInv
  BY DEF RefinementInv, DecisionInv, TypeInv
<1>1. CASE \E r \in Reports : ApproveHeldReport(r)
  <2>1. PICK t \in Reports : ApproveHeldReport(t)
    BY <1>1
  <2> DEFINE entries == <<Entry("updated", cell[t])>>
  <2>2. entries \in Seq(Event) /\ ~ HasEnd(entries) /\ entries # << >>
    BY <1>0, EntryType, HasEndOne DEF Ops, RowsTypeOK
  <2>3. EmitReportEvent(On(t, entries))
    BY <2>1 DEF ApproveHeldReport
  <2>4. /\ UNCHANGED <<body, purged, doomed>>
        /\ status[t] = "pending_moderation"
        /\ \A r \in Reports : status'[r] = IF r = t THEN "active" ELSE status[r]
        /\ Restored' = Restored
    BY <1>0, <2>1 DEF ApproveHeldReport, Logged, Restored, RowsTypeOK
  <2> HIDE DEF entries
  <2>5. /\ \A r \in Reports \ {t} : log'[r] = log[r]
        /\ HasEnd(log'[t]) <=> HasEnd(log[t])
        /\ log'[t] # << >>
    BY <1>0, <2>2, <2>3, EmitOn
  <2> QED
    BY <1>0, <2>4, <2>5 DEF HistoryInv
<1>2. CASE \E r \in Reports : RejectHeldReport(r)
  <2>1. PICK t \in Reports : RejectHeldReport(t)
    BY <1>2
  <2>2. /\ UNCHANGED <<body, purged, doomed, log>>
        /\ status[t] = "pending_moderation"
        /\ \A r \in Reports : status'[r] = IF r = t THEN "rejected" ELSE status[r]
        /\ Restored' = Restored
    BY <1>0, <2>1 DEF RejectHeldReport, Logged, Restored, RowsTypeOK
  <2> QED
    BY <1>0, <2>2 DEF HistoryInv
<1>3. CASE \E r \in Reports : HideFlaggedReport(r)
  <2>1. PICK t \in Reports : HideFlaggedReport(t)
    BY <1>3
  <2>2. \A r \in Reports : "restore" \in modlog[r] => "restore" \in modlog'[r]
    BY <1>0, <2>1 DEF HideFlaggedReport, Logged, RowsTypeOK
  <2>3. MarkDeleted({t}) /\ status[t] # "none"
    BY <2>1 DEF HideFlaggedReport
  <2> QED
    BY <2>2, <2>3, MarkDeletedKeepsHistory
<1>4. CASE \E r \in Reports : RestoreSoftDeleted(r)
  <2>1. PICK t \in Reports : RestoreSoftDeleted(t)
    BY <1>4
  <2>2. /\ UNCHANGED <<body, purged, doomed, log>>
        /\ status[t] = "deleted"
        /\ \A r \in Reports : status'[r] = IF r = t THEN "active" ELSE status[r]
        /\ Restored' = Restored \cup {t}
    BY <1>0, <2>1 DEF RestoreSoftDeleted, Logged, Restored, RowsTypeOK
  <2> QED
    BY <1>0, <2>2 DEF HistoryInv
<1> QED
  BY <1>1, <1>2, <1>3, <1>4 DEF Moderation

\* Every step keeps histories and rows in agreement.
LEMMA NextKeepsHistory == RefinementInv /\ [Next]_vars => HistoryInv'
<1> SUFFICES ASSUME RefinementInv, [Next]_vars PROVE HistoryInv'
  OBVIOUS
<1>0. RowsTypeOK /\ HistoryInv
  BY DEF RefinementInv, DecisionInv, TypeInv
<1>1. CASE Submission
  BY <1>1, SubmissionKeepsHistory
<1>2. CASE Removal
  <2>1. PICK D \in SUBSET Reports :
          MarkDeleted(D) /\ (\A r \in D : status[r] # "none") /\ modlog' = modlog
    BY <1>2 DEF Removal, SoftDeleteReport, DeleteUserAccount
  <2> QED
    BY <2>1, MarkDeletedKeepsHistory
<1>3. CASE Moderation
  BY <1>3, ModerationKeepsHistory
<1>4. CASE Retention
  <2>1. CASE SelectDue
    BY <1>0, <2>1 DEF SelectDue, HistoryInv, Restored, rows
  <2>2. CASE ScrubDue
    BY <1>0, <2>2 DEF ScrubDue, HistoryInv, Restored
  <2>3. CASE AbandonPurge
    BY <1>0, <2>3 DEF AbandonPurge, HistoryInv, Restored, rows
  <2>4. CASE \E r \in Reports : EditWindowCloses(r) \/ RetentionElapses(r)
    BY <1>0, <2>4 DEF EditWindowCloses, RetentionElapses, HistoryInv, Restored
  <2> QED
    BY <1>4, <2>1, <2>2, <2>3, <2>4 DEF Retention
<1>5. CASE UNCHANGED vars
  BY <1>0, <1>5 DEF vars, HistoryInv, Restored
<1> QED
  BY <1>1, <1>2, <1>3, <1>4, <1>5 DEF Next

\* What the refinement rests on is true of every reachable store whose edits do
\* not overlap.
THEOREM StoreRefinementInv ==
  ASSUME ~ OverlappingEdits
  PROVE  Spec => []RefinementInv
<1>1. RefinementInv /\ [Next]_vars => RefinementInv'
  BY NextKeepsDecisions, NextKeepsEdits, NextKeepsHistory DEF RefinementInv
<1> QED
  BY <1>1, InitRefinementInv, PTL DEF Spec

-----------------------------------------------------------------------------
(* The refinement.  The feed's own operators are the outbox's.             *)

\* Inserting a batch is the same in both modules.
LEMMA FeedEmit ==
  ASSUME NEW es, EmitReportEvent(es)
  PROVE  Feed!EmitReportEvent(es)
BY DEF EmitReportEvent, Feed!EmitReportEvent, EventIds, Feed!EventIds

\* So are a batch about one report and the entries of an edit.
LEMMA FeedOn ==
  /\ \A r, entries : Feed!On(r, entries) = On(r, entries)
  /\ \A op, c : Feed!Entry(op, c) = Entry(op, c)
  /\ \A old, new : Feed!EditEntries(old, new) = UpdateEntries(old, new)
BY DEF Feed!On, On, Feed!Entry, Entry, Feed!EditEntries, UpdateEntries

\* An empty batch inserts nothing.
LEMMA EmitNothing ==
  ASSUME OutboxTypeOK, EmitReportEvent([r \in Reports |-> << >>])
  PROVE  UNCHANGED <<log, pending>>
<1> DEFINE es == [r \in Reports |-> << >>]
<1>1. \A r \in Reports : log[r] \in Seq(Event) /\ log[r] \o << >> = log[r]
  BY ConcatEmptySeq DEF OutboxTypeOK
<1>2. log' = log
  BY <1>1 DEF OutboxTypeOK, EmitReportEvent
<1>3. \A e \in EventIds :
        ~ (e[2] > Len(log[e[1]]) /\ e[2] <= Len(log[e[1]]) + Len(es[e[1]]))
  <2> SUFFICES ASSUME NEW r \in Reports, NEW n \in 1 .. MaxLog
               PROVE  ~ (n > Len(log[r]) /\ n <= Len(log[r]) + Len(es[r]))
    BY DEF EventIds
  <2>1. Len(log[r]) \in Nat /\ Len(es[r]) = 0
    BY <1>1
  <2> QED
    BY <2>1
<1>4. pending' = [k \in Consumers |-> pending[k]]
  BY <1>3 DEF EmitReportEvent
<1> QED
  BY <1>2, <1>4 DEF OutboxTypeOK

\* What is visible of a report is a row, never the placeholder for hidden ones.
LEMMA VisibleIsNotHidden ==
  ASSUME TypeInv, NEW r \in Reports
  PROVE  /\ LiveContent[r] # Hidden <=> status[r] = "active"
         /\ status[r] = "active" =>
              LiveContent[r] = [cell |-> cell[r], body |-> body[r]]
BY HiddenRowAssumption DEF LiveContent, TypeInv, RowsTypeOK

\* A step the consumers cannot see.
LEMMA InvisibleStep ==
  ASSUME UNCHANGED <<status, cell, body, log, pending>>, Restored' = Restored
  PROVE  UNCHANGED Feed!feedVars
BY DEF Feed!feedVars, LiveContent

\* A store with no reports shows none.
LEMMA InitIsFeedInit == Init => Feed!FeedInit
<1> SUFFICES ASSUME Init PROVE Feed!FeedInit
  OBVIOUS
<1>1. Feed!OutboxInit
  BY DEF Init, OutboxInit, Feed!OutboxInit
<1>2. LiveContent = [r \in Reports |-> Hidden]
  BY DEF Init, LiveContent
<1>3. Restored = {}
  BY DEF Init, Restored
<1> QED
  BY <1>1, <1>2, <1>3 DEF Feed!FeedInit

\* An insertion shows the new report, or only murmurs if it is held.
LEMMA CreateIsFeedStep ==
  ASSUME RefinementInv, NEW s \in Sessions, NEW st \in Status, NEW b \in Written,
         CreateReport(s, st, b)
  PROVE  Feed!Produce
<1> DEFINE t == target[s]
           c == chosen[s]
<1>0. /\ TypeInv /\ RowsTypeOK /\ RequestsBusy /\ HistoryInv /\ FreshTargets
  BY DEF RefinementInv, DecisionInv, TypeInv
<1>1. t \in Reports /\ c \in Cells /\ status[t] = "none"
  BY <1>0 DEF CreateReport, RequestsBusy, FreshTargets
<1>2. Feed!EmitReportEvent(Feed!On(t, <<Feed!Entry("created", c)>>))
  BY FeedEmit, FeedOn DEF CreateReport
<1>3. Restored' = Restored
  BY DEF CreateReport, Restored
<1>4. st \in {"pending_moderation", "active"} /\ st \in InitialStatus
  BY InitialAssumption DEF CreateReport
<1>5. LiveContent[t] = Hidden /\ log[t] = << >> /\ ~ Feed!Ended(t)
  BY <1>0, <1>1, EndedIsHasEnd, HasEndNone DEF LiveContent, HistoryInv
<1>6. LiveContent' = [r \in Reports |->
         IF r = t /\ st = "active" THEN [cell |-> c, body |-> b] ELSE LiveContent[r]]
  BY <1>0, <1>1, <1>4 DEF CreateReport, LiveContent, RowsTypeOK
<1> HIDE DEF t, c
<1>7. CASE st = "active"
  <2>1. LiveContent' = [LiveContent EXCEPT ![t] = [cell |-> c, body |-> b]]
    BY <1>6, <1>7 DEF LiveContent
  <2>2. Feed!Show(t, "created", c, b)
    BY <1>2, <1>3, <1>5, <2>1 DEF Feed!Show, Feed!Opening
  <2> QED
    BY <1>1, <2>2 DEF Feed!Produce
<1>8. CASE st # "active"
  <2>1. LiveContent' = LiveContent
    BY <1>6, <1>8 DEF LiveContent
  <2>2. Feed!Murmur(t, "created", <<Feed!Entry("created", c)>>)
    BY <1>2, <1>3, <1>5, <2>1 DEF Feed!Murmur, Feed!Opening
  <2> QED
    BY <1>1, <2>2 DEF Feed!Produce
<1> QED
  BY <1>7, <1>8

\* An edit rewrites a visible report, or only murmurs about a hidden one.  The
\* cell it announces as vacated is the one the report leaves: this is where
\* overlapping edits would fail.
LEMMA UpdateIsFeedStep ==
  ASSUME RefinementInv, NEW s \in Sessions, NEW c \in Cells, NEW b \in Written,
         UpdateReport(s, c, b)
  PROVE  Feed!Produce
<1> DEFINE t == target[s]
<1>0. /\ TypeInv /\ RowsTypeOK /\ RequestsBusy /\ HistoryInv /\ EditInv
  BY DEF RefinementInv, DecisionInv, TypeInv
<1>1. t \in Reports /\ chosen[s] = cell[t] /\ status[t] # "none"
  BY <1>0 DEF UpdateReport, RequestsBusy, EditInv
<1>2. Feed!EmitReportEvent(Feed!On(t, Feed!EditEntries(cell[t], c)))
  BY <1>1, FeedEmit, FeedOn DEF UpdateReport
<1>3. Restored' = Restored
  BY DEF UpdateReport, Restored
<1>4. log[t] # << >>
  BY <1>0, <1>1 DEF HistoryInv
<1>5. LiveContent' = [r \in Reports |->
         IF r = t /\ status[t] = "active" THEN [cell |-> c, body |-> b]
                                          ELSE LiveContent[r]]
  BY <1>0, <1>1 DEF UpdateReport, LiveContent, RowsTypeOK
<1> HIDE DEF t
<1>6. CASE status[t] = "active"
  <2>1. LiveContent' = [LiveContent EXCEPT ![t] = [cell |-> c, body |-> b]]
    BY <1>5, <1>6 DEF LiveContent
  <2>2. LiveContent[t] # Hidden /\ LiveContent[t].cell = cell[t]
    <3>1. LiveContent[t] # Hidden
          /\ LiveContent[t] = [cell |-> cell[t], body |-> body[t]]
      BY <1>0, <1>1, <1>6, VisibleIsNotHidden
    <3>2. [cell |-> cell[t], body |-> body[t]].cell = cell[t]
      OBVIOUS
    <3> QED
      BY <3>1, <3>2
  <2>3. Feed!Rewrite(t, c, b)
    BY <1>2, <1>3, <2>1, <2>2 DEF Feed!Rewrite
  <2> QED
    BY <1>1, <2>3 DEF Feed!Produce
<1>7. CASE status[t] # "active"
  <2>1. LiveContent' = LiveContent
    BY <1>5, <1>7 DEF LiveContent
  <2>2. LiveContent[t] = Hidden
    BY <1>1, <1>7 DEF LiveContent
  <2>3. Feed!Murmur(t, "updated", Feed!EditEntries(cell[t], c))
    BY <1>2, <1>3, <1>4, <2>1, <2>2 DEF Feed!Murmur, Feed!Opening
  <2>4. cell[t] \in Cells
    BY <1>0, <1>1 DEF RowsTypeOK
  <2> QED
    BY <1>1, <2>3, <2>4 DEF Feed!Produce
<1> QED
  BY <1>6, <1>7

\* Deleting reports withdraws them; deleting none is nothing.
LEMMA DeletionIsFeedStep ==
  ASSUME RefinementInv, NEW D \in SUBSET Reports, MarkDeleted(D),
         \A r \in D : status[r] \notin {"none", "deleted"},
         Restored' = Restored
  PROVE  Feed!Produce \/ UNCHANGED Feed!feedVars
<1>0. TypeInv /\ OutboxTypeOK /\ RowsTypeOK /\ HistoryInv
  BY DEF RefinementInv, DecisionInv, TypeInv
<1>1. LiveContent' = [r \in Reports |-> IF r \in D THEN Hidden ELSE LiveContent[r]]
  BY DEF MarkDeleted, LiveContent
<1>2. CASE D = {}
  <2>1. EmitReportEvent([r \in Reports |-> << >>])
    BY <1>2 DEF MarkDeleted
  <2>2. UNCHANGED <<log, pending>>
    BY <1>0, <2>1, EmitNothing
  <2>3. LiveContent' = LiveContent
    BY <1>1, <1>2 DEF LiveContent
  <2> QED
    BY <2>2, <2>3 DEF Feed!feedVars
<1>3. CASE D # {}
  <2> DEFINE at == [r \in D |-> cell[r]]
             es == [r \in Reports |->
                      IF r \in D THEN <<Feed!Entry("deleted", at[r])>> ELSE << >>]
  <2>1. Feed!EmitReportEvent(es)
    <3>1. es = [r \in Reports |->
                  IF r \in D THEN <<Entry("deleted", cell[r])>> ELSE << >>]
      BY FeedOn
    <3> QED
      BY <3>1, FeedEmit DEF MarkDeleted
  <2>2. \A r \in D : log[r] # << >> /\ (~ Feed!Ended(r) \/ r \in Restored)
    BY <1>0, EndedIsHasEnd DEF HistoryInv
  <2>3. ASSUME NEW r \in D, LiveContent[r] # Hidden PROVE LiveContent[r].cell = at[r]
    <3>1. LiveContent[r] = [cell |-> cell[r], body |-> body[r]]
      BY <1>0, <2>3, VisibleIsNotHidden
    <3>2. [cell |-> cell[r], body |-> body[r]].cell = cell[r]
      OBVIOUS
    <3> QED
      BY <3>1, <3>2
  <2>4. at \in [D -> Cells]
    BY <1>0 DEF RowsTypeOK
  <2>5. Feed!Withdraw(D, at)
    BY <1>1, <2>1, <2>2, <2>3 DEF Feed!Withdraw
  <2> HIDE DEF at
  <2> QED
    BY <1>3, <2>4, <2>5 DEF Feed!Produce
<1> QED
  BY <1>2, <1>3

\* A moderator shows a held report, withdraws a flagged one, brings a deleted
\* one back unannounced, or rejects one that nobody saw.
LEMMA ModerationIsFeedStep ==
  ASSUME RefinementInv, Moderation
  PROVE  Feed!Produce \/ UNCHANGED Feed!feedVars
<1>0. /\ TypeInv /\ RowsTypeOK /\ HistoryInv /\ Undecided
  BY DEF RefinementInv, DecisionInv, TypeInv
<1>1. CASE \E r \in Reports : ApproveHeldReport(r)
  <2>1. PICK t \in Reports : ApproveHeldReport(t)
    BY <1>1
  <2>2. t \notin Restored /\ Restored' = Restored
    BY <1>0, <2>1 DEF ApproveHeldReport, Logged, Restored, Undecided, RowsTypeOK
  <2>3. status[t] = "pending_moderation" /\ cell[t] \in Cells /\ body[t] \in Written
    BY <1>0, <2>1, <2>2 DEF ApproveHeldReport, HistoryInv, RowsTypeOK
  <2>4. LiveContent[t] = Hidden /\ log[t] # << >> /\ ~ Feed!Ended(t)
    BY <1>0, <2>2, <2>3, EndedIsHasEnd DEF LiveContent, HistoryInv
  <2>5. LiveContent' =
          [LiveContent EXCEPT ![t] = [cell |-> cell[t], body |-> body[t]]]
    BY <1>0, <2>1 DEF ApproveHeldReport, LiveContent, RowsTypeOK
  <2>6. Feed!EmitReportEvent(Feed!On(t, <<Feed!Entry("updated", cell[t])>>))
    BY <2>1, FeedEmit, FeedOn DEF ApproveHeldReport
  <2>7. Feed!Show(t, "updated", cell[t], body[t])
    BY <2>2, <2>4, <2>5, <2>6 DEF Feed!Show, Feed!Opening
  <2> QED
    BY <2>3, <2>7 DEF Feed!Produce
<1>2. CASE \E r \in Reports : RejectHeldReport(r)
  <2>1. PICK t \in Reports : RejectHeldReport(t)
    BY <1>2
  <2>2. LiveContent' = LiveContent
    BY <1>0, <2>1 DEF RejectHeldReport, LiveContent, RowsTypeOK
  <2>3. Restored' = Restored
    BY <1>0, <2>1 DEF RejectHeldReport, Logged, Restored, RowsTypeOK
  <2> QED
    BY <2>1, <2>2, <2>3 DEF RejectHeldReport, Feed!feedVars
<1>3. CASE \E r \in Reports : HideFlaggedReport(r)
  <2>1. PICK t \in Reports : HideFlaggedReport(t)
    BY <1>3
  <2>2. Restored' = Restored
    BY <1>0, <2>1 DEF HideFlaggedReport, Logged, Restored, RowsTypeOK
  <2> QED
    BY <2>1, <2>2, DeletionIsFeedStep DEF HideFlaggedReport
<1>4. CASE \E r \in Reports : RestoreSoftDeleted(r)
  <2>1. PICK t \in Reports : RestoreSoftDeleted(t)
    BY <1>4
  <2>2. cell[t] \in Cells /\ body[t] \in Written
    BY <1>0, <2>1 DEF RestoreSoftDeleted, HistoryInv, RowsTypeOK
  <2>3. LiveContent[t] = Hidden /\ Feed!Ended(t)
    BY <1>0, <2>1, EndedIsHasEnd DEF RestoreSoftDeleted, LiveContent, HistoryInv
  <2>4. LiveContent' =
          [LiveContent EXCEPT ![t] = [cell |-> cell[t], body |-> body[t]]]
    BY <1>0, <2>1 DEF RestoreSoftDeleted, LiveContent, RowsTypeOK
  <2>5. Restored' = Restored \cup {t}
    BY <1>0, <2>1 DEF RestoreSoftDeleted, Logged, Restored, RowsTypeOK
  <2>6. Feed!Reappear(t, cell[t], body[t])
    BY <2>1, <2>3, <2>4, <2>5 DEF RestoreSoftDeleted, Feed!Reappear
  <2> QED
    BY <2>2, <2>6 DEF Feed!Produce
<1> QED
  BY <1>1, <1>2, <1>3, <1>4 DEF Moderation

\* The purge is invisible, unless it scrubs reports restored under its feet.
LEMMA ScrubIsFeedStep ==
  ASSUME RefinementInv, ScrubDue
  PROVE  Feed!Produce \/ UNCHANGED Feed!feedVars
<1> DEFINE D == {r \in doomed : status[r] = "active"}
<1>0. TypeInv /\ RowsTypeOK /\ HistoryInv
  BY DEF RefinementInv, DecisionInv, TypeInv
<1>1. D \in SUBSET Reports /\ \A r \in D : status[r] = "active"
  BY <1>0 DEF RowsTypeOK
<1>2. \A r \in D : r \in Restored
  BY <1>0, <1>1 DEF HistoryInv
<1>3. Restored' = Restored /\ UNCHANGED <<log, pending>>
  BY DEF ScrubDue, Restored
<1>4. ASSUME NEW r \in Reports
      PROVE  LiveContent'[r] = IF r \in D THEN [LiveContent[r] EXCEPT !.body = Blank]
                                          ELSE LiveContent[r]
  <2>1. CASE r \in D
    <3>1. LiveContent[r] = [cell |-> cell[r], body |-> body[r]]
      BY <1>0, <1>1, <2>1, VisibleIsNotHidden
    <3>2. LiveContent'[r] = [cell |-> cell[r], body |-> Blank]
      BY <1>0, <2>1 DEF ScrubDue, LiveContent, RowsTypeOK
    <3>3. [[cell |-> cell[r], body |-> body[r]] EXCEPT !.body = Blank]
            = [cell |-> cell[r], body |-> Blank]
      OBVIOUS
    <3> QED
      BY <2>1, <3>1, <3>2, <3>3
  <2>2. CASE r \notin D
    BY <1>0, <2>2 DEF ScrubDue, LiveContent, RowsTypeOK
  <2> QED
    BY <2>1, <2>2
<1> HIDE DEF D
<1>5. LiveContent' = [r \in Reports |->
         IF r \in D THEN [LiveContent[r] EXCEPT !.body = Blank] ELSE LiveContent[r]]
  <2>1. LiveContent' = [r \in Reports |-> LiveContent'[r]]
    BY DEF LiveContent
  <2> QED
    BY <1>4, <2>1
<1>6. CASE D = {}
  <2>1. LiveContent' = LiveContent
    BY <1>5, <1>6 DEF LiveContent
  <2> QED
    BY <1>3, <2>1 DEF Feed!feedVars
<1>7. CASE D # {}
  <2>1. \A r \in D : LiveContent[r] # Hidden
    BY <1>0, <1>1, VisibleIsNotHidden
  <2>2. Feed!Fade(D)
    BY <1>2, <1>3, <1>5, <2>1 DEF Feed!Fade
  <2> QED
    BY <1>1, <1>7, <2>2 DEF Feed!Produce
<1> QED
  BY <1>6, <1>7

\* Every step of the store is a step of the feed, or invisible to it.
LEMMA NextIsFeedStep ==
  ASSUME RefinementInv, [Next]_vars
  PROVE  [Feed!FeedNext]_(Feed!feedVars)
<1> SUFFICES Feed!Produce \/ UNCHANGED Feed!feedVars
  BY DEF Feed!FeedNext
<1>1. CASE Submission
  <2>1. CASE \E s \in Sessions, c \in Cells, b \in Written : UpdateReport(s, c, b)
    BY <2>1, UpdateIsFeedStep
  <2>2. CASE \E s \in Sessions, st \in Status, b \in Written : CreateReport(s, st, b)
    BY <2>2, CreateIsFeedStep
  <2>3. CASE UNCHANGED <<status, cell, body, log, pending, modlog>>
    BY <2>3, InvisibleStep DEF Restored
  <2> QED
    BY <1>1, <2>1, <2>2, <2>3 DEF Submission, GateEdit, ReadCellBefore, CapCheck,
       AbandonRequest, rows
<1>2. CASE Removal
  <2>1. PICK D \in SUBSET Reports :
          /\ MarkDeleted(D)
          /\ \A r \in D : status[r] \notin {"none", "deleted"}
          /\ modlog' = modlog
    BY <1>2 DEF Removal, SoftDeleteReport, DeleteUserAccount
  <2> QED
    BY <2>1, DeletionIsFeedStep DEF Restored
<1>3. CASE Moderation
  BY <1>3, ModerationIsFeedStep
<1>4. CASE Retention
  <2>1. CASE ScrubDue
    BY <2>1, ScrubIsFeedStep
  <2>2. CASE UNCHANGED <<status, cell, body, log, pending, modlog>>
    BY <2>2, InvisibleStep DEF Restored
  <2> QED
    BY <1>4, <2>1, <2>2 DEF Retention, SelectDue, AbandonPurge, EditWindowCloses,
       RetentionElapses, rows
<1>5. CASE UNCHANGED vars
  BY <1>5, InvisibleStep DEF vars, Restored
<1> QED
  BY <1>1, <1>2, <1>3, <1>4, <1>5 DEF Next

\* The store implements the feed, whatever its size, if no two requests edit
\* one report at once: every change a reader of a cell can see is announced to
\* the consumers of the outbox in the transaction that makes it, the restores
\* and the purge that races one apart.
THEOREM StoreImplementsFeed ==
  ASSUME ~ OverlappingEdits
  PROVE  Spec => ImplementsFeed
<1>1. RefinementInv /\ [Next]_vars => [Feed!FeedNext]_(Feed!feedVars)
  BY NextIsFeedStep
<1> QED
  BY <1>1, InitIsFeedInit, StoreRefinementInv, PTL
     DEF Spec, ImplementsFeed, Feed!FeedSpec

\* What a consumer takes for an existing report that is not deleted is one,
\* in a store of any size whose edits do not overlap.
THEOREM StoreDeletionsAreTold ==
  ASSUME ~ OverlappingEdits
  PROVE  Spec => []DeletionsAreTold
<1>1. RefinementInv => DeletionsAreTold
  <2> SUFFICES ASSUME RefinementInv, NEW r \in Reports
               PROVE  Feed!Kept(r) <=> status[r] \notin {"none", "deleted"}
    BY DEF DeletionsAreTold
  <2>1. /\ log[r] = << >> <=> status[r] = "none"
        /\ status[r] = "deleted" => HasEnd(log[r])
        /\ HasEnd(log[r]) => status[r] = "deleted" \/ r \in Restored
    BY DEF RefinementInv, HistoryInv
  <2>2. LiveContent[r] # Hidden <=> status[r] = "active"
    BY VisibleIsNotHidden DEF RefinementInv, DecisionInv
  <2>3. r \in Restored => status[r] \in {"active", "deleted"}
    BY DEF RefinementInv, DecisionInv, TypeInv, RowsTypeOK, Undecided, Restored, Status
  <2> QED
    BY <2>1, <2>2, <2>3, EndedIsHasEnd DEF Feed!Kept
<1> QED
  BY <1>1, StoreRefinementInv, PTL

=============================================================================
