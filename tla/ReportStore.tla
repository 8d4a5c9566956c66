------------------------------ MODULE ReportStore ------------------------------
(***************************************************************************)
(* interview_reports and every transaction that writes it: finalizing a    *)
(* submission (create or edit), the owner's soft delete, the moderator     *)
(* commands on held, flagged and soft-deleted reports, account deletion    *)
(* and the retention purge.                                                *)
(*                                                                         *)
(* Postgres runs these at READ COMMITTED.  A guarded UPDATE and the event  *)
(* inserted with it are one action, taken when the transaction commits.  A *)
(* value read by an earlier statement, or by an earlier call of the same   *)
(* request, is kept in the variables of the request, and other requests    *)
(* may commit in between.                                                  *)
(***************************************************************************)
EXTENDS Outbox

CONSTANTS
  Users,
  Bodies,            \* what a report says, as far as its readers can tell
  Sessions,          \* finalizeSubmission requests that may be in flight
  AuthorOf,          \* AuthorOf[r]: created_by_user_id, fixed at insertion
  CompanyOf,         \* CompanyOf[c]: the company of a cell
  InitialStatus,     \* what decideInitialReportStatus may answer
  OverlappingEdits,  \* whether one report may be edited by two requests at once
  Written,           \* the bodies an author can submit
  Blank,             \* a body whose prose was purged
  Hidden, NoReport, NoCell

ASSUME AuthorAssumption == AuthorOf \in [Reports -> Users]
ASSUME InitialAssumption ==
  InitialStatus \subseteq {"pending_moderation", "active"}
ASSUME BlankBodyAssumption == Blank \in Bodies
ASSUME WrittenBodyAssumption == Written \subseteq Bodies
ASSUME CellsAssumption == Cells # {}
ASSUME NoReportAssumption == NoReport \notin Reports
ASSUME NoCellAssumption == NoCell \notin Cells
ASSUME HiddenRowAssumption == Hidden \notin [cell : Cells, body : Bodies]

VARIABLES
  status,   \* "none" before the row is inserted
  cell,     \* the (company, role, level) columns
  body,     \* the remaining columns and the child rows
  locked,   \* locked_at has passed
  expired,  \* deleted_at is further back than PII_RETENTION_MS
  purged,   \* pii_purged_at is set: the prose is gone
  gone,     \* users whose deleted_at is set
  modlog,   \* modlog[r]: the kinds of mod_action_logs rows about r
  phase,    \* where request s is in finalizeSubmission
  target,   \* the report request s writes
  chosen,   \* the cell request s read ("read") or will insert ("capped")
  doomed    \* reports a purge transaction has selected

rows == <<status, cell, body, locked, expired, purged>>
requests == <<phase, target, chosen>>
vars == <<status, cell, body, locked, expired, purged, gone, modlog,
          phase, target, chosen, doomed, log, pending>>

Status == {"none", "pending_moderation", "active", "rejected", "deleted"}
ModAction == {"approve", "reject", "hide", "restore"}
Phase == {"idle", "gated", "read", "capped"}

TypeOK ==
  /\ OutboxTypeOK
  /\ status \in [Reports -> Status]
  /\ cell \in [Reports -> Cells]
  /\ body \in [Reports -> Bodies]
  /\ locked \in [Reports -> BOOLEAN]
  /\ expired \in [Reports -> BOOLEAN]
  /\ purged \in [Reports -> BOOLEAN]
  /\ gone \in SUBSET Users
  /\ modlog \in [Reports -> SUBSET ModAction]
  /\ phase \in [Sessions -> Phase]
  /\ target \in [Sessions -> Reports \cup {NoReport}]
  /\ chosen \in [Sessions -> Cells \cup {NoCell}]
  /\ doomed \in SUBSET Reports

Init ==
  /\ OutboxInit
  /\ status = [r \in Reports |-> "none"]
  /\ cell = [r \in Reports |-> CHOOSE c \in Cells : TRUE]
  /\ body = [r \in Reports |-> Blank]
  /\ locked = [r \in Reports |-> FALSE]
  /\ expired = [r \in Reports |-> FALSE]
  /\ purged = [r \in Reports |-> FALSE]
  /\ gone = {}
  /\ modlog = [r \in Reports |-> {}]
  /\ phase = [s \in Sessions |-> "idle"]
  /\ target = [s \in Sessions |-> NoReport]
  /\ chosen = [s \in Sessions |-> NoCell]
  /\ doomed = {}

-----------------------------------------------------------------------------
(* The requests of the submission flow.                                    *)

Exists(r) == status[r] # "none"

\* now < locked_at and not soft-deleted.
IsReportEditable(r) == status[r] # "deleted" /\ ~ locked[r]

\* "1 submission per company per user": soft-deleted reports do not count.
UserHasReportForCompany(u, company) ==
  \E r \in Reports :
    /\ AuthorOf[r] = u
    /\ status[r] \notin {"none", "deleted"}
    /\ CompanyOf[cell[r]] = company

InFlight(r) == \E s \in Sessions : target[s] = r

Logged(r, action) == modlog' = [modlog EXCEPT ![r] = @ \cup {action}]

\* A defect: the request keeps a report that it no longer writes as its cell.
ReturnKeepingTarget(s) ==
  /\ phase' = [phase EXCEPT ![s] = "idle"]
  /\ chosen' = [chosen EXCEPT ![s] = NoReport]
  /\ target' = [target EXCEPT ![s] = NoReport]

Return(s) ==
  /\ phase' = [phase EXCEPT ![s] = "idle"]
  /\ target' = [target EXCEPT ![s] = NoReport]
  /\ chosen' = [chosen EXCEPT ![s] = NoCell]

\* finalizeSubmission with an editingReportId: the report is the caller's own
\* and still editable.
GateEdit(s, r) ==
  /\ phase[s] = "idle"
  /\ Exists(r)
  /\ IsReportEditable(r)
  /\ OverlappingEdits \/ ~ InFlight(r)
  /\ phase' = [phase EXCEPT ![s] = "gated"]
  /\ target' = [target EXCEPT ![s] = r]
  /\ UNCHANGED <<rows, gone, modlog, chosen, doomed, log, pending>>

\* First statement of updateReport: the cell before the edit, with no lock on
\* the row.
ReadCellBefore(s) ==
  /\ phase[s] = "gated"
  /\ phase' = [phase EXCEPT ![s] = "read"]
  /\ chosen' = [chosen EXCEPT ![s] = cell[target[s]]]
  /\ UNCHANGED <<rows, gone, modlog, target, doomed, log, pending>>

\* A defect: the vacated cell is not announced.
UpdateEntriesOfNewCellOnly(before, c) == <<Entry("updated", c)>>

\* The rest of updateReport: columns and children overwritten, whatever the
\* status of the row is by now; an event for the new cell, and one for the
\* cell read before if the edit moved the report.
UpdateEntries(before, c) ==
  IF before = c THEN <<Entry("updated", c)>>
                ELSE <<Entry("updated", c), Entry("updated", before)>>

UpdateReport(s, c, b) ==
  /\ phase[s] = "read"
  /\ cell' = [cell EXCEPT ![target[s]] = c]
  /\ body' = [body EXCEPT ![target[s]] = b]
  /\ EmitReportEvent(On(target[s], UpdateEntries(chosen[s], c)))
  /\ Return(s)
  /\ UNCHANGED <<status, locked, expired, purged, gone, modlog, doomed>>

\* finalizeSubmission of a new report: the per-company cap is read by a query
\* of its own.  r is a fresh id.
CapCheck(s, r, c) ==
  /\ phase[s] = "idle"
  /\ ~ Exists(r)
  /\ ~ InFlight(r)
  /\ ~ UserHasReportForCompany(AuthorOf[r], CompanyOf[c])
  /\ phase' = [phase EXCEPT ![s] = "capped"]
  /\ target' = [target EXCEPT ![s] = r]
  /\ chosen' = [chosen EXCEPT ![s] = c]
  /\ UNCHANGED <<rows, gone, modlog, doomed, log, pending>>

\* A defect: a new report skips the hold.
CreateReportActive(s, st, b) ==
  /\ phase[s] = "capped"
  /\ st \in InitialStatus
  /\ status' = [status EXCEPT ![target[s]] = "active"]
  /\ cell' = [cell EXCEPT ![target[s]] = chosen[s]]
  /\ body' = [body EXCEPT ![target[s]] = b]
  /\ EmitReportEvent(On(target[s], <<Entry("created", chosen[s])>>))
  /\ Return(s)
  /\ UNCHANGED <<locked, expired, purged, gone, modlog, doomed>>

\* createReport, some queries later.
CreateReport(s, st, b) ==
  /\ phase[s] = "capped"
  /\ st \in InitialStatus
  /\ status' = [status EXCEPT ![target[s]] = st]
  /\ cell' = [cell EXCEPT ![target[s]] = chosen[s]]
  /\ body' = [body EXCEPT ![target[s]] = b]
  /\ EmitReportEvent(On(target[s], <<Entry("created", chosen[s])>>))
  /\ Return(s)
  /\ UNCHANGED <<locked, expired, purged, gone, modlog, doomed>>

\* The request fails, or its connection does, before its transaction commits.
AbandonRequest(s) ==
  /\ phase[s] # "idle"
  /\ Return(s)
  /\ UNCHANGED <<rows, gone, modlog, doomed, log, pending>>

-----------------------------------------------------------------------------
(* Deletion.                                                               *)

\* deleted_at is stamped, with an event for the cell of each deleted row.
MarkDeleted(D) ==
  /\ status' = [r \in Reports |-> IF r \in D THEN "deleted" ELSE status[r]]
  /\ expired' = [r \in Reports |-> IF r \in D THEN FALSE ELSE expired[r]]
  /\ EmitReportEvent([r \in Reports |->
       IF r \in D THEN <<Entry("deleted", cell[r])>> ELSE << >>])
  /\ UNCHANGED <<cell, body, locked, purged, requests, doomed>>

\* A defect: deleting again stamps deleted_at again.
SoftDeleteReportAgain(r) ==
  /\ Exists(r)
  /\ MarkDeleted({r})
  /\ UNCHANGED <<gone, modlog>>

\* The owner deletes a report, in any status but already deleted.
SoftDeleteReport(r) ==
  /\ status[r] \notin {"none", "deleted"}
  /\ MarkDeleted({r})
  /\ UNCHANGED <<gone, modlog>>

\* The account goes with every report that is not yet deleted.
DeleteUserAccount(u) ==
  /\ u \notin gone
  /\ MarkDeleted({r \in Reports : AuthorOf[r] = u
                                  /\ status[r] \notin {"none", "deleted"}})
  /\ gone' = gone \cup {u}
  /\ UNCHANGED modlog

-----------------------------------------------------------------------------
(* Moderation.                                                             *)

ApproveHeldReport(r) ==
  /\ status[r] = "pending_moderation"
  /\ status' = [status EXCEPT ![r] = "active"]
  /\ EmitReportEvent(On(r, <<Entry("updated", cell[r])>>))
  /\ Logged(r, "approve")
  /\ UNCHANGED <<cell, body, locked, expired, purged, gone, requests, doomed>>

\* A defect: the UPDATE is not guarded on the hold.
RejectAnyReport(r) ==
  /\ Exists(r)
  /\ status' = [status EXCEPT ![r] = "rejected"]
  /\ Logged(r, "reject")
  /\ UNCHANGED <<cell, body, locked, expired, purged, gone, requests, doomed,
                 log, pending>>

\* Never active, so no event.
RejectHeldReport(r) ==
  /\ status[r] = "pending_moderation"
  /\ status' = [status EXCEPT ![r] = "rejected"]
  /\ Logged(r, "reject")
  /\ UNCHANGED <<cell, body, locked, expired, purged, gone, requests, doomed,
                 log, pending>>

\* A defect: the report is hidden without a word.
HideWithoutEvent(r) ==
  /\ status[r] = "active"
  /\ status' = [status EXCEPT ![r] = "deleted"]
  /\ Logged(r, "hide")
  /\ UNCHANGED <<cell, body, locked, expired, purged, gone, requests, doomed,
                 log, pending>>

HideFlaggedReport(r) ==
  /\ status[r] = "active"
  /\ MarkDeleted({r})
  /\ Logged(r, "hide")
  /\ UNCHANGED gone

\* Back to 'active', whatever the status was before the deletion, and with no
\* event.
RestoreSoftDeleted(r) ==
  /\ status[r] = "deleted"
  /\ ~ purged[r]
  /\ status' = [status EXCEPT ![r] = "active"]
  /\ expired' = [expired EXCEPT ![r] = FALSE]
  /\ Logged(r, "restore")
  /\ UNCHANGED <<cell, body, locked, purged, gone, requests, doomed, log, pending>>

-----------------------------------------------------------------------------
(* The daily purge, and the passing of time.                               *)

\* First statement: the rows due.  They are not locked.
SelectDue ==
  /\ doomed = {}
  /\ doomed' = {r \in Reports : status[r] = "deleted" /\ expired[r] /\ ~ purged[r]}
  /\ UNCHANGED <<rows, gone, modlog, requests, log, pending>>

\* The prose of those rows is cleared and pii_purged_at stamped, by id.
ScrubDue ==
  /\ doomed # {}
  /\ body' = [r \in Reports |-> IF r \in doomed THEN Blank ELSE body[r]]
  /\ purged' = [r \in Reports |-> r \in doomed \/ purged[r]]
  /\ doomed' = {}
  /\ UNCHANGED <<status, cell, locked, expired, gone, modlog, requests,
                 log, pending>>

\* The purge transaction rolls back.
AbandonPurge ==
  /\ doomed # {}
  /\ doomed' = {}
  /\ UNCHANGED <<rows, gone, modlog, requests, log, pending>>

\* 24 hours after the submission.
EditWindowCloses(r) ==
  /\ Exists(r)
  /\ ~ locked[r]
  /\ locked' = [locked EXCEPT ![r] = TRUE]
  /\ UNCHANGED <<status, cell, body, expired, purged, gone, modlog, requests,
                 doomed, log, pending>>

\* 90 days after the deletion: long after the edit window closed and after
\* any request on the report returned.
RetentionElapses(r) ==
  /\ status[r] = "deleted"
  /\ locked[r]
  /\ ~ expired[r]
  /\ ~ InFlight(r)
  /\ expired' = [expired EXCEPT ![r] = TRUE]
  /\ UNCHANGED <<status, cell, body, locked, purged, gone, modlog, requests,
                 doomed, log, pending>>

-----------------------------------------------------------------------------

Submission ==
  \/ \E s \in Sessions, r \in Reports : GateEdit(s, r)
  \/ \E s \in Sessions : ReadCellBefore(s)
  \/ \E s \in Sessions, c \in Cells, b \in Written : UpdateReport(s, c, b)
  \/ \E s \in Sessions, r \in Reports, c \in Cells : CapCheck(s, r, c)
  \/ \E s \in Sessions, st \in Status, b \in Written : CreateReport(s, st, b)
  \/ \E s \in Sessions : AbandonRequest(s)

Removal ==
  \/ \E r \in Reports : SoftDeleteReport(r)
  \/ \E u \in Users : DeleteUserAccount(u)

Moderation ==
  \/ \E r \in Reports : ApproveHeldReport(r)
  \/ \E r \in Reports : RejectHeldReport(r)
  \/ \E r \in Reports : HideFlaggedReport(r)
  \/ \E r \in Reports : RestoreSoftDeleted(r)

Retention ==
  \/ SelectDue
  \/ ScrubDue
  \/ AbandonPurge
  \/ \E r \in Reports : EditWindowCloses(r)
  \/ \E r \in Reports : RetentionElapses(r)

Next == Submission \/ Removal \/ Moderation \/ Retention

Spec == Init /\ [][Next]_vars

-----------------------------------------------------------------------------
(* What the store promises.                                                *)

\* A moderation hold is decided once: no report is both approved and rejected,
\* and a rejected one can only become visible again by being deleted and then
\* restored.  Approve, reject and the owner's delete race on the same row
\* (held.ts, reports.ts softDeleteReport).
HoldDecisionStands ==
  \A r \in Reports :
    /\ ~ ({"approve", "reject"} \subseteq modlog[r])
    /\ "reject" \in modlog[r] /\ "restore" \notin modlog[r]
         => status[r] \in {"rejected", "deleted"}

\* While every submission starts on hold (V1: nothing sets evidence_verified),
\* no report is public without a moderator's approve or restore on record,
\* whatever edits, deletions and account deletions happen in between.
PublicOnlyByModerator ==
  "active" \notin InitialStatus =>
    \A r \in Reports :
      status[r] = "active" => modlog[r] \cap {"approve", "restore"} # {}

\* A step that finds a report deleted and leaves it deleted does not take its
\* deleted_at forward.
ClockKept ==
  \A r \in Reports :
    status[r] = "deleted" /\ status'[r] = "deleted" /\ expired[r] => expired'[r]

\* The retention clock of a deleted report never restarts while it stays
\* deleted, so the purge cannot be put off ("a re-stamp can't slide the purge
\* clock", reports.ts softDeleteReport), by any of the three ways to delete.
PurgeClockNeverSlides == [][ClockKept]_vars

\* The visible part of the store, and what its moderators restored.
LiveContent ==
  [r \in Reports |-> IF status[r] = "active"
                       THEN [cell |-> cell[r], body |-> body[r]]
                       ELSE Hidden]

Restored == {r \in Reports : "restore" \in modlog[r]}

Feed == INSTANCE ReportFeed WITH content <- LiveContent, unannounced <- Restored

\* The store implements the feed its consumers rely on: every change of what a
\* cell contains commits together with an event for that cell, except for a
\* restored report.  It needs the edits of one report not to overlap.
ImplementsFeed == Feed!FeedSpec

\* From its events and from what is visible, a consumer can tell which reports
\* exist and are not deleted, those on hold or rejected included: what
\* recomputeUserKarma sums over needs no other source.
DeletionsAreTold ==
  \A r \in Reports : Feed!Kept(r) <=> status[r] \notin {"none", "deleted"}

\* "Report writes insert an event in the same transaction": a report that
\* becomes visible, or leaves a cell, leaves an event behind in that step.
VisibilityChangeIsAnnounced ==
  [][\A r \in Reports :
       LiveContent'[r] # LiveContent[r] => log'[r] # log[r]]_vars

\* The purge only ever takes the prose of reports that are deleted
\* (purgeDeletedReportPii), and a purged report cannot come back
\* (restoreSoftDeleted).
PurgedStaysDeleted ==
  \A r \in Reports : purged[r] => status[r] = "deleted"

=============================================================================
