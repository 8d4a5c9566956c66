------------------------------- MODULE ModQueue -------------------------------
(***************************************************************************)
(* The moderator's queue page: the client component that lists the rows,   *)
(* filters, selects and asks for a reason (mod-queue.tsx), the server      *)
(* action that runs one command per row (queues/[queue]/actions.ts), and   *)
(* the commands on held, flagged and deleted content (held.ts, flags.ts,   *)
(* soft-delete.ts).  A second moderator works on the same content, readers *)
(* flag it, and authors delete it.                                         *)
(***************************************************************************)
EXTENDS Naturals, FiniteSets

CONSTANTS
  Moderated,   \* reports and comments
  ModeratedReports,    \* the contents that are reports; they begin held
  Filters,    \* what the moderator types in the filter box
  Matching,   \* filter -> the contents whose row matches it
  NoReason,      \* an empty reason
  NoPrompt, NoCall,
  MaxVisits,  \* bound: pages the moderator opens
  MaxEntries, \* bound: rows of the audit log
  MaxOthers   \* bound: steps of the other moderator, readers, authors and the purge

ASSUME QueueAssumption == ModeratedReports \subseteq Moderated /\ MaxVisits \in Nat /\ MaxOthers \in Nat

VARIABLES
  status,     \* interview_reports.status, comments.status
  purged,     \* pii_purged_at is set
  flagged,    \* contents with an open flag
  log,        \* mod_action_logs of this moderator, each with its reason
  others,     \* steps of everybody else, so far
  queue, items, filter, checked, prompt, reason, call, visits

contentVars == <<status, purged, flagged, log, others>>
screenVars == <<queue, items, filter, checked, prompt, reason, call, visits>>
queueVars == <<contentVars, screenVars>>

QueueIds == {"new-user-hold", "flags", "soft-delete"}

QueueActions(q) ==
  CASE q = "new-user-hold" -> {"approve", "reject"}
    [] q = "flags" -> {"hide", "dismiss"}
    [] q = "soft-delete" -> {"restore"}

Bulk(q) == q = "new-user-hold"
RequiresReason(a) == a \in {"reject", "hide"}

Reasons == {NoReason} \cup [action : {"reject", "hide"}, about : SUBSET Moderated]

QueueTypeOK ==
  /\ status \in [Moderated -> {"pending_moderation", "active", "hidden", "deleted", "rejected"}]
  /\ purged \subseteq Moderated /\ flagged \subseteq Moderated
  /\ log \subseteq [action : UNION {QueueActions(q) : q \in QueueIds},
                    target : Moderated, reason : Reasons]
  /\ queue \in QueueIds /\ items \subseteq Moderated /\ checked \subseteq Moderated
  /\ filter \in Filters /\ reason \in Reasons /\ visits \in 0..MaxVisits
  /\ others \in 0..MaxOthers
  /\ prompt = NoPrompt \/ prompt.ids # {}
  /\ call = NoCall \/ call.done \subseteq Moderated

(* What each page lists. *)
ListHeldReports == {c \in Moderated : status[c] = "pending_moderation"}
ListContentFlags == {c \in flagged : status[c] = "active"}
ListSoftDeleted == {c \in Moderated \ purged : status[c] = "deleted"}

LoadItems(q) ==
  CASE q = "new-user-hold" -> ListHeldReports
    [] q = "flags" -> ListContentFlags
    [] q = "soft-delete" -> ListSoftDeleted

QueueInit ==
  /\ status = [c \in Moderated |-> IF c \in ModeratedReports THEN "pending_moderation" ELSE "active"]
  /\ purged = {} /\ flagged = {} /\ log = {} /\ visits = 0 /\ others = 0
  /\ queue = "new-user-hold" /\ items = ListHeldReports
  /\ filter \in Filters /\ Matching[filter] = Moderated
  /\ checked = {} /\ prompt = NoPrompt /\ reason = NoReason /\ call = NoCall

-----------------------------------------------------------------------------
(* The commands.  Each changes the row and writes its log entry in one     *)
(* transaction, and answers whether it found the row as it expected it.    *)

Found(a, c) ==
  CASE a \in {"approve", "reject"} -> status[c] = "pending_moderation"
    [] a = "hide" -> status[c] = "active"
    [] a = "dismiss" -> c \in flagged
    [] a = "restore" -> status[c] = "deleted" /\ c \notin purged

LogModAction(a, c, why) ==
  log' = log \cup {[action |-> a, target |-> c,
                    reason |-> IF RequiresReason(a) THEN why ELSE NoReason]}

RejectHeldReport(c) == status' = [status EXCEPT ![c] = "rejected"] /\ UNCHANGED flagged
ApproveHeldReport(c) == status' = [status EXCEPT ![c] = "active"] /\ UNCHANGED flagged
RestoreSoftDeleted(c) == status' = [status EXCEPT ![c] = "active"] /\ UNCHANGED flagged
HideFlagged(c) ==
  /\ status' = [status EXCEPT ![c] = IF c \in ModeratedReports THEN "deleted" ELSE "hidden"]
  /\ flagged' = flagged \ {c}
DismissFlags(c) == flagged' = flagged \ {c} /\ UNCHANGED status

Decide(a, c) ==
  /\ Found(a, c)
  /\ \/ a = "approve" /\ ApproveHeldReport(c)
     \/ a = "reject" /\ RejectHeldReport(c)
     \/ a = "hide" /\ HideFlagged(c)
     \/ a = "dismiss" /\ DismissFlags(c)
     \/ a = "restore" /\ RestoreSoftDeleted(c)

-----------------------------------------------------------------------------
(* The screen. *)

Filtered == items \cap Matching[filter]

QueuePage(q) ==
  /\ call = NoCall /\ visits < MaxVisits
  /\ queue' = q /\ items' = LoadItems(q) /\ visits' = visits + 1
  /\ \E f \in Filters : Matching[f] = Moderated /\ filter' = f
  /\ checked' = {} /\ prompt' = NoPrompt /\ reason' = NoReason
  /\ UNCHANGED <<contentVars, call>>

SetFilter(f) ==
  /\ items # {} /\ f # filter /\ filter' = f
  /\ UNCHANGED <<contentVars, queue, items, checked, prompt, reason, call, visits>>

Toggle(c) ==
  /\ Bulk(queue) /\ c \in Filtered
  /\ checked' = IF c \in checked THEN checked \ {c} ELSE checked \cup {c}
  /\ UNCHANGED <<contentVars, queue, items, filter, prompt, reason, call, visits>>

ToggleAll ==
  /\ Bulk(queue) /\ items # {} /\ Filtered # {}
  /\ checked' = IF Filtered \subseteq checked THEN checked \ Filtered ELSE checked \cup Filtered
  /\ UNCHANGED <<contentVars, queue, items, filter, prompt, reason, call, visits>>

Fire(a, ids, why) ==
  call' = [action |-> a, ids |-> ids, rest |-> ids, done |-> {}, reason |-> why]

\* A defect: the bar stays when the filter hides every selected row.
AskedOfNone(ids, scope) ==
  \/ scope = "row" /\ \E c \in Filtered : ids = {c}
  \/ scope = "bulk" /\ Bulk(queue) /\ checked # {} /\ ids = Filtered \cap checked

(* The button of a row, or of the bar over the selection the filter shows. *)
Asked(ids, scope) ==
  /\ ids # {}
  /\ \/ scope = "row" /\ \E c \in Filtered : ids = {c}
     \/ scope = "bulk" /\ Bulk(queue) /\ ids = Filtered \cap checked

(* A defect: the reason of the prompt before is still in the box. *)
TriggerKeepsReason(a, ids, scope) ==
  /\ a \in QueueActions(queue) /\ call = NoCall /\ Asked(ids, scope)
  /\ \/ /\ RequiresReason(a)
        /\ prompt' = [action |-> a, ids |-> ids, scope |-> scope]
        /\ UNCHANGED <<call, reason>>
     \/ /\ ~RequiresReason(a) /\ Fire(a, ids, NoReason)
        /\ UNCHANGED <<prompt, reason>>
  /\ UNCHANGED <<contentVars, queue, items, filter, checked, visits>>

Trigger(a, ids, scope) ==
  /\ a \in QueueActions(queue) /\ call = NoCall /\ Asked(ids, scope)
  /\ \/ /\ RequiresReason(a)
        /\ prompt' = [action |-> a, ids |-> ids, scope |-> scope] /\ reason' = NoReason
        /\ UNCHANGED call
     \/ /\ ~RequiresReason(a) /\ Fire(a, ids, NoReason)
        /\ UNCHANGED <<prompt, reason>>
  /\ UNCHANGED <<contentVars, queue, items, filter, checked, visits>>

(* A row's prompt is drawn in its row: the filter can take it from sight. *)
ReasonPrompt == prompt # NoPrompt /\ (prompt.scope = "row" => prompt.ids \subseteq Filtered)

TypeReason ==
  /\ ReasonPrompt
  /\ reason' = [action |-> prompt.action, about |-> prompt.ids]
  /\ UNCHANGED <<contentVars, queue, items, filter, checked, prompt, call, visits>>

Cancel ==
  /\ ReasonPrompt /\ call = NoCall /\ prompt' = NoPrompt
  /\ UNCHANGED <<contentVars, queue, items, filter, checked, reason, call, visits>>

Confirm ==
  /\ ReasonPrompt /\ call = NoCall /\ reason # NoReason
  /\ Fire(prompt.action, prompt.ids, reason)
  /\ UNCHANGED <<contentVars, queue, items, filter, checked, prompt, reason, visits>>

-----------------------------------------------------------------------------
(* The server action: one command after the other. *)

RunCommand(c) ==
  /\ call # NoCall /\ c \in call.rest
  /\ \/ /\ Decide(call.action, c)
        /\ Cardinality(log) < MaxEntries
        /\ IF call.action = "dismiss" THEN UNCHANGED log
           ELSE LogModAction(call.action, c, call.reason)
        /\ UNCHANGED <<purged, others>>
        /\ call' = [call EXCEPT !.rest = @ \ {c}, !.done = @ \cup {c}]
     \/ /\ ~Found(call.action, c)
        /\ call' = [call EXCEPT !.rest = @ \ {c}]
        /\ UNCHANGED contentVars
  /\ UNCHANGED <<queue, items, filter, checked, prompt, reason, visits>>

(* A command throws: what is done stays done, the answer names none of it. *)
CommandThrows ==
  /\ call # NoCall /\ call.rest # {} /\ call' = NoCall
  /\ UNCHANGED <<contentVars, queue, items, filter, checked, prompt, reason, visits>>

Processed ==
  /\ call # NoCall /\ call.rest = {} /\ call' = NoCall
  /\ items' = items \ call.done /\ checked' = checked \ call.done
  /\ prompt' = NoPrompt
  /\ UNCHANGED <<contentVars, queue, filter, reason, visits>>

-----------------------------------------------------------------------------
(* Everybody else. *)

OthersStep == others < MaxOthers /\ others' = others + 1

OtherModerator(a, c) ==
  /\ OthersStep /\ Decide(a, c)
  /\ UNCHANGED <<log, purged, screenVars>>

ReaderFlags(c) ==
  /\ OthersStep
  /\ status[c] = "active" /\ c \notin flagged /\ flagged' = flagged \cup {c}
  /\ UNCHANGED <<status, purged, log, screenVars>>

AuthorDeletes(c) ==
  /\ OthersStep
  /\ status[c] = "active" /\ status' = [status EXCEPT ![c] = "deleted"]
  /\ UNCHANGED <<purged, flagged, log, screenVars>>

PurgePii(c) ==
  /\ OthersStep
  /\ status[c] = "deleted" /\ c \notin purged /\ purged' = purged \cup {c}
  /\ UNCHANGED <<status, flagged, log, screenVars>>

QueueNext ==
  \/ \E q \in QueueIds : QueuePage(q)
  \/ \E f \in Filters : SetFilter(f)
  \/ \E c \in Moderated : Toggle(c)
  \/ ToggleAll
  \/ \E a \in QueueActions(queue), ids \in SUBSET Moderated, s \in {"row", "bulk"} : Trigger(a, ids, s)
  \/ TypeReason \/ Cancel \/ Confirm
  \/ \E c \in Moderated : RunCommand(c)
  \/ CommandThrows \/ Processed
  \/ \E q \in QueueIds, c \in Moderated : \E a \in QueueActions(q) : OtherModerator(a, c)
  \/ \E c \in Moderated : ReaderFlags(c) \/ AuthorDeletes(c) \/ PurgePii(c)

QueueSpec == QueueInit /\ [][QueueNext]_queueVars

-----------------------------------------------------------------------------
(* Every removal is justified: a rejection or a hiding in the audit log    *)
(* carries a reason somebody typed when asked about that action on that    *)
(* content (queue-config.ts), and what is hidden leaves no open flag       *)
(* behind, although prompts are cancelled and reopened, rows filtered      *)
(* away, batches fail half way and another moderator works on the same     *)
(* rows.                                                                   *)
RemovalsAreJustified ==
  /\ \A e \in log : RequiresReason(e.action) =>
       /\ e.reason # NoReason
       /\ e.reason.action = e.action
       /\ e.target \in e.reason.about
  /\ \A c \in flagged : status[c] # "hidden"
=============================================================================
