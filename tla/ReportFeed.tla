------------------------------ MODULE ReportFeed ------------------------------
(***************************************************************************)
(* What the report store promises the consumers of its outbox: an abstract *)
(* producer.  A report is either hidden or publicly visible with a cell    *)
(* and a body; whenever what a reader may see of it changes, the same step *)
(* appends an event for every cell that gained or lost it.  The exception  *)
(* is a report a moderator brings back from the soft-delete queue: it      *)
(* reappears with no event, and may lose its prose with none if a purge    *)
(* was already at work on it.  It is remembered in unannounced.            *)
(*                                                                         *)
(* ReportStore is shown to implement this module, and the consumers are    *)
(* composed with it instead of with the whole store.                       *)
(***************************************************************************)
EXTENDS Outbox

CONSTANTS
  Bodies,     \* what a report says: outcome, rounds, questions, topics
  Written,    \* those an author can write
  Blank,      \* the body of a report whose prose was purged
  Hidden      \* stands for a report the public cannot see

Visible == [cell : Cells, body : Bodies]

ASSUME BlankAssumption == Blank \in Bodies
ASSUME WrittenAssumption == Written \subseteq Bodies
ASSUME HiddenAssumption == Hidden \notin Visible

VARIABLES
  content,      \* content[r]: the visible row of r, or Hidden
  unannounced   \* reports that reappeared without an event

feedVars == <<content, unannounced, log, pending>>

FeedTypeOK ==
  /\ OutboxTypeOK
  /\ content \in [Reports -> Visible \cup {Hidden}]
  /\ unannounced \in SUBSET Reports

FeedInit ==
  /\ OutboxInit
  /\ content = [r \in Reports |-> Hidden]
  /\ unannounced = {}

-----------------------------------------------------------------------------

\* A 'deleted' event has been written for r.
Ended(r) == \E n \in 1 .. Len(log[r]) : log[r][n].op = "deleted"

\* r was submitted and is not deleted: it is on hold, rejected or visible.  A
\* report that was deleted once is not, unless it was restored.
Kept(r) == log[r] # << >> /\ (Ended(r) => content[r] # Hidden)

\* The events of an edit: the cell written, and the cell vacated if it moved.
EditEntries(old, new) ==
  IF old = new THEN <<Entry("updated", new)>>
               ELSE <<Entry("updated", new), Entry("updated", old)>>

\* The first event of a report is its creation, and no other event is.
Opening(r, op) == op = "created" <=> log[r] = << >>

\* r becomes visible: created as active, or released from the hold.
Show(r, op, c, b) ==
  /\ content[r] = Hidden
  /\ ~ Ended(r)
  /\ Opening(r, op)
  /\ content' = [content EXCEPT ![r] = [cell |-> c, body |-> b]]
  /\ EmitReportEvent(On(r, <<Entry(op, c)>>))
  /\ UNCHANGED unannounced

\* The author rewrites a visible report, in its cell or into another one.
Rewrite(r, c, b) ==
  /\ content[r] # Hidden
  /\ content' = [content EXCEPT ![r] = [cell |-> c, body |-> b]]
  /\ EmitReportEvent(On(r, EditEntries(content[r].cell, c)))
  /\ UNCHANGED unannounced

\* The reports of D are deleted, each with an event for its cell at[r]; once,
\* unless it was restored in between.
Withdraw(D, at) ==
  /\ \A r \in D : log[r] # << >> /\ (~ Ended(r) \/ r \in unannounced)
  /\ \A r \in D : content[r] # Hidden => content[r].cell = at[r]
  /\ content' = [r \in Reports |-> IF r \in D THEN Hidden ELSE content[r]]
  /\ EmitReportEvent([r \in Reports |->
       IF r \in D THEN <<Entry("deleted", at[r])>> ELSE << >>])
  /\ UNCHANGED unannounced

\* Something happened to a report nobody can see: it was submitted for
\* moderation, or its author edited it there.
Murmur(r, op, entries) ==
  /\ content[r] = Hidden
  /\ Opening(r, op)
  /\ EmitReportEvent(On(r, entries))
  /\ UNCHANGED <<content, unannounced>>

\* A deleted report is restored; no event is written.
Reappear(r, c, b) ==
  /\ content[r] = Hidden
  /\ Ended(r)
  /\ content' = [content EXCEPT ![r] = [cell |-> c, body |-> b]]
  /\ unannounced' = unannounced \cup {r}
  /\ UNCHANGED <<log, pending>>

\* A purge that selected the reports of D before they were restored clears
\* their prose.
Fade(D) ==
  /\ \A r \in D : r \in unannounced /\ content[r] # Hidden
  /\ content' = [r \in Reports |->
       IF r \in D THEN [content[r] EXCEPT !.body = Blank] ELSE content[r]]
  /\ UNCHANGED <<log, pending, unannounced>>

Produce ==
  \/ \E r \in Reports, op \in {"created", "updated"}, c \in Cells, b \in Written :
       Show(r, op, c, b)
  \/ \E r \in Reports, c \in Cells, b \in Written : Rewrite(r, c, b)
  \/ \E D \in (SUBSET Reports) \ {{}} : \E at \in [D -> Cells] : Withdraw(D, at)
  \/ \E r \in Reports, c \in Cells : Murmur(r, "created", <<Entry("created", c)>>)
  \/ \E r \in Reports, old \in Cells, new \in Cells :
       Murmur(r, "updated", EditEntries(old, new))
  \/ \E r \in Reports, c \in Cells, b \in Written : Reappear(r, c, b)
  \/ \E D \in (SUBSET Reports) \ {{}} : Fade(D)

\* A consumer stamps one of the events it owes.
Acknowledge ==
  /\ \E k \in Consumers : \E e \in pending[k] : MarkEventProcessed(k, e)
  /\ UNCHANGED <<content, unannounced>>

FeedNext == Produce \/ Acknowledge

FeedSpec == FeedInit /\ [][FeedNext]_feedVars

=============================================================================
