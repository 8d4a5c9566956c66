------------------------------ MODULE ReportPeek ------------------------------
(***************************************************************************)
(* The cached body of one report in the triage pane: reads that fill the   *)
(* cache query by query, changes of the report that bust its tag or do     *)
(* not, and the hour after which a body may be rebuilt.                    *)
(*                                                                         *)
(* The report is its status, the edition of its content and the edition of  *)
(* its byline.  updateReport deletes the rounds and inserts new ones, so   *)
(* questions read after an edit belong to no round read before it: such a  *)
(* body has rounds and no questions.  Next's data cache is external: it    *)
(* keeps what a load returned, null too, from the moment the load ends; a  *)
(* tag forgets what is kept, not what is being loaded; a body past its     *)
(* hour is served once more while one read rebuilds it.  The likes and the *)
(* comment count beside the body are read live at every request and are    *)
(* not kept here.                                                          *)
(***************************************************************************)
EXTENDS Naturals

CONSTANTS
  Panes,       \* reads that may be under way
  OwnerRequests,      \* finalize and delete requests that may be under way
  MaxEditions  \* bound: the editions of the content and of the byline, together

ASSUME EditionsAssumption == MaxEditions \in Nat \ {0}

Editions == 0 .. MaxEditions

VARIABLES
  shown,     \* the report: status, content, byline
  owed,      \* requests that have committed a change and not yet bust the tag
  body,      \* what the cache holds, or Uncached
  hourUp,    \* it is past its hour
  reading,   \* reading[p]: the query pane p's load is at
  loaded,    \* loaded[p]: what it has read so far
  spoilt,    \* why what the cache holds may be out of date
  crossed    \* loads that a change has overtaken

peekVars == <<shown, owed, body, hourUp, reading, loaded, spoilt, crossed>>

NotFound == [content |-> 0, rounds |-> 0, questions |-> 0, byline |-> 0, found |-> FALSE]
Uncached == [NotFound EXCEPT !.rounds = MaxEditions + 1]
Bodies == [content : Editions, rounds : Editions, questions : Editions,
           byline : Editions, found : BOOLEAN] \cup {Uncached}

PeekTypeOK ==
  /\ shown \in [status : {"pending", "active", "hidden", "deleted"}, content : Editions, byline : Editions]
  /\ owed \in SUBSET OwnerRequests
  /\ body \in Bodies /\ hourUp \in BOOLEAN
  /\ reading \in [Panes -> {"idle", "rounds", "questions", "author", "keep"}]
  /\ loaded \in [Panes -> Bodies]
  /\ spoilt \in SUBSET {"overtaken", "untagged", "died"}
  /\ crossed \in SUBSET Panes

PeekInit ==
  /\ shown \in [status : {"pending", "active"}, content : {1}, byline : {1}]
  /\ owed = {} /\ body = Uncached /\ hourUp = FALSE
  /\ reading = [p \in Panes |-> "idle"]
  /\ loaded = [p \in Panes |-> NotFound]
  /\ spoilt = {} /\ crossed = {}

\* What the public page shows at this moment, the byline included.
PublicBody ==
  IF shown.status = "active"
  THEN [content |-> shown.content, rounds |-> shown.content, questions |-> shown.content,
        byline |-> shown.byline, found |-> TRUE]
  ELSE NotFound

Loading == {p \in Panes : reading[p] # "idle"}

-----------------------------------------------------------------------------
(* Reads.                                                                  *)

ReadHead(p) ==
  IF shown.status = "active"
  THEN /\ reading' = [reading EXCEPT ![p] = "rounds"]
       /\ loaded' = [loaded EXCEPT ![p] = [NotFound EXCEPT !.content = shown.content, !.found = TRUE]]
  ELSE /\ reading' = [reading EXCEPT ![p] = "keep"]
       /\ loaded' = [loaded EXCEPT ![p] = NotFound]

\* A hit reads nothing; a body past its hour is served and rebuilt.
OpenPane(p) ==
  /\ reading[p] = "idle"
  /\ body = Uncached \/ hourUp
  /\ ReadHead(p)
  /\ UNCHANGED <<shown, owed, body, hourUp, spoilt, crossed>>

ReadRounds(p) ==
  /\ reading[p] = "rounds"
  /\ loaded' = [loaded EXCEPT ![p].rounds = shown.content]
  /\ reading' = [reading EXCEPT ![p] = "questions"]
  /\ UNCHANGED <<shown, owed, body, hourUp, spoilt, crossed>>

\* Folded by the round's id: the questions of other rounds find no place.
ReadQuestions(p) ==
  /\ reading[p] = "questions"
  /\ loaded' = [loaded EXCEPT ![p].questions =
                  IF loaded[p].rounds = shown.content THEN shown.content ELSE 0]
  /\ reading' = [reading EXCEPT ![p] = "author"]
  /\ UNCHANGED <<shown, owed, body, hourUp, spoilt, crossed>>

ReadAuthor(p) ==
  /\ reading[p] = "author"
  /\ loaded' = [loaded EXCEPT ![p].byline = shown.byline]
  /\ reading' = [reading EXCEPT ![p] = "keep"]
  /\ UNCHANGED <<shown, owed, body, hourUp, spoilt, crossed>>

KeepBody(p) ==
  /\ reading[p] = "keep"
  /\ body' = loaded[p]
  /\ hourUp' = FALSE
  /\ spoilt' = IF p \in crossed THEN {"overtaken"} ELSE {}
  /\ reading' = [reading EXCEPT ![p] = "idle"]
  /\ loaded' = [loaded EXCEPT ![p] = NotFound]
  /\ crossed' = crossed \ {p}
  /\ UNCHANGED <<shown, owed>>

HourPasses ==
  /\ body # Uncached /\ ~hourUp
  /\ hourUp' = TRUE
  /\ UNCHANGED <<shown, owed, body, reading, loaded, spoilt, crossed>>

PaneReads ==
  \/ \E p \in Panes :
       OpenPane(p) \/ ReadRounds(p) \/ ReadQuestions(p) \/ ReadAuthor(p) \/ KeepBody(p)
  \/ HourPasses

-----------------------------------------------------------------------------
(* Changes.                                                                *)

Change(next) ==
  /\ shown' = next
  /\ crossed' = crossed \cup Loading
  /\ UNCHANGED <<body, hourUp, reading, loaded>>

MoreEditions == shown.content + shown.byline < MaxEditions

\* finalizeSubmissionAction with an edit target: updateReport looks at no status.
EditCommits(o) ==
  /\ o \notin owed
  /\ MoreEditions
  /\ Change([shown EXCEPT !.content = @ + 1])
  /\ owed' = owed \cup {o}
  /\ UNCHANGED spoilt

\* A defect: the deletion leaves the cache alone.
DeleteForgetsTag(o) ==
  /\ o \notin owed
  /\ shown.status # "deleted"
  /\ Change([shown EXCEPT !.status = "deleted"])
  /\ UNCHANGED <<owed, spoilt>>

DeleteCommits(o) ==
  /\ o \notin owed
  /\ shown.status # "deleted"
  /\ Change([shown EXCEPT !.status = "deleted"])
  /\ owed' = owed \cup {o}
  /\ UNCHANGED spoilt

RevalidateTag(o) ==
  /\ o \in owed
  /\ owed' = owed \ {o}
  /\ body' = Uncached /\ hourUp' = FALSE /\ spoilt' = {}
  /\ UNCHANGED <<shown, reading, loaded, crossed>>

\* The process is gone after the commit.
DieUntagged(o) ==
  /\ o \in owed
  /\ owed' = owed \ {o}
  /\ spoilt' = spoilt \cup {"died"}
  /\ UNCHANGED <<shown, body, hourUp, reading, loaded, crossed>>

Untagged(next) ==
  /\ Change(next)
  /\ spoilt' = spoilt \cup {"untagged"}
  /\ UNCHANGED owed

\* Moderators approve, hide and restore; an account is deleted.
SetStatusUntagged ==
  \E move \in {<<"pending", "active">>, <<"active", "hidden">>, <<"hidden", "active">>,
               <<"deleted", "active">>, <<"active", "deleted">>} :
    /\ shown.status = move[1]
    /\ Untagged([shown EXCEPT !.status = move[2]])

RenameAuthor ==
  /\ MoreEditions
  /\ Untagged([shown EXCEPT !.byline = @ + 1])

PeekNext ==
  \/ PaneReads
  \/ \E o \in OwnerRequests : EditCommits(o) \/ DeleteCommits(o) \/ RevalidateTag(o) \/ DieUntagged(o)
  \/ SetStatusUntagged
  \/ RenameAuthor

PeekSpec == PeekInit /\ [][PeekNext]_peekVars

-----------------------------------------------------------------------------

\* report-detail-cache.ts:18: the cached body turns over in lockstep with the
\* edits and the deletion.  What the pane is served is what the public page shows,
\* not a torn body or a deleted report, unless a request has yet to bust the tag
\* or died before it, the body was loaded while a change went by, or a change
\* without a tag (moderation, the account's deletion, a new name) came since.
ServedIsPublic ==
  body # Uncached /\ owed = {} /\ spoilt = {} => body = PublicBody

=============================================================================
