------------------------------- MODULE Comments -------------------------------
(***************************************************************************)
(* The comments of one report: the statements of createComment, the edits  *)
(* and deletions of their author, the moderators' hide and restore, and    *)
(* what the listing of the report shows.                                   *)
(*                                                                         *)
(* createComment runs in no transaction.  Each of its checks is a query,   *)
(* and the rows it read may have changed when the insert comes.  A comment *)
(* is the number of comments before it: created_at orders them that way.   *)
(***************************************************************************)
EXTENDS Naturals, Sequences, FiniteSets

CONSTANTS
  Writers,       \* users who comment
  Posts,         \* createComment calls that may be under way
  WriterOf,      \* WriterOf[q]: the viewer call q resolved
  CommentLimit,  \* COMMENT_RATE_LIMIT
  PageSize,      \* COMMENTS_PAGE_SIZE
  MaxComments    \* bound: rows

ASSUME WriterAssumption == WriterOf \in [Posts -> Writers] /\ IsFiniteSet(Posts)
ASSUME CommentLimitAssumption == CommentLimit \in Nat \ {0} /\ PageSize \in Nat \ {0}
ASSUME MaxCommentsAssumption == MaxComments \in Nat

VARIABLES
  comment,     \* the rows, oldest first
  aged,        \* comments older than COMMENT_WINDOW_MS: the first so many
  postStep,    \* postStep[q]: the check call q is at
  replyTo      \* replyTo[q]: the comment it answers; 0: none

commentVars == <<comment, aged, postStep, replyTo>>

CommentRow == [author : Writers, parent : 0 .. MaxComments,
               status : {"active", "hidden", "deleted"}]

CommentsTypeOK ==
  /\ comment \in Seq(CommentRow) /\ Len(comment) <= MaxComments
  /\ aged \in 0 .. Len(comment)
  /\ postStep \in [Posts -> {"idle", "report", "rate", "reply", "insert"}]
  /\ replyTo \in [Posts -> 0 .. MaxComments]

CommentsInit ==
  /\ comment = << >>
  /\ aged = 0
  /\ postStep = [q \in Posts |-> "idle"]
  /\ replyTo = [q \in Posts |-> 0]

ActiveComments == {c \in DOMAIN comment : comment[c].status = "active"}

-----------------------------------------------------------------------------
(* What readers get.                                                       *)

\* A defect: comments that are gone are left out, answered or not.
ActiveOnly == ActiveComments

\* Active comments, and others that an active comment answers.
Listed == {c \in DOMAIN comment : \/ comment[c].status = "active"
                                 \/ \E d \in ActiveComments : comment[d].parent = c}

\* likes[c]: how many like c.
ComesBefore(sort, likes, c, d) ==
  IF sort = "top" /\ likes[c] # likes[d] THEN likes[c] > likes[d] ELSE c > d

ListCommentsForReport(sort, likes) ==
  CHOOSE s \in [1 .. Cardinality(Listed) -> Listed] :
    \A i, j \in DOMAIN s : i < j => ComesBefore(sort, likes, s[i], s[j])

\* LIMIT and OFFSET.
Slice(s, offset, limit) ==
  SubSeq(s, offset + 1, IF offset + limit < Len(s) THEN offset + limit ELSE Len(s))

\* One more than a page is read, to know whether there is another.
LoadComments(sort, likes, offset) ==
  LET rest == Slice(ListCommentsForReport(sort, likes), offset, PageSize + 1)
  IN  [page |-> Slice(rest, 0, PageSize), hasMore |-> Len(rest) > PageSize]

CountComments == Cardinality(ActiveComments)

\* The snippet of the comment that c answers is shown while that one is active.
ReplySnippet(c) == IF comment[c].parent \in ActiveComments THEN comment[c].parent ELSE 0

-----------------------------------------------------------------------------
(* createComment.                                                          *)

GoTo(q, s) == postStep' = [postStep EXCEPT ![q] = s]

BeginPost(q) ==
  /\ postStep[q] = "idle"
  /\ \E c \in ActiveComments \cup {0} : replyTo' = [replyTo EXCEPT ![q] = c]
  /\ GoTo(q, "report")
  /\ UNCHANGED <<comment, aged>>

\* The report is active.  When it is not is ReportStore's: at any time, and then
\* the call is refused.
CheckReport(q) ==
  /\ postStep[q] = "report"
  /\ GoTo(q, "rate")
  /\ UNCHANGED <<comment, aged, replyTo>>

\* The comments of the window, whatever became of them.
Recent(u) == {c \in aged + 1 .. Len(comment) : comment[c].author = u}

\* A defect: a comment that was deleted gives its slot back.
ReachedWithActive(u) == Cardinality(Recent(u) \cap ActiveComments) >= CommentLimit

ReachedRateLimit(u) == Cardinality(Recent(u)) >= CommentLimit

CheckRate(q) ==
  /\ postStep[q] = "rate"
  /\ ~ReachedRateLimit(WriterOf[q])
  /\ GoTo(q, "reply")
  /\ UNCHANGED <<comment, aged, replyTo>>

CheckReply(q) ==
  /\ postStep[q] = "reply"
  /\ replyTo[q] \in ActiveComments \cup {0}
  /\ GoTo(q, "insert")
  /\ UNCHANGED <<comment, aged, replyTo>>

\* No check is repeated.
InsertComment(q) ==
  /\ postStep[q] = "insert"
  /\ Len(comment) < MaxComments
  /\ comment' = Append(comment, [author |-> WriterOf[q], parent |-> replyTo[q],
                                 status |-> "active"])
  /\ GoTo(q, "idle")
  /\ replyTo' = [replyTo EXCEPT ![q] = 0]
  /\ UNCHANGED aged

\* A check refuses, a query throws, or the process is gone.
RefusePost(q) ==
  /\ postStep[q] # "idle"
  /\ GoTo(q, "idle")
  /\ replyTo' = [replyTo EXCEPT ![q] = 0]
  /\ UNCHANGED <<comment, aged>>

CreateComment(q) ==
  \/ BeginPost(q) \/ CheckReport(q) \/ CheckRate(q) \/ CheckReply(q)
  \/ InsertComment(q) \/ RefusePost(q)

-----------------------------------------------------------------------------
(* What happens to a comment afterwards.  Every command is one guarded     *)
(* update.  An edit of the body changes nothing that is told apart here,   *)
(* and needs what a deletion needs: EditableBy.                            *)

EditableBy(u) == {c \in ActiveComments : comment[c].author = u}

SetStatus(c, s) == comment' = [comment EXCEPT ![c].status = s]

SoftDeleteComment(c, u) ==
  /\ c \in EditableBy(u)
  /\ SetStatus(c, "deleted")
  /\ UNCHANGED <<aged, postStep, replyTo>>

\* The flags on it are ModQueue's.
HideFlagged(c) ==
  /\ c \in ActiveComments
  /\ SetStatus(c, "hidden")
  /\ UNCHANGED <<aged, postStep, replyTo>>

RestoreComment(c) ==
  /\ c \in DOMAIN comment
  /\ comment[c].status = "deleted"
  /\ SetStatus(c, "active")
  /\ UNCHANGED <<aged, postStep, replyTo>>

CommentAges ==
  /\ aged < Len(comment)
  /\ aged' = aged + 1
  /\ UNCHANGED <<comment, postStep, replyTo>>

CommentsNext ==
  \/ \E q \in Posts : CreateComment(q)
  \/ \E c \in DOMAIN comment :
       \/ \E u \in Writers : SoftDeleteComment(c, u)
       \/ HideFlagged(c) \/ RestoreComment(c)
  \/ CommentAges

CommentsSpec == CommentsInit /\ [][CommentsNext]_commentVars

-----------------------------------------------------------------------------

\* comments.ts:19: an author may post COMMENT_RATE_LIMIT comments a day.  The
\* count and the insert are two queries, so calls that overlap may exceed the
\* cap together; they never exceed it by more than the calls besides one.
CapHoldsButForOverlap ==
  \A u \in Writers :
    LET mine == {q \in Posts : WriterOf[q] = u} IN
    Cardinality(Recent(u)) < CommentLimit + Cardinality(mine)

\* comments.ts:181: a comment that is gone stays in the listing while an active
\* one answers it.  No reader meets a reply whose target is nowhere on the
\* pages, even if the target went between the reply's check and its insert.
NoOrphanReplies ==
  LET listing == ListCommentsForReport("newest", [c \in DOMAIN comment |-> 0]) IN
  \A c \in ActiveComments :
    comment[c].parent # 0 => \E i \in DOMAIN listing : listing[i] = comment[c].parent

=============================================================================
