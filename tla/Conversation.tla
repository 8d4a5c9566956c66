----------------------------- MODULE Conversation -----------------------------
(***************************************************************************)
(* The comments thread of a report as its reader sees it                   *)
(* (comments-section.tsx, comment-item.tsx): the list, its order, its      *)
(* paging and the composer, over the comments the server keeps             *)
(* (Comments.tla).  On the report's page the first page comes with the     *)
(* page; in the triage pane the thread starts collapsed and loads when it  *)
(* is opened.                                                              *)
(*                                                                         *)
(* Server actions of one tab run one at a time, in the order they were     *)
(* called (the framework's; external).  An action's work on the server and *)
(* the arrival of its answer are one step: what others change between the  *)
(* two is as if they changed it after.                                     *)
(***************************************************************************)
EXTENDS Naturals, SequencesExt

CONSTANTS
  Begun,       \* who wrote the comments there are when the page is loaded
  ThreadPage,  \* COMMENTS_PAGE_SIZE
  MaxThread,   \* bound: comments of the report
  MaxLikes,    \* bound: likes of one comment
  MaxOut,      \* bound: outgoing waiting
  MaxOthersDo  \* bound: what others do to the thread

Authors == {"me", "other"}

ASSUME ThreadAssumption ==
  /\ ThreadPage \in Nat \ {0}
  /\ Begun \in Seq(Authors) /\ MaxThread \in Nat /\ Len(Begun) <= MaxThread
  /\ MaxLikes \in Nat /\ MaxOthersDo \in Nat

Sorts == {"newest", "top"}

VARIABLES
  thread, likes,                            \* the server's
  othersDid,                                \* steps of others, so far
  collapsed, loadedOnce, comments, hasMore, sort, target,
  outgoing,       \* server actions called and not answered, first called first
  drift,       \* the thread changed since a first page was last read
  crossed      \* the first page shown was asked for by an edit or a deletion
               \* begun under the other order

serverVars == <<thread, likes, othersDid>>
viewVars == <<collapsed, loadedOnce, comments, hasMore, sort, target>>
ghostVars == <<drift, crossed>>
conversationVars == <<serverVars, viewVars, outgoing, ghostVars>>

T == INSTANCE Comments WITH
  Writers <- Authors, Posts <- {}, WriterOf <- << >>, CommentLimit <- 1,
  PageSize <- ThreadPage, MaxComments <- MaxThread,
  comment <- thread, aged <- 0, postStep <- << >>, replyTo <- << >>

Call(kind, order, offset, id) == [kind |-> kind, sort |-> order, offset |-> offset, id |-> id]

CallRow == [kind : {"load", "post", "delete", "edit"}, sort : Sorts, offset : Nat,
            id : 0..MaxThread]

ConversationTypeOK ==
  /\ thread \in Seq(T!CommentRow) /\ Len(thread) <= MaxThread
  /\ likes \in [1..MaxThread -> 0..MaxLikes]
  /\ collapsed \in BOOLEAN /\ loadedOnce \in BOOLEAN /\ hasMore \in BOOLEAN
  /\ sort \in Sorts /\ target \in 0..MaxThread
  /\ comments \in Seq(DOMAIN thread) /\ outgoing \in Seq(CallRow)
  /\ drift \in BOOLEAN /\ crossed \in BOOLEAN /\ othersDid \in 0..MaxOthersDo

ConversationInit ==
  /\ thread = [c \in DOMAIN Begun |-> [author |-> Begun[c], parent |-> 0, status |-> "active"]]
  /\ likes = [c \in 1..MaxThread |-> 0]
  /\ sort = "newest" /\ target = 0
  /\ LET first == T!LoadComments(sort, likes, 0) IN
     \/ collapsed = FALSE /\ loadedOnce = TRUE /\ comments = first.page /\ hasMore = first.hasMore
     \/ collapsed = TRUE /\ loadedOnce = FALSE /\ comments = << >> /\ hasMore = FALSE
  /\ outgoing = << >> /\ drift = FALSE /\ crossed = FALSE /\ othersDid = 0

(* useTransition of the section: a page or a post is out. *)
Pending == \E i \in DOMAIN outgoing : outgoing[i].kind \in {"load", "post"}

Ask(call) == Len(outgoing) < MaxOut /\ outgoing' = Append(outgoing, call)

FetchPage(order, offset) == Ask(Call("load", order, offset, 0))

-----------------------------------------------------------------------------
(* The reader. *)

Expand ==
  /\ collapsed /\ collapsed' = FALSE
  /\ IF loadedOnce THEN UNCHANGED outgoing ELSE FetchPage(sort, 0)
  /\ UNCHANGED <<serverVars, loadedOnce, comments, hasMore, sort, target, ghostVars>>

ChangeSort(next) ==
  /\ ~collapsed /\ Len(comments) > 1 /\ next # sort
  /\ sort' = next /\ FetchPage(next, 0)
  /\ UNCHANGED <<serverVars, collapsed, loadedOnce, comments, hasMore, target, ghostVars>>

LoadMore ==
  /\ ~collapsed /\ hasMore /\ ~Pending
  /\ FetchPage(sort, Len(comments))
  /\ UNCHANGED <<serverVars, viewVars, ghostVars>>

Reply(c) ==
  /\ ~collapsed /\ c \in ToSet(comments) /\ target' = c
  /\ UNCHANGED <<serverVars, collapsed, loadedOnce, comments, hasMore, sort, outgoing, ghostVars>>

Submit ==
  /\ ~collapsed /\ ~Pending
  /\ Ask(Call("post", "newest", 0, target))
  /\ UNCHANGED <<serverVars, viewVars, ghostVars>>

(* Saving an edit, or deleting: the row is the reader's own.  What follows *)
(* the answer is the refresh of the render that was on the screen: its     *)
(* order is kept here.                                                     *)
Change(kind, c) ==
  /\ ~collapsed /\ c \in ToSet(comments) /\ thread[c].author = "me"
  /\ Ask(Call(kind, sort, 0, c))
  /\ UNCHANGED <<serverVars, viewVars, ghostVars>>

-----------------------------------------------------------------------------
(* Answers, the first call's first. *)

FirstOut(kind) == outgoing # << >> /\ Head(outgoing).kind = kind

LoadAnswers ==
  /\ FirstOut("load")
  /\ LET call == Head(outgoing)
         res == T!LoadComments(call.sort, likes, call.offset)
     IN /\ comments' = IF call.offset = 0 THEN res.page ELSE comments \o res.page
        /\ hasMore' = res.hasMore /\ loadedOnce' = TRUE
        /\ IF call.offset = 0
             THEN drift' = FALSE /\ crossed' = (call.id # 0 /\ call.sort # sort)
             ELSE UNCHANGED ghostVars
  /\ outgoing' = Tail(outgoing)
  /\ UNCHANGED <<serverVars, collapsed, sort, target>>

Posted(row) == Len(thread) < MaxThread /\ thread' = Append(thread, row) /\ drift' = TRUE

(* A defect: the page is loaded again, the order on the screen stays. *)
PostAnswersInPlace ==
  /\ FirstOut("post")
  /\ LET to == Head(outgoing).id IN
     \/ /\ to \in T!ActiveComments \cup {0}
        /\ Posted([author |-> "me", parent |-> to, status |-> "active"])
        /\ target' = 0
        /\ outgoing' = Append(Tail(outgoing), Call("load", "newest", 0, 0))
        /\ UNCHANGED sort
     \/ /\ to \notin T!ActiveComments \cup {0}
        /\ outgoing' = Tail(outgoing) /\ UNCHANGED <<thread, sort, target, drift>>
  /\ UNCHANGED <<likes, othersDid, collapsed, loadedOnce, comments, hasMore, crossed>>

PostAnswers ==
  /\ FirstOut("post")
  /\ LET to == Head(outgoing).id IN
     \/ /\ to \in T!ActiveComments \cup {0}
        /\ Posted([author |-> "me", parent |-> to, status |-> "active"])
        /\ target' = 0 /\ sort' = "newest"
        /\ outgoing' = Append(Tail(outgoing), Call("load", "newest", 0, 0))
     \/ /\ to \notin T!ActiveComments \cup {0}
        /\ outgoing' = Tail(outgoing) /\ UNCHANGED <<thread, sort, target, drift>>
  /\ UNCHANGED <<likes, othersDid, collapsed, loadedOnce, comments, hasMore, crossed>>

(* The refresh that follows is a first page with the order of the click. *)
ChangeAnswers ==
  /\ \E kind \in {"delete", "edit"} : FirstOut(kind)
  /\ LET call == Head(outgoing) IN
     IF call.id \in T!EditableBy("me")
       THEN /\ IF call.kind = "delete"
                 THEN thread' = [thread EXCEPT ![call.id].status = "deleted"] /\ drift' = TRUE
                 ELSE UNCHANGED <<thread, drift>>
            /\ outgoing' = Append(Tail(outgoing), Call("load", call.sort, 0, call.id))
       ELSE outgoing' = Tail(outgoing) /\ UNCHANGED <<thread, drift>>
  /\ UNCHANGED <<likes, othersDid, viewVars, crossed>>

-----------------------------------------------------------------------------
(* Other readers, and likes, the reader's own among them. *)

OthersDo == othersDid < MaxOthersDo /\ othersDid' = othersDid + 1

OtherPosts ==
  /\ OthersDo
  /\ \E to \in T!ActiveComments \cup {0} :
       Posted([author |-> "other", parent |-> to, status |-> "active"])
  /\ UNCHANGED <<likes, viewVars, outgoing, crossed>>

OtherRemoves(c) ==
  /\ OthersDo
  /\ c \in T!ActiveComments /\ drift' = TRUE
  /\ thread' = [thread EXCEPT ![c].status = "hidden"]
  /\ UNCHANGED <<likes, viewVars, outgoing, crossed>>

LikeMoves(c) ==
  /\ OthersDo
  /\ c \in T!ActiveComments /\ drift' = TRUE
  /\ \E n \in {likes[c] + 1, likes[c] - 1} : n \in 0..MaxLikes /\ likes' = [likes EXCEPT ![c] = n]
  /\ UNCHANGED <<thread, viewVars, outgoing, crossed>>

ConversationNext ==
  \/ Expand \/ LoadMore \/ Submit
  \/ \E s \in Sorts : ChangeSort(s)
  \/ \E c \in DOMAIN thread : Reply(c) \/ Change("edit", c) \/ Change("delete", c)
  \/ LoadAnswers \/ PostAnswers \/ ChangeAnswers
  \/ OtherPosts
  \/ \E c \in DOMAIN thread : OtherRemoves(c) \/ LikeMoves(c)

ConversationSpec == ConversationInit /\ [][ConversationNext]_conversationVars

-----------------------------------------------------------------------------
(* The thread on the screen is the server's listing in the order its tab   *)
(* says, from the first comment on, none twice and none skipped, and "Load *)
(* more" is there exactly while more is (comments-section.tsx).  While     *)
(* answers are out or after others changed the thread it may lag; and the  *)
(* list an edit or a deletion asks for under the order of its click may    *)
(* stay under the other tab (README).                                      *)
ThreadIsTheListing ==
  (outgoing = << >> /\ loadedOnce /\ ~drift /\ ~crossed) =>
    LET list == T!ListCommentsForReport(sort, likes) IN
    IsPrefix(comments, list) /\ hasMore = (Len(list) > Len(comments))
=============================================================================
