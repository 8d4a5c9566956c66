--------------------------------- MODULE Likes ---------------------------------
(***************************************************************************)
(* Likes on a report and on its comments: togglePostLikeAction and         *)
(* toggleCommentLikeAction, query by query.  No transaction holds a toggle *)
(* together; what keeps it right is one unique row per (target, user).     *)
(*                                                                         *)
(* recomputeUserKarma, which a toggle on a comment awaits, is one step     *)
(* here (KarmaWorker takes it apart) and counts the likes alone.           *)
(***************************************************************************)
EXTENDS Naturals, FiniteSets, Functions

CONSTANTS
  Post,        \* the report
  Replies,     \* its comments
  OwnerOf,     \* OwnerOf[x]: the author of x
  Fans,        \* users who toggle
  Toggles,     \* toggle calls that may be under way
  FanOf,       \* FanOf[t]: the viewer call t resolved
  DayCap,      \* COMMENT_LIKE_KARMA_PER_COMMENT_DAILY_CAP
  AuthorDayCap \* COMMENT_LIKE_KARMA_DAILY_CAP

Likeable == Replies \cup {Post}
Owners == {OwnerOf[x] : x \in Replies}

ASSUME PostAssumption == Post \notin Replies
ASSUME LikesAssumption == IsFiniteSet(Replies) /\ IsFiniteSet(Fans)
ASSUME FanAssumption == FanOf \in [Toggles -> Fans]
ASSUME DayCapAssumption == DayCap \in Nat /\ AuthorDayCap \in Nat

VARIABLES
  up,          \* what is there to be liked: the report unless deleted, active comments
  liked,       \* post_likes and comment_likes: pairs of a target and a user
  likeKarma,   \* likeKarma[u]: what u's stored karma owes to likes
  toggleStep,  \* toggleStep[t]: the query call t is at
  toggled,     \* toggled[t]: its target
  drifted      \* owners one of whose comments came or went since their last recompute

likeVars == <<up, liked, likeKarma, toggleStep, toggled, drifted>>

LikesTypeOK ==
  /\ up \in SUBSET Likeable
  /\ liked \in SUBSET (Likeable \X Fans)
  /\ \A x \in Likeable : <<x, OwnerOf[x]>> \notin liked
  /\ likeKarma \in [Owners -> 0 .. AuthorDayCap]
  /\ toggleStep \in [Toggles -> {"idle", "has", "check", "insert", "delete", "karma", "count"}]
  /\ toggled \in [Toggles -> Likeable]
  /\ drifted \in SUBSET Owners

LikersOf(x) == {u \in Fans : <<x, u>> \in liked}

CountLikes(x) == Cardinality(LikersOf(x))

AtMost(n, cap) == IF n < cap THEN n ELSE cap

\* The likes that count: those on the active comments of u.
EarnedByLikes(u) ==
  LET mine == {c \in Replies \cap up : OwnerOf[c] = u}
  IN  AtMost(SumFunction([c \in mine |-> AtMost(CountLikes(c), DayCap)]), AuthorDayCap)

\* The users who make no call here may like anything that is not theirs.
Bystanders == {p \in Likeable \X (Fans \ {FanOf[t] : t \in Toggles}) : OwnerOf[p[1]] # p[2]}

LikesInit ==
  /\ up = Likeable
  /\ liked \in SUBSET Bystanders
  /\ likeKarma = [u \in Owners |-> EarnedByLikes(u)]
  /\ toggleStep = [t \in Toggles |-> "idle"]
  /\ toggled = [t \in Toggles |-> Post]
  /\ drifted = {}

-----------------------------------------------------------------------------
(* A toggle.                                                               *)

ToggleTo(t, s) == toggleStep' = [toggleStep EXCEPT ![t] = s]

EndToggle(t) ==
  /\ ToggleTo(t, "idle")
  /\ toggled' = [toggled EXCEPT ![t] = Post]

BeginToggle(t, x) ==
  /\ toggleStep[t] = "idle"
  /\ ToggleTo(t, "has")
  /\ toggled' = [toggled EXCEPT ![t] = x]
  /\ UNCHANGED <<up, liked, likeKarma, drifted>>

HasUserLiked(t) ==
  /\ toggleStep[t] = "has"
  /\ ToggleTo(t, IF <<toggled[t], FanOf[t]>> \in liked THEN "delete" ELSE "check")
  /\ UNCHANGED <<up, liked, likeKarma, toggled, drifted>>

\* A defect: only the target is looked for, not whose it is.
CheckThereOnly(t) ==
  /\ toggleStep[t] = "check"
  /\ IF toggled[t] \in up
     THEN ToggleTo(t, "insert") /\ UNCHANGED toggled
     ELSE EndToggle(t)
  /\ UNCHANGED <<up, liked, likeKarma, drifted>>

\* likePost and likeComment: the target is there, and someone else's.
CheckTarget(t) ==
  /\ toggleStep[t] = "check"
  /\ IF toggled[t] \in up /\ OwnerOf[toggled[t]] # FanOf[t]
     THEN ToggleTo(t, "insert") /\ UNCHANGED toggled
     ELSE EndToggle(t)
  /\ UNCHANGED <<up, liked, likeKarma, drifted>>

AfterWrite(t) == ToggleTo(t, IF toggled[t] = Post THEN "count" ELSE "karma")

InsertLike(t) ==
  /\ toggleStep[t] = "insert"
  /\ liked' = liked \cup {<<toggled[t], FanOf[t]>>}
  /\ AfterWrite(t)
  /\ UNCHANGED <<up, likeKarma, toggled, drifted>>

\* A defect: taking a like back leaves the author's karma alone.
DeleteLikeOnly(t) ==
  /\ toggleStep[t] = "delete"
  /\ liked' = liked \ {<<toggled[t], FanOf[t]>>}
  /\ ToggleTo(t, "count")
  /\ UNCHANGED <<up, likeKarma, toggled, drifted>>

\* A target that is gone may still be unliked.
DeleteLike(t) ==
  /\ toggleStep[t] = "delete"
  /\ liked' = liked \ {<<toggled[t], FanOf[t]>>}
  /\ AfterWrite(t)
  /\ UNCHANGED <<up, likeKarma, toggled, drifted>>

RecomputeLikes(t) ==
  /\ toggleStep[t] = "karma"
  /\ LET u == OwnerOf[toggled[t]] IN
       /\ likeKarma' = [likeKarma EXCEPT ![u] = EarnedByLikes(u)]
       /\ drifted' = drifted \ {u}
  /\ ToggleTo(t, "count")
  /\ UNCHANGED <<up, liked, toggled>>

\* The answer: liked or not, and the count.
AnswerToggle(t) ==
  /\ toggleStep[t] = "count"
  /\ EndToggle(t)
  /\ UNCHANGED <<up, liked, likeKarma, drifted>>

\* A query throws, or the process is gone.
ToggleDies(t) ==
  /\ toggleStep[t] # "idle"
  /\ EndToggle(t)
  /\ drifted' = IF toggleStep[t] = "karma" THEN drifted \cup {OwnerOf[toggled[t]]} ELSE drifted
  /\ UNCHANGED <<up, liked, likeKarma>>

ToggleLike(t) ==
  \/ \E x \in Likeable : BeginToggle(t, x)
  \/ HasUserLiked(t) \/ CheckTarget(t) \/ InsertLike(t) \/ DeleteLike(t)
  \/ RecomputeLikes(t) \/ AnswerToggle(t) \/ ToggleDies(t)

\* Deleted, hidden or restored, by commands that recompute nothing.
ComesOrGoes(x) ==
  /\ up' = IF x \in up THEN up \ {x} ELSE up \cup {x}
  /\ drifted' = IF x = Post THEN drifted ELSE drifted \cup {OwnerOf[x]}
  /\ UNCHANGED <<liked, likeKarma, toggleStep, toggled>>

LikesNext ==
  \/ \E t \in Toggles : ToggleLike(t)
  \/ \E x \in Likeable : ComesOrGoes(x)

LikesSpec == LikesInit /\ [][LikesNext]_likeVars

-----------------------------------------------------------------------------

\* likes.ts:3, 107: every like and unlike of a comment ends in a recompute of
\* its author.  Whatever toggles interleave, once none of them is short of its
\* recompute the stored karma is what the likes earn, until a comment of the
\* author comes or goes or a request dies before its recompute.
LikeKarmaIsEarned ==
  \A u \in Owners \ drifted :
    (\A t \in Toggles : toggleStep[t] = "karma" => OwnerOf[toggled[t]] # u)
      => likeKarma[u] = EarnedByLikes(u)

=============================================================================
