------------------------------ MODULE MCServer ------------------------------
(* One instance for the components behind the pages that share no state:   *)
(* a behaviour is of one of them, chosen at the start, and the variables   *)
(* of the others keep their initial values.                                *)
EXTENDS Taxonomy, RoleAliases, RateLimit, Comments, Likes, Drafts, Submission,
        ReportPeek, Accounts, TLC

CONSTANTS
  Parts,
  web, inline, sweep, slur, acme, acmeInc, ann, bob, swe, sde, dev, pm,
  p1, p2, t1, t2, report, c1, c2, ca, cb

ASSUME PartsAssumption ==
  Parts \subseteq {"taxonomy", "roles", "fixed", "sliding", "comments", "likes",
                   "drafts", "submission", "peek", "accounts"}

\* The inline check and the sweep are requests of one process.
MCProcessOf == inline :> web @@ sweep :> web

\* Two suggestions whose names nearly agree; one matches the pattern.
MCKindOf == acme :> "company" @@ acmeInc :> "company"
MCTwins == {<<acme, acmeInc>>}
MCSlurs == acme :> {} @@ acmeInc :> {slur}

\* Two aliases of one canonical role, and a role of its own.
MCCanon == sde :> swe @@ dev :> swe @@ pm :> NoRole

\* Both tabs are one writer's, both toggles one fan's.
MCWriterOf == p1 :> ann @@ p2 :> ann
MCOwnerOf == report :> bob @@ c1 :> ann @@ c2 :> ann
MCFanOf == t1 :> bob @@ t2 :> bob

VARIABLE part   \* the component this behaviour is of

mcVars == <<part, taxonomyVars, roleVars, rateVars, commentVars,
                 likeVars, draftVars, submissionVars, peekVars, accountVars>>

\* The types of the module the behaviour is of.
TypeOK ==
  CASE part = "taxonomy" -> TaxonomyTypeOK
    [] part = "roles" -> RoleTypeOK
    [] part \in {"fixed", "sliding"} -> RateTypeOK
    [] part = "comments" -> CommentsTypeOK
    [] part = "likes" -> LikesTypeOK
    [] part = "drafts" -> DraftsTypeOK
    [] part = "submission" -> SubmissionTypeOK
    [] part = "peek" -> PeekTypeOK
    [] part = "accounts" -> AccountsTypeOK

\* Where a module has several initial states, the behaviours of the
\* others begin in one of them.
MCInit ==
  /\ part \in Parts
  /\ TaxonomyInit
  /\ RoleInit
  /\ RateInit
  /\ CommentsInit
  /\ LikesInit
  /\ DraftsInit
  /\ SubmissionInit
  /\ PeekInit
  /\ AccountsInit
  /\ part # "taxonomy" => listed = {}
  /\ part # "likes" => liked = {}
  /\ part # "peek" => shown.status = "active"

TaxonomyStep ==
  /\ part = "taxonomy" /\ TaxonomyNext
  /\ UNCHANGED <<part, roleVars, rateVars, commentVars, likeVars, draftVars,
                 submissionVars, peekVars, accountVars>>

RolesStep ==
  /\ part = "roles" /\ RoleNext
  /\ UNCHANGED <<part, taxonomyVars, rateVars, commentVars, likeVars,
                 draftVars, submissionVars, peekVars, accountVars>>

FixedStep ==
  /\ part = "fixed" /\ FixedNext
  /\ UNCHANGED <<part, taxonomyVars, roleVars, commentVars, likeVars,
                 draftVars, submissionVars, peekVars, accountVars>>

SlidingStep ==
  /\ part = "sliding" /\ SlidingNext
  /\ UNCHANGED <<part, taxonomyVars, roleVars, commentVars, likeVars,
                 draftVars, submissionVars, peekVars, accountVars>>

CommentsStep ==
  /\ part = "comments" /\ CommentsNext
  /\ UNCHANGED <<part, taxonomyVars, roleVars, rateVars, likeVars, draftVars,
                 submissionVars, peekVars, accountVars>>

LikesStep ==
  /\ part = "likes" /\ LikesNext
  /\ UNCHANGED <<part, taxonomyVars, roleVars, rateVars, commentVars,
                 draftVars, submissionVars, peekVars, accountVars>>

DraftsStep ==
  /\ part = "drafts" /\ DraftsNext
  /\ UNCHANGED <<part, taxonomyVars, roleVars, rateVars, commentVars,
                 likeVars, submissionVars, peekVars, accountVars>>

SubmissionStep ==
  /\ part = "submission" /\ SubmissionNext
  /\ UNCHANGED <<part, taxonomyVars, roleVars, rateVars, commentVars,
                 likeVars, draftVars, peekVars, accountVars>>

PeekStep ==
  /\ part = "peek" /\ PeekNext
  /\ UNCHANGED <<part, taxonomyVars, roleVars, rateVars, commentVars,
                 likeVars, draftVars, submissionVars, accountVars>>

AccountsStep ==
  /\ part = "accounts" /\ AccountsNext
  /\ UNCHANGED <<part, taxonomyVars, roleVars, rateVars, commentVars,
                 likeVars, draftVars, submissionVars, peekVars>>

MCNext ==
  \/ TaxonomyStep \/ RolesStep \/ FixedStep \/ SlidingStep
  \/ CommentsStep \/ LikesStep \/ DraftsStep \/ SubmissionStep
  \/ PeekStep \/ AccountsStep

MCSpec ==
  /\ MCInit /\ [][MCNext]_mcVars
  /\ part = "taxonomy" => TaxonomyFairness

-----------------------------------------------------------------------------
(* The limits hold, as far as the code promises them: a key of the fixed   *)
(* window with its TTL and the sliding window let no more than the limit   *)
(* through (rate-limit.ts); a writer has no more than the limit of recent  *)
(* comments, and drafts no more than the cap, apart from those of calls    *)
(* that overlapped (comments.ts, drafts.ts).                               *)
QuotasHold ==
  /\ part \in {"fixed", "sliding"} => BudgetsHold
  /\ part = "comments" => CapHoldsButForOverlap
  /\ part = "drafts" => CapButForOverlap

=============================================================================
