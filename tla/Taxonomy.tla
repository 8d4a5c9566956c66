------------------------------- MODULE Taxonomy -------------------------------
(***************************************************************************)
(* User-suggested companies and topics: suggestion, the heuristic          *)
(* auto-approval that runs inline after a suggestion and as a sweep, and   *)
(* the moderators' commands.  The two tables have the same columns and the *)
(* same code, so a row is a member of Rows with a kind.                    *)
(*                                                                         *)
(* The commands of the moderators and the promotion are guarded updates    *)
(* that log in the same transaction: one action each.  An auto-approval    *)
(* reads its signals one after the other, and anyone may write in between. *)
(***************************************************************************)
EXTENDS Blocklist, SequencesExt

CONSTANTS
  Rows,        \* rows, by slug
  KindOf,      \* KindOf[x]: "company" or "topic"
  Curated,     \* rows of the seed: active from the start, never suggested
  Twins,       \* pairs of names whose similarity reaches DEDUP_BLOCK_THRESHOLD
  Slurs,       \* Slurs[x]: the patterns the name of x matches
  Unclean,     \* rows whose name fails nameLooksClean
  Submitters,
  Verified,    \* submitters with a user_verifications row
  Nobody,      \* suggested_by_user_id is null
  NoRow

ASSUME KindAssumption == KindOf \in [Rows -> {"company", "topic"}]
ASSUME CuratedAssumption == Curated \subseteq Rows
ASSUME TwinsAssumption == Twins \subseteq Rows \X Rows
ASSUME SlursAssumption == Slurs \in [Rows -> SUBSET Patterns]
ASSUME NobodyAssumption == Nobody \notin Submitters
ASSUME NoRowAssumption == NoRow \notin Rows

VARIABLES
  standing,    \* standing[x]: the status column, "absent" before the row is inserted
  suggestedBy, \* suggestedBy[x]: its submitter
  modLog,      \* modLog[x]: the actions logged about x, oldest first
  jobStep,     \* jobStep[q]: where request q is in runAutoApprove
  candidates,  \* candidates[q]: candidates still to be scored
  candidate,   \* candidate[q]: the candidate being scored
  cleared,     \* requests whose signals so far allow the promotion
  overtaken    \* overtaken[q]: rows others made active since q read the nearest match

rowVars == <<standing, suggestedBy, modLog>>
jobVars == <<jobStep, candidates, candidate, cleared, overtaken>>
taxonomyVars == <<rowVars, jobVars, blocklistVars>>

TaxonomyTypeOK ==
  /\ BlocklistTypeOK
  /\ standing \in [Rows -> {"absent", "pending", "active", "rejected"}]
  /\ suggestedBy \in [Rows -> Submitters \cup {Nobody}]
  /\ modLog \in [Rows -> Seq({"approve", "auto", "reject"})]
  /\ jobStep \in [Requests -> {"idle", "pick", "names", "promote"}]
  /\ candidates \in [Requests -> SUBSET Rows]
  /\ candidate \in [Requests -> Rows \cup {NoRow}]
  /\ cleared \in SUBSET Requests
  /\ overtaken \in [Requests -> SUBSET Rows]

TaxonomyInit ==
  /\ BlocklistInit
  /\ standing = [x \in Rows |-> IF x \in Curated THEN "active" ELSE "absent"]
  /\ suggestedBy = [x \in Rows |-> Nobody]
  /\ modLog = [x \in Rows |-> << >>]
  /\ jobStep = [q \in Requests |-> "idle"]
  /\ candidates = [q \in Requests |-> {}]
  /\ candidate = [q \in Requests |-> NoRow]
  /\ cleared = {}
  /\ overtaken = [q \in Requests |-> {}]

-----------------------------------------------------------------------------
(* What the pages read.                                                    *)

NearTo(x) == {y \in Rows : KindOf[y] = KindOf[x] /\ (<<x, y>> \in Twins \/ <<y, x>> \in Twins)}

\* The closest active row of the kind, as far as the threshold tells it.
NearestActiveMatch(x) == {y \in NearTo(x) \ {x} : standing[y] = "active"}

ListPending(kind) == {x \in Rows : KindOf[x] = kind /\ standing[x] = "pending"}
SearchActive(kind) == {x \in Rows : KindOf[x] = kind /\ standing[x] = "active"}
ListAutoApprovals == {x \in Rows : Contains(modLog[x], "auto")}
ListModActions(x) == Reverse(modLog[x])

-----------------------------------------------------------------------------
(* Suggestions.                                                            *)

\* A defect: suggesting a name again puts its row back in the queue.
SuggestAgain(u, x) ==
  /\ standing' = [standing EXCEPT ![x] = "pending"]
  /\ suggestedBy' = [suggestedBy EXCEPT ![x] = u]
  /\ UNCHANGED modLog

\* INSERT ... ON CONFLICT (slug) DO NOTHING: an existing row is left as it is.
Suggest(u, x) ==
  IF standing[x] = "absent"
  THEN /\ standing' = [standing EXCEPT ![x] = "pending"]
       /\ suggestedBy' = [suggestedBy EXCEPT ![x] = u]
       /\ UNCHANGED modLog
  ELSE UNCHANGED rowVars

\* Finalizing a submission resolves its suggested names, and only that.
ResolveSuggestion(u, x) ==
  /\ standing[x] = "absent"
  /\ Suggest(u, x)
  /\ UNCHANGED <<jobVars, blocklistVars>>

\* The combobox of the form: suggest, then try to approve that row inline.
SuggestPending(q, u, x) ==
  /\ jobStep[q] = "idle"
  /\ Suggest(u, x)
  /\ jobStep' = [jobStep EXCEPT ![q] = "pick"]
  /\ candidates' = [candidates EXCEPT ![q] = {y \in {x} : standing'[y] = "pending"}]
  /\ UNCHANGED <<candidate, cleared, overtaken, blocklistVars>>

-----------------------------------------------------------------------------
(* The moderators.                                                         *)

Activated(x) ==
  overtaken' = [q \in Requests |->
                  IF jobStep[q] \in {"names", "promote"} THEN overtaken[q] \cup {x}
                  ELSE overtaken[q]]

ApprovePending(x) ==
  /\ standing[x] = "pending"
  /\ standing' = [standing EXCEPT ![x] = "active"]
  /\ modLog' = [modLog EXCEPT ![x] = Append(@, "approve")]
  /\ Activated(x)
  /\ UNCHANGED <<suggestedBy, jobStep, candidates, candidate, cleared, blocklistVars>>

RejectPending(x) ==
  /\ standing[x] = "pending"
  /\ standing' = [standing EXCEPT ![x] = "rejected"]
  /\ modLog' = [modLog EXCEPT ![x] = Append(@, "reject")]
  /\ UNCHANGED <<suggestedBy, jobVars, blocklistVars>>

-----------------------------------------------------------------------------
(* runAutoApprove.                                                         *)

\* pendingCandidates without a target: the sweep.
StartSweep(q) ==
  /\ jobStep[q] = "idle"
  /\ candidates' = [candidates EXCEPT ![q] = {x \in Rows : standing[x] = "pending"}]
  /\ jobStep' = [jobStep EXCEPT ![q] = "pick"]
  /\ UNCHANGED <<candidate, cleared, overtaken, rowVars, blocklistVars>>

Trusted(x) == suggestedBy[x] \in Verified /\ x \notin Unclean

\* The submitter, the shape of the name and the nearest match of a candidate.
Score(q, x, near) ==
  /\ jobStep[q] = "pick"
  /\ x \in candidates[q]
  /\ candidate' = [candidate EXCEPT ![q] = x]
  /\ candidates' = [candidates EXCEPT ![q] = @ \ {x}]
  /\ cleared' = IF Trusted(x) /\ near = {} THEN cleared \cup {q} ELSE cleared
  /\ jobStep' = [jobStep EXCEPT ![q] = "names"]
  /\ UNCHANGED <<overtaken, rowVars, blocklistVars>>

\* A defect: only the rows of the seed count as the nearest match.
ScoreBesideSeed(q) ==
  \E x \in candidates[q] : Score(q, x, NearestActiveMatch(x) \cap Curated)

ScoreCandidate(q) == \E x \in candidates[q] : Score(q, x, NearestActiveMatch(x))

\* nameMatchesBlocklist: a hit answers at once, a miss loads.
Answered(q, list) ==
  /\ cleared' = IF Slurs[candidate[q]] \cap list = {} THEN cleared ELSE cleared \ {q}
  /\ jobStep' = [jobStep EXCEPT ![q] = "promote"]
  /\ UNCHANGED <<candidates, candidate, overtaken, rowVars>>

ScoreNameHit(q) ==
  /\ jobStep[q] = "names"
  /\ loading[q] = NoList
  /\ Stored(q) # NoList
  /\ Answered(q, Stored(q).list)
  /\ UNCHANGED blocklistVars

ScoreNameMiss(q) ==
  /\ jobStep[q] = "names"
  /\ LoadQuery(q)
  /\ UNCHANGED <<jobVars, rowVars>>

ScoreNameLoaded(q) ==
  /\ jobStep[q] = "names"
  /\ LoadReturn(q)
  /\ Answered(q, loading[q].list)

\* The candidate is done with: on to the next one.
NextCandidate(q, others) ==
  /\ jobStep' = [jobStep EXCEPT ![q] = "pick"]
  /\ candidate' = [candidate EXCEPT ![q] = NoRow]
  /\ cleared' = cleared \ {q}
  /\ overtaken' = [s \in Requests |->
                     IF s = q THEN {}
                     ELSE IF jobStep[s] \in {"names", "promote"} THEN overtaken[s] \cup others
                     ELSE overtaken[s]]
  /\ UNCHANGED <<suggestedBy, candidates, blocklistVars>>

MakeActive(q) ==
  /\ standing' = [standing EXCEPT ![candidate[q]] = "active"]
  /\ modLog' = [modLog EXCEPT ![candidate[q]] = Append(@, "auto")]
  /\ NextCandidate(q, {candidate[q]})

HoldCandidate(q) == NextCandidate(q, {}) /\ UNCHANGED <<standing, modLog>>

\* A defect: the promotion updates its row by id alone.
PromoteById(q) ==
  /\ jobStep[q] = "promote"
  /\ IF q \in cleared THEN MakeActive(q) ELSE HoldCandidate(q)

Promote(q) ==
  /\ jobStep[q] = "promote"
  /\ IF q \in cleared /\ standing[candidate[q]] = "pending" THEN MakeActive(q) ELSE HoldCandidate(q)

\* The loop is over, or a call of it threw: the inline caller swallows the
\* error, the script ends.
Finish(q) ==
  /\ jobStep[q] # "idle"
  /\ loading[q] = NoList
  /\ jobStep' = [jobStep EXCEPT ![q] = "idle"]
  /\ candidates' = [candidates EXCEPT ![q] = {}]
  /\ candidate' = [candidate EXCEPT ![q] = NoRow]
  /\ cleared' = cleared \ {q}
  /\ overtaken' = [overtaken EXCEPT ![q] = {}]
  /\ UNCHANGED <<rowVars, blocklistVars>>

RunAutoApprove(q) ==
  \/ StartSweep(q)
  \/ ScoreCandidate(q)
  \/ ScoreNameHit(q) \/ ScoreNameMiss(q) \/ ScoreNameLoaded(q)
  \/ Promote(q) \/ Finish(q)

EditBlocklist(p) == AdminEdit(p) /\ UNCHANGED <<rowVars, jobVars>>
ExpireCopy(p) == Expire(p) /\ UNCHANGED <<rowVars, jobVars>>

TaxonomyNext ==
  \/ \E u \in Submitters, x \in Rows :
       ResolveSuggestion(u, x) \/ \E q \in Requests : SuggestPending(q, u, x)
  \/ \E x \in Rows : ApprovePending(x) \/ RejectPending(x)
  \/ \E q \in Requests : RunAutoApprove(q)
  \/ \E p \in Processes : EditBlocklist(p) \/ ExpireCopy(p)

TaxonomySpec == TaxonomyInit /\ [][TaxonomyNext]_taxonomyVars

\* The rows of a query arrive, and copies age.
TaxonomyFairness ==
  /\ \A q \in Requests : WF_taxonomyVars(ScoreNameLoaded(q))
  /\ \A p \in Processes : WF_taxonomyVars(ExpireCopy(p))

-----------------------------------------------------------------------------

\* moderation/shared.ts:9: a command returns true iff it transitioned a pending
\* row.  Whatever moderators, inline approvals and sweeps do at once, a
\* suggested row is decided at most once, the audit trail holds that one
\* decision, and every row is in the queue, in the public search or rejected
\* in accordance with it.
DecidedOnce ==
  \A x \in Rows \ Curated :
    /\ x \in ListPending(KindOf[x]) => ListModActions(x) = << >>
    /\ x \in SearchActive(KindOf[x]) => ListModActions(x) \in {<<"approve">>, <<"auto">>}
    /\ standing[x] = "rejected" => ListModActions(x) = <<"reject">>

\* dedup.ts:2: a strong match blocks auto-approve.  The heuristic makes a row
\* active beside an active near-duplicate only if someone else made that
\* duplicate active after this candidate's nearest match was read; a sweep
\* never does it to its own candidates.
BacksOffFromTwins ==
  [][\A q \in Requests :
       (Promote(q) /\ standing'[candidate[q]] # standing[candidate[q]])
         => NearestActiveMatch(candidate[q]) \subseteq overtaken[q]]_taxonomyVars

=============================================================================
