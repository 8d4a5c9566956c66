------------------------------ MODULE Submission ------------------------------
(***************************************************************************)
(* Finalizing drafts into reports, on the server, for one user:            *)
(* finalizeSubmissionAction and finalizeSubmission query by query, against *)
(* saves, discards, startReportEdit, the owner's deletions and the         *)
(* moderators' commands.  ReportStore has the transactions on the report   *)
(* rows and what they announce; here are the drafts and the cap on reports *)
(* per company.                                                            *)
(*                                                                         *)
(* Of a draft two things are told apart, its company and the report it     *)
(* edits.  One that fails the validation or the scan of its texts is       *)
(* refused as soon as it is loaded, like a request that dies there, and an *)
(* edit whose window has closed is refused at its gate.  The               *)
(* pending rows of suggested names are Taxonomy's, the cached peek body is *)
(* ReportPeek's, and the confirmation mail that ends a request is lost or  *)
(* sent without anyone reading it here.                                    *)
(***************************************************************************)
EXTENDS Naturals, FiniteSets

CONSTANTS
  Firms,       \* companies, by the slug a name or an id resolves to
  Submits,     \* finalize requests that may be under way
  MaxPapers,   \* bound: drafts ever created
  MaxFiled     \* bound: reports ever created

ASSUME SubmissionBounds == MaxPapers \in Nat /\ MaxFiled \in Nat

PaperIds == 1 .. MaxPapers
FiledIds == 1 .. MaxFiled

VARIABLES
  paper,     \* paper[d]: the data of draft d
  papers,    \* drafts created so far
  filed,     \* filed[r]: company and status of report r
  filings,   \* reports created so far
  doing,     \* doing[q]: the query request q is at
  sheet,     \* sheet[q]: its draft
  taken,     \* taken[q]: that draft's data as it was loaded
  since      \* since[q]: reports that came up for q's company after its check

paperVars == <<paper, papers>>
filedVars == <<filed, filings>>
submitVars == <<doing, sheet, taken, since>>
submissionVars == <<paperVars, filedVars, submitVars>>

NoPaper == [firm |-> "none", edits |-> 0]
PaperData == [firm : Firms, edits : 0 .. MaxFiled] \cup {NoPaper}
FiledRow == [firm : Firms \cup {"none"}, status : {"absent", "kept", "deleted"}]

SubmissionTypeOK ==
  /\ paper \in [PaperIds -> PaperData] /\ papers \in 0 .. MaxPapers
  /\ filed \in [FiledIds -> FiledRow] /\ filings \in 0 .. MaxFiled
  /\ doing \in [Submits -> {"idle", "gate", "cap", "write", "drop"}]
  /\ sheet \in [Submits -> 0 .. MaxPapers]
  /\ taken \in [Submits -> PaperData]
  /\ since \in [Submits -> SUBSET FiledIds]

SubmissionInit ==
  /\ paper = [d \in PaperIds |-> NoPaper] /\ papers = 0
  /\ filed = [r \in FiledIds |-> [firm |-> "none", status |-> "absent"]] /\ filings = 0
  /\ doing = [q \in Submits |-> "idle"]
  /\ sheet = [q \in Submits |-> 0]
  /\ taken = [q \in Submits |-> NoPaper]
  /\ since = [q \in Submits |-> {}]

Present(d) == paper[d] # NoPaper
\* On hold or active: the cap counts both.
Counts(r) == filed[r].status = "kept"
CountingFor(f) == {r \in FiledIds : Counts(r) /\ filed[r].firm = f}

\* For the property alone: r now counts for company f.
CameUp(r, f) ==
  since' = [q \in Submits |->
              IF doing[q] = "write" /\ taken[q].edits = 0 /\ taken[q].firm = f
              THEN since[q] \cup {r} ELSE since[q]]

-----------------------------------------------------------------------------
(* Drafts.                                                                 *)

NewPaper(data) ==
  /\ papers < MaxPapers
  /\ papers' = papers + 1
  /\ paper' = [paper EXCEPT ![papers + 1] = data]

\* saveDraft of a new form.
SaveNewPaper(f) ==
  /\ NewPaper([firm |-> f, edits |-> 0])
  /\ UNCHANGED <<filedVars, submitVars>>

\* saveDraft of a draft; the form carries the edit target along.
SavePaper(d, f) ==
  /\ Present(d)
  /\ paper' = [paper EXCEPT ![d].firm = f]
  /\ UNCHANGED <<papers, filedVars, submitVars>>

DiscardPaper(d) ==
  /\ Present(d)
  /\ paper' = [paper EXCEPT ![d] = NoPaper]
  /\ UNCHANGED <<papers, filedVars, submitVars>>

\* startReportEdit: the report as a draft.
StartReportEdit(r) ==
  /\ Counts(r)
  /\ NewPaper([firm |-> filed[r].firm, edits |-> r])
  /\ UNCHANGED <<filedVars, submitVars>>

-----------------------------------------------------------------------------
(* A request.                                                              *)

At(q, s) == doing' = [doing EXCEPT ![q] = s]

\* A defect: the cap is forgotten.
LoadUncapped(q, d) ==
  /\ doing[q] = "idle"
  /\ Present(d)
  /\ sheet' = [sheet EXCEPT ![q] = d]
  /\ taken' = [taken EXCEPT ![q] = paper[d]]
  /\ At(q, IF paper[d].edits = 0 THEN "write" ELSE "gate")
  /\ UNCHANGED <<since, paperVars, filedVars>>

\* getDraft, and what is decided from the data alone.
LoadPaper(q, d) ==
  /\ doing[q] = "idle"
  /\ Present(d)
  /\ sheet' = [sheet EXCEPT ![q] = d]
  /\ taken' = [taken EXCEPT ![q] = paper[d]]
  /\ At(q, IF paper[d].edits = 0 THEN "cap" ELSE "gate")
  /\ UNCHANGED <<since, paperVars, filedVars>>

GateEditOf(q) ==
  /\ doing[q] = "gate"
  /\ Counts(taken[q].edits)
  /\ At(q, "write")
  /\ UNCHANGED <<sheet, taken, since, paperVars, filedVars>>

UserHasNoReport(q) ==
  /\ doing[q] = "cap"
  /\ CountingFor(taken[q].firm) = {}
  /\ At(q, "write")
  /\ UNCHANGED <<sheet, taken, since, paperVars, filedVars>>

FileReport(q) ==
  /\ doing[q] = "write" /\ taken[q].edits = 0
  /\ filings < MaxFiled
  /\ filings' = filings + 1
  /\ filed' = [filed EXCEPT ![filings + 1] = [firm |-> taken[q].firm, status |-> "kept"]]
  /\ CameUp(filings + 1, taken[q].firm)
  /\ At(q, "drop")
  /\ UNCHANGED <<sheet, taken, paperVars>>

\* No status is looked at again.
RewriteReport(q) ==
  /\ doing[q] = "write" /\ taken[q].edits # 0
  /\ LET r == taken[q].edits IN
       /\ filed' = [filed EXCEPT ![r].firm = taken[q].firm]
       /\ IF Counts(r) THEN CameUp(r, taken[q].firm) ELSE UNCHANGED since
  /\ At(q, "drop")
  /\ UNCHANGED <<sheet, taken, paperVars, filings>>

EndSubmit(q) ==
  /\ At(q, "idle")
  /\ sheet' = [sheet EXCEPT ![q] = 0]
  /\ taken' = [taken EXCEPT ![q] = NoPaper]
  /\ since' = [since EXCEPT ![q] = {}]

DropPaper(q) ==
  /\ doing[q] = "drop"
  /\ paper' = [paper EXCEPT ![sheet[q]] = NoPaper]
  /\ EndSubmit(q)
  /\ UNCHANGED <<papers, filedVars>>

\* Refused, thrown, or the process is gone: whatever is done stays done.
LeaveSubmit(q) ==
  /\ doing[q] # "idle"
  /\ EndSubmit(q)
  /\ UNCHANGED <<paperVars, filedVars>>

FinalizeSubmission(q) ==
  \/ \E d \in PaperIds : LoadPaper(q, d)
  \/ GateEditOf(q) \/ UserHasNoReport(q)
  \/ FileReport(q) \/ RewriteReport(q) \/ DropPaper(q) \/ LeaveSubmit(q)

-----------------------------------------------------------------------------
(* What else happens to a report.                                          *)

SetFiled(r, from, to) ==
  /\ filed[r].status = from
  /\ filed' = [filed EXCEPT ![r].status = to]
  /\ UNCHANGED <<paperVars, filings, doing, sheet, taken>>

DeleteFiled(r) == SetFiled(r, "kept", "deleted") /\ UNCHANGED since
RestoreFiled(r) == SetFiled(r, "deleted", "kept") /\ CameUp(r, filed[r].firm)

SubmissionNext ==
  \/ \E f \in Firms : SaveNewPaper(f) \/ \E d \in PaperIds : SavePaper(d, f)
  \/ \E d \in PaperIds : DiscardPaper(d)
  \/ \E q \in Submits : FinalizeSubmission(q)
  \/ \E r \in FiledIds :
       StartReportEdit(r) \/ DeleteFiled(r) \/ RestoreFiled(r)

SubmissionSpec == SubmissionInit /\ [][SubmissionNext]_submissionVars

-----------------------------------------------------------------------------

\* submit.ts:41: one report per company and user.  A new report may meet another
\* of its company only if that one came up between the request's check and its
\* insert: by a second request, an edit that moved it there, or a restore.  (An
\* edit or a restore is never checked, and may make a pair at any time.)
CapHoldsAtCreation ==
  [][\A q \in Submits :
       FileReport(q) => CountingFor(taken[q].firm) \subseteq since[q]]_submissionVars

=============================================================================
