------------------------------ MODULE ServerProofs ------------------------------
(***************************************************************************)
(* Theorems about the server behind the pages: the caps on new reports,    *)
(* taxonomy moderation and its blocklist, role aliases, accounts, the      *)
(* cached body of a report, the caps on drafts, comments and requests, and *)
(* the karma of likes.  The components share no state; each part of this   *)
(* module is about one of them and uses nothing of the others, but for the *)
(* last, which puts them together: a behaviour of MCServer is one of every *)
(* component, where the others are stuttering.                             *)
(***************************************************************************)
EXTENDS MCServer, DataLemmas

-----------------------------------------------------------------------------
(***************************************************************************)
(* Submission, for any companies and requests: its types, and that the cap *)
(* on reports per company is broken by nothing but what comes between a    *)
(* request's check and its insert.                                         *)
(***************************************************************************)

FilledPaper == [firm : Firms, edits : 0 .. MaxFiled]

\* A request under way holds a draft's data, one at the gate that of an edit,
\* and a report that exists has a company.
SubmissionBusy ==
  /\ \A q \in Submits : doing[q] # "idle" => taken[q] \in FilledPaper
  /\ \A q \in Submits : doing[q] = "gate" => taken[q].edits # 0
  /\ \A r \in FiledIds : Counts(r) \/ filed[r].status = "deleted" => filed[r].firm \in Firms

SubmissionTypeInv == SubmissionTypeOK /\ SubmissionBusy

\* A request past its check knows every report that counts for its company.
CheckedInv ==
  \A q \in Submits :
    doing[q] = "write" /\ taken[q].edits = 0 => CountingFor(taken[q].firm) \subseteq since[q]

SubmissionInv == SubmissionTypeInv /\ CheckedInv

-----------------------------------------------------------------------------

LEMMA SubmissionInitInv == SubmissionInit => SubmissionInv
  BY SubmissionBounds
  DEF SubmissionInit, SubmissionInv, SubmissionTypeInv, SubmissionTypeOK, SubmissionBusy,
      CheckedInv, PaperData, NoPaper, FiledRow, Counts, PaperIds, FiledIds, FilledPaper

\* A draft's row, when there is one, has a company.
LEMMA PresentIsFilled ==
  ASSUME SubmissionTypeOK, NEW d \in PaperIds, Present(d)
  PROVE  paper[d] \in FilledPaper
  BY DEF SubmissionTypeOK, Present, PaperData, FilledPaper

LEMMA NewPaperType ==
  ASSUME SubmissionTypeOK, NEW data \in PaperData, NewPaper(data)
  PROVE  /\ paper' \in [PaperIds -> PaperData]
         /\ papers' \in 0 .. MaxPapers
  BY SubmissionBounds DEF SubmissionTypeOK, NewPaper, PaperIds

\* Steps that leave reports and requests alone only have to keep the drafts' types.
LEMMA DraftStepKeepsInv ==
  ASSUME SubmissionInv, UNCHANGED <<filedVars, submitVars>>,
         paper' \in [PaperIds -> PaperData], papers' \in 0 .. MaxPapers
  PROVE  SubmissionInv'
  BY DEF SubmissionInv, SubmissionTypeInv, SubmissionTypeOK, SubmissionBusy, CheckedInv,
         CountingFor, Counts, filedVars, submitVars

\* What came up for a company is a report.
LEMMA CameUpType ==
  ASSUME SubmissionTypeOK, NEW r \in FiledIds, NEW f, CameUp(r, f)
  PROVE  /\ since' \in [Submits -> SUBSET FiledIds]
         /\ \A q \in Submits : since[q] \subseteq since'[q]
         /\ \A q \in Submits :
              doing[q] = "write" /\ taken[q].edits = 0 /\ taken[q].firm = f => r \in since'[q]
  BY DEF SubmissionTypeOK, CameUp

\* If one report alone changes, and comes up for its company, every other
\* request past its check still knows all that counts.
LEMMA OneReportKeepsChecked ==
  ASSUME SubmissionTypeOK, CheckedInv,
         NEW r \in FiledIds, NEW q \in Submits, NEW f, CameUp(r, f),
         doing[q] = "write", taken[q].edits = 0,
         filed' \in [FiledIds -> FiledRow], filed'[r].firm = f,
         \A p \in FiledIds : p # r => filed'[p] = filed[p]
  PROVE  {p \in FiledIds : filed'[p].status = "kept" /\ filed'[p].firm = taken[q].firm}
           \subseteq since'[q]
<1> SUFFICES ASSUME NEW p \in FiledIds,
                    filed'[p].status = "kept", filed'[p].firm = taken[q].firm
             PROVE  p \in since'[q]
  OBVIOUS
<1>1. CASE p = r
  BY <1>1, CameUpType
<1>2. CASE p # r
  <2>1. p \in CountingFor(taken[q].firm)
    BY <1>2 DEF CountingFor, Counts
  <2> QED
    BY <2>1, CameUpType DEF CheckedInv
<1> QED
  BY <1>1, <1>2

-----------------------------------------------------------------------------

\* A request that ends leaves every other as it is.
LEMMA EndKeepsInv ==
  ASSUME SubmissionInv, NEW q \in Submits, EndSubmit(q), UNCHANGED <<papers, filedVars>>,
         paper' \in [PaperIds -> PaperData]
  PROVE  SubmissionInv'
<1>1. /\ doing' = [doing EXCEPT ![q] = "idle"]
      /\ taken' = [taken EXCEPT ![q] = NoPaper]
      /\ since' = [since EXCEPT ![q] = {}]
      /\ sheet' = [sheet EXCEPT ![q] = 0]
  BY DEF EndSubmit, At
<1>2. SubmissionTypeOK'
  BY <1>1, SubmissionBounds
  DEF SubmissionInv, SubmissionTypeInv, SubmissionTypeOK, PaperData, filedVars
<1>3. SubmissionBusy'
  BY <1>1 DEF SubmissionInv, SubmissionTypeInv, SubmissionTypeOK, SubmissionBusy, Counts, filedVars
<1>4. CheckedInv'
  BY <1>1 DEF SubmissionInv, SubmissionTypeInv, SubmissionTypeOK, CheckedInv, CountingFor,
              Counts, filedVars
<1> QED
  BY <1>2, <1>3, <1>4 DEF SubmissionInv, SubmissionTypeInv

LEMMA LoadKeepsInv ==
  ASSUME SubmissionInv, NEW q \in Submits, NEW d \in PaperIds, LoadPaper(q, d)
  PROVE  SubmissionInv'
<1>1. /\ doing' = [doing EXCEPT ![q] = IF paper[d].edits = 0 THEN "cap" ELSE "gate"]
      /\ taken' = [taken EXCEPT ![q] = paper[d]]
      /\ sheet' = [sheet EXCEPT ![q] = d]
      /\ UNCHANGED <<since, paper, papers, filed, filings>>
  BY DEF LoadPaper, At, paperVars, filedVars
<1>2. paper[d] \in FilledPaper
  BY PresentIsFilled DEF LoadPaper, SubmissionInv, SubmissionTypeInv
<1>3. SubmissionTypeOK'
  BY <1>1, <1>2, SubmissionBounds
  DEF SubmissionInv, SubmissionTypeInv, SubmissionTypeOK, PaperData, FilledPaper, PaperIds
<1>4. SubmissionBusy'
  BY <1>1, <1>2 DEF SubmissionInv, SubmissionTypeInv, SubmissionTypeOK, SubmissionBusy, Counts
<1>5. CheckedInv'
  BY <1>1 DEF SubmissionInv, SubmissionTypeInv, SubmissionTypeOK, CheckedInv, CountingFor, Counts
<1> QED
  BY <1>3, <1>4, <1>5 DEF SubmissionInv, SubmissionTypeInv

\* The gate of an edit, and the check of the cap.
LEMMA ChecksKeepInv ==
  ASSUME SubmissionInv, NEW q \in Submits, GateEditOf(q) \/ UserHasNoReport(q)
  PROVE  SubmissionInv'
<1>1. /\ doing' = [doing EXCEPT ![q] = "write"]
      /\ doing[q] \in {"gate", "cap"}
      /\ taken[q].edits # 0 \/ CountingFor(taken[q].firm) = {}
      /\ UNCHANGED <<sheet, taken, since, paper, papers, filed, filings>>
  BY DEF GateEditOf, UserHasNoReport, At, paperVars, filedVars, SubmissionInv,
         SubmissionTypeInv, SubmissionBusy
<1>2. SubmissionTypeOK'
  BY <1>1 DEF SubmissionInv, SubmissionTypeInv, SubmissionTypeOK
<1>3. SubmissionBusy'
  BY <1>1 DEF SubmissionInv, SubmissionTypeInv, SubmissionTypeOK, SubmissionBusy, Counts
<1>4. CheckedInv'
  BY <1>1 DEF SubmissionInv, SubmissionTypeInv, SubmissionTypeOK, CheckedInv, CountingFor, Counts
<1> QED
  BY <1>2, <1>3, <1>4 DEF SubmissionInv, SubmissionTypeInv

LEMMA FileKeepsInv ==
  ASSUME SubmissionInv, NEW q \in Submits, FileReport(q)
  PROVE  SubmissionInv'
<1> DEFINE r == filings + 1
           f == taken[q].firm
<1>1. /\ r \in FiledIds
      /\ f \in Firms
      /\ filed' = [filed EXCEPT ![r] = [firm |-> f, status |-> "kept"]]
      /\ filings' = filings + 1
      /\ CameUp(r, f)
      /\ doing' = [doing EXCEPT ![q] = "drop"]
      /\ UNCHANGED <<sheet, taken, paper, papers>>
  BY SubmissionBounds
  DEF FileReport, At, paperVars, SubmissionInv, SubmissionTypeInv, SubmissionTypeOK,
      SubmissionBusy, FilledPaper, FiledIds
<1>2. SubmissionTypeOK /\ CheckedInv
  BY DEF SubmissionInv, SubmissionTypeInv
<1> HIDE DEF r, f
<1>3. /\ filed' \in [FiledIds -> FiledRow]
      /\ filed'[r].firm = f
      /\ \A p \in FiledIds : p # r => filed'[p] = filed[p]
  BY <1>1, <1>2 DEF SubmissionTypeOK, FiledRow
<1>4. SubmissionTypeOK'
  BY <1>1, <1>2, <1>3, CameUpType, SubmissionBounds DEF SubmissionTypeOK, FiledIds, r
<1>5. SubmissionBusy'
  <2>1. \A w \in Submits : doing'[w] # "idle" => doing[w] # "idle" /\ taken'[w] \in FilledPaper
    BY <1>1, <1>2 DEF SubmissionInv, SubmissionTypeInv, SubmissionTypeOK, SubmissionBusy,
                      FileReport, RewriteReport
  <2>2. \A w \in Submits : doing'[w] = "gate" => taken'[w].edits # 0
    BY <1>1, <1>2 DEF SubmissionInv, SubmissionTypeInv, SubmissionTypeOK, SubmissionBusy
  <2>3. \A p \in FiledIds :
          filed'[p].status \in {"kept", "deleted"} => filed'[p].firm \in Firms
    BY <1>1, <1>3 DEF SubmissionInv, SubmissionTypeInv, SubmissionBusy, Counts
  <2> QED
    BY <2>1, <2>2, <2>3 DEF SubmissionBusy, Counts
<1>6. CheckedInv'
  <2> SUFFICES ASSUME NEW w \in Submits, doing'[w] = "write", taken'[w].edits = 0
               PROVE  CountingFor(taken[w].firm)' \subseteq since'[w]
    BY <1>1 DEF CheckedInv, CountingFor
  <2>1. doing[w] = "write" /\ taken[w].edits = 0
    BY <1>1, <1>2 DEF SubmissionTypeOK
  <2> QED
    BY <1>1, <1>2, <1>3, <2>1, OneReportKeepsChecked DEF CountingFor, Counts
<1> QED
  BY <1>4, <1>5, <1>6 DEF SubmissionInv, SubmissionTypeInv

LEMMA RewriteKeepsInv ==
  ASSUME SubmissionInv, NEW q \in Submits, RewriteReport(q)
  PROVE  SubmissionInv'
<1> DEFINE r == taken[q].edits
           f == taken[q].firm
<1>1. /\ r \in FiledIds
      /\ f \in Firms
      /\ filed' = [filed EXCEPT ![r].firm = f]
      /\ IF Counts(r) THEN CameUp(r, f) ELSE UNCHANGED since
      /\ doing' = [doing EXCEPT ![q] = "drop"]
      /\ UNCHANGED <<sheet, taken, paper, papers, filings>>
  BY SubmissionBounds
  DEF RewriteReport, At, paperVars, SubmissionInv, SubmissionTypeInv, SubmissionTypeOK,
      SubmissionBusy, FilledPaper, FiledIds
<1>2. SubmissionTypeOK /\ CheckedInv
  BY DEF SubmissionInv, SubmissionTypeInv
<1> HIDE DEF r, f
<1>3. /\ filed' \in [FiledIds -> FiledRow]
      /\ filed'[r].firm = f
      /\ filed'[r].status = filed[r].status
      /\ \A p \in FiledIds : p # r => filed'[p] = filed[p]
  BY <1>1, <1>2 DEF SubmissionTypeOK, FiledRow
<1>4. SubmissionTypeOK'
  BY <1>1, <1>2, <1>3, CameUpType DEF SubmissionTypeOK
<1>5. SubmissionBusy'
  <2>1. \A w \in Submits : doing'[w] # "idle" => doing[w] # "idle" /\ taken'[w] \in FilledPaper
    BY <1>1, <1>2 DEF SubmissionInv, SubmissionTypeInv, SubmissionTypeOK, SubmissionBusy,
                      FileReport, RewriteReport
  <2>2. \A w \in Submits : doing'[w] = "gate" => taken'[w].edits # 0
    BY <1>1, <1>2 DEF SubmissionInv, SubmissionTypeInv, SubmissionTypeOK, SubmissionBusy
  <2>3. \A p \in FiledIds :
          filed'[p].status \in {"kept", "deleted"} => filed'[p].firm \in Firms
    BY <1>1, <1>3 DEF SubmissionInv, SubmissionTypeInv, SubmissionBusy, Counts
  <2> QED
    BY <2>1, <2>2, <2>3 DEF SubmissionBusy, Counts
<1>6. CheckedInv'
  <2> SUFFICES ASSUME NEW w \in Submits, doing'[w] = "write", taken'[w].edits = 0
               PROVE  CountingFor(taken[w].firm)' \subseteq since'[w]
    BY <1>1 DEF CheckedInv, CountingFor
  <2>1. doing[w] = "write" /\ taken[w].edits = 0
    BY <1>1, <1>2 DEF SubmissionTypeOK
  <2>2. CASE Counts(r)
    BY <1>1, <1>2, <1>3, <2>1, <2>2, OneReportKeepsChecked DEF CountingFor, Counts
  <2>3. CASE ~ Counts(r)
    BY <1>1, <1>2, <1>3, <2>1, <2>3 DEF CheckedInv, CountingFor, Counts
  <2> QED
    BY <2>2, <2>3
<1> QED
  BY <1>4, <1>5, <1>6 DEF SubmissionInv, SubmissionTypeInv

LEMMA DeleteFiledKeepsInv ==
  ASSUME SubmissionInv, NEW r \in FiledIds, DeleteFiled(r)
  PROVE  SubmissionInv'
<1>1. /\ filed[r].status = "kept"
      /\ filed' = [filed EXCEPT ![r].status = "deleted"]
      /\ UNCHANGED <<paper, papers, filings, doing, sheet, taken, since>>
  BY DEF DeleteFiled, SetFiled, paperVars
<1>2. SubmissionTypeOK'
  BY <1>1 DEF SubmissionInv, SubmissionTypeInv, SubmissionTypeOK, FiledRow
<1>3. SubmissionBusy'
  BY <1>1 DEF SubmissionInv, SubmissionTypeInv, SubmissionTypeOK, SubmissionBusy, Counts
<1>4. CheckedInv'
  BY <1>1 DEF SubmissionInv, SubmissionTypeInv, SubmissionTypeOK, CheckedInv, CountingFor, Counts
<1> QED
  BY <1>2, <1>3, <1>4 DEF SubmissionInv, SubmissionTypeInv

LEMMA RestoreFiledKeepsInv ==
  ASSUME SubmissionInv, NEW r \in FiledIds, RestoreFiled(r)
  PROVE  SubmissionInv'
<1>1. /\ filed[r].status = "deleted"
      /\ filed' = [filed EXCEPT ![r].status = "kept"]
      /\ CameUp(r, filed[r].firm)
      /\ UNCHANGED <<paper, papers, filings, doing, sheet, taken>>
  BY DEF RestoreFiled, SetFiled, paperVars
<1>2. SubmissionTypeOK /\ CheckedInv
  BY DEF SubmissionInv, SubmissionTypeInv
<1>3. /\ filed' \in [FiledIds -> FiledRow]
      /\ filed'[r].firm = filed[r].firm
      /\ \A p \in FiledIds : p # r => filed'[p] = filed[p]
  BY <1>1, <1>2 DEF SubmissionTypeOK, FiledRow
<1>4. SubmissionTypeOK'
  BY <1>1, <1>2, <1>3, CameUpType DEF SubmissionTypeOK
<1>5. SubmissionBusy'
  BY <1>1, <1>2 DEF SubmissionInv, SubmissionTypeInv, SubmissionTypeOK, SubmissionBusy, Counts
<1>6. CheckedInv'
  <2> SUFFICES ASSUME NEW w \in Submits, doing[w] = "write", taken[w].edits = 0
               PROVE  CountingFor(taken[w].firm)' \subseteq since'[w]
    BY <1>1 DEF CheckedInv, CountingFor
  <2> QED
    BY <1>1, <1>2, <1>3, OneReportKeepsChecked DEF CountingFor, Counts
<1> QED
  BY <1>4, <1>5, <1>6 DEF SubmissionInv, SubmissionTypeInv

-----------------------------------------------------------------------------

LEMMA SubmissionKeeps == SubmissionInv /\ [SubmissionNext]_submissionVars => SubmissionInv'
<1> SUFFICES ASSUME SubmissionInv, [SubmissionNext]_submissionVars
             PROVE  SubmissionInv'
  OBVIOUS
<1> USE DEF SubmissionInv, SubmissionTypeInv
<1>0. SubmissionTypeOK
  OBVIOUS
<1>1. ASSUME NEW f \in Firms, SaveNewPaper(f)
      PROVE  SubmissionInv'
  <2>1. [firm |-> f, edits |-> 0] \in PaperData
    BY SubmissionBounds DEF PaperData
  <2> QED
    BY <1>0, <1>1, <2>1, NewPaperType, DraftStepKeepsInv DEF SaveNewPaper
<1>2. ASSUME NEW f \in Firms, NEW d \in PaperIds, SavePaper(d, f)
      PROVE  SubmissionInv'
  <2>1. paper[d] \in FilledPaper
    BY <1>0, <1>2, PresentIsFilled DEF SavePaper
  <2>2. paper' \in [PaperIds -> PaperData] /\ papers' \in 0 .. MaxPapers
    BY <1>0, <1>2, <2>1 DEF SavePaper, SubmissionTypeOK, PaperData, FilledPaper
  <2> QED
    BY <1>2, <2>2, DraftStepKeepsInv DEF SavePaper
<1>3. ASSUME NEW d \in PaperIds, DiscardPaper(d)
      PROVE  SubmissionInv'
  <2>1. paper' \in [PaperIds -> PaperData] /\ papers' \in 0 .. MaxPapers
    BY <1>0, <1>3 DEF DiscardPaper, SubmissionTypeOK, PaperData
  <2> QED
    BY <1>3, <2>1, DraftStepKeepsInv DEF DiscardPaper
<1>4. ASSUME NEW q \in Submits, FinalizeSubmission(q)
      PROVE  SubmissionInv'
  <2>1. ASSUME DropPaper(q)
        PROVE  SubmissionInv'
    <3>1. paper' \in [PaperIds -> PaperData] /\ UNCHANGED papers
      BY <1>0, <2>1 DEF DropPaper, SubmissionTypeOK, PaperData
    <3> QED
      BY <2>1, <3>1, EndKeepsInv DEF DropPaper
  <2>2. ASSUME LeaveSubmit(q)
        PROVE  SubmissionInv'
    <3>1. paper' \in [PaperIds -> PaperData] /\ UNCHANGED papers
      BY <1>0, <2>2 DEF LeaveSubmit, SubmissionTypeOK, paperVars
    <3> QED
      BY <2>2, <3>1, EndKeepsInv DEF LeaveSubmit
  <2> QED
    BY <1>4, <2>1, <2>2, LoadKeepsInv, ChecksKeepInv, FileKeepsInv, RewriteKeepsInv
    DEF FinalizeSubmission
<1>5. ASSUME NEW r \in FiledIds, StartReportEdit(r)
      PROVE  SubmissionInv'
  <2>1. [firm |-> filed[r].firm, edits |-> r] \in PaperData
    BY <1>5, SubmissionBounds DEF StartReportEdit, SubmissionBusy, PaperData, FiledIds
  <2> QED
    BY <1>0, <1>5, <2>1, NewPaperType, DraftStepKeepsInv DEF StartReportEdit
<1>6. CASE UNCHANGED submissionVars
  BY <1>0, <1>6, DraftStepKeepsInv DEF submissionVars, paperVars, SubmissionTypeOK
<1> QED
  BY <1>1, <1>2, <1>3, <1>4, <1>5, <1>6, DeleteFiledKeepsInv, RestoreFiledKeepsInv
  DEF SubmissionNext

\* Submission.tla: every variable keeps its type.
THEOREM SubmissionTypes == SubmissionSpec => []SubmissionTypeOK
<1>1. SubmissionInv => SubmissionTypeOK
  BY DEF SubmissionInv, SubmissionTypeInv
<1> QED
  BY <1>1, SubmissionInitInv, SubmissionKeeps, PTL DEF SubmissionSpec

\* submit.ts:41: a new report meets another of its company only if that one came
\* up between the request's check and its insert, whatever number of requests,
\* edits, deletions and restores are under way.
THEOREM SubmissionCap == SubmissionSpec => CapHoldsAtCreation
<1>1. SubmissionInv /\ [SubmissionNext]_submissionVars =>
        [\A q \in Submits :
           FileReport(q) => CountingFor(taken[q].firm) \subseteq since[q]]_submissionVars
  BY DEF SubmissionInv, CheckedInv, FileReport
<1> QED
  BY <1>1, SubmissionInitInv, SubmissionKeeps, PTL DEF SubmissionSpec, CapHoldsAtCreation

-----------------------------------------------------------------------------
(***************************************************************************)
(* Taxonomy and the Blocklist under it, for any rows, patterns, requests   *)
(* and processes: their types, that a suggested row is decided once, that  *)
(* the heuristic backs off from an active duplicate it could have read,    *)
(* and that a process sees its own edits of the list.                      *)
(***************************************************************************)

(* The blocklist.                                                          *)

CopiesReflectEdits ==
  /\ \A p \in Processes : own[p] <= edits
  /\ \A q \in Requests :
       loading[q] # NoList /\ loading[q].at < own[ProcessOf[q]] => loading[q].crossed

BlocklistInv == BlocklistTypeOK /\ CopiesReflectEdits /\ OwnEditsAreInForce

LEMMA BlocklistInitInv == BlocklistInit => BlocklistInv
  BY MaxEditsAssumption, ProcessOfAssumption, BrokenAssumption
  DEF BlocklistInit, BlocklistInv, BlocklistTypeOK, CopiesReflectEdits, OwnEditsAreInForce, Copy

LEMMA AdminEditKeepsList ==
  ASSUME BlocklistInv, NEW p \in Processes, AdminEdit(p)
  PROVE  BlocklistInv'
<1> USE DEF BlocklistInv
<1>1. NumberEdit(p) /\ InvalidateBlocklistCache(p)
  BY DEF AdminEdit, AddBlocklistEntry, SetBlocklistEnabled, RemoveBlocklistEntry
<1>2. listed' \in SUBSET Patterns /\ enabled' \in SUBSET listed'
  BY DEF AdminEdit, AddBlocklistEntry, SetBlocklistEnabled, RemoveBlocklistEntry, BlocklistTypeOK
<1>3. /\ edits' = edits + 1 /\ edits' \in 0 .. MaxEdits
      /\ own' = [own EXCEPT ![p] = edits + 1]
      /\ cache' = [cache EXCEPT ![p] = NoList]
      /\ \A q \in Requests :
           loading'[q] = IF ProcessOf[q] = p /\ loading[q] # NoList
                         THEN [loading[q] EXCEPT !.crossed = TRUE] ELSE loading[q]
  BY <1>1, MaxEditsAssumption DEF NumberEdit, InvalidateBlocklistCache, BlocklistTypeOK
<1>4. \A q \in Requests :
        loading[q] # NoList => [loading[q] EXCEPT !.crossed = TRUE] \in Copy
  BY DEF BlocklistTypeOK, Copy
<1>5. BlocklistTypeOK'
  BY <1>1, <1>2, <1>3, <1>4 DEF BlocklistTypeOK, NumberEdit
<1>6. CopiesReflectEdits'
  <2>1. \A o \in Processes : own'[o] <= edits'
    BY <1>3 DEF BlocklistTypeOK, CopiesReflectEdits
  <2>2. ASSUME NEW q \in Requests, loading'[q] # NoList, loading'[q].at < own'[ProcessOf[q]]
        PROVE  loading'[q].crossed
    <3>1. CASE ProcessOf[q] = p
      <4>1. loading[q] # NoList
        BY <1>3, <2>2, <3>1
      <4>2. loading[q] \in Copy /\ loading'[q] = [loading[q] EXCEPT !.crossed = TRUE]
        BY <1>3, <3>1, <4>1 DEF BlocklistTypeOK
      <4> QED
        BY <4>2 DEF Copy
    <3>2. CASE ProcessOf[q] # p
      BY <1>3, <2>2, <3>2, ProcessOfAssumption DEF BlocklistTypeOK, CopiesReflectEdits
    <3> QED
      BY <3>1, <3>2
  <2> QED
    BY <2>1, <2>2 DEF CopiesReflectEdits
<1>7. OwnEditsAreInForce'
  BY <1>3 DEF BlocklistTypeOK, OwnEditsAreInForce
<1> QED
  BY <1>5, <1>6, <1>7

LEMMA ExpireKeepsList ==
  ASSUME BlocklistInv, NEW p \in Processes, Expire(p)
  PROVE  BlocklistInv'
  BY DEF BlocklistInv, BlocklistTypeOK, CopiesReflectEdits, OwnEditsAreInForce, Expire, tableVars

LEMMA QueryKeepsList ==
  ASSUME BlocklistInv, NEW q \in Requests, LoadQuery(q)
  PROVE  BlocklistInv'
<1> USE DEF BlocklistInv
<1> DEFINE new == [list |-> enabled \ Broken, at |-> edits, crossed |-> FALSE]
<1>1. loading' = [loading EXCEPT ![q] = new] /\ UNCHANGED <<listed, enabled, edits, own, cache>>
  BY DEF LoadQuery, tableVars
<1>2. new \in Copy /\ new.at = edits
  BY DEF BlocklistTypeOK, Copy
<1> HIDE DEF new
<1>3. BlocklistTypeOK'
  BY <1>1, <1>2 DEF BlocklistTypeOK
<1>4. CopiesReflectEdits'
  <2>1. own[ProcessOf[q]] <= edits /\ own[ProcessOf[q]] \in Nat /\ edits \in Nat
    BY ProcessOfAssumption, MaxEditsAssumption DEF BlocklistTypeOK, CopiesReflectEdits
  <2> QED
    BY <1>1, <1>2, <2>1 DEF CopiesReflectEdits, BlocklistTypeOK
<1> QED
  BY <1>1, <1>3, <1>4 DEF OwnEditsAreInForce

LEMMA ReturnKeepsList ==
  ASSUME BlocklistInv, NEW q \in Requests, LoadReturn(q)
  PROVE  BlocklistInv'
  BY ProcessOfAssumption
  DEF BlocklistInv, BlocklistTypeOK, CopiesReflectEdits, OwnEditsAreInForce, LoadReturn, tableVars

LEMMA SameList ==
  ASSUME BlocklistInv, UNCHANGED blocklistVars
  PROVE  BlocklistInv'
  BY DEF BlocklistInv, BlocklistTypeOK, CopiesReflectEdits, OwnEditsAreInForce, blocklistVars,
         tableVars

\* Every step of the taxonomy leaves the list alone or is one of its operations.
LEMMA TaxonomyStepsTheList ==
  ASSUME [TaxonomyNext]_taxonomyVars
  PROVE  \/ UNCHANGED blocklistVars
         \/ \E p \in Processes : AdminEdit(p) \/ Expire(p)
         \/ \E q \in Requests : LoadQuery(q) \/ LoadReturn(q)
<1>1. CASE UNCHANGED taxonomyVars
  BY <1>1 DEF taxonomyVars
<1>2. ASSUME NEW q \in Requests, RunAutoApprove(q)
      PROVE  UNCHANGED blocklistVars \/ LoadQuery(q) \/ LoadReturn(q)
  BY <1>2
  DEF RunAutoApprove, StartSweep, ScoreCandidate, Score, ScoreNameHit, ScoreNameMiss,
      ScoreNameLoaded, Promote, MakeActive, HoldCandidate, NextCandidate, Finish
<1>3. ASSUME NEW u \in Submitters, NEW x \in Rows,
             ResolveSuggestion(u, x) \/ \E q \in Requests : SuggestPending(q, u, x)
      PROVE  UNCHANGED blocklistVars
  BY <1>3 DEF ResolveSuggestion, SuggestPending
<1>4. ASSUME NEW x \in Rows, ApprovePending(x) \/ RejectPending(x)
      PROVE  UNCHANGED blocklistVars
  BY <1>4 DEF ApprovePending, RejectPending
<1> QED
  BY <1>1, <1>2, <1>3, <1>4 DEF TaxonomyNext, EditBlocklist, ExpireCopy

LEMMA BlocklistStep == BlocklistInv /\ [TaxonomyNext]_taxonomyVars => BlocklistInv'
  BY TaxonomyStepsTheList, AdminEditKeepsList, ExpireKeepsList, QueryKeepsList, ReturnKeepsList,
     SameList

\* blocklist.ts:10: an edit is in force at once in the process that made it,
\* unless a load of that process crossed it, for any processes and edits.
THEOREM TaxonomyOwnEdits == TaxonomySpec => []OwnEditsAreInForce
<1>1. TaxonomyInit => BlocklistInv
  BY BlocklistInitInv DEF TaxonomyInit
<1>2. BlocklistInv => OwnEditsAreInForce
  BY DEF BlocklistInv
<1> QED
  BY <1>1, <1>2, BlocklistStep, PTL DEF TaxonomySpec

-----------------------------------------------------------------------------
(* The rows and the jobs.                                                  *)

\* A job has a candidate as long as it scores it, and clears no other.
JobsScore ==
  \A q \in Requests :
    /\ jobStep[q] \in {"names", "promote"} => candidate[q] \in Rows
    /\ jobStep[q] \in {"idle", "pick"} => q \notin cleared

SuggestedRowTypeOK ==
  /\ standing \in [Rows -> {"absent", "pending", "active", "rejected"}]
  /\ suggestedBy \in [Rows -> Submitters \cup {Nobody}]
  /\ modLog \in [Rows -> Seq({"approve", "auto", "reject"})]

AutoJobTypeOK ==
  /\ jobStep \in [Requests -> {"idle", "pick", "names", "promote"}]
  /\ candidates \in [Requests -> SUBSET Rows]
  /\ candidate \in [Requests -> Rows \cup {NoRow}]
  /\ cleared \in SUBSET Requests
  /\ overtaken \in [Requests -> SUBSET Rows]

TaxonomyInv == SuggestedRowTypeOK /\ AutoJobTypeOK /\ JobsScore

LEMMA TaxonomyInitInv == TaxonomyInit => TaxonomyInv
  BY DEF TaxonomyInit, TaxonomyInv, SuggestedRowTypeOK, AutoJobTypeOK, JobsScore

\* A suggestion inserts one pending row, or none.
LEMMA SuggestInserts ==
  ASSUME SuggestedRowTypeOK, NEW u \in Submitters, NEW x \in Rows, Suggest(u, x)
  PROVE  /\ SuggestedRowTypeOK'
         /\ modLog' = modLog
         /\ \A y \in Rows :
              standing'[y] # standing[y] => standing[y] = "absent" /\ standing'[y] = "pending"
  BY DEF SuggestedRowTypeOK, Suggest, rowVars

\* A pending row gets a decision, logged with it.
Decided(x, to, action) ==
  /\ standing[x] = "pending"
  /\ standing' = [standing EXCEPT ![x] = to]
  /\ modLog' = [modLog EXCEPT ![x] = Append(modLog[x], action)]
  /\ UNCHANGED suggestedBy

Verdicts == {<<"active", "approve">>, <<"active", "auto">>, <<"rejected", "reject">>}

LEMMA DecidedType ==
  ASSUME SuggestedRowTypeOK, NEW x \in Rows, NEW v \in Verdicts, Decided(x, v[1], v[2])
  PROVE  SuggestedRowTypeOK'
<1>1. Append(modLog[x], v[2]) \in Seq({"approve", "auto", "reject"})
  <2>1. modLog[x] \in Seq({"approve", "auto", "reject"}) /\ v[2] \in {"approve", "auto", "reject"}
    BY DEF SuggestedRowTypeOK, Verdicts
  <2> QED
    BY <2>1
<1> QED
  BY <1>1 DEF SuggestedRowTypeOK, Decided, Verdicts

\* The next candidate of a job: what is left of the one before.
LEMMA NextCandidateJobs ==
  ASSUME AutoJobTypeOK, JobsScore, NEW q \in Requests, NEW others \in SUBSET Rows,
         NextCandidate(q, others)
  PROVE  AutoJobTypeOK' /\ JobsScore' /\ UNCHANGED suggestedBy
<1>1. /\ jobStep' = [jobStep EXCEPT ![q] = "pick"]
      /\ candidate' = [candidate EXCEPT ![q] = NoRow]
      /\ cleared' = cleared \ {q}
      /\ overtaken' = [s \in Requests |->
                         IF s = q THEN {}
                         ELSE IF jobStep[s] \in {"names", "promote"}
                              THEN overtaken[s] \cup others ELSE overtaken[s]]
      /\ UNCHANGED <<suggestedBy, candidates>>
  BY DEF NextCandidate
<1>2. overtaken' \in [Requests -> SUBSET Rows]
  BY <1>1 DEF AutoJobTypeOK
<1> QED
  BY <1>1, <1>2 DEF AutoJobTypeOK, JobsScore

LEMMA SuggestPendingKeepsInv ==
  ASSUME TaxonomyInv, NEW u \in Submitters, NEW x \in Rows, NEW q \in Requests,
         SuggestPending(q, u, x)
  PROVE  TaxonomyInv'
<1>1. SuggestedRowTypeOK'
  BY SuggestInserts DEF SuggestPending, TaxonomyInv
<1>2. /\ jobStep[q] = "idle"
      /\ jobStep' = [jobStep EXCEPT ![q] = "pick"]
      /\ \E chosen \in SUBSET Rows : candidates' = [candidates EXCEPT ![q] = chosen]
      /\ UNCHANGED <<candidate, cleared, overtaken>>
  <2>1. {y \in {x} : standing'[y] = "pending"} \in SUBSET Rows
    OBVIOUS
  <2> QED
    BY <2>1 DEF SuggestPending
<1> QED
  BY <1>1, <1>2 DEF TaxonomyInv, AutoJobTypeOK, JobsScore

LEMMA ModeratorsKeepInv ==
  ASSUME TaxonomyInv, NEW x \in Rows, ApprovePending(x) \/ RejectPending(x)
  PROVE  TaxonomyInv'
<1>1. SuggestedRowTypeOK'
  <2>1. Decided(x, "active", "approve") \/ Decided(x, "rejected", "reject")
    BY DEF ApprovePending, RejectPending, Decided
  <2>2. <<"active", "approve">> \in Verdicts /\ <<"rejected", "reject">> \in Verdicts
    BY DEF Verdicts
  <2> QED
    BY <2>1, <2>2, DecidedType DEF TaxonomyInv
<1>2. overtaken' \in [Requests -> SUBSET Rows] /\ UNCHANGED <<jobStep, candidates, candidate, cleared>>
  BY DEF TaxonomyInv, AutoJobTypeOK, ApprovePending, RejectPending, Activated, jobVars
<1> QED
  BY <1>1, <1>2 DEF TaxonomyInv, AutoJobTypeOK, JobsScore

LEMMA StartKeepsInv ==
  ASSUME TaxonomyInv, NEW q \in Requests, StartSweep(q)
  PROVE  TaxonomyInv'
  BY DEF TaxonomyInv, SuggestedRowTypeOK, AutoJobTypeOK, JobsScore, StartSweep, rowVars

LEMMA ScoreKeepsInv ==
  ASSUME TaxonomyInv, NEW q \in Requests, NEW x, NEW near, Score(q, x, near)
  PROVE  TaxonomyInv'
  BY DEF TaxonomyInv, SuggestedRowTypeOK, AutoJobTypeOK, JobsScore, Score, rowVars

LEMMA AnsweredKeepsInv ==
  ASSUME TaxonomyInv, NEW q \in Requests, NEW list, jobStep[q] = "names", Answered(q, list)
  PROVE  TaxonomyInv'
  BY DEF TaxonomyInv, SuggestedRowTypeOK, AutoJobTypeOK, JobsScore, Answered, rowVars

LEMMA PromoteKeepsInv ==
  ASSUME TaxonomyInv, NEW q \in Requests, Promote(q)
  PROVE  TaxonomyInv'
<1>1. candidate[q] \in Rows
  BY DEF TaxonomyInv, JobsScore, Promote
<1>2. CASE MakeActive(q)
  <2>1. AutoJobTypeOK' /\ JobsScore' /\ UNCHANGED suggestedBy
    BY <1>1, <1>2, NextCandidateJobs DEF TaxonomyInv, MakeActive
  <2>2. SuggestedRowTypeOK'
    BY <1>1, <1>2, <2>1 DEF TaxonomyInv, SuggestedRowTypeOK, MakeActive
  <2> QED
    BY <2>1, <2>2 DEF TaxonomyInv
<1>3. CASE HoldCandidate(q)
  <2>1. AutoJobTypeOK' /\ JobsScore' /\ UNCHANGED suggestedBy
    BY <1>3, NextCandidateJobs DEF TaxonomyInv, HoldCandidate
  <2> QED
    BY <1>3, <2>1 DEF TaxonomyInv, SuggestedRowTypeOK, HoldCandidate
<1> QED
  BY <1>2, <1>3 DEF Promote

LEMMA FinishKeepsInv ==
  ASSUME TaxonomyInv, NEW q \in Requests, Finish(q)
  PROVE  TaxonomyInv'
  BY DEF TaxonomyInv, SuggestedRowTypeOK, AutoJobTypeOK, JobsScore, Finish, rowVars

LEMMA SameRowsAndJobs ==
  ASSUME TaxonomyInv, UNCHANGED <<rowVars, jobVars>>
  PROVE  TaxonomyInv'
  BY DEF TaxonomyInv, SuggestedRowTypeOK, AutoJobTypeOK, JobsScore, rowVars, jobVars

LEMMA TaxonomyKeeps == TaxonomyInv /\ [TaxonomyNext]_taxonomyVars => TaxonomyInv'
<1> SUFFICES ASSUME TaxonomyInv, [TaxonomyNext]_taxonomyVars
             PROVE  TaxonomyInv'
  OBVIOUS
<1>1. ASSUME NEW u \in Submitters, NEW x \in Rows, ResolveSuggestion(u, x)
      PROVE  TaxonomyInv'
  BY <1>1, SuggestInserts DEF ResolveSuggestion, TaxonomyInv, AutoJobTypeOK, JobsScore, jobVars
<1>2. ASSUME NEW q \in Requests, RunAutoApprove(q)
      PROVE  TaxonomyInv'
  <2>1. ASSUME ScoreNameHit(q) \/ ScoreNameLoaded(q)
        PROVE  TaxonomyInv'
    BY <2>1, AnsweredKeepsInv DEF ScoreNameHit, ScoreNameLoaded
  <2>2. ASSUME ScoreNameMiss(q)
        PROVE  TaxonomyInv'
    BY <2>2, SameRowsAndJobs DEF ScoreNameMiss
  <2>3. ASSUME ScoreCandidate(q)
        PROVE  TaxonomyInv'
    BY <2>3, ScoreKeepsInv DEF ScoreCandidate
  <2> QED
    BY <1>2, <2>1, <2>2, <2>3, StartKeepsInv, PromoteKeepsInv, FinishKeepsInv DEF RunAutoApprove
<1>3. ASSUME NEW p \in Processes, EditBlocklist(p) \/ ExpireCopy(p)
      PROVE  TaxonomyInv'
  BY <1>3, SameRowsAndJobs DEF EditBlocklist, ExpireCopy
<1>4. CASE UNCHANGED taxonomyVars
  BY <1>4, SameRowsAndJobs DEF taxonomyVars
<1> QED
  BY <1>1, <1>2, <1>3, <1>4, SuggestPendingKeepsInv, ModeratorsKeepInv DEF TaxonomyNext

\* Taxonomy.tla and Blocklist.tla: every variable keeps its type.
THEOREM TaxonomyTypes == TaxonomySpec => []TaxonomyTypeOK
<1>1. TaxonomyInit => BlocklistInv
  BY BlocklistInitInv DEF TaxonomyInit
<1>2. BlocklistInv /\ TaxonomyInv => TaxonomyTypeOK
  BY DEF BlocklistInv, TaxonomyInv, SuggestedRowTypeOK, AutoJobTypeOK, TaxonomyTypeOK
<1> QED
  BY <1>1, <1>2, TaxonomyInitInv, BlocklistStep, TaxonomyKeeps, PTL DEF TaxonomySpec

-----------------------------------------------------------------------------
(* Decisions.                                                              *)

\* The log of a suggested row says what its status says.
LogOfStatus ==
  \A x \in Rows \ Curated :
    /\ standing[x] \in {"absent", "pending"} => modLog[x] = << >>
    /\ standing[x] = "active" => modLog[x] \in {<<"approve">>, <<"auto">>}
    /\ standing[x] = "rejected" => modLog[x] = <<"reject">>

\* What a step does to the rows: nothing, an insertion, or one decision.
LEMMA RowsStep ==
  ASSUME TaxonomyInv, [TaxonomyNext]_taxonomyVars
  PROVE  \/ UNCHANGED <<standing, modLog>>
         \/ /\ modLog' = modLog
            /\ \A y \in Rows :
                 standing'[y] # standing[y] => standing[y] = "absent" /\ standing'[y] = "pending"
         \/ \E x \in Rows, v \in Verdicts : Decided(x, v[1], v[2])
<1> DEFINE Goal == \/ UNCHANGED <<standing, modLog>>
                   \/ /\ modLog' = modLog
                      /\ \A y \in Rows :
                           standing'[y] # standing[y] =>
                             standing[y] = "absent" /\ standing'[y] = "pending"
                   \/ \E x \in Rows, v \in Verdicts : Decided(x, v[1], v[2])
<1> SUFFICES Goal
  OBVIOUS
<1>1. ASSUME NEW u \in Submitters, NEW x \in Rows,
             ResolveSuggestion(u, x) \/ \E q \in Requests : SuggestPending(q, u, x)
      PROVE  Goal
  BY <1>1, SuggestInserts DEF TaxonomyInv, ResolveSuggestion, SuggestPending
<1>2. ASSUME NEW x \in Rows, ApprovePending(x) \/ RejectPending(x)
      PROVE  Goal
  <2>1. Decided(x, "active", "approve") \/ Decided(x, "rejected", "reject")
    BY <1>2 DEF ApprovePending, RejectPending, Decided
  <2>2. \E v \in Verdicts : Decided(x, v[1], v[2])
    BY <2>1 DEF Verdicts
  <2> QED
    BY <2>2
<1>3. ASSUME NEW q \in Requests, RunAutoApprove(q)
      PROVE  Goal
  <2>1. ASSUME Promote(q)
        PROVE  Goal
    <3>1. candidate[q] \in Rows
      BY <2>1 DEF TaxonomyInv, JobsScore, Promote
    <3>2. Decided(candidate[q], "active", "auto") \/ UNCHANGED <<standing, modLog>>
      BY <2>1 DEF Promote, MakeActive, HoldCandidate, NextCandidate, Decided
    <3>3. <<"active", "auto">> \in Verdicts
      BY DEF Verdicts
    <3> QED
      BY <3>1, <3>2, <3>3
  <2>2. ASSUME ~ Promote(q)
        PROVE  Goal
    BY <1>3, <2>2
    DEF RunAutoApprove, StartSweep, ScoreCandidate, Score, ScoreNameHit, ScoreNameMiss,
        ScoreNameLoaded, Answered, Finish, rowVars
  <2> QED
    BY <2>1, <2>2
<1>4. ASSUME NEW p \in Processes, EditBlocklist(p) \/ ExpireCopy(p)
      PROVE  Goal
  BY <1>4 DEF EditBlocklist, ExpireCopy, rowVars
<1>5. CASE UNCHANGED taxonomyVars
  BY <1>5 DEF taxonomyVars, rowVars
<1> QED
  BY <1>1, <1>2, <1>3, <1>4, <1>5 DEF TaxonomyNext

LEMMA DecidedKeepsLog ==
  ASSUME SuggestedRowTypeOK, LogOfStatus, NEW x \in Rows, NEW v \in Verdicts, Decided(x, v[1], v[2])
  PROVE  LogOfStatus'
<1> SUFFICES ASSUME NEW y \in Rows \ Curated
             PROVE  /\ standing'[y] \in {"absent", "pending"} => modLog'[y] = << >>
                    /\ standing'[y] = "active" => modLog'[y] \in {<<"approve">>, <<"auto">>}
                    /\ standing'[y] = "rejected" => modLog'[y] = <<"reject">>
  BY DEF LogOfStatus
<1>1. CASE y # x
  BY <1>1 DEF SuggestedRowTypeOK, LogOfStatus, Decided
<1>2. CASE y = x
  <2>1. modLog[x] = << >>
    BY <1>2 DEF LogOfStatus, Decided
  <2>2. standing'[x] = v[1] /\ modLog'[x] = Append(<< >>, v[2])
    BY <2>1 DEF SuggestedRowTypeOK, Decided
  <2>3. Append(<< >>, v[2]) = <<v[2]>>
    OBVIOUS
  <2>4. v \in {<<"active", "approve">>, <<"active", "auto">>, <<"rejected", "reject">>}
    BY DEF Verdicts
  <2> QED
    BY <1>2, <2>2, <2>3, <2>4
<1> QED
  BY <1>1, <1>2

LEMMA LogStep ==
  TaxonomyInv /\ LogOfStatus /\ [TaxonomyNext]_taxonomyVars => LogOfStatus'
<1> SUFFICES ASSUME TaxonomyInv, LogOfStatus, [TaxonomyNext]_taxonomyVars
             PROVE  LogOfStatus'
  OBVIOUS
<1>1. CASE UNCHANGED <<standing, modLog>>
  BY <1>1 DEF LogOfStatus
<1>2. CASE /\ modLog' = modLog
           /\ \A y \in Rows :
                standing'[y] # standing[y] => standing[y] = "absent" /\ standing'[y] = "pending"
  BY <1>2 DEF LogOfStatus
<1> QED
  BY <1>1, <1>2, RowsStep, DecidedKeepsLog DEF TaxonomyInv

\* Reversing a log of at most one entry.
LEMMA ReverseShort ==
  /\ Reverse(<< >>) = << >>
  /\ \A a \in {"approve", "auto", "reject"} : Reverse(<<a>>) = <<a>>
  BY DEF Reverse

\* moderation/shared.ts:9: a suggested row is decided at most once and its audit
\* trail is that decision, for any rows, moderators, inline checks and sweeps.
THEOREM TaxonomyDecidedOnce == TaxonomySpec => []DecidedOnce
<1>1. TaxonomyInit => LogOfStatus
  BY CuratedAssumption DEF TaxonomyInit, LogOfStatus
<1>2. LogOfStatus => DecidedOnce
  BY ReverseShort DEF LogOfStatus, DecidedOnce, ListPending, SearchActive, ListModActions
<1> QED
  BY <1>1, <1>2, TaxonomyInitInv, TaxonomyKeeps, LogStep, PTL DEF TaxonomySpec

-----------------------------------------------------------------------------
(* Near-duplicates.                                                        *)

Scoring(q) == jobStep[q] \in {"names", "promote"}

\* A candidate that is still cleared has no active near-duplicate but those made
\* active since its nearest match was read.
ClearedKnows ==
  \A q \in Requests :
    Scoring(q) /\ q \in cleared => NearestActiveMatch(candidate[q]) \subseteq overtaken[q]

\* The step leaves q's candidate as it is, and tells q of every row it activates.
Carried(q) ==
  /\ Scoring(q)
  /\ candidate'[q] = candidate[q]
  /\ q \in cleared' => q \in cleared
  /\ overtaken[q] \subseteq overtaken'[q]
  /\ \A y \in Rows : standing'[y] = "active" => standing[y] = "active" \/ y \in overtaken'[q]

LEMMA CarriedKnows ==
  ASSUME ClearedKnows,
         \A q \in Requests : Scoring(q)' /\ q \in cleared' => Carried(q)
  PROVE  ClearedKnows'
<1> SUFFICES ASSUME NEW q \in Requests, Scoring(q)', q \in cleared',
                    NEW y \in NearestActiveMatch(candidate[q])'
             PROVE  y \in overtaken'[q]
  BY DEF ClearedKnows
<1>1. Carried(q)
  OBVIOUS
<1>2. y \in Rows /\ standing'[y] = "active" /\ y \in NearTo(candidate[q]) \ {candidate[q]}
  BY <1>1 DEF Carried, NearestActiveMatch, NearTo
<1>3. CASE standing[y] = "active"
  BY <1>1, <1>2, <1>3 DEF Carried, ClearedKnows, NearestActiveMatch
<1>4. CASE standing[y] # "active"
  BY <1>1, <1>2, <1>4 DEF Carried
<1> QED
  BY <1>3, <1>4

\* Steps that leave the jobs alone and activate nothing.
LEMMA JobsAloneKnow ==
  ASSUME ClearedKnows, UNCHANGED jobVars,
         \A y \in Rows : standing'[y] = "active" => standing[y] = "active"
  PROVE  ClearedKnows'
  BY CarriedKnows DEF Carried, Scoring, jobVars

LEMMA SuggestKnows ==
  ASSUME TaxonomyInv, ClearedKnows, NEW u \in Submitters, NEW x \in Rows,
         ResolveSuggestion(u, x) \/ \E q \in Requests : SuggestPending(q, u, x)
  PROVE  ClearedKnows'
<1>1. \A y \in Rows : standing'[y] = "active" => standing[y] = "active"
  BY SuggestInserts DEF ResolveSuggestion, SuggestPending, TaxonomyInv
<1>2. CASE ResolveSuggestion(u, x)
  BY <1>1, <1>2, JobsAloneKnow DEF ResolveSuggestion
<1>3. ASSUME NEW q \in Requests, SuggestPending(q, u, x)
      PROVE  ClearedKnows'
  BY <1>1, <1>3, CarriedKnows DEF SuggestPending, Carried, Scoring, TaxonomyInv, AutoJobTypeOK
<1> QED
  BY <1>2, <1>3

LEMMA ModeratorsKnow ==
  ASSUME TaxonomyInv, ClearedKnows, NEW x \in Rows, ApprovePending(x) \/ RejectPending(x)
  PROVE  ClearedKnows'
<1>1. CASE ApprovePending(x)
  <2>1. /\ UNCHANGED <<jobStep, candidate, cleared>>
        /\ \A y \in Rows : standing'[y] = "active" => standing[y] = "active" \/ y = x
        /\ \A q \in Requests :
             Scoring(q) => overtaken'[q] = overtaken[q] \cup {x}
    BY <1>1 DEF ApprovePending, Activated, Scoring, TaxonomyInv, SuggestedRowTypeOK
  <2> QED
    BY <2>1, CarriedKnows DEF Carried, Scoring
<1>2. CASE RejectPending(x)
  BY <1>2, JobsAloneKnow DEF RejectPending, TaxonomyInv, SuggestedRowTypeOK
<1> QED
  BY <1>1, <1>2

LEMMA StartOrFinishKnows ==
  ASSUME TaxonomyInv, ClearedKnows, NEW r \in Requests, StartSweep(r) \/ Finish(r)
  PROVE  ClearedKnows'
  BY CarriedKnows DEF StartSweep, Finish, Carried, Scoring, TaxonomyInv, AutoJobTypeOK, rowVars

LEMMA ScoreKnows ==
  ASSUME TaxonomyInv, ClearedKnows, NEW r \in Requests, ScoreCandidate(r)
  PROVE  ClearedKnows'
<1>1. PICK x \in candidates[r] : Score(r, x, NearestActiveMatch(x))
  BY DEF ScoreCandidate
<1>2. /\ jobStep[r] = "pick" /\ r \notin cleared
      /\ candidate' = [candidate EXCEPT ![r] = x]
      /\ cleared' = IF Trusted(x) /\ NearestActiveMatch(x) = {} THEN cleared \cup {r} ELSE cleared
      /\ jobStep' = [jobStep EXCEPT ![r] = "names"]
      /\ UNCHANGED <<overtaken, standing>>
  BY <1>1 DEF Score, rowVars, TaxonomyInv, JobsScore
<1> SUFFICES ASSUME NEW q \in Requests, Scoring(q)', q \in cleared'
             PROVE  NearestActiveMatch(candidate[q])' \subseteq overtaken'[q]
  BY DEF ClearedKnows
<1>3. CASE q = r
  <2>1. NearestActiveMatch(x) = {} /\ candidate'[r] = x
    BY <1>2, <1>3 DEF TaxonomyInv, AutoJobTypeOK
  <2> QED
    BY <1>2, <1>3, <2>1 DEF NearestActiveMatch, NearTo
<1>4. CASE q # r
  <2>1. /\ Scoring(q) /\ q \in cleared
        /\ candidate'[q] = candidate[q] /\ overtaken'[q] = overtaken[q]
    BY <1>2, <1>4 DEF TaxonomyInv, AutoJobTypeOK, Scoring
  <2> QED
    BY <1>2, <2>1 DEF ClearedKnows, NearestActiveMatch, NearTo
<1> QED
  BY <1>3, <1>4

LEMMA AnsweredKnows ==
  ASSUME TaxonomyInv, ClearedKnows, NEW r \in Requests, NEW list, jobStep[r] = "names",
         Answered(r, list)
  PROVE  ClearedKnows'
<1>1. /\ cleared' \subseteq cleared
      /\ jobStep' = [jobStep EXCEPT ![r] = "promote"]
      /\ UNCHANGED <<candidate, overtaken, standing>>
  BY DEF Answered, rowVars
<1>2. \A q \in Requests : Scoring(q)' => Scoring(q)
  BY <1>1 DEF Scoring, TaxonomyInv, AutoJobTypeOK
<1> QED
  BY <1>1, <1>2, CarriedKnows DEF Carried

LEMMA PromoteKnows ==
  ASSUME TaxonomyInv, ClearedKnows, NEW r \in Requests, Promote(r)
  PROVE  ClearedKnows'
<1>1. PICK others \in SUBSET Rows :
        /\ NextCandidate(r, others)
        /\ \A y \in Rows : standing'[y] = "active" => standing[y] = "active" \/ y \in others
  <2>1. candidate[r] \in Rows
    BY DEF TaxonomyInv, JobsScore, Promote
  <2>2. CASE MakeActive(r)
    BY <2>1, <2>2 DEF MakeActive, TaxonomyInv, SuggestedRowTypeOK
  <2>3. CASE HoldCandidate(r)
    BY <2>3 DEF HoldCandidate
  <2> QED
    BY <2>2, <2>3 DEF Promote
<1>2. /\ jobStep' = [jobStep EXCEPT ![r] = "pick"]
      /\ candidate' = [candidate EXCEPT ![r] = NoRow]
      /\ cleared' = cleared \ {r}
      /\ \A q \in Requests : q # r /\ Scoring(q) => overtaken'[q] = overtaken[q] \cup others
  BY <1>1 DEF NextCandidate, Scoring
<1>3. ASSUME NEW q \in Requests, Scoring(q)', q \in cleared'
      PROVE  Carried(q)
  <2>1. q # r /\ Scoring(q) /\ candidate'[q] = candidate[q]
    BY <1>2, <1>3 DEF Scoring, TaxonomyInv, AutoJobTypeOK
  <2> QED
    BY <1>1, <1>2, <2>1 DEF Carried
<1> QED
  BY <1>3, CarriedKnows

LEMMA KnowsStep ==
  TaxonomyInv /\ ClearedKnows /\ [TaxonomyNext]_taxonomyVars => ClearedKnows'
<1> SUFFICES ASSUME TaxonomyInv, ClearedKnows, [TaxonomyNext]_taxonomyVars
             PROVE  ClearedKnows'
  OBVIOUS
<1>1. ASSUME NEW q \in Requests, RunAutoApprove(q)
      PROVE  ClearedKnows'
  <2>1. ASSUME ScoreNameHit(q) \/ ScoreNameLoaded(q)
        PROVE  ClearedKnows'
    BY <2>1, AnsweredKnows DEF ScoreNameHit, ScoreNameLoaded
  <2>2. ASSUME ScoreNameMiss(q)
        PROVE  ClearedKnows'
    BY <2>2, JobsAloneKnow DEF ScoreNameMiss, rowVars
  <2> QED
    BY <1>1, <2>1, <2>2, StartOrFinishKnows, ScoreKnows, PromoteKnows DEF RunAutoApprove
<1>2. ASSUME NEW p \in Processes, EditBlocklist(p) \/ ExpireCopy(p)
      PROVE  ClearedKnows'
  BY <1>2, JobsAloneKnow DEF EditBlocklist, ExpireCopy, rowVars
<1>3. CASE UNCHANGED taxonomyVars
  BY <1>3, JobsAloneKnow DEF taxonomyVars, rowVars
<1> QED
  BY <1>1, <1>2, <1>3, SuggestKnows, ModeratorsKnow DEF TaxonomyNext

\* dedup.ts:2: whatever else is at work, the heuristic promotes a row beside an
\* active near-duplicate only if that was made active after it read the nearest
\* match.
THEOREM TaxonomyBacksOff == TaxonomySpec => BacksOffFromTwins
<1>1. TaxonomyInit => ClearedKnows
  BY DEF TaxonomyInit, ClearedKnows
<1>2. ASSUME TaxonomyInv, ClearedKnows, NEW q \in Requests, Promote(q),
             standing'[candidate[q]] # standing[candidate[q]]
      PROVE  NearestActiveMatch(candidate[q]) \subseteq overtaken[q]
  <2>1. jobStep[q] = "promote" /\ q \in cleared
    BY <1>2 DEF Promote, HoldCandidate
  <2> QED
    BY <1>2, <2>1 DEF ClearedKnows, Scoring
<1>3. TaxonomyInv /\ ClearedKnows /\ [TaxonomyNext]_taxonomyVars =>
        [\A q \in Requests :
           (Promote(q) /\ standing'[candidate[q]] # standing[candidate[q]])
             => NearestActiveMatch(candidate[q]) \subseteq overtaken[q]]_taxonomyVars
  BY <1>2
<1> QED
  BY <1>1, <1>3, TaxonomyInitInv, TaxonomyKeeps, KnowsStep, PTL
  DEF TaxonomySpec, BacksOffFromTwins

-----------------------------------------------------------------------------
(***************************************************************************)
(* RoleAliases, for any moderators and aliases: its types, and that no     *)
(* folded name is lost as long as the commands on one canonical row do not *)
(* overlap.                                                                *)
(***************************************************************************)

CommandBusy(m) == cmdStep[m] # "idle"

\* A command under way is about an alias, and past its second read that alias
\* has a canonical row.
RoleBusy ==
  \A m \in Moderators :
    /\ CommandBusy(m) => aliasOf[m] \in Aliases
    /\ cmdStep[m] = "canon" => Canon[aliasOf[m]] # NoRole

RoleTypeInv == RoleTypeOK /\ RoleBusy

\* Two commands are about different aliases of different canonical rows.
Apart ==
  \A m, n \in Moderators :
    m # n /\ CommandBusy(m) /\ CommandBusy(n) =>
      /\ aliasOf[m] # aliasOf[n]
      /\ Canon[aliasOf[m]] = NoRole \/ Canon[aliasOf[m]] # Canon[aliasOf[n]]

\* What a command has read is still so.
ReadsHold ==
  \A m \in Moderators :
    /\ CommandBusy(m) => roleStatus[aliasOf[m]] = "pending"
    /\ cmdStep[m] = "canon" =>
         union[m] = folded[Canon[aliasOf[m]]] \cup {aliasOf[m]}

PendingIsUnlogged == \A a \in Aliases : roleStatus[a] = "pending" => roleLog[a] = << >>
MergedHasRow == \A a \in Aliases : roleStatus[a] = "merged" => Canon[a] # NoRole

FoldInv ==
  RoleTypeInv /\ Apart /\ ReadsHold /\ PendingIsUnlogged /\ MergedHasRow /\ FoldedNamesStay

-----------------------------------------------------------------------------
(* The types, whatever overlaps.                                           *)

LEMMA RoleInitTypes == RoleInit => RoleTypeInv
  BY DEF RoleInit, RoleTypeInv, RoleTypeOK, RoleBusy, CommandBusy

LEMMA LogRoleType ==
  ASSUME RoleTypeOK, NEW a \in Aliases, NEW action \in {"merge", "approve", "reject"},
         LogRole(a, action)
  PROVE  /\ roleLog' \in [Aliases -> Seq({"merge", "approve", "reject"})]
         /\ roleLog'[a] = Append(roleLog[a], action)
         /\ \A b \in Aliases : b # a => roleLog'[b] = roleLog[b]
  BY DEF RoleTypeOK, LogRole

LEMMA ReturnTypes ==
  ASSUME RoleTypeInv, NEW m \in Moderators, CmdReturn(m)
  PROVE  /\ cmdStep' \in [Moderators -> {"idle", "read", "canon"}]
         /\ aliasOf' \in [Moderators -> Aliases \cup {NoRole}]
         /\ union' \in [Moderators -> SUBSET Aliases]
         /\ RoleBusy'
  BY DEF RoleTypeInv, RoleTypeOK, RoleBusy, CommandBusy, CmdReturn

LEMMA RoleStepTypes == RoleTypeInv /\ [RoleNext]_roleVars => RoleTypeInv'
<1> SUFFICES ASSUME RoleTypeInv, [RoleNext]_roleVars
             PROVE  RoleTypeInv'
  OBVIOUS
<1> USE DEF RoleTypeInv
<1>1. ASSUME NEW m \in Moderators, NEW a \in Aliases, BeginApprove(m, a)
      PROVE  RoleTypeInv'
  BY <1>1 DEF BeginApprove, RoleTypeOK, RoleBusy, CommandBusy
<1>2. ASSUME NEW m \in Moderators, ReadCanonical(m)
      PROVE  RoleTypeInv'
  <2>1. /\ aliasOf[m] \in Aliases
        /\ folded[Canon[aliasOf[m]]] \in SUBSET Aliases
    BY <1>2 DEF ReadCanonical, RoleTypeOK, RoleBusy, CommandBusy, Canonical
  <2> QED
    BY <1>2, <2>1 DEF ReadCanonical, RoleTypeOK, RoleBusy, CommandBusy
<1>3. ASSUME NEW m \in Moderators, CommitFold(m)
      PROVE  RoleTypeInv'
  <2>1. aliasOf[m] \in Aliases
    BY <1>3 DEF CommitFold, RoleBusy, CommandBusy
  <2>2. folded' \in [Canonical -> SUBSET Aliases]
    BY <1>3 DEF CommitFold, RoleTypeOK
  <2>3. roleStatus' \in [Aliases -> {"pending", "active", "merged", "rejected"}]
    BY <1>3 DEF CommitFold, RoleTypeOK
  <2> QED
    BY <1>3, <2>1, <2>2, <2>3, LogRoleType, ReturnTypes DEF CommitFold, RoleTypeOK
<1>4. ASSUME NEW m \in Moderators, CommitNewRole(m)
      PROVE  RoleTypeInv'
  <2>1. aliasOf[m] \in Aliases
    BY <1>4 DEF CommitNewRole, RoleBusy, CommandBusy
  <2>2. /\ roleStatus' \in [Aliases -> {"pending", "active", "merged", "rejected"}]
        /\ folded' = folded
    BY <1>4 DEF CommitNewRole, RoleTypeOK
  <2> QED
    BY <1>4, <2>1, <2>2, LogRoleType, ReturnTypes DEF CommitNewRole, RoleTypeOK
<1>5. ASSUME NEW a \in Aliases, RejectPendingRole(a)
      PROVE  RoleTypeInv'
  <2>1. /\ roleStatus' \in [Aliases -> {"pending", "active", "merged", "rejected"}]
        /\ UNCHANGED <<folded, cmdStep, aliasOf, union>>
    BY <1>5 DEF RejectPendingRole, RoleTypeOK
  <2> QED
    BY <1>5, <2>1, LogRoleType DEF RejectPendingRole, RoleTypeOK, RoleBusy, CommandBusy
<1>6. CASE UNCHANGED roleVars
  BY <1>6 DEF roleVars, RoleTypeOK, RoleBusy, CommandBusy
<1> QED
  BY <1>1, <1>2, <1>3, <1>4, <1>5, <1>6 DEF RoleNext

\* RoleAliases.tla: every variable keeps its type.
THEOREM RoleTypes == RoleSpec => []RoleTypeOK
<1>1. RoleTypeInv => RoleTypeOK
  BY DEF RoleTypeInv
<1> QED
  BY <1>1, RoleInitTypes, RoleStepTypes, PTL DEF RoleSpec

-----------------------------------------------------------------------------
(* Commands that do not overlap on a canonical row.                        *)

LEMMA RoleInitFold == RoleInit => FoldInv
  BY RoleInitTypes
  DEF RoleInit, FoldInv, Apart, CommandBusy, ReadsHold, PendingIsUnlogged, MergedHasRow, FoldedNamesStay

\* A command that ends leaves the others apart, each with an alias of its own.
LEMMA ReturnKeepsApart ==
  ASSUME RoleTypeInv, Apart, NEW m \in Moderators, CommandBusy(m), CmdReturn(m)
  PROVE  /\ Apart'
         /\ \A n \in Moderators : CommandBusy(n)' =>
              /\ n # m /\ CommandBusy(n)
              /\ cmdStep'[n] = cmdStep[n] /\ aliasOf'[n] = aliasOf[n] /\ union'[n] = union[n]
              /\ aliasOf[n] \in Aliases /\ aliasOf[n] # aliasOf[m]
              /\ Canon[aliasOf[n]] = NoRole \/ Canon[aliasOf[n]] # Canon[aliasOf[m]]
<1>1. \A n \in Moderators : CommandBusy(n)' =>
        /\ n # m /\ CommandBusy(n)
        /\ cmdStep'[n] = cmdStep[n] /\ aliasOf'[n] = aliasOf[n] /\ union'[n] = union[n]
  BY DEF RoleTypeInv, RoleTypeOK, CommandBusy, CmdReturn
<1>2. Apart'
  BY <1>1 DEF Apart
<1> QED
  BY <1>1, <1>2 DEF Apart, RoleTypeInv, RoleBusy

LEMMA RoleStepFold ==
  ASSUME ~ Overlapping, FoldInv, [RoleNext]_roleVars
  PROVE  FoldInv'
<1> USE DEF FoldInv
<1>t. RoleTypeInv /\ RoleTypeInv'
  BY RoleStepTypes
<1>1. ASSUME NEW m \in Moderators, NEW a \in Aliases, BeginApprove(m, a)
      PROVE  FoldInv'
  <2>1. CanonFree(a) /\ roleStatus[a] = "pending"
    BY <1>1 DEF BeginApprove, ListPendingRoles
  <2>2. /\ cmdStep' = [cmdStep EXCEPT ![m] = "read"]
        /\ aliasOf' = [aliasOf EXCEPT ![m] = a]
        /\ UNCHANGED <<roleStatus, folded, roleLog, union>>
    BY <1>1 DEF BeginApprove
  <2>3. Apart'
    BY <1>t, <2>1, <2>2 DEF Apart, CommandBusy, CanonFree, RoleTypeInv, RoleTypeOK
  <2>4. ReadsHold'
    BY <1>t, <2>1, <2>2 DEF ReadsHold, CommandBusy, RoleTypeInv, RoleTypeOK
  <2> QED
    BY <1>t, <2>2, <2>3, <2>4 DEF PendingIsUnlogged, MergedHasRow, FoldedNamesStay
<1>2. ASSUME NEW m \in Moderators, ReadCanonical(m)
      PROVE  FoldInv'
  <2>1. /\ cmdStep[m] = "read"
        /\ cmdStep' = [cmdStep EXCEPT ![m] = "canon"]
        /\ union' = [union EXCEPT ![m] = folded[Canon[aliasOf[m]]] \cup {aliasOf[m]}]
        /\ UNCHANGED <<roleStatus, folded, roleLog, aliasOf>>
    BY <1>2 DEF ReadCanonical
  <2>2. Apart'
    BY <1>t, <2>1 DEF Apart, CommandBusy, RoleTypeInv, RoleTypeOK
  <2>3. ReadsHold'
    BY <1>t, <2>1 DEF ReadsHold, CommandBusy, RoleTypeInv, RoleTypeOK
  <2> QED
    BY <1>t, <2>1, <2>2, <2>3 DEF PendingIsUnlogged, MergedHasRow, FoldedNamesStay
<1>3. ASSUME NEW m \in Moderators, CommitFold(m)
      PROVE  FoldInv'
  <2> DEFINE b == aliasOf[m]
  <2>1. /\ b \in Aliases /\ CommandBusy(m) /\ Canon[b] # NoRole /\ Canon[b] \in Canonical
        /\ roleStatus[b] = "pending" /\ roleLog[b] = << >>
        /\ union[m] = folded[Canon[b]] \cup {b}
    BY <1>3, <1>t DEF CommitFold, RoleTypeInv, RoleBusy, CommandBusy, ReadsHold, PendingIsUnlogged, Canonical
  <2>2. /\ roleStatus' = [roleStatus EXCEPT ![b] = "merged"]
        /\ folded' = [folded EXCEPT ![Canon[b]] = union[m]]
        /\ LogRole(b, "merge") /\ CmdReturn(m)
    BY <1>3 DEF CommitFold
  <2> HIDE DEF b
  <2>3. /\ \A a \in Aliases : roleStatus'[a] = IF a = b THEN "merged" ELSE roleStatus[a]
        /\ \A c \in Canonical : folded'[c] = IF c = Canon[b] THEN folded[c] \cup {b} ELSE folded[c]
    BY <1>t, <2>1, <2>2 DEF RoleTypeInv, RoleTypeOK
  <2>4. \A a \in Aliases : roleLog'[a] = IF a = b THEN <<"merge">> ELSE roleLog[a]
    BY <1>t, <2>1, <2>2, LogRoleType DEF RoleTypeInv
  <2>5. Apart'
    BY <1>t, <2>1, <2>2, ReturnKeepsApart
  <2>6. ReadsHold'
    BY <1>t, <2>1, <2>2, <2>3, ReturnKeepsApart DEF ReadsHold, b, RoleTypeInv, RoleBusy, CommandBusy, Canonical
  <2>7. FoldedNamesStay'
    BY <1>t, <2>1, <2>3, <2>4 DEF FoldedNamesStay, MergedHasRow, Canonical
  <2>8. PendingIsUnlogged' /\ MergedHasRow'
    BY <2>1, <2>3, <2>4 DEF PendingIsUnlogged, MergedHasRow
  <2> QED
    BY <1>t, <2>5, <2>6, <2>7, <2>8
<1>4. ASSUME NEW m \in Moderators, CommitNewRole(m)
      PROVE  FoldInv'
  <2> DEFINE b == aliasOf[m]
  <2>1. b \in Aliases /\ CommandBusy(m) /\ roleStatus[b] = "pending"
    BY <1>4, <1>t DEF CommitNewRole, RoleTypeInv, RoleBusy, CommandBusy, ReadsHold
  <2>2. /\ roleStatus' = [roleStatus EXCEPT ![b] = "active"]
        /\ LogRole(b, "approve") /\ CmdReturn(m) /\ UNCHANGED folded
    BY <1>4 DEF CommitNewRole
  <2> HIDE DEF b
  <2>3. /\ \A a \in Aliases : roleStatus'[a] = IF a = b THEN "active" ELSE roleStatus[a]
        /\ \A a \in Aliases : a # b => roleLog'[a] = roleLog[a]
    BY <1>t, <2>1, <2>2, LogRoleType DEF RoleTypeInv, RoleTypeOK
  <2>4. Apart'
    BY <1>t, <2>1, <2>2, ReturnKeepsApart
  <2>5. ReadsHold'
    BY <1>t, <2>1, <2>2, <2>3, ReturnKeepsApart DEF ReadsHold, b, CommandBusy
  <2> QED
    BY <1>t, <2>1, <2>2, <2>3, <2>4, <2>5 DEF FoldedNamesStay, PendingIsUnlogged, MergedHasRow
<1>5. ASSUME NEW b \in Aliases, RejectPendingRole(b)
      PROVE  FoldInv'
  <2>1. /\ CanonFree(b) /\ roleStatus[b] = "pending"
        /\ roleStatus' = [roleStatus EXCEPT ![b] = "rejected"]
        /\ LogRole(b, "reject") /\ UNCHANGED <<folded, cmdStep, aliasOf, union>>
    BY <1>5 DEF RejectPendingRole
  <2>2. /\ \A a \in Aliases : roleStatus'[a] = IF a = b THEN "rejected" ELSE roleStatus[a]
        /\ \A a \in Aliases : a # b => roleLog'[a] = roleLog[a]
    BY <1>t, <2>1, LogRoleType DEF RoleTypeInv, RoleTypeOK
  <2>3. Apart'
    BY <2>1 DEF Apart, CommandBusy
  <2>4. ReadsHold'
    BY <1>t, <2>1, <2>2 DEF ReadsHold, CommandBusy, CanonFree, RoleTypeInv, RoleBusy
  <2> QED
    BY <1>t, <2>1, <2>2, <2>3, <2>4 DEF FoldedNamesStay, PendingIsUnlogged, MergedHasRow
<1>6. CASE UNCHANGED roleVars
  BY <1>t, <1>6
  DEF roleVars, Apart, CommandBusy, ReadsHold, PendingIsUnlogged, MergedHasRow, FoldedNamesStay
<1> QED
  BY <1>1, <1>2, <1>3, <1>4, <1>5, <1>6 DEF RoleNext

\* taxonomy.ts:127: as long as no two commands on one canonical row overlap, an
\* approved alias is in its canonical row for good, logged once, for any number
\* of moderators and aliases.
THEOREM RoleFoldedNamesStay ==
  ASSUME ~ Overlapping
  PROVE  RoleSpec => []FoldedNamesStay
<1>1. FoldInv => FoldedNamesStay
  BY DEF FoldInv
<1>2. FoldInv /\ [RoleNext]_roleVars => FoldInv'
  BY RoleStepFold
<1> QED
  BY <1>1, <1>2, RoleInitFold, PTL DEF RoleSpec

-----------------------------------------------------------------------------
(***************************************************************************)
(* Accounts, for any number of requests and rows: its types, and that a    *)
(* deletion closes the whole account but for what writes to it afterwards. *)
(***************************************************************************)

\* A request that has resolved its principal has a row; one on its way to Clerk
\* has deleted it.
VisitInv ==
  \A v \in Visits :
    /\ visit[v] \in {"resolved", "clerk"} => actor[v] \in UserIds
    /\ visit[v] = "clerk" => DeletedAt(actor[v])

AccountsTypeInv == AccountsTypeOK /\ VisitInv

\* A report on hold would be public after an approval, which looks at no account.
DownWithAccount ==
  \A u \in UserIds : DeletedAt(u) /\ u \notin touched => post[u] \in {"none", "deleted"}

ScrubbedStays ==
  \A u \in UserIds :
    account[u].state = "purged" /\ u \notin touched => ~account[u].pii /\ ~account[u].clerk

LiveHasPrincipal ==
  \A u \in UserIds : account[u].state = "live" /\ ~principal => u \in strays

AccountsInv == AccountsTypeInv /\ DownWithAccount /\ ScrubbedStays /\ LiveHasPrincipal

AccountRow == [state : {"absent", "live", "deleted", "expired", "purged"}, clerk : BOOLEAN, pii : BOOLEAN]

-----------------------------------------------------------------------------

LEMMA AccountsInitInv == AccountsInit => AccountsInv
  BY MaxUsersAssumption
  DEF AccountsInit, AccountsInv, AccountsTypeInv, AccountsTypeOK, VisitInv, DownWithAccount,
      ScrubbedStays, LiveHasPrincipal, NoAccount, DeletedAt

\* A request that ends.
LEMMA EndsVisit ==
  ASSUME AccountsTypeInv, NEW v \in Visits, Ends(v)
  PROVE  /\ visit' \in [Visits -> {"idle", "signed", "resolved", "clerk"}]
         /\ actor' \in [Visits -> 0 .. MaxUsers]
         /\ \A w \in Visits :
              visit'[w] # "idle" => visit'[w] = visit[w] /\ actor'[w] = actor[w]
  BY MaxUsersAssumption DEF AccountsTypeInv, AccountsTypeOK, Ends

\* A step that changes no account and adds no request past its first query.
LEMMA OtherVisitsKept ==
  ASSUME VisitInv,
         \A u \in UserIds : DeletedAt(u) => DeletedAt(u)',
         \A w \in Visits :
           visit'[w] \in {"resolved", "clerk"} => visit'[w] = visit[w] /\ actor'[w] = actor[w]
  PROVE  VisitInv'
  BY DEF VisitInv

LEMMA TouchType ==
  ASSUME AccountsTypeOK, NEW u \in UserIds, Touch(u)
  PROVE  /\ touched' \in SUBSET UserIds
         /\ touched \subseteq touched'
         /\ DeletedAt(u) => u \in touched'
         /\ \A w \in UserIds : w # u => (w \in touched' <=> w \in touched)
  BY DEF AccountsTypeOK, Touch

-----------------------------------------------------------------------------

LEMMA CurrentUserKeepsInv ==
  ASSUME AccountsInv, NEW v \in Visits, CurrentUser(v)
  PROVE  AccountsInv'
  BY DEF AccountsInv, AccountsTypeInv, AccountsTypeOK, VisitInv, DownWithAccount, ScrubbedStays,
         LiveHasPrincipal, CurrentUser, DeletedAt

LEMMA GetOrCreateKeepsInv ==
  ASSUME AccountsInv, NEW v \in Visits, GetOrCreateUserByClerkId(v)
  PROVE  AccountsInv'
<1> USE DEF AccountsInv, AccountsTypeInv
<1>1. PICK u \in UserIds :
        /\ u \in OwnRows \/ account[u].state = "absent"
        /\ actor' = [actor EXCEPT ![v] = u]
        /\ account' = [account EXCEPT ![u] =
                         [state |-> IF @.state = "absent" THEN "live" ELSE @.state,
                          clerk |-> TRUE, pii |-> TRUE]]
        /\ strays' = IF principal \/ account[u].state # "absent" THEN strays ELSE strays \cup {u}
        /\ visit' = [visit EXCEPT ![v] = "resolved"]
        /\ UNCHANGED <<principal, post, touched>>
  BY DEF GetOrCreateUserByClerkId
<1>2. /\ account' \in [UserIds -> AccountRow]
      /\ account'[u].state = IF account[u].state = "absent" THEN "live" ELSE account[u].state
      /\ \A w \in UserIds : w # u => account'[w] = account[w]
  BY <1>1 DEF AccountsTypeOK, AccountRow
<1>3. AccountsTypeOK'
  BY <1>1, <1>2, MaxUsersAssumption DEF AccountsTypeOK, AccountRow, UserIds
<1>4. \A w \in UserIds : DeletedAt(w)' <=> DeletedAt(w)
  BY <1>2 DEF DeletedAt
<1>5. VisitInv'
  <2> SUFFICES ASSUME NEW w \in Visits
               PROVE  /\ visit'[w] \in {"resolved", "clerk"} => actor'[w] \in UserIds
                      /\ visit'[w] = "clerk" => DeletedAt(actor[w])'
    BY DEF VisitInv
  <2>1. CASE w = v
    BY <1>1, <2>1 DEF AccountsTypeOK
  <2>2. CASE w # v
    BY <1>1, <1>4, <2>2 DEF AccountsTypeOK, VisitInv
  <2> QED
    BY <2>1, <2>2
<1>6. DownWithAccount'
  BY <1>1, <1>4 DEF DownWithAccount
<1>7. ScrubbedStays'
  BY <1>1, <1>2 DEF ScrubbedStays, OwnRows
<1>8. LiveHasPrincipal'
  BY <1>1, <1>2 DEF LiveHasPrincipal
<1> QED
  BY <1>3, <1>5, <1>6, <1>7, <1>8

LEMMA FileAsKeepsInv ==
  ASSUME AccountsInv, NEW v \in Visits, FileAs(v)
  PROVE  AccountsInv'
<1> USE DEF AccountsInv, AccountsTypeInv
<1> DEFINE u == actor[v]
<1>1. /\ u \in UserIds
      /\ \E status \in {"held", "public"} : post' = [post EXCEPT ![u] = status]
      /\ Touch(u) /\ Ends(v)
      /\ UNCHANGED <<principal, account, strays>>
  BY DEF FileAs, VisitInv
<1> HIDE DEF u
<1>2. AccountsTypeOK'
  BY <1>1, TouchType, EndsVisit DEF AccountsTypeOK
<1>3. VisitInv'
  BY <1>1, EndsVisit, OtherVisitsKept DEF DeletedAt
<1>4. DownWithAccount'
  BY <1>1, TouchType DEF DownWithAccount, DeletedAt, AccountsTypeOK
<1>5. ScrubbedStays' /\ LiveHasPrincipal'
  BY <1>1, TouchType DEF ScrubbedStays, LiveHasPrincipal
<1> QED
  BY <1>2, <1>3, <1>4, <1>5

LEMMA SettingsKeepInv ==
  ASSUME AccountsInv, NEW v \in Visits, UpdateUserSettings(v)
  PROVE  AccountsInv'
<1> USE DEF AccountsInv, AccountsTypeInv
<1> DEFINE u == actor[v]
<1>1. PICK name \in BOOLEAN :
        /\ u \in UserIds
        /\ account' = [account EXCEPT ![u].pii = account[u].pii \/ name]
        /\ Touch(u) /\ Ends(v)
        /\ UNCHANGED <<principal, post, strays>>
  BY DEF UpdateUserSettings, VisitInv
<1> HIDE DEF u
<1>2. \A w \in UserIds :
        /\ account'[w].state = account[w].state /\ account'[w].clerk = account[w].clerk
        /\ w # u => account'[w] = account[w]
  BY <1>1 DEF AccountsTypeOK
<1>3. account' \in [UserIds -> AccountRow]
  <2>1. account[u].pii \/ name \in BOOLEAN
    OBVIOUS
  <2> QED
    BY <1>1, <2>1 DEF AccountsTypeOK, AccountRow
<1>4. AccountsTypeOK'
  BY <1>1, <1>3, TouchType, EndsVisit DEF AccountsTypeOK, AccountRow
<1>5. \A w \in UserIds : DeletedAt(w)' <=> DeletedAt(w)
  BY <1>2 DEF DeletedAt
<1>6. VisitInv'
  BY <1>1, <1>5, EndsVisit, OtherVisitsKept
<1>7. DownWithAccount'
  BY <1>1, <1>5, TouchType DEF DownWithAccount
<1>8. ScrubbedStays'
  <2> SUFFICES ASSUME NEW w \in UserIds, account'[w].state = "purged", w \notin touched'
               PROVE  ~account'[w].pii /\ ~account'[w].clerk
    BY DEF ScrubbedStays
  <2>1. DeletedAt(w) /\ w \notin touched
    BY <1>1, <1>2, TouchType DEF DeletedAt
  <2>2. w # u
    BY <1>1, <2>1, TouchType
  <2> QED
    BY <1>2, <2>1, <2>2 DEF ScrubbedStays
<1>9. LiveHasPrincipal'
  BY <1>1, <1>2 DEF LiveHasPrincipal
<1> QED
  BY <1>4, <1>6, <1>7, <1>8, <1>9

LEMMA DeleteUserKeepsInv ==
  ASSUME AccountsInv, NEW v \in Visits, DeleteUserAccount(v)
  PROVE  AccountsInv'
<1> USE DEF AccountsInv, AccountsTypeInv
<1> DEFINE u == actor[v]
<1>1. /\ u \in UserIds
      /\ IF DeletedAt(u) THEN UNCHANGED <<account, post>>
         ELSE /\ account' = [account EXCEPT ![u].state = "deleted"]
              /\ post' = [post EXCEPT ![u] = IF post[u] = "none" THEN "none" ELSE "deleted"]
      /\ visit' = [visit EXCEPT ![v] = "clerk"]
      /\ UNCHANGED <<principal, actor, touched, strays>>
  BY DEF DeleteUserAccount, VisitInv
<1> HIDE DEF u
<1>2. AccountsTypeOK'
  BY <1>1 DEF AccountsTypeOK
<1>3. /\ account'[u].state \in {"deleted", "expired", "purged"}
      /\ \A w \in UserIds :
           /\ w # u => account'[w] = account[w] /\ post'[w] = post[w]
           /\ DeletedAt(w) => DeletedAt(w)' /\ account'[w] = account[w] /\ post'[w] = post[w]
           /\ account'[w].state \in {"live", "purged"} => account'[w] = account[w]
      /\ ~ DeletedAt(u) => post'[u] \in {"none", "deleted"}
  <2>1. CASE DeletedAt(u)
    BY <1>1, <2>1 DEF DeletedAt
  <2>2. CASE ~ DeletedAt(u)
    <3>1. /\ account'[u].state = "deleted"
          /\ post'[u] \in {"none", "deleted"}
          /\ \A w \in UserIds : w # u => account'[w] = account[w] /\ post'[w] = post[w]
      BY <1>1, <2>2 DEF AccountsTypeOK
    <3> QED
      BY <1>1, <2>2, <3>1 DEF DeletedAt
  <2> QED
    BY <2>1, <2>2
<1>4. VisitInv'
  BY <1>1, <1>3 DEF VisitInv, AccountsTypeOK, DeletedAt, u
<1>5. DownWithAccount'
  <2> SUFFICES ASSUME NEW w \in UserIds, DeletedAt(w)', w \notin touched
               PROVE  post'[w] \in {"none", "deleted"}
    BY <1>1 DEF DownWithAccount
  <2>1. CASE DeletedAt(w)
    BY <1>3, <2>1 DEF DownWithAccount
  <2>2. CASE ~ DeletedAt(w)
    BY <1>3, <2>2 DEF DeletedAt
  <2> QED
    BY <2>1, <2>2
<1>6. ScrubbedStays' /\ LiveHasPrincipal'
  BY <1>1, <1>3 DEF ScrubbedStays, LiveHasPrincipal
<1> QED
  BY <1>2, <1>4, <1>5, <1>6

LEMMA ClerkGoesLast ==
  ASSUME AccountsInv, NEW v \in Visits, DeleteClerkUser(v)
  PROVE  AccountsInv'
<1> USE DEF AccountsInv, AccountsTypeInv
<1>1. /\ DeletedAt(actor[v])
      /\ principal' = FALSE
      /\ strays' = strays \cup {u \in UserIds : account[u].state = "live" /\ u # actor[v]}
      /\ Ends(v)
      /\ UNCHANGED <<account, post, touched>>
  BY DEF DeleteClerkUser, VisitInv
<1>2. AccountsTypeOK'
  BY <1>1, EndsVisit DEF AccountsTypeOK
<1>3. VisitInv'
  BY <1>1, EndsVisit, OtherVisitsKept DEF DeletedAt
<1>4. LiveHasPrincipal'
  BY <1>1 DEF LiveHasPrincipal, DeletedAt
<1> QED
  BY <1>1, <1>2, <1>3, <1>4 DEF DownWithAccount, ScrubbedStays, DeletedAt

LEMMA AbandonKeepsInv ==
  ASSUME AccountsInv, NEW v \in Visits, Abandon(v)
  PROVE  AccountsInv'
<1> USE DEF AccountsInv, AccountsTypeInv
<1>1. Ends(v) /\ UNCHANGED <<principal, account, post, touched, strays>>
  BY DEF Abandon
<1>2. AccountsTypeOK'
  BY <1>1, EndsVisit DEF AccountsTypeOK
<1>3. VisitInv'
  BY <1>1, EndsVisit, OtherVisitsKept DEF DeletedAt
<1> QED
  BY <1>1, <1>2, <1>3 DEF DownWithAccount, ScrubbedStays, LiveHasPrincipal, DeletedAt

LEMMA RetentionKeepsInv ==
  ASSUME AccountsInv, NEW u \in UserIds, RetentionEnds(u)
  PROVE  AccountsInv'
<1> USE DEF AccountsInv, AccountsTypeInv
<1>1. /\ account[u].state = "deleted"
      /\ account' = [account EXCEPT ![u].state = "expired"]
      /\ UNCHANGED <<principal, post, visit, actor, touched, strays>>
  BY DEF RetentionEnds
<1>2. AccountsTypeOK'
  BY <1>1 DEF AccountsTypeOK
<1>3. \A w \in UserIds :
        /\ DeletedAt(w)' <=> DeletedAt(w)
        /\ account'[w].state \in {"live", "purged"} => account'[w] = account[w]
  BY <1>1 DEF AccountsTypeOK, DeletedAt
<1>4. VisitInv'
  BY <1>1, <1>3 DEF VisitInv
<1> QED
  BY <1>1, <1>2, <1>3, <1>4 DEF DownWithAccount, ScrubbedStays, LiveHasPrincipal

LEMMA ModerateKeepsInv ==
  ASSUME AccountsInv, NEW u \in UserIds, Moderate(u)
  PROVE  AccountsInv'
<1> USE DEF AccountsInv, AccountsTypeInv
<1>1. /\ post' = [post EXCEPT ![u] = "public"]
      /\ \/ post[u] = "held" /\ UNCHANGED touched
         \/ post[u] = "deleted" /\ Touch(u)
      /\ UNCHANGED <<principal, account, visit, actor, strays>>
  BY DEF Moderate
<1>2. /\ touched' \in SUBSET UserIds
      /\ touched \subseteq touched'
      /\ post[u] = "held" \/ (DeletedAt(u) => u \in touched')
  BY <1>1, TouchType DEF AccountsTypeOK
<1>3. AccountsTypeOK'
  BY <1>1, <1>2 DEF AccountsTypeOK
<1>4. VisitInv'
  BY <1>1 DEF VisitInv, DeletedAt
<1>5. DownWithAccount'
  BY <1>1, <1>2 DEF DownWithAccount, DeletedAt, AccountsTypeOK
<1>6. ScrubbedStays' /\ LiveHasPrincipal'
  BY <1>1, <1>2 DEF ScrubbedStays, LiveHasPrincipal
<1> QED
  BY <1>3, <1>4, <1>5, <1>6

LEMMA PurgeKeepsInv ==
  ASSUME AccountsInv, PurgeDeletedUserPii
  PROVE  AccountsInv'
<1> USE DEF AccountsInv, AccountsTypeInv
<1>1. /\ \A u \in UserIds :
           account'[u] = IF account[u].state = "expired"
                         THEN [state |-> "purged", clerk |-> FALSE, pii |-> FALSE] ELSE account[u]
      /\ account' \in [UserIds -> AccountRow]
      /\ UNCHANGED <<principal, post, visit, actor, touched, strays>>
  BY DEF PurgeDeletedUserPii, AccountsTypeOK, AccountRow
<1>2. AccountsTypeOK'
  BY <1>1 DEF AccountsTypeOK, AccountRow
<1>3. \A w \in UserIds : DeletedAt(w)' <=> DeletedAt(w)
  BY <1>1 DEF DeletedAt
<1>4. VisitInv' /\ DownWithAccount'
  BY <1>1, <1>3 DEF VisitInv, DownWithAccount
<1>5. ScrubbedStays' /\ LiveHasPrincipal'
  BY <1>1 DEF ScrubbedStays, LiveHasPrincipal
<1> QED
  BY <1>2, <1>4, <1>5

-----------------------------------------------------------------------------

LEMMA AccountsKeeps == AccountsInv /\ [AccountsNext]_accountVars => AccountsInv'
<1>1. AccountsInv /\ UNCHANGED accountVars => AccountsInv'
  BY DEF accountVars, AccountsInv, AccountsTypeInv, AccountsTypeOK, VisitInv, DownWithAccount,
         ScrubbedStays, LiveHasPrincipal, DeletedAt
<1> QED
  BY <1>1, CurrentUserKeepsInv, GetOrCreateKeepsInv, FileAsKeepsInv, SettingsKeepInv,
     DeleteUserKeepsInv, ClerkGoesLast, AbandonKeepsInv, RetentionKeepsInv, ModerateKeepsInv,
     PurgeKeepsInv
  DEF AccountsNext

\* Accounts.tla: every variable keeps its type.
THEOREM AccountsTypes == AccountsSpec => []AccountsTypeOK
<1>1. AccountsInv => AccountsTypeOK
  BY DEF AccountsInv, AccountsTypeInv
<1> QED
  BY <1>1, AccountsInitInv, AccountsKeeps, PTL DEF AccountsSpec

\* settings/actions.ts:54-59: a deletion takes every report down, the scrub
\* leaves nothing that identifies, and Clerk goes last, whatever number of
\* requests, rows and moderators are at work, but for the writes of a session
\* that is still valid, a moderator's restore, and a row got beside the deleted one.
THEOREM AccountsCloseWhole == AccountsSpec => []AccountClosesWhole
<1>1. AccountsInv => AccountClosesWhole
  BY DEF AccountsInv, DownWithAccount, ScrubbedStays, LiveHasPrincipal, AccountClosesWhole
<1> QED
  BY <1>1, AccountsInitInv, AccountsKeeps, PTL DEF AccountsSpec

-----------------------------------------------------------------------------
(***************************************************************************)
(* ReportPeek, for any readers, requests of the owner and editions: its    *)
(* types, and that a body nobody knows to be out of date is the public one.*)
(* That is not inductive: what is being loaded must be right, too, as far  *)
(* as it has been read, unless a change has overtaken it.                  *)
(***************************************************************************)

Page == [content : Editions, rounds : Editions, questions : Editions,
         byline : Editions, found : BOOLEAN]

PeekTypeInv ==
  /\ PeekTypeOK
  /\ loaded \in [Panes -> Page]

\* What reader p has read is what is public, but for what it has yet to read.
LoadIsCurrent(p) ==
  LET rounds == IF reading[p] = "rounds" THEN 0 ELSE shown.content
      questions == IF reading[p] = "author" THEN shown.content ELSE 0
  IN  /\ reading[p] \in {"rounds", "questions", "author"} =>
           /\ shown.status = "active"
           /\ loaded[p] = [content |-> shown.content, rounds |-> rounds,
                           questions |-> questions, byline |-> 0, found |-> TRUE]
      /\ reading[p] = "keep" => loaded[p] = PublicBody

PeekInv ==
  /\ PeekTypeInv
  /\ ServedIsPublic
  /\ \A p \in Panes : p \notin crossed => LoadIsCurrent(p)

\* Nothing is kept, nothing is loaded.
LEMMA PeekInitInv == PeekInit => PeekInv
<1> SUFFICES ASSUME PeekInit PROVE PeekInv
  OBVIOUS
<1>1. 0 \in Editions /\ 1 \in Editions
  BY EditionsAssumption DEF Editions
<1>2. NotFound \in Page
  BY <1>1 DEF NotFound, Page
<1>3. PeekTypeOK
  BY <1>1, <1>2 DEF PeekInit, PeekTypeOK, Page, Bodies
<1>4. PeekTypeInv
  BY <1>2, <1>3 DEF PeekInit, PeekTypeInv
<1>5. ServedIsPublic
  BY DEF PeekInit, ServedIsPublic
<1>6. \A p \in Panes : LoadIsCurrent(p)
  BY DEF PeekInit, LoadIsCurrent
<1> QED
  BY <1>4, <1>5, <1>6 DEF PeekInv

\* What is public is a page.
LEMMA PublicIsPage ==
  ASSUME PeekTypeOK
  PROVE  /\ NotFound \in Page
         /\ shown.content \in Editions /\ shown.byline \in Editions /\ 0 \in Editions
         /\ Page \subseteq Bodies /\ Uncached \in Bodies
BY EditionsAssumption DEF PeekTypeOK, NotFound, Page, Bodies, Editions

\* The first read of a load.
LEMMA OpenPaneKeepsInv ==
  ASSUME PeekInv, NEW p \in Panes, OpenPane(p) PROVE PeekInv'
<1>0. PeekTypeOK /\ loaded \in [Panes -> Page]
  BY DEF PeekInv, PeekTypeInv
<1>1. UNCHANGED <<shown, owed, body, hourUp, spoilt, crossed>>
  BY DEF OpenPane
<1>2. CASE shown.status = "active"
  <2> DEFINE page == [content |-> shown.content, rounds |-> 0, questions |-> 0,
                      byline |-> 0, found |-> TRUE]
  <2>1. /\ reading' = [reading EXCEPT ![p] = "rounds"]
        /\ loaded' = [loaded EXCEPT ![p] = page]
    BY <1>2 DEF OpenPane, ReadHead, NotFound
  <2>2. page \in Page
    BY <1>0, PublicIsPage DEF Page
  <2> HIDE DEF page
  <2>3. PeekTypeInv'
    BY <1>0, <1>1, <2>1, <2>2, PublicIsPage DEF PeekTypeOK, PeekTypeInv
  <2>4. \A q \in Panes : q \notin crossed' => LoadIsCurrent(q)'
    BY <1>0, <1>1, <1>2, <2>1 DEF PeekInv, PeekTypeOK, LoadIsCurrent, PublicBody, page
  <2>5. ServedIsPublic'
    BY <1>1 DEF PeekInv, ServedIsPublic, PublicBody
  <2> QED
    BY <2>3, <2>4, <2>5 DEF PeekInv
<1>3. CASE shown.status # "active"
  <2>1. /\ reading' = [reading EXCEPT ![p] = "keep"]
        /\ loaded' = [loaded EXCEPT ![p] = NotFound]
    BY <1>3 DEF OpenPane, ReadHead
  <2>2. PeekTypeInv'
    BY <1>0, <1>1, <2>1, PublicIsPage DEF PeekTypeOK, PeekTypeInv
  <2>3. \A q \in Panes : q \notin crossed' => LoadIsCurrent(q)'
    BY <1>0, <1>1, <1>3, <2>1 DEF PeekInv, PeekTypeOK, LoadIsCurrent, PublicBody
  <2>4. ServedIsPublic'
    BY <1>1 DEF PeekInv, ServedIsPublic, PublicBody
  <2> QED
    BY <2>2, <2>3, <2>4 DEF PeekInv
<1> QED
  BY <1>2, <1>3

\* The reads that follow.
LEMMA ReadOnKeepsInv ==
  ASSUME PeekInv, NEW p \in Panes, ReadRounds(p) \/ ReadQuestions(p) \/ ReadAuthor(p)
  PROVE  PeekInv'
<1>0. /\ PeekTypeOK /\ loaded \in [Panes -> Page]
      /\ shown.content \in Editions /\ shown.byline \in Editions /\ 0 \in Editions
  BY PublicIsPage DEF PeekInv, PeekTypeInv
<1>1. UNCHANGED <<shown, owed, body, hourUp, spoilt, crossed>>
  BY DEF ReadRounds, ReadQuestions, ReadAuthor
<1>2. PICK page \in Page : loaded[p] = page
  BY <1>0
<1>3. ServedIsPublic'
  BY <1>1 DEF PeekInv, ServedIsPublic, PublicBody
<1>4. p \notin crossed => LoadIsCurrent(p)
  BY DEF PeekInv
<1>5. ASSUME NEW next \in Page, NEW step \in {"questions", "author", "keep"},
             reading' = [reading EXCEPT ![p] = step],
             loaded' = [loaded EXCEPT ![p] = next],
             p \notin crossed => LoadIsCurrent(p)'
      PROVE  PeekInv'
  <2>1. PeekTypeInv'
    BY <1>0, <1>1, <1>5, PublicIsPage DEF PeekTypeOK, PeekTypeInv
  <2>2. \A q \in Panes : q \notin crossed' => LoadIsCurrent(q)'
    <3> SUFFICES ASSUME NEW q \in Panes, q \notin crossed, q # p PROVE LoadIsCurrent(q)'
      BY <1>1, <1>5
    <3>1. LoadIsCurrent(q) /\ reading'[q] = reading[q] /\ loaded'[q] = loaded[q]
      BY <1>0, <1>5 DEF PeekInv, PeekTypeOK
    <3> QED
      BY <1>1, <3>1 DEF LoadIsCurrent, PublicBody
  <2> QED
    BY <1>3, <2>1, <2>2 DEF PeekInv
<1>6. CASE ReadRounds(p)
  <2>1. /\ reading[p] = "rounds" /\ reading' = [reading EXCEPT ![p] = "questions"]
        /\ loaded' = [loaded EXCEPT ![p] = [page EXCEPT !.rounds = shown.content]]
    BY <1>2, <1>6 DEF ReadRounds
  <2>2. [page EXCEPT !.rounds = shown.content] \in Page
    BY <1>0 DEF Page
  <2>3. reading'[p] = "questions" /\ loaded'[p] = [page EXCEPT !.rounds = shown.content]
    BY <1>0, <2>1 DEF PeekTypeOK
  <2>4. p \notin crossed => LoadIsCurrent(p)'
    <3> SUFFICES ASSUME p \notin crossed PROVE LoadIsCurrent(p)'
      OBVIOUS
    <3>1. /\ shown.status = "active"
          /\ page = [content |-> shown.content, rounds |-> 0, questions |-> 0,
                     byline |-> 0, found |-> TRUE]
      BY <1>2, <1>4, <2>1 DEF LoadIsCurrent
    <3>2. loaded'[p] = [content |-> shown.content, rounds |-> shown.content,
                        questions |-> 0, byline |-> 0, found |-> TRUE]
      BY <2>3, <3>1
    <3> QED
      BY <1>1, <2>3, <3>1, <3>2 DEF LoadIsCurrent
  <2> QED
    BY <1>5, <2>1, <2>2, <2>4
<1>7. CASE ReadQuestions(p)
  <2>1. /\ reading[p] = "questions" /\ reading' = [reading EXCEPT ![p] = "author"]
        /\ loaded' = [loaded EXCEPT ![p] = [page EXCEPT !.questions =
                        IF page.rounds = shown.content THEN shown.content ELSE 0]]
    BY <1>2, <1>7 DEF ReadQuestions
  <2>2. PICK n \in Editions : n = IF page.rounds = shown.content THEN shown.content ELSE 0
    BY <1>0
  <2>3. [page EXCEPT !.questions = n] \in Page
    BY DEF Page
  <2>4. reading'[p] = "author" /\ loaded'[p] = [page EXCEPT !.questions = n]
    BY <1>0, <2>1, <2>2 DEF PeekTypeOK
  <2>5. p \notin crossed => LoadIsCurrent(p)'
    <3> SUFFICES ASSUME p \notin crossed PROVE LoadIsCurrent(p)'
      OBVIOUS
    <3>1. /\ shown.status = "active"
          /\ page = [content |-> shown.content, rounds |-> shown.content, questions |-> 0,
                     byline |-> 0, found |-> TRUE]
      BY <1>2, <1>4, <2>1 DEF LoadIsCurrent
    <3>2. loaded'[p] = [content |-> shown.content, rounds |-> shown.content,
                        questions |-> shown.content, byline |-> 0, found |-> TRUE]
      BY <2>2, <2>4, <3>1
    <3> QED
      BY <1>1, <2>4, <3>1, <3>2 DEF LoadIsCurrent
  <2> QED
    BY <1>5, <2>1, <2>2, <2>3, <2>5
<1>8. CASE ReadAuthor(p)
  <2>1. /\ reading[p] = "author" /\ reading' = [reading EXCEPT ![p] = "keep"]
        /\ loaded' = [loaded EXCEPT ![p] = [page EXCEPT !.byline = shown.byline]]
    BY <1>2, <1>8 DEF ReadAuthor
  <2>2. [page EXCEPT !.byline = shown.byline] \in Page
    BY <1>0 DEF Page
  <2>3. reading'[p] = "keep" /\ loaded'[p] = [page EXCEPT !.byline = shown.byline]
    BY <1>0, <2>1 DEF PeekTypeOK
  <2>4. p \notin crossed => LoadIsCurrent(p)'
    <3> SUFFICES ASSUME p \notin crossed PROVE LoadIsCurrent(p)'
      OBVIOUS
    <3>1. /\ shown.status = "active"
          /\ page = [content |-> shown.content, rounds |-> shown.content,
                     questions |-> shown.content, byline |-> 0, found |-> TRUE]
      BY <1>2, <1>4, <2>1 DEF LoadIsCurrent
    <3>2. loaded'[p] = PublicBody
      BY <2>3, <3>1 DEF PublicBody
    <3> QED
      BY <1>1, <2>3, <3>2 DEF LoadIsCurrent, PublicBody
  <2> QED
    BY <1>5, <2>1, <2>2, <2>4
<1> QED
  BY <1>6, <1>7, <1>8

\* What is kept is what was loaded, and whether that was overtaken.
LEMMA KeepBodyKeepsInv ==
  ASSUME PeekInv, NEW p \in Panes, KeepBody(p) PROVE PeekInv'
<1>0. PeekTypeOK /\ loaded \in [Panes -> Page] /\ NotFound \in Page /\ Page \subseteq Bodies
  BY PublicIsPage DEF PeekInv, PeekTypeInv
<1>1. /\ reading[p] = "keep" /\ body' = loaded[p] /\ hourUp' = FALSE
      /\ spoilt' = IF p \in crossed THEN {"overtaken"} ELSE {}
      /\ reading' = [reading EXCEPT ![p] = "idle"]
      /\ loaded' = [loaded EXCEPT ![p] = NotFound]
      /\ crossed' = crossed \ {p}
      /\ UNCHANGED <<shown, owed>>
  BY DEF KeepBody
<1>2. PeekTypeInv'
  BY <1>0, <1>1 DEF PeekTypeOK, PeekTypeInv
<1>3. ServedIsPublic'
  <2>1. CASE p \in crossed
    BY <1>1, <2>1 DEF ServedIsPublic
  <2>2. CASE p \notin crossed
    BY <1>1, <2>2 DEF PeekInv, LoadIsCurrent, ServedIsPublic, PublicBody
  <2> QED
    BY <2>1, <2>2
<1>4. \A q \in Panes : q \notin crossed' => LoadIsCurrent(q)'
  BY <1>0, <1>1 DEF PeekInv, PeekTypeOK, LoadIsCurrent, PublicBody
<1> QED
  BY <1>2, <1>3, <1>4 DEF PeekInv

\* A change overtakes every load under way; it leaves a tag to bust, or a body
\* that is known to be stale.
LEMMA ChangeKeepsInv ==
  ASSUME PeekInv, NEW next, Change(next),
         next \in [status : {"pending", "active", "hidden", "deleted"},
                   content : Editions, byline : Editions],
         owed' \in SUBSET OwnerRequests,
         spoilt' \in SUBSET {"overtaken", "untagged", "died"},
         owed' # {} \/ spoilt' # {}
  PROVE  PeekInv'
<1>0. PeekTypeOK /\ loaded \in [Panes -> Page]
  BY DEF PeekInv, PeekTypeInv
<1>1. /\ shown' = next /\ crossed' = crossed \cup Loading
      /\ UNCHANGED <<body, hourUp, reading, loaded>>
  BY DEF Change
<1>2. PeekTypeInv'
  BY <1>0, <1>1 DEF PeekTypeOK, PeekTypeInv, Loading
<1>3. ServedIsPublic'
  BY DEF ServedIsPublic
<1>4. \A q \in Panes : q \notin crossed' => LoadIsCurrent(q)'
  <2> SUFFICES ASSUME NEW q \in Panes, q \notin crossed' PROVE LoadIsCurrent(q)'
    OBVIOUS
  <2>1. reading'[q] = "idle"
    BY <1>1 DEF Loading
  <2> QED
    BY <2>1 DEF LoadIsCurrent
<1> QED
  BY <1>2, <1>3, <1>4 DEF PeekInv

\* One more edition, of the content or of the byline.
LEMMA EditionFits ==
  ASSUME PeekTypeOK, MoreEditions
  PROVE  shown.content + 1 \in Editions /\ shown.byline + 1 \in Editions
<1>1. /\ shown.content \in Nat /\ shown.byline \in Nat
      /\ shown.content + shown.byline < MaxEditions
  BY PublicIsPage DEF Editions, MoreEditions
<1> QED
  BY <1>1, EditionsAssumption DEF Editions

\* Every change.
LEMMA ChangesKeepInv ==
  ASSUME PeekInv,
         \/ \E o \in OwnerRequests : EditCommits(o) \/ DeleteCommits(o)
         \/ SetStatusUntagged
         \/ RenameAuthor
  PROVE  PeekInv'
<1>0. /\ PeekTypeOK
      /\ shown \in [status : {"pending", "active", "hidden", "deleted"},
                    content : Editions, byline : Editions]
      /\ owed \in SUBSET OwnerRequests
      /\ spoilt \in SUBSET {"overtaken", "untagged", "died"}
  BY DEF PeekInv, PeekTypeInv, PeekTypeOK
<1>1. CASE \E o \in OwnerRequests : EditCommits(o)
  <2>1. PICK o \in OwnerRequests : EditCommits(o)
    BY <1>1
  <2>2. [shown EXCEPT !.content = shown.content + 1] \in
          [status : {"pending", "active", "hidden", "deleted"},
           content : Editions, byline : Editions]
    BY <1>0, <2>1, EditionFits DEF EditCommits
  <2> QED
    BY <1>0, <2>1, <2>2, ChangeKeepsInv DEF EditCommits
<1>2. CASE \E o \in OwnerRequests : DeleteCommits(o)
  BY <1>0, <1>2, ChangeKeepsInv DEF DeleteCommits
<1>3. CASE SetStatusUntagged
  <2>1. PICK to \in {"active", "hidden", "deleted"} : Untagged([shown EXCEPT !.status = to])
    BY <1>3 DEF SetStatusUntagged
  <2> QED
    BY <1>0, <2>1, ChangeKeepsInv DEF Untagged
<1>4. CASE RenameAuthor
  <2>1. [shown EXCEPT !.byline = shown.byline + 1] \in
          [status : {"pending", "active", "hidden", "deleted"},
           content : Editions, byline : Editions]
    BY <1>0, <1>4, EditionFits DEF RenameAuthor
  <2> QED
    BY <1>0, <1>4, <2>1, ChangeKeepsInv DEF RenameAuthor, Untagged
<1> QED
  BY <1>1, <1>2, <1>3, <1>4

\* Every step.
LEMMA PeekKeeps == PeekInv /\ [PeekNext]_peekVars => PeekInv'
<1> SUFFICES ASSUME PeekInv, [PeekNext]_peekVars PROVE PeekInv'
  OBVIOUS
<1>0. PeekTypeOK /\ loaded \in [Panes -> Page] /\ Uncached \in Bodies
  BY PublicIsPage DEF PeekInv, PeekTypeInv
<1>1. CASE \E p \in Panes : OpenPane(p)
  BY <1>1, OpenPaneKeepsInv
<1>2. CASE \E p \in Panes : ReadRounds(p) \/ ReadQuestions(p) \/ ReadAuthor(p)
  BY <1>2, ReadOnKeepsInv
<1>3. CASE \E p \in Panes : KeepBody(p)
  BY <1>3, KeepBodyKeepsInv
<1>4. CASE \/ \E o \in OwnerRequests : EditCommits(o) \/ DeleteCommits(o)
           \/ SetStatusUntagged
           \/ RenameAuthor
  BY <1>4, ChangesKeepInv
<1>5. CASE \/ HourPasses
           \/ \E o \in OwnerRequests : RevalidateTag(o) \/ DieUntagged(o)
           \/ UNCHANGED peekVars
  <2>1. /\ UNCHANGED <<shown, reading, loaded, crossed>>
        /\ owed' \subseteq owed
        /\ \/ body' = body /\ owed' = owed /\ spoilt' = spoilt
           \/ body' = Uncached /\ spoilt' = {}
           \/ body' = body /\ spoilt' = spoilt \cup {"died"}
        /\ hourUp' \in {hourUp, TRUE, FALSE}
    BY <1>5 DEF HourPasses, RevalidateTag, DieUntagged, peekVars
  <2>2. PeekTypeInv'
    BY <1>0, <2>1 DEF PeekTypeOK, PeekTypeInv
  <2>3. ServedIsPublic'
    BY <2>1 DEF PeekInv, ServedIsPublic, PublicBody
  <2>4. \A q \in Panes : q \notin crossed' => LoadIsCurrent(q)'
    BY <2>1 DEF PeekInv, LoadIsCurrent, PublicBody
  <2> QED
    BY <2>2, <2>3, <2>4 DEF PeekInv
<1> QED
  BY <1>1, <1>2, <1>3, <1>4, <1>5 DEF PeekNext, PaneReads

\* Every variable of the cache and of its readers keeps its type, and no reader
\* holds the mark of an empty cache for a page.
THEOREM PeekTypes == PeekSpec => []PeekTypeOK
<1>1. PeekInv => PeekTypeOK
  BY DEF PeekInv, PeekTypeInv
<1> QED
  BY <1>1, PeekInitInv, PeekKeeps, PTL DEF PeekSpec

\* The cached body of a report is the public one, unless a tag is still to be
\* bust or was lost, the body was loaded across a change, or a change that busts
\* no tag came since.
THEOREM PeekServesThePublic == PeekSpec => []ServedIsPublic
<1>1. PeekInv => ServedIsPublic
  BY DEF PeekInv
<1> QED
  BY <1>1, PeekInitInv, PeekKeeps, PTL DEF PeekSpec

-----------------------------------------------------------------------------
(***************************************************************************)
(* Drafts, for any finite set of tabs: the types, and that the drafts of a *)
(* writer are more than the cap by no more than creations overlap.         *)
(***************************************************************************)

\* What is left of the first n of s.
KeptStep(s, gone, m, g) ==
  [n \in 0 .. m |-> IF n = 0 THEN << >>
                    ELSE IF s[n] \in gone THEN g[n - 1] ELSE Append(g[n - 1], s[n])]

Kept(s, gone) == CHOOSE g : g = KeptStep(s, gone, Len(s), g)

\* The recursion has a solution.
LEMMA KeptExists ==
  ASSUME NEW s, NEW gone, Len(s) \in Nat
  PROVE  /\ Minus(s, gone) = Kept(s, gone)[Len(s)]
         /\ Kept(s, gone) = KeptStep(s, gone, Len(s), Kept(s, gone))
<1>1. Minus(s, gone) = Kept(s, gone)[Len(s)]
  BY Zenon DEF Minus, Kept, KeptStep
<1> DEFINE N == {m \in Nat : \E g : g = KeptStep(s, gone, m, g)}
<1>2. 0 \in N
  <2> DEFINE g == [n \in 0 .. 0 |-> << >>]
  <2>1. g = KeptStep(s, gone, 0, g)
    BY DEF KeptStep
  <2> QED
    BY <2>1
<1>3. ASSUME NEW m \in N PROVE m + 1 \in N
  <2>1. PICK g : g = KeptStep(s, gone, m, g)
    OBVIOUS
  <2> DEFINE h == KeptStep(s, gone, m + 1, g)
  <2>2. \A n \in 0 .. m : n \in 0 .. m + 1 /\ h[n] = g[n]
    <3>1. \A n \in 0 .. m : n \in 0 .. m + 1
      OBVIOUS
    <3>2. \A n \in 0 .. m : g[n] = IF n = 0 THEN << >>
                    ELSE IF s[n] \in gone THEN g[n - 1] ELSE Append(g[n - 1], s[n])
      BY <2>1 DEF KeptStep
    <3>3. \A n \in 0 .. m + 1 : h[n] = IF n = 0 THEN << >>
                    ELSE IF s[n] \in gone THEN g[n - 1] ELSE Append(g[n - 1], s[n])
      BY DEF KeptStep
    <3> QED
      BY <3>1, <3>2, <3>3
  <2>3. \A n \in 0 .. m + 1 : n # 0 => n - 1 \in 0 .. m
    OBVIOUS
  <2>4. \A n \in 0 .. m + 1 : h[n] = IF n = 0 THEN << >>
                    ELSE IF s[n] \in gone THEN h[n - 1] ELSE Append(h[n - 1], s[n])
    <3>1. \A n \in 0 .. m + 1 : h[n] = IF n = 0 THEN << >>
                    ELSE IF s[n] \in gone THEN g[n - 1] ELSE Append(g[n - 1], s[n])
      BY DEF KeptStep
    <3> HIDE DEF h
    <3> QED
      BY <3>1, <2>2, <2>3
  <2>5. h = [n \in 0 .. m + 1 |-> h[n]]
    BY DEF KeptStep
  <2> HIDE DEF h
  <2>6. h = KeptStep(s, gone, m + 1, h)
    BY <2>4, <2>5 DEF KeptStep
  <2>7. m + 1 \in Nat /\ \E i : i = KeptStep(s, gone, m + 1, i)
    BY <2>6
  <2> QED
    BY <2>7
<1>4. N = Nat
  <2> HIDE DEF N
  <2>1. N \subseteq Nat
    BY DEF N
  <2> QED
    BY <1>2, <1>3, <2>1, NumbersByInduction
<1>5. \E g : g = KeptStep(s, gone, Len(s), g)
  BY <1>4
<1>6. Kept(s, gone) = KeptStep(s, gone, Len(s), Kept(s, gone))
  BY <1>5, Zenon DEF Kept
<1> QED
  BY <1>1, <1>6

\* What Minus leaves, in the order it was in, each draft once.
LEMMA MinusLeaves ==
  ASSUME NEW D, NEW s \in Seq(D), IsInjective(s), NEW gone
  PROVE  /\ Minus(s, gone) \in Seq(D) /\ IsInjective(Minus(s, gone))
         /\ ToSet(Minus(s, gone)) = ToSet(s) \ gone
<1> DEFINE k == Kept(s, gone)
           Fits(n) == /\ k[n] \in Seq(D) /\ IsInjective(k[n])
                      /\ ToSet(k[n]) = {s[i] : i \in 1 .. n} \ gone
           N == {n \in Nat : n <= Len(s) => Fits(n)}
<1>0. Len(s) \in Nat /\ \A i \in 1 .. Len(s) : s[i] \in D
  OBVIOUS
<1>1. \A n \in 0 .. Len(s) : k[n] = IF n = 0 THEN << >>
                    ELSE IF s[n] \in gone THEN k[n - 1] ELSE Append(k[n - 1], s[n])
  <2>1. k = KeptStep(s, gone, Len(s), k)
    BY <1>0, KeptExists
  <2> HIDE DEF k
  <2> QED
    BY <2>1 DEF KeptStep
<1> HIDE DEF k
<1>2. 0 \in N
  <2>1. k[0] = << >>
    BY <1>0, <1>1
  <2>2. {s[i] : i \in 1 .. 0} = {} /\ ToSet(<< >>) = {}
    BY DEF ToSet
  <2>3. << >> \in Seq(D) /\ IsInjective(<< >>)
    BY DEF IsInjective
  <2> QED
    BY <2>1, <2>2, <2>3
<1>3. ASSUME NEW n \in N PROVE n + 1 \in N
  <2> SUFFICES ASSUME n + 1 <= Len(s) PROVE Fits(n + 1)
    OBVIOUS
  <2>0. n \in Nat /\ n + 1 \in 0 .. Len(s) /\ n + 1 # 0 /\ n <= Len(s) /\ n + 1 \in 1 .. Len(s)
    BY <1>0
  <2>1. k[n] \in Seq(D) /\ IsInjective(k[n]) /\ ToSet(k[n]) = {s[i] : i \in 1 .. n} \ gone
    BY <2>0
  <2>2. {s[i] : i \in 1 .. n + 1} = {s[i] : i \in 1 .. n} \cup {s[n + 1]}
    BY <2>0
  <2>3. s[n + 1] \notin {s[i] : i \in 1 .. n} /\ s[n + 1] \in D
    BY <1>0, <2>0 DEF IsInjective
  <2>4. k[n + 1] = IF s[n + 1] \in gone THEN k[n] ELSE Append(k[n], s[n + 1])
    BY <2>0, <1>1
  <2>5. CASE s[n + 1] \in gone
    BY <2>1, <2>2, <2>4, <2>5
  <2>6. CASE s[n + 1] \notin gone
    <3> DEFINE t == k[n]
               d == s[n + 1]
               u == Append(t, d)
    <3>1. t \in Seq(D) /\ d \in D /\ d \notin ToSet(t)
      BY <2>1, <2>3
    <3>2. /\ u \in Seq(D) /\ Len(t) \in Nat /\ Len(u) = Len(t) + 1
          /\ DOMAIN u = 1 .. Len(t) + 1 /\ DOMAIN t = 1 .. Len(t)
          /\ u[Len(t) + 1] = d /\ \A i \in 1 .. Len(t) : u[i] = t[i]
      BY <3>1
    <3> HIDE DEF t, d, u
    <3>3. \A i \in 1 .. Len(t) + 1 : i \in 1 .. Len(t) \/ i = Len(t) + 1
      BY <3>2
    <3>4. ToSet(u) = ToSet(t) \cup {d}
      <4>1. \A i \in 1 .. Len(t) : i \in 1 .. Len(t) + 1
        BY <3>2
      <4>2. Len(t) + 1 \in 1 .. Len(t) + 1
        BY <3>2
      <4> QED
        BY <3>2, <3>3, <4>1, <4>2 DEF ToSet
    <3>5. IsInjective(u)
      <4>1. \A i \in 1 .. Len(t) : t[i] # d
        BY <3>1, <3>2 DEF ToSet
      <4>2. IsInjective(t)
        BY <2>1 DEF t
      <4> QED
        BY <3>2, <3>3, <4>1, <4>2 DEF IsInjective
    <3>6. k[n + 1] = u
      BY <2>4, <2>6 DEF t, d, u
    <3>7. ToSet(u) = {s[i] : i \in 1 .. n + 1} \ gone
      BY <3>4, <2>1, <2>2, <2>6 DEF t, d
    <3> QED
      BY <3>2, <3>5, <3>6, <3>7
  <2> QED
    BY <2>5, <2>6
<1>4. N = Nat
  <2> HIDE DEF N
  <2>1. N \subseteq Nat
    BY DEF N
  <2> QED
    BY <1>2, <1>3, <2>1, NumbersByInduction
<1>5. Fits(Len(s))
  <2>1. Len(s) \in N
    BY <1>0, <1>4
  <2>2. \A n \in N : n <= Len(s) => Fits(n)
    OBVIOUS
  <2> HIDE DEF N, Fits
  <2> QED
    BY <1>0, <2>1, <2>2
<1>6. ToSet(s) = {s[i] : i \in 1 .. Len(s)}
  BY DEF ToSet
<1>7. Minus(s, gone) = k[Len(s)]
  BY <1>0, KeptExists DEF k
<1> QED
  BY <1>5, <1>6, <1>7

\* What tab w would leave of the drafts.
LeftBy(w) == OwnDrafts \ doomed[w]

\* The tabs that would leave j too many, or more.
Over(j) == {w \in creating : Cardinality(LeftBy(w)) >= DraftCap - 1 + j}

\* A tab that would leave j too many read before j others wrote.
FewAreOver == \A j \in 0 .. Cardinality(Tabs) : Cardinality(Over(j)) + j <= Cardinality(Tabs)

IdsAreOld ==
  /\ \A d \in OwnDrafts : d < nextDraft
  /\ \A w \in Tabs : \A d \in doomed[w] : d < nextDraft

DraftsInv == DraftsTypeOK /\ IdsAreOld /\ CapButForOverlap /\ FewAreOver

LEMMA TabsAreMany ==
  /\ Cardinality(Tabs) \in Nat
  /\ \A W \in SUBSET Tabs : IsFiniteSet(W) /\ Cardinality(W) \in Nat /\ Cardinality(W) <= Cardinality(Tabs)
BY TabsAssumption, FS_Subset, FS_CardinalityType

LEMMA SetsOfIds ==
  \A X \in SUBSET DraftIds : IsFiniteSet(X) /\ Cardinality(X) \in Nat
                             /\ \A Y \in SUBSET X : Cardinality(Y) <= Cardinality(X)
<1>1. IsFiniteSet(DraftIds)
  BY DraftCapAssumption, FS_Interval DEF DraftIds
<1> QED
  BY <1>1, FS_Subset, FS_CardinalityType

LEMMA OwnDraftsSize ==
  ASSUME DraftsTypeOK
  PROVE  /\ OwnDrafts \in SUBSET DraftIds /\ Cardinality(OwnDrafts) = Len(drafts)
         /\ Cardinality(OwnDrafts) \in Nat
         /\ \A w \in creating : LeftBy(w) \in SUBSET DraftIds
<1>1. OwnDrafts \in SUBSET DraftIds
  BY DEF OwnDrafts, ToSet, DraftsTypeOK
<1>2. Cardinality(OwnDrafts) = Len(drafts)
  BY LengthIsSize DEF OwnDrafts, DraftsTypeOK
<1>3. Len(drafts) \in Nat
  BY DEF DraftsTypeOK
<1> QED
  BY <1>1, <1>2, <1>3 DEF LeftBy

LEMMA DraftsInitInv == DraftsInit => DraftsInv
<1> SUFFICES ASSUME DraftsInit PROVE DraftsInv
  OBVIOUS
<1>1. DraftsTypeOK
  <2>1. << >> \in Seq(DraftIds) /\ IsInjective(<< >>)
    BY DEF IsInjective
  <2> QED
    BY <2>1, DraftCapAssumption DEF DraftsInit, DraftsTypeOK
<1>2. IdsAreOld
  <2>1. OwnDrafts = {}
    BY DEF OwnDrafts, ToSet, DraftsInit
  <2> QED
    BY <2>1 DEF IdsAreOld, DraftsInit
<1>3. CapButForOverlap
  <2>1. Len(drafts) = 0
    BY DEF DraftsInit
  <2> QED
    BY <2>1, TabsAreMany, DraftCapAssumption DEF CapButForOverlap
<1>4. FewAreOver
  <2>1. \A j : Over(j) = {}
    BY DEF Over, DraftsInit
  <2>2. Cardinality({}) = 0
    BY FS_EmptySet
  <2> QED
    BY <2>1, <2>2, TabsAreMany DEF FewAreOver
<1> QED
  BY <1>1, <1>2, <1>3, <1>4 DEF DraftsInv

\* Where drafts only go, and the tabs under way only get fewer, nothing gets worse.
LEMMA FewerDraftsKeepInv ==
  ASSUME DraftsInv, DraftsTypeOK', OwnDrafts' \subseteq OwnDrafts, nextDraft' = nextDraft,
         creating' \subseteq creating, \A w \in creating' : doomed'[w] = doomed[w],
         \A w \in Tabs : doomed'[w] \subseteq doomed[w]
  PROVE  DraftsInv'
<1>1. IdsAreOld'
  BY DEF DraftsInv, IdsAreOld
<1>2. CapButForOverlap'
  <2>1. Cardinality(OwnDrafts') <= Cardinality(OwnDrafts)
    BY OwnDraftsSize, SetsOfIds DEF DraftsInv
  <2>2. Cardinality(OwnDrafts') = Len(drafts') /\ Cardinality(OwnDrafts) = Len(drafts)
    <3>1. Cardinality(OwnDrafts) = Len(drafts)
      BY OwnDraftsSize DEF DraftsInv
    <3>2. drafts' \in Seq(DraftIds) /\ IsInjective(drafts') /\ OwnDrafts' = ToSet(drafts')
      BY DEF DraftsTypeOK, OwnDrafts
    <3>3. Cardinality(ToSet(drafts')) = Len(drafts')
      BY <3>2, LengthIsSize
    <3> QED
      BY <3>1, <3>2, <3>3
  <2>3. Len(drafts') \in Nat /\ Len(drafts) \in Nat
    BY DEF DraftsInv, DraftsTypeOK
  <2> QED
    BY <2>1, <2>2, <2>3, TabsAreMany, DraftCapAssumption DEF CapButForOverlap, DraftsInv
<1>3. FewAreOver'
  <2> SUFFICES ASSUME NEW j \in 0 .. Cardinality(Tabs)
               PROVE  Cardinality(Over(j)') + j <= Cardinality(Tabs)
    BY DEF FewAreOver
  <2>1. Over(j)' \subseteq Over(j)
    <3> SUFFICES ASSUME NEW w \in creating', Cardinality(LeftBy(w)') >= DraftCap - 1 + j
                 PROVE  Cardinality(LeftBy(w)) >= DraftCap - 1 + j
      BY DEF Over
    <3>1. LeftBy(w)' \subseteq LeftBy(w) /\ LeftBy(w) \in SUBSET DraftIds
      BY OwnDraftsSize DEF LeftBy, DraftsInv
    <3>2. Cardinality(LeftBy(w)') <= Cardinality(LeftBy(w))
      BY <3>1, SetsOfIds
    <3>3. PICK a, b \in Nat : a = Cardinality(LeftBy(w)') /\ b = Cardinality(LeftBy(w))
      BY <3>1, SetsOfIds
    <3> QED
      BY <3>2, <3>3, DraftCapAssumption, TabsAreMany
  <2>2. Over(j) \in SUBSET Tabs
    BY DEF Over, DraftsInv, DraftsTypeOK
  <2>3. Cardinality(Over(j)') <= Cardinality(Over(j))
    BY <2>1, <2>2, TabsAreMany, FS_Subset
  <2>4. Cardinality(Over(j)) + j <= Cardinality(Tabs)
    BY DEF FewAreOver, DraftsInv
  <2>5. PICK a, b \in Nat : a = Cardinality(Over(j)') /\ b = Cardinality(Over(j))
    BY <2>1, <2>2, TabsAreMany
  <2> QED
    BY <2>3, <2>4, <2>5, TabsAreMany
<1> QED
  BY <1>1, <1>2, <1>3 DEF DraftsInv

\* The first drafts make a set as large as they are many.
LEMMA FirstDrafts ==
  ASSUME NEW D, NEW s \in Seq(D), IsInjective(s), NEW k \in 0 .. Len(s)
  PROVE  /\ SubSeq(s, 1, k) \in Seq(D) /\ IsInjective(SubSeq(s, 1, k))
         /\ Len(SubSeq(s, 1, k)) = k /\ ToSet(SubSeq(s, 1, k)) \subseteq ToSet(s)
<1>1. Len(s) \in Nat /\ \A i \in 1 .. k : i \in 1 .. Len(s) /\ s[i] \in D
  OBVIOUS
<1>2. /\ SubSeq(s, 1, k) \in Seq(D) /\ Len(SubSeq(s, 1, k)) = k
      /\ \A i \in 1 .. k : SubSeq(s, 1, k)[i] = s[i]
  BY <1>1
<1> QED
  BY <1>1, <1>2 DEF IsInjective, ToSet

LEMMA OverflowFits ==
  ASSUME DraftsTypeOK
  PROVE  Overflow \in 0 .. Len(drafts) /\ Len(drafts) - Overflow <= DraftCap - 1
BY DraftCapAssumption DEF Overflow, DraftsTypeOK

LEMMA ReadForCreateKeepsInv ==
  ASSUME DraftsInv, NEW w \in Tabs, ReadForCreate(w) PROVE DraftsInv'
<1> DEFINE first == SubSeq(drafts, 1, Overflow)
<1>0. DraftsTypeOK /\ drafts \in Seq(DraftIds) /\ IsInjective(drafts) /\ Overflow \in 0 .. Len(drafts)
  BY OverflowFits DEF DraftsInv, DraftsTypeOK
<1>1. first \in Seq(DraftIds) /\ IsInjective(first) /\ Len(first) = Overflow /\ ToSet(first) \subseteq OwnDrafts
  BY <1>0, FirstDrafts DEF OwnDrafts
<1>2. /\ w \notin creating /\ creating' = creating \cup {w} /\ drafts' = drafts /\ nextDraft' = nextDraft
      /\ doomed' = [doomed EXCEPT ![w] = ToSet(first)]
  BY DEF ReadForCreate
<1> HIDE DEF first
<1>3. ToSet(first) \in SUBSET DraftIds
  BY <1>0, <1>1, OwnDraftsSize
<1>4. DraftsTypeOK'
  BY <1>0, <1>2, <1>3 DEF DraftsTypeOK
<1>5. OwnDrafts' = OwnDrafts /\ \A v \in creating : doomed'[v] = doomed[v]
  BY <1>0, <1>2 DEF OwnDrafts, DraftsTypeOK
<1>6. doomed'[w] = ToSet(first) /\ \A v \in Tabs : v # w => doomed'[v] = doomed[v]
  BY <1>0, <1>2 DEF DraftsTypeOK
<1>7. IdsAreOld'
  BY <1>1, <1>2, <1>5, <1>6 DEF DraftsInv, IdsAreOld
<1>8. CapButForOverlap'
  BY <1>2 DEF CapButForOverlap, DraftsInv
<1>9. FewAreOver'
  <2>1. Cardinality(LeftBy(w)') <= DraftCap - 1
    <3>1. Cardinality(OwnDrafts \ ToSet(first)) = Cardinality(OwnDrafts) - Cardinality(OwnDrafts \cap ToSet(first))
      BY <1>0, OwnDraftsSize, SetsOfIds, FS_Difference
    <3>2. OwnDrafts \cap ToSet(first) = ToSet(first)
      BY <1>1
    <3>3. Cardinality(ToSet(first)) = Overflow /\ Cardinality(OwnDrafts) = Len(drafts)
      BY <1>0, <1>1, LengthIsSize, OwnDraftsSize
    <3>4. LeftBy(w)' = OwnDrafts \ ToSet(first)
      BY <1>5, <1>6 DEF LeftBy
    <3> QED
      BY <1>0, <3>1, <3>2, <3>3, <3>4, OverflowFits
  <2> SUFFICES ASSUME NEW j \in 0 .. Cardinality(Tabs)
               PROVE  Cardinality(Over(j)') + j <= Cardinality(Tabs)
    BY DEF FewAreOver
  <2>2. CASE j = 0
    <3>1. Over(j)' \in SUBSET Tabs
      BY <1>4 DEF Over, DraftsTypeOK
    <3> QED
      BY <2>2, <3>1, TabsAreMany
  <2>3. CASE j # 0
    <3>0. PICK c \in Nat : c = Cardinality(LeftBy(w)') /\ c <= DraftCap - 1
      <4>1. LeftBy(w)' \in SUBSET DraftIds
        BY <1>0, <1>5, OwnDraftsSize DEF LeftBy
      <4> QED
        BY <2>1, <4>1, SetsOfIds
    <3>1. w \notin Over(j)'
      <4>1. ~ (c >= DraftCap - 1 + j)
        BY <3>0, <2>3, DraftCapAssumption, TabsAreMany
      <4> QED
        BY <3>0, <4>1 DEF Over
    <3>2. \A v \in creating : LeftBy(v)' = LeftBy(v)
      BY <1>5 DEF LeftBy
    <3>3. Over(j)' \subseteq Over(j)
      BY <3>1, <3>2, <1>2 DEF Over
    <3>4. Over(j) \in SUBSET Tabs
      BY <1>0 DEF Over, DraftsTypeOK
    <3>5. Cardinality(Over(j)) + j <= Cardinality(Tabs)
      BY DEF FewAreOver, DraftsInv
    <3>6. Cardinality(Over(j)') <= Cardinality(Over(j))
      BY <3>3, <3>4, TabsAreMany, FS_Subset
    <3>7. PICK a, b \in Nat : a = Cardinality(Over(j)') /\ b = Cardinality(Over(j))
      BY <3>3, <3>4, TabsAreMany
    <3> QED
      BY <3>5, <3>6, <3>7, TabsAreMany
  <2> QED
    BY <2>2, <2>3
<1> QED
  BY <1>4, <1>7, <1>8, <1>9 DEF DraftsInv

LEMMA CommitCreateKeepsInv ==
  ASSUME DraftsInv, NEW w \in Tabs, CommitCreate(w) PROVE DraftsInv'
<1> DEFINE left == Minus(drafts, doomed[w])
<1>0. /\ DraftsTypeOK /\ drafts \in Seq(DraftIds) /\ IsInjective(drafts) /\ nextDraft \in DraftIds
      /\ w \in creating /\ nextDraft \in Nat
  BY DraftCapAssumption DEF DraftsInv, DraftsTypeOK, CommitCreate, DraftIds
<1>1. left \in Seq(DraftIds) /\ IsInjective(left) /\ ToSet(left) = LeftBy(w)
  BY <1>0, MinusLeaves DEF LeftBy, OwnDrafts
<1>2. /\ drafts' = Append(left, nextDraft) /\ nextDraft' = nextDraft + 1 /\ creating' = creating \ {w}
      /\ doomed' = [doomed EXCEPT ![w] = {}]
  BY DEF CommitCreate
<1> HIDE DEF left
<1>3. nextDraft \notin OwnDrafts /\ nextDraft \notin LeftBy(w)
  BY <1>0 DEF DraftsInv, IdsAreOld, LeftBy
<1>4. /\ drafts' \in Seq(DraftIds) /\ IsInjective(drafts') /\ Len(drafts') = Cardinality(LeftBy(w)) + 1
      /\ OwnDrafts' = LeftBy(w) \cup {nextDraft}
  <2>1. /\ drafts' \in Seq(DraftIds) /\ Len(left) \in Nat /\ Len(drafts') = Len(left) + 1
        /\ DOMAIN left = 1 .. Len(left) /\ DOMAIN drafts' = 1 .. Len(left) + 1
        /\ \A i \in 1 .. Len(left) : drafts'[i] = left[i]
        /\ drafts'[Len(left) + 1] = nextDraft
    BY <1>0, <1>1, <1>2
  <2>2. \A i \in 1 .. Len(left) + 1 : i \in 1 .. Len(left) \/ i = Len(left) + 1
    BY <2>1
  <2>3. ToSet(drafts') = ToSet(left) \cup {nextDraft}
    <3>1. (\A i \in 1 .. Len(left) : i \in 1 .. Len(left) + 1) /\ Len(left) + 1 \in 1 .. Len(left) + 1
      BY <2>1
    <3> QED
      BY <2>1, <2>2, <3>1 DEF ToSet
  <2>4. IsInjective(drafts')
    <3>1. \A i \in 1 .. Len(left) : left[i] # nextDraft
      BY <1>1, <1>3, <2>1 DEF ToSet
    <3> QED
      BY <2>1, <2>2, <3>1, <1>1 DEF IsInjective
  <2>5. Len(left) = Cardinality(LeftBy(w))
    BY <1>1, LengthIsSize
  <2> QED
    BY <2>1, <2>3, <2>4, <2>5, <1>1 DEF OwnDrafts
<1>5. \A v \in Tabs : v # w => doomed'[v] = doomed[v]
  BY <1>0, <1>2 DEF DraftsTypeOK
<1>6. doomed'[w] = {}
  BY <1>0, <1>2 DEF DraftsTypeOK
<1>7. DraftsTypeOK'
  BY <1>0, <1>2, <1>4, DraftCapAssumption DEF DraftsTypeOK, DraftIds
<1>8. IdsAreOld'
  <2>1. OwnDrafts \in SUBSET DraftIds
    BY <1>0, OwnDraftsSize
  <2>2. \A d \in DraftIds : d < nextDraft => d < nextDraft'
    BY <1>0, <1>2 DEF DraftIds
  <2>3. \A v \in Tabs : doomed[v] \in SUBSET DraftIds
    BY <1>0 DEF DraftsTypeOK
  <2>4. \A d \in OwnDrafts' : d < nextDraft'
    BY <1>0, <1>2, <1>4, <2>1, <2>2 DEF DraftsInv, IdsAreOld, LeftBy
  <2>5. \A v \in Tabs : \A d \in doomed'[v] : d < nextDraft'
    BY <1>5, <1>6, <2>2, <2>3 DEF DraftsInv, IdsAreOld
  <2> QED
    BY <2>4, <2>5 DEF IdsAreOld
<1>9. PICK m \in Nat, c \in Nat : m = Cardinality(Tabs) /\ c = Cardinality(LeftBy(w))
  <2>1. LeftBy(w) \in SUBSET DraftIds
    BY <1>0, OwnDraftsSize
  <2> QED
    BY <2>1, SetsOfIds, TabsAreMany
<1>10. CapButForOverlap'
  <2>1. Cardinality(Over(m)) + m <= m
    BY <1>9 DEF FewAreOver, DraftsInv
  <2>2. Over(m) \in SUBSET Tabs
    BY <1>0 DEF Over, DraftsTypeOK
  <2>3. Over(m) = {}
    BY <2>1, <2>2, <1>9, TabsAreMany, FS_EmptySet
  <2>4. ~ (c >= DraftCap - 1 + m)
    BY <2>3, <1>0, <1>9 DEF Over
  <2> QED
    BY <2>4, <1>4, <1>9, DraftCapAssumption DEF CapButForOverlap
<1>11. FewAreOver'
  <2> SUFFICES ASSUME NEW j \in 0 .. m PROVE Cardinality(Over(j)') + j <= m
    BY <1>9 DEF FewAreOver
  <2>0. Over(j)' \in SUBSET Tabs
    BY <1>7 DEF Over, DraftsTypeOK
  <2>1. CASE j = 0
    BY <2>0, <2>1, <1>9, TabsAreMany
  <2>2. CASE Over(j)' = {}
    <3>1. Cardinality(Over(j)') = 0
      BY <2>2, FS_EmptySet
    <3> QED
      BY <3>1
  <2>3. CASE j # 0 /\ Over(j)' # {}
    <3>0. j - 1 \in 0 .. m /\ j \in Nat
      BY <2>3
    <3>1. ASSUME NEW v \in Over(j)' PROVE v # w /\ v \in Over(j - 1) /\ w \in Over(j - 1)
      <4>1. v \in creating /\ v # w /\ v \in Tabs
        BY <1>2, <1>0 DEF Over, DraftsTypeOK
      <4>2. LeftBy(v)' = (LeftBy(w) \ doomed[v]) \cup {nextDraft}
        <5>1. nextDraft \notin doomed[v]
          BY <1>0, <4>1 DEF DraftsInv, IdsAreOld
        <5> QED
          BY <4>1, <5>1, <1>4, <1>5 DEF LeftBy
      <4>3. LeftBy(w) \in SUBSET DraftIds /\ LeftBy(v) \in SUBSET DraftIds
        BY <1>0, <4>1, OwnDraftsSize
      <4>4. LeftBy(w) \ doomed[v] \subseteq LeftBy(w) /\ LeftBy(w) \ doomed[v] \subseteq LeftBy(v)
        BY DEF LeftBy
      <4>5. nextDraft \notin LeftBy(w) \ doomed[v]
        BY <1>3
      <4>6. PICK a, b, e \in Nat :
              /\ a = Cardinality(LeftBy(w) \ doomed[v]) /\ b = Cardinality(LeftBy(v))
              /\ e = Cardinality(LeftBy(v)') /\ e = a + 1 /\ a <= b /\ a <= c
        <5>1. IsFiniteSet(LeftBy(w) \ doomed[v]) /\ LeftBy(w) \ doomed[v] \in SUBSET DraftIds
          BY <4>3, <4>4, SetsOfIds
        <5>2. Cardinality(LeftBy(v)') = Cardinality(LeftBy(w) \ doomed[v]) + 1
          BY <5>1, <4>2, <4>5, FS_AddElement
        <5>3. Cardinality(LeftBy(w) \ doomed[v]) \in Nat /\ Cardinality(LeftBy(v)) \in Nat
          BY <5>1, <4>3, SetsOfIds
        <5>4. Cardinality(LeftBy(w) \ doomed[v]) <= Cardinality(LeftBy(w))
              /\ Cardinality(LeftBy(w) \ doomed[v]) <= Cardinality(LeftBy(v))
          BY <4>3, <4>4, SetsOfIds
        <5> QED
          BY <5>2, <5>3, <5>4, <1>9
      <4>7. e >= DraftCap - 1 + j
        BY <4>6 DEF Over
      <4>8. b >= DraftCap - 1 + (j - 1) /\ c >= DraftCap - 1 + (j - 1)
        BY <4>6, <4>7, <3>0, <1>9, DraftCapAssumption
      <4> QED
        BY <4>1, <4>6, <4>8, <1>0, <1>9 DEF Over
    <3>2. w \in Over(j - 1) /\ Over(j)' \subseteq Over(j - 1) \ {w}
      BY <2>3, <3>1
    <3>3. Cardinality(Over(j - 1)) + (j - 1) <= m
      BY <3>0, <1>9 DEF FewAreOver, DraftsInv
    <3>4. Over(j - 1) \in SUBSET Tabs
      BY <1>0 DEF Over, DraftsTypeOK
    <3>5. Cardinality(Over(j - 1) \ {w}) = Cardinality(Over(j - 1)) - 1
      BY <3>2, <3>4, TabsAreMany, FS_RemoveElement
    <3>6. Cardinality(Over(j)') <= Cardinality(Over(j - 1) \ {w})
      <4>1. IsFiniteSet(Over(j - 1) \ {w})
        BY <3>4, TabsAreMany
      <4> QED
        BY <4>1, <3>2, FS_Subset
    <3>7. PICK a, b \in Nat : a = Cardinality(Over(j)') /\ b = Cardinality(Over(j - 1))
      BY <2>0, <3>4, TabsAreMany
    <3> QED
      BY <3>0, <3>3, <3>5, <3>6, <3>7, <1>9
  <2> QED
    BY <2>1, <2>2, <2>3
<1> QED
  BY <1>7, <1>8, <1>10, <1>11 DEF DraftsInv

\* What comes to fewer drafts, or to the same.
LEMMA DraftsGo ==
  ASSUME DraftsInv, drafts' \in Seq(DraftIds), IsInjective(drafts'), ToSet(drafts') \subseteq OwnDrafts,
         UNCHANGED <<nextDraft, creating, doomed>>
  PROVE  DraftsInv'
<1>1. DraftsTypeOK'
  BY DEF DraftsInv, DraftsTypeOK
<1>2. OwnDrafts' \subseteq OwnDrafts
  BY DEF OwnDrafts
<1> QED
  BY <1>1, <1>2, FewerDraftsKeepInv

LEMMA DraftsKeeps == DraftsInv /\ [DraftsNext]_draftVars => DraftsInv'
<1> SUFFICES ASSUME DraftsInv, [DraftsNext]_draftVars PROVE DraftsInv'
  OBVIOUS
<1>0. drafts \in Seq(DraftIds) /\ IsInjective(drafts) /\ Len(drafts) \in Nat /\ OwnDrafts \in SUBSET DraftIds
  BY OwnDraftsSize DEF DraftsInv, DraftsTypeOK
<1>1. ASSUME NEW w \in Tabs, AbortCreate(w) PROVE DraftsInv'
  <2>1. DraftsTypeOK' /\ OwnDrafts' = OwnDrafts
    BY <1>1 DEF AbortCreate, DraftsInv, DraftsTypeOK, OwnDrafts
  <2>2. /\ \A v \in creating' : doomed'[v] = doomed[v]
        /\ \A v \in Tabs : doomed'[v] \subseteq doomed[v]
    BY <1>1 DEF AbortCreate, DraftsInv, DraftsTypeOK
  <2> QED
    BY <1>1, <2>1, <2>2, FewerDraftsKeepInv DEF AbortCreate
<1>2. ASSUME NEW d \in DraftIds, UpdateDraft(d) PROVE DraftsInv'
  <2> DEFINE rest == Minus(drafts, {d})
  <2>1. rest \in Seq(DraftIds) /\ IsInjective(rest) /\ ToSet(rest) = OwnDrafts \ {d}
    BY <1>0, MinusLeaves DEF OwnDrafts
  <2>2. drafts' = Append(rest, d) /\ UNCHANGED <<nextDraft, creating, doomed>> /\ d \in OwnDrafts
    BY <1>2 DEF UpdateDraft
  <2> HIDE DEF rest
  <2>3. /\ drafts' \in Seq(DraftIds) /\ Len(rest) \in Nat
        /\ DOMAIN rest = 1 .. Len(rest) /\ DOMAIN drafts' = 1 .. Len(rest) + 1
        /\ \A i \in 1 .. Len(rest) : drafts'[i] = rest[i]
        /\ drafts'[Len(rest) + 1] = d
    BY <2>1, <2>2
  <2>4. \A i \in 1 .. Len(rest) + 1 : i \in 1 .. Len(rest) \/ i = Len(rest) + 1
    BY <2>3
  <2>5. \A i \in 1 .. Len(rest) : rest[i] # d
    BY <2>1, <2>3 DEF ToSet
  <2>6. IsInjective(drafts')
    BY <2>1, <2>3, <2>4, <2>5 DEF IsInjective
  <2>7. ToSet(drafts') \subseteq OwnDrafts
    BY <2>1, <2>2, <2>3, <2>4 DEF ToSet
  <2> QED
    BY <2>2, <2>3, <2>6, <2>7, DraftsGo
<1>3. ASSUME NEW d \in DraftIds, DeleteDraft(d) PROVE DraftsInv'
  <2>1. /\ Minus(drafts, {d}) \in Seq(DraftIds) /\ IsInjective(Minus(drafts, {d}))
        /\ ToSet(Minus(drafts, {d})) = OwnDrafts \ {d}
    BY <1>0, MinusLeaves DEF OwnDrafts
  <2>2. drafts' = Minus(drafts, {d}) /\ UNCHANGED <<nextDraft, creating, doomed>>
    BY <1>3 DEF DeleteDraft
  <2>3. drafts' \in Seq(DraftIds) /\ IsInjective(drafts') /\ ToSet(drafts') \subseteq OwnDrafts
    BY <2>1, <2>2
  <2> QED
    BY <2>2, <2>3, DraftsGo
<1>4. ASSUME PruneStaleDrafts PROVE DraftsInv'
  <2>1. PICK n \in 1 .. Len(drafts) : drafts' = SubSeq(drafts, n + 1, Len(drafts))
    <3>1. DOMAIN drafts = 1 .. Len(drafts)
      BY <1>0
    <3> QED
      BY <3>1, <1>4 DEF PruneStaleDrafts
  <2>2. PICK m \in Nat : m = Len(drafts)
    BY <1>0
  <2>3. \A i \in n + 1 .. m : drafts[i] \in DraftIds
    BY <1>0, <2>1, <2>2
  <2>4. /\ drafts' \in Seq(DraftIds) /\ Len(drafts') = IF n + 1 <= m THEN m - (n + 1) + 1 ELSE 0
        /\ \A i \in 1 .. m - (n + 1) + 1 : drafts'[i] = drafts[n + 1 + i - 1]
    BY <2>1, <2>2, <2>3, SubSeqProperties
  <2>5. DOMAIN drafts' = 1 .. m - n /\ \A i \in 1 .. m - n : drafts'[i] = drafts[n + i] /\ n + i \in 1 .. m
    BY <2>1, <2>2, <2>4
  <2>6. IsInjective(drafts')
    BY <1>0, <2>2, <2>5 DEF IsInjective
  <2>7. ToSet(drafts') \subseteq OwnDrafts
    BY <1>0, <2>2, <2>5 DEF ToSet, OwnDrafts
  <2> QED
    BY <1>4, <2>4, <2>6, <2>7, DraftsGo DEF PruneStaleDrafts
<1>5. CASE UNCHANGED draftVars
  <2>1. ToSet(drafts') \subseteq OwnDrafts /\ drafts' = drafts
    BY <1>5 DEF draftVars, OwnDrafts
  <2> QED
    BY <1>0, <1>5, <2>1, DraftsGo DEF draftVars
<1> QED
  BY <1>1, <1>2, <1>3, <1>4, <1>5, ReadForCreateKeepsInv, CommitCreateKeepsInv DEF DraftsNext

LEMMA DraftsInvHolds == DraftsSpec => []DraftsInv
BY DraftsInitInv, DraftsKeeps, PTL DEF DraftsSpec

\* Drafts.tla: every variable keeps its type.
THEOREM DraftsTypes == DraftsSpec => []DraftsTypeOK
<1>1. DraftsInv => DraftsTypeOK
  BY DEF DraftsInv
<1> QED
  BY <1>1, DraftsInvHolds, PTL

\* drafts.ts:36: whatever number of tabs create, save and delete at once, a
\* writer's drafts are fewer than the cap and the tabs together: every create
\* makes up for what the others left over.
THEOREM DraftsCapButForOverlap == DraftsSpec => []CapButForOverlap
<1>1. DraftsInv => CapButForOverlap
  BY DEF DraftsInv
<1> QED
  BY <1>1, DraftsInvHolds, PTL

-----------------------------------------------------------------------------
(***************************************************************************)
(* Comments, for any writers and finitely many calls: the types, and that  *)
(* the comments of a writer within the day are more than the limit by no   *)
(* more than calls overlap.                                                *)
(***************************************************************************)

\* The calls of a writer, and those of them that are past the check of the rate.
CallsOf(u) == {q \in Posts : WriterOf[q] = u}
Checked(u) == {q \in CallsOf(u) : postStep[q] \in {"reply", "insert"}}

\* There is room for what was checked, but for one call less than there are.
RoomForChecked ==
  \A u \in Writers :
    Cardinality(Recent(u)) + Cardinality(Checked(u)) < CommentLimit + Cardinality(CallsOf(u))

CommentsInv == CommentsTypeOK /\ RoomForChecked

LEMMA CallsAreFew ==
  ASSUME NEW u
  PROVE  /\ IsFiniteSet(CallsOf(u)) /\ Cardinality(CallsOf(u)) \in Nat
         /\ \A Q \in SUBSET CallsOf(u) : /\ IsFiniteSet(Q) /\ Cardinality(Q) \in Nat
                                         /\ Cardinality(Q) <= Cardinality(CallsOf(u))
         /\ Checked(u) \in SUBSET CallsOf(u) /\ Checked(u)' \in SUBSET CallsOf(u)
<1>1. IsFiniteSet(CallsOf(u))
  BY WriterAssumption, FS_Subset DEF CallsOf
<1> QED
  BY <1>1, FS_Subset, FS_CardinalityType DEF Checked

LEMMA RecentAreFew ==
  ASSUME CommentsTypeOK, NEW u
  PROVE  /\ IsFiniteSet(Recent(u)) /\ Cardinality(Recent(u)) \in Nat
         /\ Recent(u) \subseteq 1 .. Len(comment)
         /\ \A R \in SUBSET Recent(u) : Cardinality(R) \in Nat /\ Cardinality(R) <= Cardinality(Recent(u))
<1>1. PICK a \in Nat, n \in Nat : a = aged /\ n = Len(comment) /\ a + 1 \in Int /\ n \in Int
  BY DEF CommentsTypeOK
<1>2. IsFiniteSet(a + 1 .. n) /\ a + 1 .. n \subseteq 1 .. n
  <2>1. PICK b \in Int : b = a + 1
    BY <1>1
  <2>2. IsFiniteSet(b .. n)
    BY <1>1, FS_Interval
  <2>3. a + 1 .. n \subseteq 1 .. n
    BY <1>1
  <2> QED
    BY <2>1, <2>2, <2>3
<1>3. Recent(u) \in SUBSET (a + 1 .. n)
  BY <1>1 DEF Recent
<1>4. IsFiniteSet(Recent(u))
  BY <1>2, <1>3, FS_Subset
<1> QED
  BY <1>1, <1>2, <1>3, <1>4, FS_Subset, FS_CardinalityType

LEMMA CommentsInitInv == CommentsInit => CommentsInv
<1> SUFFICES ASSUME CommentsInit PROVE CommentsInv
  OBVIOUS
<1>1. CommentsTypeOK
  BY MaxCommentsAssumption DEF CommentsInit, CommentsTypeOK
<1>2. ASSUME NEW u \in Writers PROVE Recent(u) = {} /\ Checked(u) = {}
  <2>1. aged = 0 /\ Len(comment) = 0
    BY DEF CommentsInit
  <2>2. \A c \in 0 + 1 .. 0 : FALSE
    OBVIOUS
  <2> QED
    BY <2>1, <2>2 DEF CommentsInit, Recent, Checked, CallsOf
<1>3. Cardinality({}) = 0
  BY FS_EmptySet
<1>4. RoomForChecked
  <2> SUFFICES ASSUME NEW u \in Writers
               PROVE  Cardinality(Recent(u)) + Cardinality(Checked(u)) < CommentLimit + Cardinality(CallsOf(u))
    BY DEF RoomForChecked
  <2>1. PICK e \in Nat : e = Cardinality(CallsOf(u))
    BY CallsAreFew
  <2>2. Cardinality(Recent(u)) = 0 /\ Cardinality(Checked(u)) = 0
    BY <1>2, <1>3
  <2> QED
    BY <2>1, <2>2, CommentLimitAssumption
<1> QED
  BY <1>1, <1>4 DEF CommentsInv

\* With no more comments that count, and no more calls past the check, there is room.
LEMMA FewerKeepRoom ==
  ASSUME CommentsInv, CommentsTypeOK', NEW u \in Writers,
         Recent(u)' \subseteq Recent(u), Checked(u)' \subseteq Checked(u)
  PROVE  Cardinality(Recent(u)') + Cardinality(Checked(u)') < CommentLimit + Cardinality(CallsOf(u))
<1>1. PICK a, b, c, d, e \in Nat :
        /\ a = Cardinality(Recent(u)) /\ b = Cardinality(Checked(u)) /\ c = Cardinality(Recent(u)')
        /\ d = Cardinality(Checked(u)') /\ e = Cardinality(CallsOf(u)) /\ c <= a /\ d <= b
  <2>1. Cardinality(Checked(u)') <= Cardinality(Checked(u))
    BY CallsAreFew, FS_Subset
  <2> QED
    BY <2>1, CallsAreFew, RecentAreFew DEF CommentsInv
<1>2. a + b < CommentLimit + e
  BY <1>1 DEF CommentsInv, RoomForChecked
<1> QED
  BY <1>1, <1>2, CommentLimitAssumption

\* A step that leaves the comments as they are, and lets no call past the check.
LEMMA CallsMoveOn ==
  ASSUME CommentsInv, CommentsTypeOK', UNCHANGED <<comment, aged>>,
         \A q \in Posts : postStep'[q] \in {"reply", "insert"} => postStep[q] \in {"reply", "insert"}
  PROVE  CommentsInv'
<1>1. \A u : Recent(u)' = Recent(u) /\ Checked(u)' \subseteq Checked(u) /\ CallsOf(u)' = CallsOf(u)
  BY DEF Recent, Checked, CallsOf
<1> QED
  BY <1>1, FewerKeepRoom DEF CommentsInv, RoomForChecked

LEMMA PostTypes ==
  ASSUME CommentsInv, NEW q \in Posts, CreateComment(q) PROVE CommentsTypeOK'
<1>0. CommentsTypeOK
  BY DEF CommentsInv
<1>1. CASE BeginPost(q)
  <2>1. PICK c \in ActiveComments \cup {0} : replyTo' = [replyTo EXCEPT ![q] = c]
    BY <1>1 DEF BeginPost
  <2>2. c \in 0 .. MaxComments
    BY <1>0, <2>1, MaxCommentsAssumption DEF ActiveComments, CommentsTypeOK
  <2> QED
    BY <1>0, <1>1, <2>1, <2>2 DEF BeginPost, GoTo, CommentsTypeOK
<1>2. CASE CheckReport(q)
  BY <1>0, <1>2 DEF CheckReport, GoTo, CommentsTypeOK
<1>3. CASE CheckRate(q)
  BY <1>0, <1>3 DEF CheckRate, GoTo, CommentsTypeOK
<1>4. CASE CheckReply(q)
  BY <1>0, <1>4 DEF CheckReply, GoTo, CommentsTypeOK
<1>5. CASE InsertComment(q)
  <2> DEFINE row == [author |-> WriterOf[q], parent |-> replyTo[q], status |-> "active"]
  <2>1. row \in CommentRow
    BY <1>0, WriterAssumption DEF CommentRow, CommentsTypeOK
  <2> HIDE DEF row
  <2>2. comment' = Append(comment, row)
    BY <1>5 DEF InsertComment, row
  <2>3. comment' \in Seq(CommentRow) /\ Len(comment') = Len(comment) + 1 /\ Len(comment) \in Nat
    BY <1>0, <2>1, <2>2 DEF CommentsTypeOK
  <2>4. 0 \in 0 .. MaxComments
    BY MaxCommentsAssumption
  <2> QED
    BY <1>0, <1>5, <2>3, <2>4, MaxCommentsAssumption DEF InsertComment, GoTo, CommentsTypeOK
<1>6. CASE RefusePost(q)
  <2>1. 0 \in 0 .. MaxComments
    BY MaxCommentsAssumption
  <2> QED
    BY <1>0, <1>6, <2>1 DEF RefusePost, GoTo, CommentsTypeOK
<1> QED
  BY <1>1, <1>2, <1>3, <1>4, <1>5, <1>6 DEF CreateComment

LEMMA CheckRateKeepsRoom ==
  ASSUME CommentsInv, NEW q \in Posts, CheckRate(q) PROVE RoomForChecked'
<1> SUFFICES ASSUME NEW u \in Writers
             PROVE  Cardinality(Recent(u)') + Cardinality(Checked(u)') < CommentLimit + Cardinality(CallsOf(u))
  BY DEF RoomForChecked, CallsOf
<1>0. CommentsTypeOK /\ CommentsTypeOK' /\ CreateComment(q)
  BY PostTypes DEF CommentsInv, CreateComment
<1>1. Recent(u)' = Recent(u)
  BY DEF CheckRate, Recent
<1>2. CASE u = WriterOf[q]
  <2>1. PICK a, d, e \in Nat : /\ a = Cardinality(Recent(u)) /\ d = Cardinality(Checked(u)')
                               /\ e = Cardinality(CallsOf(u)) /\ d <= e
    BY <1>0, CallsAreFew, RecentAreFew
  <2>2. ~ (a >= CommentLimit)
    BY <1>2, <2>1 DEF CheckRate, ReachedRateLimit
  <2> QED
    BY <1>1, <2>1, <2>2, CommentLimitAssumption
<1>3. CASE u # WriterOf[q]
  <2>1. \A p \in Posts : p # q => postStep'[p] = postStep[p]
    BY <1>0 DEF CheckRate, GoTo, CommentsTypeOK
  <2>2. Checked(u)' \subseteq Checked(u)
    BY <1>3, <2>1 DEF Checked, CallsOf
  <2> QED
    BY <1>0, <1>1, <2>2, FewerKeepRoom
<1> QED
  BY <1>2, <1>3

LEMMA InsertKeepsRoom ==
  ASSUME CommentsInv, NEW q \in Posts, InsertComment(q) PROVE RoomForChecked'
<1> SUFFICES ASSUME NEW u \in Writers
             PROVE  Cardinality(Recent(u)') + Cardinality(Checked(u)') < CommentLimit + Cardinality(CallsOf(u))
  BY DEF RoomForChecked, CallsOf
<1>0. CommentsTypeOK /\ CommentsTypeOK' /\ CreateComment(q)
  BY PostTypes DEF CommentsInv, CreateComment
<1>1. \A p \in Posts : postStep'[p] = IF p = q THEN "idle" ELSE postStep[p]
  BY <1>0 DEF InsertComment, GoTo, CommentsTypeOK
<1>2. PICK n \in Nat : /\ n = Len(comment) /\ Len(comment') = n + 1 /\ aged' = aged /\ aged \in Nat
                       /\ comment'[n + 1].author = WriterOf[q]
                       /\ \A c \in 1 .. n : comment'[c] = comment[c]
  <2> DEFINE row == [author |-> WriterOf[q], parent |-> replyTo[q], status |-> "active"]
  <2>1. row \in CommentRow
    BY <1>0, WriterAssumption DEF CommentRow, CommentsTypeOK
  <2>2. row.author = WriterOf[q]
    OBVIOUS
  <2> HIDE DEF row
  <2>3. comment' = Append(comment, row) /\ aged' = aged
    BY DEF InsertComment, row
  <2>4. comment \in Seq(CommentRow) /\ aged \in Nat /\ Len(comment) \in Nat
    BY <1>0 DEF CommentsTypeOK
  <2>5. /\ Len(comment') = Len(comment) + 1 /\ comment'[Len(comment) + 1] = row
        /\ \A c \in 1 .. Len(comment) : comment'[c] = comment[c]
    BY <2>1, <2>3, <2>4
  <2> QED
    BY <2>2, <2>3, <2>4, <2>5
<1>3. \A c \in aged + 1 .. n + 1 : c = n + 1 \/ (c \in aged + 1 .. n /\ c \in 1 .. n)
  BY <1>2
<1>4. CASE u = WriterOf[q]
  <2>1. Recent(u)' \subseteq Recent(u) \cup {n + 1}
    BY <1>2, <1>3 DEF Recent
  <2>2. q \in Checked(u) /\ Checked(u)' = Checked(u) \ {q}
    BY <1>1, <1>4 DEF Checked, CallsOf, InsertComment
  <2>3. Cardinality(Recent(u)') <= Cardinality(Recent(u)) + 1
    <3>1. /\ IsFiniteSet(Recent(u) \cup {n + 1})
          /\ Cardinality(Recent(u) \cup {n + 1}) \in {Cardinality(Recent(u)), Cardinality(Recent(u)) + 1}
      BY <1>0, RecentAreFew, FS_AddElement
    <3>2. Cardinality(Recent(u)') <= Cardinality(Recent(u) \cup {n + 1})
      BY <2>1, <3>1, FS_Subset
    <3>3. PICK a, b \in Nat : a = Cardinality(Recent(u)) /\ b = Cardinality(Recent(u)')
      BY <1>0, <2>1, <3>1, RecentAreFew, FS_Subset, FS_CardinalityType
    <3> QED
      BY <3>1, <3>2, <3>3
  <2>4. PICK a, b, c, d, e \in Nat :
        /\ a = Cardinality(Recent(u)) /\ b = Cardinality(Checked(u)) /\ c = Cardinality(Recent(u)')
        /\ d = Cardinality(Checked(u)') /\ e = Cardinality(CallsOf(u)) /\ c <= a + 1 /\ d = b - 1
    <3>1. Cardinality(Checked(u) \ {q}) = Cardinality(Checked(u)) - 1
      BY <2>2, CallsAreFew, FS_RemoveElement
    <3>2. Cardinality(Recent(u)') \in Nat
      <4>1. IsFiniteSet(Recent(u) \cup {n + 1})
        BY <1>0, RecentAreFew, FS_AddElement
      <4> QED
        BY <2>1, <4>1, FS_Subset, FS_CardinalityType
    <3> QED
      BY <1>0, <2>2, <2>3, <3>1, <3>2, CallsAreFew, RecentAreFew
  <2>5. a + b < CommentLimit + e
    BY <2>4 DEF CommentsInv, RoomForChecked
  <2> QED
    BY <2>4, <2>5, CommentLimitAssumption
<1>5. CASE u # WriterOf[q]
  <2>1. Recent(u)' \subseteq Recent(u)
    BY <1>2, <1>3, <1>5 DEF Recent
  <2>2. Checked(u)' \subseteq Checked(u)
    BY <1>1 DEF Checked, CallsOf
  <2> QED
    BY <1>0, <2>1, <2>2, FewerKeepRoom
<1> QED
  BY <1>4, <1>5

LEMMA CreateCommentKeepsInv ==
  ASSUME CommentsInv, NEW q \in Posts, CreateComment(q) PROVE CommentsInv'
<1>0. CommentsTypeOK /\ CommentsTypeOK'
  BY PostTypes DEF CommentsInv
<1>1. CASE CheckRate(q)
  BY <1>0, <1>1, CheckRateKeepsRoom DEF CommentsInv
<1>2. CASE InsertComment(q)
  BY <1>0, <1>2, InsertKeepsRoom DEF CommentsInv
<1>3. CASE BeginPost(q) \/ CheckReport(q) \/ CheckReply(q) \/ RefusePost(q)
  <2>1. UNCHANGED <<comment, aged>>
    BY <1>3 DEF BeginPost, CheckReport, CheckReply, RefusePost
  <2>2. \A p \in Posts : postStep'[p] \in {"reply", "insert"} => postStep[p] \in {"reply", "insert"}
    BY <1>0, <1>3 DEF BeginPost, CheckReport, CheckReply, RefusePost, GoTo, CommentsTypeOK
  <2> QED
    BY <1>0, <2>1, <2>2, CallsMoveOn
<1> QED
  BY <1>1, <1>2, <1>3 DEF CreateComment

\* A comment that is gone, or back, counts as it did.
LEMMA StatusKeepsInv ==
  ASSUME CommentsInv, NEW c \in DOMAIN comment, NEW s \in {"active", "hidden", "deleted"},
         SetStatus(c, s), UNCHANGED <<aged, postStep, replyTo>>
  PROVE  CommentsInv'
<1>0. CommentsTypeOK
  BY DEF CommentsInv
<1>1. /\ comment' \in Seq(CommentRow) /\ Len(comment') = Len(comment)
      /\ \A d \in 1 .. Len(comment) : comment'[d].author = comment[d].author
  <2>1. comment' = [comment EXCEPT ![c].status = s] /\ comment \in Seq(CommentRow) /\ c \in 1 .. Len(comment)
    BY <1>0 DEF SetStatus, CommentsTypeOK
  <2>2. comment' = [comment EXCEPT ![c] = [comment[c] EXCEPT !.status = s]]
    BY <2>1
  <2>3. /\ [comment[c] EXCEPT !.status = s] \in CommentRow
        /\ [comment[c] EXCEPT !.status = s].author = comment[c].author
    <3>1. comment[c] \in CommentRow
      BY <2>1
    <3>2. PICK row \in CommentRow : row = comment[c]
      BY <3>1
    <3>3. [row EXCEPT !.status = s] \in CommentRow /\ [row EXCEPT !.status = s].author = row.author
      BY DEF CommentRow
    <3> QED
      BY <3>2, <3>3
  <2> HIDE DEF CommentRow
  <2> QED
    BY <2>1, <2>2, <2>3
<1>2. CommentsTypeOK'
  BY <1>0, <1>1 DEF CommentsTypeOK
<1>3. \A u : Recent(u)' = Recent(u) /\ Checked(u)' = Checked(u) /\ CallsOf(u)' = CallsOf(u)
  <2>1. \A d \in aged + 1 .. Len(comment) : d \in 1 .. Len(comment)
    BY <1>0 DEF CommentsTypeOK
  <2> QED
    BY <1>1, <2>1 DEF Recent, Checked, CallsOf
<1> QED
  BY <1>2, <1>3, FewerKeepRoom DEF CommentsInv, RoomForChecked

LEMMA CommentsKeeps == CommentsInv /\ [CommentsNext]_commentVars => CommentsInv'
<1> SUFFICES ASSUME CommentsInv, [CommentsNext]_commentVars PROVE CommentsInv'
  OBVIOUS
<1>0. CommentsTypeOK
  BY DEF CommentsInv
<1>1. ASSUME NEW c \in DOMAIN comment,
             (\E u \in Writers : SoftDeleteComment(c, u)) \/ HideFlagged(c) \/ RestoreComment(c)
      PROVE  CommentsInv'
  BY <1>1, StatusKeepsInv DEF SoftDeleteComment, HideFlagged, RestoreComment
<1>2. CASE CommentAges
  <2>1. CommentsTypeOK'
    BY <1>0, <1>2 DEF CommentAges, CommentsTypeOK
  <2>2. \A c \in aged' + 1 .. Len(comment) : c \in aged + 1 .. Len(comment)
    BY <1>0, <1>2 DEF CommentAges, CommentsTypeOK
  <2>3. \A u : Recent(u)' \subseteq Recent(u) /\ Checked(u)' = Checked(u) /\ CallsOf(u)' = CallsOf(u)
    BY <1>2, <2>2 DEF CommentAges, Recent, Checked, CallsOf
  <2> QED
    BY <2>1, <2>3, FewerKeepRoom DEF CommentsInv, RoomForChecked
<1>3. CASE UNCHANGED commentVars
  <2>1. CommentsTypeOK'
    BY <1>0, <1>3 DEF commentVars, CommentsTypeOK
  <2> QED
    BY <1>3, <2>1, CallsMoveOn DEF commentVars
<1> QED
  BY <1>1, <1>2, <1>3, CreateCommentKeepsInv DEF CommentsNext

\* Comments.tla: every variable keeps its type.
THEOREM CommentsTypes == CommentsSpec => []CommentsTypeOK
<1>1. CommentsInv => CommentsTypeOK
  BY DEF CommentsInv
<1> QED
  BY <1>1, CommentsInitInv, CommentsKeeps, PTL DEF CommentsSpec

\* comments.ts:19: the comments a writer has posted within the day are fewer
\* than the limit and the calls of this writer together, whatever the calls,
\* replies, edits and deletions interleave.
THEOREM CommentsCapButForOverlap == CommentsSpec => []CapHoldsButForOverlap
<1>1. ASSUME CommentsInv PROVE CapHoldsButForOverlap
  <2> SUFFICES ASSUME NEW u \in Writers
               PROVE  Cardinality(Recent(u)) < CommentLimit + Cardinality(CallsOf(u))
    BY DEF CapHoldsButForOverlap, CallsOf
  <2>1. PICK a, b, e \in Nat : /\ a = Cardinality(Recent(u)) /\ b = Cardinality(Checked(u))
                               /\ e = Cardinality(CallsOf(u))
    BY <1>1, CallsAreFew, RecentAreFew DEF CommentsInv
  <2>2. a + b < CommentLimit + e
    BY <1>1, <2>1 DEF CommentsInv, RoomForChecked
  <2> QED
    BY <2>1, <2>2, CommentLimitAssumption
<1> QED
  BY <1>1, CommentsInitInv, CommentsKeeps, PTL DEF CommentsSpec

-----------------------------------------------------------------------------

\* A reply, and a call under way, answer a comment that there is, older than the
\* reply itself.
TargetsExist ==
  /\ \A c \in DOMAIN comment : comment[c].parent < c
  /\ \A q \in Posts : replyTo[q] <= Len(comment)

\* The order the listing is in.
ListingOrder(sort, likes) == {p \in Nat \X Nat : ComesBefore(sort, likes, p[1], p[2])}

LEMMA ListingIsOrdered ==
  ASSUME NEW S \in SUBSET Nat, NEW sort, NEW likes, sort = "top" => \A c \in S : likes[c] \in Nat
  PROVE  Orders(ListingOrder(sort, likes), S)
BY DEF Orders, ListingOrder, ComesBefore

\* The listing shows what is to be listed, each comment once.
LEMMA ListingIs ==
  ASSUME CommentsTypeOK, NEW sort, NEW likes, sort = "top" => \A c \in Listed : likes[c] \in Nat
  PROVE  LET list == ListCommentsForReport(sort, likes) IN
         /\ Lists(list, Listed, ListingOrder(sort, likes))
         /\ list \in Seq(Listed) /\ IsInjective(list) /\ ToSet(list) = Listed
<1> DEFINE list == ListCommentsForReport(sort, likes)
           R == ListingOrder(sort, likes)
<1>1. Listed \in SUBSET (1 .. Len(comment)) /\ Len(comment) \in Nat
  BY DEF CommentsTypeOK, Listed
<1>2. IsFiniteSet(Listed) /\ Listed \in SUBSET Nat
  <2>1. PICK n \in Nat : n = Len(comment)
    BY <1>1
  <2>2. IsFiniteSet(1 .. n)
    BY FS_Interval
  <2>3. Listed \in SUBSET (1 .. n) /\ 1 .. n \subseteq Nat
    BY <1>1, <2>1
  <2> QED
    BY <2>2, <2>3, FS_Subset
<1>3. Orders(R, Listed)
  BY <1>2, ListingIsOrdered
<1>4. PICK s : Lists(s, Listed, R)
  BY <1>2, <1>3, ListExists
<1>5. \A t \in [1 .. Cardinality(Listed) -> Listed] :
        Lists(t, Listed, R)
        <=> \A i, j \in DOMAIN t : i < j => ComesBefore(sort, likes, t[i], t[j])
  BY <1>2 DEF Lists, ListingOrder
<1>6. Lists(list, Listed, R)
  <2>1. s \in [1 .. Cardinality(Listed) -> Listed]
    BY <1>4 DEF Lists
  <2>2. list \in [1 .. Cardinality(Listed) -> Listed]
        /\ \A i, j \in DOMAIN list : i < j => ComesBefore(sort, likes, list[i], list[j])
    BY <1>4, <1>5, <2>1, Zenon DEF ListCommentsForReport
  <2> QED
    BY <1>5, <2>2
<1> HIDE DEF list, R
<1>7. list \in Seq(Listed) /\ IsInjective(list) /\ ToSet(list) = Listed
  BY <1>2, <1>3, <1>6, ListIs
<1> QED
  BY <1>6, <1>7 DEF list, R

LEMMA TargetsAtFirst == CommentsInit => TargetsExist
<1> SUFFICES ASSUME CommentsInit PROVE TargetsExist
  OBVIOUS
<1>1. comment = << >> /\ Len(comment) = 0 /\ DOMAIN comment = {}
  BY DEF CommentsInit
<1> QED
  BY <1>1 DEF CommentsInit, TargetsExist

LEMMA TargetsStep ==
  CommentsTypeOK /\ TargetsExist /\ [CommentsNext]_commentVars => TargetsExist'
<1> SUFFICES ASSUME CommentsTypeOK, TargetsExist, [CommentsNext]_commentVars PROVE TargetsExist'
  OBVIOUS
<1>0. /\ comment \in Seq(CommentRow) /\ Len(comment) \in Nat /\ DOMAIN comment = 1 .. Len(comment)
      /\ replyTo \in [Posts -> 0 .. MaxComments]
      /\ \A c \in DOMAIN comment : comment[c].parent \in Nat
  <2>1. comment \in Seq(CommentRow) /\ replyTo \in [Posts -> 0 .. MaxComments]
    BY DEF CommentsTypeOK
  <2>2. Len(comment) \in Nat /\ DOMAIN comment = 1 .. Len(comment)
        /\ \A c \in DOMAIN comment : comment[c] \in CommentRow
    BY <2>1
  <2> QED
    BY <2>1, <2>2 DEF CommentRow
<1>1. ASSUME comment' = comment, \A q \in Posts : replyTo'[q] \in {replyTo[q], 0} \cup DOMAIN comment
      PROVE  TargetsExist'
  BY <1>0, <1>1 DEF TargetsExist
<1>2. ASSUME NEW c \in DOMAIN comment, NEW s, SetStatus(c, s), UNCHANGED replyTo PROVE TargetsExist'
  <2>1. PICK row \in CommentRow : row = comment[c]
    BY <1>0
  <2>2. comment' = [comment EXCEPT ![c] = [row EXCEPT !.status = s]]
    BY <1>2, <2>1 DEF SetStatus
  <2>3. [row EXCEPT !.status = s].parent = row.parent
    BY <2>1 DEF CommentRow
  <2>4. DOMAIN comment' = DOMAIN comment /\ Len(comment') = Len(comment)
        /\ \A d \in DOMAIN comment : comment'[d].parent = comment[d].parent
    BY <1>0, <2>1, <2>2, <2>3
  <2> QED
    BY <1>2, <2>4 DEF TargetsExist
<1>3. ASSUME NEW q \in Posts, InsertComment(q) PROVE TargetsExist'
  <2> DEFINE row == [author |-> WriterOf[q], parent |-> replyTo[q], status |-> "active"]
             n == Len(comment)
  <2>1. comment' = Append(comment, row) /\ row.parent = replyTo[q]
    BY <1>3 DEF InsertComment
  <2> HIDE DEF row
  <2>2. /\ n \in Nat /\ Len(comment') = n + 1 /\ DOMAIN comment' = 1 .. n + 1
        /\ comment'[n + 1] = row /\ \A c \in 1 .. n : comment'[c] = comment[c]
    BY <1>0, <2>1
  <2>3. replyTo[q] \in Nat /\ replyTo[q] <= n /\ \A p \in Posts : replyTo[p] \in Nat /\ replyTo[p] <= n
    BY <1>0 DEF TargetsExist
  <2>4. \A p \in Posts : replyTo'[p] \in {replyTo[p], 0}
    BY <1>0, <1>3 DEF InsertComment
  <2>5. \A c \in 1 .. n : comment[c].parent < c
    BY <1>0 DEF TargetsExist
  <2> HIDE DEF n
  <2>6. \A c \in DOMAIN comment' : comment'[c].parent < c
    <3>1. \A c \in 1 .. n + 1 : c \in 1 .. n \/ c = n + 1
      BY <2>2
    <3>2. comment'[n + 1].parent < n + 1
      BY <2>1, <2>2, <2>3
    <3> QED
      BY <2>2, <2>5, <3>1, <3>2
  <2>7. \A p \in Posts : replyTo'[p] <= Len(comment')
    BY <2>2, <2>3, <2>4
  <2> QED
    BY <2>6, <2>7 DEF TargetsExist
<1>4. ASSUME NEW q \in Posts, CreateComment(q) PROVE TargetsExist'
  <2>1. CASE BeginPost(q)
    <3>1. \A p \in Posts : replyTo'[p] \in {replyTo[p], 0} \cup DOMAIN comment
      BY <1>0, <2>1 DEF BeginPost, ActiveComments
    <3> QED
      BY <2>1, <3>1, <1>1 DEF BeginPost
  <2>2. CASE CheckReport(q) \/ CheckRate(q) \/ CheckReply(q)
    BY <2>2, <1>1 DEF CheckReport, CheckRate, CheckReply
  <2>3. CASE InsertComment(q)
    BY <2>3, <1>3
  <2>4. CASE RefusePost(q)
    <3>1. \A p \in Posts : replyTo'[p] \in {replyTo[p], 0}
      BY <1>0, <2>4 DEF RefusePost
    <3> QED
      BY <2>4, <3>1, <1>1 DEF RefusePost
  <2> QED
    BY <1>4, <2>1, <2>2, <2>3, <2>4 DEF CreateComment
<1>5. CASE \E q \in Posts : CreateComment(q)
  BY <1>4, <1>5
<1>6. ASSUME NEW c \in DOMAIN comment,
             (\E u \in Writers : SoftDeleteComment(c, u)) \/ HideFlagged(c) \/ RestoreComment(c)
      PROVE  TargetsExist'
  BY <1>2, <1>6 DEF SoftDeleteComment, HideFlagged, RestoreComment
<1>7. CASE CommentAges
  BY <1>7, <1>1 DEF CommentAges
<1>8. CASE UNCHANGED commentVars
  BY <1>8, <1>1 DEF commentVars
<1> QED
  BY <1>5, <1>6, <1>7, <1>8 DEF CommentsNext

\* What a reply answers is listed, whatever became of it.
LEMMA TargetsAreListed == CommentsTypeOK /\ TargetsExist => NoOrphanReplies
<1> DEFINE listing == ListCommentsForReport("newest", [d \in DOMAIN comment |-> 0])
<1> SUFFICES ASSUME CommentsTypeOK, TargetsExist, NEW c \in ActiveComments, comment[c].parent # 0
             PROVE  \E i \in DOMAIN listing : listing[i] = comment[c].parent
  BY Zenon DEF NoOrphanReplies
<1> HIDE DEF listing
<1>1. c \in DOMAIN comment /\ DOMAIN comment = 1 .. Len(comment) /\ Len(comment) \in Nat
      /\ comment[c].parent \in Nat
  <2>1. comment \in Seq(CommentRow) /\ c \in DOMAIN comment
    BY DEF ActiveComments, CommentsTypeOK
  <2>2. comment[c] \in CommentRow
    BY <2>1
  <2> QED
    BY <2>1, <2>2 DEF CommentRow
<1>2. comment[c].parent \in DOMAIN comment
  BY <1>1 DEF TargetsExist
<1>3. comment[c].parent \in Listed
  BY <1>2 DEF Listed
<1>4. comment[c].parent \in ToSet(listing)
  BY <1>3, ListingIs DEF listing
<1> QED
  BY <1>4 DEF ToSet

\* Whatever comments are removed, restored and answered, in whatever order the
\* checks and inserts of the calls come, what an active reply answers is on the
\* listing (comments.ts:181).
THEOREM CommentsKeepTargets == CommentsSpec => []NoOrphanReplies
<1>1. CommentsSpec => []TargetsExist
  BY CommentsTypes, TargetsAtFirst, TargetsStep, PTL DEF CommentsSpec
<1> QED
  BY <1>1, CommentsTypes, TargetsAreListed, PTL

-----------------------------------------------------------------------------
(***************************************************************************)
(* The fixed window, for any limit, window and callers: what it lets       *)
(* through in any span of the window's length, and that keys expire.       *)
(***************************************************************************)

-----------------------------------------------------------------------------

\* The ticks from r on, and those before r that a window around r may reach.
Since(r) == {t \in Ticks : r <= t}
Lately(r) == {t \in Ticks : t < r /\ r < t + Window}

LEMMA TicksAreFew ==
  /\ IsFiniteSet(Ticks) /\ Ticks \subseteq Nat
  /\ \A S \in SUBSET Ticks : IsFiniteSet(S)
  /\ \A r : Since(r) \in SUBSET Ticks /\ Lately(r) \in SUBSET Ticks /\ WindowOf(r) \in SUBSET Ticks
<1>1. IsFiniteSet(Ticks)
  BY ClockAssumption, FS_Interval DEF Ticks
<1>2. Ticks \subseteq Nat
  BY ClockAssumption DEF Ticks
<1>3. \A S \in SUBSET Ticks : IsFiniteSet(S)
  BY <1>1, FS_Subset
<1>4. \A r : Since(r) \in SUBSET Ticks /\ Lately(r) \in SUBSET Ticks /\ WindowOf(r) \in SUBSET Ticks
  BY DEF Since, Lately, WindowOf
<1> QED
  BY <1>1, <1>2, <1>3, <1>4

\* A window that ends at r or later has what is before r among the late ticks.
LEMMA WindowSplits ==
  ASSUME NEW f \in [Ticks -> Nat], NEW r \in Ticks, NEW t \in Ticks, r <= t
  PROVE  InWindow(f, t) <= SumOver(f, Since(r)) + SumOver(f, Lately(r))
<1> DEFINE W == WindowOf(t)
           A == W \cap Since(r)
           B == W \cap Lately(r)
<1>1. W \subseteq Since(r) \cup Lately(r) /\ A \cap B = {}
  <2>1. r \in Nat /\ t \in Nat /\ Window \in Nat /\ \A s \in Ticks : s \in Nat
    BY BudgetAssumption, TicksAreFew
  <2>2. ASSUME NEW s \in W PROVE s \in Since(r) \/ s \in Lately(r)
    <3>1. s \in Ticks /\ s \in Nat /\ t < s + Window
      BY <2>1 DEF WindowOf
    <3>2. r <= s \/ (s < r /\ r < s + Window)
      BY <2>1, <3>1
    <3> QED
      BY <3>1, <3>2 DEF Since, Lately
  <2>3. ASSUME NEW s \in Since(r), s \in Lately(r) PROVE FALSE
    <3>1. s \in Nat /\ r <= s /\ s < r
      BY <2>1, <2>3 DEF Since, Lately
    <3> QED
      BY <2>1, <3>1
  <2> QED
    BY <2>2, <2>3
<1>2. W = A \cup B
  BY <1>1
<1>3. /\ IsFiniteSet(A) /\ IsFiniteSet(B) /\ IsFiniteSet(Since(r)) /\ IsFiniteSet(Lately(r))
      /\ A \in SUBSET Since(r) /\ B \in SUBSET Lately(r)
      /\ \A x \in A \cup B : f[x] \in Nat
      /\ (\A x \in Since(r) : f[x] \in Nat) /\ (\A x \in Lately(r) : f[x] \in Nat)
  BY TicksAreFew
<1>4. InWindow(f, t) = SumOver(f, W)
  BY DEF InWindow, SumOver
<1> HIDE DEF SumOver, A, B, W
<1>5. SumOver(f, W) = SumOver(f, A) + SumOver(f, B)
  BY <1>1, <1>2, <1>3, SumOfUnion
<1>6. SumOver(f, A) <= SumOver(f, Since(r)) /\ SumOver(f, B) <= SumOver(f, Lately(r))
  BY <1>3, SumOfPart
<1>7. /\ SumOver(f, A) \in Nat /\ SumOver(f, B) \in Nat
      /\ SumOver(f, Since(r)) \in Nat /\ SumOver(f, Lately(r)) \in Nat
  BY <1>3, SumIsNumber
<1> QED
  BY <1>4, <1>5, <1>6, <1>7

-----------------------------------------------------------------------------

\* The counter counts from tick r on: what it let through since, and lately
\* before, and in the windows that ended before.
Tallies(r, hits, end, f) ==
  /\ SumOver(f, Since(r)) <= hits /\ SumOver(f, Since(r)) <= Limit
  /\ SumOver(f, Lately(r)) <= Limit
  /\ \A t \in Ticks : t < r => InWindow(f, t) <= 2 * Limit
  /\ end > 0 => r + Window <= end

TalliesFrom(r) == Tallies(r, count, diesAt, passed)

FixedInv ==
  /\ RateTypeOK
  /\ KeysExpireOnTheirOwn
  /\ \A t \in Ticks : t > clock => passed[t] = 0
  /\ \E r \in Ticks : r <= clock /\ TalliesFrom(r)

LEMMA FixedInitInv == RateInit => FixedInv
<1> SUFFICES ASSUME RateInit PROVE FixedInv
  OBVIOUS
<1>1. RateTypeOK
  BY BudgetAssumption, ClockAssumption DEF RateInit, RateTypeOK, Ticks
<1>2. KeysExpireOnTheirOwn
  BY DEF RateInit, KeysExpireOnTheirOwn
<1>3. \A t \in Ticks : passed[t] = 0
  BY DEF RateInit
<1>4. 0 \in Ticks /\ 0 <= clock
  BY ClockAssumption DEF RateInit, Ticks
<1>5. TalliesFrom(0)
  <2>1. SumOver(passed, Since(0)) = 0 /\ SumOver(passed, Lately(0)) = 0
    BY <1>3, TicksAreFew, SumOfZeros
  <2>2. \A t \in Ticks : ~ (t < 0)
    BY TicksAreFew
  <2>3. count = 0 /\ diesAt = 0
    BY DEF RateInit
  <2> HIDE DEF SumOver
  <2> QED
    BY <2>1, <2>2, <2>3, BudgetAssumption DEF TalliesFrom, Tallies
<1> QED
  BY <1>1, <1>2, <1>3, <1>4, <1>5 DEF FixedInv

\* What follows for every window.
LEMMA FixedInvBudget == FixedInv => FixedWindowBudget
<1> SUFFICES ASSUME FixedInv, NEW t \in Ticks PROVE InWindow(passed, t) <= 2 * Limit
  BY DEF FixedWindowBudget
<1>1. PICK r \in Ticks : r <= clock /\ TalliesFrom(r)
  BY DEF FixedInv
<1>2. CASE t < r
  BY <1>1, <1>2 DEF TalliesFrom, Tallies
<1>3. CASE ~ (t < r)
  <2>1. r <= t
    BY <1>3, TicksAreFew
  <2>2. passed \in [Ticks -> Nat]
    BY DEF FixedInv, RateTypeOK
  <2>3. PICK a, b, c \in Nat :
          a = SumOver(passed, Since(r)) /\ b = SumOver(passed, Lately(r)) /\ c = InWindow(passed, t)
    <3> HIDE DEF SumOver
    <3>1. InWindow(passed, t) = SumOver(passed, WindowOf(t))
      BY DEF InWindow, SumOver
    <3>2. \A S \in SUBSET Ticks : IsFiniteSet(S) /\ \A x \in S : passed[x] \in Nat
      BY <2>2, TicksAreFew
    <3>3. \A S \in SUBSET Ticks : SumOver(passed, S) \in Nat
      BY <3>2, SumIsNumber
    <3> QED
      BY <3>1, <3>3, TicksAreFew
  <2>4. c <= a + b
    BY <2>1, <2>2, <2>3, WindowSplits
  <2>5. a <= Limit /\ b <= Limit
    BY <1>1, <2>3 DEF TalliesFrom, Tallies
  <2> QED
    BY <2>3, <2>4, <2>5, BudgetAssumption
<1> QED
  BY <1>2, <1>3

LEMMA PassedSums ==
  ASSUME RateTypeOK
  PROVE  /\ passed \in [Ticks -> Nat]
         /\ \A S \in SUBSET Ticks : SumOver(passed, S) \in Nat
<1> HIDE DEF SumOver
<1>1. passed \in [Ticks -> Nat]
  BY DEF RateTypeOK
<1>2. \A S \in SUBSET Ticks : IsFiniteSet(S) /\ \A x \in S : passed[x] \in Nat
  BY <1>1, TicksAreFew
<1> QED
  BY <1>1, <1>2, SumIsNumber

LEMMA TickKeepsInv == FixedInv /\ TickCounter => FixedInv'
<1> SUFFICES ASSUME FixedInv, TickCounter PROVE FixedInv'
  OBVIOUS
<1>0. /\ RateTypeOK /\ clock \in Nat /\ clock + 1 \in Ticks /\ clock' = clock + 1 /\ passed' = passed
      /\ opening' = opening /\ lost' = lost
  <2>1. RateTypeOK /\ clock \in 0 .. MaxClock /\ clock < MaxClock
    BY DEF FixedInv, TickCounter, RateTypeOK, Ticks
  <2>2. clock + 1 \in 0 .. MaxClock /\ clock \in Nat
    BY <2>1, ClockAssumption
  <2> QED
    BY <2>1, <2>2 DEF TickCounter, Ticks
<1>1. RateTypeOK'
  <2>1. 0 \in 0 .. MaxHits /\ 0 \in 0 .. MaxClock + Window
    BY ClockAssumption, BudgetAssumption
  <2>2. /\ (count' = count /\ diesAt' = diesAt) \/ (count' = 0 /\ diesAt' = 0)
        /\ UNCHANGED slidingVars
    BY DEF TickCounter
  <2>3. count' \in 0 .. MaxHits /\ diesAt' \in 0 .. MaxClock + Window
    BY <1>0, <2>1, <2>2 DEF RateTypeOK
  <2> QED
    BY <1>0, <2>2, <2>3 DEF RateTypeOK, slidingVars
<1>2. KeysExpireOnTheirOwn'
  <2>1. diesAt \in Nat /\ count \in Nat
    BY <1>0, ClockAssumption, BudgetAssumption DEF RateTypeOK
  <2> QED
    BY <1>0, <2>1 DEF TickCounter, FixedInv, KeysExpireOnTheirOwn
<1>3. \A t \in Ticks : t > clock' => passed'[t] = 0
  BY <1>0, TicksAreFew DEF FixedInv
<1>4. PICK r \in Ticks : r <= clock /\ TalliesFrom(r)
  BY DEF FixedInv
<1>5. CASE diesAt # clock + 1
  <2>1. TalliesFrom(r)'
    <3>1. count' = count /\ diesAt' = diesAt
      BY <1>5 DEF TickCounter
    <3> QED
      BY <1>0, <1>4, <3>1 DEF TalliesFrom
  <2>2. r <= clock'
    BY <1>0, <1>4, TicksAreFew
  <2> QED
    BY <1>1, <1>2, <1>3, <2>1, <2>2 DEF FixedInv
<1>6. CASE diesAt = clock + 1
  <2>0. PICK q \in Ticks : q = clock + 1 /\ q \in Nat /\ r \in Nat /\ r + Window <= q
    BY <1>0, <1>4, <1>6, TicksAreFew DEF TalliesFrom, Tallies
  <2>1. count' = 0 /\ diesAt' = 0
    BY <1>6 DEF TickCounter
  <2>2. SumOver(passed, Since(q)) = 0
    <3>1. ASSUME NEW t \in Since(q) PROVE passed[t] = 0
      <4>1. t \in Ticks /\ t \in Nat /\ q <= t
        BY TicksAreFew DEF Since
      <4>2. t > clock
        BY <1>0, <2>0, <4>1
      <4> QED
        BY <4>1, <4>2 DEF FixedInv
    <3> QED
      BY <3>1, TicksAreFew, SumOfZeros
  <2> HIDE DEF SumOver
  <2>3. SumOver(passed, Lately(q)) <= Limit
    <3>1. Lately(q) \in SUBSET Since(r)
      <4>1. ASSUME NEW t \in Lately(q) PROVE t \in Ticks /\ r <= t
        <5>1. t \in Ticks /\ t \in Nat /\ q < t + Window
          BY TicksAreFew DEF Lately
        <5> QED
          BY <2>0, <5>1, BudgetAssumption
      <4> QED
        BY <4>1 DEF Since
    <3>2. IsFiniteSet(Since(r)) /\ \A x \in Since(r) : passed[x] \in Nat
      BY <1>0, PassedSums, TicksAreFew
    <3>3. SumOver(passed, Lately(q)) <= SumOver(passed, Since(r))
      BY <3>1, <3>2, SumOfPart
    <3>4. SumOver(passed, Since(r)) <= Limit
      BY <1>4 DEF TalliesFrom, Tallies
    <3>5. SumOver(passed, Lately(q)) \in Nat /\ SumOver(passed, Since(r)) \in Nat
      BY <1>0, PassedSums, TicksAreFew
    <3> QED
      BY <3>3, <3>4, <3>5, BudgetAssumption
  <2>4. \A t \in Ticks : InWindow(passed, t) <= 2 * Limit
    BY FixedInvBudget DEF FixedWindowBudget
  <2>5. TalliesFrom(q)'
    <3>1. /\ SumOver(passed', Since(q)) <= count' /\ SumOver(passed', Since(q)) <= Limit
      BY <1>0, <2>1, <2>2, BudgetAssumption
    <3>2. /\ SumOver(passed', Lately(q)) <= Limit
          /\ \A t \in Ticks : t < q => InWindow(passed', t) <= 2 * Limit
      BY <1>0, <2>3, <2>4
    <3>3. ~ (diesAt' > 0)
      BY <2>1
    <3> QED
      BY <3>1, <3>2, <3>3 DEF TalliesFrom, Tallies
  <2> QED
    BY <1>0, <1>1, <1>2, <1>3, <2>0, <2>5 DEF FixedInv
<1> QED
  BY <1>5, <1>6

\* A hit counts one more, and lets one more through or none.
LEMMA IncrKeepsInv ==
  ASSUME FixedInv, NEW c \in Callers, Incr(c) PROVE FixedInv'
<1>0. /\ RateTypeOK /\ clock \in Ticks /\ clock \in Nat /\ count \in Nat /\ count < MaxHits
      /\ count' = count + 1 /\ clock' = clock /\ diesAt' = diesAt /\ lost' = lost
      /\ UNCHANGED slidingVars
      /\ opening' = IF count = 0 THEN opening \cup {c} ELSE opening
      /\ passed \in [Ticks -> 0 .. MaxHits]
  BY TicksAreFew DEF FixedInv, Incr, RateTypeOK
<1>1. PICK r \in Ticks : r <= clock /\ TalliesFrom(r)
  BY DEF FixedInv
<1>2. clock \in Since(r) /\ clock \notin Lately(r) /\ r \in Nat
  BY <1>0, <1>1, TicksAreFew DEF Since, Lately
<1>3. /\ \A t \in Ticks : t # clock => passed'[t] = passed[t]
      /\ passed'[clock] = IF count + 1 <= Limit THEN passed[clock] + 1 ELSE passed[clock]
      /\ passed' = [passed EXCEPT ![clock] = passed'[clock]]
  BY <1>0 DEF Incr, LetThrough
<1>4. PICK a, b \in Nat : a = SumOver(passed, Since(r)) /\ b = passed[clock] /\ b <= a /\ a <= count /\ a <= Limit
  <2>1. IsFiniteSet(Since(r)) /\ IsFiniteSet(Since(r) \ {clock}) /\ \A x \in Since(r) : passed[x] \in Nat
    BY <1>0, PassedSums, TicksAreFew, FS_RemoveElement
  <2> HIDE DEF SumOver
  <2>2. SumOver(passed, Since(r)) = passed[clock] + SumOver(passed, Since(r) \ {clock})
    BY <1>2, <2>1, SumTakesOut
  <2>3. SumOver(passed, Since(r) \ {clock}) \in Nat /\ SumOver(passed, Since(r)) \in Nat
    BY <2>1, SumIsNumber
  <2>4. SumOver(passed, Since(r)) <= count /\ SumOver(passed, Since(r)) <= Limit
    BY <1>1 DEF TalliesFrom, Tallies
  <2> QED
    BY <1>2, <2>1, <2>2, <2>3, <2>4
<1>5. RateTypeOK'
  <2>1. passed'[clock] \in 0 .. MaxHits /\ count' \in 0 .. MaxHits
    BY <1>0, <1>3, <1>4, ClockAssumption
  <2>2. passed' \in [Ticks -> 0 .. MaxHits]
    BY <1>0, <1>3, <2>1
  <2> QED
    BY <1>0, <2>1, <2>2 DEF RateTypeOK, slidingVars
<1>6. KeysExpireOnTheirOwn'
  <2>1. CASE count = 0
    BY <1>0, <2>1 DEF KeysExpireOnTheirOwn
  <2>2. CASE count > 0
    <3>1. opening' = opening
      BY <1>0, <2>2
    <3>2. diesAt > clock \/ opening # {} \/ lost > 0
      BY <2>2 DEF FixedInv, KeysExpireOnTheirOwn
    <3> QED
      BY <1>0, <3>1, <3>2 DEF KeysExpireOnTheirOwn
  <2> QED
    BY <1>0, <2>1, <2>2
<1>7. \A t \in Ticks : t > clock' => passed'[t] = 0
  BY <1>0, <1>3 DEF FixedInv
<1>8. Tallies(r, count', diesAt', passed')
  <2>0. /\ IsFiniteSet(Since(r)) /\ IsFiniteSet(Lately(r)) /\ clock \in Since(r)
        /\ (\A x \in Since(r) : passed[x] \in Nat /\ (x # clock => passed'[x] = passed[x]))
        /\ (\A x \in Lately(r) : passed[x] \in Nat /\ passed'[x] = passed[x])
    BY <1>0, <1>2, <1>3, PassedSums, TicksAreFew
  <2>1. SumOver(passed', Since(r)) = IF count + 1 <= Limit THEN a + 1 ELSE a
    <3>1. CASE count + 1 <= Limit
      <4>1. passed'[clock] = passed[clock] + 1
        BY <1>3, <3>1
      <4>2. SumOver(passed', Since(r)) = SumOver(passed, Since(r)) + 1
        BY <2>0, <4>1, SumGrows
      <4> QED
        BY <1>4, <3>1, <4>2
    <3>2. CASE ~ (count + 1 <= Limit)
      <4>1. \A x \in Since(r) : passed[x] \in Nat /\ passed'[x] = passed[x]
        BY <1>3, <2>0, <3>2
      <4>2. SumOver(passed', Since(r)) = SumOver(passed, Since(r))
        BY <2>0, <4>1, SumSame
      <4> QED
        BY <1>4, <3>2, <4>2
    <3> QED
      BY <3>1, <3>2
  <2>2. SumOver(passed', Lately(r)) = SumOver(passed, Lately(r))
    BY <2>0, SumSame
  <2>3. ASSUME NEW t \in Ticks, t < r PROVE InWindow(passed', t) = InWindow(passed, t)
    <3>1. ASSUME NEW x \in WindowOf(t) PROVE passed[x] \in Nat /\ passed'[x] = passed[x]
      <4>1. x \in Ticks /\ x \in Nat /\ t \in Nat /\ x <= t
        BY TicksAreFew DEF WindowOf
      <4>2. x # clock
        BY <1>0, <1>1, <1>2, <2>3, <4>1
      <4> QED
        BY <1>0, <1>3, <4>1, <4>2, PassedSums
    <3>2. SumOver(passed', WindowOf(t)) = SumOver(passed, WindowOf(t))
      BY <3>1, TicksAreFew, SumSame
    <3> QED
      BY <3>2 DEF InWindow, SumOver
  <2> HIDE DEF SumOver
  <2> QED
    BY <1>0, <1>1, <1>4, <2>1, <2>2, <2>3, BudgetAssumption DEF TalliesFrom, Tallies
<1>9. r <= clock' /\ TalliesFrom(r)'
  BY <1>0, <1>1, <1>8 DEF TalliesFrom
<1> QED
  BY <1>5, <1>6, <1>7, <1>9 DEF FixedInv

\* An EXPIRE that comes, or does not, counts nothing.
LEMMA ExpireKeepsInv ==
  ASSUME FixedInv, NEW c \in Callers, ExpireKey(c) \/ LoseExpire(c) PROVE FixedInv'
<1>0. /\ RateTypeOK /\ clock \in Nat /\ clock \in Ticks /\ clock <= MaxClock /\ count \in Nat
      /\ clock' = clock /\ count' = count /\ passed' = passed
      /\ UNCHANGED slidingVars /\ lost \in Nat
      /\ opening' = opening \ {c}
  <2>1. RateTypeOK
    BY DEF FixedInv
  <2>2. clock \in 0 .. MaxClock /\ count \in 0 .. MaxHits /\ lost \in 0 .. RedisFaults
    BY <2>1 DEF RateTypeOK, Ticks
  <2>3. clock \in Nat /\ clock \in Ticks /\ clock <= MaxClock /\ count \in Nat /\ lost \in Nat
    BY <2>2, ClockAssumption DEF Ticks
  <2>4. /\ clock' = clock /\ count' = count /\ passed' = passed
        /\ UNCHANGED slidingVars /\ opening' = opening \ {c}
    BY DEF ExpireKey, LoseExpire
  <2> QED
    BY <2>1, <2>3, <2>4
<1>1. /\ diesAt' = diesAt \/ diesAt' = clock + Window
      /\ count > 0 => diesAt' = clock + Window \/ lost' = lost + 1
      /\ lost' = lost \/ (lost < RedisFaults /\ lost' = lost + 1)
  BY DEF ExpireKey, LoseExpire
<1>2. RateTypeOK'
  <2>1. diesAt' \in 0 .. MaxClock + Window
    <3>1. diesAt \in 0 .. MaxClock + Window /\ clock + Window \in 0 .. MaxClock + Window
      BY <1>0, ClockAssumption, BudgetAssumption DEF RateTypeOK
    <3> QED
      BY <1>1, <3>1
  <2>2. lost' \in 0 .. RedisFaults
    BY <1>0, <1>1, ClockAssumption DEF RateTypeOK
  <2> QED
    BY <1>0, <2>1, <2>2 DEF RateTypeOK, slidingVars
<1>3. KeysExpireOnTheirOwn'
  BY <1>0, <1>1, BudgetAssumption DEF KeysExpireOnTheirOwn
<1>4. PICK r \in Ticks : r <= clock /\ TalliesFrom(r) /\ r \in Nat
  BY TicksAreFew DEF FixedInv
<1>5. TalliesFrom(r)'
  <2>1. Tallies(r, count, diesAt', passed)
    BY <1>0, <1>1, <1>4, BudgetAssumption DEF TalliesFrom, Tallies
  <2> QED
    BY <1>0, <2>1 DEF TalliesFrom
<1>6. r <= clock' /\ \A t \in Ticks : t > clock' => passed'[t] = 0
  BY <1>0, <1>4 DEF FixedInv
<1> QED
  BY <1>2, <1>3, <1>5, <1>6 DEF FixedInv

LEMMA FixedKeeps == FixedInv /\ [FixedNext]_rateVars => FixedInv'
<1>1. FixedInv /\ UNCHANGED rateVars => FixedInv'
  <2> SUFFICES ASSUME FixedInv, UNCHANGED rateVars PROVE FixedInv'
    OBVIOUS
  <2>1. /\ clock' = clock /\ count' = count /\ diesAt' = diesAt /\ opening' = opening /\ lost' = lost
        /\ passed' = passed /\ UNCHANGED slidingVars
    BY DEF rateVars, counterVars
  <2>2. RateTypeOK'
    BY <2>1 DEF FixedInv, RateTypeOK, slidingVars
  <2>3. KeysExpireOnTheirOwn'
    BY <2>1 DEF FixedInv, KeysExpireOnTheirOwn
  <2>4. PICK r \in Ticks : r <= clock /\ TalliesFrom(r)
    BY DEF FixedInv
  <2>5. r <= clock' /\ TalliesFrom(r)'
    BY <2>1, <2>4 DEF TalliesFrom
  <2>6. \A t \in Ticks : t > clock' => passed'[t] = 0
    BY <2>1 DEF FixedInv
  <2> QED
    BY <2>2, <2>3, <2>5, <2>6 DEF FixedInv
<1> QED
  BY <1>1, TickKeepsInv, IncrKeepsInv, ExpireKeepsInv DEF FixedNext

\* rate-limit.ts:120, 11: a fixed window lets no more than twice its limit
\* through in any span of its length, and a key has a TTL or is about to get one
\* unless an EXPIRE was lost, for any number of callers and lost EXPIREs.
THEOREM FixedWindowHolds == FixedSpec => [](RateTypeOK /\ FixedWindowBudget /\ KeysExpireOnTheirOwn)
<1>1. FixedInv => RateTypeOK /\ FixedWindowBudget /\ KeysExpireOnTheirOwn
  BY FixedInvBudget DEF FixedInv
<1> QED
  BY <1>1, FixedInitInv, FixedKeeps, PTL DEF FixedSpec

-----------------------------------------------------------------------------
(***************************************************************************)
(* The sliding window, likewise: calls that arrive in the order of their   *)
(* time stamps never exceed the limit in any span of its length.           *)
(***************************************************************************)

\* A call that the window let through at s is still in the sorted set, or has
\* been evicted by one that came a whole window later and is in it.
StillCounted(s) ==
  slid[s] <= stamps[s] \/ \E m \in Ticks : stamps[m] > 0 /\ s + Window <= m

SlidingInv ==
  /\ RateTypeOK
  /\ SlidingWindowBudget
  /\ \A s \in Ticks : StillCounted(s)

LEMMA SlidingInitInv == RateInit => SlidingInv
<1> SUFFICES ASSUME RateInit PROVE SlidingInv
  OBVIOUS
<1>1. RateTypeOK
  BY BudgetAssumption, ClockAssumption DEF RateInit, RateTypeOK, Ticks
<1>2. \A s \in Ticks : slid[s] = 0 /\ stamps[s] = 0
  BY DEF RateInit
<1>3. \A s \in Ticks : StillCounted(s)
  BY <1>2 DEF StillCounted
<1>4. ASSUME NEW t \in Ticks PROVE InWindow(slid, t) <= Limit
  <2>1. SumOver(slid, WindowOf(t)) = 0
    BY <1>2, TicksAreFew, SumOfZeros
  <2>2. InWindow(slid, t) = SumOver(slid, WindowOf(t))
    BY DEF InWindow, SumOver
  <2> HIDE DEF SumOver
  <2> QED
    BY <2>1, <2>2, BudgetAssumption
<1> QED
  BY <1>1, <1>3, <1>4 DEF SlidingInv, SlidingWindowBudget

\* What the steps other than the MULTI leave alone is all there is to keep.
LEMMA SlidingUndisturbed ==
  ASSUME SlidingInv, RateTypeOK', stamps' = stamps, slid' = slid PROVE SlidingInv'
<1>1. SlidingWindowBudget'
  BY DEF SlidingInv, SlidingWindowBudget
<1>2. ASSUME NEW s \in Ticks PROVE StillCounted(s)'
  BY DEF SlidingInv, StillCounted
<1> QED
  BY <1>1, <1>2 DEF SlidingInv

LEMMA TickSlidingKeepsInv == SlidingInv /\ TickSliding => SlidingInv'
<1> SUFFICES ASSUME SlidingInv, TickSliding PROVE SlidingInv'
  OBVIOUS
<1>1. clock + 1 \in Ticks
  <2>1. clock \in 0 .. MaxClock /\ clock < MaxClock
    BY DEF SlidingInv, TickSliding, RateTypeOK, Ticks
  <2> QED
    BY <2>1, ClockAssumption DEF Ticks
<1>2. RateTypeOK'
  BY <1>1 DEF SlidingInv, TickSliding, RateTypeOK, counterVars, slidingVars
<1> QED
  BY <1>2, SlidingUndisturbed DEF TickSliding, slidingVars

LEMMA ReadNowKeepsInv ==
  ASSUME SlidingInv, NEW c \in Callers, ReadNow(c) PROVE SlidingInv'
<1>1. RateTypeOK'
  BY DEF SlidingInv, ReadNow, RateTypeOK, counterVars
<1> QED
  BY <1>1, SlidingUndisturbed DEF ReadNow

\* The MULTI of a call scored now: what it evicts is a whole window older.
LEMMA SlideKeepsInv ==
  ASSUME SlidingInv, NEW c \in Callers, Slide(c) PROVE SlidingInv'
<1>0. /\ \A s \in Ticks : s \in Nat /\ slid[s] \in Nat /\ stamps[s] \in Nat
      /\ Window \in Nat /\ Window > 0 /\ Limit \in Nat /\ MaxHits \in Nat
      /\ \A s \in Ticks : slid[s] <= MaxHits /\ stamps[s] <= MaxHits
  BY TicksAreFew, BudgetAssumption, ClockAssumption DEF SlidingInv, RateTypeOK
<1>1. PICK now \in Ticks : now = asked[c] /\ stamps[now] < MaxHits
  BY DEF SlidingInv, Slide, RateTypeOK, Away
<1> DEFINE ok == SumOver(stamps', Ticks) <= Limit /\ ~Overtaken(now)
<1>2. /\ DOMAIN stamps' = Ticks
      /\ \A s \in Ticks : s + Window <= now /\ s # now => stamps'[s] = 0
      /\ \A s \in Ticks : ~(s + Window <= now) /\ s # now => stamps'[s] = stamps[s]
      /\ stamps'[now] = stamps[now] + 1
      /\ stamps' = [s \in Ticks |-> stamps'[s]]
  <2>1. stamps' = [t \in Ticks |-> (IF t + Window <= now THEN 0 ELSE stamps[t])
                                     + (IF t = now THEN 1 ELSE 0)]
    BY <1>1 DEF Slide, Recorded
  <2>2. ~(now + Window <= now)
    BY <1>0
  <2> QED
    BY <1>0, <2>1, <2>2
<1>3. /\ \A s \in Ticks : s # now => slid'[s] = slid[s]
      /\ slid' = [slid EXCEPT ![now] = slid'[now]]
      /\ slid'[now] = slid[now] \/ (ok /\ slid'[now] = slid[now] + 1)
  <2>1. FoldFunction(+, 0, stamps') = SumOver(stamps', Ticks)
    BY <1>2 DEF FoldFunction, SumOver
  <2>2. slid' = [slid EXCEPT ![now] = IF FoldFunction(+, 0, stamps') <= Limit /\ ~Overtaken(now)
                                      THEN slid[now] + 1 ELSE slid[now]]
    BY <1>1 DEF Slide
  <2>3. slid \in [Ticks -> 0 .. MaxHits]
    BY DEF SlidingInv, RateTypeOK
  <2> HIDE DEF SumOver
  <2> QED
    BY <2>1, <2>2, <2>3
<1> HIDE DEF ok
\* A call that counts is not overtaken, so nothing it needs has been evicted.
<1>4. ASSUME ok, NEW s \in Ticks, now < s + Window PROVE slid[s] <= stamps[s]
  <2>1. StillCounted(s)
    BY DEF SlidingInv
  <2>2. ASSUME NEW m \in Ticks, stamps[m] > 0, s + Window <= m PROVE FALSE
    <3>1. m > now
      BY <1>0, <1>4, <2>2
    <3> QED
      BY <1>4, <2>2, <3>1 DEF ok, Overtaken
  <2> QED
    BY <2>1, <2>2 DEF StillCounted
<1>5. RateTypeOK'
  <2>1. \A s \in Ticks : stamps'[s] \in 0 .. MaxHits
    BY <1>0, <1>1, <1>2
  <2>2. slid'[now] \in 0 .. MaxHits
    <3>1. CASE slid'[now] = slid[now]
      BY <1>0, <3>1
    <3>2. CASE ok /\ slid'[now] = slid[now] + 1
      <4>1. slid[now] <= stamps[now]
        BY <1>0, <1>4, <3>2
      <4> QED
        BY <1>0, <1>1, <3>2, <4>1
    <3> QED
      BY <1>3, <3>1, <3>2
  <2>3. stamps' \in [Ticks -> 0 .. MaxHits] /\ slid' \in [Ticks -> 0 .. MaxHits]
    BY <1>2, <1>3, <2>1, <2>2 DEF SlidingInv, RateTypeOK
  <2>4. asked' \in [Callers -> Ticks \cup {Away}]
    BY DEF SlidingInv, Slide, RateTypeOK
  <2> QED
    BY <2>3, <2>4 DEF SlidingInv, Slide, RateTypeOK, counterVars
<1>6. ASSUME NEW s \in Ticks PROVE StillCounted(s)'
  <2>1. CASE s + Window <= now
    <3>1. stamps'[now] > 0
      BY <1>0, <1>2
    <3> QED
      BY <2>1, <3>1 DEF StillCounted
  <2>2. CASE ~(s + Window <= now)
    <3>1. stamps'[s] >= stamps[s] /\ (slid[s] <= stamps[s] => slid'[s] <= stamps'[s])
      BY <1>0, <1>2, <1>3, <2>2
    <3>2. CASE slid[s] <= stamps[s]
      BY <3>1, <3>2 DEF StillCounted
    <3>3. ASSUME NEW m \in Ticks, stamps[m] > 0, s + Window <= m PROVE StillCounted(s)'
      <4>1. ~(m + Window <= now)
        BY <1>0, <2>2, <3>3
      <4>2. stamps'[m] > 0
        BY <1>0, <1>2, <3>3, <4>1
      <4> QED
        BY <3>3, <4>2 DEF StillCounted
    <3>4. StillCounted(s)
      BY DEF SlidingInv
    <3> QED
      BY <3>2, <3>3, <3>4 DEF StillCounted
  <2> QED
    BY <2>1, <2>2
<1>7. ASSUME NEW t \in Ticks PROVE InWindow(slid', t) <= Limit
  <2>0. /\ IsFiniteSet(Ticks) /\ IsFiniteSet(WindowOf(t)) /\ WindowOf(t) \in SUBSET Ticks
        /\ \A x \in Ticks : slid[x] \in Nat /\ stamps'[x] \in Nat /\ slid'[x] \in Nat
    BY <1>0, <1>5, TicksAreFew DEF RateTypeOK
  <2>1. InWindow(slid', t) = SumOver(slid', WindowOf(t)) /\ InWindow(slid, t) = SumOver(slid, WindowOf(t))
    BY DEF InWindow, SumOver
  <2>2. InWindow(slid, t) <= Limit
    BY DEF SlidingInv, SlidingWindowBudget
  <2> HIDE DEF SumOver
  <2>3. CASE slid'[now] = slid[now] \/ now \notin WindowOf(t)
    <3>1. \A x \in WindowOf(t) : slid[x] \in Nat /\ slid'[x] = slid[x]
      BY <1>3, <2>0, <2>3
    <3>2. SumOver(slid', WindowOf(t)) = SumOver(slid, WindowOf(t))
      BY <2>0, <3>1, SumSame
    <3> QED
      BY <2>1, <2>2, <3>2
  <2>4. CASE ok /\ slid'[now] = slid[now] + 1 /\ now \in WindowOf(t)
    <3>1. ASSUME NEW x \in WindowOf(t) PROVE slid'[x] <= stamps'[x]
      <4>1. x \in Ticks /\ t < x + Window /\ now <= t /\ t \in Nat
        BY <1>0, <2>4 DEF WindowOf
      <4>2. now < x + Window
        BY <1>0, <4>1
      <4>3. slid[x] <= stamps[x]
        BY <1>4, <2>4, <4>1, <4>2
      <4>4. ~(x + Window <= now)
        BY <1>0, <4>1, <4>2
      <4> QED
        BY <1>0, <1>2, <1>3, <2>4, <4>1, <4>3, <4>4
    <3>2. SumOver(slid', WindowOf(t)) <= SumOver(stamps', WindowOf(t))
      BY <2>0, <3>1, SumIsMonotone
    <3>3. SumOver(stamps', WindowOf(t)) <= SumOver(stamps', Ticks)
      BY <2>0, SumOfPart
    <3>4. /\ SumOver(slid', WindowOf(t)) \in Nat /\ SumOver(stamps', WindowOf(t)) \in Nat
          /\ SumOver(stamps', Ticks) \in Nat
      BY <2>0, SumIsNumber
    <3>5. SumOver(stamps', Ticks) <= Limit
      BY <2>4 DEF ok
    <3> QED
      BY <1>0, <2>1, <3>2, <3>3, <3>4, <3>5
  <2> QED
    BY <1>3, <2>3, <2>4
<1>8. SlidingWindowBudget'
  BY <1>7 DEF SlidingWindowBudget
<1> QED
  BY <1>5, <1>6, <1>8 DEF SlidingInv

LEMMA SlidingKeeps == SlidingInv /\ [SlidingNext]_rateVars => SlidingInv'
<1>1. SlidingInv /\ UNCHANGED rateVars => SlidingInv'
  <2> SUFFICES ASSUME SlidingInv, UNCHANGED rateVars PROVE SlidingInv'
    OBVIOUS
  <2>1. RateTypeOK'
    BY DEF SlidingInv, RateTypeOK, rateVars, counterVars, slidingVars
  <2> QED
    BY <2>1, SlidingUndisturbed DEF rateVars, slidingVars
<1> QED
  BY <1>1, TickSlidingKeepsInv, ReadNowKeepsInv, SlideKeepsInv DEF SlidingNext

\* rate-limit.ts:118: the sliding window lets no more than its limit through in
\* any span of its length, counting the calls no later time stamp overtook.
THEOREM SlidingWindowHolds == SlidingSpec => [](RateTypeOK /\ SlidingWindowBudget)
<1>1. SlidingInv => RateTypeOK /\ SlidingWindowBudget
  BY DEF SlidingInv
<1> QED
  BY <1>1, SlidingInitInv, SlidingKeeps, PTL DEF SlidingSpec

-----------------------------------------------------------------------------
(***************************************************************************)
(* Likes, for any finite sets of readers and comments and any toggles: the *)
(* types, and that the stored karma is what the likes earn.                *)
(***************************************************************************)

\* A toggle that inserts is not of a target of its own, and one that is to
\* recompute is on a comment.
TogglesFit ==
  \A t \in Toggles :
    /\ toggleStep[t] = "insert" => OwnerOf[toggled[t]] # FanOf[t]
    /\ toggleStep[t] = "karma" => toggled[t] \in Replies

LikesInv == LikesTypeOK /\ TogglesFit /\ LikeKarmaIsEarned

\* The sum of a function's figures.
LEMMA FiguresSum ==
  ASSUME NEW f, IsFiniteSet(DOMAIN f), \A c \in DOMAIN f : f[c] \in Nat
  PROVE  SumFunction(f) \in Nat
<1>1. SumOver(f, DOMAIN f) \in Nat
  BY SumIsNumber
<1> QED
  BY <1>1 DEF SumFunction, SumFunctionOnSet, SumOver

\* What likes earn is a figure within the cap.
LEMMA EarnedType ==
  ASSUME NEW u PROVE EarnedByLikes(u) \in 0 .. AuthorDayCap
<1> DEFINE mine == {c \in Replies \cap up : OwnerOf[c] = u}
           worth == [c \in mine |-> AtMost(CountLikes(c), DayCap)]
<1>1. IsFiniteSet(mine)
  BY LikesAssumption, FS_Subset
<1>2. ASSUME NEW c \in mine PROVE AtMost(CountLikes(c), DayCap) \in Nat
  <2>1. IsFiniteSet(LikersOf(c))
    BY LikesAssumption, FS_Subset DEF LikersOf
  <2>2. CountLikes(c) \in Nat
    BY <2>1, FS_CardinalityType DEF CountLikes
  <2> QED
    BY <2>2, DayCapAssumption DEF AtMost
<1> HIDE DEF mine
<1>3. SumFunction(worth) \in Nat
  BY <1>1, <1>2, FiguresSum
<1> QED
  BY <1>3, DayCapAssumption DEF EarnedByLikes, AtMost, mine

LEMMA LikesInitInv == LikesInit => LikesInv
<1> SUFFICES ASSUME LikesInit PROVE LikesInv
  OBVIOUS
<1>1. /\ up \in SUBSET Likeable
      /\ liked \in SUBSET (Likeable \X Fans)
      /\ \A x \in Likeable : <<x, OwnerOf[x]>> \notin liked
  BY DEF LikesInit, Bystanders
<1>2. \A u : EarnedByLikes(u) \in 0 .. AuthorDayCap
  <2> SUFFICES ASSUME NEW u PROVE EarnedByLikes(u) \in 0 .. AuthorDayCap
    OBVIOUS
  <2> QED
    BY EarnedType
<1>3. LikesTypeOK
  BY <1>1, <1>2 DEF LikesInit, LikesTypeOK, Likeable
<1> QED
  BY <1>3 DEF LikesInit, LikesInv, TogglesFit, LikeKarmaIsEarned

\* Likes of other targets earn u nothing.
LEMMA SameEarned ==
  ASSUME NEW u,
         \A c \in Replies : OwnerOf[c] = u => (c \in up' <=> c \in up)
                                              /\ \A f \in Fans : <<c, f>> \in liked' <=> <<c, f>> \in liked
  PROVE  EarnedByLikes(u)' = EarnedByLikes(u)
<1> DEFINE mine == {c \in Replies \cap up : OwnerOf[c] = u}
           next == {c \in Replies \cap up' : OwnerOf[c] = u}
<1>1. next = mine
  OBVIOUS
<1>2. ASSUME NEW c \in mine PROVE CountLikes(c)' = CountLikes(c)
  <2>1. {f \in Fans : <<c, f>> \in liked'} = {f \in Fans : <<c, f>> \in liked}
    OBVIOUS
  <2> QED
    BY <2>1 DEF CountLikes, LikersOf
<1>3. [c \in next |-> AtMost(CountLikes(c)', DayCap)] = [c \in mine |-> AtMost(CountLikes(c), DayCap)]
  BY <1>1, <1>2
<1> QED
  BY <1>3 DEF EarnedByLikes

\* A step that writes no karma: what it changes of an author's likes or comments
\* is told by the author's drift, or by a toggle that has yet to recompute.
LEMMA EarnedHolds ==
  ASSUME LikesInv, likeKarma' = likeKarma, drifted \subseteq drifted',
         \A t \in Toggles : toggleStep[t] = "karma" =>
             \/ toggleStep'[t] = "karma" /\ toggled'[t] = toggled[t]
             \/ OwnerOf[toggled[t]] \in drifted',
         \A c \in Replies :
             \/ /\ c \in up' <=> c \in up
                /\ \A f \in Fans : <<c, f>> \in liked' <=> <<c, f>> \in liked
             \/ OwnerOf[c] \in drifted'
             \/ \E t \in Toggles : toggleStep'[t] = "karma" /\ OwnerOf[toggled'[t]] = OwnerOf[c]
  PROVE  LikeKarmaIsEarned'
<1> SUFFICES ASSUME NEW u \in Owners, u \notin drifted',
                    \A t \in Toggles : toggleStep'[t] = "karma" => OwnerOf[toggled'[t]] # u
             PROVE  likeKarma'[u] = EarnedByLikes(u)'
  BY DEF LikeKarmaIsEarned
<1>1. u \notin drifted /\ \A t \in Toggles : toggleStep[t] = "karma" => OwnerOf[toggled[t]] # u
  OBVIOUS
<1>2. likeKarma[u] = EarnedByLikes(u)
  BY <1>1 DEF LikesInv, LikeKarmaIsEarned
<1>3. \A c \in Replies : OwnerOf[c] = u =>
        (c \in up' <=> c \in up) /\ \A f \in Fans : <<c, f>> \in liked' <=> <<c, f>> \in liked
  OBVIOUS
<1>4. EarnedByLikes(u)' = EarnedByLikes(u)
  BY <1>3, SameEarned
<1> QED
  BY <1>2, <1>4

\* The steps of a toggle that write neither likes nor karma.
LEMMA LookingKeepsInv ==
  ASSUME LikesInv, NEW t \in Toggles,
         \/ \E x \in Likeable : BeginToggle(t, x)
         \/ HasUserLiked(t) \/ CheckTarget(t) \/ AnswerToggle(t) \/ ToggleDies(t)
  PROVE  LikesInv'
<1>0. /\ LikesTypeOK /\ TogglesFit /\ Post \in Likeable /\ \A x \in Likeable : x # Post => x \in Replies
  BY DEF LikesInv, Likeable
<1>1. /\ UNCHANGED <<up, liked, likeKarma>> /\ drifted \subseteq drifted'
      /\ \E s \in {"idle", "has", "check", "insert", "delete", "karma", "count"}, x \in Likeable :
           /\ toggleStep' = [toggleStep EXCEPT ![t] = s]
           /\ toggled' = [toggled EXCEPT ![t] = x]
           /\ s # "karma" /\ (s = "insert" => OwnerOf[x] # FanOf[t])
  <2>1. CASE \E x \in Likeable : BeginToggle(t, x)
    BY <1>0, <2>1 DEF BeginToggle, ToggleTo
  <2>2. CASE HasUserLiked(t)
    BY <1>0, <2>2 DEF HasUserLiked, ToggleTo, LikesTypeOK
  <2>3. CASE CheckTarget(t)
    BY <1>0, <2>3 DEF CheckTarget, ToggleTo, EndToggle, LikesTypeOK
  <2>4. CASE AnswerToggle(t)
    BY <1>0, <2>4 DEF AnswerToggle, ToggleTo, EndToggle
  <2>5. CASE ToggleDies(t)
    BY <1>0, <2>5 DEF ToggleDies, ToggleTo, EndToggle
  <2> QED
    BY <2>1, <2>2, <2>3, <2>4, <2>5
<1>2. drifted' \in SUBSET Owners
      /\ (toggleStep[t] = "karma" => OwnerOf[toggled[t]] \in drifted')
  <2>1. toggleStep[t] = "karma" => OwnerOf[toggled[t]] \in Owners
    BY <1>0 DEF TogglesFit, Owners
  <2> QED
    BY <1>0, <2>1 DEF BeginToggle, HasUserLiked, CheckTarget, AnswerToggle, ToggleDies, LikesTypeOK
<1>3. LikesTypeOK'
  BY <1>0, <1>1, <1>2 DEF LikesTypeOK
<1>4. TogglesFit'
  BY <1>0, <1>1 DEF LikesTypeOK, TogglesFit
<1>5. LikeKarmaIsEarned'
  <2>1. \A q \in Toggles : q # t => toggleStep'[q] = toggleStep[q] /\ toggled'[q] = toggled[q]
    BY <1>0, <1>1 DEF LikesTypeOK
  <2> QED
    BY <1>1, <1>2, <2>1, EarnedHolds
<1> QED
  BY <1>3, <1>4, <1>5 DEF LikesInv

\* A like that is written or taken back leaves its comment's author a recompute.
LEMMA LikeKeepsInv ==
  ASSUME LikesInv, NEW t \in Toggles, InsertLike(t) \/ DeleteLike(t) PROVE LikesInv'
<1>0. LikesTypeOK /\ TogglesFit /\ toggled[t] \in Likeable /\ FanOf[t] \in Fans
  BY FanAssumption DEF LikesInv, LikesTypeOK
<1>1. /\ UNCHANGED <<up, likeKarma, toggled, drifted>>
      /\ toggleStep[t] # "karma"
      /\ toggleStep' = [toggleStep EXCEPT ![t] = IF toggled[t] = Post THEN "count" ELSE "karma"]
      /\ \/ liked' = liked \cup {<<toggled[t], FanOf[t]>>} /\ OwnerOf[toggled[t]] # FanOf[t]
         \/ liked' = liked \ {<<toggled[t], FanOf[t]>>}
  BY <1>0 DEF InsertLike, DeleteLike, AfterWrite, ToggleTo, TogglesFit
<1>2. LikesTypeOK'
  <2>1. liked' \in SUBSET (Likeable \X Fans)
    BY <1>0, <1>1 DEF LikesTypeOK
  <2>2. \A x \in Likeable : <<x, OwnerOf[x]>> \notin liked'
    BY <1>0, <1>1 DEF LikesTypeOK
  <2> QED
    BY <1>0, <1>1, <2>1, <2>2 DEF LikesTypeOK
<1>3. TogglesFit'
  BY <1>0, <1>1 DEF LikesTypeOK, TogglesFit, Likeable
<1>4. LikeKarmaIsEarned'
  <2>1. \A q \in Toggles : toggleStep[q] = "karma" => toggleStep'[q] = "karma" /\ toggled'[q] = toggled[q]
    BY <1>0, <1>1 DEF LikesTypeOK
  <2>2. ASSUME NEW c \in Replies
        PROVE  \/ (c \in up' <=> c \in up) /\ \A f \in Fans : <<c, f>> \in liked' <=> <<c, f>> \in liked
               \/ \E q \in Toggles : toggleStep'[q] = "karma" /\ OwnerOf[toggled'[q]] = OwnerOf[c]
    <3>1. CASE c = toggled[t]
      <4>1. toggleStep'[t] = "karma"
        BY <1>0, <1>1, <3>1, PostAssumption DEF LikesTypeOK
      <4> QED
        BY <1>1, <3>1, <4>1
    <3>2. CASE c # toggled[t]
      BY <1>1, <3>2
    <3> QED
      BY <3>1, <3>2
  <2> QED
    BY <1>1, <2>1, <2>2, EarnedHolds
<1> QED
  BY <1>2, <1>3, <1>4 DEF LikesInv

LEMMA RecomputeKeepsInv ==
  ASSUME LikesInv, NEW t \in Toggles, RecomputeLikes(t) PROVE LikesInv'
<1>0. LikesTypeOK /\ TogglesFit /\ toggled[t] \in Replies
  BY DEF LikesInv, RecomputeLikes, TogglesFit
<1>1. PICK v \in Owners : v = OwnerOf[toggled[t]]
  BY <1>0 DEF Owners
<1>2. /\ UNCHANGED <<up, liked, toggled>>
      /\ likeKarma' = [likeKarma EXCEPT ![v] = EarnedByLikes(v)]
      /\ drifted' = drifted \ {v}
      /\ toggleStep' = [toggleStep EXCEPT ![t] = "count"]
  BY <1>1 DEF RecomputeLikes, ToggleTo
<1>3. LikesTypeOK'
  <2>1. EarnedByLikes(v) \in 0 .. AuthorDayCap
    BY EarnedType
  <2> QED
    BY <1>0, <1>2, <2>1 DEF LikesTypeOK
<1>4. TogglesFit'
  BY <1>0, <1>2 DEF LikesTypeOK, TogglesFit
<1>5. LikeKarmaIsEarned'
  <2> SUFFICES ASSUME NEW u \in Owners, u \notin drifted',
                      \A q \in Toggles : toggleStep'[q] = "karma" => OwnerOf[toggled'[q]] # u
               PROVE  likeKarma'[u] = EarnedByLikes(u)'
    BY DEF LikeKarmaIsEarned
  <2>1. EarnedByLikes(u)' = EarnedByLikes(u)
    BY <1>2, SameEarned
  <2>2. CASE u = v
    BY <1>0, <1>2, <2>1, <2>2 DEF LikesTypeOK
  <2>3. CASE u # v
    <3>1. u \notin drifted /\ likeKarma'[u] = likeKarma[u]
      BY <1>0, <1>2, <2>3 DEF LikesTypeOK
    <3>2. \A q \in Toggles : toggleStep[q] = "karma" => OwnerOf[toggled[q]] # u
      BY <1>0, <1>1, <1>2, <2>3 DEF LikesTypeOK
    <3> QED
      BY <2>1, <3>1, <3>2 DEF LikesInv, LikeKarmaIsEarned
  <2> QED
    BY <2>2, <2>3
<1> QED
  BY <1>3, <1>4, <1>5 DEF LikesInv

LEMMA ComesOrGoesKeepsInv ==
  ASSUME LikesInv, NEW x \in Likeable, ComesOrGoes(x) PROVE LikesInv'
<1>0. LikesTypeOK /\ TogglesFit
  BY DEF LikesInv
<1>1. /\ UNCHANGED <<liked, likeKarma, toggleStep, toggled>>
      /\ up' = up \ {x} \/ up' = up \cup {x}
      /\ \/ x = Post /\ drifted' = drifted
         \/ x \in Replies /\ drifted' = drifted \cup {OwnerOf[x]}
  BY DEF ComesOrGoes, Likeable
<1>2. LikesTypeOK'
  <2>1. drifted' \in SUBSET Owners
    BY <1>0, <1>1 DEF LikesTypeOK, Owners
  <2> QED
    BY <1>0, <1>1, <2>1 DEF LikesTypeOK
<1>3. TogglesFit'
  BY <1>0, <1>1 DEF TogglesFit
<1>4. LikeKarmaIsEarned'
  <2>1. \A c \in Replies : (c \in up' <=> c \in up) \/ OwnerOf[c] \in drifted'
    BY <1>1, PostAssumption
  <2> QED
    BY <1>1, <2>1, EarnedHolds
<1> QED
  BY <1>2, <1>3, <1>4 DEF LikesInv

LEMMA LikesKeeps == LikesInv /\ [LikesNext]_likeVars => LikesInv'
<1>1. LikesInv /\ UNCHANGED likeVars => LikesInv'
  <2> SUFFICES ASSUME LikesInv, UNCHANGED likeVars PROVE LikesInv'
    OBVIOUS
  <2>1. LikesTypeOK' /\ TogglesFit'
    BY DEF LikesInv, LikesTypeOK, TogglesFit, likeVars
  <2>2. LikeKarmaIsEarned'
    BY EarnedHolds DEF likeVars
  <2> QED
    BY <2>1, <2>2 DEF LikesInv
<1> QED
  BY <1>1, LookingKeepsInv, LikeKeepsInv, RecomputeKeepsInv, ComesOrGoesKeepsInv
  DEF LikesNext, ToggleLike

\* Likes.tla: every variable keeps its type.
THEOREM LikesTypes == LikesSpec => []LikesTypeOK
<1>1. LikesInv => LikesTypeOK
  BY DEF LikesInv
<1> QED
  BY <1>1, LikesInitInv, LikesKeeps, PTL DEF LikesSpec

\* likes.ts:3, 107: for any number of readers, comments and toggles under way, the
\* stored karma is what the likes earn once no toggle is short of its recompute.
THEOREM LikesKarmaIsEarned == LikesSpec => []LikeKarmaIsEarned
<1>1. LikesInv => LikeKarmaIsEarned
  BY DEF LikesInv
<1> QED
  BY <1>1, LikesInitInv, LikesKeeps, PTL DEF LikesSpec

-----------------------------------------------------------------------------
(***************************************************************************)
(* The components put together.                                            *)
(***************************************************************************)

LEMMA PartsStart ==
  MCInit => /\ TaxonomyInit /\ RoleInit /\ RateInit /\ CommentsInit /\ LikesInit
            /\ DraftsInit /\ SubmissionInit /\ PeekInit /\ AccountsInit
            /\ part \in Parts
BY DEF MCInit

\* A step of one component leaves the others alone.
LEMMA PartsStep ==
  ASSUME [MCNext]_mcVars
  PROVE  /\ [TaxonomyNext]_taxonomyVars /\ [RoleNext]_roleVars
         /\ [CommentsNext]_commentVars /\ [LikesNext]_likeVars
         /\ [DraftsNext]_draftVars /\ [SubmissionNext]_submissionVars
         /\ [PeekNext]_peekVars /\ [AccountsNext]_accountVars
         /\ part = "fixed" => [FixedNext]_rateVars
         /\ part = "sliding" => [SlidingNext]_rateVars
         /\ part' = part
<1>1. CASE UNCHANGED mcVars
  BY <1>1 DEF mcVars
<1>2. CASE TaxonomyStep
  BY <1>2 DEF TaxonomyStep
<1>3. CASE RolesStep
  BY <1>3 DEF RolesStep
<1>4. CASE FixedStep
  BY <1>4 DEF FixedStep
<1>5. CASE SlidingStep
  BY <1>5 DEF SlidingStep
<1>6. CASE CommentsStep
  BY <1>6 DEF CommentsStep
<1>7. CASE LikesStep
  BY <1>7 DEF LikesStep
<1>8. CASE DraftsStep
  BY <1>8 DEF DraftsStep
<1>9. CASE SubmissionStep
  BY <1>9 DEF SubmissionStep
<1>10. CASE PeekStep
  BY <1>10 DEF PeekStep
<1>11. CASE AccountsStep
  BY <1>11 DEF AccountsStep
<1> QED
  BY <1>1, <1>2, <1>3, <1>4, <1>5, <1>6, <1>7, <1>8, <1>9, <1>10, <1>11 DEF MCNext

\* To each component the others are stuttering.
LEMMA PartsRun ==
  MCSpec => /\ TaxonomySpec /\ RoleSpec /\ CommentsSpec /\ LikesSpec /\ DraftsSpec
            /\ SubmissionSpec /\ PeekSpec /\ AccountsSpec
<1>1. MCSpec => TaxonomySpec
  BY PartsStart, PartsStep, PTL DEF MCSpec, TaxonomySpec
<1>2. MCSpec => RoleSpec
  BY PartsStart, PartsStep, PTL DEF MCSpec, RoleSpec
<1>3. MCSpec => CommentsSpec
  BY PartsStart, PartsStep, PTL DEF MCSpec, CommentsSpec
<1>4. MCSpec => LikesSpec
  BY PartsStart, PartsStep, PTL DEF MCSpec, LikesSpec
<1>5. MCSpec => DraftsSpec
  BY PartsStart, PartsStep, PTL DEF MCSpec, DraftsSpec
<1>6. MCSpec => SubmissionSpec
  BY PartsStart, PartsStep, PTL DEF MCSpec, SubmissionSpec
<1>7. MCSpec => PeekSpec
  BY PartsStart, PartsStep, PTL DEF MCSpec, PeekSpec
<1>8. MCSpec => AccountsSpec
  BY PartsStart, PartsStep, PTL DEF MCSpec, AccountsSpec
<1> QED
  BY <1>1, <1>2, <1>3, <1>4, <1>5, <1>6, <1>7, <1>8

\* The two windows share a clock: in the behaviours of one nothing has gone
\* through the other.
RatesInv ==
  /\ part = "fixed" => FixedInv /\ \A t \in Ticks : slid[t] = 0
  /\ part = "sliding" => SlidingInv /\ count = 0 /\ \A t \in Ticks : passed[t] = 0

LEMMA NothingThrough ==
  ASSUME NEW f, \A t \in Ticks : f[t] = 0, NEW t \in Ticks
  PROVE  InWindow(f, t) = 0
<1>1. WindowOf(t) \subseteq Ticks /\ IsFiniteSet(WindowOf(t))
  BY TicksAreFew, FS_Subset DEF WindowOf
<1>2. InWindow(f, t) = SumOver(f, WindowOf(t))
  BY Zenon DEF InWindow, SumOver
<1> HIDE DEF SumOver
<1> QED
  BY <1>1, <1>2, SumOfZeros

LEMMA RatesKeep == RatesInv /\ part' = part
                     /\ (part = "fixed" => [FixedNext]_rateVars)
                     /\ (part = "sliding" => [SlidingNext]_rateVars) => RatesInv'
<1> SUFFICES ASSUME RatesInv, part' = part, part = "fixed" => [FixedNext]_rateVars,
                    part = "sliding" => [SlidingNext]_rateVars
             PROVE  RatesInv'
  OBVIOUS
<1>1. CASE part = "fixed"
  <2>1. FixedInv'
    BY <1>1, FixedKeeps DEF RatesInv
  <2>2. slid' = slid
    BY <1>1 DEF FixedNext, TickCounter, Incr, ExpireKey, LoseExpire, rateVars, slidingVars
  <2>3. \A t \in Ticks : slid'[t] = 0
    BY <1>1, <2>2 DEF RatesInv
  <2> QED
    BY <1>1, <2>1, <2>3 DEF RatesInv
<1>2. CASE part = "sliding"
  <2>1. SlidingInv'
    BY <1>2, SlidingKeeps DEF RatesInv
  <2>2. count' = count /\ passed' = passed
    BY <1>2 DEF SlidingNext, TickSliding, ReadNow, Slide, rateVars, counterVars
  <2>3. \A t \in Ticks : passed'[t] = 0
    BY <1>2, <2>2 DEF RatesInv
  <2> QED
    BY <1>2, <2>1, <2>2, <2>3 DEF RatesInv
<1>3. CASE part \notin {"fixed", "sliding"}
  BY <1>3 DEF RatesInv
<1> QED
  BY <1>1, <1>2, <1>3

LEMMA RatesRun == MCSpec => [](RatesInv /\ part \in Parts)
<1>1. MCInit => RatesInv
  <2> SUFFICES ASSUME MCInit PROVE RatesInv
    OBVIOUS
  <2>1. RateInit
    BY PartsStart
  <2>2. FixedInv /\ SlidingInv
    BY <2>1, FixedInitInv, SlidingInitInv
  <2> QED
    BY <2>1, <2>2 DEF RatesInv, RateInit
<1>2. RatesInv /\ [MCNext]_mcVars => RatesInv'
  BY PartsStep, RatesKeep
<1>3. part \in Parts /\ [MCNext]_mcVars => (part \in Parts)'
  BY PartsStep
<1> QED
  BY <1>1, <1>2, <1>3, PartsStart, PTL DEF MCSpec

(* In every behaviour of the run, whichever component moves, its types     *)
(* hold.                                                                   *)
THEOREM ServerTypes == MCSpec => []TypeOK
<1>1. TaxonomyTypeOK /\ RoleTypeOK /\ CommentsTypeOK /\ LikesTypeOK /\ DraftsTypeOK
        /\ SubmissionTypeOK /\ PeekTypeOK /\ AccountsTypeOK
        /\ RatesInv /\ part \in Parts => TypeOK
  BY PartsAssumption DEF TypeOK, RatesInv, FixedInv, SlidingInv
<1> QED
  BY <1>1, PartsRun, RatesRun, TaxonomyTypes, RoleTypes, CommentsTypes, LikesTypes, DraftsTypes,
     SubmissionTypes, PeekTypes, AccountsTypes, PTL

(* And so do its limits: of requests in either window (rate-limit.ts), of  *)
(* a writer's comments (comments.ts) and drafts (drafts.ts), for any       *)
(* limits, callers and calls that overlap.                                 *)
THEOREM ServerQuotasHold == MCSpec => []QuotasHold
<1>1. ASSUME part = "fixed", RatesInv PROVE BudgetsHold
  <2>1. FixedWindowBudget /\ KeysExpireOnTheirOwn
    BY <1>1, FixedInvBudget DEF RatesInv, FixedInv
  <2>2. SlidingWindowBudget
    <3>1. \A t \in Ticks : InWindow(slid, t) = 0
      BY <1>1, NothingThrough DEF RatesInv
    <3> QED
      BY <3>1, BudgetAssumption DEF SlidingWindowBudget
  <2> QED
    BY <2>1, <2>2 DEF BudgetsHold
<1>2. ASSUME part = "sliding", RatesInv PROVE BudgetsHold
  <2>1. SlidingWindowBudget
    BY <1>2 DEF RatesInv, SlidingInv
  <2>2. FixedWindowBudget
    <3>1. \A t \in Ticks : InWindow(passed, t) = 0
      BY <1>2, NothingThrough DEF RatesInv
    <3> QED
      BY <3>1, BudgetAssumption DEF FixedWindowBudget
  <2>3. KeysExpireOnTheirOwn
    BY <1>2 DEF RatesInv, KeysExpireOnTheirOwn
  <2> QED
    BY <2>1, <2>2, <2>3 DEF BudgetsHold
<1>3. CapHoldsButForOverlap /\ CapButForOverlap /\ RatesInv => QuotasHold
  BY <1>1, <1>2 DEF QuotasHold
<1> QED
  BY <1>3, PartsRun, RatesRun, CommentsCapButForOverlap, DraftsCapButForOverlap, PTL

=============================================================================
