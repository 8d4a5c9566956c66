------------------------------ MODULE LevelLadder ------------------------------
(***************************************************************************)
(* Company and level on the first screen of the submission: the fetch of   *)
(* the chosen company's ladder, the level field's three shapes, and        *)
(* Continue, which turns a suggested company into a row while the form     *)
(* stays open to edits.  Saving is DraftForm's.                            *)
(*                                                                         *)
(* A level is a row of some company's ladder, one of the synthetic rungs   *)
(* or a title of one's own; these two have no id.                          *)
(***************************************************************************)
CONSTANTS
  Companies,    \* companies with a row
  Suggestions,  \* names suggested as new
  PromotedTo,   \* PromotedTo[s]: the company suggestPendingCompany answers for s
  HasLadder,    \* companies with levels of their own
  NoCompany

\* A company with a row has an id, a suggestion only a name.
ASSUME LadderAssumption ==
  /\ PromotedTo \in [Suggestions -> Companies] /\ HasLadder \subseteq Companies
  /\ Companies \cap Suggestions = {} /\ NoCompany \notin Companies \cup Suggestions

VARIABLES
  company,     \* a company, a suggestion or NoCompany
  level,
  levels,      \* the company whose ladder is on offer, NoCompany if there is none
  levelsLoading,
  fetching,    \* the company the live fetch is for
  cancelled,   \* fetches still under way whose answers are ignored
  customMode,  \* the input for a title is open
  promoting,   \* Continue's suggestPendingCompany is under way, for this name
  overwritten  \* Continue put its company over another choice

ladderVars == <<company, level, levels, levelsLoading, fetching, cancelled,
                customMode, promoting, overwritten>>

NoLevel == [kind |-> "none", of |-> NoCompany]
Rung == [kind |-> "rung", of |-> NoCompany]
OwnTitle == [kind |-> "title", of |-> NoCompany]
LevelOf(c) == [kind |-> "row", of |-> c]
Levels == {NoLevel, Rung, OwnTitle} \cup {LevelOf(c) : c \in Companies}

LadderTypeOK ==
  /\ company \in Companies \cup Suggestions \cup {NoCompany}
  /\ level \in Levels
  /\ levels \in HasLadder \cup {NoCompany} /\ levelsLoading \in BOOLEAN
  /\ fetching \in Companies \cup {NoCompany} /\ cancelled \in SUBSET Companies
  /\ customMode \in BOOLEAN
  /\ promoting \in Suggestions \cup {NoCompany}
  /\ overwritten \in BOOLEAN

\* An empty form, or a draft as it was saved; a known company is fetched at once.
LadderInit ==
  /\ \/ company = NoCompany /\ level = NoLevel
     \/ company \in Companies /\ level \in {NoLevel, Rung, OwnTitle, LevelOf(company)}
     \/ company \in Suggestions /\ level \in {NoLevel, Rung, OwnTitle}
  /\ levels = NoCompany /\ cancelled = {}
  /\ fetching = IF company \in Companies THEN company ELSE NoCompany
  /\ levelsLoading = (company \in Companies)
  /\ customMode = FALSE /\ promoting = NoCompany /\ overwritten = FALSE

\* A ladder row counts: its name is not one of the rungs'.
IsCustomSeniorityLevel == level.kind \in {"title", "row"}

-----------------------------------------------------------------------------

\* The effect on the company: the fetch under way is cancelled, another started
\* for a company that has a row, and the flag left alone for any other.
FetchLadder(c) ==
  /\ cancelled' = cancelled \cup ({fetching} \ {NoCompany})
  /\ IF c \in Companies
     THEN fetching' = c /\ levelsLoading' = TRUE /\ UNCHANGED levels
     ELSE fetching' = NoCompany /\ levels' = NoCompany /\ UNCHANGED levelsLoading

\* The field is mounted anew for another company.
Remount(c) == customMode' = (customMode /\ c = company)

\* A defect: the level stays.
ChangeCompanyOnly(c) ==
  /\ company' = c /\ level' = level
  /\ FetchLadder(c) /\ Remount(c)
  /\ overwritten' = FALSE
  /\ UNCHANGED promoting

\* Another pick, a suggestion, or typing past the chosen label.
HandleCompanyChange(c) ==
  /\ company' = c /\ level' = NoLevel
  /\ FetchLadder(c) /\ Remount(c)
  /\ overwritten' = FALSE
  /\ UNCHANGED promoting

\* A failed or refused fetch leaves the form without a ladder.
FetchAnswers ==
  /\ fetching # NoCompany
  /\ levels' \in {NoCompany} \cup ({fetching} \cap HasLadder)
  /\ levelsLoading' = FALSE /\ fetching' = NoCompany
  /\ UNCHANGED <<company, level, cancelled, customMode, promoting, overwritten>>

\* A defect: the answer for a company left behind is taken.
LateAnswerTaken(c) ==
  /\ c \in cancelled
  /\ cancelled' = cancelled \ {c}
  /\ levels' \in {NoCompany} \cup ({c} \cap HasLadder)
  /\ levelsLoading' = FALSE
  /\ UNCHANGED <<company, level, fetching, customMode, promoting, overwritten>>

LateAnswer(c) ==
  /\ c \in cancelled
  /\ cancelled' = cancelled \ {c}
  /\ UNCHANGED <<company, level, levels, levelsLoading, fetching, customMode, promoting, overwritten>>

-----------------------------------------------------------------------------
(* The level field.                                                        *)

fieldVars == <<company, levels, levelsLoading, fetching, cancelled, promoting, overwritten>>

HandleLadderSelect ==
  /\ company # NoCompany /\ ~levelsLoading /\ levels # NoCompany
  /\ level' \in {NoLevel, LevelOf(levels)}
  /\ UNCHANGED <<fieldVars, customMode>>

SeniorityOffered == company # NoCompany /\ ~levelsLoading /\ levels = NoCompany

HandleSenioritySelect ==
  /\ SeniorityOffered
  /\ \/ /\ customMode' = TRUE
        /\ level' = IF IsCustomSeniorityLevel THEN level ELSE NoLevel
     \/ customMode' = FALSE /\ level' \in {NoLevel, Rung}
  /\ UNCHANGED fieldVars

\* What is typed may be the name of a rung.
TypeTitle ==
  /\ SeniorityOffered /\ (customMode \/ IsCustomSeniorityLevel)
  /\ level' \in {NoLevel, Rung, OwnTitle}
  /\ UNCHANGED <<fieldVars, customMode>>

-----------------------------------------------------------------------------
(* Continue.                                                               *)

HandleContinueSuggesting ==
  /\ company \in Suggestions /\ promoting = NoCompany
  /\ promoting' = company
  /\ UNCHANGED <<company, level, levels, levelsLoading, fetching, cancelled, customMode, overwritten>>

\* The company of the click replaces whatever the form holds by now; if the save
\* that follows fails, the form stays on with it.
SuggestAnswers ==
  /\ promoting # NoCompany
  /\ LET c == PromotedTo[promoting] IN
       /\ overwritten' = (overwritten \/ company # promoting)
       /\ company' = c
       /\ FetchLadder(c) /\ Remount(c)
  /\ promoting' = NoCompany
  /\ UNCHANGED level

SuggestFails ==
  /\ promoting # NoCompany
  /\ promoting' = NoCompany
  /\ UNCHANGED <<company, level, levels, levelsLoading, fetching, cancelled, customMode, overwritten>>

LadderNext ==
  \/ \E c \in Companies \cup Suggestions \cup {NoCompany} : HandleCompanyChange(c)
  \/ FetchAnswers
  \/ \E c \in Companies : LateAnswer(c)
  \/ HandleLadderSelect \/ HandleSenioritySelect \/ TypeTitle
  \/ HandleContinueSuggesting \/ SuggestAnswers \/ SuggestFails

LadderSpec == LadderInit /\ [][LadderNext]_ladderVars

-----------------------------------------------------------------------------

\* submit-form.tsx:89-94 and :176: a level with an id is of the company's own
\* ladder, unless Continue has put its company over a later choice; and what the
\* field offers for a known company is that company's ladder or none, the loading
\* hint being there only while that ladder is on its way.  (A fetch cancelled by a
\* move to a suggested company leaves the hint on for good.)
LevelFitsCompany ==
  /\ level.of # NoCompany /\ ~overwritten => level.of = company
  /\ company \in Companies =>
       IF levelsLoading THEN fetching = company ELSE levels \in {company, NoCompany}

=============================================================================
