------------------------------- MODULE Combobox -------------------------------
(***************************************************************************)
(* The autocomplete field of the submission forms: what is typed, the      *)
(* debounced search and its answers in any order, the highlighted row, and *)
(* what Enter or a click takes.                                            *)
(*                                                                         *)
(* Typings are told apart up to blanks and case, as the comparison of labels *)
(* does.  The field runs in the four modes its two options give: with or   *)
(* without "suggest new", clearing on a pick (the tag picker, whose value  *)
(* stays null) or not.                                                     *)
(***************************************************************************)
EXTENDS Integers, Sequences, SequencesExt

CONSTANTS
  Typings,        \* what can be typed, Nothing not among them
  Nothing,      \* the empty text
  Matches,      \* Matches[t]: the labels the server answers for t
  MaxSearches   \* bound: searches ever started

ASSUME ComboAssumption ==
  /\ Nothing \notin Typings /\ MaxSearches \in Nat
  /\ Matches \in [Typings -> Seq(Typings)]

BoxTexts == Typings \cup {Nothing}

VARIABLES
  suggests,     \* onSuggestNew is given
  clears,       \* clearOnSelect is given
  query, value, \* the text in the input, and the label of the chosen option
  open,
  options,      \* the labels in the list
  active,       \* the highlighted row, counted from 1, or 0
  searchLoading,
  reqSeq,       \* searches started
  searches,     \* the texts of the searches under way, by number
  debouncing,        \* the debounce timer runs
  searchFailed        \* the last answer was a failure

comboVars == <<suggests, clears, query, value, open, options, active,
               searchLoading, reqSeq, searches, debouncing, searchFailed>>
modeVars == <<suggests, clears>>

ComboTypeOK ==
  /\ suggests \in BOOLEAN /\ clears \in BOOLEAN
  /\ query \in BoxTexts /\ value \in BoxTexts
  /\ open \in BOOLEAN /\ searchLoading \in BOOLEAN /\ debouncing \in BOOLEAN /\ searchFailed \in BOOLEAN
  /\ options \in Seq(Typings)
  /\ active \in Nat /\ reqSeq \in 0 .. MaxSearches
  /\ searches \in [1 .. MaxSearches -> BoxTexts]

ComboInit ==
  /\ suggests \in BOOLEAN /\ clears \in BOOLEAN
  /\ query = Nothing /\ value = Nothing
  /\ open = FALSE /\ options = << >> /\ active = 0 /\ searchLoading = FALSE
  /\ reqSeq = 0 /\ searches = [n \in 1 .. MaxSearches |-> Nothing]
  /\ debouncing = FALSE /\ searchFailed = FALSE

ShowSuggestNew == suggests /\ query # Nothing /\ query \notin ToSet(options)
RowCount == Len(options) + (IF ShowSuggestNew THEN 1 ELSE 0)
SuggestIndex == IF ShowSuggestNew THEN Len(options) + 1 ELSE 0

\* The effect on query and open: a change restarts the timer, or stops it.
Debounce == debouncing' = IF query' = query /\ open' = open THEN debouncing ELSE open'

-----------------------------------------------------------------------------
(* Searching.                                                              *)

RunSearch ==
  /\ debouncing /\ reqSeq < MaxSearches
  /\ debouncing' = FALSE
  /\ reqSeq' = reqSeq + 1
  /\ IF query = Nothing
     THEN /\ options' = << >> /\ searchLoading' = FALSE /\ searchFailed' = FALSE
          /\ UNCHANGED searches
     ELSE /\ searchLoading' = TRUE
          /\ searches' = [searches EXCEPT ![reqSeq + 1] = query]
          /\ UNCHANGED <<options, searchFailed>>
  /\ UNCHANGED <<modeVars, query, value, open, active>>

Settle(n, results, highlight) ==
  /\ options' = results /\ active' = highlight /\ searchLoading' = FALSE
  /\ searches' = [searches EXCEPT ![n] = Nothing]
  /\ UNCHANGED <<modeVars, query, value, open, reqSeq, debouncing>>

\* A defect: whichever answer comes is shown.
AnswerInAnyOrder(n) ==
  /\ searches[n] # Nothing
  /\ LET results == Matches[searches[n]] IN
       Settle(n, results, IF results = << >> THEN 0 ELSE 1)
  /\ searchFailed' = FALSE

\* An answer that is not the last search's is dropped.
SearchAnswers(n) ==
  /\ searches[n] # Nothing
  /\ IF n = reqSeq
     THEN /\ LET results == Matches[searches[n]] IN
               Settle(n, results, IF results = << >> THEN 0 ELSE 1)
          /\ searchFailed' = FALSE
     ELSE /\ searches' = [searches EXCEPT ![n] = Nothing]
          /\ UNCHANGED <<modeVars, query, value, open, options, active, searchLoading, reqSeq, debouncing, searchFailed>>

SearchFails(n) ==
  /\ searches[n] # Nothing
  /\ IF n = reqSeq
     THEN Settle(n, << >>, active) /\ searchFailed' = TRUE
     ELSE /\ searches' = [searches EXCEPT ![n] = Nothing]
          /\ UNCHANGED <<modeVars, query, value, open, options, active, searchLoading, reqSeq, debouncing, searchFailed>>

-----------------------------------------------------------------------------
(* The user.                                                               *)

searchVars == <<modeVars, searchLoading, reqSeq, searches, searchFailed>>

HandleInput(text) ==
  /\ text # query
  /\ query' = text /\ open' = TRUE
  /\ value' = IF text = value THEN value ELSE Nothing
  /\ Debounce
  /\ UNCHANGED <<options, active, searchVars>>

\* Focus, or an arrow on a closed field.
OpenList ==
  /\ ~open /\ open' = TRUE
  /\ UNCHANGED <<query, value, options, active, searchVars>>
  /\ Debounce

\* Escape, Tab, a pointer outside.
CloseList ==
  /\ open /\ open' = FALSE
  /\ UNCHANGED <<query, value, options, active, searchVars>>
  /\ Debounce

\* Up and down wrap around; the pointer goes to any row.
Highlight ==
  /\ open /\ RowCount > 0
  /\ active' \in {(active % RowCount) + 1,
                  IF active <= 1 THEN RowCount ELSE active - 1} \cup 1 .. RowCount
  /\ UNCHANGED <<query, value, open, options, debouncing, searchVars>>

Picked(label) ==
  /\ IF clears
     THEN query' = Nothing /\ options' = << >> /\ UNCHANGED <<value, open>>
     ELSE query' = label /\ value' = label /\ open' = FALSE /\ UNCHANGED options
  /\ active' = 0
  /\ Debounce /\ UNCHANGED searchVars

SelectOption(i) ==
  /\ open /\ i \in DOMAIN options
  /\ Picked(options[i])

CommitSuggestNew ==
  /\ open /\ ShowSuggestNew
  /\ IF clears
     THEN query' = Nothing /\ options' = << >> /\ active' = 0 /\ UNCHANGED <<value, open>>
     ELSE value' = query /\ open' = FALSE /\ UNCHANGED <<query, options, active>>
  /\ Debounce /\ UNCHANGED searchVars

\* With a row highlighted Enter takes that row, if it is there; with none, the
\* suggestion.
Enter ==
  \/ active > 0 /\ active = SuggestIndex /\ CommitSuggestNew
  \/ active > 0 /\ active # SuggestIndex /\ SelectOption(active)
  \/ active = 0 /\ CommitSuggestNew

ComboNext ==
  \/ RunSearch
  \/ \E n \in 1 .. MaxSearches : SearchAnswers(n) \/ SearchFails(n)
  \/ \E text \in BoxTexts : HandleInput(text)
  \/ OpenList \/ CloseList \/ Highlight
  \/ \E i \in DOMAIN options : SelectOption(i)
  \/ CommitSuggestNew \/ Enter

ComboSpec == ComboInit /\ [][ComboNext]_comboVars

-----------------------------------------------------------------------------

\* combobox.tsx:89 and :119: stale answers are dropped.  An open list that no timer
\* and no search is about to replace holds the answers for the text in the input,
\* and the row Enter would take is one of them, or the offer to suggest that text.
\* After a failed search, and under no text, the list is empty: there the row that
\* was highlighted may be gone, and Enter then takes nothing (combobox.tsx:222-224
\* has it take the suggestion).
ListIsCurrent ==
  open /\ ~debouncing /\ ~searchLoading =>
    IF searchFailed THEN options = << >>
    ELSE /\ options = IF query = Nothing THEN << >> ELSE Matches[query]
         /\ query # Nothing => active <= RowCount

=============================================================================
