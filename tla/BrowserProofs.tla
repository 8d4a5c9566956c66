---------------------------- MODULE BrowserProofs ----------------------------
(***************************************************************************)
(* Theorems about the components of the browser, for any values of their   *)
(* constants: the level field, the combobox, the preview pane, the         *)
(* moderators' queue, the rounds editor, the submission form, the comments *)
(* thread, the filters of a list and the public pages.  Each part has the  *)
(* inductive invariant its property needs, one step per action, and the    *)
(* theorem of the component's specification; the last puts the components  *)
(* together: a behaviour of MCBrowser is one of every component, where the *)
(* others are stuttering.                                                  *)
(***************************************************************************)
EXTENDS MCBrowser, DataLemmas

-----------------------------------------------------------------------------
(* The level field.                                                        *)

\* What is on its way, or on offer, is for the company in the form.
LadderIsTheCompanys ==
  /\ fetching # NoCompany => fetching = company
  /\ company \notin Companies => levels = NoCompany
  /\ company \in Companies =>
       IF levelsLoading THEN fetching = company ELSE levels \in {company, NoCompany}

LevelIsTheCompanys == level.of # NoCompany /\ ~overwritten => level.of = company

LadderInv == LadderTypeOK /\ LadderIsTheCompanys /\ LevelIsTheCompanys

\* Only a ladder row belongs to a company.
LEMMA LevelFacts ==
  /\ {NoLevel, Rung, OwnTitle} \subseteq Levels
  /\ \A c \in Companies : LevelOf(c) \in Levels
  /\ NoLevel.of = NoCompany /\ Rung.of = NoCompany /\ OwnTitle.of = NoCompany
  /\ \A c : LevelOf(c).of = c
  /\ \A l \in Levels : l.of \in Companies \cup {NoCompany}
<1>1. {NoLevel, Rung, OwnTitle} \subseteq Levels /\ \A c \in Companies : LevelOf(c) \in Levels
  BY DEF Levels
<1>2. /\ NoLevel.of = NoCompany /\ Rung.of = NoCompany /\ OwnTitle.of = NoCompany
      /\ \A c : LevelOf(c).of = c
  BY DEF NoLevel, Rung, OwnTitle, LevelOf
<1>3. \A l \in Levels : l.of \in Companies \cup {NoCompany}
  BY <1>2 DEF Levels
<1> QED
  BY <1>1, <1>2, <1>3

LEMMA LadderInvInit == LadderInit => LadderInv
<1> SUFFICES ASSUME LadderInit PROVE LadderInv
  OBVIOUS
<1>1. level \in Levels /\ level.of \in {NoCompany, company}
  BY LevelFacts DEF LadderInit
<1>2. company \in Companies \cup Suggestions \cup {NoCompany}
  BY DEF LadderInit
<1>3. LevelIsTheCompanys
  BY <1>1 DEF LevelIsTheCompanys
<1>4. LadderIsTheCompanys
  <2>1. CASE company \in Companies
    BY <2>1 DEF LadderInit, LadderIsTheCompanys
  <2>2. CASE company \notin Companies
    BY <2>2 DEF LadderInit, LadderIsTheCompanys
  <2> QED
    BY <2>1, <2>2
<1>5. levelsLoading \in BOOLEAN
  BY DEF LadderInit
<1> QED
  BY <1>1, <1>2, <1>3, <1>4, <1>5 DEF LadderInit, LadderInv, LadderTypeOK

\* A move to c leaves the fetch and the ladder right for c.
LEMMA FetchLadderFits ==
  ASSUME LadderInv, NEW c \in Companies \cup Suggestions \cup {NoCompany},
         company' = c, FetchLadder(c)
  PROVE  LadderIsTheCompanys' /\ levels' \in HasLadder \cup {NoCompany}
         /\ levelsLoading' \in BOOLEAN /\ fetching' \in Companies \cup {NoCompany}
         /\ cancelled' \in SUBSET Companies
BY LadderAssumption
DEF LadderInv, LadderTypeOK, LadderIsTheCompanys, FetchLadder

LEMMA LadderInvNext == LadderInv /\ [LadderNext]_ladderVars => LadderInv'
<1> SUFFICES ASSUME LadderInv, [LadderNext]_ladderVars PROVE LadderInv'
  OBVIOUS
<1> USE LadderAssumption DEF LadderInv, LadderTypeOK
<1>1. CASE \E c \in Companies \cup Suggestions \cup {NoCompany} : HandleCompanyChange(c)
  <2> PICK c \in Companies \cup Suggestions \cup {NoCompany} : HandleCompanyChange(c)
    BY <1>1
  <2>1. /\ LadderIsTheCompanys' /\ levels' \in HasLadder \cup {NoCompany}
        /\ levelsLoading' \in BOOLEAN /\ fetching' \in Companies \cup {NoCompany}
        /\ cancelled' \in SUBSET Companies
    BY FetchLadderFits DEF HandleCompanyChange
  <2>2. LevelIsTheCompanys'
    BY LevelFacts DEF HandleCompanyChange, LevelIsTheCompanys
  <2> QED
    BY <2>1, <2>2, LevelFacts DEF HandleCompanyChange, Remount
<1>2. CASE FetchAnswers
  BY <1>2 DEF FetchAnswers, LadderIsTheCompanys, LevelIsTheCompanys
<1>3. CASE \E c \in Companies : LateAnswer(c)
  BY <1>3 DEF LateAnswer, LadderIsTheCompanys, LevelIsTheCompanys
<1>4. CASE HandleLadderSelect
  <2>1. level' \in Levels /\ level'.of \in {NoCompany, company}
    BY <1>4, LevelFacts DEF HandleLadderSelect, LadderIsTheCompanys
  <2>2. UNCHANGED <<fieldVars, customMode>>
    BY <1>4 DEF HandleLadderSelect
  <2> QED
    BY <2>1, <2>2 DEF fieldVars, LadderIsTheCompanys, LevelIsTheCompanys
<1>5. CASE HandleSenioritySelect
  <2>1. level' \in Levels /\ level'.of \in {NoCompany, level.of} /\ customMode' \in BOOLEAN
    BY <1>5, LevelFacts DEF HandleSenioritySelect
  <2>2. UNCHANGED fieldVars
    BY <1>5 DEF HandleSenioritySelect
  <2> QED
    BY <2>1, <2>2 DEF fieldVars, LadderIsTheCompanys, LevelIsTheCompanys
<1>6. CASE TypeTitle
  <2>1. level' \in Levels /\ level'.of = NoCompany
    BY <1>6, LevelFacts DEF TypeTitle
  <2>2. UNCHANGED <<fieldVars, customMode>>
    BY <1>6 DEF TypeTitle
  <2> QED
    BY <2>1, <2>2 DEF fieldVars, LadderIsTheCompanys, LevelIsTheCompanys
<1>7. CASE HandleContinueSuggesting
  BY <1>7 DEF HandleContinueSuggesting, LadderIsTheCompanys, LevelIsTheCompanys
<1>8. CASE SuggestAnswers
  <2> DEFINE c == PromotedTo[promoting]
  <2>1. c \in Companies /\ company' = c /\ FetchLadder(c) /\ Remount(c)
        /\ overwritten' = (overwritten \/ company # promoting)
        /\ promoting' = NoCompany /\ level' = level /\ promoting \in Suggestions
    BY <1>8 DEF SuggestAnswers
  <2>2. /\ LadderIsTheCompanys' /\ levels' \in HasLadder \cup {NoCompany}
        /\ levelsLoading' \in BOOLEAN /\ fetching' \in Companies \cup {NoCompany}
        /\ cancelled' \in SUBSET Companies
    BY <2>1, FetchLadderFits
  <2>3. level.of \in Companies \cup {NoCompany}
    BY LevelFacts
  <2>4. LevelIsTheCompanys'
    BY <2>1, <2>3 DEF LevelIsTheCompanys
  <2> QED
    BY <2>1, <2>2, <2>4 DEF Remount
<1>9. CASE SuggestFails
  BY <1>9 DEF SuggestFails, LadderIsTheCompanys, LevelIsTheCompanys
<1>10. CASE UNCHANGED ladderVars
  BY <1>10 DEF ladderVars, LadderIsTheCompanys, LevelIsTheCompanys
<1> QED
  BY <1>1, <1>2, <1>3, <1>4, <1>5, <1>6, <1>7, <1>8, <1>9, <1>10 DEF LadderNext

\* The form's company, level and ladder stay well typed.
THEOREM LadderTypes == LadderSpec => []LadderTypeOK
<1>1. LadderInv => LadderTypeOK
  BY DEF LadderInv
<1> QED
  BY <1>1, LadderInvInit, LadderInvNext, PTL DEF LadderSpec

\* For any companies and suggestions, however many fetches are cancelled or late
\* and wherever Continue's answer comes: a level with an id is of the company's
\* ladder unless Continue overwrote a later choice, and the field offers that
\* company's ladder or none.
THEOREM LadderLevelFits == LadderSpec => []LevelFitsCompany
<1>1. LadderInv => LevelFitsCompany
  BY DEF LadderInv, LadderIsTheCompanys, LevelIsTheCompanys, LevelFitsCompany
<1> QED
  BY <1>1, LadderInvInit, LadderInvNext, PTL DEF LadderSpec

-----------------------------------------------------------------------------
(* The combobox.                                                           *)

\* The numbers of the searches say what is under way: none beyond the last one
\* started, and the last one exactly while the field says it searches.
SearchesAreCounted ==
  /\ \A n \in 1 .. MaxSearches : n > reqSeq => searches[n] = Nothing
  /\ searchLoading => reqSeq \in 1 .. MaxSearches /\ searches[reqSeq] # Nothing
  /\ ~searchLoading /\ reqSeq \in 1 .. MaxSearches => searches[reqSeq] = Nothing

\* In an open list that no timer is about to search for, the search under way is
\* for the text in the input.
SearchIsForQuery ==
  /\ debouncing => open
  /\ open /\ ~debouncing /\ searchLoading => searches[reqSeq] = query

ComboInv == ComboTypeOK /\ SearchesAreCounted /\ SearchIsForQuery /\ ListIsCurrent

LEMMA NoOptions == << >> \in Seq(Typings) /\ Len(<< >>) = 0
OBVIOUS

LEMMA ComboInvInit == ComboInit => ComboInv
<1> SUFFICES ASSUME ComboInit PROVE ComboInv
  OBVIOUS
<1> USE ComboAssumption DEF ComboInit
<1>1. ComboTypeOK
  <2>1. searches \in [1 .. MaxSearches -> BoxTexts]
    BY DEF BoxTexts
  <2>2. reqSeq \in 0 .. MaxSearches
    OBVIOUS
  <2> QED
    BY <2>1, <2>2, NoOptions DEF ComboTypeOK, BoxTexts
<1>2. SearchesAreCounted
  BY DEF SearchesAreCounted
<1>3. SearchIsForQuery /\ ListIsCurrent
  BY DEF SearchIsForQuery, ListIsCurrent
<1> QED
  BY <1>1, <1>2, <1>3 DEF ComboInv

LEMMA RowCountIsNat == ComboTypeOK => RowCount \in Nat /\ Len(options) \in Nat
<1> SUFFICES ASSUME ComboTypeOK PROVE RowCount \in Nat /\ Len(options) \in Nat
  OBVIOUS
<1>1. Len(options) \in Nat
  BY DEF ComboTypeOK
<1> QED
  BY <1>1 DEF RowCount

\* The bookkeeping of the searches.
LEMMA SearchStep ==
  ASSUME ComboInv, RunSearch \/ \E n \in 1 .. MaxSearches : SearchAnswers(n) \/ SearchFails(n)
  PROVE  ComboInv'
<1> USE ComboAssumption DEF ComboInv, ComboTypeOK, BoxTexts, modeVars
<1>1. CASE RunSearch
  <2>1. reqSeq' = reqSeq + 1 /\ reqSeq' \in 1 .. MaxSearches /\ debouncing' = FALSE
        /\ UNCHANGED <<suggests, clears, query, value, open, active>>
    BY <1>1 DEF RunSearch
  <2>2. CASE query = Nothing
    <3>1. options' = << >> /\ searchLoading' = FALSE /\ searchFailed' = FALSE /\ searches' = searches
      BY <1>1, <2>2 DEF RunSearch
    <3>2. SearchesAreCounted'
      BY <2>1, <3>1 DEF SearchesAreCounted
    <3>3. SearchIsForQuery' /\ ListIsCurrent'
      BY <2>1, <2>2, <3>1 DEF SearchIsForQuery, ListIsCurrent
    <3>4. options' \in Seq(Typings) /\ reqSeq' \in 0 .. MaxSearches
      BY <2>1, <3>1, NoOptions
    <3> QED
      BY <2>1, <3>1, <3>2, <3>3, <3>4
  <2>3. CASE query # Nothing
    <3>1. searchLoading' = TRUE /\ searches' = [searches EXCEPT ![reqSeq + 1] = query]
          /\ options' = options /\ searchFailed' = searchFailed
      BY <1>1, <2>3 DEF RunSearch
    <3>2. searches' \in [1 .. MaxSearches -> BoxTexts] /\ searches'[reqSeq'] = query
          /\ \A n \in 1 .. MaxSearches : n # reqSeq' => searches'[n] = searches[n]
      BY <2>1, <3>1
    <3>3. SearchesAreCounted'
      BY <2>1, <2>3, <3>1, <3>2 DEF SearchesAreCounted
    <3>4. SearchIsForQuery' /\ ListIsCurrent'
      BY <2>1, <3>1, <3>2 DEF SearchIsForQuery, ListIsCurrent
    <3>5. options' \in Seq(Typings) /\ reqSeq' \in 0 .. MaxSearches
      BY <2>1, <3>1
    <3> QED
      BY <2>1, <3>1, <3>2, <3>3, <3>4, <3>5
  <2> QED
    BY <2>2, <2>3
<1>2. ASSUME NEW n \in 1 .. MaxSearches, n # reqSeq, SearchAnswers(n) \/ SearchFails(n)
      PROVE  ComboInv'
  <2>1. searches' = [searches EXCEPT ![n] = Nothing]
        /\ UNCHANGED <<suggests, clears, query, value, open, options, active, searchLoading,
                       reqSeq, debouncing, searchFailed>>
    BY <1>2 DEF SearchAnswers, SearchFails
  <2>2. searches' \in [1 .. MaxSearches -> BoxTexts] /\ searches'[n] = Nothing
        /\ \A m \in 1 .. MaxSearches : m # n => searches'[m] = searches[m]
    BY <2>1
  <2>3. SearchesAreCounted'
    BY <1>2, <2>1, <2>2 DEF SearchesAreCounted
  <2>4. SearchIsForQuery'
    BY <1>2, <2>1, <2>2 DEF SearchIsForQuery, SearchesAreCounted
  <2>5. ListIsCurrent'
    BY <2>1 DEF ListIsCurrent, RowCount, ShowSuggestNew
  <2> QED
    BY <2>1, <2>2, <2>3, <2>4, <2>5
<1>3. ASSUME reqSeq \in 1 .. MaxSearches, SearchAnswers(reqSeq) \/ SearchFails(reqSeq)
      PROVE  ComboInv'
  <2> DEFINE results == Matches[searches[reqSeq]]
  <2>1. searches[reqSeq] \in Typings /\ results \in Seq(Typings) /\ searchLoading
    BY <1>3 DEF SearchAnswers, SearchFails, SearchesAreCounted
  <2>2. searchLoading' = FALSE /\ searches' = [searches EXCEPT ![reqSeq] = Nothing]
        /\ UNCHANGED <<suggests, clears, query, value, open, reqSeq, debouncing>>
    BY <1>3 DEF SearchAnswers, SearchFails, Settle
  <2>3. \/ options' = results /\ active' = (IF results = << >> THEN 0 ELSE 1) /\ searchFailed' = FALSE
        \/ options' = << >> /\ active' = active /\ searchFailed' = TRUE
    BY <1>3 DEF SearchAnswers, SearchFails, Settle
  <2>4. searches' \in [1 .. MaxSearches -> BoxTexts] /\ searches'[reqSeq] = Nothing
        /\ \A m \in 1 .. MaxSearches : m # reqSeq => searches'[m] = searches[m]
    BY <1>3, <2>2
  <2>5. SearchesAreCounted'
    BY <1>3, <2>2, <2>4 DEF SearchesAreCounted
  <2>6. options' \in Seq(Typings) /\ active' \in Nat
    <3>1. CASE options' = results /\ active' = (IF results = << >> THEN 0 ELSE 1)
      BY <2>1, <3>1
    <3>2. CASE options' = << >> /\ active' = active
      BY <3>2, NoOptions
    <3> QED
      BY <2>3, <3>1, <3>2
  <2>7. results # << >> => Len(results) >= 1
    BY <2>1
  <2>8. ~searchFailed' => active' <= Len(options')
    <3>1. Len(results) \in Nat
      BY <2>1
    <3> QED
      BY <2>3, <2>7, <3>1
  <2>9. ~searchFailed' => active' <= RowCount'
    <3>1. Len(options)' \in Nat
      BY <2>6
    <3>2. RowCount' = Len(options)' \/ RowCount' = Len(options)' + 1
      BY DEF RowCount
    <3> QED
      BY <2>6, <2>8, <3>1, <3>2
  <2>10. ListIsCurrent'
    <3>1. open /\ ~debouncing => searches[reqSeq] = query
      BY <2>1 DEF SearchIsForQuery
    <3> QED
      BY <2>1, <2>2, <2>3, <2>9, <3>1 DEF ListIsCurrent
  <2> QED
    BY <2>2, <2>3, <2>4, <2>5, <2>6, <2>10 DEF SearchIsForQuery
<1> QED
  BY <1>1, <1>2, <1>3

\* What the user does leaves the searches alone; a new text or a list just
\* opened waits for the timer, and a pick closes the list or empties the input.
LEMMA UserStep ==
  ASSUME ComboInv,
         UNCHANGED searchVars, options' \in Seq(Typings), active' \in Nat,
         query' \in BoxTexts, value' \in BoxTexts, open' \in BOOLEAN, debouncing' \in BOOLEAN,
         debouncing' <=> open'
  PROVE  ComboInv'
<1> USE DEF ComboInv, ComboTypeOK, searchVars, modeVars
<1>1. SearchesAreCounted'
  BY DEF SearchesAreCounted
<1>2. SearchIsForQuery'
  BY DEF SearchIsForQuery
<1>3. ListIsCurrent'
  BY DEF ListIsCurrent
<1> QED
  BY <1>1, <1>2, <1>3

LEMMA PickStep ==
  ASSUME ComboInv, CommitSuggestNew \/ \E i \in Nat : SelectOption(i)
  PROVE  ComboInv'
<1> USE ComboAssumption DEF ComboInv, ComboTypeOK, BoxTexts
<1>1. open /\ open' \in BOOLEAN /\ UNCHANGED searchVars /\ Debounce
  BY DEF CommitSuggestNew, SelectOption, Picked
<1>2. options' \in Seq(Typings) /\ active' \in Nat /\ query' \in BoxTexts /\ value' \in BoxTexts
  <2>1. CASE CommitSuggestNew
    <3>1. \/ options' = << >> /\ active' = 0 /\ query' = Nothing /\ value' = value
          \/ options' = options /\ active' = active /\ query' = query /\ value' = query
      BY <2>1 DEF CommitSuggestNew
    <3>2. CASE options' = << >> /\ active' = 0 /\ query' = Nothing /\ value' = value
      BY <3>2, NoOptions
    <3>3. CASE options' = options /\ active' = active /\ query' = query /\ value' = query
      BY <3>3
    <3> QED
      BY <3>1, <3>2, <3>3
  <2>2. ASSUME NEW i \in Nat, SelectOption(i)
        PROVE options' \in Seq(Typings) /\ active' \in Nat /\ query' \in BoxTexts /\ value' \in BoxTexts
    <3>1. i \in DOMAIN options /\ options[i] \in Typings
      BY <2>2 DEF SelectOption
    <3>2. /\ active' = 0
          /\ \/ options' = << >> /\ query' = Nothing /\ value' = value
             \/ options' = options /\ query' = options[i] /\ value' = options[i]
      BY <2>2 DEF SelectOption, Picked
    <3> QED
      BY <3>1, <3>2, NoOptions
  <2> QED
    BY <2>1, <2>2
<1>3. open' => debouncing'
  <2>1. ASSUME open' PROVE query' = Nothing
    BY <2>1 DEF CommitSuggestNew, SelectOption, Picked
  <2>2. ASSUME query = Nothing, ~debouncing PROVE FALSE
    <3>1. ~searchLoading
      BY <1>1, <2>2 DEF SearchIsForQuery, SearchesAreCounted
    <3>2. options = << >>
      BY <1>1, <2>2, <3>1 DEF ListIsCurrent
    <3>3. ~ShowSuggestNew /\ DOMAIN options = {}
      BY <2>2, <3>2 DEF ShowSuggestNew
    <3> QED
      BY <3>3 DEF CommitSuggestNew, SelectOption
  <2> QED
    BY <1>1, <2>1, <2>2 DEF Debounce
<1>4. debouncing' \in BOOLEAN /\ (debouncing' => open')
  BY <1>1 DEF Debounce, SearchIsForQuery
<1> QED
  BY <1>1, <1>2, <1>3, <1>4, UserStep

LEMMA ComboInvNext == ComboInv /\ [ComboNext]_comboVars => ComboInv'
<1> SUFFICES ASSUME ComboInv, [ComboNext]_comboVars PROVE ComboInv'
  OBVIOUS
<1> USE DEF ComboInv, ComboTypeOK
<1>1. CASE RunSearch \/ \E n \in 1 .. MaxSearches : SearchAnswers(n) \/ SearchFails(n)
  BY <1>1, SearchStep
<1>2. CASE \E text \in BoxTexts : HandleInput(text)
  <2> PICK text \in BoxTexts : HandleInput(text)
    BY <1>2
  <2>1. UNCHANGED <<options, active, searchVars>> /\ query' = text /\ text # query /\ open' = TRUE
        /\ debouncing' = TRUE /\ value' \in BoxTexts
    BY DEF HandleInput, Debounce, BoxTexts
  <2> QED
    BY <2>1, UserStep
<1>3. CASE OpenList \/ CloseList
  <2>1. UNCHANGED <<query, value, options, active, searchVars>>
    BY <1>3 DEF OpenList, CloseList
  <2>2. open' \in BOOLEAN /\ debouncing' = open'
    BY <1>3 DEF OpenList, CloseList, Debounce
  <2> QED
    BY <2>1, <2>2, UserStep
<1>4. CASE Highlight
  <2>1. RowCount \in Nat /\ RowCount > 0
    BY <1>4, RowCountIsNat DEF Highlight
  <2>2. UNCHANGED <<query, value, open, options, debouncing, searchVars>>
    BY <1>4 DEF Highlight
  <2>3. active' \in Nat /\ (active' <= RowCount \/ active' <= active)
    <3>1. PICK k \in Nat : k = RowCount /\ k > 0
      BY <2>1
    <3>2. (active % k) + 1 \in 1 .. k
      BY <3>1
    <3> QED
      BY <1>4, <3>1, <3>2 DEF Highlight
  <2>4. ListIsCurrent'
    <3>1. RowCount' = RowCount
      BY <2>2 DEF RowCount, ShowSuggestNew, searchVars, modeVars
    <3>2. PICK k \in Nat : k = RowCount
      BY <2>1
    <3> QED
      BY <2>2, <2>3, <3>1, <3>2 DEF ListIsCurrent, searchVars
  <2> QED
    BY <2>2, <2>3, <2>4 DEF searchVars, modeVars, SearchesAreCounted, SearchIsForQuery
<1>5. CASE CommitSuggestNew \/ \E i \in DOMAIN options : SelectOption(i)
  <2>1. DOMAIN options \subseteq Nat
    OBVIOUS
  <2> QED
    BY <1>5, <2>1, PickStep
<1>6. CASE Enter
  BY <1>6, PickStep DEF Enter
<1>7. CASE UNCHANGED comboVars
  BY <1>7
  DEF comboVars, SearchesAreCounted, SearchIsForQuery, ListIsCurrent, RowCount, ShowSuggestNew
<1> QED
  BY <1>1, <1>2, <1>3, <1>4, <1>5, <1>6, <1>7 DEF ComboNext

\* Text, list, highlighted row and searches stay well typed.
THEOREM ComboTypes == ComboSpec => []ComboTypeOK
<1>1. ComboInv => ComboTypeOK
  BY DEF ComboInv
<1> QED
  BY <1>1, ComboInvInit, ComboInvNext, PTL DEF ComboSpec

\* For any texts, any answers of the server and any number of searches answered in
\* any order: an open list at rest holds the answers for the text in the input,
\* and Enter takes one of its rows (combobox.tsx:89, :119).
THEOREM ComboListIsCurrent == ComboSpec => []ListIsCurrent
<1>1. ComboInv => ListIsCurrent
  BY DEF ComboInv
<1> QED
  BY <1>1, ComboInvInit, ComboInvNext, PTL DEF ComboSpec

-----------------------------------------------------------------------------
(* The preview pane.                                                       *)

\* The last request the bound allows is one more, sent as a detail arrives; after
\* it no call waits for the selected report, and nothing else sends one.
LastRequestIsLast == fetches > MaxFetches => selected \notin awaiting

TriageInv == TriageTypeOK /\ PaneIsTheSelection /\ LastRequestIsLast

\* The neighbours of a listed report are listed.
LEMMA NextIsListed ==
  ASSUME NEW id \in TriagedReports
  PROVE  Place(id) \in 1 .. Len(OrderedIds) /\ NextOf(id) \subseteq TriagedReports
<1>1. OrderedIds \in Seq(TriagedReports)
  BY TriageAssumption DEF TriagedReports
<1>2. DOMAIN OrderedIds = 1 .. Len(OrderedIds) /\ Len(OrderedIds) \in Nat
  BY <1>1
<1>3. \E k \in 1 .. Len(OrderedIds) : OrderedIds[k] = id
  BY <1>2 DEF TriagedReports, ToSet
<1>4. Place(id) \in 1 .. Len(OrderedIds)
  BY <1>3 DEF Place
<1>5. ASSUME Place(id) < Len(OrderedIds) PROVE OrderedIds[Place(id) + 1] \in TriagedReports
  <2>1. Place(id) + 1 \in 1 .. Len(OrderedIds)
    BY <1>2, <1>4, <1>5
  <2> QED
    BY <1>1, <1>2, <2>1
<1> QED
  BY <1>4, <1>5 DEF NextOf

LEMMA NamesAreApart == NoPane \notin TriagedReports /\ ListUrl \notin TriagedReports
BY TriageAssumption DEF TriagedReports

LEMMA TriageInvInit == TriageInit => TriageInv
<1> SUFFICES ASSUME TriageInit PROVE TriageInv
  OBVIOUS
<1>1. history \in Seq(TriagedReports \cup {ListUrl}) /\ at \in DOMAIN history
  BY DEF TriageInit
<1>2. traversals \in Seq({-1, 1})
  BY DEF TriageInit
<1>3. opens \in 0 .. MaxOpens /\ fetches \in 0 .. (MaxFetches + 1) /\ ~ fetches > MaxFetches
  BY TriageBounds DEF TriageInit
<1>4. history[at] = ListUrl
  BY DEF TriageInit
<1> QED
  BY <1>1, <1>2, <1>3, <1>4
  DEF TriageInit, TriageInv, TriageTypeOK, PaneIsTheSelection, LastRequestIsLast

\* A report is put up: from the cache, or behind a request.
LEMMA ShowStep ==
  ASSUME TriageInv, NEW id \in TriagedReports, NEW ids \in SUBSET TriagedReports,
         selected' = id, dwell' = id,
         history' \in Seq(TriagedReports \cup {ListUrl}), at' \in DOMAIN history',
         history'[at'] = id,
         loading' = (id \notin cache), peek' = IF id \in cache THEN id ELSE NoPane,
         Request(ids), id \notin cache => id \in inflight',
         awaiting' = IF id \in cache THEN awaiting ELSE awaiting \cup {id},
         UNCHANGED cache, traversals' \in Seq({-1, 1}),
         hover' = hover, opens' \in 0 .. MaxOpens
  PROVE  TriageInv'
<1> USE DEF TriageInv, TriageTypeOK
<1>1. fetches' \in Nat /\ fetches' <= MaxFetches
  BY TriageBounds DEF Request
<1>2. LastRequestIsLast' /\ fetches' \in 0 .. (MaxFetches + 1)
  BY <1>1, TriageBounds DEF LastRequestIsLast
<1>3. inflight' = inflight \cup ids
  BY DEF Request
<1>4. PaneIsTheSelection'
  BY <1>3, NamesAreApart DEF PaneIsTheSelection
<1>5. TriagedReports' = TriagedReports
  BY DEF TriagedReports
<1>6. {selected, peek, dwell, hover}' \subseteq TriagedReports \cup {NoPane} /\ loading' \in BOOLEAN
  OBVIOUS
<1>7. cache' \subseteq TriagedReports /\ inflight' \subseteq TriagedReports
      /\ awaiting' \subseteq TriagedReports
  BY <1>3
<1> QED
  BY <1>2, <1>4, <1>5, <1>6, <1>7

\* What select and the popstate handler ask for.
LEMMA AskedIsListed ==
  ASSUME TriageInv, NEW id \in TriagedReports
  PROVE  /\ UNION {Unfetched(n) : n \in NextOf(id)} \subseteq TriagedReports
         /\ Unfetched(id) \subseteq TriagedReports
         /\ id \notin cache => id \in inflight \cup Unfetched(id)
BY NextIsListed DEF Unfetched

LEMMA SelectStep ==
  ASSUME TriageInv, NEW id \in TriagedReports,
         NEW entries \in Seq(TriagedReports \cup {ListUrl}), NEW entry \in DOMAIN entries,
         entries[entry] = id, Select(id, entries, entry), opens' \in 0 .. MaxOpens
  PROVE  TriageInv'
<1>1. /\ selected' = id /\ dwell' = id /\ history' = entries /\ at' = entry
      /\ loading' = (id \notin cache) /\ UNCHANGED <<cache, traversals, hover>>
  BY DEF Select
<1>2. traversals' \in Seq({-1, 1})
  BY <1>1 DEF TriageInv, TriageTypeOK
<1>3. CASE id \in cache
  <2>1. /\ peek' = id /\ awaiting' = awaiting
        /\ Request(UNION {Unfetched(n) : n \in NextOf(id)})
    BY <1>3 DEF Select
  <2> QED
    BY <1>1, <1>2, <1>3, <2>1, AskedIsListed, ShowStep
<1>4. CASE id \notin cache
  <2>1. /\ peek' = NoPane /\ awaiting' = awaiting \cup {id} /\ Request(Unfetched(id))
    BY <1>4 DEF Select
  <2>2. id \in inflight'
    BY <1>4, <2>1, AskedIsListed DEF Request
  <2> QED
    BY <1>1, <1>2, <1>4, <2>1, <2>2, AskedIsListed, ShowStep
<1> QED
  BY <1>3, <1>4

\* The entries that select writes: a new one after the current, or another in its place.
LEMMA EntriesAreListed ==
  ASSUME TriageInv, NEW id \in TriagedReports
  PROVE  /\ Pushed(id) \in Seq(TriagedReports \cup {ListUrl})
         /\ at + 1 \in DOMAIN Pushed(id) /\ Pushed(id)[at + 1] = id
         /\ Replaced(id) \in Seq(TriagedReports \cup {ListUrl})
         /\ at \in DOMAIN Replaced(id) /\ Replaced(id)[at] = id
<1> DEFINE E == TriagedReports \cup {ListUrl}
           s == SubSeq(history, 1, at)
<1>1. history \in Seq(E) /\ at \in 1 .. Len(history) /\ Len(history) \in Nat
  BY DEF TriageInv, TriageTypeOK
<1>2. s \in Seq(E) /\ Len(s) = at
  BY <1>1
<1>3. Append(s, id) \in Seq(E) /\ Len(Append(s, id)) = at + 1 /\ Append(s, id)[at + 1] = id
  <2> HIDE DEF s
  <2> QED
    BY <1>1, <1>2
<1>4. [history EXCEPT ![at] = id] \in Seq(E)
      /\ at \in DOMAIN [history EXCEPT ![at] = id] /\ [history EXCEPT ![at] = id][at] = id
  BY <1>1
<1>5. at + 1 \in DOMAIN Append(s, id)
  <2> HIDE DEF s
  <2> QED
    BY <1>1, <1>2
<1> QED
  BY <1>3, <1>4, <1>5 DEF Pushed, Replaced

\* The address decides.
LEMMA PopStateStep ==
  ASSUME TriageInv, PopState
  PROVE  TriageInv'
<1> DEFINE to == at + Head(traversals)
<1> USE DEF TriageInv, TriageTypeOK
<1>1. traversals' \in Seq({-1, 1}) /\ UNCHANGED <<cache, hover, opens>>
  BY DEF PopState
<1>2. TriagedReports' = TriagedReports
  BY DEF TriagedReports
<1>3. CASE to \notin DOMAIN history
  <2>1. UNCHANGED <<selected, peek, loading, inflight, awaiting, history, at, dwell, fetches>>
    BY <1>3 DEF PopState
  <2> QED
    BY <1>1, <1>2, <2>1 DEF PaneIsTheSelection, LastRequestIsLast
<1>4. CASE to \in DOMAIN history /\ history[to] = ListUrl
  <2>1. /\ selected' = NoPane /\ peek' = NoPane /\ loading' = FALSE /\ dwell' = NoPane
        /\ at' = to /\ UNCHANGED <<history, inflight, awaiting, fetches>>
    BY <1>4 DEF PopState
  <2>2. LastRequestIsLast'
    BY <2>1, NamesAreApart DEF LastRequestIsLast
  <2> QED
    BY <1>1, <1>2, <1>4, <2>1, <2>2 DEF PaneIsTheSelection
<1>5. CASE to \in DOMAIN history /\ history[to] # ListUrl /\ history[to] = selected
  <2>1. at' = to /\ UNCHANGED <<selected, peek, loading, inflight, awaiting, history, dwell, fetches>>
    BY <1>5 DEF PopState
  <2>2. history[to] \in TriagedReports
    BY <1>5
  <2> QED
    BY <1>1, <1>2, <1>5, <2>1, <2>2, NamesAreApart DEF PaneIsTheSelection, LastRequestIsLast
<1>6. CASE to \in DOMAIN history /\ history[to] # ListUrl /\ history[to] # selected
  <2> DEFINE id == history[to]
             ids == IF id \in cache THEN UNION {Unfetched(n) : n \in NextOf(id)} ELSE Unfetched(id)
  <2>1. /\ selected' = id /\ dwell' = id /\ at' = to /\ loading' = (id \notin cache)
        /\ peek' = IF id \in cache THEN id ELSE NoPane
        /\ Request(ids)
        /\ awaiting' = IF id \in cache THEN awaiting ELSE awaiting \cup {id}
        /\ history' = history
    BY <1>6 DEF PopState
  <2>2. id \in TriagedReports
    BY <1>6
  <2>3. ids \in SUBSET TriagedReports
    BY <2>2, AskedIsListed
  <2>4. id \notin cache => id \in inflight'
    BY <2>1, <2>2, AskedIsListed DEF Request
  <2>5. at' \in DOMAIN history' /\ history'[at'] = id /\ history' \in Seq(TriagedReports \cup {ListUrl})
    BY <1>6, <2>1
  <2>6. opens' \in 0 .. MaxOpens
    BY <1>1
  <2> HIDE DEF id, ids
  <2> QED
    BY <1>1, <2>1, <2>2, <2>3, <2>4, <2>5, <2>6, ShowStep
<1> QED
  BY <1>3, <1>4, <1>5, <1>6

\* An answer goes to the pane only if its report is still the selected one.
LEMMA AnswerStep ==
  ASSUME TriageInv, NEW id \in TriagedReports, Answered(id) \/ FetchFails(id)
  PROVE  TriageInv'
<1> USE DEF TriageInv, TriageTypeOK
<1>1. /\ awaiting' = awaiting \ {id} /\ cache' \in {cache, cache \cup {id}}
      /\ UNCHANGED <<selected, history, at, traversals, dwell, hover, opens>>
      /\ \E found \in BOOLEAN : Resume(id, found)
  BY DEF Answered, FetchFails
<1>2. TriagedReports' = TriagedReports
  BY DEF TriagedReports
<1>3. PICK found \in BOOLEAN : Resume(id, found)
  BY <1>1
<1>4. CASE id \in awaiting /\ selected = id
  <2> DEFINE ask == UNION {{n} \ (cache' \cup (inflight \ {id})) : n \in NextOf(id)}
  <2>1. /\ peek' \in {id, NoPane} /\ loading' = FALSE
        /\ inflight' = (inflight \ {id}) \cup ask
        /\ fetches' = IF ask = {} THEN fetches ELSE fetches + 1
    BY <1>3, <1>4 DEF Resume
  <2>2. ask \subseteq TriagedReports
    BY NextIsListed
  <2>3. fetches <= MaxFetches
    BY <1>4, TriageBounds DEF LastRequestIsLast
  <2> HIDE DEF ask
  <2>4. fetches' \in 0 .. (MaxFetches + 1)
    BY <2>1, <2>3, TriageBounds
  <2>5. LastRequestIsLast'
    BY <1>1, <1>4 DEF LastRequestIsLast
  <2>6. PaneIsTheSelection'
    BY <1>1, <1>4, <2>1 DEF PaneIsTheSelection
  <2> QED
    BY <1>1, <1>2, <1>4, <2>1, <2>2, <2>4, <2>5, <2>6
<1>5. CASE ~(id \in awaiting /\ selected = id)
  <2>1. inflight' = inflight \ {id} /\ UNCHANGED <<peek, loading, fetches>>
    BY <1>3, <1>5 DEF Resume
  <2>2. PaneIsTheSelection'
    BY <1>1, <1>5, <2>1 DEF PaneIsTheSelection
  <2> QED
    BY <1>1, <1>2, <2>1, <2>2 DEF LastRequestIsLast
<1> QED
  BY <1>4, <1>5

LEMMA TriageInvNext == TriageInv /\ [TriageNext]_triageVars => TriageInv'
<1> SUFFICES ASSUME TriageInv, [TriageNext]_triageVars PROVE TriageInv'
  OBVIOUS
<1> DEFINE E == TriagedReports \cup {ListUrl}
<1>1. TriagedReports' = TriagedReports
  BY DEF TriagedReports
<1>2. ASSUME NEW id \in TriagedReports, Open(id) PROVE TriageInv'
  <2>1. opens' \in 0 .. MaxOpens
    BY <1>2, TriageBounds DEF Open, TriageInv, TriageTypeOK
  <2>2. Select(id, Pushed(id), at + 1) \/ Select(id, Replaced(id), at)
    BY <1>2 DEF Open
  <2> QED
    BY <2>1, <2>2, EntriesAreListed, SelectStep
<1>3. ASSUME NEW delta \in {-1, 1}, Step(delta) PROVE TriageInv'
  <2> DEFINE id == OrderedIds[Place(selected) + delta]
  <2>1. id \in TriagedReports
    BY <1>3, TriageAssumption DEF Step, TriagedReports, ToSet
  <2>2. opens' \in 0 .. MaxOpens /\ Select(id, Replaced(id), at)
    BY <1>3 DEF Step, TriageInv, TriageTypeOK
  <2> HIDE DEF id
  <2> QED
    BY <2>1, <2>2, EntriesAreListed, SelectStep
<1>4. CASE Close \/ \E delta \in {-1, 1} : Navigate(delta)
  <2>1. traversals' \in Seq({-1, 1})
    <3>1. \E d \in {-1, 1} : traversals' = Append(traversals, d)
      BY <1>4 DEF Close, Navigate
    <3>2. traversals \in Seq({-1, 1})
      BY DEF TriageInv, TriageTypeOK
    <3> QED
      BY <3>1, <3>2
  <2>2. UNCHANGED <<selected, peek, loading, cache, inflight, awaiting, history, at,
                    dwell, hover, opens, fetches>>
    BY <1>4 DEF Close, Navigate
  <2> QED
    BY <1>1, <2>1, <2>2 DEF TriageInv, TriageTypeOK, PaneIsTheSelection, LastRequestIsLast
<1>5. CASE PopState
  BY <1>5, PopStateStep
<1>6. ASSUME NEW id \in TriagedReports, Answered(id) \/ FetchFails(id) PROVE TriageInv'
  BY <1>6, AnswerStep
<1>7. CASE CancelHover \/ \E id \in TriagedReports : OnListHover(id)
  <2>1. /\ hover' \in TriagedReports \cup {NoPane}
        /\ UNCHANGED <<selected, peek, loading, cache, inflight, awaiting, history, at,
                       traversals, dwell, opens, fetches>>
    BY <1>7 DEF CancelHover, OnListHover
  <2> QED
    BY <1>1, <2>1 DEF TriageInv, TriageTypeOK, PaneIsTheSelection, LastRequestIsLast
<1>8. CASE HoverFires
  <2>1. /\ hover' = NoPane /\ Request(Unfetched(hover)) /\ hover \in TriagedReports
        /\ UNCHANGED <<selected, peek, loading, cache, awaiting, history, at, traversals,
                       dwell, opens>>
    BY <1>8 DEF HoverFires, TriageInv, TriageTypeOK
  <2>2. inflight' = inflight \cup Unfetched(hover) /\ Unfetched(hover) \subseteq TriagedReports
    BY <2>1 DEF Request, Unfetched
  <2>3. fetches' \in Nat /\ fetches' <= MaxFetches
    BY <2>1, TriageBounds DEF Request, TriageInv, TriageTypeOK
  <2>4. LastRequestIsLast' /\ fetches' \in 0 .. (MaxFetches + 1)
    BY <2>3, TriageBounds DEF LastRequestIsLast
  <2>5. PaneIsTheSelection'
    BY <2>1, <2>2 DEF TriageInv, PaneIsTheSelection
  <2> QED
    BY <1>1, <2>1, <2>2, <2>4, <2>5 DEF TriageInv, TriageTypeOK
<1>9. CASE UNCHANGED triageVars
  BY <1>1, <1>9 DEF triageVars, TriageInv, TriageTypeOK, PaneIsTheSelection, LastRequestIsLast
<1> QED
  BY <1>2, <1>3, <1>4, <1>5, <1>6, <1>7, <1>8, <1>9 DEF TriageNext

\* Pane, cache, requests and history stay well typed.
THEOREM TriageTypes == TriageSpec => []TriageTypeOK
<1>1. TriageInv => TriageTypeOK
  BY DEF TriageInv
<1> QED
  BY <1>1, TriageInvInit, TriageInvNext, PTL DEF TriageSpec

\* For any list of reports and any number of requests, steps and presses of Back:
\* the detail, the reading time and the address are the selected report's, and a
\* "Loading..." has a request behind it that will end it (report-triage.tsx:82-237).
THEOREM TriagePaneIsTheSelection == TriageSpec => []PaneIsTheSelection
<1>1. TriageInv => PaneIsTheSelection
  BY DEF TriageInv
<1> QED
  BY <1>1, TriageInvInit, TriageInvNext, PTL DEF TriageSpec

-----------------------------------------------------------------------------
(* The moderators' queue.                                                  *)

AllActions == UNION {QueueActions(q) : q \in QueueIds}

\* A reason in the box was typed for the prompt that is open.
PromptIsReasoned ==
  prompt # NoPrompt =>
    /\ prompt \in [action : AllActions, ids : SUBSET Moderated, scope : {"row", "bulk"}]
    /\ prompt.ids # {}
    /\ RequiresReason(prompt.action)
    /\ reason # NoReason => reason.action = prompt.action /\ reason.about = prompt.ids

\* A call under way carries the reason its action needs, for all it has yet to do.
CallIsReasoned ==
  call # NoCall =>
    /\ call \in [action : AllActions, ids : SUBSET Moderated, rest : SUBSET Moderated,
                 done : SUBSET Moderated, reason : Reasons]
    /\ RequiresReason(call.action) =>
         /\ call.reason # NoReason
         /\ call.reason.action = call.action
         /\ call.rest \subseteq call.reason.about

ModQueueInv == QueueTypeOK /\ RemovalsAreJustified /\ PromptIsReasoned /\ CallIsReasoned

LEMMA QueueActionFacts ==
  /\ \A q \in QueueIds : QueueActions(q) \subseteq AllActions
  /\ \A a \in AllActions : RequiresReason(a) => a \in {"reject", "hide"}
BY DEF AllActions, RequiresReason

LEMMA NoReasonIsReason == NoReason \in Reasons
BY DEF Reasons

\* What a page lists is content.
LEMMA ListsAreContent ==
  ASSUME QueueTypeOK, NEW q \in QueueIds
  PROVE  LoadItems(q) \subseteq Moderated
BY DEF QueueTypeOK, QueueIds, LoadItems, ListHeldReports, ListContentFlags, ListSoftDeleted

LEMMA ModQueueInvInit == QueueInit => ModQueueInv
<1> SUFFICES ASSUME QueueInit PROVE ModQueueInv
  OBVIOUS
<1>1. QueueTypeOK
  <2>1. status \in [Moderated -> {"pending_moderation", "active", "hidden", "deleted", "rejected"}]
    BY DEF QueueInit
  <2>2. items \subseteq Moderated
    BY DEF QueueInit, ListHeldReports
  <2>3. visits \in 0 .. MaxVisits /\ others \in 0 .. MaxOthers
    BY QueueAssumption DEF QueueInit
  <2> QED
    BY <2>1, <2>2, <2>3, NoReasonIsReason DEF QueueInit, QueueTypeOK, QueueIds
<1>2. RemovalsAreJustified /\ PromptIsReasoned /\ CallIsReasoned
  BY DEF QueueInit, RemovalsAreJustified, PromptIsReasoned, CallIsReasoned
<1> QED
  BY <1>1, <1>2 DEF ModQueueInv

\* Whoever decides on a content, it stays content and is not hidden with an open flag.
LEMMA DecideStep ==
  ASSUME ModQueueInv, NEW a \in AllActions, NEW c \in Moderated, Decide(a, c)
  PROVE  /\ status' \in [Moderated -> {"pending_moderation", "active", "hidden", "deleted", "rejected"}]
         /\ flagged' \subseteq Moderated
         /\ \A d \in flagged' : status'[d] # "hidden"
<1> USE DEF ModQueueInv, QueueTypeOK, RemovalsAreJustified
<1>1. CASE \E s \in {"active", "rejected"} : status' = [status EXCEPT ![c] = s] /\ UNCHANGED flagged
  BY <1>1
<1>2. CASE HideFlagged(c)
  BY <1>2 DEF HideFlagged
<1>3. CASE DismissFlags(c)
  BY <1>3 DEF DismissFlags
<1> QED
  BY <1>1, <1>2, <1>3
  DEF Decide, ApproveHeldReport, RejectHeldReport, RestoreSoftDeleted

\* A step of everybody else: the screen and the log stay.
LEMMA OthersKeepReasons ==
  ASSUME ModQueueInv, UNCHANGED <<log, screenVars>>,
         status' \in [Moderated -> {"pending_moderation", "active", "hidden", "deleted", "rejected"}],
         flagged' \subseteq Moderated, purged' \subseteq Moderated, others' \in 0 .. MaxOthers,
         \A d \in flagged' : status'[d] # "hidden"
  PROVE  ModQueueInv'
<1>1. QueueTypeOK'
  BY DEF ModQueueInv, QueueTypeOK, screenVars
<1>2. RemovalsAreJustified'
  BY DEF ModQueueInv, RemovalsAreJustified
<1>3. PromptIsReasoned' /\ CallIsReasoned'
  BY DEF ModQueueInv, PromptIsReasoned, CallIsReasoned, screenVars
<1> QED
  BY <1>1, <1>2, <1>3 DEF ModQueueInv

\* A call begins: with the reason of its prompt, or with an action that needs none.
LEMMA FireStep ==
  ASSUME NEW a \in AllActions, NEW ids \in SUBSET Moderated, NEW why \in Reasons,
         Fire(a, ids, why),
         RequiresReason(a) => why # NoReason /\ why.action = a /\ why.about = ids
  PROVE  CallIsReasoned' /\ (call' = NoCall \/ call'.done \subseteq Moderated)
<1>1. call' = [action |-> a, ids |-> ids, rest |-> ids, done |-> {}, reason |-> why]
  BY DEF Fire
<1>2. call' \in [action : AllActions, ids : SUBSET Moderated, rest : SUBSET Moderated,
                 done : SUBSET Moderated, reason : Reasons]
  BY <1>1
<1>3. call'.action = a /\ call'.rest = ids /\ call'.done = {} /\ call'.reason = why
  BY <1>1
<1> QED
  BY <1>2, <1>3 DEF CallIsReasoned

LEMMA TriggerStep ==
  ASSUME ModQueueInv, NEW a \in QueueActions(queue), NEW ids \in SUBSET Moderated,
         NEW scope \in {"row", "bulk"}, Trigger(a, ids, scope)
  PROVE  ModQueueInv'
<1>1. a \in AllActions /\ ids # {}
  BY QueueActionFacts DEF ModQueueInv, QueueTypeOK, Trigger, Asked
<1>2. UNCHANGED <<contentVars, queue, items, filter, checked, visits>>
  BY DEF Trigger
<1>3. RemovalsAreJustified'
  BY <1>2 DEF ModQueueInv, RemovalsAreJustified, contentVars
<1>4. CASE RequiresReason(a)
  <2>1. /\ prompt' = [action |-> a, ids |-> ids, scope |-> scope]
        /\ reason' = NoReason /\ call' = call
    BY <1>4 DEF Trigger
  <2>2. /\ prompt' \in [action : AllActions, ids : SUBSET Moderated, scope : {"row", "bulk"}]
        /\ prompt'.action = a /\ prompt'.ids = ids
    BY <1>1, <2>1
  <2>3. PromptIsReasoned'
    BY <1>1, <1>4, <2>1, <2>2 DEF PromptIsReasoned
  <2>4. CallIsReasoned'
    BY <2>1 DEF ModQueueInv, CallIsReasoned
  <2>5. QueueTypeOK'
    BY <1>1, <1>2, <2>1, <2>2, NoReasonIsReason DEF ModQueueInv, QueueTypeOK, contentVars
  <2> QED
    BY <1>3, <2>3, <2>4, <2>5 DEF ModQueueInv
<1>5. CASE ~RequiresReason(a)
  <2>1. Fire(a, ids, NoReason) /\ UNCHANGED <<prompt, reason>>
    BY <1>5 DEF Trigger
  <2>2. CallIsReasoned' /\ (call' = NoCall \/ call'.done \subseteq Moderated)
    BY <1>1, <1>5, <2>1, NoReasonIsReason, FireStep
  <2>3. PromptIsReasoned'
    BY <2>1 DEF ModQueueInv, PromptIsReasoned
  <2>4. QueueTypeOK'
    BY <1>2, <2>1, <2>2 DEF ModQueueInv, QueueTypeOK, contentVars
  <2> QED
    BY <1>3, <2>2, <2>3, <2>4 DEF ModQueueInv
<1> QED
  BY <1>4, <1>5

\* The reason is typed under the prompt, for its action and its rows.
LEMMA TypeReasonStep ==
  ASSUME ModQueueInv, TypeReason
  PROVE  ModQueueInv'
<1>1. /\ prompt # NoPrompt /\ reason' = [action |-> prompt.action, about |-> prompt.ids]
      /\ UNCHANGED <<contentVars, queue, items, filter, checked, prompt, call, visits>>
  BY DEF TypeReason, ReasonPrompt
<1>2. prompt.action \in {"reject", "hide"} /\ prompt.ids \in SUBSET Moderated
  BY <1>1, QueueActionFacts DEF ModQueueInv, PromptIsReasoned
<1>3. reason' \in [action : {"reject", "hide"}, about : SUBSET Moderated]
      /\ reason'.action = prompt.action /\ reason'.about = prompt.ids
  BY <1>1, <1>2
<1>4. reason' \in Reasons
  BY <1>3 DEF Reasons
<1>5. QueueTypeOK'
  BY <1>1, <1>4 DEF ModQueueInv, QueueTypeOK, contentVars
<1>6. RemovalsAreJustified' /\ CallIsReasoned'
  BY <1>1 DEF ModQueueInv, RemovalsAreJustified, CallIsReasoned, contentVars
<1>7. PromptIsReasoned'
  BY <1>1, <1>3 DEF ModQueueInv, PromptIsReasoned
<1> QED
  BY <1>5, <1>6, <1>7 DEF ModQueueInv

LEMMA ConfirmStep ==
  ASSUME ModQueueInv, Confirm
  PROVE  ModQueueInv'
<1>1. /\ prompt # NoPrompt /\ reason # NoReason /\ Fire(prompt.action, prompt.ids, reason)
      /\ UNCHANGED <<contentVars, queue, items, filter, checked, prompt, reason, visits>>
  BY DEF Confirm, ReasonPrompt
<1>2. /\ prompt.action \in AllActions /\ prompt.ids \in SUBSET Moderated /\ reason \in Reasons
      /\ reason.action = prompt.action /\ reason.about = prompt.ids
  BY <1>1 DEF ModQueueInv, QueueTypeOK, PromptIsReasoned
<1>3. CallIsReasoned' /\ (call' = NoCall \/ call'.done \subseteq Moderated)
  BY <1>1, <1>2, FireStep
<1>4. QueueTypeOK'
  BY <1>1, <1>3 DEF ModQueueInv, QueueTypeOK, contentVars
<1>5. RemovalsAreJustified' /\ PromptIsReasoned'
  BY <1>1 DEF ModQueueInv, RemovalsAreJustified, PromptIsReasoned, contentVars
<1> QED
  BY <1>3, <1>4, <1>5 DEF ModQueueInv

\* One command of a call, with its entry in the log.
LEMMA RunCommandStep ==
  ASSUME ModQueueInv, NEW c \in Moderated, RunCommand(c)
  PROVE  ModQueueInv'
<1> DEFINE Records == [action : AllActions, ids : SUBSET Moderated, rest : SUBSET Moderated,
                       done : SUBSET Moderated, reason : Reasons]
           a == call.action
<1>1. /\ call # NoCall /\ c \in call.rest
      /\ UNCHANGED <<queue, items, filter, checked, prompt, reason, visits, purged, others>>
  BY DEF RunCommand, contentVars
<1>2. call \in Records /\ a \in AllActions
  BY <1>1 DEF ModQueueInv, CallIsReasoned
<1>3. \/ /\ Decide(a, c)
         /\ IF a = "dismiss" THEN UNCHANGED log ELSE LogModAction(a, c, call.reason)
         /\ call' = [call EXCEPT !.rest = @ \ {c}, !.done = @ \cup {c}]
      \/ /\ call' = [call EXCEPT !.rest = @ \ {c}]
         /\ UNCHANGED contentVars
  BY DEF RunCommand
<1>4. /\ call' \in Records /\ call'.action = a /\ call'.reason = call.reason
      /\ call'.rest = call.rest \ {c} /\ call'.done \subseteq Moderated
  <2>1. c \in Moderated
    BY <1>1, <1>2
  <2>2. CASE call' = [call EXCEPT !.rest = @ \ {c}, !.done = @ \cup {c}]
    BY <1>2, <2>1, <2>2
  <2>3. CASE call' = [call EXCEPT !.rest = @ \ {c}]
    BY <1>2, <2>3
  <2> QED
    BY <1>3, <2>2, <2>3, Zenon
<1>5. CallIsReasoned'
  BY <1>1, <1>4 DEF ModQueueInv, CallIsReasoned
<1>6. PromptIsReasoned'
  BY <1>1 DEF ModQueueInv, PromptIsReasoned
<1>7. /\ status' \in [Moderated -> {"pending_moderation", "active", "hidden", "deleted", "rejected"}]
      /\ flagged' \subseteq Moderated
      /\ \A d \in flagged' : status'[d] # "hidden"
  <2>1. CASE Decide(a, c)
    BY <1>2, <2>1, DecideStep
  <2>2. CASE UNCHANGED contentVars
    BY <2>2 DEF contentVars, ModQueueInv, QueueTypeOK, RemovalsAreJustified
  <2> QED
    BY <1>3, <2>1, <2>2
<1>8. PICK why \in Reasons :
        /\ RequiresReason(a) => why = call.reason
        /\ log' \in {log, log \cup {[action |-> a, target |-> c, reason |-> why]}}
  <2>1. CASE UNCHANGED log
    BY <1>2, <2>1
  <2>2. CASE LogModAction(a, c, call.reason)
    <3>1. CASE RequiresReason(a)
      BY <1>2, <2>2, <3>1 DEF LogModAction
    <3>2. CASE ~RequiresReason(a)
      BY <2>2, <3>2, NoReasonIsReason DEF LogModAction
    <3> QED
      BY <3>1, <3>2
  <2> QED
    BY <1>3, <2>1, <2>2 DEF contentVars
<1>9. log' \subseteq [action : AllActions, target : Moderated, reason : Reasons]
  BY <1>2, <1>8 DEF ModQueueInv, QueueTypeOK, AllActions
<1>10. ASSUME NEW e \in log', RequiresReason(e.action)
       PROVE  e.reason # NoReason /\ e.reason.action = e.action /\ e.target \in e.reason.about
  <2>1. CASE e \in log
    BY <1>10, <2>1 DEF ModQueueInv, RemovalsAreJustified
  <2>2. CASE e = [action |-> a, target |-> c, reason |-> why]
    <3>1. e.action = a /\ e.target = c /\ e.reason = why
      BY <2>2
    <3>2. why = call.reason
      BY <1>8, <1>10, <3>1
    <3> QED
      BY <1>1, <1>10, <3>1, <3>2 DEF ModQueueInv, CallIsReasoned
  <2> QED
    BY <1>8, <2>1, <2>2
<1>11. RemovalsAreJustified'
  BY <1>7, <1>10 DEF RemovalsAreJustified
<1>12. QueueTypeOK'
  BY <1>1, <1>4, <1>7, <1>9 DEF ModQueueInv, QueueTypeOK, AllActions
<1> QED
  BY <1>5, <1>6, <1>11, <1>12 DEF ModQueueInv

LEMMA ModQueueInvNext == ModQueueInv /\ [QueueNext]_queueVars => ModQueueInv'
<1> SUFFICES ASSUME ModQueueInv, [QueueNext]_queueVars PROVE ModQueueInv'
  OBVIOUS
<1>1. ASSUME NEW q \in QueueIds, QueuePage(q) PROVE ModQueueInv'
  <2>1. /\ queue' = q /\ items' = LoadItems(q) /\ visits' = visits + 1 /\ visits < MaxVisits
        /\ filter' \in Filters /\ checked' = {} /\ prompt' = NoPrompt /\ reason' = NoReason
        /\ UNCHANGED <<contentVars, call>>
    BY <1>1 DEF QueuePage
  <2>2. visits' \in 0 .. MaxVisits
    BY <2>1, QueueAssumption DEF ModQueueInv, QueueTypeOK
  <2>3. items' \subseteq Moderated
    BY <2>1, ListsAreContent DEF ModQueueInv
  <2>4. QueueTypeOK'
    BY <2>1, <2>2, <2>3, NoReasonIsReason DEF ModQueueInv, QueueTypeOK, contentVars
  <2>5. RemovalsAreJustified' /\ PromptIsReasoned' /\ CallIsReasoned'
    BY <2>1 DEF ModQueueInv, RemovalsAreJustified, PromptIsReasoned, CallIsReasoned, contentVars
  <2> QED
    BY <2>4, <2>5 DEF ModQueueInv
<1>2. CASE (\E f \in Filters : SetFilter(f)) \/ (\E c \in Moderated : Toggle(c)) \/ ToggleAll
  <2>1. /\ filter' \in Filters /\ checked' \subseteq Moderated
        /\ UNCHANGED <<contentVars, queue, items, prompt, reason, call, visits>>
    BY <1>2 DEF SetFilter, Toggle, ToggleAll, Filtered, ModQueueInv, QueueTypeOK
  <2> QED
    BY <2>1 DEF ModQueueInv, QueueTypeOK, RemovalsAreJustified, PromptIsReasoned, CallIsReasoned,
                contentVars
<1>3. CASE \E a \in QueueActions(queue), ids \in SUBSET Moderated, s \in {"row", "bulk"} :
             Trigger(a, ids, s)
  BY <1>3, TriggerStep
<1>4. CASE TypeReason
  BY <1>4, TypeReasonStep
<1>5. CASE Cancel
  BY <1>5
  DEF Cancel, ModQueueInv, QueueTypeOK, RemovalsAreJustified, PromptIsReasoned, CallIsReasoned,
      contentVars
<1>6. CASE Confirm
  BY <1>6, ConfirmStep
<1>7. CASE \E c \in Moderated : RunCommand(c)
  BY <1>7, RunCommandStep
<1>8. CASE CommandThrows
  BY <1>8
  DEF CommandThrows, ModQueueInv, QueueTypeOK, RemovalsAreJustified, PromptIsReasoned,
      CallIsReasoned, contentVars
<1>9. CASE Processed
  <2>1. /\ call' = NoCall /\ prompt' = NoPrompt /\ items' \subseteq items /\ checked' \subseteq checked
        /\ UNCHANGED <<contentVars, queue, filter, reason, visits>>
    BY <1>9 DEF Processed
  <2> QED
    BY <2>1
    DEF ModQueueInv, QueueTypeOK, RemovalsAreJustified, PromptIsReasoned, CallIsReasoned, contentVars
<1>10. ASSUME NEW q \in QueueIds, NEW c \in Moderated, NEW a \in QueueActions(q),
              OtherModerator(a, c)
       PROVE  ModQueueInv'
  <2>1. /\ Decide(a, c) /\ others' = others + 1 /\ others < MaxOthers
        /\ UNCHANGED <<log, purged, screenVars>>
    BY <1>10 DEF OtherModerator, OthersStep
  <2>2. a \in AllActions
    BY QueueActionFacts
  <2>3. others' \in 0 .. MaxOthers /\ purged' \subseteq Moderated
    BY <2>1, QueueAssumption DEF ModQueueInv, QueueTypeOK
  <2> QED
    BY <2>1, <2>2, <2>3, DecideStep, OthersKeepReasons
<1>11. ASSUME NEW c \in Moderated, ReaderFlags(c) \/ AuthorDeletes(c) \/ PurgePii(c)
       PROVE  ModQueueInv'
  <2>1. others' = others + 1 /\ others < MaxOthers /\ UNCHANGED <<log, screenVars>>
    BY <1>11 DEF ReaderFlags, AuthorDeletes, PurgePii, OthersStep
  <2>2. others' \in 0 .. MaxOthers
    BY <2>1, QueueAssumption DEF ModQueueInv, QueueTypeOK
  <2>3. /\ status' \in [Moderated -> {"pending_moderation", "active", "hidden", "deleted", "rejected"}]
        /\ flagged' \subseteq Moderated /\ purged' \subseteq Moderated
        /\ \A d \in flagged' : status'[d] # "hidden"
    BY <1>11 DEF ReaderFlags, AuthorDeletes, PurgePii, ModQueueInv, QueueTypeOK, RemovalsAreJustified
  <2> QED
    BY <2>1, <2>2, <2>3, OthersKeepReasons
<1>12. CASE UNCHANGED queueVars
  BY <1>12
  DEF queueVars, contentVars, screenVars, ModQueueInv, QueueTypeOK, RemovalsAreJustified,
      PromptIsReasoned, CallIsReasoned
<1> QED
  BY <1>1, <1>2, <1>3, <1>4, <1>5, <1>6, <1>7, <1>8, <1>9, <1>10, <1>11, <1>12 DEF QueueNext

\* Content, log and screen stay well typed.
THEOREM QueueTypes == QueueSpec => []QueueTypeOK
<1>1. ModQueueInv => QueueTypeOK
  BY DEF ModQueueInv
<1> QED
  BY <1>1, ModQueueInvInit, ModQueueInvNext, PTL DEF QueueSpec

\* For any contents and filters, with prompts cancelled and reopened, batches that
\* stop half way and others at work on the same rows: each removal in the audit
\* log has the reason typed for it, and hidden content has no open flag.
THEOREM QueueRemovalsAreJustified == QueueSpec => []RemovalsAreJustified
<1>1. ModQueueInv => RemovalsAreJustified
  BY DEF ModQueueInv
<1> QED
  BY <1>1, ModQueueInvInit, ModQueueInvNext, PTL DEF QueueSpec

-----------------------------------------------------------------------------
(* The rounds editor.                                                      *)

TopicRows == TopicIds \cup {TopicNamed[n] : n \in Names}
TopicsIn(tags) == ToSet(ResolveTopicIds(tags))
Reopened(topics) == [j \in DOMAIN SetToSeq(topics) |-> Existing(SetToSeq(topics)[j])]

LEMMA TagFacts ==
  /\ \A r \in TopicRows : Existing(r) \in Tags /\ Existing(r).kind = "existing" /\ Existing(r).tag = r
  /\ \A n \in Names : Suggested(n) \in Tags
  /\ \A t \in Tags : (IF t.kind = "existing" THEN t.tag ELSE TopicNamed[t.tag]) \in TopicRows
<1>1. \A r : Existing(r).kind = "existing" /\ Existing(r).tag = r
  BY DEF Existing
<1>2. \A n : Suggested(n).kind = "suggested" /\ Suggested(n).tag = n
  BY DEF Suggested
<1> QED
  BY <1>1, <1>2 DEF Tags, TopicRows

\* The topics of a question are finitely many rows, and one at least if it has a tag.
LEMMA TopicsAreRows ==
  ASSUME NEW tags \in Seq(Tags)
  PROVE  /\ IsFiniteSet(TopicsIn(tags)) /\ TopicsIn(tags) \subseteq TopicRows
         /\ tags # << >> => TopicsIn(tags) # {}
<1> DEFINE f == ResolveTopicIds(tags)
           n == Len(tags)
<1>1. n \in Nat /\ DOMAIN tags = 1 .. n /\ \A k \in 1 .. n : tags[k] \in Tags
  OBVIOUS
<1>2. DOMAIN f = 1 .. n
  BY <1>1 DEF ResolveTopicIds
<1>3. \A k \in 1 .. n : f[k] \in TopicRows
  BY <1>1, TagFacts DEF ResolveTopicIds
<1>4. TopicsIn(tags) = {f[k] : k \in 1 .. n}
  BY <1>2 DEF TopicsIn, ToSet
<1>5. f \in Surjection(1 .. n, {f[k] : k \in 1 .. n})
  <2>1. f = [k \in 1 .. n |-> f[k]]
    BY <1>1 DEF ResolveTopicIds
  <2> HIDE DEF f
  <2> QED
    BY <2>1 DEF Surjection
<1>6. IsFiniteSet(1 .. n)
  BY <1>1, FS_Interval
<1>7. IsFiniteSet(TopicsIn(tags))
  <2> HIDE DEF f
  <2> QED
    BY <1>4, <1>5, <1>6, FS_Surjection
<1>8. tags # << >> => 1 \in 1 .. n
  BY <1>1
<1> QED
  BY <1>3, <1>4, <1>7, <1>8

\* A set of topics reopened as tags: the same topics, each once, and all of them count.
LEMMA ReopenedTags ==
  ASSUME NEW topics \in SUBSET TopicRows, IsFiniteSet(topics)
  PROVE  /\ Reopened(topics) \in Seq(Tags) /\ IsInjective(Reopened(topics))
         /\ TopicsIn(Reopened(topics)) = topics
         /\ topics # {} => ~ ActiveTagCount(Reopened(topics)) < 1
<1> DEFINE s == SetToSeq(topics)
           n == Cardinality(topics)
           tags == Reopened(topics)
<1>1. /\ s \in Seq(topics) /\ DOMAIN s = 1 .. n /\ n \in Nat
      /\ IsInjective(s) /\ ToSet(s) = topics
  BY SeqOfSet, FS_CardinalityType
<1>2. tags = [j \in 1 .. n |-> Existing(s[j])]
  BY <1>1 DEF Reopened
<1> HIDE DEF s, n, tags
<1>3. \A j \in 1 .. n : s[j] \in TopicRows
  BY <1>1
<1>4. \A j \in 1 .. n : tags[j] \in Tags /\ tags[j].kind = "existing" /\ tags[j].tag = s[j]
  BY <1>2, <1>3, TagFacts
<1>5. DOMAIN tags = 1 .. n /\ tags \in Seq(Tags)
  BY <1>1, <1>2, <1>4
<1>6. IsInjective(tags)
  BY <1>1, <1>4, <1>5 DEF IsInjective
<1>7. ResolveTopicIds(tags) = [j \in 1 .. n |-> s[j]]
  BY <1>4, <1>5 DEF ResolveTopicIds
<1>8. TopicsIn(tags) = topics
  BY <1>1, <1>7 DEF TopicsIn, ToSet
<1>9. ActiveTagCount(tags) = n
  <2>1. {j \in DOMAIN tags : tags[j].kind = "existing"} = 1 .. n
    BY <1>4, <1>5
  <2>2. Cardinality(1 .. n) = n
    BY <1>1, FS_Interval
  <2> QED
    BY <2>1, <2>2 DEF ActiveTagCount
<1>10. topics # {} => n # 0
  BY FS_EmptySet DEF n
<1> QED
  BY <1>1, <1>5, <1>6, <1>8, <1>9, <1>10 DEF tags

\* The report made of a draft, round by round.
LEMMA ReportOfDraft ==
  ASSUME NEW ds
  PROVE  Report(ds) =
           [i \in DOMAIN ds |->
             [roundType |-> ds[i].roundType, rating |-> ds[i].rating,
              experience |-> IF Trim[OrEmpty(ds[i].experience)] = "" THEN Null
                             ELSE Trim[ds[i].experience],
              questions |-> [k \in DOMAIN ds[i].questions |->
                [prose |-> Trim[ds[i].questions[k].prose],
                 topics |-> TopicsIn(ds[i].questions[k].tags)]]]]
<1> DEFINE F == FinalRounds(ds)
           Exp(i) == IF Trim[OrEmpty(ds[i].experience)] = "" THEN Null
                     ELSE Trim[ds[i].experience]
           Asking(i) == [k \in DOMAIN ds[i].questions |->
                          [prose |-> Trim[ds[i].questions[k].prose],
                           tags |-> ds[i].questions[k].tags]]
           Rows(i) == [k \in DOMAIN ds[i].questions |->
                        [prose |-> Trim[ds[i].questions[k].prose],
                         topics |-> TopicsIn(ds[i].questions[k].tags)]]
<1>1. F = [i \in DOMAIN ds |->
            [roundType |-> ds[i].roundType, rating |-> ds[i].rating,
             experience |-> Exp(i), questions |-> Asking(i)]]
  BY DEF FinalRounds
<1>2. Report(ds) = [i \in DOMAIN F |->
         [F[i] EXCEPT !.questions = [k \in DOMAIN F[i].questions |->
           [prose |-> F[i].questions[k].prose,
            topics |-> ToSet(ResolveTopicIds(F[i].questions[k].tags))]]]]
  BY DEF Report, ResolveWriteInput
<1> HIDE DEF F, Exp
<1>3. DOMAIN F = DOMAIN ds
  BY <1>1
<1>4. \A i \in DOMAIN ds :
        [k \in DOMAIN F[i].questions |->
           [prose |-> F[i].questions[k].prose,
            topics |-> ToSet(ResolveTopicIds(F[i].questions[k].tags))]] = Rows(i)
  BY <1>1 DEF TopicsIn
<1>5. \A i \in DOMAIN ds :
        [F[i] EXCEPT !.questions = Rows(i)] =
          [roundType |-> ds[i].roundType, rating |-> ds[i].rating,
           experience |-> Exp(i), questions |-> Rows(i)]
  <2> HIDE DEF Rows, Asking
  <2> QED
    BY <1>1
<1>6. Report(ds) = [i \in DOMAIN ds |->
         [roundType |-> ds[i].roundType, rating |-> ds[i].rating,
          experience |-> Exp(i), questions |-> Rows(i)]]
  <2> HIDE DEF Rows
  <2> QED
    BY <1>2, <1>3, <1>4, <1>5
<1> QED
  BY <1>6, Zenon DEF Exp

\* The draft a report is reopened as.
LEMMA DraftOfReport ==
  ASSUME NEW report
  PROVE  ReportDetailToDraft(report) =
           [i \in DOMAIN report |->
             [report[i] EXCEPT !.questions = [k \in DOMAIN report[i].questions |->
               [prose |-> report[i].questions[k].prose,
                tags |-> Reopened(report[i].questions[k].topics)]]]]
BY DEF ReportDetailToDraft, Reopened

\* What an edit begins with, when nothing has been changed yet.
AgainOf(rs) ==
  ToDraftRounds(FromDraftRounds(ReportDetailToDraft(Report(ToDraftRounds(rs)))))

Trimmed(text) == IF Trim[text] = "" THEN "" ELSE Trim[text]

LEMMA AgainIs ==
  ASSUME NEW rs \in Seq(Round)
  PROVE  AgainOf(rs) =
           [i \in DOMAIN rs |->
             [roundType |-> rs[i].roundType, rating |-> rs[i].rating,
              experience |-> Trimmed(rs[i].experience),
              questions |-> [k \in DOMAIN rs[i].questions |->
                [prose |-> Trim[rs[i].questions[k].prose],
                 tags |-> Reopened(TopicsIn(rs[i].questions[k].tags))]]]]
<1> DEFINE D == ToDraftRounds(rs)
           R == Report(D)
           W == ReportDetailToDraft(R)
           Named(i) == [k \in DOMAIN rs[i].questions |->
                         [prose |-> Trim[rs[i].questions[k].prose],
                          topics |-> TopicsIn(rs[i].questions[k].tags)]]
           Back(i) == [k \in DOMAIN rs[i].questions |->
                        [prose |-> Trim[rs[i].questions[k].prose],
                         tags |-> Reopened(TopicsIn(rs[i].questions[k].tags))]]
           Exp(i) == IF Trim[rs[i].experience] = "" THEN Null ELSE Trim[rs[i].experience]
<1>1. \A i \in DOMAIN rs : rs[i].experience \in Texts
  <2>1. \A i \in DOMAIN rs : rs[i] \in Round
    OBVIOUS
  <2> QED
    BY <2>1 DEF Round
<1>2. \A i \in DOMAIN rs : OrEmpty(rs[i].experience) = rs[i].experience
  BY <1>1, TextsAssumption, Zenon DEF OrEmpty
<1>3. D = [i \in DOMAIN rs |->
            [roundType |-> rs[i].roundType, rating |-> rs[i].rating,
             experience |-> rs[i].experience, questions |-> rs[i].questions]]
  BY DEF ToDraftRounds
<1>4. R = [i \in DOMAIN rs |->
            [roundType |-> rs[i].roundType, rating |-> rs[i].rating,
             experience |-> Exp(i), questions |-> Named(i)]]
  <2> HIDE DEF D
  <2>1. DOMAIN D = DOMAIN rs
    BY <1>3
  <2>2. \A i \in DOMAIN rs :
          /\ D[i].roundType = rs[i].roundType /\ D[i].rating = rs[i].rating
          /\ D[i].experience = rs[i].experience /\ D[i].questions = rs[i].questions
    BY <1>3
  <2>3. R = [i \in DOMAIN D |->
             [roundType |-> D[i].roundType, rating |-> D[i].rating,
              experience |-> IF Trim[OrEmpty(D[i].experience)] = "" THEN Null
                             ELSE Trim[D[i].experience],
              questions |-> [k \in DOMAIN D[i].questions |->
                [prose |-> Trim[D[i].questions[k].prose],
                 topics |-> TopicsIn(D[i].questions[k].tags)]]]]
    BY ReportOfDraft, Zenon
  <2>4. \A i \in DOMAIN rs :
          /\ [k \in DOMAIN D[i].questions |->
                [prose |-> Trim[D[i].questions[k].prose],
                 topics |-> TopicsIn(D[i].questions[k].tags)]] = Named(i)
          /\ (IF Trim[OrEmpty(D[i].experience)] = "" THEN Null ELSE Trim[D[i].experience]) = Exp(i)
    BY <1>2, <2>2, Zenon
  <2> HIDE DEF R, Named, Exp
  <2> QED
    BY <2>1, <2>2, <2>3, <2>4, Zenon
<1> HIDE DEF D, R
<1>5. DOMAIN R = DOMAIN rs
  BY <1>4, Zenon
<1>6. \A i \in DOMAIN rs :
        [R[i] EXCEPT !.questions = Back(i)] =
          [roundType |-> rs[i].roundType, rating |-> rs[i].rating,
           experience |-> Exp(i), questions |-> Back(i)]
  <2> HIDE DEF Back, Named, Exp
  <2> QED
    BY <1>4
<1>7. W = [i \in DOMAIN rs |->
            [roundType |-> rs[i].roundType, rating |-> rs[i].rating,
             experience |-> Exp(i), questions |-> Back(i)]]
  <2>1. \A i \in DOMAIN rs :
          [k \in DOMAIN R[i].questions |->
            [prose |-> R[i].questions[k].prose, tags |-> Reopened(R[i].questions[k].topics)]]
          = Back(i)
    BY <1>4, Zenon
  <2>2. W = [i \in DOMAIN R |->
              [R[i] EXCEPT !.questions = [k \in DOMAIN R[i].questions |->
                [prose |-> R[i].questions[k].prose,
                 tags |-> Reopened(R[i].questions[k].topics)]]]]
    BY DraftOfReport
  <2> HIDE DEF W, Back, Exp
  <2> QED
    BY <1>5, <1>6, <2>1, <2>2
<1> HIDE DEF W
<1>8. \A i \in DOMAIN rs : OrEmpty(Exp(i)) = Trimmed(rs[i].experience)
  BY <1>1, TextsAssumption, Zenon DEF OrEmpty, Trimmed
<1>9. DOMAIN W = DOMAIN rs /\ DOMAIN FromDraftRounds(W) = DOMAIN rs
  BY <1>7, Zenon DEF FromDraftRounds
<1>10. \A i \in DOMAIN rs :
         /\ FromDraftRounds(W)[i].roundType = rs[i].roundType
         /\ FromDraftRounds(W)[i].rating = rs[i].rating
         /\ FromDraftRounds(W)[i].experience = Trimmed(rs[i].experience)
         /\ FromDraftRounds(W)[i].questions = Back(i)
  <2> HIDE DEF Back, Exp
  <2> QED
    BY <1>7, <1>8, <1>9 DEF FromDraftRounds
<1>11. AgainOf(rs) = ToDraftRounds(FromDraftRounds(W))
  BY DEF AgainOf, W, R, D
<1> QED
  BY <1>9, <1>10, <1>11 DEF ToDraftRounds

\* The texts that are scanned are the experiences and the proses, whatever the tags.
LEMMA SameTextsScanned ==
  ASSUME NEW f, NEW g, DOMAIN f = DOMAIN g,
         \A i \in DOMAIN g :
           /\ f[i].experience = g[i].experience
           /\ DOMAIN f[i].questions = DOMAIN g[i].questions
           /\ \A k \in DOMAIN g[i].questions : f[i].questions[k].prose = g[i].questions[k].prose
  PROVE  SubmissionTexts(f) = SubmissionTexts(g)
BY DEF SubmissionTexts

\* The gate, without the issues it reports.
LEMMA GateIs ==
  ASSUME NEW ds
  PROVE  ValidateFinalSubmission(ds) <=>
           \A i \in DOMAIN ds :
             /\ ds[i].roundType # Null /\ ds[i].rating # Null
             /\ \A k \in DOMAIN ds[i].questions :
                  /\ Trim[ds[i].questions[k].prose] # ""
                  /\ ~ ActiveTagCount(ds[i].questions[k].tags) < 1
<1>1. ASSUME NEW d
      PROVE  /\ RoundIssues(d).roundType = (d.roundType = Null)
             /\ RoundIssues(d).rating = (d.rating = Null)
             /\ DOMAIN RoundIssues(d).questions = DOMAIN d.questions
             /\ \A k \in DOMAIN d.questions :
                  /\ RoundIssues(d).questions[k].prose = (Trim[d.questions[k].prose] = "")
                  /\ RoundIssues(d).questions[k].tags = (ActiveTagCount(d.questions[k].tags) < 1)
  BY Zenon DEF RoundIssues
<1>2. ASSUME NEW d
      PROVE  (/\ ~RoundIssues(d).roundType /\ ~RoundIssues(d).rating
              /\ \A k \in DOMAIN RoundIssues(d).questions :
                   ~RoundIssues(d).questions[k].prose /\ ~RoundIssues(d).questions[k].tags)
             <=> (/\ d.roundType # Null /\ d.rating # Null
                  /\ \A k \in DOMAIN d.questions :
                       /\ Trim[d.questions[k].prose] # ""
                       /\ ~ ActiveTagCount(d.questions[k].tags) < 1)
  BY <1>1, Zenon
<1> QED
  BY <1>2, Zenon DEF ValidateFinalSubmission

\* For rounds as the editor holds them, an edit that changes nothing finalizes to the
\* report it came from.
LEMMA TypedRoundsKeepReport ==
  ASSUME rounds \in Seq(Round)
  PROVE  EditKeepsReport
<1> DEFINE ds == ToDraftRounds(rounds)
           again == AgainOf(rounds)
<1> SUFFICES ASSUME CanFinalize(ds)
             PROVE  CanFinalize(again) /\ Report(again) = Report(ds)
  BY DEF EditKeepsReport, AgainOf
<1>1. /\ DOMAIN ds = DOMAIN rounds
      /\ \A i \in DOMAIN rounds :
           /\ ds[i].roundType = rounds[i].roundType /\ ds[i].rating = rounds[i].rating
           /\ ds[i].experience = rounds[i].experience /\ ds[i].questions = rounds[i].questions
  BY DEF ToDraftRounds
<1>2. /\ DOMAIN again = DOMAIN rounds
      /\ \A i \in DOMAIN rounds :
           /\ again[i].roundType = rounds[i].roundType /\ again[i].rating = rounds[i].rating
           /\ again[i].experience = Trimmed(rounds[i].experience)
           /\ DOMAIN again[i].questions = DOMAIN rounds[i].questions
           /\ \A k \in DOMAIN rounds[i].questions :
                /\ again[i].questions[k].prose = Trim[rounds[i].questions[k].prose]
                /\ again[i].questions[k].tags = Reopened(TopicsIn(rounds[i].questions[k].tags))
  BY AgainIs
<1> HIDE DEF ds, again
<1>3. \A i \in DOMAIN rounds :
        /\ rounds[i].experience \in Texts
        /\ \A k \in DOMAIN rounds[i].questions :
             rounds[i].questions[k].prose \in Texts /\ rounds[i].questions[k].tags \in Seq(Tags)
  <2> SUFFICES ASSUME NEW i \in DOMAIN rounds
               PROVE  /\ rounds[i].experience \in Texts
                      /\ \A k \in DOMAIN rounds[i].questions :
                           /\ rounds[i].questions[k].prose \in Texts
                           /\ rounds[i].questions[k].tags \in Seq(Tags)
    OBVIOUS
  <2>1. rounds[i] \in Round
    OBVIOUS
  <2>2. rounds[i].experience \in Texts /\ rounds[i].questions \in Seq(Question)
    BY <2>1 DEF Round
  <2>3. \A k \in DOMAIN rounds[i].questions : rounds[i].questions[k] \in Question
    BY <2>2
  <2> QED
    BY <2>2, <2>3 DEF Question
<1>4. \A t \in Texts :
        /\ OrEmpty(t) = t /\ Trim[t] \in Texts
        /\ Trim[Trim[t]] = Trim[t]
        /\ OrEmpty(Trimmed(t)) = Trimmed(t)
        /\ Trim[Trimmed(t)] = Trimmed(t) /\ (Trimmed(t) = "" <=> Trim[t] = "")
        /\ Trim[t] # "" => Trimmed(t) = Trim[t]
  BY TextsAssumption, Zenon DEF OrEmpty, Trimmed
<1>5. \A i \in DOMAIN rounds : \A k \in DOMAIN rounds[i].questions :
        LET topics == TopicsIn(rounds[i].questions[k].tags) IN
        /\ IsFiniteSet(topics) /\ topics \in SUBSET TopicRows
        /\ TopicsIn(Reopened(topics)) = topics
        /\ rounds[i].questions[k].tags # << >> => ~ ActiveTagCount(Reopened(topics)) < 1
  BY <1>3, TopicsAreRows, ReopenedTags
\* Trimming again changes nothing.
<1>9. ASSUME NEW i \in DOMAIN rounds
      PROVE  /\ (Trim[OrEmpty(again[i].experience)] = "") <=> (Trim[OrEmpty(rounds[i].experience)] = "")
             /\ Trim[OrEmpty(rounds[i].experience)] # "" =>
                  Trim[again[i].experience] = Trim[rounds[i].experience]
  <2> DEFINE e == rounds[i].experience
  <2>1. e \in Texts /\ again[i].experience = Trimmed(e)
    BY <1>2, <1>3
  <2>2. OrEmpty(e) = e /\ OrEmpty(Trimmed(e)) = Trimmed(e) /\ Trim[Trimmed(e)] = Trimmed(e)
        /\ (Trimmed(e) = "" <=> Trim[e] = "") /\ (Trim[e] # "" => Trimmed(e) = Trim[e])
    BY <1>4, <2>1, Zenon
  <2> HIDE DEF e
  <2>3. (Trim[OrEmpty(again[i].experience)] = "") <=> (Trim[OrEmpty(e)] = "")
    BY <2>1, <2>2, Zenon
  <2>4. Trim[OrEmpty(e)] # "" => Trim[again[i].experience] = Trim[e]
    BY <2>1, <2>2, Zenon
  <2> QED
    BY <2>3, <2>4, Zenon DEF e
<1>10. ASSUME NEW i \in DOMAIN rounds, NEW k \in DOMAIN rounds[i].questions
       PROVE  /\ Trim[again[i].questions[k].prose] = Trim[rounds[i].questions[k].prose]
              /\ TopicsIn(again[i].questions[k].tags) = TopicsIn(rounds[i].questions[k].tags)
              /\ rounds[i].questions[k].tags # << >> =>
                   ~ ActiveTagCount(again[i].questions[k].tags) < 1
  <2>1. rounds[i].questions[k].prose \in Texts /\ rounds[i].questions[k].tags \in Seq(Tags)
    BY <1>3
  <2>2. /\ again[i].questions[k].prose = Trim[rounds[i].questions[k].prose]
        /\ again[i].questions[k].tags = Reopened(TopicsIn(rounds[i].questions[k].tags))
    BY <1>2
  <2>3. Trim[Trim[rounds[i].questions[k].prose]] = Trim[rounds[i].questions[k].prose]
    BY <2>1, <1>4, Zenon
  <2> QED
    BY <1>5, <2>2, <2>3
<1>6. Report(again) = Report(ds)
  <2> DEFINE Row(e, r) ==
        [roundType |-> e.roundType, rating |-> e.rating,
         experience |-> IF Trim[OrEmpty(e.experience)] = "" THEN Null ELSE Trim[e.experience],
         questions |-> r]
             Rows(e) == [k \in DOMAIN e.questions |->
               [prose |-> Trim[e.questions[k].prose], topics |-> TopicsIn(e.questions[k].tags)]]
  <2>1. /\ Report(again) = [i \in DOMAIN again |-> Row(again[i], Rows(again[i]))]
        /\ Report(ds) = [i \in DOMAIN ds |-> Row(ds[i], Rows(ds[i]))]
    BY ReportOfDraft, Zenon
  <2>2. \A i \in DOMAIN rounds : Rows(again[i]) = Rows(ds[i])
    BY <1>1, <1>2, <1>10
  <2>3. ASSUME NEW i \in DOMAIN rounds, NEW r PROVE Row(again[i], r) = Row(ds[i], r)
    BY <1>1, <1>2, <1>9, Zenon
  <2> HIDE DEF Row, Rows
  <2> QED
    BY <1>1, <1>2, <2>1, <2>2, <2>3
<1>7. ValidateFinalSubmission(again)
  <2> SUFFICES ASSUME NEW i \in DOMAIN rounds
               PROVE  /\ again[i].roundType # Null /\ again[i].rating # Null
                      /\ \A k \in DOMAIN rounds[i].questions :
                           /\ Trim[again[i].questions[k].prose] # ""
                           /\ ~ ActiveTagCount(again[i].questions[k].tags) < 1
    BY <1>2, GateIs, Zenon
  <2>1. /\ rounds[i].roundType # Null /\ rounds[i].rating # Null
        /\ \A k \in DOMAIN rounds[i].questions :
             /\ Trim[rounds[i].questions[k].prose] # ""
             /\ ~ ActiveTagCount(rounds[i].questions[k].tags) < 1
    <3>1. ValidateFinalSubmission(ds)
      BY DEF CanFinalize
    <3>2. /\ ds[i].roundType # Null /\ ds[i].rating # Null
          /\ \A k \in DOMAIN ds[i].questions :
               /\ Trim[ds[i].questions[k].prose] # ""
               /\ ~ ActiveTagCount(ds[i].questions[k].tags) < 1
      BY <1>1, <3>1, GateIs, Zenon
    <3> QED
      BY <1>1, <3>2, Zenon
  <2>2. \A tags : ~ ActiveTagCount(tags) < 1 => tags # << >>
    <3>1. ActiveTagCount(<< >>) = 0
      <4>1. {j \in DOMAIN << >> : << >>[j].kind = "existing"} = {}
        OBVIOUS
      <4> QED
        BY <4>1, FS_EmptySet DEF ActiveTagCount
    <3> QED
      BY <3>1
  <2>3. ASSUME NEW k \in DOMAIN rounds[i].questions
        PROVE  /\ Trim[again[i].questions[k].prose] # ""
               /\ ~ ActiveTagCount(again[i].questions[k].tags) < 1
    BY <1>10, <2>1, <2>2, Zenon
  <2> QED
    BY <1>2, <2>1, <2>3, Zenon
<1>8. ~ FirstBlockingMatch(FinalRounds(again))
  <2> DEFINE F == FinalRounds(again)
             G == FinalRounds(ds)
  <2>1. /\ DOMAIN F = DOMAIN rounds
        /\ \A i \in DOMAIN rounds :
             /\ F[i].experience = IF Trim[OrEmpty(again[i].experience)] = "" THEN Null
                                  ELSE Trim[again[i].experience]
             /\ DOMAIN F[i].questions = DOMAIN again[i].questions
             /\ \A k \in DOMAIN again[i].questions :
                  F[i].questions[k].prose = Trim[again[i].questions[k].prose]
    BY <1>2, Zenon DEF FinalRounds
  <2>2. /\ DOMAIN G = DOMAIN rounds
        /\ \A i \in DOMAIN rounds :
             /\ G[i].experience = IF Trim[OrEmpty(rounds[i].experience)] = "" THEN Null
                                  ELSE Trim[rounds[i].experience]
             /\ DOMAIN G[i].questions = DOMAIN rounds[i].questions
             /\ \A k \in DOMAIN rounds[i].questions :
                  G[i].questions[k].prose = Trim[rounds[i].questions[k].prose]
    BY <1>1, Zenon DEF FinalRounds
  <2> HIDE DEF F, G
  <2>3. \A i \in DOMAIN G :
          /\ F[i].experience = G[i].experience
          /\ DOMAIN F[i].questions = DOMAIN G[i].questions
          /\ \A k \in DOMAIN G[i].questions : F[i].questions[k].prose = G[i].questions[k].prose
    <3> SUFFICES ASSUME NEW i \in DOMAIN rounds
                 PROVE  /\ F[i].experience = G[i].experience
                        /\ DOMAIN F[i].questions = DOMAIN G[i].questions
                        /\ \A k \in DOMAIN G[i].questions :
                             F[i].questions[k].prose = G[i].questions[k].prose
      BY <2>2, Zenon
    <3>1. F[i].experience = G[i].experience
      <4>1. F[i].experience = IF Trim[OrEmpty(again[i].experience)] = "" THEN Null
                              ELSE Trim[again[i].experience]
        BY <2>1, Zenon
      <4>2. G[i].experience = IF Trim[OrEmpty(rounds[i].experience)] = "" THEN Null
                              ELSE Trim[rounds[i].experience]
        BY <2>2, Zenon
      <4> QED
        BY <1>9, <4>1, <4>2, Zenon
    <3>2. DOMAIN F[i].questions = DOMAIN G[i].questions
      BY <1>2, <2>1, <2>2, Zenon
    <3>3. ASSUME NEW k \in DOMAIN G[i].questions
          PROVE  F[i].questions[k].prose = G[i].questions[k].prose
      <4>1. k \in DOMAIN rounds[i].questions /\ k \in DOMAIN again[i].questions
        BY <1>2, <2>2, <3>3, Zenon
      <4>2. F[i].questions[k].prose = Trim[again[i].questions[k].prose]
        BY <2>1, <4>1, Zenon
      <4>3. G[i].questions[k].prose = Trim[rounds[i].questions[k].prose]
        BY <2>2, <4>1, Zenon
      <4> QED
        BY <1>10, <4>1, <4>2, <4>3
    <3> QED
      BY <3>1, <3>2, <3>3
  <2>4. SubmissionTexts(F) = SubmissionTexts(G)
    BY <2>1, <2>2, <2>3, SameTextsScanned, Zenon
  <2> QED
    BY <2>4 DEF CanFinalize, FirstBlockingMatch, F, G
<1> QED
  BY <1>6, <1>7, <1>8 DEF CanFinalize

QuestionsOK(qs) ==
  /\ qs \in Seq(Question) /\ Len(qs) <= MAX_QUESTIONS_PER_ROUND
  /\ \A k \in DOMAIN qs : IsInjective(qs[k].tags)

LEMMA RoundsAre ==
  ASSUME RoundsTypeOK
  PROVE  /\ rounds \in Seq(Round) /\ DOMAIN rounds = 1 .. Len(rounds) /\ Len(rounds) \in Nat
         /\ Len(rounds) <= MAX_ROUNDS
         /\ \A i \in DOMAIN rounds :
              /\ rounds[i] \in Round /\ QuestionsOK(rounds[i].questions)
              /\ rounds[i] = [roundType |-> rounds[i].roundType, rating |-> rounds[i].rating,
                              experience |-> rounds[i].experience,
                              questions |-> rounds[i].questions, collapsed |-> rounds[i].collapsed]
<1>1. rounds \in Seq(Round) /\ Len(rounds) <= MAX_ROUNDS
  BY DEF RoundsTypeOK
<1>2. DOMAIN rounds = 1 .. Len(rounds) /\ Len(rounds) \in Nat
  BY <1>1
<1>3. \A i \in DOMAIN rounds : rounds[i] \in Round
  BY <1>1, <1>2
<1>4. ASSUME NEW i \in DOMAIN rounds PROVE QuestionsOK(rounds[i].questions)
  <2>1. rounds[i].questions \in Seq(Question)
    BY <1>3 DEF Round
  <2> QED
    BY <2>1 DEF RoundsTypeOK, QuestionsOK
<1>5. \A i \in DOMAIN rounds :
        rounds[i] = [roundType |-> rounds[i].roundType, rating |-> rounds[i].rating,
                     experience |-> rounds[i].experience,
                     questions |-> rounds[i].questions, collapsed |-> rounds[i].collapsed]
  BY <1>3 DEF Round
<1> QED
  BY <1>1, <1>2, <1>3, <1>4, <1>5

\* One round is written over.
LEMMA RoundStep ==
  ASSUME RoundsTypeOK, NEW i \in DOMAIN rounds, NEW r \in Round, QuestionsOK(r.questions),
         rounds' = [rounds EXCEPT ![i] = r]
  PROVE  RoundsTypeOK'
<1>1. rounds \in Seq(Round) /\ \A j \in DOMAIN rounds : QuestionsOK(rounds[j].questions)
  BY RoundsAre
<1>2. rounds' \in Seq(Round) /\ Len(rounds') = Len(rounds) /\ DOMAIN rounds' = DOMAIN rounds
  BY <1>1
<1>3. \A j \in DOMAIN rounds' : QuestionsOK(rounds'[j].questions)
  BY <1>1, <1>2
<1> QED
  BY <1>2, <1>3 DEF RoundsTypeOK, QuestionsOK

LEMMA ConcatFacts ==
  ASSUME NEW S, NEW a \in Seq(S), NEW b \in Seq(S)
  PROVE  /\ a \o b \in Seq(S) /\ Len(a \o b) = Len(a) + Len(b)
         /\ \A j \in 1 .. Len(a \o b) :
              (a \o b)[j] = IF j <= Len(a) THEN a[j] ELSE b[j - Len(a)]
OBVIOUS

\* An element removed leaves the others, in their order.
LEMMA RemoveAtFacts ==
  ASSUME NEW S, NEW s \in Seq(S), NEW i \in DOMAIN s
  PROVE  /\ RemoveAt(s, i) \in Seq(S) /\ Len(RemoveAt(s, i)) = Len(s) - 1
         /\ \A j \in 1 .. (Len(s) - 1) : RemoveAt(s, i)[j] = s[IF j < i THEN j ELSE j + 1]
<1> DEFINE a == SubSeq(s, 1, i - 1)
           b == SubSeq(s, i + 1, Len(s))
           n == Len(s)
<1>1. n \in Nat /\ i \in 1 .. n
  OBVIOUS
<1>2. a \in Seq(S) /\ Len(a) = i - 1 /\ \A j \in 1 .. (i - 1) : a[j] = s[j]
  BY <1>1
<1>3. b \in Seq(S) /\ Len(b) = n - i /\ \A j \in 1 .. (n - i) : b[j] = s[i + j]
  BY <1>1
<1>4. RemoveAt(s, i) = a \o b
  BY DEF RemoveAt
<1> HIDE DEF a, b, n
<1>5. a \o b \in Seq(S) /\ Len(a \o b) = Len(a) + Len(b)
  BY <1>2, <1>3, ConcatFacts, Zenon
<1>6. Len(a \o b) = n - 1
  BY <1>1, <1>2, <1>3, <1>5
<1>7. ASSUME NEW j \in 1 .. (n - 1) PROVE (a \o b)[j] = s[IF j < i THEN j ELSE j + 1]
  <2>1. j \in 1 .. Len(a \o b)
    BY <1>6
  <2>2. (a \o b)[j] = IF j <= Len(a) THEN a[j] ELSE b[j - Len(a)]
    BY <1>2, <1>3, <2>1, ConcatFacts, Zenon
  <2>3. CASE j < i
    BY <1>1, <1>2, <2>2, <2>3
  <2>4. CASE ~ j < i
    <3>1. ~ j <= Len(a) /\ j - Len(a) \in 1 .. (n - i) /\ i + (j - Len(a)) = j + 1
      BY <1>1, <1>2, <2>4
    <3> QED
      BY <1>3, <2>2, <2>4, <3>1
  <2> QED
    BY <2>3, <2>4
<1> QED
  BY <1>4, <1>5, <1>6, <1>7 DEF n

LEMMA NewAreTyped ==
  /\ NewQuestion \in Question /\ IsInjective(NewQuestion.tags)
  /\ NewRound \in Round /\ QuestionsOK(NewRound.questions)
<1>1. << >> \in Seq(Tags) /\ << >> \in Seq(Question) /\ Len(<< >>) = 0 /\ DOMAIN << >> = {}
  OBVIOUS
<1>2. NewQuestion \in Question /\ NewQuestion.tags = << >>
  BY <1>1, TextsAssumption, Zenon DEF NewQuestion, Question
<1>3. NewRound \in Round /\ NewRound.questions = << >>
  BY <1>1, TextsAssumption, Zenon DEF NewRound, Round
<1> QED
  BY <1>1, <1>2, <1>3, RoundsBounds DEF IsInjective, QuestionsOK

\* A round with other questions.
LEMMA QuestionsStep ==
  ASSUME RoundsTypeOK, NEW i \in DOMAIN rounds, NEW qs, QuestionsOK(qs),
         rounds' = [rounds EXCEPT ![i] = [rounds[i] EXCEPT !.questions = qs]]
  PROVE  RoundsTypeOK'
<1> DEFINE r == [rounds[i] EXCEPT !.questions = qs]
<1>1. rounds[i] \in Round
  BY RoundsAre
<1>2. r \in Round /\ r.questions = qs
  BY <1>1 DEF Round, QuestionsOK
<1> HIDE DEF r
<1> QED
  BY <1>2, RoundStep DEF r

LEMMA QuestionsAre ==
  ASSUME RoundsTypeOK, NEW i \in DOMAIN rounds, NEW k \in DOMAIN rounds[i].questions
  PROVE  /\ rounds[i].questions \in Seq(Question) /\ rounds[i].questions[k] \in Question
         /\ rounds[i].questions[k].tags \in Seq(Tags)
         /\ IsInjective(rounds[i].questions[k].tags)
<1> DEFINE qs == rounds[i].questions
<1>1. qs \in Seq(Question) /\ IsInjective(qs[k].tags)
  BY RoundsAre DEF QuestionsOK
<1> HIDE DEF qs
<1>2. qs[k] \in Question
  BY <1>1 DEF qs
<1>3. qs[k].tags \in Seq(Tags)
  BY <1>2 DEF Question
<1> QED
  BY <1>1, <1>2, <1>3 DEF qs

\* A question written over by another.
LEMMA QuestionStep ==
  ASSUME RoundsTypeOK, NEW i \in DOMAIN rounds, NEW k \in DOMAIN rounds[i].questions,
         NEW q \in Question, IsInjective(q.tags),
         rounds' = [rounds EXCEPT ![i] = [rounds[i] EXCEPT !.questions =
                                            [rounds[i].questions EXCEPT ![k] = q]]]
  PROVE  RoundsTypeOK'
<1> DEFINE qs == rounds[i].questions
           ps == [qs EXCEPT ![k] = q]
<1>1. QuestionsOK(qs)
  BY RoundsAre
<1>2. ps \in Seq(Question) /\ Len(ps) = Len(qs) /\ DOMAIN ps = DOMAIN qs
  BY <1>1 DEF QuestionsOK
<1>3. \A j \in DOMAIN ps : IsInjective(ps[j].tags)
  BY <1>1, <1>2 DEF QuestionsOK
<1>4. QuestionsOK(ps)
  BY <1>1, <1>2, <1>3 DEF QuestionsOK
<1> HIDE DEF ps
<1> QED
  BY <1>4, QuestionsStep DEF ps

\* A tag more, or one chip fewer, leaves no tag twice.
LEMMA TagStep ==
  ASSUME RoundsTypeOK, NEW i \in DOMAIN rounds, NEW k \in DOMAIN rounds[i].questions,
         NEW tags \in Seq(Tags), IsInjective(tags),
         rounds' = [rounds EXCEPT ![i] = [rounds[i] EXCEPT !.questions =
                     [rounds[i].questions EXCEPT ![k] = [rounds[i].questions[k] EXCEPT !.tags = tags]]]]
  PROVE  RoundsTypeOK'
<1> DEFINE q == [rounds[i].questions[k] EXCEPT !.tags = tags]
<1>1. q \in Question /\ q.tags = tags
  BY QuestionsAre DEF Question
<1> HIDE DEF q
<1> QED
  BY <1>1, QuestionStep DEF q

LEMMA AddTagStep ==
  ASSUME RoundsTypeOK, NEW i \in DOMAIN rounds, NEW k \in DOMAIN rounds[i].questions,
         NEW t \in Tags, AddTag(i, k, t)
  PROVE  RoundsTypeOK'
<1> DEFINE s == rounds[i].questions[k].tags
           tags == Append(s, t)
<1>1. s \in Seq(Tags) /\ IsInjective(s)
  BY QuestionsAre
<1>2. t \notin ToSet(s)
  BY DEF AddTag
<1>3. rounds' = [rounds EXCEPT ![i] = [rounds[i] EXCEPT !.questions =
                  [rounds[i].questions EXCEPT ![k] = [rounds[i].questions[k] EXCEPT !.tags = tags]]]]
  BY DEF AddTag
<1> HIDE DEF s
<1>4. tags \in Seq(Tags)
  BY <1>1
<1>5. IsInjective(tags)
  BY <1>1, <1>2 DEF IsInjective, ToSet
<1> HIDE DEF tags
<1> QED
  BY <1>3, <1>4, <1>5, TagStep

LEMMA RemoveTagStep ==
  ASSUME RoundsTypeOK, NEW i \in DOMAIN rounds, NEW k \in DOMAIN rounds[i].questions,
         NEW j \in DOMAIN rounds[i].questions[k].tags, RemoveTag(i, k, j)
  PROVE  RoundsTypeOK'
<1> DEFINE s == rounds[i].questions[k].tags
           tags == RemoveAt(s, j)
           n == Len(s)
<1>1. s \in Seq(Tags) /\ IsInjective(s) /\ n \in Nat /\ DOMAIN s = 1 .. n
  BY QuestionsAre
<1>2. rounds' = [rounds EXCEPT ![i] = [rounds[i] EXCEPT !.questions =
                  [rounds[i].questions EXCEPT ![k] = [rounds[i].questions[k] EXCEPT !.tags = tags]]]]
  BY DEF RemoveTag
<1>3. /\ tags \in Seq(Tags) /\ Len(tags) = n - 1
      /\ \A m \in 1 .. (n - 1) : tags[m] = s[IF m < j THEN m ELSE m + 1]
  BY <1>1, RemoveAtFacts
<1> HIDE DEF tags, s, n
<1>4. DOMAIN tags = 1 .. (n - 1)
  BY <1>1, <1>3
<1>5. ASSUME NEW a \in 1 .. (n - 1), NEW b \in 1 .. (n - 1), tags[a] = tags[b] PROVE a = b
  <2> DEFINE old(m) == IF m < j THEN m ELSE m + 1
  <2>1. old(a) \in 1 .. n /\ old(b) \in 1 .. n /\ j \in Int
    BY <1>1 DEF s
  <2>2. s[old(a)] = s[old(b)]
    BY <1>3, <1>5
  <2>3. old(a) = old(b)
    BY <1>1, <2>1, <2>2 DEF IsInjective
  <2> QED
    BY <1>1, <2>1, <2>3
<1>6. IsInjective(tags)
  BY <1>4, <1>5 DEF IsInjective
<1> QED
  BY <1>2, <1>3, <1>6, TagStep

\* The draft is loaded as it was saved, only folded up.
LEMMA ResumeStep ==
  ASSUME RoundsTypeOK, ResumeDraft
  PROVE  RoundsTypeOK'
<1>1. rounds' = [i \in DOMAIN rounds |->
                  [roundType |-> rounds[i].roundType, rating |-> rounds[i].rating,
                   experience |-> OrEmpty(rounds[i].experience),
                   questions |-> rounds[i].questions, collapsed |-> TRUE]]
  BY DEF ResumeDraft, FromDraftRounds, ToDraftRounds
<1>2. DOMAIN rounds' = 1 .. Len(rounds) /\ Len(rounds) \in Nat /\ Len(rounds) <= MAX_ROUNDS
  BY <1>1, RoundsAre
<1>3. ASSUME NEW i \in DOMAIN rounds
      PROVE  rounds'[i] \in Round /\ QuestionsOK(rounds'[i].questions)
  <2>1. rounds[i] \in Round /\ QuestionsOK(rounds[i].questions)
    BY RoundsAre
  <2>2. OrEmpty(rounds[i].experience) \in Texts
    BY <2>1, TextsAssumption, Zenon DEF Round, OrEmpty
  <2>3. rounds'[i] = [roundType |-> rounds[i].roundType, rating |-> rounds[i].rating,
                   experience |-> OrEmpty(rounds[i].experience),
                   questions |-> rounds[i].questions, collapsed |-> TRUE]
    BY <1>1
  <2> QED
    BY <2>1, <2>2, <2>3 DEF Round
<1>4. rounds' \in Seq(Round) /\ Len(rounds') = Len(rounds)
  BY <1>1, <1>2, <1>3
<1> QED
  BY <1>1, <1>2, <1>3, <1>4 DEF RoundsTypeOK, QuestionsOK

\* The report reopened: the same rounds, trimmed, each topic a tag once.
LEMMA ReopenStep ==
  ASSUME RoundsTypeOK, SubmitAndReopen
  PROVE  RoundsTypeOK'
<1> DEFINE W == ReportDetailToDraft(Report(ToDraftRounds(rounds)))
           again == AgainOf(rounds)
<1>1. rounds' = FromDraftRounds(W) /\ again = ToDraftRounds(FromDraftRounds(W))
  BY DEF SubmitAndReopen, AgainOf
<1>2. again = [i \in DOMAIN rounds |->
           [roundType |-> rounds[i].roundType, rating |-> rounds[i].rating,
            experience |-> Trimmed(rounds[i].experience),
            questions |-> [k \in DOMAIN rounds[i].questions |->
              [prose |-> Trim[rounds[i].questions[k].prose],
               tags |-> Reopened(TopicsIn(rounds[i].questions[k].tags))]]]]
  BY RoundsAre, AgainIs
<1> HIDE DEF W
<1>3. DOMAIN rounds' = DOMAIN again
      /\ \A i \in DOMAIN rounds' :
           rounds'[i] = [roundType |-> again[i].roundType, rating |-> again[i].rating,
                         experience |-> again[i].experience,
                         questions |-> again[i].questions, collapsed |-> TRUE]
  <2>1. DOMAIN rounds' = DOMAIN W /\ DOMAIN again = DOMAIN W
    BY <1>1 DEF FromDraftRounds, ToDraftRounds
  <2>2. ASSUME NEW i \in DOMAIN W
        PROVE  /\ again[i] = [roundType |-> rounds'[i].roundType, rating |-> rounds'[i].rating,
                              experience |-> rounds'[i].experience,
                              questions |-> rounds'[i].questions]
               /\ rounds'[i] = [roundType |-> rounds'[i].roundType, rating |-> rounds'[i].rating,
                                experience |-> rounds'[i].experience,
                                questions |-> rounds'[i].questions, collapsed |-> TRUE]
    BY <1>1, <2>1 DEF FromDraftRounds, ToDraftRounds
  <2> HIDE DEF again
  <2> QED
    BY <2>1, <2>2
<1>4. DOMAIN rounds' = DOMAIN rounds
  BY <1>2, <1>3
<1>5. DOMAIN rounds = 1 .. Len(rounds) /\ Len(rounds) \in Nat /\ Len(rounds) <= MAX_ROUNDS
  BY RoundsAre
<1>6. ASSUME NEW i \in DOMAIN rounds
      PROVE  rounds'[i] \in Round /\ QuestionsOK(rounds'[i].questions)
  <2> DEFINE qs == rounds[i].questions
             ps == [k \in DOMAIN qs |-> [prose |-> Trim[qs[k].prose],
                                         tags |-> Reopened(TopicsIn(qs[k].tags))]]
  <2>1. rounds[i] \in Round /\ QuestionsOK(qs)
    BY RoundsAre
  <2>2. Trimmed(rounds[i].experience) \in Texts
    BY <2>1, TextsAssumption, Zenon DEF Round, Trimmed
  <2>3. qs \in Seq(Question) /\ DOMAIN qs = 1 .. Len(qs) /\ Len(qs) \in Nat
        /\ Len(qs) <= MAX_QUESTIONS_PER_ROUND
    BY <2>1 DEF QuestionsOK
  <2>4. ASSUME NEW k \in DOMAIN qs
        PROVE  ps[k] \in Question /\ IsInjective(ps[k].tags)
    <3>1. qs[k].prose \in Texts /\ qs[k].tags \in Seq(Tags)
      <4>1. qs[k] \in Question
        BY QuestionsAre
      <4> QED
        BY <4>1 DEF Question
    <3>2. Trim[qs[k].prose] \in Texts
      BY <3>1, TextsAssumption, Zenon
    <3>3. /\ Reopened(TopicsIn(qs[k].tags)) \in Seq(Tags)
          /\ IsInjective(Reopened(TopicsIn(qs[k].tags)))
      BY <3>1, TopicsAreRows, ReopenedTags
    <3> QED
      BY <3>2, <3>3 DEF Question
  <2>5. ps \in Seq(Question) /\ Len(ps) = Len(qs) /\ DOMAIN ps = DOMAIN qs
    <3>1. ps = [k \in 1 .. Len(qs) |-> ps[k]]
      BY <2>3
    <3>2. \A k \in 1 .. Len(qs) : ps[k] \in Question
      BY <2>3, <2>4
    <3> HIDE DEF ps, qs
    <3> QED
      BY <2>3, <3>1, <3>2
  <2>6. QuestionsOK(ps)
    BY <2>3, <2>4, <2>5 DEF QuestionsOK
  <2>7. again[i].roundType = rounds[i].roundType /\ again[i].rating = rounds[i].rating
        /\ again[i].experience = Trimmed(rounds[i].experience) /\ again[i].questions = ps
    BY <1>2
  <2>8. rounds'[i] = [roundType |-> rounds[i].roundType, rating |-> rounds[i].rating,
                      experience |-> Trimmed(rounds[i].experience),
                      questions |-> ps, collapsed |-> TRUE]
    <3> HIDE DEF again, ps
    <3> QED
      BY <1>3, <1>4, <2>7
  <2> HIDE DEF ps
  <2> QED
    BY <2>1, <2>2, <2>6, <2>8 DEF Round, QuestionsOK
<1>7. rounds' \in Seq(Round) /\ Len(rounds') = Len(rounds)
  <2>1. rounds' = [i \in 1 .. Len(rounds) |-> rounds'[i]]
    BY <1>1, <1>4, <1>5 DEF FromDraftRounds
  <2>2. \A i \in 1 .. Len(rounds) : rounds'[i] \in Round
    BY <1>5, <1>6
  <2> QED
    BY <1>5, <2>1, <2>2
<1> QED
  BY <1>4, <1>5, <1>6, <1>7 DEF RoundsTypeOK, QuestionsOK

LEMMA RoundsTypeNext == RoundsTypeOK /\ [RoundsNext]_roundsVars => RoundsTypeOK'
<1> SUFFICES ASSUME RoundsTypeOK, [RoundsNext]_roundsVars PROVE RoundsTypeOK'
  OBVIOUS
<1>1. CASE AddRound
  <2>1. rounds' = Append(rounds, NewRound) /\ Len(rounds) < MAX_ROUNDS
    BY <1>1 DEF AddRound
  <2>2. rounds \in Seq(Round) /\ \A i \in DOMAIN rounds : QuestionsOK(rounds[i].questions)
    BY RoundsAre
  <2>3. rounds' \in Seq(Round) /\ Len(rounds') = Len(rounds) + 1
    BY <2>1, <2>2, NewAreTyped
  <2>4. Len(rounds') <= MAX_ROUNDS
    BY <2>1, <2>2, <2>3, RoundsBounds
  <2>5. \A i \in DOMAIN rounds' : QuestionsOK(rounds'[i].questions)
    BY <2>1, <2>2, NewAreTyped
  <2> QED
    BY <2>3, <2>4, <2>5 DEF RoundsTypeOK, QuestionsOK
<1>2. CASE ResumeDraft
  BY <1>2, ResumeStep
<1>3. CASE SubmitAndReopen
  BY <1>3, ReopenStep
<1>4. ASSUME NEW i \in DOMAIN rounds, RemoveRound(i) PROVE RoundsTypeOK'
  <2> DEFINE n == Len(rounds)
  <2>1. rounds' = RemoveAt(rounds, i)
    BY <1>4 DEF RemoveRound
  <2>2. /\ rounds \in Seq(Round) /\ n \in Nat /\ DOMAIN rounds = 1 .. n /\ n <= MAX_ROUNDS
        /\ \A j \in DOMAIN rounds : QuestionsOK(rounds[j].questions)
    BY RoundsAre, Zenon
  <2>3. /\ rounds' \in Seq(Round) /\ Len(rounds') = n - 1
        /\ \A j \in 1 .. (n - 1) : rounds'[j] = rounds[IF j < i THEN j ELSE j + 1]
    BY <2>1, <2>2, RemoveAtFacts, Zenon
  <2> HIDE DEF n
  <2>4. DOMAIN rounds' = 1 .. (n - 1) /\ Len(rounds') <= MAX_ROUNDS
    BY <2>2, <2>3, RoundsBounds
  <2>5. ASSUME NEW j \in DOMAIN rounds' PROVE QuestionsOK(rounds'[j].questions)
    <3>1. j \in 1 .. (n - 1) /\ (IF j < i THEN j ELSE j + 1) \in 1 .. n
      BY <2>2, <2>4
    <3>2. rounds'[j] = rounds[IF j < i THEN j ELSE j + 1]
      BY <2>3, <3>1
    <3> QED
      BY <2>2, <3>1, <3>2
  <2> QED
    BY <2>3, <2>4, <2>5 DEF RoundsTypeOK, QuestionsOK
<1>5. ASSUME NEW i \in DOMAIN rounds, PatchRound(i) \/ ToggleCollapsed(i) PROVE RoundsTypeOK'
  <2>1. rounds[i] \in Round /\ QuestionsOK(rounds[i].questions)
    BY RoundsAre
  <2>2. PICK r \in Round : r.questions = rounds[i].questions /\ rounds' = [rounds EXCEPT ![i] = r]
    <3>1. ASSUME NEW v \in RoundTypes \cup {Null}, rounds' = [rounds EXCEPT ![i].roundType = v]
          PROVE  \E r \in Round : r.questions = rounds[i].questions /\ rounds' = [rounds EXCEPT ![i] = r]
      <4>1. [rounds[i] EXCEPT !.roundType = v] \in Round
            /\ [rounds[i] EXCEPT !.roundType = v].questions = rounds[i].questions
        BY <2>1 DEF Round
      <4> QED
        BY <3>1, <4>1
    <3>2. ASSUME NEW v \in Ratings, rounds' = [rounds EXCEPT ![i].rating = v]
          PROVE  \E r \in Round : r.questions = rounds[i].questions /\ rounds' = [rounds EXCEPT ![i] = r]
      <4>1. [rounds[i] EXCEPT !.rating = v] \in Round
            /\ [rounds[i] EXCEPT !.rating = v].questions = rounds[i].questions
        BY <2>1 DEF Round
      <4> QED
        BY <3>2, <4>1
    <3>3. ASSUME NEW v \in Texts, rounds' = [rounds EXCEPT ![i].experience = v]
          PROVE  \E r \in Round : r.questions = rounds[i].questions /\ rounds' = [rounds EXCEPT ![i] = r]
      <4>1. [rounds[i] EXCEPT !.experience = v] \in Round
            /\ [rounds[i] EXCEPT !.experience = v].questions = rounds[i].questions
        BY <2>1 DEF Round
      <4> QED
        BY <3>3, <4>1
    <3>4. ASSUME NEW v \in BOOLEAN, rounds' = [rounds EXCEPT ![i].collapsed = v]
          PROVE  \E r \in Round : r.questions = rounds[i].questions /\ rounds' = [rounds EXCEPT ![i] = r]
      <4>1. [rounds[i] EXCEPT !.collapsed = v] \in Round
            /\ [rounds[i] EXCEPT !.collapsed = v].questions = rounds[i].questions
        BY <2>1 DEF Round
      <4> QED
        BY <3>4, <4>1
    <3>5. ToggleCollapsed(i) => \E v \in BOOLEAN : rounds' = [rounds EXCEPT ![i].collapsed = v]
      BY DEF ToggleCollapsed
    <3> QED
      BY <1>5, <3>1, <3>2, <3>3, <3>4, <3>5 DEF PatchRound
  <2> QED
    BY <2>1, <2>2, RoundStep
<1>6. ASSUME NEW i \in DOMAIN rounds, AddQuestion(i) PROVE RoundsTypeOK'
  <2> DEFINE qs == rounds[i].questions
             ps == Append(qs, NewQuestion)
  <2>1. QuestionsOK(qs) /\ Len(qs) < MAX_QUESTIONS_PER_ROUND
    BY <1>6, RoundsAre DEF AddQuestion
  <2>2. rounds' = [rounds EXCEPT ![i] = [rounds[i] EXCEPT !.questions = ps]]
    BY <1>6 DEF AddQuestion
  <2>3. qs \in Seq(Question)
    BY <2>1 DEF QuestionsOK
  <2> HIDE DEF qs
  <2>4. ps \in Seq(Question) /\ Len(ps) = Len(qs) + 1
    BY <2>3, NewAreTyped
  <2>5. Len(ps) <= MAX_QUESTIONS_PER_ROUND
    BY <2>1, <2>3, <2>4, RoundsBounds
  <2>6. \A k \in DOMAIN ps : IsInjective(ps[k].tags)
    BY <2>1, <2>3, NewAreTyped DEF QuestionsOK
  <2>7. QuestionsOK(ps)
    BY <2>4, <2>5, <2>6 DEF QuestionsOK
  <2> HIDE DEF ps
  <2> QED
    BY <2>2, <2>7, QuestionsStep
<1>7. ASSUME NEW i \in DOMAIN rounds, NEW k \in DOMAIN rounds[i].questions, RemoveQuestion(i, k)
      PROVE  RoundsTypeOK'
  <2> DEFINE qs == rounds[i].questions
             ps == RemoveAt(qs, k)
             n == Len(qs)
  <2>1. /\ qs \in Seq(Question) /\ n \in Nat /\ DOMAIN qs = 1 .. n /\ n <= MAX_QUESTIONS_PER_ROUND
        /\ \A j \in DOMAIN qs : IsInjective(qs[j].tags)
    BY RoundsAre DEF QuestionsOK
  <2>2. rounds' = [rounds EXCEPT ![i] = [rounds[i] EXCEPT !.questions = ps]]
    BY <1>7 DEF RemoveQuestion
  <2>3. /\ ps \in Seq(Question) /\ Len(ps) = n - 1
        /\ \A j \in 1 .. (n - 1) : ps[j] = qs[IF j < k THEN j ELSE j + 1]
    BY <2>1, RemoveAtFacts
  <2> HIDE DEF ps, qs, n
  <2>4. DOMAIN ps = 1 .. (n - 1) /\ Len(ps) <= MAX_QUESTIONS_PER_ROUND
    BY <2>1, <2>3, RoundsBounds
  <2>5. ASSUME NEW j \in DOMAIN ps PROVE IsInjective(ps[j].tags)
    <3>1. k \in Int
      BY <2>1 DEF qs
    <3>2. j \in 1 .. (n - 1) /\ (IF j < k THEN j ELSE j + 1) \in 1 .. n
      BY <2>1, <2>4, <3>1
    <3>3. ps[j] = qs[IF j < k THEN j ELSE j + 1]
      BY <2>3, <3>2
    <3> QED
      BY <2>1, <3>2, <3>3
  <2>6. QuestionsOK(ps)
    BY <2>3, <2>4, <2>5 DEF QuestionsOK
  <2> QED
    BY <2>2, <2>6, QuestionsStep
<1>8. ASSUME NEW i \in DOMAIN rounds, NEW k \in DOMAIN rounds[i].questions, NEW text \in Texts,
             PatchQuestion(i, k, text)
      PROVE  RoundsTypeOK'
  <2> DEFINE q == [rounds[i].questions[k] EXCEPT !.prose = text]
  <2>1. rounds' = [rounds EXCEPT ![i] = [rounds[i] EXCEPT !.questions =
                                           [rounds[i].questions EXCEPT ![k] = q]]]
    BY <1>8 DEF PatchQuestion
  <2>2. q \in Question /\ q.tags = rounds[i].questions[k].tags
    BY QuestionsAre DEF Question
  <2>3. IsInjective(q.tags)
    BY <2>2, QuestionsAre
  <2> HIDE DEF q
  <2> QED
    BY <2>1, <2>2, <2>3, QuestionStep
<1>9. ASSUME NEW i \in DOMAIN rounds, NEW k \in DOMAIN rounds[i].questions,
             (\E id \in TopicIds : AddTag(i, k, Existing(id))) \/ \E n \in Names : HandleSuggestNew(i, k, n)
      PROVE  RoundsTypeOK'
  <2>1. \E t \in Tags : AddTag(i, k, t)
    BY <1>9, TagFacts DEF HandleSuggestNew, TopicRows
  <2> QED
    BY <2>1, AddTagStep
<1>10. ASSUME NEW i \in DOMAIN rounds, NEW k \in DOMAIN rounds[i].questions,
              NEW j \in DOMAIN rounds[i].questions[k].tags, RemoveTag(i, k, j)
       PROVE  RoundsTypeOK'
  BY <1>10, RemoveTagStep
<1>11. CASE UNCHANGED roundsVars
  BY <1>11 DEF roundsVars, RoundsTypeOK
<1> QED
  BY <1>1, <1>2, <1>3, <1>4, <1>5, <1>6, <1>7, <1>8, <1>9, <1>10, <1>11 DEF RoundsNext

LEMMA RoundsTypeInit == RoundsInit => RoundsTypeOK
BY RoundsBounds DEF RoundsInit, RoundsTypeOK

\* Rounds, questions and tags stay well typed, and no tag is on a question twice.
THEOREM RoundsTypes == RoundsSpec => []RoundsTypeOK
BY RoundsTypeInit, RoundsTypeNext, PTL DEF RoundsSpec

\* For any texts with an idempotent trim, any topics and suggestions, any number of
\* rounds and questions: a report reopened, loaded and finalized again passes the
\* gate and is the report it was (rehydrate.ts:7-31, helpers.ts:30-71).
THEOREM RoundsEditKeepsReport == RoundsSpec => []EditKeepsReport
<1>1. RoundsTypeOK => EditKeepsReport
  BY RoundsAre, TypedRoundsKeepReport
<1> QED
  BY <1>1, RoundsTypes, PTL

-----------------------------------------------------------------------------
(* The submission form.                                                    *)

IsSave(c) == c.what # "finalize"
IsWorkedOff == answer \in RowIds

\* Drafts are numbered as they come, and until one is a report all are there.
RowsAreNumbered ==
  /\ \A d \in DraftRows : d <= rowCount
  /\ submitted = NoContent => DraftRows = 1 .. rowCount
  /\ formDraft <= rowCount /\ pushed <= rowCount /\ (IsWorkedOff => answer <= rowCount)
  /\ \A i \in DOMAIN calls : calls[i].id <= rowCount
  /\ \A c \in late : c.id <= rowCount

\* What is called by which page, and in which phase.
CallsFitPage ==
  /\ \A i \in DOMAIN calls : IsSave(calls[i]) => calls[i].data \in Contents
  /\ \A c \in late : IsSave(c) => c.data \in Contents
  /\ timer \in {NoContent, content}
  /\ calls = << >> => answer = Waiting
  /\ screen = "basics" =>
       /\ phase \in {"editing", "continuing", "leaving"} /\ (phase = "leaving" => pushed # 0)
       /\ \A i \in DOMAIN calls : calls[i].from = "basics" /\ IsSave(calls[i])
  /\ screen = "rounds" =>
       /\ formDraft # 0 /\ phase \notin {"continuing"}
       /\ phase = "leaving" => submitted # NoContent
  /\ screen = "left" => phase = "leaving"
  /\ \A i \in DOMAIN calls :
       /\ calls[i].from = "rounds" => calls[i].id = formDraft
       /\ calls[i].what \in {"flush", "finalize"} => calls[i].from = "rounds"
       /\ calls[i].what = "continue" => calls[i].from = "basics"
       /\ calls[i].what = "flush" => phase = "flushing"
       /\ ~IsSave(calls[i]) => phase = "finalizing"
  /\ phase = "finalizing" => \A i \in DOMAIN calls : calls[i].from = "rounds"

\* Which calls come after which, and what the answer to the first tells.
CallsAreOrdered ==
  /\ \A i, j \in DOMAIN calls :
       /\ i < j /\ calls[i].from = "rounds" => calls[j].from = "rounds"
       /\ calls[i].what = calls[j].what /\ calls[i].what \in {"flush", "finalize"} => i = j
  /\ calls # << >> /\ IsWorkedOff /\ ~IsSave(Head(calls)) => submitted # NoContent

\* The drafts that the form may submit, and those that late requests submit.
MaySubmit(d) ==
  \/ d = formDraft
  \/ d = pushed /\ screen = "basics" /\ phase = "leaving"
  \/ d = answer /\ calls # << >> /\ IsSave(Head(calls))
  \/ \E c \in late : ~IsSave(c) /\ c.id = d

Flushed == phase = "flushing" /\ calls # << >> /\ IsWorkedOff /\ Head(calls).what = "flush"

\* From the click on Submit, what can become the report is what has been shown.
SubmitsWhatIsShown ==
  /\ Finalizing =>
       /\ content \in shown
       /\ \A i \in Saves : calls[i].data \in shown
       /\ \A d \in DraftRows : MaySubmit(d) => row[d] \in shown
  /\ phase \in {"flushing", "finalizing"} =>
       /\ content \in shown
       /\ \A i \in Saves : calls[i].from = "rounds" => calls[i].data \in shown
  /\ formDraft \in DraftRows /\ (phase = "finalizing" \/ Flushed) => row[formDraft] \in shown

\* While no save is blind there is one draft, and every save on its way is of it.
OneDraft ==
  ~blind =>
    /\ rowCount <= 1 /\ (submitted # NoContent => DraftRows = {})
    /\ Saves # {} => ~Finalizing
    /\ \A i, j \in DOMAIN calls : i \in Saves /\ j \notin Saves => i < j
    /\ \A i \in Saves : calls[i].id = formDraft
    /\ formDraft = 0 /\ Saves # {} => Len(calls) = 1 /\ (answer = Waiting => rowCount = 0)
    /\ screen = "basics" /\ phase = "leaving" => pushed = formDraft \/ (formDraft = 0 /\ Saves = {})

\* Where the form stands with its draft.
Certain == submitted = NoContent /\ ~blind /\ ~overdue /\ Mounted

LastSave(i) == i \in Saves /\ \A j \in Saves : j <= i

FormIsSaved ==
  Certain =>
    /\ \A i \in Saves : calls[i].from = screen
    /\ timer = NoContent => \A i \in DOMAIN calls : LastSave(i) => calls[i].data = content
    /\ Saves = {} /\ ~failed /\ formDraft # 0 /\ phase # "leaving" =>
         /\ timer = NoContent => content = lastSaved
         /\ ~latecomer => row[formDraft] = lastSaved

\* The first call, once it is worked off.
HeadIsSaved ==
  submitted = NoContent /\ ~blind /\ calls # << >> /\ IsWorkedOff =>
    /\ Head(calls).id # 0 => answer = Head(calls).id
    /\ Head(calls).from = screen /\ ~latecomer => row[answer] = Head(calls).data

FormInv ==
  /\ FormTypeOK /\ RowsAreNumbered /\ CallsFitPage /\ CallsAreOrdered
  /\ SubmitsWhatIsShown /\ ReportIsWhatWasShown
  /\ OneDraft /\ FormIsSaved /\ HeadIsSaved

LEMMA FormConstants ==
  /\ NoContent \notin Contents /\ Blank \in Contents
  /\ MaxRows \in Nat /\ MaxStrokes \in Nat /\ MaxCalls \in Nat /\ MaxLate \in Nat
  /\ Waiting \notin RowIds /\ Failed \notin RowIds /\ Waiting # Failed
  /\ Waiting \in 1 .. Failed /\ Failed \in 1 .. Failed /\ RowIds \subseteq 1 .. Failed
  /\ RowIds \subseteq 0 .. MaxRows /\ 0 \in 0 .. MaxRows /\ 0 \notin RowIds
BY BlankAssumption, FormBounds DEF Waiting, Failed, RowIds

LEMMA CallFields ==
  ASSUME NEW c \in Calls
  PROVE  /\ c.what \in {"auto", "continue", "flush", "finalize"} /\ c.id \in 0 .. MaxRows
         /\ c.data \in Contents \cup {NoContent} /\ c.from \in {"basics", "rounds"}
BY DEF Calls

LEMMA QueueFacts ==
  ASSUME NEW q \in Seq(Calls)
  PROVE  /\ Len(q) \in Nat /\ DOMAIN q = 1 .. Len(q)
         /\ \A i \in DOMAIN q : q[i] \in Calls
         /\ q # << >> => 1 \in DOMAIN q /\ Head(q) = q[1] /\ Len(q) > 0
         /\ q = << >> => DOMAIN q = {}
OBVIOUS

LEMMA CallFacts ==
  ASSUME FormTypeOK
  PROVE  /\ calls \in Seq(Calls) /\ Len(calls) \in Nat /\ DOMAIN calls = 1 .. Len(calls)
         /\ \A i \in DOMAIN calls :
              /\ calls[i] \in Calls
              /\ calls[i].what \in {"auto", "continue", "flush", "finalize"}
              /\ calls[i].id \in 0 .. MaxRows
              /\ calls[i].data \in Contents \cup {NoContent}
              /\ calls[i].from \in {"basics", "rounds"}
              /\ i \in Nat
         /\ Saves \subseteq DOMAIN calls
         /\ calls # << >> => 1 \in DOMAIN calls /\ Head(calls) = calls[1] /\ Len(calls) > 0
         /\ calls = << >> => DOMAIN calls = {} /\ Saves = {}
<1>1. calls \in Seq(Calls)
  BY DEF FormTypeOK
<1>2. \A i \in DOMAIN calls : calls[i] \in Calls /\ i \in Nat
  BY <1>1, QueueFacts
<1>3. calls = << >> => Saves = {}
  BY <1>1, QueueFacts DEF Saves
<1> QED
  BY <1>1, <1>2, <1>3, QueueFacts, CallFields DEF Saves

\* A call is put at the end of a queue.
LEMMA SendEffect ==
  ASSUME FormTypeOK, screen # "left", NEW q \in Seq(Calls),
         NEW w \in {"auto", "continue", "flush", "finalize"}, NEW data \in Contents \cup {NoContent},
         calls' = SendTo(q, w, data)
  PROVE  /\ calls' \in Seq(Calls) /\ Len(q) \in Nat /\ DOMAIN q = 1 .. Len(q)
         /\ Len(calls') = Len(q) + 1 /\ DOMAIN calls' = 1 .. (Len(q) + 1)
         /\ calls' # << >> /\ Head(calls') = calls'[1]
         /\ \A i \in DOMAIN q : calls'[i] = q[i]
         /\ calls'[Len(q) + 1].what = w /\ calls'[Len(q) + 1].id = formDraft
         /\ calls'[Len(q) + 1].data = data /\ calls'[Len(q) + 1].from = screen
         /\ DOMAIN calls' = DOMAIN q \cup {Len(q) + 1} /\ Len(q) + 1 \notin DOMAIN q
<1> DEFINE c == [what |-> w, id |-> formDraft, data |-> data, from |-> screen]
           n == Len(q)
<1>1. c \in Calls /\ c.what = w /\ c.id = formDraft /\ c.data = data /\ c.from = screen
  BY DEF FormTypeOK, Calls
<1>2. calls' = Append(q, c)
  BY DEF SendTo
<1> HIDE DEF c
<1>3. /\ calls' \in Seq(Calls) /\ n \in Nat /\ DOMAIN q = 1 .. n
      /\ Len(calls') = n + 1 /\ DOMAIN calls' = 1 .. (n + 1)
      /\ \A i \in DOMAIN q : calls'[i] = q[i]
      /\ calls'[n + 1] = c
  BY <1>1, <1>2
<1>4. calls' # << >> /\ Head(calls') = calls'[1]
  BY <1>3, QueueFacts
<1> HIDE DEF n
<1>5. 1 .. (n + 1) = 1 .. n \cup {n + 1} /\ n + 1 \notin 1 .. n
  BY <1>3
<1> QED
  BY <1>1, <1>3, <1>4, <1>5 DEF n

\* The first call leaves a queue.
LEMMA TailEffect ==
  ASSUME FormTypeOK, calls # << >>
  PROVE  LET q == Tail(calls) IN
         /\ q \in Seq(Calls) /\ Len(calls) \in Nat /\ Len(calls) > 0
         /\ Len(q) = Len(calls) - 1 /\ DOMAIN q = 1 .. (Len(calls) - 1)
         /\ \A i \in DOMAIN q : i \in Nat /\ i + 1 \in DOMAIN calls /\ i + 1 # 1 /\ q[i] = calls[i + 1]
         /\ 1 \in DOMAIN calls /\ Head(calls) = calls[1]
<1>1. calls \in Seq(Calls)
  BY DEF FormTypeOK
<1>2. DOMAIN calls = 1 .. Len(calls) /\ Len(calls) \in Nat /\ Len(calls) > 0
      /\ 1 \in DOMAIN calls /\ Head(calls) = calls[1]
  BY <1>1, QueueFacts
<1>3. Tail(calls) \in Seq(Calls) /\ Len(Tail(calls)) = Len(calls) - 1
      /\ DOMAIN Tail(calls) = 1 .. (Len(calls) - 1)
      /\ \A i \in 1 .. (Len(calls) - 1) : Tail(calls)[i] = calls[i + 1]
  BY <1>1, <1>2
<1>4. \A i \in 1 .. (Len(calls) - 1) : i \in Nat /\ i + 1 \in 1 .. Len(calls) /\ i + 1 # 1
  BY <1>2
<1> QED
  BY <1>2, <1>3, <1>4

\* A save writes its draft, or one more.
LEMMA SaveEffect ==
  ASSUME FormTypeOK, RowsAreNumbered, NEW id \in 0 .. MaxRows, NEW data \in Contents, SaveRow(id, data)
  PROVE  /\ SavedAs(id) \in RowIds
         /\ row' \in [RowIds -> Contents \cup {NoContent}] /\ rowCount' \in 0 .. MaxRows
         /\ rowCount <= rowCount' /\ submitted' = submitted
         /\ row'[SavedAs(id)] = data
         /\ \A d \in RowIds : d # SavedAs(id) => row'[d] = row[d]
         /\ DraftRows' = DraftRows \cup {SavedAs(id)}
         /\ \A d \in DraftRows' : d <= rowCount'
         /\ submitted = NoContent => DraftRows' = 1 .. rowCount'
         /\ id \in DraftRows => SavedAs(id) = id /\ rowCount' = rowCount
         /\ id \notin DraftRows => SavedAs(id) = rowCount + 1 /\ rowCount' = rowCount + 1
<1> DEFINE d == SavedAs(id)
<1>1. /\ row \in [RowIds -> Contents \cup {NoContent}] /\ rowCount \in 0 .. MaxRows /\ rowCount \in Nat
      /\ DraftRows \subseteq RowIds /\ \A e \in DraftRows : e <= rowCount /\ e \in Nat
  BY FormConstants DEF FormTypeOK, RowsAreNumbered, DraftRows, RowIds
<1>2. /\ d <= MaxRows /\ row' = [row EXCEPT ![d] = data] /\ submitted' = submitted
      /\ rowCount' = IF d > rowCount THEN d ELSE rowCount
  BY DEF SaveRow
<1>3. id \in DraftRows => d = id /\ d <= rowCount /\ d \in Nat
  BY <1>1 DEF SavedAs
<1>4. id \notin DraftRows => d = rowCount + 1 /\ d > rowCount
  BY <1>1 DEF SavedAs
<1> HIDE DEF d
<1>5. d \in RowIds
  BY <1>1, <1>2, <1>3, <1>4, FormConstants DEF RowIds
<1>6. /\ rowCount' \in 0 .. MaxRows /\ rowCount <= rowCount' /\ d <= rowCount'
      /\ id \in DraftRows => rowCount' = rowCount
      /\ id \notin DraftRows => rowCount' = rowCount + 1
  BY <1>1, <1>2, <1>3, <1>4, FormConstants
<1>7. DraftRows' = DraftRows \cup {d}
  BY <1>1, <1>2, <1>5, FormConstants DEF DraftRows
<1>8. \A e \in DraftRows' : e <= rowCount'
  BY <1>1, <1>6, <1>7
<1>9. ASSUME submitted = NoContent PROVE DraftRows' = 1 .. rowCount'
  <2>1. DraftRows = 1 .. rowCount
    BY <1>9 DEF RowsAreNumbered
  <2> QED
    BY <1>1, <1>3, <1>4, <1>6, <1>7, <2>1
<1> QED
  BY <1>1, <1>2, <1>3, <1>4, <1>5, <1>6, <1>7, <1>8, <1>9 DEF d

\* A draft becomes a report, or is not there.
LEMMA FinalizeEffect ==
  ASSUME FormTypeOK, NEW id \in 0 .. MaxRows, FinalizeRow(id)
  PROVE  /\ rowCount' = rowCount /\ row' \in [RowIds -> Contents \cup {NoContent}]
         /\ submitted' \in Contents \cup {NoContent}
         /\ submitted # NoContent => submitted' # NoContent
         /\ id \in DraftRows => /\ submitted' = row[id] /\ submitted' # NoContent
                                /\ DraftRows' = DraftRows \ {id} /\ id \in RowIds
         /\ id \notin DraftRows => row' = row /\ submitted' = submitted /\ DraftRows' = DraftRows
<1>1. row \in [RowIds -> Contents \cup {NoContent}] /\ rowCount' = rowCount
  BY DEF FormTypeOK, FinalizeRow
<1>2. CASE id \in DraftRows
  <2>1. submitted' = row[id] /\ row' = [row EXCEPT ![id] = NoContent]
        /\ id \in RowIds /\ row[id] # NoContent
    BY <1>2 DEF FinalizeRow, DraftRows
  <2>2. DraftRows' = DraftRows \ {id}
    BY <1>1, <2>1 DEF DraftRows
  <2> QED
    BY <1>1, <1>2, <2>1, <2>2
<1>3. CASE id \notin DraftRows
  BY <1>1, <1>3 DEF FinalizeRow, DraftRows, FormTypeOK
<1> QED
  BY <1>2, <1>3

LEMMA ServerSaves ==
  ASSUME FormInv, ServerWorks, IsSave(Head(calls))
  PROVE  FormInv'
<1> DEFINE c == calls[1]
           d == SavedAs(c.id)
<1>1. /\ FormTypeOK /\ RowsAreNumbered /\ CallsFitPage /\ SubmitsWhatIsShown
      /\ ReportIsWhatWasShown /\ OneDraft /\ FormIsSaved /\ HeadIsSaved /\ CallsAreOrdered
  BY DEF FormInv
<1>2. calls # << >> /\ answer = Waiting
  BY DEF ServerWorks
<1>3. /\ 1 \in DOMAIN calls /\ Head(calls) = c /\ c \in Calls /\ c.id \in 0 .. MaxRows
      /\ IsSave(c) /\ 1 \in Saves /\ c.data \in Contents /\ c.id <= rowCount
  BY <1>1, <1>2, CallFacts DEF IsSave, Saves, CallsFitPage, RowsAreNumbered
<1>4. /\ answer' = d /\ SaveRow(c.id, c.data) /\ latecomer' = FALSE
      /\ UNCHANGED <<screen, phase, content, lastSaved, timer, formDraft, calls, pushed, late,
                     strokes, shown, overdue, failed, blind>>
  BY <1>3 DEF ServerWorks, Work, AnswerTo, IsSave
<1>5. /\ d \in RowIds
      /\ row' \in [RowIds -> Contents \cup {NoContent}] /\ rowCount' \in 0 .. MaxRows
      /\ rowCount <= rowCount' /\ submitted' = submitted
      /\ row'[d] = c.data
      /\ \A e \in RowIds : e # d => row'[e] = row[e]
      /\ DraftRows' = DraftRows \cup {d}
      /\ \A e \in DraftRows' : e <= rowCount'
      /\ submitted = NoContent => DraftRows' = 1 .. rowCount'
      /\ c.id \in DraftRows => d = c.id /\ rowCount' = rowCount
      /\ c.id \notin DraftRows => d = rowCount + 1 /\ rowCount' = rowCount + 1
  BY <1>1, <1>3, <1>4, SaveEffect
<1> HIDE DEF c, d
<1>6. /\ Saves' = Saves /\ Finalizing' = Finalizing /\ Certain' = Certain /\ IsWorkedOff'
      /\ Mounted' = Mounted
  BY <1>4, <1>5 DEF Saves, Finalizing, Certain, IsWorkedOff, Mounted
<1>7. rowCount \in Nat /\ rowCount' \in Nat /\ formDraft \in 0 .. MaxRows
      /\ DraftRows \subseteq RowIds
  BY <1>1, <1>5, FormConstants DEF FormTypeOK, DraftRows
<1>8. FormTypeOK'
  BY <1>1, <1>4, <1>5, FormConstants DEF FormTypeOK
<1>9. RowsAreNumbered'
  BY <1>1, <1>4, <1>5, <1>7, CallFacts, CallFields DEF RowsAreNumbered, FormTypeOK
<1>10. CallsFitPage'
  BY <1>1, <1>2, <1>4, <1>5 DEF CallsFitPage
<1>11. SubmitsWhatIsShown'
  <2>1. ASSUME Finalizing, NEW e \in DraftRows', MaySubmit(e)' PROVE row'[e] \in shown
    <3>1. c.data \in shown
      BY <1>1, <1>3, <2>1 DEF SubmitsWhatIsShown, c
    <3>2. CASE e # d
      <4>1. e \in DraftRows /\ row'[e] = row[e] /\ MaySubmit(e)
        BY <1>3, <1>4, <1>5, <1>7, <2>1, <3>2 DEF MaySubmit
      <4> QED
        BY <1>1, <2>1, <4>1 DEF SubmitsWhatIsShown
    <3> QED
      BY <1>5, <3>1, <3>2
  <2>2. ASSUME formDraft \in DraftRows', phase = "finalizing" \/ Flushed' PROVE row'[formDraft] \in shown
    <3>1. CASE phase = "finalizing"
      <4>1. c.data \in shown
        BY <1>1, <1>3, <3>1 DEF SubmitsWhatIsShown, CallsFitPage, c
      <4> QED
        BY <1>1, <1>5, <1>7, <2>2, <3>1, <4>1 DEF SubmitsWhatIsShown
    <3>2. CASE Flushed'
      <4>1. phase = "flushing" /\ c.what = "flush"
        BY <1>3, <1>4, <3>2 DEF Flushed
      <4>2. c.from = "rounds" /\ c.id = formDraft
        BY <1>1, <1>3, <4>1 DEF CallsFitPage, c
      <4>3. c.data \in shown
        BY <1>1, <1>3, <4>1, <4>2 DEF SubmitsWhatIsShown, c
      <4>4. formDraft \in DraftRows => d = formDraft
        BY <1>5, <4>2
      <4>5. formDraft <= rowCount
        BY <1>1 DEF RowsAreNumbered
      <4>6. formDraft \notin DraftRows => formDraft # d
        BY <1>5, <1>7, <4>2, <4>5
      <4> QED
        BY <1>5, <2>2, <4>3, <4>4, <4>6
    <3> QED
      BY <2>2, <3>1, <3>2
  <2> QED
    BY <1>1, <1>4, <1>6, <2>1, <2>2 DEF SubmitsWhatIsShown
<1>12. ReportIsWhatWasShown'
  BY <1>1, <1>4, <1>5 DEF ReportIsWhatWasShown
<1>13. ASSUME ~blind
       PROVE  /\ submitted = NoContent /\ c.id = formDraft
              /\ formDraft # 0 => c.id \in DraftRows
              /\ formDraft = 0 => rowCount = 0 /\ Len(calls) = 1
  <2>1. submitted = NoContent /\ c.id = formDraft
    BY <1>1, <1>3, <1>13 DEF OneDraft, Finalizing, c
  <2>2. formDraft # 0 => c.id \in DraftRows
    BY <1>1, <1>3, <1>7, <2>1, FormConstants DEF RowsAreNumbered
  <2> QED
    BY <1>1, <1>2, <1>3, <1>13, <2>1, <2>2 DEF OneDraft
<1>14. OneDraft'
  <2> SUFFICES ASSUME ~blind PROVE OneDraft'
    BY <1>4 DEF OneDraft
  <2>1. rowCount' <= 1 /\ answer' # Waiting
    <3>1. 0 \notin DraftRows
      BY <1>7, FormConstants
    <3> QED
      BY <1>1, <1>4, <1>5, <1>7, <1>13, <3>1, FormConstants DEF OneDraft
  <2> QED
    BY <1>1, <1>4, <1>5, <1>6, <1>13, <2>1 DEF OneDraft
<1>15. FormIsSaved'
  BY <1>1, <1>3, <1>4, <1>6 DEF FormIsSaved, LastSave
<1>16. HeadIsSaved'
  <2>1. ASSUME ~blind, c.id # 0 PROVE d = c.id
    BY <1>5, <1>13, <2>1
  <2> QED
    BY <1>3, <1>4, <1>5, <2>1 DEF HeadIsSaved
<1>20. CallsAreOrdered'
  BY <1>1, <1>3, <1>4 DEF CallsAreOrdered
<1> QED
  BY <1>8, <1>9, <1>10, <1>11, <1>12, <1>14, <1>15, <1>16, <1>20 DEF FormInv

LEMMA ServerFinalizes ==
  ASSUME FormInv, ServerWorks, ~ IsSave(Head(calls))
  PROVE  FormInv'
<1> DEFINE c == calls[1]
<1>1. /\ FormTypeOK /\ RowsAreNumbered /\ CallsFitPage /\ SubmitsWhatIsShown
      /\ ReportIsWhatWasShown /\ OneDraft /\ FormIsSaved /\ HeadIsSaved /\ CallsAreOrdered
  BY DEF FormInv
<1>2. calls # << >> /\ answer = Waiting
  BY DEF ServerWorks
<1>3. /\ 1 \in DOMAIN calls /\ Head(calls) = c /\ c.id \in 0 .. MaxRows
      /\ c.what = "finalize" /\ 1 \notin Saves /\ c.id = formDraft
      /\ phase = "finalizing" \/ submitted # NoContent
  BY <1>1, <1>2, CallFacts DEF IsSave, Saves, CallsFitPage
<1>4. /\ answer' = IF c.id \in DraftRows THEN c.id ELSE Failed
      /\ FinalizeRow(c.id) /\ latecomer' = latecomer
      /\ UNCHANGED <<screen, phase, content, lastSaved, timer, formDraft, calls, pushed, late,
                     strokes, shown, overdue, failed, blind>>
  BY <1>1, <1>3 DEF ServerWorks, Work, AnswerTo, FormTypeOK
<1>5. /\ rowCount' = rowCount /\ row' \in [RowIds -> Contents \cup {NoContent}]
      /\ submitted' \in Contents \cup {NoContent}
      /\ submitted # NoContent => submitted' # NoContent
      /\ c.id \in DraftRows => /\ submitted' = row[c.id] /\ submitted' # NoContent
                               /\ DraftRows' = DraftRows \ {c.id} /\ c.id \in RowIds
      /\ c.id \notin DraftRows => row' = row /\ submitted' = submitted /\ DraftRows' = DraftRows
  BY <1>1, <1>3, <1>4, FinalizeEffect
<1> HIDE DEF c
<1>6. Saves' = Saves /\ Mounted' = Mounted /\ (Finalizing => Finalizing')
  BY <1>4, <1>5 DEF Saves, Mounted, Finalizing
<1>7. submitted' = NoContent =>
        /\ row' = row /\ submitted = NoContent /\ DraftRows' = DraftRows
        /\ answer' = Failed /\ answer' \notin RowIds
  BY <1>4, <1>5, FormConstants
<1>8. \A d \in DraftRows' : d \in DraftRows /\ row'[d] = row[d]
  BY <1>1, <1>4, <1>5 DEF FinalizeRow, FormTypeOK, DraftRows
<1>9. FormTypeOK'
  BY <1>1, <1>4, <1>5, FormConstants DEF FormTypeOK
<1>10. RowsAreNumbered'
  <2>1. IsWorkedOff' => answer' <= rowCount
    BY <1>1, <1>3, <1>4, FormConstants DEF IsWorkedOff, RowsAreNumbered
  <2> QED
    BY <1>1, <1>4, <1>5, <1>7, <1>8, <2>1 DEF RowsAreNumbered
<1>11. CallsFitPage'
  BY <1>1, <1>2, <1>4, <1>5 DEF CallsFitPage
<1>12. formDraft \in DraftRows => row[formDraft] \in shown
  BY <1>1, <1>3 DEF SubmitsWhatIsShown, MaySubmit, Finalizing
<1>13. SubmitsWhatIsShown'
  <2>1. content \in shown /\ \A i \in Saves : calls[i].data \in shown
    BY <1>1, <1>3 DEF SubmitsWhatIsShown, CallsFitPage, Finalizing, Saves
  <2>2. ASSUME NEW d \in DraftRows', MaySubmit(d)', Finalizing' PROVE row'[d] \in shown
    <3>1. MaySubmit(d)
      BY <1>3, <1>4, <2>2 DEF MaySubmit, IsSave
    <3>2. CASE Finalizing
      BY <1>1, <1>8, <3>1, <3>2 DEF SubmitsWhatIsShown
    <3>3. CASE ~ Finalizing
      <4>1. c.id \in DraftRows /\ d # formDraft
        BY <1>3, <1>4, <1>5, <2>2, <3>3 DEF Finalizing
      <4>2. phase = "finalizing" /\ ~ \E e \in late : ~ IsSave(e)
        BY <1>3, <3>3 DEF Finalizing, IsSave
      <4> QED
        BY <1>3, <3>1, <4>1, <4>2 DEF MaySubmit, IsSave
    <3> QED
      BY <3>2, <3>3
  <2>3. formDraft \in DraftRows' => row'[formDraft] \in shown
    BY <1>8, <1>12
  <2> QED
    BY <1>1, <1>4, <1>6, <2>1, <2>2, <2>3 DEF SubmitsWhatIsShown
<1>14. ReportIsWhatWasShown'
  BY <1>1, <1>3, <1>4, <1>5, <1>12 DEF ReportIsWhatWasShown
<1>15. OneDraft'
  <2> SUFFICES ASSUME ~blind PROVE OneDraft'
    BY <1>4 DEF OneDraft
  <2>1. Saves = {}
    BY <1>1, <1>3, CallFacts DEF OneDraft
  <2>2. submitted' # NoContent => DraftRows' = {}
    <3>1. DraftRows \subseteq {1}
      BY <1>1 DEF OneDraft, RowsAreNumbered, FormTypeOK, DraftRows, RowIds
    <3> QED
      BY <1>1, <1>5, <3>1 DEF OneDraft
  <2> QED
    BY <1>1, <1>4, <1>5, <1>6, <2>1, <2>2 DEF OneDraft
<1>16. FormIsSaved'
  BY <1>1, <1>4, <1>5, <1>6, <1>7 DEF FormIsSaved, LastSave, Certain, Mounted
<1>17. HeadIsSaved'
  BY <1>7 DEF HeadIsSaved, IsWorkedOff
<1>20. CallsAreOrdered'
  BY <1>1, <1>4, <1>7 DEF CallsAreOrdered, IsWorkedOff
<1> QED
  BY <1>9, <1>10, <1>11, <1>13, <1>14, <1>15, <1>16, <1>17, <1>20 DEF FormInv

LEMMA ServerRefusesKeeps ==
  ASSUME FormInv, ServerRefuses
  PROVE  FormInv'
<1>1. /\ FormTypeOK /\ RowsAreNumbered /\ CallsFitPage /\ SubmitsWhatIsShown
      /\ ReportIsWhatWasShown /\ OneDraft /\ FormIsSaved /\ HeadIsSaved /\ CallsAreOrdered
  BY DEF FormInv
<1>2. /\ calls # << >> /\ answer' = Failed
      /\ UNCHANGED <<screen, phase, content, lastSaved, timer, formDraft, calls, pushed, late, strokes>>
      /\ UNCHANGED <<row, rowCount, submitted, shown, overdue, failed, latecomer, blind>>
  BY DEF ServerRefuses, draftRowVars, formGhosts
<1>3. /\ Saves' = Saves /\ Finalizing' = Finalizing /\ Certain' = Certain /\ ~ IsWorkedOff'
      /\ DraftRows' = DraftRows /\ answer' # Waiting /\ ~ Flushed'
  BY <1>2, FormConstants DEF Saves, Finalizing, Certain, IsWorkedOff, DraftRows, Mounted, Flushed
<1>4. FormTypeOK'
  BY <1>1, <1>2, FormConstants DEF FormTypeOK
<1>5. RowsAreNumbered'
  BY <1>1, <1>2, <1>3 DEF RowsAreNumbered
<1>6. CallsFitPage'
  BY <1>1, <1>2 DEF CallsFitPage
<1>7. SubmitsWhatIsShown'
  <2>1. \A d \in DraftRows : MaySubmit(d)' => MaySubmit(d)
    BY <1>2, <1>3 DEF MaySubmit, IsWorkedOff, DraftRows
  <2> QED
    BY <1>1, <1>2, <1>3, <2>1 DEF SubmitsWhatIsShown
<1>8. ReportIsWhatWasShown'
  BY <1>1, <1>2 DEF ReportIsWhatWasShown
<1>9. OneDraft'
  BY <1>1, <1>2, <1>3 DEF OneDraft
<1>10. FormIsSaved'
  BY <1>1, <1>2, <1>3 DEF FormIsSaved, LastSave
<1>11. HeadIsSaved'
  BY <1>3 DEF HeadIsSaved
<1>20. CallsAreOrdered'
  BY <1>1, <1>2, <1>3 DEF CallsAreOrdered
<1> QED
  BY <1>4, <1>5, <1>6, <1>7, <1>8, <1>9, <1>10, <1>11, <1>20 DEF FormInv

LEMMA LateSaves ==
  ASSUME FormInv, NEW c \in late, IsSave(c), late' = late \ {c}, Work(c),
         shown' = shown \cup {c.data}, latecomer' = TRUE,
         blind' = (blind \/ c.id \notin DraftRows),
         UNCHANGED <<screen, phase, content, lastSaved, timer, formDraft, calls, answer, pushed,
                     strokes, overdue, failed>>
  PROVE  FormInv'
<1> DEFINE d == SavedAs(c.id)
<1>1. /\ FormTypeOK /\ RowsAreNumbered /\ CallsFitPage /\ SubmitsWhatIsShown
      /\ ReportIsWhatWasShown /\ OneDraft /\ FormIsSaved /\ HeadIsSaved /\ CallsAreOrdered
  BY DEF FormInv
<1>2. /\ c \in Calls /\ c.id \in 0 .. MaxRows /\ c.data \in Contents /\ c.id <= rowCount
      /\ SaveRow(c.id, c.data)
  BY <1>1, CallFields DEF FormTypeOK, CallsFitPage, RowsAreNumbered, Work, IsSave
<1>3. /\ d \in RowIds
      /\ row' \in [RowIds -> Contents \cup {NoContent}] /\ rowCount' \in 0 .. MaxRows
      /\ rowCount <= rowCount' /\ submitted' = submitted
      /\ row'[d] = c.data
      /\ \A e \in RowIds : e # d => row'[e] = row[e]
      /\ DraftRows' = DraftRows \cup {d}
      /\ \A e \in DraftRows' : e <= rowCount'
      /\ submitted = NoContent => DraftRows' = 1 .. rowCount'
      /\ c.id \in DraftRows => d = c.id /\ rowCount' = rowCount
      /\ c.id \notin DraftRows => d = rowCount + 1 /\ rowCount' = rowCount + 1
  BY <1>1, <1>2, SaveEffect
<1> HIDE DEF d
<1>4. /\ Saves' = Saves /\ Mounted' = Mounted /\ IsWorkedOff' = IsWorkedOff /\ Flushed' = Flushed
      /\ Finalizing' = Finalizing /\ (Certain' => Certain)
  BY <1>3 DEF Saves, Mounted, IsWorkedOff, Flushed, Finalizing, Certain, IsSave
<1>5. rowCount \in Nat /\ rowCount' \in Nat /\ formDraft \in 0 .. MaxRows /\ pushed \in 0 .. MaxRows
      /\ DraftRows \subseteq RowIds /\ shown \subseteq Contents
  BY <1>1, <1>3, FormConstants DEF FormTypeOK, DraftRows
<1>6. FormTypeOK'
  BY <1>1, <1>2, <1>3, FormConstants DEF FormTypeOK
<1>7. RowsAreNumbered'
  <2>1. IsWorkedOff => answer \in Nat
    BY <1>1 DEF FormTypeOK
  <2> QED
    BY <1>1, <1>3, <1>4, <1>5, <2>1, CallFacts, CallFields DEF RowsAreNumbered, FormTypeOK
<1>8. CallsFitPage'
  BY <1>1, <1>3 DEF CallsFitPage
<1>9. SubmitsWhatIsShown'
  <2>1. ASSUME Finalizing, NEW e \in DraftRows', MaySubmit(e)' PROVE row'[e] \in shown'
    <3>1. CASE e # d
      <4>1. e \in DraftRows /\ row'[e] = row[e] /\ MaySubmit(e)
        BY <1>3, <1>5, <2>1, <3>1 DEF MaySubmit
      <4> QED
        BY <1>1, <2>1, <4>1 DEF SubmitsWhatIsShown
    <3> QED
      BY <1>3, <3>1
  <2>2. ASSUME formDraft \in DraftRows', phase = "finalizing" \/ Flushed PROVE row'[formDraft] \in shown'
    BY <1>1, <1>3, <1>5, <2>2 DEF SubmitsWhatIsShown
  <2> QED
    BY <1>1, <1>4, <2>1, <2>2 DEF SubmitsWhatIsShown
<1>10. ReportIsWhatWasShown'
  BY <1>1, <1>3 DEF ReportIsWhatWasShown
<1>11. OneDraft'
  <2> SUFFICES ASSUME ~blind' PROVE OneDraft'
    BY DEF OneDraft
  <2>1. ~blind /\ c.id \in DraftRows
    OBVIOUS
  <2>2. rowCount' = rowCount /\ DraftRows' = DraftRows
    BY <1>3, <2>1
  <2> QED
    BY <1>1, <1>3, <1>4, <2>1, <2>2 DEF OneDraft
<1>12. FormIsSaved'
  BY <1>1, <1>4 DEF FormIsSaved, LastSave
<1>13. HeadIsSaved'
  BY <1>1, <1>3, <1>4 DEF HeadIsSaved
<1>20. CallsAreOrdered'
  BY <1>1, <1>3, <1>4 DEF CallsAreOrdered
<1> QED
  BY <1>6, <1>7, <1>8, <1>9, <1>10, <1>11, <1>12, <1>13, <1>20 DEF FormInv

LEMMA LateFinalizes ==
  ASSUME FormInv, NEW c \in late, ~ IsSave(c), late' = late \ {c}, Work(c),
         UNCHANGED <<shown, latecomer, blind>>,
         UNCHANGED <<screen, phase, content, lastSaved, timer, formDraft, calls, answer, pushed,
                     strokes, overdue, failed>>
  PROVE  FormInv'
<1>1. /\ FormTypeOK /\ RowsAreNumbered /\ CallsFitPage /\ SubmitsWhatIsShown
      /\ ReportIsWhatWasShown /\ OneDraft /\ FormIsSaved /\ HeadIsSaved /\ CallsAreOrdered
  BY DEF FormInv
<1>2. c.id \in 0 .. MaxRows /\ FinalizeRow(c.id) /\ Finalizing
  BY <1>1, CallFields DEF FormTypeOK, Work, IsSave, Finalizing
<1>3. /\ rowCount' = rowCount /\ row' \in [RowIds -> Contents \cup {NoContent}]
      /\ submitted' \in Contents \cup {NoContent}
      /\ submitted # NoContent => submitted' # NoContent
      /\ c.id \in DraftRows => /\ submitted' = row[c.id] /\ submitted' # NoContent
                               /\ DraftRows' = DraftRows \ {c.id} /\ c.id \in RowIds
      /\ c.id \notin DraftRows => row' = row /\ submitted' = submitted /\ DraftRows' = DraftRows
  BY <1>1, <1>2, FinalizeEffect
<1>4. /\ Saves' = Saves /\ Mounted' = Mounted /\ IsWorkedOff' = IsWorkedOff /\ Flushed' = Flushed
      /\ (Finalizing' => Finalizing) /\ (Certain' => Certain)
  BY <1>2, <1>3 DEF Saves, Mounted, IsWorkedOff, Flushed, Finalizing, Certain
<1>5. submitted' = NoContent => row' = row /\ submitted = NoContent /\ DraftRows' = DraftRows
  BY <1>3
<1>6. \A d \in DraftRows' : d \in DraftRows /\ row'[d] = row[d]
  BY <1>1, <1>2 DEF FinalizeRow, FormTypeOK, DraftRows
<1>7. FormTypeOK'
  BY <1>1, <1>3 DEF FormTypeOK
<1>8. RowsAreNumbered'
  BY <1>1, <1>3, <1>4, <1>5, <1>6 DEF RowsAreNumbered
<1>9. CallsFitPage'
  BY <1>1, <1>3 DEF CallsFitPage
<1>10. SubmitsWhatIsShown'
  <2>1. \A d \in DraftRows' : MaySubmit(d)' => row'[d] \in shown
    <3>1. \A d \in DraftRows' : MaySubmit(d)' => MaySubmit(d)
      BY DEF MaySubmit
    <3> QED
      BY <1>1, <1>2, <1>6, <3>1 DEF SubmitsWhatIsShown
  <2> QED
    BY <1>1, <1>2, <1>4, <1>6, <2>1 DEF SubmitsWhatIsShown
<1>11. ReportIsWhatWasShown'
  BY <1>1, <1>2, <1>3 DEF ReportIsWhatWasShown, SubmitsWhatIsShown, MaySubmit
<1>12. OneDraft'
  <2> SUFFICES ASSUME ~blind PROVE OneDraft'
    BY DEF OneDraft
  <2>1. Saves = {}
    BY <1>1, <1>2 DEF OneDraft
  <2>2. submitted' # NoContent => DraftRows' = {}
    <3>1. DraftRows \subseteq {1}
      BY <1>1 DEF OneDraft, RowsAreNumbered, FormTypeOK, DraftRows, RowIds
    <3> QED
      BY <1>1, <1>3, <3>1 DEF OneDraft
  <2> QED
    BY <1>1, <1>3, <1>4, <2>1, <2>2 DEF OneDraft
<1>13. FormIsSaved'
  BY <1>1, <1>4, <1>5 DEF FormIsSaved, LastSave, Certain
<1>14. HeadIsSaved'
  BY <1>1, <1>4, <1>5 DEF HeadIsSaved
<1>20. CallsAreOrdered'
  BY <1>1, <1>3, <1>4 DEF CallsAreOrdered
<1> QED
  BY <1>7, <1>8, <1>9, <1>10, <1>11, <1>12, <1>13, <1>14, <1>20 DEF FormInv

LEMMA ChangeKeeps ==
  ASSUME FormInv, NEW c \in Contents, ChangeForm(c)
  PROVE  FormInv'
<1>1. /\ FormTypeOK /\ RowsAreNumbered /\ CallsFitPage /\ SubmitsWhatIsShown
      /\ ReportIsWhatWasShown /\ OneDraft /\ FormIsSaved /\ HeadIsSaved /\ CallsAreOrdered
  BY DEF FormInv
<1>2. /\ Mounted /\ content' = c /\ strokes < MaxStrokes /\ strokes' = strokes + 1
      /\ timer' = IF c = lastSaved THEN NoContent ELSE c
      /\ shown' = IF phase = "editing" /\ ~Finalizing THEN {} ELSE shown \cup {c}
      /\ overdue' = (overdue \/ (c = lastSaved /\ \E i \in Saves : calls[i].data # c))
      /\ UNCHANGED <<screen, phase, lastSaved, formDraft, calls, answer, pushed, late>>
      /\ UNCHANGED <<row, rowCount, submitted, failed, latecomer, blind>>
  BY DEF ChangeForm, Effect, draftRowVars
<1>3. /\ Saves' = Saves /\ Mounted' = Mounted /\ IsWorkedOff' = IsWorkedOff /\ Flushed' = Flushed
      /\ Finalizing' = Finalizing /\ (Certain' => Certain) /\ DraftRows' = DraftRows
  BY <1>2 DEF Saves, Mounted, IsWorkedOff, Flushed, Finalizing, Certain, DraftRows
<1>4. FormTypeOK'
  <2>1. strokes' \in 0 .. MaxStrokes /\ overdue' \in BOOLEAN
    BY <1>1, <1>2, FormConstants DEF FormTypeOK
  <2> QED
    BY <1>1, <1>2, <2>1 DEF FormTypeOK
<1>5. RowsAreNumbered'
  BY <1>1, <1>2, <1>3 DEF RowsAreNumbered
<1>6. CallsFitPage'
  BY <1>1, <1>2 DEF CallsFitPage
<1>7. SubmitsWhatIsShown'
  <2>1. Finalizing \/ phase \in {"flushing", "finalizing"} => shown' = shown \cup {c}
    BY <1>2
  <2>2. \A d \in DraftRows : MaySubmit(d)' = MaySubmit(d)
    BY <1>2 DEF MaySubmit
  <2> QED
    BY <1>1, <1>2, <1>3, <2>1, <2>2 DEF SubmitsWhatIsShown, Flushed
<1>8. ReportIsWhatWasShown'
  BY <1>1, <1>2 DEF ReportIsWhatWasShown, Finalizing
<1>9. OneDraft'
  BY <1>1, <1>2, <1>3 DEF OneDraft
<1>10. FormIsSaved'
  <2> SUFFICES ASSUME Certain' PROVE FormIsSaved'
    BY DEF FormIsSaved
  <2>1. Certain /\ (c = lastSaved => \A i \in Saves : calls[i].data = c)
    BY <1>2, <1>3 DEF Certain
  <2>2. timer' = NoContent => c = lastSaved
    BY <1>2, FormConstants
  <2> QED
    BY <1>1, <1>2, <1>3, <2>1, <2>2 DEF FormIsSaved, LastSave
<1>11. HeadIsSaved'
  BY <1>1, <1>2, <1>3 DEF HeadIsSaved
<1>20. CallsAreOrdered'
  BY <1>1, <1>2, <1>3 DEF CallsAreOrdered
<1> QED
  BY <1>4, <1>5, <1>6, <1>7, <1>8, <1>9, <1>10, <1>11, <1>20 DEF FormInv

LEMMA OpenRoundsKeeps ==
  ASSUME FormInv, OpenRounds
  PROVE  FormInv'
<1>1. /\ FormTypeOK /\ RowsAreNumbered /\ CallsFitPage /\ SubmitsWhatIsShown
      /\ ReportIsWhatWasShown /\ OneDraft /\ FormIsSaved /\ HeadIsSaved /\ CallsAreOrdered
  BY DEF FormInv
<1>2. /\ screen = "basics" /\ phase = "leaving"
      /\ pushed \in DraftRows /\ formDraft' = pushed
      /\ screen' = "rounds" /\ phase' = "editing"
      /\ content' = row[pushed] /\ lastSaved' = row[pushed] /\ timer' = NoContent
      /\ failed' = FALSE /\ latecomer' = FALSE
      /\ overdue' = (Saves # {})
      /\ shown' = IF Finalizing THEN shown \cup {row[pushed]} ELSE {}
      /\ UNCHANGED <<calls, answer, late, pushed, strokes, row, rowCount, submitted, blind>>
  BY DEF OpenRounds, LoadDraft, draftRowVars
<1>3. /\ Saves' = Saves /\ IsWorkedOff' = IsWorkedOff /\ ~ Flushed'
      /\ Finalizing' = Finalizing /\ DraftRows' = DraftRows
  BY <1>2 DEF Saves, IsWorkedOff, Flushed, Finalizing, DraftRows
<1>4. pushed \in RowIds /\ pushed # 0 /\ row[pushed] \in Contents
  BY <1>1, <1>2, FormConstants DEF DraftRows, FormTypeOK
<1>5. FormTypeOK'
  <2>1. shown' \in SUBSET Contents /\ overdue' \in BOOLEAN
    BY <1>1, <1>2, <1>4 DEF FormTypeOK
  <2> QED
    BY <1>1, <1>2, <1>4, <2>1 DEF FormTypeOK
<1>6. RowsAreNumbered'
  BY <1>1, <1>2, <1>3 DEF RowsAreNumbered
<1>7. CallsFitPage'
  BY <1>1, <1>2, <1>4 DEF CallsFitPage, IsSave
<1>8. SubmitsWhatIsShown'
  <2>1. \A d \in DraftRows : MaySubmit(d)' => MaySubmit(d)
    BY <1>2 DEF MaySubmit
  <2> QED
    BY <1>1, <1>2, <1>3, <2>1 DEF SubmitsWhatIsShown
<1>9. ReportIsWhatWasShown'
  BY <1>1, <1>2 DEF ReportIsWhatWasShown, Finalizing
<1>10. OneDraft'
  BY <1>1, <1>2, <1>3, <1>4 DEF OneDraft
<1>11. FormIsSaved'
  BY <1>2, <1>3 DEF FormIsSaved, LastSave, Certain
<1>12. HeadIsSaved'
  <2>1. calls # << >> => Head(calls).from # "rounds"
    BY <1>1, <1>2, CallFacts DEF CallsFitPage
  <2> QED
    BY <1>1, <1>2, <1>3, <2>1 DEF HeadIsSaved
<1>20. CallsAreOrdered'
  BY <1>1, <1>2, <1>3 DEF CallsAreOrdered
<1> QED
  BY <1>5, <1>6, <1>7, <1>8, <1>9, <1>10, <1>11, <1>12, <1>20 DEF FormInv

LEMMA OpenReportKeeps ==
  ASSUME FormInv, OpenReport
  PROVE  FormInv'
<1>1. /\ FormTypeOK /\ RowsAreNumbered /\ CallsFitPage /\ SubmitsWhatIsShown
      /\ ReportIsWhatWasShown /\ OneDraft /\ FormIsSaved /\ HeadIsSaved /\ CallsAreOrdered
  BY DEF FormInv
<1>2. /\ screen = "rounds" /\ phase = "leaving" /\ screen' = "left" /\ timer' = NoContent
      /\ UNCHANGED <<phase, content, lastSaved, formDraft, calls, answer, pushed, late, strokes>>
      /\ UNCHANGED <<row, rowCount, submitted, shown, overdue, failed, latecomer, blind>>
  BY DEF OpenReport, draftRowVars, formGhosts
<1>3. /\ Saves' = Saves /\ IsWorkedOff' = IsWorkedOff /\ Flushed' = Flushed
      /\ Finalizing' = Finalizing /\ DraftRows' = DraftRows
  BY <1>2 DEF Saves, IsWorkedOff, Flushed, Finalizing, DraftRows
<1>4. FormTypeOK'
  BY <1>1, <1>2 DEF FormTypeOK
<1>5. RowsAreNumbered'
  BY <1>1, <1>2, <1>3 DEF RowsAreNumbered
<1>6. CallsFitPage'
  BY <1>1, <1>2 DEF CallsFitPage
<1>7. SubmitsWhatIsShown'
  <2>1. \A d \in DraftRows : MaySubmit(d)' => MaySubmit(d)
    BY <1>2 DEF MaySubmit
  <2> QED
    BY <1>1, <1>2, <1>3, <2>1 DEF SubmitsWhatIsShown
<1>8. ReportIsWhatWasShown'
  BY <1>1, <1>2 DEF ReportIsWhatWasShown
<1>9. OneDraft'
  BY <1>1, <1>2, <1>3 DEF OneDraft
<1>10. FormIsSaved'
  BY <1>2 DEF FormIsSaved, Certain, Mounted
<1>11. HeadIsSaved'
  <2>1. submitted # NoContent
    BY <1>1, <1>2 DEF CallsFitPage
  <2> QED
    BY <1>2, <2>1 DEF HeadIsSaved
<1>20. CallsAreOrdered'
  BY <1>1, <1>2, <1>3 DEF CallsAreOrdered
<1> QED
  BY <1>4, <1>5, <1>6, <1>7, <1>8, <1>9, <1>10, <1>11, <1>20 DEF FormInv

\* A save of what the form shows: by the timer, by Continue, or by Submit.
LEMMA SendKeeps ==
  ASSUME FormInv, Mounted, NEW w \in {"auto", "continue", "flush"},
         calls' = SendTo(calls, w, content), timer' \in {timer, NoContent},
         blind' = (blind \/ BlindSave),
         \/ w = "auto" /\ phase' = phase /\ shown' = shown
         \/ w = "continue" /\ screen = "basics" /\ phase = "editing" /\ phase' = "continuing"
            /\ shown' = shown
         \/ w = "flush" /\ screen = "rounds" /\ phase = "editing" /\ phase' = "flushing"
            /\ shown' = (IF Finalizing THEN shown ELSE {}) \cup {content}
            /\ \A i \in Saves : calls[i].from # "rounds",
         UNCHANGED <<screen, content, lastSaved, formDraft, answer, pushed, late, strokes>>,
         UNCHANGED <<row, rowCount, submitted, overdue, failed, latecomer>>
  PROVE  FormInv'
<1> DEFINE n == Len(calls)
<1>1. /\ FormTypeOK /\ RowsAreNumbered /\ CallsFitPage /\ SubmitsWhatIsShown
      /\ ReportIsWhatWasShown /\ OneDraft /\ FormIsSaved /\ HeadIsSaved /\ CallsAreOrdered
  BY DEF FormInv
<1>2. /\ calls' \in Seq(Calls) /\ n \in Nat /\ DOMAIN calls = 1 .. n
      /\ Len(calls') = n + 1 /\ DOMAIN calls' = 1 .. (n + 1)
      /\ calls' # << >> /\ Head(calls') = calls'[1]
      /\ \A i \in DOMAIN calls : calls'[i] = calls[i]
      /\ calls'[n + 1].what = w /\ calls'[n + 1].id = formDraft
      /\ calls'[n + 1].data = content /\ calls'[n + 1].from = screen
      /\ DOMAIN calls' = DOMAIN calls \cup {n + 1} /\ n + 1 \notin DOMAIN calls
  BY <1>1, SendEffect, CallFacts DEF Mounted, FormTypeOK
<1> HIDE DEF n
<1>3. /\ Saves' = Saves \cup {n + 1} /\ Saves \subseteq DOMAIN calls
      /\ Mounted' = Mounted /\ IsWorkedOff' = IsWorkedOff /\ DraftRows' = DraftRows
      /\ Finalizing' = Finalizing /\ (Certain' => Certain)
  BY <1>2 DEF Saves, Mounted, IsWorkedOff, Finalizing, DraftRows, Certain
<1>4. ASSUME IsWorkedOff PROVE calls # << >> /\ 1 \in DOMAIN calls /\ Head(calls') = Head(calls)
  <2>1. calls # << >>
    BY <1>1, <1>4, FormConstants DEF CallsFitPage, IsWorkedOff
  <2> QED
    BY <1>1, <1>2, <2>1, CallFacts
<1>5. \A i \in DOMAIN calls : i < n + 1 /\ ~ (n + 1 < i)
  BY <1>2
<1>6. content \in Contents /\ w \in {"auto", "continue", "flush", "finalize"} /\ w # "finalize"
  BY <1>1 DEF FormTypeOK
<1>7. FormTypeOK'
  BY <1>1, <1>2, <1>6 DEF FormTypeOK
<1>8. RowsAreNumbered'
  BY <1>1, <1>2, <1>3 DEF RowsAreNumbered
<1>9. CallsFitPage'
  <2>1. \A i \in DOMAIN calls' : IsSave(calls'[i]) => calls'[i].data \in Contents
    BY <1>1, <1>2, <1>6 DEF CallsFitPage
  <2>2. screen = "basics" =>
          /\ phase' \in {"editing", "continuing", "leaving"} /\ (phase' = "leaving" => pushed # 0)
          /\ \A i \in DOMAIN calls' : calls'[i].from = "basics" /\ IsSave(calls'[i])
    BY <1>1, <1>2, <1>6 DEF CallsFitPage, IsSave
  <2>3. screen = "rounds" =>
          /\ formDraft # 0 /\ phase' \notin {"continuing"}
          /\ phase' = "leaving" => submitted # NoContent
    BY <1>1 DEF CallsFitPage
  <2>4. \A i \in DOMAIN calls' :
          /\ calls'[i].from = "rounds" => calls'[i].id = formDraft
          /\ calls'[i].what \in {"flush", "finalize"} => calls'[i].from = "rounds"
          /\ calls'[i].what = "continue" => calls'[i].from = "basics"
    BY <1>1, <1>2, <1>6 DEF CallsFitPage
  <2>5. \A i \in DOMAIN calls' : calls'[i].what = "flush" => phase' = "flushing"
    BY <1>1, <1>2, <1>6 DEF CallsFitPage
  <2>6. \A i \in DOMAIN calls' : ~IsSave(calls'[i]) => phase' = "finalizing"
    BY <1>1, <1>2, <1>6 DEF CallsFitPage, IsSave
  <2>7. phase' = "finalizing" => \A i \in DOMAIN calls' : calls'[i].from = "rounds"
    <3>1. phase' = "finalizing" => phase = "finalizing" /\ screen = "rounds"
      BY <1>1 DEF CallsFitPage, Mounted, FormTypeOK
    <3> QED
      BY <1>1, <1>2, <3>1 DEF CallsFitPage
  <2> QED
    BY <1>1, <1>2, <2>1, <2>2, <2>3, <2>4, <2>5, <2>6, <2>7 DEF CallsFitPage, Mounted
<1>10. CallsAreOrdered'
  <2>1. ASSUME NEW i \in DOMAIN calls', NEW j \in DOMAIN calls', i < j, calls'[i].from = "rounds"
        PROVE  calls'[j].from = "rounds"
    <3>1. i \in DOMAIN calls
      BY <1>2, <1>5, <2>1
    <3>2. CASE j \in DOMAIN calls
      BY <1>1, <1>2, <2>1, <3>1, <3>2 DEF CallsAreOrdered
    <3>3. CASE j = n + 1
      BY <1>1, <1>2, <2>1, <3>1, <3>3 DEF CallsFitPage, Mounted, FormTypeOK
    <3> QED
      BY <1>2, <3>2, <3>3
  <2>2. ASSUME NEW i \in DOMAIN calls', NEW j \in DOMAIN calls', calls'[i].what = calls'[j].what,
               calls'[i].what \in {"flush", "finalize"}
        PROVE  i = j
    <3>1. w = "flush" => \A k \in DOMAIN calls : calls[k].what # "flush"
      BY <1>1 DEF CallsFitPage
    <3> QED
      BY <1>1, <1>2, <1>6, <2>2, <3>1 DEF CallsAreOrdered
  <2>3. IsWorkedOff' /\ ~ IsSave(Head(calls')) => submitted' # NoContent
    BY <1>1, <1>3, <1>4 DEF CallsAreOrdered
  <2> QED
    BY <2>1, <2>2, <2>3 DEF CallsAreOrdered
<1>11. SubmitsWhatIsShown'
  <2>1. \A d \in DraftRows : MaySubmit(d)' => MaySubmit(d)
    <3>1. \A d \in DraftRows : d = answer => IsWorkedOff
      BY DEF IsWorkedOff, DraftRows
    <3> QED
      BY <1>1, <1>4, <3>1 DEF MaySubmit
  <2>2. Finalizing => shown \subseteq shown' /\ content \in shown
    BY <1>1 DEF SubmitsWhatIsShown
  <2>3. Finalizing => \A i \in Saves' : calls'[i].data \in shown'
    BY <1>1, <1>2, <1>3, <2>2 DEF SubmitsWhatIsShown
  <2>4. ASSUME phase' \in {"flushing", "finalizing"}
        PROVE  /\ content \in shown'
               /\ \A i \in Saves' : calls'[i].from = "rounds" => calls'[i].data \in shown'
    <3>1. CASE w = "flush"
      BY <1>2, <1>3, <3>1
    <3>2. CASE w = "auto"
      BY <1>1, <1>2, <1>3, <2>4, <3>2 DEF SubmitsWhatIsShown
    <3> QED
      BY <2>4, <3>1, <3>2
  <2>5. phase' = "finalizing" => phase = "finalizing" /\ shown' = shown
    OBVIOUS
  <2>6. ASSUME Flushed' PROVE Flushed /\ shown' = shown
    <3>1. IsWorkedOff /\ Head(calls).what = "flush" /\ calls # << >> /\ phase' = "flushing"
      BY <1>3, <1>4, <2>6 DEF Flushed
    <3>2. phase = "flushing"
      BY <1>1, <1>4, <3>1, CallFacts DEF CallsFitPage
    <3> QED
      BY <3>1, <3>2 DEF Flushed
  <2> QED
    BY <1>1, <1>3, <2>1, <2>2, <2>3, <2>4, <2>5, <2>6 DEF SubmitsWhatIsShown
<1>12. ReportIsWhatWasShown'
  BY <1>1 DEF ReportIsWhatWasShown, Finalizing
<1>13. OneDraft'
  <2> SUFFICES ASSUME ~blind' PROVE OneDraft'
    BY DEF OneDraft
  <2>1. ~blind /\ ~Finalizing /\ submitted = NoContent
    BY DEF BlindSave, Finalizing
  <2>2. Saves = DOMAIN calls
    BY DEF BlindSave, Saves
  <2>3. ASSUME formDraft = 0 PROVE n = 0 /\ rowCount = 0 /\ Saves = {}
    <3>1. DraftRows = {} /\ Saves = {}
      BY <2>3 DEF BlindSave
    <3>2. 1 .. rowCount = {} /\ 1 .. n = {}
      BY <1>1, <1>2, <2>1, <2>2, <3>1 DEF RowsAreNumbered
    <3> QED
      BY <1>1, <1>2, <3>1, <3>2, FormConstants DEF FormTypeOK
  <2>4. formDraft = 0 => pushed = formDraft
    BY <1>1, <2>3, FormConstants DEF RowsAreNumbered, FormTypeOK
  <2>5. screen = "basics" /\ phase' = "leaving" => pushed = formDraft
    BY <1>1, <2>1, <2>4 DEF OneDraft
  <2>6. formDraft = 0 => Len(calls') = 1
    BY <1>2, <2>3
  <2>7. DOMAIN calls' = Saves' /\ (\A i \in Saves' : calls'[i].id = formDraft)
    BY <1>1, <1>2, <1>3, <2>1, <2>2 DEF OneDraft
  <2> QED
    BY <1>1, <1>3, <2>1, <2>3, <2>5, <2>6, <2>7 DEF OneDraft
<1>14. FormIsSaved'
  <2> SUFFICES ASSUME Certain' PROVE FormIsSaved'
    BY DEF FormIsSaved
  <2>1. \A i \in Saves' : calls'[i].from = screen
    BY <1>1, <1>2, <1>3 DEF FormIsSaved
  <2>2. \A i \in DOMAIN calls' : LastSave(i)' => i = n + 1
    BY <1>2, <1>3, <1>5 DEF LastSave
  <2> QED
    BY <1>2, <1>3, <2>1, <2>2 DEF FormIsSaved
<1>15. HeadIsSaved'
  BY <1>1, <1>3, <1>4 DEF HeadIsSaved
<1> QED
  BY <1>7, <1>8, <1>9, <1>10, <1>11, <1>12, <1>13, <1>14, <1>15 DEF FormInv

LEMMA UserSends ==
  ASSUME FormInv, TimerFires \/ HandleContinue \/ HandleSubmit
  PROVE  FormInv'
<1>1. CallsFitPage
  BY DEF FormInv
<1>2. CASE TimerFires
  <2>1. /\ Mounted /\ timer = content /\ calls' = SendTo(calls, "auto", content)
        /\ timer' = NoContent /\ blind' = (blind \/ BlindSave) /\ phase' = phase /\ shown' = shown
        /\ UNCHANGED <<screen, content, lastSaved, formDraft, answer, pushed, late, strokes>>
        /\ UNCHANGED <<row, rowCount, submitted, overdue, failed, latecomer>>
    BY <1>1, <1>2 DEF TimerFires, CallsFitPage, draftRowVars
  <2> QED
    BY <2>1, SendKeeps
<1>3. CASE HandleContinue
  <2>1. /\ screen = "basics" /\ Mounted /\ calls' = SendTo(calls, "continue", content)
        /\ phase = "editing" /\ phase' = "continuing"
        /\ timer' = timer /\ blind' = (blind \/ BlindSave) /\ shown' = shown
        /\ UNCHANGED <<screen, content, lastSaved, formDraft, answer, pushed, late, strokes>>
        /\ UNCHANGED <<row, rowCount, submitted, overdue, failed, latecomer>>
    BY <1>3 DEF HandleContinue, Mounted, draftRowVars
  <2> QED
    BY <2>1, SendKeeps
<1>4. CASE HandleSubmit
  <2>1. /\ screen = "rounds" /\ Mounted /\ calls' = SendTo(calls, "flush", content)
        /\ phase = "editing" /\ phase' = "flushing"
        /\ timer' = timer /\ blind' = (blind \/ BlindSave)
        /\ shown' = (IF Finalizing THEN shown ELSE {}) \cup {content}
        /\ \A i \in Saves : calls[i].from # "rounds"
        /\ UNCHANGED <<screen, content, lastSaved, formDraft, answer, pushed, late, strokes>>
        /\ UNCHANGED <<row, rowCount, submitted, overdue, failed, latecomer>>
    BY <1>4 DEF HandleSubmit, CanSubmit, Mounted, draftRowVars
  <2> QED
    BY <2>1, SendKeeps
<1> QED
  BY <1>2, <1>3, <1>4

\* What is left of the queue once the first call is answered.
LEMMA AnswerFacts ==
  ASSUME FormInv, calls # << >>, calls' = Tail(calls), answer' = Waiting
  PROVE  /\ calls' \in Seq(Calls) /\ 1 \in DOMAIN calls /\ Head(calls) = calls[1]
         /\ Head(calls).what \in {"auto", "continue", "flush", "finalize"}
         /\ IsSave(Head(calls)) => 1 \in Saves
         /\ ~IsSave(Head(calls)) => 1 \notin Saves
         /\ \A i \in DOMAIN calls' : i + 1 \in DOMAIN calls /\ calls'[i] = calls[i + 1]
                                     /\ i + 1 # 1 /\ i \in Nat /\ i + 1 \in Nat
         /\ \A i \in Saves' : i \in DOMAIN calls' /\ i + 1 \in Saves
         /\ \A i \in DOMAIN calls' : i + 1 \in Saves => i \in Saves'
         /\ Saves' = {} => Saves \subseteq {1}
         /\ Saves \subseteq {1} => Saves' = {}
         /\ Len(calls) = 1 => Saves' = {} /\ calls' = << >>
         /\ \A i \in DOMAIN calls' : LastSave(i)' => LastSave(i + 1)
         /\ Saves \subseteq {1} /\ IsSave(Head(calls)) => LastSave(1)
         /\ ~IsWorkedOff' /\ ~Flushed' /\ Waiting \notin RowIds
         /\ answer # Waiting => (Ok <=> IsWorkedOff)
         /\ IsWorkedOff => answer \in 0 .. MaxRows /\ answer # 0
         /\ \A i, j \in DOMAIN calls' : i + 1 < j + 1 => i < j
         /\ \A i, j \in DOMAIN calls' : i < j => i + 1 < j + 1
         /\ \A i, j \in DOMAIN calls' : i + 1 = j + 1 => i = j
<1> DEFINE n == Len(calls)
<1>1. FormTypeOK
  BY DEF FormInv
<1>2. /\ calls' \in Seq(Calls) /\ n \in Nat /\ n > 0 /\ DOMAIN calls' = 1 .. (n - 1)
      /\ \A i \in DOMAIN calls' : i \in Nat /\ i + 1 \in DOMAIN calls /\ i + 1 # 1 /\ calls'[i] = calls[i + 1]
      /\ 1 \in DOMAIN calls /\ Head(calls) = calls[1] /\ Len(calls') = n - 1 /\ DOMAIN calls = 1 .. n
  BY <1>1, TailEffect, CallFacts
<1> HIDE DEF n
<1>3. Head(calls).what \in {"auto", "continue", "flush", "finalize"}
  BY <1>1, <1>2, CallFacts
<1>4. /\ IsSave(Head(calls)) => 1 \in Saves
      /\ ~IsSave(Head(calls)) => 1 \notin Saves
  BY <1>2 DEF IsSave, Saves
<1>5. /\ \A i \in Saves' : i \in DOMAIN calls' /\ i + 1 \in Saves
      /\ \A i \in DOMAIN calls' : i + 1 \in Saves => i \in Saves'
  BY <1>2 DEF Saves
<1>6. ASSUME NEW i \in Saves PROVE i = 1 \/ (i - 1 \in Saves' /\ i = (i - 1) + 1 /\ i \in Nat)
  <2>1. i \in 1 .. n
    BY <1>2, <1>6 DEF Saves
  <2>2. i # 1 => i - 1 \in DOMAIN calls' /\ i = (i - 1) + 1
    BY <1>2, <2>1
  <2> QED
    BY <1>5, <1>6, <2>1, <2>2
<1>7. Saves' = {} => Saves \subseteq {1}
  BY <1>6
<1>8. Saves \subseteq {1} => Saves' = {}
  BY <1>2, <1>5
<1>9. Len(calls) = 1 => Saves' = {} /\ calls' = << >>
  <2>1. n = 1 => DOMAIN calls' = {} /\ Len(calls') = 0
    BY <1>2
  <2> QED
    BY <1>2, <1>5, <2>1 DEF n
<1>10. ASSUME NEW i \in DOMAIN calls', LastSave(i)' PROVE LastSave(i + 1)
  <2>1. i \in Saves' /\ \A j \in Saves' : j <= i
    BY <1>10 DEF LastSave
  <2>2. ASSUME NEW j \in Saves PROVE j <= i + 1
    BY <1>2, <1>6, <1>10, <2>1, <2>2
  <2> QED
    BY <1>5, <2>1, <2>2 DEF LastSave
<1>11. Saves \subseteq {1} /\ IsSave(Head(calls)) => LastSave(1)
  BY <1>4 DEF LastSave
<1>12. ~IsWorkedOff' /\ ~Flushed' /\ Waiting \notin RowIds
  BY FormConstants DEF IsWorkedOff, Flushed
<1>13. answer # Waiting => (Ok <=> IsWorkedOff)
  BY <1>1, FormBounds DEF Ok, IsWorkedOff, FormTypeOK, RowIds, Waiting, Failed
<1>14. IsWorkedOff => answer \in 0 .. MaxRows /\ answer # 0
  BY FormConstants DEF IsWorkedOff
<1>15. /\ \A i, j \in DOMAIN calls' : i + 1 < j + 1 => i < j
       /\ \A i, j \in DOMAIN calls' : i < j => i + 1 < j + 1
       /\ \A i, j \in DOMAIN calls' : i + 1 = j + 1 => i = j
  BY <1>2
<1> QED
  BY <1>2, <1>3, <1>4, <1>5, <1>7, <1>8, <1>9, <1>10, <1>11, <1>12, <1>13, <1>14, <1>15

\* The order of the calls does not change when the first is gone.
LEMMA TailIsOrdered ==
  ASSUME FormInv, calls # << >>, calls' = Tail(calls), answer' = Waiting
  PROVE  CallsAreOrdered'
<1>1. CallsAreOrdered
  BY DEF FormInv
<1> QED
  BY <1>1, AnswerFacts DEF CallsAreOrdered

\* What a save that was answered tells, while no save is blind.
LEMMA SaveAnswered ==
  ASSUME FormInv, calls # << >>, calls' = Tail(calls), answer' = Waiting, answer # Waiting,
         ~blind, IsSave(Head(calls)), Head(calls).from = screen
  PROVE  /\ submitted = NoContent /\ Head(calls).id = formDraft /\ ~Finalizing
         /\ Ok /\ Head(calls).id # 0 => answer = formDraft
         /\ Ok /\ ~latecomer => row[answer] = Head(calls).data
         /\ formDraft = 0 => Saves' = {} /\ calls' = << >>
<1>1. OneDraft /\ HeadIsSaved
  BY DEF FormInv
<1>2. 1 \in Saves /\ Head(calls) = calls[1]
  BY AnswerFacts
<1>3. ~Finalizing /\ submitted = NoContent /\ Head(calls).id = formDraft
  BY <1>1, <1>2 DEF OneDraft, Finalizing
<1>4. formDraft = 0 => Len(calls) = 1
  BY <1>1, <1>2 DEF OneDraft
<1>5. Ok => IsWorkedOff
  BY AnswerFacts
<1> QED
  BY <1>1, <1>3, <1>4, <1>5, AnswerFacts DEF HeadIsSaved

LEMMA AutosaveAnsweredKeeps ==
  ASSUME FormInv, AutosaveAnswered
  PROVE  FormInv'
<1> DEFINE c == Head(calls)
           First == Ok /\ c.id = 0
<1>1. /\ FormTypeOK /\ RowsAreNumbered /\ CallsFitPage /\ SubmitsWhatIsShown
      /\ ReportIsWhatWasShown /\ OneDraft /\ FormIsSaved /\ HeadIsSaved /\ CallsAreOrdered
  BY DEF FormInv
<1>2. /\ calls # << >> /\ answer # Waiting /\ c.what = "auto" /\ c.from = screen
      /\ calls' = Tail(calls) /\ answer' = Waiting /\ failed' = ~Ok
      /\ overdue' = (overdue /\ ~(Ok /\ Saves = {1} /\ c.data = content))
      /\ lastSaved' = (IF Ok THEN c.data ELSE lastSaved)
      /\ First => formDraft' = answer /\ timer' = (IF content = c.data THEN NoContent ELSE content)
      /\ ~First => formDraft' = formDraft /\ timer' = timer
      /\ UNCHANGED <<screen, phase, content, pushed, late, strokes>>
      /\ UNCHANGED <<row, rowCount, submitted, shown, latecomer, blind>>
  BY DEF AutosaveAnswered, TakeAnswer, Effect, draftRowVars
<1>3. /\ calls' \in Seq(Calls) /\ 1 \in DOMAIN calls /\ c = calls[1]
      /\ \A i \in DOMAIN calls' : i + 1 \in DOMAIN calls /\ calls'[i] = calls[i + 1]
      /\ \A i \in Saves' : i \in DOMAIN calls' /\ i + 1 \in Saves
      /\ \A i \in DOMAIN calls' : i + 1 \in Saves => i \in Saves'
      /\ IsSave(c) /\ 1 \in Saves
      /\ Saves' = {} => Saves \subseteq {1}
      /\ Saves \subseteq {1} => Saves' = {} /\ LastSave(1)
      /\ \A i \in DOMAIN calls' : LastSave(i)' => LastSave(i + 1)
      /\ ~IsWorkedOff' /\ ~Flushed' /\ Waiting \notin RowIds
      /\ (Ok <=> IsWorkedOff) /\ (IsWorkedOff => answer \in 0 .. MaxRows /\ answer # 0)
      /\ \A i, j \in DOMAIN calls' : i + 1 < j + 1 => i < j
  BY <1>2, AnswerFacts DEF IsSave
<1>4. /\ ~blind => /\ submitted = NoContent /\ c.id = formDraft
                   /\ Ok /\ c.id # 0 => answer = formDraft
                   /\ Ok /\ ~latecomer => row[answer] = c.data
                   /\ formDraft = 0 => Saves' = {} /\ calls' = << >>
  BY <1>2, <1>3, SaveAnswered
<1>5. c.data \in Contents /\ screen # "left" /\ (screen = "rounds" => c.id # 0)
  BY <1>1, <1>2, <1>3, CallFacts DEF CallsFitPage
<1>6. /\ DraftRows' = DraftRows /\ Finalizing' = Finalizing /\ Mounted' = Mounted
      /\ First => screen = "basics" /\ MaySubmit(answer)
  BY <1>1, <1>2, <1>3, <1>5 DEF DraftRows, Finalizing, Mounted, FormTypeOK, MaySubmit
<1> HIDE DEF c, First
<1>7. FormTypeOK'
  <2>1. First => answer \in 0 .. MaxRows
    BY <1>3 DEF First
  <2> QED
    BY <1>1, <1>2, <1>3, <1>5, <2>1, FormConstants DEF FormTypeOK
<1>8. RowsAreNumbered'
  BY <1>1, <1>2, <1>3, <1>6 DEF RowsAreNumbered, First
<1>9. CallsFitPage'
  <2>1. formDraft' = formDraft \/ screen = "basics"
    BY <1>2, <1>6
  <2>2. timer' \in {NoContent, content}
    BY <1>1, <1>2 DEF CallsFitPage
  <2>3. screen = "basics" => \A i \in DOMAIN calls' : calls'[i].from = "basics" /\ IsSave(calls'[i])
    BY <1>1, <1>3 DEF CallsFitPage
  <2>4. screen = "rounds" => formDraft' = formDraft
    BY <1>2, <1>6
  <2> QED
    BY <1>1, <1>2, <1>3, <1>5, <2>1, <2>2, <2>3, <2>4 DEF CallsFitPage, FormTypeOK
<1>10. CallsAreOrdered'
  BY <1>2, TailIsOrdered
<1>11. SubmitsWhatIsShown'
  <2>1. \A d \in DraftRows : MaySubmit(d)' => MaySubmit(d)
    BY <1>2, <1>3, <1>6 DEF MaySubmit, DraftRows
  <2>2. phase = "finalizing" => formDraft' = formDraft
    BY <1>1, <1>2, <1>6 DEF CallsFitPage
  <2> QED
    BY <1>1, <1>2, <1>3, <1>6, <2>1, <2>2 DEF SubmitsWhatIsShown
<1>12. ReportIsWhatWasShown'
  BY <1>1, <1>2 DEF ReportIsWhatWasShown
<1>13. OneDraft'
  <2> SUFFICES ASSUME ~blind PROVE OneDraft'
    BY <1>2 DEF OneDraft
  <2>1. formDraft' = 0 => formDraft = 0
    BY <1>2, <1>3 DEF First
  <2>2. formDraft' = formDraft \/ Saves' = {}
    BY <1>2, <1>4 DEF First
  <2>3. screen = "basics" /\ phase = "leaving" => pushed = formDraft /\ formDraft' = formDraft
    BY <1>1, <1>2, <1>3, <1>4 DEF OneDraft, CallsFitPage, First
  <2> QED
    BY <1>1, <1>2, <1>3, <1>4, <1>6, <2>1, <2>2, <2>3 DEF OneDraft
<1>14. FormIsSaved'
  <2> SUFFICES ASSUME Certain' PROVE FormIsSaved'
    BY DEF FormIsSaved
  <2>1. ~blind /\ submitted = NoContent /\ Mounted
    BY <1>2, <1>6 DEF Certain
  <2>2. ASSUME Ok, ~latecomer, formDraft' # 0 PROVE row[formDraft'] = lastSaved'
    BY <1>2, <1>4, <2>1, <2>2 DEF First
  <2>3. CASE overdue
    <3>1. Ok /\ Saves' = {} /\ content = lastSaved'
      BY <1>2, <1>3, <2>3 DEF Certain
    <3> QED
      BY <1>2, <2>2, <3>1 DEF FormIsSaved, LastSave
  <2>4. CASE ~overdue
    <3>1. Certain
      BY <2>1, <2>4 DEF Certain
    <3>2. \A i \in Saves' : calls'[i].from = screen
      BY <1>1, <1>3, <3>1 DEF FormIsSaved
    <3>3. timer' = NoContent => (First /\ content = c.data /\ Saves' = {}) \/ timer = NoContent
      BY <1>1, <1>2, <1>4, <2>1, FormConstants DEF First, FormTypeOK
    <3>4. timer' = NoContent => \A i \in DOMAIN calls' : LastSave(i)' => calls'[i].data = content
      BY <1>1, <1>3, <3>1, <3>3 DEF FormIsSaved, LastSave
    <3>5. ASSUME Saves' = {}, ~failed', timer' = NoContent PROVE content = lastSaved'
      <4>1. Ok /\ lastSaved' = c.data /\ LastSave(1)
        BY <1>2, <1>3, <3>5
      <4>2. timer = NoContent => c.data = content
        BY <1>1, <1>3, <3>1, <4>1 DEF FormIsSaved
      <4> QED
        BY <3>3, <3>5, <4>1, <4>2
    <3> QED
      BY <1>2, <2>2, <3>2, <3>4, <3>5 DEF FormIsSaved
  <2> QED
    BY <2>3, <2>4
<1>15. HeadIsSaved'
  BY <1>3 DEF HeadIsSaved
<1> QED
  BY <1>7, <1>8, <1>9, <1>10, <1>11, <1>12, <1>13, <1>14, <1>15 DEF FormInv

LEMMA ContinueAnsweredKeeps ==
  ASSUME FormInv, ContinueAnswered
  PROVE  FormInv'
<1> DEFINE c == Head(calls)
<1>1. /\ FormTypeOK /\ RowsAreNumbered /\ CallsFitPage /\ SubmitsWhatIsShown
      /\ ReportIsWhatWasShown /\ OneDraft /\ FormIsSaved /\ HeadIsSaved /\ CallsAreOrdered
  BY DEF FormInv
<1>2. /\ calls # << >> /\ answer # Waiting /\ c.what = "continue" /\ c.from = screen
      /\ calls' = Tail(calls) /\ answer' = Waiting /\ failed' = ~Ok
      /\ overdue' = (overdue /\ ~(Ok /\ Saves = {1} /\ c.data = content))
      /\ phase' = (IF Ok THEN "leaving" ELSE "editing")
      /\ pushed' = (IF Ok THEN answer ELSE pushed)
      /\ UNCHANGED <<screen, content, lastSaved, timer, formDraft, late, strokes>>
      /\ UNCHANGED <<row, rowCount, submitted, shown, latecomer, blind>>
  BY DEF ContinueAnswered, TakeAnswer, draftRowVars
<1>3. /\ calls' \in Seq(Calls) /\ 1 \in DOMAIN calls /\ c = calls[1]
      /\ \A i \in DOMAIN calls' : i + 1 \in DOMAIN calls /\ calls'[i] = calls[i + 1]
      /\ \A i \in Saves' : i \in DOMAIN calls' /\ i + 1 \in Saves
      /\ \A i \in DOMAIN calls' : i + 1 \in Saves => i \in Saves'
      /\ IsSave(c) /\ 1 \in Saves
      /\ Saves \subseteq {1} => Saves' = {}
      /\ \A i \in DOMAIN calls' : LastSave(i)' => LastSave(i + 1)
      /\ ~IsWorkedOff' /\ ~Flushed' /\ Waiting \notin RowIds
      /\ (Ok <=> IsWorkedOff) /\ (IsWorkedOff => answer \in 0 .. MaxRows /\ answer # 0)
      /\ \A i, j \in DOMAIN calls' : i + 1 < j + 1 => i < j
  BY <1>2, AnswerFacts DEF IsSave
<1>4. ~blind => /\ submitted = NoContent /\ c.id = formDraft
                /\ Ok /\ c.id # 0 => answer = formDraft
                /\ formDraft = 0 => Saves' = {} /\ calls' = << >>
  BY <1>2, <1>3, SaveAnswered
<1>5. screen = "basics" /\ \A i \in DOMAIN calls' : calls'[i].from = "basics" /\ IsSave(calls'[i])
  BY <1>1, <1>2, <1>3 DEF CallsFitPage
<1>6. /\ DraftRows' = DraftRows /\ Finalizing' = Finalizing /\ Mounted' = Mounted
      /\ Ok => MaySubmit(answer)
  BY <1>1, <1>2, <1>3 DEF DraftRows, Finalizing, Mounted, MaySubmit
<1> HIDE DEF c
<1>7. FormTypeOK'
  <2>1. pushed' \in 0 .. MaxRows
    BY <1>1, <1>2, <1>3 DEF FormTypeOK
  <2> QED
    BY <1>1, <1>2, <1>3, <2>1, FormConstants DEF FormTypeOK
<1>8. RowsAreNumbered'
  BY <1>1, <1>2, <1>3, <1>6 DEF RowsAreNumbered
<1>9. CallsFitPage'
  <2>1. Ok => pushed' # 0
    BY <1>2, <1>3
  <2> QED
    BY <1>1, <1>2, <1>3, <1>5, <2>1 DEF CallsFitPage, IsSave
<1>10. CallsAreOrdered'
  BY <1>2, TailIsOrdered
<1>11. SubmitsWhatIsShown'
  <2>1. \A d \in DraftRows : MaySubmit(d)' => MaySubmit(d)
    BY <1>2, <1>3, <1>6 DEF MaySubmit, DraftRows
  <2> QED
    BY <1>1, <1>2, <1>3, <1>6, <2>1 DEF SubmitsWhatIsShown
<1>12. ReportIsWhatWasShown'
  BY <1>1, <1>2 DEF ReportIsWhatWasShown
<1>13. OneDraft'
  <2> SUFFICES ASSUME ~blind PROVE OneDraft'
    BY <1>2 DEF OneDraft
  <2>1. phase' = "leaving" => pushed' = formDraft \/ (formDraft = 0 /\ Saves' = {})
    BY <1>2, <1>4
  <2> QED
    BY <1>1, <1>2, <1>3, <1>4, <1>6, <2>1 DEF OneDraft
<1>14. FormIsSaved'
  <2> SUFFICES ASSUME Certain' PROVE FormIsSaved'
    BY DEF FormIsSaved
  <2>1. ~blind /\ submitted = NoContent /\ Mounted
    BY <1>2, <1>6 DEF Certain
  <2>2. overdue => Saves' = {}
    BY <1>2, <1>3 DEF Certain
  <2>3. ~overdue => /\ \A i \in Saves' : calls'[i].from = screen
                    /\ timer = NoContent =>
                         \A i \in DOMAIN calls' : LastSave(i)' => calls'[i].data = content
    BY <1>1, <1>3, <2>1 DEF FormIsSaved, Certain
  <2> QED
    BY <1>2, <2>2, <2>3 DEF FormIsSaved, LastSave
<1>15. HeadIsSaved'
  BY <1>3 DEF HeadIsSaved
<1> QED
  BY <1>7, <1>8, <1>9, <1>10, <1>11, <1>12, <1>13, <1>14, <1>15 DEF FormInv

LEMMA FinalizeAnsweredKeeps ==
  ASSUME FormInv, FinalizeAnswered
  PROVE  FormInv'
<1> DEFINE c == Head(calls)
<1>1. /\ FormTypeOK /\ RowsAreNumbered /\ CallsFitPage /\ SubmitsWhatIsShown
      /\ ReportIsWhatWasShown /\ OneDraft /\ FormIsSaved /\ HeadIsSaved /\ CallsAreOrdered
  BY DEF FormInv
<1>2. /\ calls # << >> /\ answer # Waiting /\ c.what = "finalize" /\ c.from = screen
      /\ calls' = Tail(calls) /\ answer' = Waiting /\ failed' = failed
      /\ overdue' = (overdue /\ ~(Ok /\ Saves = {1} /\ c.data = content))
      /\ phase' = (IF Ok THEN "leaving" ELSE "editing")
      /\ UNCHANGED <<screen, content, lastSaved, timer, formDraft, pushed, late, strokes>>
      /\ UNCHANGED <<row, rowCount, submitted, shown, latecomer, blind>>
  BY DEF FinalizeAnswered, TakeAnswer, draftRowVars
<1>3. /\ calls' \in Seq(Calls) /\ 1 \in DOMAIN calls /\ c = calls[1]
      /\ \A i \in DOMAIN calls' : i + 1 \in DOMAIN calls /\ calls'[i] = calls[i + 1] /\ i + 1 # 1
      /\ \A i \in Saves' : i \in DOMAIN calls' /\ i + 1 \in Saves
      /\ \A i \in DOMAIN calls' : i + 1 \in Saves => i \in Saves'
      /\ ~IsSave(c) /\ 1 \notin Saves
      /\ Saves' = {} => Saves = {}
      /\ \A i \in DOMAIN calls' : LastSave(i)' => LastSave(i + 1)
      /\ ~IsWorkedOff' /\ ~Flushed' /\ Waiting \notin RowIds
      /\ (Ok <=> IsWorkedOff) /\ (Len(calls) = 1 => Saves' = {})
      /\ \A i, j \in DOMAIN calls' : i + 1 < j + 1 => i < j
  BY <1>2, AnswerFacts DEF IsSave
<1>4. screen = "rounds" /\ phase = "finalizing" /\ (Ok => submitted # NoContent)
  BY <1>1, <1>2, <1>3 DEF CallsFitPage, CallsAreOrdered
<1>5. \A i \in DOMAIN calls' : IsSave(calls'[i]) /\ calls'[i].what # "flush" /\ calls'[i].from = "rounds"
  BY <1>1, <1>2, <1>3, <1>4 DEF CallsAreOrdered, CallsFitPage, IsSave
<1>6. DraftRows' = DraftRows /\ Finalizing' = Finalizing /\ Mounted' = Mounted
  BY <1>2 DEF DraftRows, Finalizing, Mounted
<1> HIDE DEF c
<1>7. FormTypeOK'
  BY <1>1, <1>2, <1>3, FormConstants DEF FormTypeOK
<1>8. RowsAreNumbered'
  BY <1>1, <1>2, <1>3, <1>6 DEF RowsAreNumbered
<1>9. CallsFitPage'
  BY <1>1, <1>2, <1>3, <1>4, <1>5 DEF CallsFitPage
<1>10. CallsAreOrdered'
  BY <1>2, TailIsOrdered
<1>11. SubmitsWhatIsShown'
  <2>1. \A d \in DraftRows : MaySubmit(d)' => MaySubmit(d)
    BY <1>2, <1>3, <1>4 DEF MaySubmit, DraftRows
  <2> QED
    BY <1>1, <1>2, <1>3, <1>6, <2>1 DEF SubmitsWhatIsShown
<1>12. ReportIsWhatWasShown'
  BY <1>1, <1>2 DEF ReportIsWhatWasShown
<1>13. OneDraft'
  <2> SUFFICES ASSUME ~blind PROVE OneDraft'
    BY <1>2 DEF OneDraft
  <2>1. formDraft # 0
    BY <1>1, <1>4 DEF CallsFitPage
  <2> QED
    BY <1>1, <1>2, <1>3, <1>4, <1>6, <2>1 DEF OneDraft
<1>14. FormIsSaved'
  <2> SUFFICES ASSUME Certain' PROVE FormIsSaved'
    BY DEF FormIsSaved
  <2>1. Certain /\ ~Ok
    BY <1>2, <1>4, <1>6 DEF Certain
  <2> QED
    BY <1>1, <1>2, <1>3, <1>4, <2>1 DEF FormIsSaved, LastSave
<1>15. HeadIsSaved'
  BY <1>3 DEF HeadIsSaved
<1> QED
  BY <1>7, <1>8, <1>9, <1>10, <1>11, <1>12, <1>13, <1>14, <1>15 DEF FormInv

LEMMA AnswerToNobodyKeeps ==
  ASSUME FormInv, AnswerToNobody
  PROVE  FormInv'
<1> DEFINE c == Head(calls)
<1>1. /\ FormTypeOK /\ RowsAreNumbered /\ CallsFitPage /\ SubmitsWhatIsShown
      /\ ReportIsWhatWasShown /\ OneDraft /\ FormIsSaved /\ HeadIsSaved /\ CallsAreOrdered
  BY DEF FormInv
<1>2. /\ calls # << >> /\ answer # Waiting /\ c.from # screen
      /\ calls' = Tail(calls) /\ answer' = Waiting
      /\ UNCHANGED <<screen, phase, content, lastSaved, timer, formDraft, pushed, late, strokes>>
      /\ UNCHANGED <<row, rowCount, submitted, shown, overdue, failed, latecomer, blind>>
  BY DEF AnswerToNobody, draftRowVars, formGhosts
<1>3. /\ calls' \in Seq(Calls) /\ 1 \in DOMAIN calls /\ c = calls[1]
      /\ \A i \in DOMAIN calls' : i + 1 \in DOMAIN calls /\ calls'[i] = calls[i + 1]
      /\ \A i \in Saves' : i \in DOMAIN calls' /\ i + 1 \in Saves
      /\ \A i \in DOMAIN calls' : i + 1 \in Saves => i \in Saves'
      /\ IsSave(c) => 1 \in Saves
      /\ ~IsWorkedOff' /\ ~Flushed' /\ Waiting \notin RowIds
      /\ Len(calls) = 1 => Saves' = {}
      /\ \A i, j \in DOMAIN calls' : i + 1 < j + 1 => i < j
  BY <1>2, AnswerFacts
<1>4. screen # "basics"
  BY <1>1, <1>2, <1>3 DEF CallsFitPage
<1>5. ~Certain
  <2>1. screen = "rounds" => c.from = "basics" /\ 1 \in Saves
    BY <1>1, <1>2, <1>3, CallFacts DEF CallsFitPage, IsSave
  <2> QED
    BY <1>1, <1>2, <1>3, <1>4, <2>1 DEF FormIsSaved, Certain, Mounted, FormTypeOK
<1>6. DraftRows' = DraftRows /\ Finalizing' = Finalizing /\ Mounted' = Mounted /\ Certain' = Certain
  BY <1>2 DEF DraftRows, Finalizing, Mounted, Certain
<1> HIDE DEF c
<1>7. FormTypeOK'
  BY <1>1, <1>2, <1>3, FormConstants DEF FormTypeOK
<1>8. RowsAreNumbered'
  BY <1>1, <1>2, <1>3, <1>6 DEF RowsAreNumbered
<1>9. CallsFitPage'
  BY <1>1, <1>2, <1>3, <1>4 DEF CallsFitPage
<1>10. CallsAreOrdered'
  BY <1>2, TailIsOrdered
<1>11. SubmitsWhatIsShown'
  <2>1. \A d \in DraftRows : MaySubmit(d)' => MaySubmit(d)
    BY <1>2, <1>3 DEF MaySubmit, DraftRows
  <2> QED
    BY <1>1, <1>2, <1>3, <1>6, <2>1 DEF SubmitsWhatIsShown
<1>12. ReportIsWhatWasShown'
  BY <1>1, <1>2 DEF ReportIsWhatWasShown
<1>13. OneDraft'
  BY <1>1, <1>2, <1>3, <1>4, <1>6 DEF OneDraft
<1>14. FormIsSaved'
  BY <1>5, <1>6 DEF FormIsSaved
<1>15. HeadIsSaved'
  BY <1>3 DEF HeadIsSaved
<1> QED
  BY <1>7, <1>8, <1>9, <1>10, <1>11, <1>12, <1>13, <1>14, <1>15 DEF FormInv

LEMMA BackToBasicsKeeps ==
  ASSUME FormInv, BackToBasics
  PROVE  FormInv'
<1>1. /\ FormTypeOK /\ RowsAreNumbered /\ CallsFitPage /\ SubmitsWhatIsShown
      /\ ReportIsWhatWasShown /\ OneDraft /\ FormIsSaved /\ HeadIsSaved /\ CallsAreOrdered
  BY DEF FormInv
<1>2. /\ formDraft \in DraftRows /\ formDraft' = formDraft
      /\ screen' = "basics" /\ phase' = "editing"
      /\ content' = row[formDraft] /\ lastSaved' = row[formDraft] /\ timer' = NoContent
      /\ calls' = << >> /\ answer' = Waiting
      /\ failed' = FALSE /\ latecomer' = FALSE /\ overdue' = FALSE
      /\ shown' = IF Finalizing' THEN shown \cup {row[formDraft]} ELSE {}
      /\ UNCHANGED <<pushed, strokes, row, rowCount, submitted, blind>>
      /\ screen = "rounds"
      /\ late' = IF calls # << >> /\ answer = Waiting THEN late \cup {Head(calls)} ELSE late
  BY DEF BackToBasics, LoadDraft, draftRowVars
<1>3. row[formDraft] \in Contents /\ formDraft \in RowIds /\ formDraft # 0
  BY <1>1, <1>2, FormConstants DEF DraftRows, FormTypeOK
<1>4. calls # << >> =>
        /\ Head(calls) \in Calls /\ Head(calls).id <= rowCount
        /\ IsSave(Head(calls)) => Head(calls).data \in Contents
        /\ ~IsSave(Head(calls)) => Head(calls).id = formDraft
  BY <1>1, CallFacts DEF CallsFitPage, RowsAreNumbered, IsSave
<1>5. \A c \in late' : /\ c \in Calls /\ c.id <= rowCount
                       /\ IsSave(c) => c.data \in Contents
                       /\ ~IsSave(c) => c \in late \/ c.id = formDraft
  BY <1>1, <1>2, <1>4 DEF FormTypeOK, CallsFitPage, RowsAreNumbered
<1>6. DOMAIN calls' = {} /\ Saves' = {} /\ calls' \in Seq(Calls) /\ DraftRows' = DraftRows
  <2>1. calls' \in Seq(Calls)
    BY <1>2
  <2> QED
    BY <1>2, <2>1, QueueFacts DEF Saves, DraftRows
<1>7. ~IsWorkedOff' /\ ~Flushed'
  BY <1>2, FormConstants DEF IsWorkedOff, Flushed
<1>8. FormTypeOK'
  <2>1. shown' \in SUBSET Contents
    BY <1>1, <1>2, <1>3 DEF FormTypeOK
  <2>2. late' \in SUBSET Calls
    BY <1>5
  <2> QED
    BY <1>1, <1>2, <1>3, <1>6, <2>1, <2>2, FormConstants DEF FormTypeOK
<1>9. RowsAreNumbered'
  BY <1>1, <1>2, <1>5, <1>6, <1>7 DEF RowsAreNumbered
<1>10. CallsFitPage'
  BY <1>1, <1>2, <1>5, <1>6 DEF CallsFitPage
<1>11. CallsAreOrdered'
  BY <1>6, <1>7 DEF CallsAreOrdered
<1>12. SubmitsWhatIsShown'
  <2>1. ASSUME Finalizing', NEW d \in DraftRows, MaySubmit(d)', d # formDraft PROVE row[d] \in shown
    <3>1. PICK c \in late : ~IsSave(c) /\ c.id = d
      BY <1>2, <1>5, <1>6, <2>1 DEF MaySubmit
    <3>2. Finalizing /\ MaySubmit(d)
      BY <3>1 DEF Finalizing, MaySubmit, IsSave
    <3> QED
      BY <1>1, <2>1, <3>2 DEF SubmitsWhatIsShown
  <2> QED
    BY <1>2, <1>6, <1>7, <2>1 DEF SubmitsWhatIsShown
<1>13. ReportIsWhatWasShown'
  BY <1>1, <1>2 DEF ReportIsWhatWasShown, Finalizing
<1>14. OneDraft'
  BY <1>1, <1>2, <1>6 DEF OneDraft
<1>15. FormIsSaved'
  BY <1>2, <1>6 DEF FormIsSaved, LastSave
<1>16. HeadIsSaved'
  BY <1>7 DEF HeadIsSaved
<1> QED
  BY <1>8, <1>9, <1>10, <1>11, <1>12, <1>13, <1>14, <1>15, <1>16 DEF FormInv

\* The first call leaves the queue, and the finalize goes to its end.
LEMMA FlushFacts ==
  ASSUME FormInv, calls # << >>, calls' = SendTo(Tail(calls), "finalize", NoContent),
         answer' = Waiting, IsSave(Head(calls)), screen = "rounds", NEW m, m = Len(calls)
  PROVE  /\ calls' \in Seq(Calls) /\ calls' # << >> /\ m \in DOMAIN calls' /\ 1 \in DOMAIN calls
         /\ Head(calls) = calls[1] /\ 1 \in Saves
         /\ \A i \in DOMAIN calls' : i = m \/ (i < m /\ ~(m < i) /\ i + 1 \in DOMAIN calls
                                               /\ calls'[i] = calls[i + 1] /\ i + 1 # 1)
         /\ calls'[m].what = "finalize" /\ calls'[m].id = formDraft /\ calls'[m].from = "rounds"
         /\ \A i \in Saves' : i \in DOMAIN calls' /\ i + 1 \in Saves /\ i # m /\ calls'[i] = calls[i + 1]
         /\ \A i \in DOMAIN calls' : i # m /\ i + 1 \in Saves => i \in Saves'
         /\ Saves' = {} => Saves \subseteq {1}
         /\ Saves \subseteq {1} => Saves' = {} /\ LastSave(1)
         /\ \A i \in DOMAIN calls' : LastSave(i)' => LastSave(i + 1)
         /\ ~IsWorkedOff' /\ ~Flushed' /\ Waiting \notin RowIds
         /\ \A i, j \in DOMAIN calls' : (i < j => i + 1 < j + 1) /\ (i + 1 = j + 1 => i = j)
         /\ \A j \in DOMAIN calls' : ~(m < j)
<1> DEFINE q == Tail(calls)
           k == Len(q)
<1>1. FormTypeOK
  BY DEF FormInv
<1>2. /\ q \in Seq(Calls) /\ m \in Nat /\ m > 0
      /\ k = m - 1 /\ DOMAIN q = 1 .. (m - 1)
      /\ \A i \in DOMAIN q : i \in Nat /\ i + 1 \in DOMAIN calls /\ i + 1 # 1 /\ q[i] = calls[i + 1]
      /\ 1 \in DOMAIN calls /\ Head(calls) = calls[1] /\ DOMAIN calls = 1 .. m
  BY <1>1, TailEffect, CallFacts
<1> HIDE DEF q
<1>3. /\ calls' \in Seq(Calls) /\ DOMAIN calls' = 1 .. (k + 1)
      /\ calls' # << >>
      /\ \A i \in DOMAIN q : calls'[i] = q[i]
      /\ calls'[k + 1].what = "finalize" /\ calls'[k + 1].id = formDraft
      /\ calls'[k + 1].from = screen
  BY <1>1, <1>2, SendEffect DEF q
<1> HIDE DEF k
<1>4. k + 1 = m /\ DOMAIN calls' = 1 .. m
  BY <1>2, <1>3
<1>5. /\ calls'[m].what = "finalize" /\ calls'[m].id = formDraft /\ calls'[m].from = "rounds"
      /\ m \in DOMAIN calls'
  BY <1>2, <1>3, <1>4
<1>6. ASSUME NEW i \in DOMAIN calls'
      PROVE  i = m \/ (i < m /\ ~(m < i) /\ i + 1 \in DOMAIN calls
                       /\ calls'[i] = calls[i + 1] /\ i + 1 # 1)
  <2>1. i \in 1 .. m /\ (i # m => i \in DOMAIN q /\ i < m /\ ~(m < i))
    BY <1>2, <1>4
  <2> QED
    BY <1>2, <1>3, <2>1
<1>7. 1 \in Saves
  BY <1>2 DEF IsSave, Saves
<1>8. /\ \A i \in Saves' : i \in DOMAIN calls' /\ i + 1 \in Saves /\ i # m /\ calls'[i] = calls[i + 1]
      /\ \A i \in DOMAIN calls' : i # m /\ i + 1 \in Saves => i \in Saves'
  BY <1>5, <1>6 DEF Saves
<1>9. ASSUME NEW i \in Saves PROVE i = 1 \/ (i - 1 \in Saves' /\ i = (i - 1) + 1 /\ i \in Nat)
  <2>1. i \in 1 .. m
    BY <1>2, <1>9 DEF Saves
  <2>2. i # 1 => i - 1 \in DOMAIN calls' /\ i = (i - 1) + 1 /\ i - 1 # m
    BY <1>2, <1>4, <2>1
  <2> QED
    BY <1>8, <1>9, <2>1, <2>2
<1>10. Saves' = {} => Saves \subseteq {1}
  BY <1>9
<1>11. Saves \subseteq {1} => Saves' = {} /\ LastSave(1)
  BY <1>6, <1>7, <1>8 DEF LastSave
<1>12. ASSUME NEW i \in DOMAIN calls', LastSave(i)' PROVE LastSave(i + 1)
  <2>1. i \in Saves' /\ \A j \in Saves' : j <= i
    BY <1>12 DEF LastSave
  <2>2. ASSUME NEW j \in Saves PROVE j <= i + 1
    BY <1>4, <1>9, <1>12, <2>1, <2>2
  <2> QED
    BY <1>8, <2>1, <2>2 DEF LastSave
<1>13. ~IsWorkedOff' /\ ~Flushed' /\ Waiting \notin RowIds
  BY FormConstants DEF IsWorkedOff, Flushed
<1>14. /\ \A i, j \in DOMAIN calls' : (i < j => i + 1 < j + 1) /\ (i + 1 = j + 1 => i = j)
       /\ \A j \in DOMAIN calls' : ~(m < j)
  BY <1>2, <1>4
<1> QED
  BY <1>2, <1>3, <1>5, <1>6, <1>7, <1>8, <1>10, <1>11, <1>12, <1>13, <1>14

LEMMA FlushAnsweredKeeps ==
  ASSUME FormInv, FlushAnswered
  PROVE  FormInv'
<1> DEFINE c == Head(calls)
<1>1. /\ FormTypeOK /\ RowsAreNumbered /\ CallsFitPage /\ SubmitsWhatIsShown
      /\ ReportIsWhatWasShown /\ OneDraft /\ FormIsSaved /\ HeadIsSaved /\ CallsAreOrdered
  BY DEF FormInv
<1>2. /\ calls # << >> /\ answer # Waiting /\ c.what = "flush" /\ c.from = screen
      /\ answer' = Waiting /\ failed' = ~Ok
      /\ overdue' = (overdue /\ ~(Ok /\ Saves = {1} /\ c.data = content))
      /\ lastSaved' = (IF Ok THEN c.data ELSE lastSaved)
      /\ phase' = (IF Ok THEN "finalizing" ELSE "editing")
      /\ calls' = (IF Ok THEN SendTo(Tail(calls), "finalize", NoContent) ELSE Tail(calls))
      /\ UNCHANGED <<screen, content, timer, formDraft, pushed, late, strokes>>
      /\ UNCHANGED <<row, rowCount, submitted, shown, latecomer, blind>>
  BY DEF FlushAnswered, TakeAnswer, draftRowVars
<1>3. /\ 1 \in DOMAIN calls /\ c = calls[1] /\ IsSave(c) /\ 1 \in Saves
      /\ c.data \in Contents /\ screen = "rounds" /\ phase = "flushing" /\ c.id = formDraft
      /\ formDraft # 0
  BY <1>1, <1>2, CallFacts DEF CallsFitPage, IsSave, Saves
<1>4. \A i \in DOMAIN calls : IsSave(calls[i]) /\ calls[i].from = "rounds"
                              /\ (calls[i].what = "flush" => i = 1)
  <2>1. \A i \in DOMAIN calls : i \in Nat /\ (i = 1 \/ 1 < i)
    BY <1>1, CallFacts
  <2> QED
    BY <1>1, <1>2, <1>3, <2>1 DEF CallsFitPage, CallsAreOrdered
<1>5. /\ DraftRows' = DraftRows /\ Finalizing' = Finalizing /\ Mounted' = Mounted
      /\ answer \in 1 .. Failed
  BY <1>1, <1>2 DEF DraftRows, Finalizing, Mounted, FormTypeOK
<1>6. content \in shown /\ \A i \in Saves : calls[i].data \in shown
  BY <1>1, <1>3, <1>4, CallFacts DEF SubmitsWhatIsShown
<1>7. ReportIsWhatWasShown'
  BY <1>1, <1>2 DEF ReportIsWhatWasShown
<1>8. CASE ~Ok
  <2>1. calls' = Tail(calls) /\ phase' = "editing" /\ lastSaved' = lastSaved /\ failed'
        /\ overdue' = overdue
    BY <1>1, <1>2, <1>8 DEF FormTypeOK
  <2>2. /\ calls' \in Seq(Calls)
        /\ \A i \in DOMAIN calls' : i + 1 \in DOMAIN calls /\ calls'[i] = calls[i + 1] /\ i + 1 # 1
        /\ \A i \in Saves' : i \in DOMAIN calls' /\ i + 1 \in Saves
        /\ \A i \in DOMAIN calls' : i + 1 \in Saves => i \in Saves'
        /\ \A i \in DOMAIN calls' : LastSave(i)' => LastSave(i + 1)
        /\ ~IsWorkedOff' /\ ~Flushed' /\ Waiting \notin RowIds
        /\ \A i, j \in DOMAIN calls' : i + 1 < j + 1 => i < j
    BY <1>2, <2>1, AnswerFacts
  <2> HIDE DEF c
  <2>3. FormTypeOK'
    BY <1>1, <1>2, <2>1, <2>2, FormConstants DEF FormTypeOK
  <2>4. RowsAreNumbered'
    BY <1>1, <1>2, <1>5, <2>1, <2>2 DEF RowsAreNumbered
  <2>5. CallsFitPage'
    BY <1>1, <1>2, <1>3, <1>4, <2>1, <2>2 DEF CallsFitPage
  <2>6. CallsAreOrdered'
    BY <1>2, <2>1, TailIsOrdered
  <2>7. SubmitsWhatIsShown'
    <3>1. \A d \in DraftRows : MaySubmit(d)' => MaySubmit(d)
      BY <1>2, <2>1, <2>2 DEF MaySubmit, DraftRows
    <3> QED
      BY <1>1, <1>2, <1>5, <2>1, <2>2, <3>1 DEF SubmitsWhatIsShown
  <2>8. OneDraft'
    BY <1>1, <1>2, <1>3, <1>5, <2>1, <2>2 DEF OneDraft
  <2>9. FormIsSaved'
    <3>1. Certain' => Certain
      BY <1>2, <1>5, <2>1 DEF Certain
    <3> QED
      BY <1>1, <1>2, <2>1, <2>2, <3>1 DEF FormIsSaved, LastSave
  <2>10. HeadIsSaved'
    BY <2>2 DEF HeadIsSaved
  <2> QED
    BY <1>7, <2>3, <2>4, <2>5, <2>6, <2>7, <2>8, <2>9, <2>10 DEF FormInv
<1>9. CASE Ok
  <2> DEFINE m == Len(calls)
  <2>1. /\ calls' = SendTo(Tail(calls), "finalize", NoContent) /\ phase' = "finalizing"
        /\ lastSaved' = c.data /\ failed' = FALSE
        /\ overdue' = (overdue /\ ~(Saves = {1} /\ c.data = content))
    BY <1>2, <1>9
  <2>2. /\ calls' \in Seq(Calls) /\ calls' # << >> /\ m \in DOMAIN calls'
        /\ \A i \in DOMAIN calls' : i = m \/ (i < m /\ ~(m < i) /\ i + 1 \in DOMAIN calls
                                              /\ calls'[i] = calls[i + 1] /\ i + 1 # 1)
        /\ calls'[m].what = "finalize" /\ calls'[m].id = formDraft /\ calls'[m].from = "rounds"
        /\ \A i \in Saves' : i \in DOMAIN calls' /\ i + 1 \in Saves /\ i # m /\ calls'[i] = calls[i + 1]
        /\ \A i \in DOMAIN calls' : i # m /\ i + 1 \in Saves => i \in Saves'
        /\ Saves' = {} => Saves \subseteq {1}
        /\ Saves \subseteq {1} => Saves' = {} /\ LastSave(1)
        /\ \A i \in DOMAIN calls' : LastSave(i)' => LastSave(i + 1)
        /\ ~IsWorkedOff' /\ ~Flushed' /\ Waiting \notin RowIds
        /\ \A i, j \in DOMAIN calls' : (i < j => i + 1 < j + 1) /\ (i + 1 = j + 1 => i = j)
        /\ \A j \in DOMAIN calls' : ~(m < j)
    BY <1>2, <1>3, <2>1, FlushFacts
  <2>3. IsWorkedOff
    BY <1>2, <1>5, <1>9, FormBounds DEF Ok, IsWorkedOff, RowIds, Waiting, Failed
  <2> HIDE DEF c, m
  <2>4. FormTypeOK'
    BY <1>1, <1>2, <1>3, <2>1, <2>2, FormConstants DEF FormTypeOK
  <2>5. RowsAreNumbered'
    BY <1>1, <1>2, <1>5, <2>1, <2>2 DEF RowsAreNumbered
  <2>6. CallsFitPage'
    <3>1. \A i \in DOMAIN calls' :
            /\ calls'[i].from = "rounds" /\ calls'[i].id = formDraft /\ calls'[i].what # "flush"
            /\ calls'[i].what # "continue" /\ (IsSave(calls'[i]) => calls'[i].data \in Contents)
      BY <1>1, <1>4, <2>2 DEF CallsFitPage, IsSave
    <3> QED
      BY <1>1, <1>2, <1>3, <2>1, <2>2, <3>1 DEF CallsFitPage
  <2>7. CallsAreOrdered'
    <3>1. \A i \in DOMAIN calls' : i # m => IsSave(calls'[i]) /\ calls'[i].what # "flush"
      BY <1>4, <2>2
    <3>2. \A i \in DOMAIN calls' : calls'[i].from = "rounds"
      BY <1>4, <2>2
    <3> QED
      BY <2>2, <3>1, <3>2 DEF CallsAreOrdered, IsSave
  <2>8. SubmitsWhatIsShown'
    <3>1. \A d \in DraftRows : MaySubmit(d)' => MaySubmit(d)
      BY <1>2, <1>3, <2>1, <2>2 DEF MaySubmit, DraftRows
    <3>2. \A i \in Saves' : calls'[i].data \in shown
      BY <1>6, <2>2
    <3>3. formDraft \in DraftRows => row[formDraft] \in shown
      BY <1>1, <1>2, <1>3, <2>3 DEF SubmitsWhatIsShown, Flushed, c
    <3> QED
      BY <1>1, <1>2, <1>5, <1>6, <2>1, <3>1, <3>2, <3>3 DEF SubmitsWhatIsShown
  <2>9. OneDraft'
    <3> SUFFICES ASSUME ~blind PROVE OneDraft'
      BY <1>2 DEF OneDraft
    <3>1. ~Finalizing
      BY <1>1, <1>3 DEF OneDraft
    <3>2. \A i, j \in DOMAIN calls' : i \in Saves' /\ j \notin Saves' => i < j
      <4>1. \A j \in DOMAIN calls' : j # m => j \in Saves'
        BY <1>4, <2>2 DEF Saves, IsSave
      <4> QED
        BY <2>2, <4>1
    <3>3. \A i \in Saves' : calls'[i].id = formDraft
      BY <1>1, <2>2 DEF OneDraft
    <3> QED
      BY <1>1, <1>2, <1>3, <1>5, <2>1, <3>1, <3>2, <3>3 DEF OneDraft
  <2>10. FormIsSaved'
    <3> SUFFICES ASSUME Certain' PROVE FormIsSaved'
      BY DEF FormIsSaved
    <3>1. ~blind /\ submitted = NoContent /\ Mounted /\ screen = "rounds"
      BY <1>2, <1>3, <1>5 DEF Certain
    <3>2. ~latecomer => row[formDraft] = c.data
      BY <1>1, <1>2, <1>3, <2>3, <3>1 DEF HeadIsSaved, c
    <3>3. CASE overdue
      <4>1. Saves' = {} /\ content = lastSaved'
        BY <1>2, <2>1, <2>2, <3>3 DEF Certain
      <4> QED
        BY <1>2, <2>1, <3>2, <4>1 DEF FormIsSaved, LastSave
    <3>4. CASE ~overdue
      <4>1. Certain
        BY <3>1, <3>4 DEF Certain
      <4>2. \A i \in Saves' : calls'[i].from = screen
        BY <1>3, <1>4, <2>2 DEF Saves
      <4>3. timer = NoContent => \A i \in DOMAIN calls' : LastSave(i)' => calls'[i].data = content
        BY <1>1, <2>2, <4>1 DEF FormIsSaved, LastSave
      <4>4. Saves' = {} /\ timer = NoContent => c.data = content
        BY <1>1, <1>3, <2>2, <4>1 DEF FormIsSaved
      <4> QED
        BY <1>2, <2>1, <3>2, <4>2, <4>3, <4>4 DEF FormIsSaved
    <3> QED
      BY <3>3, <3>4
  <2>11. HeadIsSaved'
    BY <2>2 DEF HeadIsSaved
  <2> QED
    BY <1>7, <2>4, <2>5, <2>6, <2>7, <2>8, <2>9, <2>10, <2>11 DEF FormInv
<1> QED
  BY <1>8, <1>9

LEMMA ServerWorksKeeps ==
  ASSUME FormInv, ServerWorks
  PROVE  FormInv'
BY ServerSaves, ServerFinalizes

LEMMA LateWorksKeeps ==
  ASSUME FormInv, LateWorks
  PROVE  FormInv'
<1>1. PICK c \in late :
        /\ late' = late \ {c} /\ Work(c)
        /\ IF c.what = "finalize"
           THEN UNCHANGED <<shown, latecomer, blind>>
           ELSE /\ shown' = shown \cup {c.data}
                /\ latecomer' = TRUE
                /\ blind' = (blind \/ c.id \notin DraftRows)
        /\ UNCHANGED <<screen, phase, content, lastSaved, timer, formDraft, calls, answer, pushed,
                       strokes, overdue, failed>>
  BY DEF LateWorks
<1>2. CASE IsSave(c)
  BY <1>1, <1>2, LateSaves DEF IsSave
<1>3. CASE ~IsSave(c)
  BY <1>1, <1>3, LateFinalizes DEF IsSave
<1> QED
  BY <1>2, <1>3

LEMMA FormInitInv == FormInit => FormInv
<1> SUFFICES ASSUME FormInit PROVE FormInv
  OBVIOUS
<1> USE FormConstants
<1>1. calls = << >> /\ << >> \in Seq(Calls) /\ DOMAIN calls = {} /\ Saves = {}
  <2>1. << >> \in Seq(Calls)
    OBVIOUS
  <2> QED
    BY <2>1, QueueFacts DEF FormInit, Saves
<1>2. DraftRows = {} /\ 1 .. rowCount = {} /\ ~IsWorkedOff /\ ~Finalizing
  BY DEF FormInit, DraftRows, IsWorkedOff, Finalizing
<1>3. FormTypeOK
  <2>1. row \in [RowIds -> Contents \cup {NoContent}]
    BY DEF FormInit
  <2>2. calls \in Seq(Calls) /\ late \in SUBSET Calls /\ shown \in SUBSET Contents
    BY <1>1 DEF FormInit
  <2>3. 0 \in 0 .. MaxStrokes
    OBVIOUS
  <2> QED
    BY <2>1, <2>2, <2>3 DEF FormInit, FormTypeOK
<1>4. RowsAreNumbered
  BY <1>1, <1>2 DEF FormInit, RowsAreNumbered
<1>5. CallsFitPage /\ CallsAreOrdered
  BY <1>1, <1>2 DEF FormInit, CallsFitPage, CallsAreOrdered
<1>6. SubmitsWhatIsShown /\ ReportIsWhatWasShown
  BY <1>1, <1>2 DEF FormInit, SubmitsWhatIsShown, ReportIsWhatWasShown, Flushed
<1>7. OneDraft /\ FormIsSaved /\ HeadIsSaved
  BY <1>1, <1>2 DEF FormInit, OneDraft, FormIsSaved, HeadIsSaved, LastSave
<1> QED
  BY <1>3, <1>4, <1>5, <1>6, <1>7 DEF FormInv

LEMMA FormStep == FormInv /\ [FormNext]_draftFormVars => FormInv'
<1> SUFFICES ASSUME FormInv, [FormNext]_draftFormVars PROVE FormInv'
  OBVIOUS
<1>1. CASE \E c \in Contents : ChangeForm(c)
  BY <1>1, ChangeKeeps
<1>2. CASE TimerFires \/ HandleContinue \/ HandleSubmit
  BY <1>2, UserSends
<1>3. CASE ServerWorks \/ ServerRefuses \/ LateWorks
  BY <1>3, ServerWorksKeeps, ServerRefusesKeeps, LateWorksKeeps
<1>4. CASE AutosaveAnswered \/ ContinueAnswered \/ FlushAnswered \/ FinalizeAnswered
  BY <1>4, AutosaveAnsweredKeeps, ContinueAnsweredKeeps, FlushAnsweredKeeps, FinalizeAnsweredKeeps
<1>5. CASE AnswerToNobody
  BY <1>5, AnswerToNobodyKeeps
<1>6. CASE OpenRounds \/ OpenReport \/ BackToBasics
  BY <1>6, OpenRoundsKeeps, OpenReportKeeps, BackToBasicsKeeps
<1>7. CASE UNCHANGED draftFormVars
  <2>1. /\ UNCHANGED <<screen, phase, content, lastSaved, timer, formDraft, calls, answer, pushed,
                       late, strokes, row, rowCount, submitted, shown, overdue, failed, latecomer, blind>>
    BY <1>7 DEF draftFormVars, formVars, formGhosts, draftRowVars
  <2>2. /\ FormTypeOK' = FormTypeOK /\ RowsAreNumbered' = RowsAreNumbered
        /\ CallsFitPage' = CallsFitPage /\ CallsAreOrdered' = CallsAreOrdered
    BY <2>1 DEF FormTypeOK, RowsAreNumbered, CallsFitPage, CallsAreOrdered, DraftRows, IsWorkedOff
  <2>3. /\ SubmitsWhatIsShown' = SubmitsWhatIsShown
        /\ ReportIsWhatWasShown' = ReportIsWhatWasShown
    BY <2>1 DEF SubmitsWhatIsShown, ReportIsWhatWasShown, Finalizing, Saves, DraftRows, MaySubmit,
                Flushed, IsWorkedOff
  <2>4. OneDraft' = OneDraft /\ FormIsSaved' = FormIsSaved /\ HeadIsSaved' = HeadIsSaved
    BY <2>1 DEF OneDraft, FormIsSaved, HeadIsSaved, Finalizing, Saves, DraftRows, IsWorkedOff, Certain,
                Mounted, LastSave
  <2> QED
    BY <2>2, <2>3, <2>4 DEF FormInv
<1> QED
  BY <1>1, <1>2, <1>3, <1>4, <1>5, <1>6, <1>7 DEF FormNext

LEMMA FormInvHolds == FormSpec => []FormInv
BY FormInitInv, FormStep, PTL DEF FormSpec

\* The state of the form, of its queue, of the late requests and of the draft rows
\* keeps its types, whatever the user does and the server answers.
THEOREM FormTypes == FormSpec => []FormTypeOK
<1>1. FormInv => FormTypeOK
  BY DEF FormInv
<1> QED
  BY <1>1, FormInvHolds, PTL

\* submit-form.tsx:155: a form at rest is saved, but for the four reasons named.
THEOREM FormSettledIsSaved == FormSpec => []SettledIsSaved
<1>1. FormInv => SettledIsSaved
  <2> SUFFICES ASSUME FormInv, screen # "left", phase = "editing", calls = << >>, timer = NoContent,
                      formDraft # 0, submitted = NoContent,
                      ~overdue, ~failed, ~latecomer, ~blind
               PROVE  row[formDraft] = content
    BY DEF SettledIsSaved
  <2>1. FormIsSaved /\ Saves = {} /\ Certain
    BY CallFacts DEF FormInv, Certain, Mounted
  <2> QED
    BY <2>1 DEF FormIsSaved
<1> QED
  BY <1>1, FormInvHolds, PTL

\* rounds-form.tsx:178, actions.ts:147: the report is what the form showed, and no
\* second draft is left of a form whose saves were not blind.
THEOREM FormReportAndDraftAgree == FormSpec => []ReportAndDraftAgree
<1>1. FormInv => ReportAndDraftAgree
  <2> SUFFICES ASSUME FormInv PROVE ReportIsWhatWasShown /\ StraysAreBlind
    BY DEF ReportAndDraftAgree
  <2>1. ReportIsWhatWasShown /\ OneDraft /\ RowsAreNumbered /\ FormTypeOK
    BY DEF FormInv
  <2>2. ASSUME ~blind PROVE Cardinality(DraftRows) <= 1
    <3>1. DraftRows \subseteq {1}
      BY <2>1, <2>2, FormConstants DEF OneDraft, RowsAreNumbered, FormTypeOK, DraftRows, RowIds
    <3>2. DraftRows = {} \/ DraftRows = {1}
      BY <3>1
    <3> QED
      BY <3>2, FS_EmptySet, FS_Singleton
  <2> QED
    BY <2>1, <2>2 DEF StraysAreBlind, OneDraft
<1> QED
  BY <1>1, FormInvHolds, PTL

-----------------------------------------------------------------------------
(* The comments thread.                                                    *)

\* A call for the first page that goes with the order on the screen, and one for
\* a page that follows.
FirstPage(asked) == asked.kind = "load" /\ asked.offset = 0 /\ asked.id = 0
NextPage(asked) == asked.kind = "load" /\ asked.offset # 0

ListShown(list) == IsPrefix(comments, list) /\ hasMore = (Len(list) > Len(comments))

NoneAsked(q) == \A i \in DOMAIN q : ~FirstPage(q[i])

\* A page is asked for in the order s, or another one was asked for since.
InOrder(q, s) ==
  \A i \in DOMAIN q : q[i].kind = "load" /\ q[i].id = 0 =>
    q[i].sort = s \/ \E j \in DOMAIN q : i < j /\ FirstPage(q[j])

\* A page that follows does so after the first n: no other page comes before it.
Follows(q, n) ==
  \A i \in DOMAIN q : NextPage(q[i]) =>
    /\ q[i].id = 0 /\ q[i].offset = n
    /\ \A j \in DOMAIN q : j < i => q[j].kind \in {"edit", "delete"}

\* While no first page is out, the screen has what it should.
ShownIsListed ==
  loadedOnce /\ ~drift /\ ~crossed /\ NoneAsked(outgoing)
    => ListShown(T!ListCommentsForReport(sort, likes))

CallsGoOn == InOrder(outgoing, sort) /\ Follows(outgoing, Len(comments))

\* A page can follow only what was shown.
MoreIsShown ==
  /\ hasMore => comments # << >>
  /\ comments # << >> => loadedOnce

ConversationInv == ConversationTypeOK /\ ShownIsListed /\ CallsGoOn /\ MoreIsShown

-----------------------------------------------------------------------------
\* The listing has rows of the thread.
ThreadOrder(s) == {p \in Nat \X Nat : T!ComesBefore(s, likes, p[1], p[2])}

LEMMA ThreadSize == ASSUME NEW S PROVE T!Cardinality(S) = Cardinality(S)
BY Zenon DEF T!Cardinality, Cardinality

LEMMA ThreadIsOrdered ==
  ASSUME NEW s, NEW S \in SUBSET Nat, \A c \in S : likes[c] \in Nat
  PROVE  Orders(ThreadOrder(s), S)
<1> DEFINE P(x, y) == T!ComesBefore(s, likes, x, y)
<1>1. \A x, y \in S : <<x, y>> \in ThreadOrder(s) <=> P(x, y)
  BY DEF ThreadOrder
<1>2. /\ \A x \in S : ~P(x, x)
      /\ \A x, y \in S : x # y => P(x, y) \/ P(y, x)
      /\ \A x, y, z \in S : P(x, y) /\ P(y, z) => P(x, z)
  BY DEF T!ComesBefore
<1> HIDE DEF P
<1> QED
  BY <1>1, <1>2 DEF Orders

LEMMA ThreadListing ==
  ASSUME thread \in Seq(T!CommentRow), Len(thread) <= MaxThread,
         likes \in [1..MaxThread -> 0..MaxLikes], NEW s
  PROVE  T!ListCommentsForReport(s, likes) \in Seq(DOMAIN thread)
<1> DEFINE list == T!ListCommentsForReport(s, likes)
           R == ThreadOrder(s)
           S == T!Listed
<1>0. PICK n \in Nat : n = Len(thread) /\ DOMAIN thread = 1 .. n /\ n <= MaxThread
  OBVIOUS
<1>1. S \in SUBSET (1 .. n)
  BY <1>0 DEF T!Listed
<1>2. IsFiniteSet(S) /\ S \in SUBSET Nat
  <2>1. IsFiniteSet(1 .. n) /\ 1 .. n \subseteq Nat
    BY FS_Interval
  <2> QED
    BY <1>1, <2>1, FS_Subset
<1>a. \A c \in S : likes[c] \in Nat
  BY <1>0, <1>1, ThreadAssumption
<1> HIDE DEF S
<1>3. Orders(R, S)
  BY <1>2, <1>a, ThreadIsOrdered
<1>4. PICK t : Lists(t, S, R)
  BY <1>2, <1>3, ListExists
<1>5. \A l \in [1 .. Cardinality(S) -> S] :
        Lists(l, S, R)
        <=> \A i, j \in DOMAIN l : i < j => T!ComesBefore(s, likes, l[i], l[j])
  BY <1>2 DEF Lists, ThreadOrder
<1>6. Lists(list, S, R)
  <2>1. t \in [1 .. Cardinality(S) -> S]
    BY <1>4 DEF Lists
  <2>2. list \in [1 .. Cardinality(S) -> S]
        /\ \A i, j \in DOMAIN list : i < j => T!ComesBefore(s, likes, list[i], list[j])
    BY <1>4, <1>5, <2>1, ThreadSize, Zenon DEF T!ListCommentsForReport, S
  <2> QED
    BY <1>5, <2>2
<1> HIDE DEF list, R
<1>7. list \in Seq(S) /\ S \subseteq DOMAIN thread
  BY <1>0, <1>1, <1>2, <1>3, <1>6, ListIs
<1>8. list \in Seq(DOMAIN thread)
  BY <1>7
<1> QED
  BY <1>8 DEF list

\* The listing is of the thread and its likes.
LEMMA SameListing ==
  ASSUME thread' = thread, likes' = likes, sort' = sort
  PROVE  T!ListCommentsForReport(sort, likes)' = T!ListCommentsForReport(sort, likes)
BY DEF T!ListCommentsForReport, T!Listed, T!ActiveComments, T!ComesBefore

\* What an answer brings, for the listing it is a page of.
LEMMA LoadIs ==
  ASSUME thread \in Seq(T!CommentRow), Len(thread) <= MaxThread,
         likes \in [1..MaxThread -> 0..MaxLikes], NEW s, NEW o \in Nat
  PROVE  LET res == T!LoadComments(s, likes, o)
             list == T!ListCommentsForReport(s, likes)
         IN  /\ list \in Seq(DOMAIN thread)
             /\ res.page \in Seq(DOMAIN thread) /\ res.hasMore \in BOOLEAN
             /\ PageOf(res.page, res.hasMore, list, o, ThreadPage)
<1> DEFINE list == T!ListCommentsForReport(s, likes)
<1>1. list \in Seq(DOMAIN thread)
  BY ThreadListing
<1> HIDE DEF list
<1>2. PICK k \in Nat : k = ThreadPage + 1 /\ ThreadPage \in Nat
  BY ThreadAssumption
<1>3. PICK r : r = Cut(list, o, k)
  OBVIOUS
<1>4. PICK p : p = Cut(r, 0, ThreadPage)
  OBVIOUS
<1>5. T!LoadComments(s, likes, o) = [page |-> p, hasMore |-> Len(r) > ThreadPage]
  BY <1>2, <1>3, <1>4, Zenon DEF T!LoadComments, T!Slice, Cut, list
<1>6. p \in Seq(DOMAIN thread) /\ PageOf(p, Len(r) > ThreadPage, list, o, ThreadPage)
  BY <1>1, <1>2, <1>3, <1>4, PageIs
<1>7. /\ T!LoadComments(s, likes, o).page = p
      /\ T!LoadComments(s, likes, o).hasMore = (Len(r) > ThreadPage)
      /\ T!LoadComments(s, likes, o).hasMore \in BOOLEAN
  BY <1>5
<1> QED
  BY <1>1, <1>6, <1>7 DEF list

-----------------------------------------------------------------------------
LEMMA CallsAfterTail ==
  ASSUME NEW q \in Seq(CallRow), q # << >>
  PROVE  /\ \A s : InOrder(q, s) => InOrder(Tail(q), s)
         /\ \A n : Follows(q, n) => Follows(Tail(q), n)
         /\ NoneAsked(Tail(q)) /\ ~FirstPage(Head(q)) => NoneAsked(q)
<1>1. /\ \A i \in DOMAIN Tail(q) : i \in Nat /\ i + 1 \in DOMAIN q /\ Tail(q)[i] = q[i + 1]
      /\ \A i \in DOMAIN q : i = 1 \/ i - 1 \in DOMAIN Tail(q)
      /\ Head(q) = q[1] /\ \A i \in DOMAIN q : i \in Nat
  <2>1. \A i \in DOMAIN q : i \in Nat
    OBVIOUS
  <2> QED
    BY <2>1, TailIs
<1> DEFINE t == Tail(q)
<1> HIDE DEF t
<1>2. /\ \A i \in DOMAIN t : i \in Nat /\ i + 1 \in DOMAIN q /\ t[i] = q[i + 1]
      /\ \A i \in DOMAIN q : i \in Nat /\ (i = 1 \/ i - 1 \in DOMAIN t)
  BY <1>1 DEF t
<1>3. ASSUME NEW s, InOrder(q, s) PROVE InOrder(t, s)
  <2> SUFFICES ASSUME NEW i \in DOMAIN t, t[i].kind = "load", t[i].id = 0, t[i].sort # s
               PROVE  \E j \in DOMAIN t : i < j /\ FirstPage(t[j])
    BY DEF InOrder
  <2>1. PICK j \in DOMAIN q : i + 1 < j /\ FirstPage(q[j])
    BY <1>2, <1>3 DEF InOrder
  <2>2. j - 1 \in DOMAIN t /\ i < j - 1 /\ t[j - 1] = q[j]
    BY <1>2, <2>1
  <2> QED
    BY <2>1, <2>2
<1>4. ASSUME NEW n, Follows(q, n) PROVE Follows(t, n)
  <2> SUFFICES ASSUME NEW i \in DOMAIN t, NextPage(t[i])
               PROVE  /\ t[i].id = 0 /\ t[i].offset = n
                      /\ \A j \in DOMAIN t : j < i => t[j].kind \in {"edit", "delete"}
    BY DEF Follows
  <2>1. /\ q[i + 1].id = 0 /\ q[i + 1].offset = n
        /\ \A j \in DOMAIN q : j < i + 1 => q[j].kind \in {"edit", "delete"}
    BY <1>2, <1>4 DEF Follows
  <2> QED
    BY <1>2, <2>1
<1>5. ASSUME NoneAsked(t), ~FirstPage(q[1]) PROVE NoneAsked(q)
  <2> SUFFICES ASSUME NEW i \in DOMAIN q PROVE ~FirstPage(q[i])
    BY DEF NoneAsked
  <2>1. CASE i = 1
    BY <2>1, <1>5
  <2>2. CASE i - 1 \in DOMAIN t
    <3>1. t[i - 1] = q[i]
      BY <1>2, <2>2
    <3> QED
      BY <2>2, <3>1, <1>5 DEF NoneAsked
  <2> QED
    BY <1>2, <2>1, <2>2
<1> QED
  BY <1>1, <1>3, <1>4, <1>5 DEF t

LEMMA CallsAfterAppend ==
  ASSUME NEW q \in Seq(CallRow), NEW c \in CallRow
  PROVE  /\ \A s : FirstPage(c) /\ c.sort = s => InOrder(Append(q, c), s)
         /\ \A s : InOrder(q, s) /\ (c.kind = "load" /\ c.id = 0 => c.sort = s) => InOrder(Append(q, c), s)
         /\ \A n : Follows(q, n) /\ ~NextPage(c) => Follows(Append(q, c), n)
         /\ \A n : /\ \A i \in DOMAIN q : q[i].kind \in {"edit", "delete"}
                   /\ c.id = 0 /\ c.offset = n
                   => Follows(Append(q, c), n)
         /\ NoneAsked(Append(q, c)) => NoneAsked(q) /\ ~FirstPage(c)
<1> DEFINE a == Append(q, c)
           m == Len(q) + 1
<1>1. /\ DOMAIN a = DOMAIN q \cup {m} /\ a[m] = c /\ \A i \in DOMAIN q : a[i] = q[i]
      /\ \A i \in DOMAIN q : i \in Nat /\ i < m
      /\ m \in Nat
  <2>1. \A i \in DOMAIN q : i \in Nat /\ i < m
    OBVIOUS
  <2> QED
    BY <2>1, AppendIs
<1> HIDE DEF a, m
<1>2. ASSUME NEW s, FirstPage(c), c.sort = s PROVE InOrder(a, s)
  BY <1>1, <1>2 DEF InOrder
<1>3. ASSUME NEW s, InOrder(q, s), c.kind = "load" /\ c.id = 0 => c.sort = s PROVE InOrder(a, s)
  BY <1>1, <1>3 DEF InOrder
<1>4. ASSUME NEW n, Follows(q, n), ~NextPage(c) PROVE Follows(a, n)
  BY <1>1, <1>4 DEF Follows
<1>5. ASSUME NEW n, \A i \in DOMAIN q : q[i].kind \in {"edit", "delete"}, c.id = 0, c.offset = n
      PROVE  Follows(a, n)
  BY <1>1, <1>5 DEF Follows, NextPage
<1>6. NoneAsked(a) => NoneAsked(q) /\ ~FirstPage(c)
  BY <1>1 DEF NoneAsked
<1> QED
  BY <1>2, <1>3, <1>4, <1>5, <1>6 DEF a

\* No page that follows is out behind another page.
LEMMA OnePageFollows ==
  ASSUME NEW q \in Seq(CallRow), q # << >>, Head(q).kind = "load", NEW n, Follows(q, n)
  PROVE  \A k : Follows(Tail(q), k)
<1>1. /\ \A i \in DOMAIN Tail(q) : i \in Nat /\ i + 1 \in DOMAIN q /\ Tail(q)[i] = q[i + 1] /\ 1 < i + 1
      /\ 1 \in DOMAIN q /\ q[1].kind = "load"
  <2>1. \A i \in DOMAIN Tail(q) : i > 0
    <3>1. DOMAIN Tail(q) = 1 .. Len(Tail(q))
      BY TailIs
    <3> QED
      BY <3>1
  <2> QED
    BY <2>1, TailIs
<1>2. \A i \in DOMAIN Tail(q) : ~NextPage(Tail(q)[i])
  BY <1>1 DEF Follows
<1> QED
  BY <1>2 DEF Follows

-----------------------------------------------------------------------------
LEMMA ThreadFacts ==
  ASSUME ConversationTypeOK
  PROVE  /\ thread \in Seq(T!CommentRow) /\ Len(thread) \in Nat /\ Len(thread) <= MaxThread
         /\ DOMAIN thread = 1 .. Len(thread) /\ DOMAIN thread \subseteq 0 .. MaxThread
         /\ \A c \in DOMAIN thread : thread[c] \in T!CommentRow
         /\ T!ActiveComments \subseteq DOMAIN thread
         /\ likes \in [1..MaxThread -> 0..MaxLikes]
         /\ comments \in Seq(DOMAIN thread) /\ outgoing \in Seq(CallRow)
         /\ Len(comments) \in Nat /\ 0 \in 0 .. MaxThread
<1>1. thread \in Seq(T!CommentRow) /\ Len(thread) \in Nat /\ Len(thread) <= MaxThread
      /\ DOMAIN thread = 1 .. Len(thread) /\ comments \in Seq(DOMAIN thread)
  BY DEF ConversationTypeOK
<1>2. Len(comments) \in Nat /\ \A c \in DOMAIN thread : thread[c] \in T!CommentRow
  BY <1>1
<1> QED
  BY <1>1, <1>2, ThreadAssumption DEF ConversationTypeOK, T!ActiveComments

LEMMA CallIs ==
  ASSUME NEW kind \in {"load", "post", "delete", "edit"}, NEW s \in Sorts, NEW o \in Nat,
         NEW id \in 0 .. MaxThread
  PROVE  LET c == Call(kind, s, o, id) IN
         c \in CallRow /\ c.kind = kind /\ c.sort = s /\ c.offset = o /\ c.id = id
BY DEF Call, CallRow

LEMMA PostedGrows ==
  ASSUME ConversationTypeOK, NEW added \in T!CommentRow, Posted(added)
  PROVE  /\ thread' \in Seq(T!CommentRow) /\ Len(thread') <= MaxThread
         /\ DOMAIN thread \subseteq DOMAIN thread' /\ drift'
<1>1. thread' = Append(thread, added) /\ Len(thread) < MaxThread /\ drift'
  BY DEF Posted
<1>2. /\ thread' \in Seq(T!CommentRow) /\ Len(thread') = Len(thread) + 1
      /\ DOMAIN thread' = DOMAIN thread \cup {Len(thread) + 1}
  BY <1>1, ThreadFacts, AppendIs
<1> QED
  BY <1>1, <1>2, ThreadFacts, ThreadAssumption

LEMMA StatusMoves ==
  ASSUME ConversationTypeOK, NEW c \in DOMAIN thread, NEW s \in {"active", "hidden", "deleted"},
         thread' = [thread EXCEPT ![c].status = s]
  PROVE  /\ thread' \in Seq(T!CommentRow) /\ Len(thread') <= MaxThread
         /\ DOMAIN thread \subseteq DOMAIN thread'
<1>1. PICK added \in T!CommentRow : added = thread[c]
  BY ThreadFacts
<1>2. thread' = [thread EXCEPT ![c] = [added EXCEPT !.status = s]]
  BY <1>1
<1>3. [added EXCEPT !.status = s] \in T!CommentRow
  BY <1>1 DEF T!CommentRow
<1>4. thread \in Seq(T!CommentRow) /\ Len(thread) <= MaxThread /\ c \in DOMAIN thread
  BY ThreadFacts
<1>5. PICK row2 \in T!CommentRow : row2 = [added EXCEPT !.status = s]
  BY <1>3
<1>6. thread' = [thread EXCEPT ![c] = row2]
  BY <1>2, <1>5
<1>7. thread' \in Seq(T!CommentRow) /\ Len(thread') = Len(thread) /\ DOMAIN thread' = DOMAIN thread
  BY <1>4, <1>6, ExceptIs
<1> QED
  BY <1>4, <1>7

\* What others do, and what an answer changes on the server, waits for a first page.
LEMMA ThreadDrifts ==
  ASSUME ConversationInv,
         thread' \in Seq(T!CommentRow), Len(thread') <= MaxThread, DOMAIN thread \subseteq DOMAIN thread',
         likes' \in [1..MaxThread -> 0..MaxLikes], othersDid' \in 0 .. MaxOthersDo,
         sort' \in Sorts, target' \in 0 .. MaxThread, drift',  drift' \in BOOLEAN,
         UNCHANGED <<collapsed, loadedOnce, comments, hasMore, crossed>>,
         outgoing' \in Seq(CallRow), CallsGoOn'
  PROVE  ConversationInv'
<1>1. comments' \in Seq(DOMAIN thread')
  <2>1. comments \in Seq(DOMAIN thread)
    BY ThreadFacts DEF ConversationInv
  <2>2. PICK A, B : A = DOMAIN thread /\ B = DOMAIN thread'
    OBVIOUS
  <2>3. comments \in Seq(A) /\ A \subseteq B
    BY <2>1, <2>2
  <2>4. comments \in Seq(B)
    BY <2>3
  <2> QED
    BY <2>2, <2>4
<1>2. ConversationTypeOK'
  BY <1>1 DEF ConversationInv, ConversationTypeOK
<1> QED
  BY <1>2 DEF ConversationInv, ShownIsListed, MoreIsShown

\* The reader's clicks leave what is shown, and what it is shown of, as it is.
LEMMA ScreenStays ==
  ASSUME ConversationInv, UNCHANGED <<serverVars, loadedOnce, comments, hasMore, ghostVars>>,
         collapsed' \in BOOLEAN, sort' \in Sorts, target' \in 0 .. MaxThread,
         outgoing' \in Seq(CallRow), CallsGoOn',
         NoneAsked(outgoing') => NoneAsked(outgoing) /\ sort' = sort
  PROVE  ConversationInv'
<1>1. ConversationTypeOK'
  BY DEF ConversationInv, ConversationTypeOK, serverVars, ghostVars
<1>2. ShownIsListed'
  <2> SUFFICES ASSUME loadedOnce', ~drift', ~crossed', NoneAsked(outgoing')
               PROVE  ListShown(T!ListCommentsForReport(sort, likes))'
    BY DEF ShownIsListed
  <2>1. ListShown(T!ListCommentsForReport(sort, likes))
    BY DEF ConversationInv, ShownIsListed, ghostVars
  <2>2. T!ListCommentsForReport(sort, likes)' = T!ListCommentsForReport(sort, likes)
    BY SameListing DEF serverVars
  <2> QED
    BY <2>1, <2>2 DEF ListShown
<1> QED
  BY <1>1, <1>2 DEF ConversationInv, MoreIsShown

-----------------------------------------------------------------------------
(* The reader. *)

LEMMA ExpandKeepsInv == ASSUME ConversationInv, Expand PROVE ConversationInv'
<1>0. ConversationTypeOK /\ outgoing \in Seq(CallRow) /\ sort \in Sorts /\ 0 \in Nat /\ 0 \in 0 .. MaxThread
  BY ThreadFacts DEF ConversationInv, ConversationTypeOK
<1>1. CASE UNCHANGED outgoing
  BY <1>0, <1>1, ScreenStays DEF Expand, ConversationInv, ConversationTypeOK, CallsGoOn
<1>2. CASE FetchPage(sort, 0)
  <2>1. PICK c \in CallRow : /\ outgoing' = Append(outgoing, c) /\ FirstPage(c) /\ c.sort = sort
                             /\ ~NextPage(c)
    BY <1>0, <1>2, CallIs DEF FetchPage, Ask, FirstPage, NextPage
  <2>2. InOrder(outgoing', sort) /\ Follows(outgoing', Len(comments)) /\ ~NoneAsked(outgoing')
    BY <1>0, <2>1, CallsAfterAppend DEF ConversationInv, CallsGoOn
  <2>3. outgoing' \in Seq(CallRow) /\ CallsGoOn'
    BY <1>0, <2>1, <2>2, AppendIs DEF Expand, CallsGoOn
  <2> QED
    BY <1>0, <2>2, <2>3, ScreenStays DEF Expand, ConversationInv, ConversationTypeOK
<1> QED
  BY <1>1, <1>2 DEF Expand

LEMMA ChangeSortKeepsInv ==
  ASSUME ConversationInv, NEW s \in Sorts, ChangeSort(s) PROVE ConversationInv'
<1>0. ConversationTypeOK /\ outgoing \in Seq(CallRow) /\ 0 \in Nat /\ 0 \in 0 .. MaxThread
  BY ThreadFacts DEF ConversationInv, ConversationTypeOK
<1>1. PICK c \in CallRow : /\ outgoing' = Append(outgoing, c) /\ FirstPage(c) /\ c.sort = s
                           /\ ~NextPage(c)
  BY <1>0, CallIs DEF ChangeSort, FetchPage, Ask, FirstPage, NextPage
<1>2. InOrder(outgoing', s) /\ Follows(outgoing', Len(comments)) /\ ~NoneAsked(outgoing')
  BY <1>0, <1>1, CallsAfterAppend DEF ConversationInv, CallsGoOn
<1>3. outgoing' \in Seq(CallRow) /\ CallsGoOn'
  BY <1>0, <1>1, <1>2, AppendIs DEF ChangeSort, CallsGoOn
<1> QED
  BY <1>0, <1>2, <1>3, ScreenStays DEF ChangeSort, ConversationInv, ConversationTypeOK

LEMMA LoadMoreKeepsInv == ASSUME ConversationInv, LoadMore PROVE ConversationInv'
<1>0. ConversationTypeOK /\ outgoing \in Seq(CallRow) /\ sort \in Sorts /\ 0 \in 0 .. MaxThread
      /\ Len(comments) \in Nat /\ comments # << >> /\ comments \in Seq(DOMAIN thread)
  BY ThreadFacts DEF ConversationInv, ConversationTypeOK, LoadMore, MoreIsShown
<1>1. Len(comments) # 0
  BY <1>0
<1>2. PICK c \in CallRow : /\ outgoing' = Append(outgoing, c) /\ c.sort = sort /\ ~FirstPage(c)
                           /\ c.id = 0 /\ c.offset = Len(comments)
  BY <1>0, <1>1, CallIs DEF LoadMore, FetchPage, Ask, FirstPage
<1>3. \A i \in DOMAIN outgoing : outgoing[i].kind \in {"edit", "delete"}
  <2>1. \A i \in DOMAIN outgoing : outgoing[i] \in CallRow
    BY <1>0
  <2> QED
    BY <2>1 DEF LoadMore, Pending, CallRow
<1>4. InOrder(outgoing', sort) /\ Follows(outgoing', Len(comments)) /\ (NoneAsked(outgoing') => NoneAsked(outgoing))
  BY <1>0, <1>2, <1>3, CallsAfterAppend DEF ConversationInv, CallsGoOn
<1>5. outgoing' \in Seq(CallRow) /\ CallsGoOn'
  BY <1>0, <1>2, <1>4, AppendIs DEF LoadMore, viewVars, CallsGoOn
<1> QED
  BY <1>0, <1>4, <1>5, ScreenStays DEF LoadMore, viewVars, ConversationInv, ConversationTypeOK

LEMMA ReplyKeepsInv ==
  ASSUME ConversationInv, NEW c \in DOMAIN thread, Reply(c) PROVE ConversationInv'
<1>1. c \in 0 .. MaxThread
  BY ThreadFacts DEF ConversationInv
<1> QED
  BY <1>1, ScreenStays DEF Reply, ConversationInv, ConversationTypeOK, CallsGoOn

\* A post, an edit or a deletion joins the queue.
LEMMA CommandKeepsInv ==
  ASSUME ConversationInv, NEW c \in CallRow, c.kind # "load", Ask(c), UNCHANGED <<serverVars, viewVars, ghostVars>>
  PROVE  ConversationInv'
<1>0. ConversationTypeOK /\ outgoing \in Seq(CallRow)
  BY ThreadFacts DEF ConversationInv
<1>1. outgoing' = Append(outgoing, c) /\ ~FirstPage(c) /\ ~NextPage(c)
  BY DEF Ask, FirstPage, NextPage
<1>2. InOrder(outgoing', sort) /\ Follows(outgoing', Len(comments)) /\ (NoneAsked(outgoing') => NoneAsked(outgoing))
  BY <1>0, <1>1, CallsAfterAppend DEF ConversationInv, CallsGoOn
<1>3. outgoing' \in Seq(CallRow) /\ CallsGoOn'
  BY <1>0, <1>1, <1>2, AppendIs DEF viewVars, CallsGoOn
<1> QED
  BY <1>0, <1>2, <1>3, ScreenStays DEF viewVars, ConversationInv, ConversationTypeOK

LEMMA CommandsKeepInv ==
  ASSUME ConversationInv,
         Submit \/ \E c \in DOMAIN thread : Change("edit", c) \/ Change("delete", c)
  PROVE  ConversationInv'
<1>0. ConversationTypeOK /\ sort \in Sorts /\ target \in 0 .. MaxThread /\ "newest" \in Sorts /\ 0 \in Nat
      /\ DOMAIN thread \subseteq 0 .. MaxThread
  BY ThreadFacts DEF ConversationInv, ConversationTypeOK, Sorts
<1>1. CASE Submit
  <2>1. Call("post", "newest", 0, target) \in CallRow /\ Call("post", "newest", 0, target).kind = "post"
    BY <1>0, CallIs
  <2> QED
    BY <1>1, <2>1, CommandKeepsInv DEF Submit
<1>2. ASSUME NEW c \in DOMAIN thread, NEW kind \in {"edit", "delete"}, Change(kind, c)
      PROVE  ConversationInv'
  <2>1. Call(kind, sort, 0, c) \in CallRow /\ Call(kind, sort, 0, c).kind = kind
    BY <1>0, CallIs
  <2> QED
    BY <1>2, <2>1, CommandKeepsInv DEF Change
<1> QED
  BY <1>1, <1>2

-----------------------------------------------------------------------------
(* The answers. *)

\* What changes on the screen when an answer brings a page.
LEMMA PageArrives ==
  ASSUME ConversationInv, UNCHANGED <<serverVars, collapsed, sort, target>>,
         loadedOnce' = TRUE, drift' \in BOOLEAN, crossed' \in BOOLEAN, hasMore' \in BOOLEAN,
         comments' \in Seq(DOMAIN thread), hasMore' => comments' # << >>,
         outgoing # << >>, Head(outgoing).kind = "load", outgoing' = Tail(outgoing),
         ~drift' /\ ~crossed' /\ NoneAsked(outgoing')
           => /\ IsPrefix(comments', T!ListCommentsForReport(sort, likes))
              /\ hasMore' = (Len(T!ListCommentsForReport(sort, likes)) > Len(comments'))
  PROVE  ConversationInv'
<1>0. ConversationTypeOK /\ outgoing \in Seq(CallRow) /\ outgoing' \in Seq(CallRow)
  BY ThreadFacts, TailIs DEF ConversationInv
<1>1. ConversationTypeOK'
  BY <1>0 DEF ConversationTypeOK, serverVars
<1>2. ShownIsListed'
  <2>1. T!ListCommentsForReport(sort, likes)' = T!ListCommentsForReport(sort, likes)
    BY SameListing DEF serverVars
  <2> QED
    BY <2>1 DEF ShownIsListed, ListShown
<1>3. CallsGoOn'
  <2>1. InOrder(outgoing', sort) /\ Follows(outgoing', Len(comments'))
    BY <1>0, CallsAfterTail, OnePageFollows DEF ConversationInv, CallsGoOn
  <2> QED
    BY <2>1 DEF CallsGoOn
<1>4. MoreIsShown'
  BY DEF MoreIsShown
<1> QED
  BY <1>1, <1>2, <1>3, <1>4 DEF ConversationInv

\* What the head of the calls was asked with.
LEMMA HeadIs ==
  ASSUME ConversationInv, outgoing # << >>
  PROVE  /\ Head(outgoing) \in CallRow
         /\ Head(outgoing).kind = "load" /\ Head(outgoing).id = 0 /\ NoneAsked(Tail(outgoing))
              => Head(outgoing).sort = sort
         /\ NextPage(Head(outgoing)) => Head(outgoing).id = 0 /\ Head(outgoing).offset = Len(comments)
<1>1. outgoing \in Seq(CallRow) /\ InOrder(outgoing, sort) /\ Follows(outgoing, Len(comments))
  BY ThreadFacts DEF ConversationInv, CallsGoOn
<1>2. /\ Head(outgoing) \in CallRow /\ 1 \in DOMAIN outgoing /\ Head(outgoing) = outgoing[1]
      /\ \A i \in DOMAIN outgoing : i = 1 \/ i - 1 \in DOMAIN Tail(outgoing)
      /\ \A i \in DOMAIN Tail(outgoing) : i \in Nat /\ i + 1 \in DOMAIN outgoing /\ Tail(outgoing)[i] = outgoing[i + 1]
      /\ \A i \in DOMAIN outgoing : i \in Nat
  <2>1. \A i \in DOMAIN outgoing : i \in Nat
    BY <1>1
  <2> QED
    BY <1>1, <2>1, TailIs
<1>3. ASSUME Head(outgoing).kind = "load", Head(outgoing).id = 0, NoneAsked(Tail(outgoing))
      PROVE  Head(outgoing).sort = sort
  <2>1. \A j \in DOMAIN outgoing : 1 < j => ~FirstPage(outgoing[j])
    <3> TAKE j \in DOMAIN outgoing
    <3> HAVE 1 < j
    <3>1. j - 1 \in DOMAIN Tail(outgoing) /\ (j - 1) + 1 = j
      BY <1>2
    <3>2. Tail(outgoing)[j - 1] = outgoing[j]
      BY <1>2, <3>1
    <3> QED
      BY <1>3, <3>1, <3>2 DEF NoneAsked
  <2> QED
    BY <1>1, <1>2, <1>3, <2>1 DEF InOrder
<1>4. NextPage(Head(outgoing)) => Head(outgoing).id = 0 /\ Head(outgoing).offset = Len(comments)
  BY <1>1, <1>2 DEF Follows
<1> QED
  BY <1>2, <1>3, <1>4

LEMMA LoadAnswersKeepsInv == ASSUME ConversationInv, LoadAnswers PROVE ConversationInv'
<1> DEFINE asked == Head(outgoing)
           res == T!LoadComments(asked.sort, likes, asked.offset)
           list == T!ListCommentsForReport(asked.sort, likes)
<1>1. /\ outgoing # << >> /\ asked.kind = "load" /\ outgoing' = Tail(outgoing)
      /\ UNCHANGED <<serverVars, collapsed, sort, target>>
      /\ comments' = (IF asked.offset = 0 THEN res.page ELSE comments \o res.page)
      /\ hasMore' = res.hasMore /\ loadedOnce' = TRUE
      /\ IF asked.offset = 0
           THEN drift' = FALSE /\ crossed' = (asked.id # 0 /\ asked.sort # sort)
           ELSE UNCHANGED ghostVars
  BY DEF LoadAnswers, FirstOut
<1>2. asked \in CallRow /\ asked.offset \in Nat
  BY <1>1, HeadIs DEF CallRow
<1>3. /\ list \in Seq(DOMAIN thread) /\ res.page \in Seq(DOMAIN thread) /\ res.hasMore \in BOOLEAN
      /\ PageOf(res.page, res.hasMore, list, asked.offset, ThreadPage)
  BY <1>2, LoadIs, ThreadFacts DEF ConversationInv
<1>4. PICK l, p : l = list /\ p = res
  OBVIOUS
<1>5. ThreadPage \in Nat \ {0} /\ comments \in Seq(DOMAIN thread) /\ outgoing \in Seq(CallRow)
      /\ drift \in BOOLEAN /\ crossed \in BOOLEAN
  BY ThreadFacts, ThreadAssumption DEF ConversationInv, ConversationTypeOK
<1>6. p.hasMore => p.page # << >>
  <2>1. p.hasMore => Len(p.page) # 0
    BY <1>3, <1>4, <1>5 DEF PageOf
  <2> QED
    BY <2>1
<1>7. CASE asked.offset = 0
  <2>1. comments' = p.page /\ hasMore' = p.hasMore /\ drift' = FALSE /\ crossed' = (asked.id # 0 /\ asked.sort # sort)
    BY <1>1, <1>4, <1>7
  <2>2. IsPrefix(p.page, l) /\ p.hasMore = (Len(l) > Len(p.page))
    <3>1. PageOf(p.page, p.hasMore, l, 0, ThreadPage)
      BY <1>3, <1>4, <1>7
    <3> QED
      BY <1>3, <1>4, <1>5, <3>1, FirstPageIs
  <2>3. ASSUME ~crossed', NoneAsked(outgoing') PROVE asked.sort = sort
    BY <1>1, <2>1, <2>3, HeadIs
  <2>4. drift' \in BOOLEAN /\ crossed' \in BOOLEAN
    BY <2>1
  <2>5. ASSUME ~crossed', NoneAsked(outgoing')
        PROVE  /\ IsPrefix(comments', T!ListCommentsForReport(sort, likes))
               /\ hasMore' = (Len(T!ListCommentsForReport(sort, likes)) > Len(comments'))
    BY <1>4, <2>1, <2>2, <2>3, <2>5
  <2> QED
    BY <1>1, <1>3, <1>4, <1>6, <2>1, <2>4, <2>5, PageArrives
<1>8. CASE asked.offset # 0
  <2>1. comments' = comments \o p.page /\ hasMore' = p.hasMore /\ UNCHANGED <<drift, crossed>>
    BY <1>1, <1>4, <1>8 DEF ghostVars
  <2>2. asked.id = 0 /\ asked.offset = Len(comments) /\ ~FirstPage(asked)
    BY <1>1, <1>8, HeadIs DEF NextPage, FirstPage
  <2>3. comments # << >> /\ loadedOnce
    <3>1. Len(comments) # 0
      BY <1>8, <2>2
    <3> QED
      BY <1>5, <3>1 DEF ConversationInv, MoreIsShown
  <2>4. comments' \in Seq(DOMAIN thread) /\ comments' # << >>
    BY <1>3, <1>4, <1>5, <2>1, <2>3
  <2>5. ASSUME ~drift', ~crossed', NoneAsked(outgoing')
        PROVE  /\ IsPrefix(comments', T!ListCommentsForReport(sort, likes))
               /\ hasMore' = (Len(T!ListCommentsForReport(sort, likes)) > Len(comments'))
    <3>1. asked.sort = sort
      BY <1>1, <2>2, <2>5, HeadIs
    <3>2. NoneAsked(outgoing)
      BY <1>1, <1>5, <2>2, <2>5, CallsAfterTail
    <3>3. IsPrefix(comments, l)
      BY <1>4, <2>1, <2>3, <2>5, <3>1, <3>2 DEF ConversationInv, ShownIsListed, ListShown
    <3>4. PageOf(p.page, p.hasMore, l, Len(comments), ThreadPage)
      BY <1>3, <1>4, <2>2
    <3>5. /\ IsPrefix(comments \o p.page, l)
          /\ p.hasMore <=> Len(l) > Len(comments \o p.page)
      BY <1>3, <1>4, <1>5, <3>3, <3>4, PageFollows
    <3>6. p.hasMore \in BOOLEAN /\ (Len(l) > Len(comments')) \in BOOLEAN
      BY <1>3, <1>4, <2>4
    <3> QED
      BY <1>4, <2>1, <3>1, <3>5, <3>6
  <2> QED
    BY <1>1, <1>3, <1>4, <1>5, <2>1, <2>4, <2>5, PageArrives
<1> QED
  BY <1>7, <1>8

\* An answer, or what others do, leaves the first page for a later call.
LEMMA TailStays ==
  ASSUME ConversationInv, outgoing # << >>, Head(outgoing).kind # "load"
  PROVE  /\ Tail(outgoing) \in Seq(CallRow)
         /\ InOrder(Tail(outgoing), sort) /\ Follows(Tail(outgoing), Len(comments))
         /\ NoneAsked(Tail(outgoing)) => NoneAsked(outgoing)
<1>1. outgoing \in Seq(CallRow) /\ InOrder(outgoing, sort) /\ Follows(outgoing, Len(comments))
      /\ ~FirstPage(Head(outgoing))
  BY ThreadFacts DEF ConversationInv, CallsGoOn, FirstPage
<1> QED
  BY <1>1, CallsAfterTail, TailIs

\* A call refused: the screen is as it was.
LEMMA RefusedKeepsInv ==
  ASSUME ConversationInv, outgoing # << >>, Head(outgoing).kind # "load", outgoing' = Tail(outgoing),
         UNCHANGED <<serverVars, viewVars, ghostVars>>
  PROVE  ConversationInv'
<1>1. CallsGoOn'
  BY TailStays DEF CallsGoOn, viewVars
<1> QED
  BY <1>1, TailStays, ScreenStays DEF viewVars, ConversationInv, ConversationTypeOK

LEMMA PostAnswersKeepsInv == ASSUME ConversationInv, PostAnswers PROVE ConversationInv'
<1> DEFINE to == Head(outgoing).id
           added == [author |-> "me", parent |-> to, status |-> "active"]
           asked == Call("load", "newest", 0, 0)
<1>1. /\ outgoing # << >> /\ Head(outgoing).kind = "post"
      /\ UNCHANGED <<likes, othersDid, collapsed, loadedOnce, comments, hasMore, crossed>>
  BY DEF PostAnswers, FirstOut
<1>2. CASE /\ Posted(added)
           /\ target' = 0 /\ sort' = "newest"
           /\ outgoing' = Append(Tail(outgoing), asked)
           /\ to \in T!ActiveComments \cup {0}
  <2>0. ConversationTypeOK /\ 0 \in Nat /\ 0 \in 0 .. MaxThread /\ "newest" \in Sorts
        /\ T!ActiveComments \subseteq DOMAIN thread
    BY ThreadFacts DEF ConversationInv, Sorts
  <2>1. added \in T!CommentRow
    BY <1>2, <2>0, ThreadFacts DEF T!CommentRow, Authors
  <2>2. /\ thread' \in Seq(T!CommentRow) /\ Len(thread') <= MaxThread
        /\ DOMAIN thread \subseteq DOMAIN thread' /\ drift'
    BY <1>2, <2>0, <2>1, PostedGrows
  <2>3. PICK c \in CallRow : c = asked /\ FirstPage(c) /\ c.sort = "newest" /\ ~NextPage(c)
    BY <2>0, CallIs DEF FirstPage, NextPage
  <2>4. Tail(outgoing) \in Seq(CallRow) /\ Follows(Tail(outgoing), Len(comments))
    BY <1>1, TailStays
  <2>5. InOrder(outgoing', "newest") /\ Follows(outgoing', Len(comments)) /\ outgoing' \in Seq(CallRow)
    BY <1>2, <2>3, <2>4, CallsAfterAppend, AppendIs
  <2>6. CallsGoOn'
    BY <1>1, <1>2, <2>5 DEF CallsGoOn
  <2>7. drift' \in BOOLEAN
    BY <1>2 DEF Posted
  <2> QED
    BY <1>1, <1>2, <2>0, <2>2, <2>5, <2>6, <2>7, ThreadDrifts DEF ConversationTypeOK
<1>3. CASE outgoing' = Tail(outgoing) /\ UNCHANGED <<thread, sort, target, drift>>
  BY <1>1, <1>3, RefusedKeepsInv DEF serverVars, viewVars, ghostVars
<1> QED
  BY <1>2, <1>3 DEF PostAnswers

LEMMA ChangeAnswersKeepsInv == ASSUME ConversationInv, ChangeAnswers PROVE ConversationInv'
<1> DEFINE asked == Head(outgoing)
           again == Call("load", asked.sort, 0, asked.id)
<1>1. /\ outgoing # << >> /\ asked.kind \in {"delete", "edit"} /\ asked.kind # "load"
      /\ UNCHANGED <<likes, othersDid, viewVars, crossed>>
  BY DEF ChangeAnswers, FirstOut
<1>2. CASE outgoing' = Tail(outgoing) /\ UNCHANGED <<thread, drift>>
  BY <1>1, <1>2, RefusedKeepsInv DEF serverVars, ghostVars
<1>3. CASE /\ asked.id \in T!EditableBy("me")
           /\ outgoing' = Append(Tail(outgoing), again)
           /\ IF asked.kind = "delete"
                THEN thread' = [thread EXCEPT ![asked.id].status = "deleted"] /\ drift' = TRUE
                ELSE UNCHANGED <<thread, drift>>
  <2>0. ConversationTypeOK /\ 0 \in Nat /\ asked \in CallRow /\ asked.sort \in Sorts
        /\ asked.id \in DOMAIN thread /\ asked.id \in 0 .. MaxThread /\ asked.id # 0
    <3>1. T!EditableBy("me") \subseteq DOMAIN thread
      BY ThreadFacts DEF ConversationInv, T!EditableBy
    <3>2. asked \in CallRow /\ DOMAIN thread = 1 .. Len(thread) /\ Len(thread) \in Nat
      BY <1>1, HeadIs, ThreadFacts DEF ConversationInv
    <3>3. asked.sort \in Sorts /\ asked.id \in 0 .. MaxThread
      BY <3>2 DEF CallRow
    <3> QED
      BY <1>3, <3>1, <3>2, <3>3 DEF ConversationInv
  <2>1. PICK c \in CallRow : c = again /\ ~FirstPage(c) /\ ~NextPage(c) /\ c.kind = "load" /\ c.id # 0
    BY <2>0, CallIs DEF FirstPage, NextPage
  <2>2. Tail(outgoing) \in Seq(CallRow) /\ InOrder(Tail(outgoing), sort) /\ Follows(Tail(outgoing), Len(comments))
        /\ (NoneAsked(Tail(outgoing)) => NoneAsked(outgoing))
    BY <1>1, TailStays
  <2>3. InOrder(outgoing', sort) /\ Follows(outgoing', Len(comments)) /\ outgoing' \in Seq(CallRow)
        /\ (NoneAsked(outgoing') => NoneAsked(outgoing))
    BY <1>3, <2>1, <2>2, CallsAfterAppend, AppendIs
  <2>4. CallsGoOn'
    BY <1>1, <2>3 DEF CallsGoOn, viewVars
  <2>5. CASE asked.kind = "delete"
    <3>1. thread' = [thread EXCEPT ![asked.id].status = "deleted"] /\ drift' = TRUE
      BY <1>3, <2>5
    <3>2. /\ thread' \in Seq(T!CommentRow) /\ Len(thread') <= MaxThread
          /\ DOMAIN thread \subseteq DOMAIN thread'
      BY <2>0, <3>1, StatusMoves
    <3> QED
      BY <1>1, <2>0, <2>3, <2>4, <3>1, <3>2, ThreadDrifts DEF viewVars, ConversationTypeOK
  <2>6. CASE asked.kind # "delete"
    <3>1. UNCHANGED <<thread, drift>>
      BY <1>3, <2>6
    <3> QED
      BY <1>1, <2>0, <2>3, <2>4, <3>1, ScreenStays DEF viewVars, serverVars, ghostVars, ConversationTypeOK
  <2> QED
    BY <2>5, <2>6
<1> QED
  BY <1>2, <1>3 DEF ChangeAnswers

-----------------------------------------------------------------------------
(* The others. *)

LEMMA OthersKeepInv ==
  ASSUME ConversationInv,
         OtherPosts \/ \E c \in DOMAIN thread : OtherRemoves(c) \/ LikeMoves(c)
  PROVE  ConversationInv'
<1>0. ConversationTypeOK /\ 0 \in Nat /\ 0 \in 0 .. MaxThread
      /\ T!ActiveComments \subseteq DOMAIN thread /\ DOMAIN thread \subseteq 0 .. MaxThread
      /\ thread \in Seq(T!CommentRow) /\ Len(thread) <= MaxThread
      /\ likes \in [1..MaxThread -> 0..MaxLikes]
      /\ sort \in Sorts /\ target \in 0 .. MaxThread /\ outgoing \in Seq(CallRow)
  BY ThreadFacts DEF ConversationInv, ConversationTypeOK
<1>1. /\ UNCHANGED <<viewVars, outgoing, crossed>> /\ othersDid' \in 0 .. MaxOthersDo
      /\ drift' = TRUE
  <2>1. othersDid < MaxOthersDo /\ othersDid' = othersDid + 1
    BY DEF OtherPosts, OtherRemoves, LikeMoves, OthersDo
  <2>2. othersDid' \in 0 .. MaxOthersDo
    BY <1>0, <2>1, ThreadAssumption DEF ConversationTypeOK
  <2> QED
    BY <2>2 DEF OtherPosts, OtherRemoves, LikeMoves, Posted
<1>2. CallsGoOn'
  BY <1>1 DEF ConversationInv, CallsGoOn, viewVars
<1>3. CASE OtherPosts
  <2>1. PICK to \in T!ActiveComments \cup {0} :
          Posted([author |-> "other", parent |-> to, status |-> "active"])
    BY <1>3 DEF OtherPosts
  <2>2. [author |-> "other", parent |-> to, status |-> "active"] \in T!CommentRow
    BY <1>0 DEF T!CommentRow, Authors
  <2>3. /\ thread' \in Seq(T!CommentRow) /\ Len(thread') <= MaxThread
        /\ DOMAIN thread \subseteq DOMAIN thread'
    BY <1>0, <2>1, <2>2, PostedGrows
  <2>4. likes' = likes
    BY <1>3 DEF OtherPosts
  <2> QED
    BY <1>0, <1>1, <1>2, <2>3, <2>4, ThreadDrifts DEF viewVars
<1>4. ASSUME NEW c \in DOMAIN thread, OtherRemoves(c) PROVE ConversationInv'
  <2>1. thread' = [thread EXCEPT ![c].status = "hidden"] /\ likes' = likes
    BY <1>4 DEF OtherRemoves
  <2>2. /\ thread' \in Seq(T!CommentRow) /\ Len(thread') <= MaxThread
        /\ DOMAIN thread \subseteq DOMAIN thread'
    BY <1>0, <2>1, StatusMoves
  <2> QED
    BY <1>0, <1>1, <1>2, <2>1, <2>2, ThreadDrifts DEF viewVars
<1>5. ASSUME NEW c \in DOMAIN thread, LikeMoves(c) PROVE ConversationInv'
  <2>1. thread' = thread /\ likes' \in [1..MaxThread -> 0..MaxLikes]
    BY <1>0, <1>5 DEF LikeMoves
  <2> QED
    BY <1>0, <1>1, <1>2, <2>1, ThreadDrifts DEF viewVars
<1> QED
  BY <1>3, <1>4, <1>5

LEMMA ConversationKeeps ==
  ASSUME ConversationInv, [ConversationNext]_conversationVars PROVE ConversationInv'
<1>1. CASE UNCHANGED conversationVars
  <2>1. UNCHANGED <<serverVars, viewVars, outgoing, ghostVars>> /\ ConversationTypeOK
    BY <1>1 DEF conversationVars, ConversationInv
  <2>2. CallsGoOn'
    BY <2>1 DEF ConversationInv, CallsGoOn, viewVars
  <2> QED
    BY <2>1, <2>2, ScreenStays DEF viewVars, ConversationTypeOK
<1>2. CASE ConversationNext
  <2>1. CASE Expand
    BY <2>1, ExpandKeepsInv
  <2>2. CASE LoadMore
    BY <2>2, LoadMoreKeepsInv
  <2>3. CASE Submit \/ \E c \in DOMAIN thread : Change("edit", c) \/ Change("delete", c)
    BY <2>3, CommandsKeepInv
  <2>4. CASE \E s \in Sorts : ChangeSort(s)
    BY <2>4, ChangeSortKeepsInv
  <2>5. CASE \E c \in DOMAIN thread : Reply(c)
    BY <2>5, ReplyKeepsInv
  <2>6. CASE LoadAnswers
    BY <2>6, LoadAnswersKeepsInv
  <2>7. CASE PostAnswers
    BY <2>7, PostAnswersKeepsInv
  <2>8. CASE ChangeAnswers
    BY <2>8, ChangeAnswersKeepsInv
  <2>9. CASE OtherPosts \/ \E c \in DOMAIN thread : OtherRemoves(c) \/ LikeMoves(c)
    BY <2>9, OthersKeepInv
  <2> QED
    BY <1>2, <2>1, <2>2, <2>3, <2>4, <2>5, <2>6, <2>7, <2>8, <2>9 DEF ConversationNext
<1> QED
  BY <1>1, <1>2

LEMMA ConversationStarts == ConversationInit => ConversationInv
<1> SUFFICES ASSUME ConversationInit PROVE ConversationInv
  OBVIOUS
<1> DEFINE res == T!LoadComments(sort, likes, 0)
           list == T!ListCommentsForReport(sort, likes)
<1>1. /\ thread = [c \in DOMAIN Begun |-> [author |-> Begun[c], parent |-> 0, status |-> "active"]]
      /\ likes = [c \in 1..MaxThread |-> 0] /\ sort = "newest" /\ target = 0
      /\ outgoing = << >> /\ drift = FALSE /\ crossed = FALSE /\ othersDid = 0
  BY DEF ConversationInit
<1>2. thread \in Seq(T!CommentRow) /\ Len(thread) <= MaxThread
      /\ likes \in [1..MaxThread -> 0..MaxLikes] /\ ThreadPage \in Nat \ {0} /\ 0 \in 0 .. MaxThread
      /\ othersDid \in 0 .. MaxOthersDo /\ sort \in Sorts
  <2>1. \A c \in DOMAIN Begun : [author |-> Begun[c], parent |-> 0, status |-> "active"] \in T!CommentRow
    BY ThreadAssumption DEF T!CommentRow, Authors
  <2>2. PICK n \in Nat : n = Len(Begun) /\ DOMAIN Begun = 1 .. n /\ n <= MaxThread
    BY ThreadAssumption
  <2>3. thread \in [1 .. n -> T!CommentRow]
    BY <1>1, <2>1, <2>2
  <2>4. thread \in Seq(T!CommentRow) /\ Len(thread) = n
    BY <2>3
  <2> QED
    BY <1>1, <2>2, <2>4, ThreadAssumption DEF Sorts
<1>3. /\ list \in Seq(DOMAIN thread) /\ res.page \in Seq(DOMAIN thread) /\ res.hasMore \in BOOLEAN
      /\ PageOf(res.page, res.hasMore, list, 0, ThreadPage)
  BY <1>2, LoadIs
<1>4. PICK l, p : l = list /\ p = res
  OBVIOUS
<1>5. IsPrefix(p.page, l) /\ p.hasMore = (Len(l) > Len(p.page)) /\ (p.hasMore => p.page # << >>)
  <2>1. IsPrefix(p.page, l) /\ p.hasMore = (Len(l) > Len(p.page))
    BY <1>2, <1>3, <1>4, FirstPageIs
  <2>7. p.hasMore => Len(p.page) # 0
    BY <1>2, <1>3, <1>4 DEF PageOf
  <2>8. p.hasMore => p.page # << >>
    BY <2>7
  <2> QED
    BY <2>1, <2>8
<1>6. outgoing \in Seq(CallRow) /\ CallsGoOn
  BY <1>1 DEF CallsGoOn, InOrder, Follows
<1>7. CASE collapsed = FALSE /\ loadedOnce = TRUE /\ comments = res.page /\ hasMore = res.hasMore
  <2>1. ConversationTypeOK
    BY <1>1, <1>2, <1>3, <1>6, <1>7 DEF ConversationTypeOK
  <2>2. ShownIsListed /\ MoreIsShown
    BY <1>4, <1>5, <1>7 DEF ShownIsListed, ListShown, MoreIsShown
  <2> QED
    BY <1>6, <2>1, <2>2 DEF ConversationInv
<1>8. CASE collapsed = TRUE /\ loadedOnce = FALSE /\ comments = << >> /\ hasMore = FALSE
  <2>1. comments \in Seq(DOMAIN thread)
    BY <1>8
  <2>2. ConversationTypeOK
    BY <1>1, <1>2, <1>6, <1>8, <2>1 DEF ConversationTypeOK
  <2>3. ShownIsListed /\ MoreIsShown
    BY <1>8 DEF ShownIsListed, MoreIsShown
  <2> QED
    BY <1>6, <2>2, <2>3 DEF ConversationInv
<1> QED
  BY <1>7, <1>8 DEF ConversationInit

(* The thread on a reader's screen (comments-section.tsx), whatever calls  *)
(* are out and whatever others do meanwhile: its rows are comments of the  *)
(* report, and what is out is calls the section makes.                     *)
THEOREM ConversationTypes == ConversationSpec => []ConversationTypeOK
<1>1. ConversationInv => ConversationTypeOK
  BY DEF ConversationInv
<1> QED
  BY <1>1, ConversationStarts, ConversationKeeps, PTL DEF ConversationSpec

(* With every answer in and nothing changed since, a reader of the thread  *)
(* has before them the server's listing in the order of the open tab, from *)
(* the first comment on, and "Load more" exactly while there is more       *)
(* (comments-section.tsx, comments.ts): with any number of comments, any   *)
(* page size, and any calls queued behind one another.                     *)
THEOREM ConversationThreadIsTheListing == ConversationSpec => []ThreadIsTheListing
<1>1. ConversationInv => ThreadIsTheListing
  BY DEF ConversationInv, ThreadIsTheListing, ShownIsListed, ListShown, NoneAsked
<1> QED
  BY <1>1, ConversationStarts, ConversationKeeps, PTL DEF ConversationSpec

-----------------------------------------------------------------------------
(* The filters of a list, in its address *)

\* The places of a list that are left, in the order they had.
GoesUp(o, places) ==
  /\ o \in [1 .. Cardinality(places) -> places]
  /\ \A i, j \in DOMAIN o : i < j => o[i] < o[j]

LEMMA AtIs ==
  ASSUME NEW X, NEW s \in Seq(X), NEW places \in SUBSET DOMAIN s
  PROVE  \E o : /\ GoesUp(o, places) /\ o \in Seq(places) /\ IsInjective(o)
                /\ At(s, places) = [i \in DOMAIN o |-> s[o[i]]]
                /\ At(s, places) \in Seq(X)
<1> DEFINE R == {p \in Nat \X Nat : p[1] < p[2]}
<1>1. places \in SUBSET Nat /\ IsFiniteSet(places)
  <2>1. PICK n \in Nat : DOMAIN s = 1 .. n
    OBVIOUS
  <2>2. IsFiniteSet(1 .. n) /\ 1 .. n \subseteq Nat
    BY <2>1, FS_Interval
  <2> QED
    BY <2>1, <2>2, FS_Subset
<1>2. Orders(R, places)
  BY <1>1 DEF Orders
<1>3. \A o : GoesUp(o, places) <=> Lists(o, places, R)
  BY <1>1 DEF GoesUp, Lists
<1>4. PICK l : GoesUp(l, places)
  BY <1>1, <1>2, <1>3, ListExists
<1>5. PICK o : o = CHOOSE u \in [1 .. Cardinality(places) -> places] :
                     \A i, j \in DOMAIN u : i < j => u[i] < u[j]
  OBVIOUS
<1>6. GoesUp(o, places)
  BY <1>4, <1>5, Zenon DEF GoesUp
<1>7. o \in Seq(places) /\ IsInjective(o)
  <2>1. Lists(o, places, R)
    BY <1>3, <1>6
  <2> HIDE DEF R
  <2> QED
    BY <1>1, <1>2, <2>1, ListIs
<1>8. At(s, places) = [i \in DOMAIN o |-> s[o[i]]]
  BY <1>5 DEF At
<1>9. At(s, places) \in Seq(X)
  <2>1. PICK n \in Nat : DOMAIN o = 1 .. n /\ \A i \in 1 .. n : o[i] \in places
    BY <1>7
  <2>2. \A i \in 1 .. n : s[o[i]] \in X
    BY <2>1
  <2> QED
    BY <1>8, <2>1, <2>2
<1> QED
  BY <1>6, <1>7, <1>8, <1>9

\* What repeats nothing still does not with places left out, and is itself with
\* none left out.
LEMMA PartOf ==
  ASSUME NEW X, NEW s \in Seq(X), IsInjective(s), NEW places \in SUBSET DOMAIN s
  PROVE  At(s, places) \in Seq(X) /\ IsInjective(At(s, places))
<1>1. PICK o : /\ o \in Seq(places) /\ IsInjective(o)
               /\ At(s, places) = [i \in DOMAIN o |-> s[o[i]]]
               /\ At(s, places) \in Seq(X)
  BY AtIs
<1>2. \A i \in DOMAIN o : o[i] \in DOMAIN s
  BY <1>1
<1> QED
  BY <1>1, <1>2 DEF IsInjective

LEMMA AllOf ==
  ASSUME NEW X, NEW s \in Seq(X) PROVE At(s, DOMAIN s) = s
<1>0. PICK D : D = DOMAIN s /\ D \in SUBSET DOMAIN s
  OBVIOUS
<1>1. PICK o : /\ GoesUp(o, D) /\ At(s, D) = [i \in DOMAIN o |-> s[o[i]]]
  BY <1>0, AtIs
<1>2. PICK n \in Nat : D = 1 .. n /\ s = [i \in 1 .. n |-> s[i]]
  BY <1>0
<1>3. Cardinality(1 .. n) = n
  <2>1. n \in Nat
    OBVIOUS
  <2> QED
    BY <2>1, FS_Interval
<1>4. DOMAIN o = 1 .. n /\ \A i \in 1 .. n : o[i] = i
  <2>1. o \in [1 .. n -> 1 .. n] /\ DOMAIN o = 1 .. n
        /\ \A i, j \in DOMAIN o : i < j => o[i] < o[j]
    BY <1>1, <1>2, <1>3 DEF GoesUp
  <2> QED
    BY <2>1, StepsUp
<1>5. At(s, D) = [i \in 1 .. n |-> s[i]]
  <2>1. \A i \in 1 .. n : s[o[i]] = s[i]
    BY <1>4
  <2>2. [i \in DOMAIN o |-> s[o[i]]] = [i \in 1 .. n |-> s[i]]
    BY <1>4, <2>1
  <2> QED
    BY <1>1, <2>2, Zenon
<1> QED
  BY <1>0, <1>2, <1>5

LEMMA RepeatsGo ==
  ASSUME NEW X, NEW s \in Seq(X)
  PROVE  /\ RemoveRepeats(s) \in Seq(X) /\ IsInjective(RemoveRepeats(s))
         /\ IsInjective(s) => RemoveRepeats(s) = s
<1> DEFINE firsts == {k \in DOMAIN s : \A j \in 1 .. (k - 1) : s[j] # s[k]}
<1>0. RemoveRepeats(s) = At(s, firsts) /\ firsts \in SUBSET DOMAIN s
  BY DEF RemoveRepeats
<1>1. PICK o : /\ o \in Seq(firsts) /\ IsInjective(o)
               /\ At(s, firsts) = [i \in DOMAIN o |-> s[o[i]]]
               /\ At(s, firsts) \in Seq(X)
  BY <1>0, AtIs
<1>2. \A i \in DOMAIN o : o[i] \in firsts
  <2> HIDE DEF firsts
  <2> QED
    BY <1>1
<1>3. \A k, m \in firsts : s[k] = s[m] => k = m
  <2> SUFFICES ASSUME NEW k \in firsts, NEW m \in firsts, s[k] = s[m] PROVE k = m
    OBVIOUS
  <2>1. k \in Nat /\ k >= 1 /\ m \in Nat /\ m >= 1
    <3>1. PICK n \in Nat : DOMAIN s = 1 .. n
      OBVIOUS
    <3> QED
      BY <3>1
  <2>2. ~(k < m) /\ ~(m < k)
    BY <2>1
  <2> QED
    BY <2>1, <2>2
<1>4. IsInjective(At(s, firsts))
  <2> HIDE DEF firsts
  <2> QED
    BY <1>1, <1>2, <1>3 DEF IsInjective
<1>5. ASSUME IsInjective(s) PROVE RemoveRepeats(s) = s
  <2>1. firsts = DOMAIN s
    <3>1. PICK n \in Nat : DOMAIN s = 1 .. n
      OBVIOUS
    <3> QED
      BY <1>5, <3>1 DEF IsInjective
  <2> QED
    BY <1>0, <2>1, AllOf
<1> QED
  BY <1>0, <1>1, <1>4, <1>5

-----------------------------------------------------------------------------
TopicLists == {t \in Seq(TopicValues) : IsInjective(t)}

\* What every address is parsed to.
FilterRow ==
  [q : Queries \cup {Absent}, outcome : Outcomes \cup {Absent},
   roundType : RoundTypeSlugs \cup {Absent}, level : LevelSlugs \cup {Absent},
   topics : TopicLists, trust : Trusts, sort : ReportSorts,
   page : Nat \ {0}, perPage : 1 .. MAX_PER_PAGE]

LEMMA SlugListIs ==
  ASSUME NEW values \in Seq(TopicValues)
  PROVE  /\ SlugList(values) \in Seq(TopicValues) /\ IsInjective(SlugList(values))
         /\ IsInjective(values) /\ ~(Len(values) = 1 /\ Len(values[1]) > 1)
              => SlugList(values) = values
<1> DEFINE pieces == [k \in DOMAIN values[1] |-> <<values[1][k]>>]
<1>1. CASE Len(values) # 1
  BY <1>1, RepeatsGo DEF SlugList
<1>2. CASE Len(values) = 1
  <2>1. PICK v \in TopicValues : v = values[1]
    BY <1>2
  <2>2. PICK n \in Nat : DOMAIN v = 1 .. n /\ n = Len(v) /\ n # 0 /\ \A k \in 1 .. n : v[k] \in TopicSlugs
    BY <2>1 DEF TopicValues
  <2>3. \A k \in 1 .. n : <<v[k]>> \in TopicValues
    BY <2>2 DEF TopicValues
  <2>4. pieces \in Seq(TopicValues) /\ SlugList(values) = RemoveRepeats(pieces)
    BY <1>2, <2>1, <2>2, <2>3 DEF SlugList
  <2>5. SlugList(values) \in Seq(TopicValues) /\ IsInjective(SlugList(values))
    BY <2>4, RepeatsGo
  <2>6. ASSUME IsInjective(values), ~(Len(values[1]) > 1) PROVE SlugList(values) = values
    <3>1. n = 1
      <4>1. ~(n > 1)
        BY <2>1, <2>2, <2>6
      <4> QED
        BY <2>2, <4>1
    <3>2. v = <<v[1]>> /\ values = <<v>>
      BY <1>2, <2>1, <2>2, <3>1 DEF TopicValues
    <3>3. pieces = values
      BY <2>1, <2>2, <3>1, <3>2
    <3> QED
      BY <2>4, <2>6, <3>3, RepeatsGo
  <2> QED
    BY <1>2, <2>5, <2>6
<1> QED
  BY <1>1, <1>2

LEMMA ParseIs == ASSUME NEW a \in QueryRow PROVE ParseReportFilters(a) \in FilterRow
<1>1. \A values, S, d : OneOf(values, S, d) \in S \cup {d}
  BY DEF OneOf
<1>2. /\ OneOf(a.trust, Trusts, "all") \in Trusts
      /\ OneOf(a.sort, ReportSorts, "recent") \in ReportSorts
      /\ OneOf(a.page, Nat \ {0}, 1) \in Nat \ {0}
      /\ OneOf(a.perPage, 1 .. MAX_PER_PAGE, DEFAULT_PER_PAGE) \in 1 .. MAX_PER_PAGE
  <2>1. "all" \in Trusts /\ "recent" \in ReportSorts /\ 1 \in Nat \ {0}
    BY DEF Trusts, ReportSorts
  <2> QED
    BY <1>1, <2>1, FiltersAssumption DEF OneOf
<1>3. SlugList(a.topics) \in TopicLists
  <2>1. a.topics \in Seq(TopicValues)
    BY DEF QueryRow
  <2> QED
    BY <2>1, SlugListIs DEF TopicLists
<1> HIDE DEF OneOf
<1> QED
  BY <1>1, <1>2, <1>3 DEF ParseReportFilters, FilterRow

LEMMA OneChanges ==
  ASSUME NEW Q, NEW O, NEW R, NEW L, NEW G, NEW V, NEW S, NEW P, NEW N,
         NEW f \in [q : Q, outcome : O, roundType : R, level : L, topics : G, trust : V,
                    sort : S, page : P, perPage : N], NEW p \in P
  PROVE  LET Row == [q : Q, outcome : O, roundType : R, level : L, topics : G, trust : V,
                    sort : S, page : P, perPage : N]
         IN  /\ \A x \in O : [f EXCEPT !.outcome = x, !.page = p] \in Row
             /\ \A x \in R : [f EXCEPT !.roundType = x, !.page = p] \in Row
             /\ \A x \in L : [f EXCEPT !.level = x, !.page = p] \in Row
             /\ \A x \in G : [f EXCEPT !.topics = x, !.page = p] \in Row
             /\ \A x \in V : [f EXCEPT !.trust = x, !.page = p] \in Row
             /\ [f EXCEPT !.page = p] \in Row
BY Zenon

LEMMA LinksAre == ASSUME NEW f \in FilterRow, NEW g \in Links(f) PROVE g \in FilterRow
<1> DEFINE P == Nat \ {0}
           N == 1 .. MAX_PER_PAGE
<1>0. /\ f \in [q : Queries \cup {Absent}, outcome : Outcomes \cup {Absent},
               roundType : RoundTypeSlugs \cup {Absent}, level : LevelSlugs \cup {Absent},
               topics : TopicLists, trust : Trusts, sort : ReportSorts, page : P, perPage : N]
      /\ FilterRow = [q : Queries \cup {Absent}, outcome : Outcomes \cup {Absent},
               roundType : RoundTypeSlugs \cup {Absent}, level : LevelSlugs \cup {Absent},
               topics : TopicLists, trust : Trusts, sort : ReportSorts, page : P, perPage : N]
  BY DEF FilterRow
<1>1. 1 \in P
  OBVIOUS
<1> HIDE DEF P, N
<1>2. ASSUME NEW o \in Outcomes \cup {Absent} PROVE [f EXCEPT !.outcome = o, !.page = 1] \in FilterRow
  BY <1>0, <1>1, OneChanges, Zenon
<1>3. ASSUME NEW r \in RoundTypeSlugs \cup {Absent}
      PROVE  [f EXCEPT !.roundType = r, !.page = 1] \in FilterRow
  BY <1>0, <1>1, OneChanges, Zenon
<1>4. ASSUME NEW l \in LevelSlugs \cup {Absent} PROVE [f EXCEPT !.level = l, !.page = 1] \in FilterRow
  BY <1>0, <1>1, OneChanges, Zenon
<1>5. ASSUME NEW t \in TopicLists PROVE [f EXCEPT !.topics = t, !.page = 1] \in FilterRow
  BY <1>0, <1>1, OneChanges, Zenon
<1>6. ASSUME NEW v \in Trusts PROVE [f EXCEPT !.trust = v, !.page = 1] \in FilterRow
  BY <1>0, <1>1, OneChanges, Zenon
<1>7. ASSUME NEW p \in P PROVE [f EXCEPT !.page = p] \in FilterRow
  BY <1>0, OneChanges, Zenon
<1>8. CASE g \in Chips(f)
  <2>1. CASE \E t \in ToSet(f.topics) : g = [f EXCEPT !.topics = At(@, {k \in DOMAIN @ : @[k] # t}), !.page = 1]
    <3>1. PICK t : g = [f EXCEPT !.topics = At(f.topics, {k \in DOMAIN f.topics : f.topics[k] # t}), !.page = 1]
      BY <2>1, Zenon
    <3>2. PICK kept : kept = At(f.topics, {k \in DOMAIN f.topics : f.topics[k] # t})
      OBVIOUS
    <3>3. kept \in TopicLists
      <4>1. f.topics \in Seq(TopicValues) /\ IsInjective(f.topics)
        BY DEF FilterRow, TopicLists
      <4>2. {k \in DOMAIN f.topics : f.topics[k] # t} \in SUBSET DOMAIN f.topics
        OBVIOUS
      <4> QED
        BY <3>2, <4>1, <4>2, PartOf DEF TopicLists
    <3>4. g = [f EXCEPT !.topics = kept, !.page = 1]
      BY <3>1, <3>2
    <3> QED
      BY <1>5, <3>3, <3>4, Zenon
  <2>2. CASE \E o \in Outcomes \cup {Absent} : g = [f EXCEPT !.outcome = o, !.page = 1]
    BY <1>2, <2>2, Zenon
  <2>3. CASE \E l \in LevelSlugs \cup {Absent} : g = [f EXCEPT !.level = l, !.page = 1]
    BY <1>4, <2>3, Zenon
  <2>4. CASE \E r \in RoundTypeSlugs \cup {Absent} : g = [f EXCEPT !.roundType = r, !.page = 1]
    BY <1>3, <2>4, Zenon
  <2>5. CASE \E t \in Trusts : g = [f EXCEPT !.trust = t, !.page = 1]
    BY <1>6, <2>5, Zenon
  <2> QED
    BY <1>8, <2>1, <2>2, <2>3, <2>4, <2>5, Zenon DEF Chips
<1>9. CASE g \in PagerLinks(f)
  <2>1. PICK p \in P : g = [f EXCEPT !.page = p]
    BY <1>9 DEF PagerLinks, PageWindow, P
  <2> QED
    BY <1>7, <2>1, Zenon
<1>10. g \in Chips(f) \/ g \in PagerLinks(f)
  BY Zenon DEF Links
<1> QED
  BY <1>8, <1>9, <1>10

LEMMA UnlessIs ==
  ASSUME NEW S, NEW d, NEW v \in S \cup {d}
  PROVE  OneOf(Unless(v, d), S, d) = v /\ Unless(v, d) \in Seq(S)
BY DEF OneOf, Unless

\* The fields with their defaults.
LEMMA FieldsAre ==
  ASSUME NEW f \in FilterRow
  PROVE  /\ f.q \in Queries \cup {Absent} /\ f.outcome \in Outcomes \cup {Absent}
         /\ f.roundType \in RoundTypeSlugs \cup {Absent} /\ f.level \in LevelSlugs \cup {Absent}
         /\ f.topics \in TopicLists
         /\ f.trust \in Trusts \cup {"all"} /\ f.sort \in ReportSorts \cup {"recent"}
         /\ f.page \in Nat \cup {1} /\ f.page \in (Nat \ {0}) \cup {1}
         /\ f.perPage \in Nat \cup {DEFAULT_PER_PAGE}
         /\ f.perPage \in (1 .. MAX_PER_PAGE) \cup {DEFAULT_PER_PAGE}
<1>1. 1 .. MAX_PER_PAGE \subseteq Nat
  OBVIOUS
<1> QED
  BY <1>1 DEF FilterRow

LEMMA BuildIs == ASSUME NEW f \in FilterRow PROVE BuildReportFiltersQuery(f) \in QueryRow
<1>1. /\ Unless(f.q, Absent) \in Seq(Queries) /\ Unless(f.outcome, Absent) \in Seq(Outcomes)
      /\ Unless(f.roundType, Absent) \in Seq(RoundTypeSlugs) /\ Unless(f.level, Absent) \in Seq(LevelSlugs)
      /\ Unless(f.trust, "all") \in Seq(Trusts) /\ Unless(f.sort, "recent") \in Seq(ReportSorts)
      /\ Unless(f.page, 1) \in Seq(Nat) /\ Unless(f.perPage, DEFAULT_PER_PAGE) \in Seq(Nat)
      /\ f.topics \in Seq(TopicValues)
  BY FieldsAre, UnlessIs DEF TopicLists
<1> HIDE DEF Unless
<1>2. \A S : Seq(S) \subseteq Seq(S \cup {Junk})
  OBVIOUS
<1> QED
  BY <1>1, <1>2 DEF BuildReportFiltersQuery, QueryRow

\* Parsed again, an address built from filters gives these filters.
LEMMA BackAgain ==
  ASSUME NEW f \in FilterRow
  PROVE  LET arrived == ParseReportFilters(BuildReportFiltersQuery(f)) IN
         IF Len(f.topics) = 1 /\ Len(f.topics[1]) > 1
           THEN arrived = [f EXCEPT !.topics = arrived.topics]
           ELSE arrived = f
<1>1. PICK t : t = SlugList(f.topics)
  OBVIOUS
<1>2. ParseReportFilters(BuildReportFiltersQuery(f)) = [f EXCEPT !.topics = t]
  <2>1. /\ OneOf(Unless(f.q, Absent), Queries, Absent) = f.q
        /\ OneOf(Unless(f.outcome, Absent), Outcomes, Absent) = f.outcome
        /\ OneOf(Unless(f.roundType, Absent), RoundTypeSlugs, Absent) = f.roundType
        /\ OneOf(Unless(f.level, Absent), LevelSlugs, Absent) = f.level
        /\ OneOf(Unless(f.trust, "all"), Trusts, "all") = f.trust
        /\ OneOf(Unless(f.sort, "recent"), ReportSorts, "recent") = f.sort
        /\ OneOf(Unless(f.page, 1), Nat \ {0}, 1) = f.page
        /\ OneOf(Unless(f.perPage, DEFAULT_PER_PAGE), 1 .. MAX_PER_PAGE, DEFAULT_PER_PAGE) = f.perPage
    <3>1. OneOf(Unless(f.q, Absent), Queries, Absent) = f.q
      BY FieldsAre, UnlessIs
    <3>2. OneOf(Unless(f.outcome, Absent), Outcomes, Absent) = f.outcome
      BY FieldsAre, UnlessIs
    <3>3. OneOf(Unless(f.roundType, Absent), RoundTypeSlugs, Absent) = f.roundType
      BY FieldsAre, UnlessIs
    <3>4. OneOf(Unless(f.level, Absent), LevelSlugs, Absent) = f.level
      BY FieldsAre, UnlessIs
    <3>5. OneOf(Unless(f.trust, "all"), Trusts, "all") = f.trust
      BY FieldsAre, UnlessIs
    <3>6. OneOf(Unless(f.sort, "recent"), ReportSorts, "recent") = f.sort
      BY FieldsAre, UnlessIs
    <3>7. OneOf(Unless(f.page, 1), Nat \ {0}, 1) = f.page
      BY FieldsAre, UnlessIs
    <3>8. OneOf(Unless(f.perPage, DEFAULT_PER_PAGE), 1 .. MAX_PER_PAGE, DEFAULT_PER_PAGE) = f.perPage
      <4>1. f.perPage \in (1 .. MAX_PER_PAGE) \cup {DEFAULT_PER_PAGE}
        BY FieldsAre
      <4>2. PICK N : N = 1 .. MAX_PER_PAGE
        OBVIOUS
      <4>3. f.perPage \in N \cup {DEFAULT_PER_PAGE}
        BY <4>1, <4>2
      <4>4. OneOf(Unless(f.perPage, DEFAULT_PER_PAGE), N, DEFAULT_PER_PAGE) = f.perPage
        BY <4>3, UnlessIs
      <4> QED
        BY <4>2, <4>4
    <3> QED
      BY <3>1, <3>2, <3>3, <3>4, <3>5, <3>6, <3>7, <3>8
  <2>2. f = [q |-> f.q, outcome |-> f.outcome, roundType |-> f.roundType, level |-> f.level,
             topics |-> f.topics, trust |-> f.trust, sort |-> f.sort, page |-> f.page,
             perPage |-> f.perPage]
    BY DEF FilterRow
  <2>3. [f EXCEPT !.topics = t]
          = [q |-> f.q, outcome |-> f.outcome, roundType |-> f.roundType, level |-> f.level,
             topics |-> t, trust |-> f.trust, sort |-> f.sort, page |-> f.page,
             perPage |-> f.perPage]
    BY <2>2
  <2> QED
    BY <1>1, <2>1, <2>3 DEF ParseReportFilters, BuildReportFiltersQuery
<1>3. [f EXCEPT !.topics = t].topics = t /\ [f EXCEPT !.topics = f.topics] = f
  BY DEF FilterRow
<1>4. ~(Len(f.topics) = 1 /\ Len(f.topics[1]) > 1) => t = f.topics
  <2>1. f.topics \in Seq(TopicValues) /\ IsInjective(f.topics)
    BY FieldsAre DEF TopicLists
  <2> QED
    BY <1>1, <2>1, SlugListIs
<1> QED
  BY <1>2, <1>3, <1>4

LEMMA FiltersTypeStep ==
  ASSUME FiltersTypeOK, [FiltersNext]_filterVars PROVE FiltersTypeOK'
<1>1. CASE UNCHANGED filterVars
  BY <1>1 DEF FiltersTypeOK, filterVars
<1>2. CASE FollowLink
  <2>1. PICK f \in FilterRow : address' = BuildReportFiltersQuery(f)
    BY <1>2, ParseIs, LinksAre DEF FollowLink, FiltersTypeOK
  <2>2. address' \in QueryRow
    BY <2>1, BuildIs
  <2> QED
    BY <1>2, <2>2, FiltersAssumption DEF FollowLink, FiltersTypeOK
<1>3. CASE ListShrinks
  BY <1>3, FiltersAssumption DEF ListShrinks, FiltersTypeOK
<1>4. ASSUME NEW a \in Addresses, Arrive(a) PROVE FiltersTypeOK'
  BY <1>4, FiltersAssumption DEF Arrive, FiltersTypeOK
<1>5. ASSUME NEW text \in Queries, SubmitSearch(text) PROVE FiltersTypeOK'
  <2>1. address' = [NoQuery EXCEPT !.q = <<text>>] /\ <<text>> \in Seq(Queries \cup {Junk})
    BY <1>5 DEF SubmitSearch
  <2>2. NoQuery \in QueryRow
    BY DEF NoQuery, QueryRow
  <2>3. address' \in QueryRow
    BY <2>1, <2>2 DEF QueryRow
  <2> QED
    BY <1>5, <2>3, FiltersAssumption DEF SubmitSearch, FiltersTypeOK
<1> QED
  BY <1>1, <1>2, <1>3, <1>4, <1>5 DEF FiltersNext

LEMMA FiltersStarts == FiltersInit => FiltersTypeOK
<1>1. NoQuery \in QueryRow
  BY DEF NoQuery, QueryRow
<1> QED
  BY <1>1, FiltersAssumption DEF FiltersInit, FiltersTypeOK

(* A reader of the browse pages is at an address the server can parse, and *)
(* every link leads to another (url.ts).                                   *)
THEOREM FiltersTypes == FiltersSpec => []FiltersTypeOK
BY FiltersStarts, FiltersTypeStep, PTL DEF FiltersSpec

(* Whatever the address, with values repeated, refused or out of range,    *)
(* each chip and each page number leads to the filters it stands for, and  *)
(* so on from there, for any facets, any page sizes and any number of      *)
(* reports, but for a lone topic with a comma in it, whose other filters   *)
(* stay (filter-bar.tsx, pagination.tsx, url.ts).                          *)
THEOREM FiltersLinksKeep == FiltersSpec => []LinksKeepTheRest
<1>1. FiltersTypeOK => LinksKeepTheRest
  BY ParseIs, LinksAre, BackAgain DEF FiltersTypeOK, LinksKeepTheRest
<1> QED
  BY <1>1, FiltersStarts, FiltersTypeStep, PTL DEF FiltersSpec

-----------------------------------------------------------------------------
(***************************************************************************)
(* The public pages, for any companies, roles, levels, topics and reports: *)
(* the rows they read, that what pages say of one another agrees, and what *)
(* the sitemap lists.  The last two hold of any rows of these types; what  *)
(* they need is that every read of a page finds the same reports, and that *)
(* a list page by page finds all of its own.                               *)
(***************************************************************************)

\* The reports behind each page.
OfCompany(c) == {i \in Ids : Body(i).company = c /\ VISIBLE(i)}
OfRole(c, ro) == {i \in OfCompany(c) : Body(i).role = ro}
OfLevel(c, ro, l) == {i \in OfRole(c, ro) : Body(i).level = l}
OfTopic(t) == {i \in Ids : VISIBLE(i) /\ t \in TopicsOf(i)}
OfTopicCompany(t, c) == {i \in OfTopic(t) : Body(i).company = c}

LEMMA CatalogFacts ==
  ASSUME CatalogTypeOK
  PROVE  /\ Len(posted) \in Nat /\ Ids = 1 .. Len(posted) /\ Len(posted) <= MaxPosted
         /\ IsFiniteSet(Ids) /\ Cardinality(Ids) = Len(posted) /\ Ids \subseteq Nat
         /\ \A i \in Ids : /\ posted[i] \in PostedRow /\ Body(i) \in ReportBodies
                           /\ Body(i).company \in Houses /\ Body(i).role \in Trades
                           /\ Body(i).questions \in Seq(SUBSET Topics)
<1>1. /\ Len(posted) \in Nat /\ Ids = 1 .. Len(posted) /\ Len(posted) <= MaxPosted
      /\ \A i \in Ids : posted[i] \in PostedRow
  BY DEF CatalogTypeOK, Ids
<1>2. PICK n \in Nat : n = Len(posted)
  BY <1>1
<1>3. IsFiniteSet(1 .. n) /\ Cardinality(1 .. n) = n /\ 1 .. n \subseteq Nat
  <2>1. n \in Nat
    OBVIOUS
  <2> QED
    BY <2>1, FS_Interval
<1>4. \A i \in Ids : Body(i) \in ReportBodies
  BY <1>1 DEF PostedRow, Body
<1> QED
  BY <1>1, <1>2, <1>3, <1>4, CatalogAssumption

LEMMA Counts ==
  ASSUME CatalogTypeOK, NEW S \in SUBSET Ids
  PROVE  /\ IsFiniteSet(S) /\ Cardinality(S) \in Nat /\ Cardinality(S) <= Len(posted)
         /\ S # {} <=> Cardinality(S) \in 1 .. Len(posted)
         /\ \A R \in SUBSET S : Cardinality(R) <= Cardinality(S)
<1>1. IsFiniteSet(S) /\ Cardinality(S) \in Nat /\ Cardinality(S) <= Len(posted)
      /\ \A R \in SUBSET S : Cardinality(R) <= Cardinality(S)
  BY CatalogFacts, FS_Subset, FS_CardinalityType
<1>2. Cardinality(S) = 0 <=> S = {}
  BY <1>1, FS_EmptySet
<1>3. Len(posted) \in Nat
  BY CatalogFacts
<1> QED
  BY <1>1, <1>2, <1>3

-----------------------------------------------------------------------------
(* Each read finds the reports of its page. *)

LEMMA ReportReads ==
  ASSUME NEW c, NEW ro
  PROVE  /\ CompanyReportWhere(c, NoFilters) = OfCompany(c)
         /\ CompanyStats(c).reportCount = Cardinality(OfCompany(c))
         /\ RoleReportWhere(c, ro, NoFilters) = OfRole(c, ro)
         /\ \A l : l # Unset =>
              RoleReportWhere(c, ro, [NoFilters EXCEPT !.level = l]) = OfLevel(c, ro, l)
         /\ CountActiveReportsForCompanyRole(c, ro) = Cardinality(OfRole(c, ro))
<1>1. NoFilters.outcome = Unset /\ NoFilters.level = Unset /\ NoFilters.verifiedOnly = FALSE
      /\ NoFilters.roundType = Unset /\ NoFilters.topics = {}
  BY DEF NoFilters
<1>2. \A i : ReportFilterConditions(NoFilters, i)
  BY <1>1 DEF ReportFilterConditions
<1>3. \A l, i : l # Unset =>
         (ReportFilterConditions([NoFilters EXCEPT !.level = l], i) <=> Body(i).level = l)
  BY <1>1 DEF ReportFilterConditions, NoFilters
<1>4. CompanyReportWhere(c, NoFilters) = OfCompany(c)
  BY <1>2 DEF CompanyReportWhere, OfCompany
<1>5. CompanyStats(c).reportCount = Cardinality(OfCompany(c))
  <2>1. {i \in Ids : Body(i).company = c /\ posted[i].status = "active"} = OfCompany(c)
    BY DEF OfCompany, VISIBLE
  <2> QED
    BY <2>1 DEF CompanyStats
<1>6. RoleReportWhere(c, ro, NoFilters) = OfRole(c, ro)
  BY <1>2 DEF RoleReportWhere, OfRole, OfCompany
<1>7. ASSUME NEW l, l # Unset
      PROVE  RoleReportWhere(c, ro, [NoFilters EXCEPT !.level = l]) = OfLevel(c, ro, l)
  BY <1>3, <1>7 DEF RoleReportWhere, OfLevel, OfRole, OfCompany
<1>8. CountActiveReportsForCompanyRole(c, ro) = Cardinality(OfRole(c, ro))
  <2>1. {i \in Ids : Body(i).company = c /\ Body(i).role = ro /\ posted[i].status = "active"} = OfRole(c, ro)
    BY DEF OfRole, OfCompany, VISIBLE
  <2> QED
    BY <2>1 DEF CountActiveReportsForCompanyRole
<1> QED
  BY <1>4, <1>5, <1>6, <1>7, <1>8

\* A report holds the questions a topic tags exactly when it is about the topic.
LEMMA TaggedAre ==
  ASSUME NEW t
  PROVE  /\ \A q \in Tagged(t) : q[1] \in Ids /\ t \in TopicsOf(q[1])
         /\ \A i \in Ids : t \in TopicsOf(i) => \E q \in Tagged(t) : q[1] = i
<1>1. ASSUME NEW q \in Tagged(t) PROVE q[1] \in Ids /\ t \in TopicsOf(q[1])
  <2>1. PICK i \in Ids : q \in {i} \X {k \in DOMAIN Body(i).questions : t \in Body(i).questions[k]}
    BY <1>1 DEF Tagged
  <2> QED
    BY <2>1 DEF TopicsOf
<1>2. ASSUME NEW i \in Ids, t \in TopicsOf(i) PROVE \E q \in Tagged(t) : q[1] = i
  <2>1. PICK k \in DOMAIN Body(i).questions : t \in Body(i).questions[k]
    BY <1>2 DEF TopicsOf
  <2>2. <<i, k>> \in Tagged(t) /\ <<i, k>>[1] = i
    BY <2>1 DEF Tagged
  <2> QED
    BY <2>2
<1> QED
  BY <1>1, <1>2

\* The reports that hold the questions of Q.
HeldBy(Q) == {q[1] : q \in Q}

LEMMA TopicReads ==
  ASSUME NEW t
  PROVE  /\ HeldBy(QuestionsForTopic(t, Unset)) = OfTopic(t)
         /\ CountReportsForTopic(t, Unset) = Cardinality(OfTopic(t))
         /\ HeldBy({q \in Tagged(t) : VISIBLE(q[1])}) = OfTopic(t)
         /\ {q \in Tagged(t) : VISIBLE(q[1])} = QuestionsForTopic(t, Unset)
<1>1. {q \in Tagged(t) : VISIBLE(q[1])} = QuestionsForTopic(t, Unset)
  BY DEF QuestionsForTopic
<1>2. HeldBy({q \in Tagged(t) : VISIBLE(q[1])}) = OfTopic(t)
  BY TaggedAre DEF HeldBy, OfTopic
<1>3. {i \in Ids : VISIBLE(i) /\ (Unset # Unset => Body(i).company = Unset) /\ t \in TopicsOf(i)}
        = OfTopic(t)
  BY DEF OfTopic
<1>4. CountReportsForTopic(t, Unset) = Cardinality(OfTopic(t))
  BY <1>3 DEF CountReportsForTopic
<1> QED
  BY <1>1, <1>2, <1>4

LEMMA TopicCompanyReads ==
  ASSUME NEW t, NEW house, house # Unset
  PROVE  /\ HeldBy(QuestionsForTopic(t, house)) = OfTopicCompany(t, house)
         /\ CountReportsForTopic(t, house) = Cardinality(OfTopicCompany(t, house))
         /\ HeldBy({q \in Tagged(t) : VISIBLE(q[1]) /\ Body(q[1]).company = house})
              = OfTopicCompany(t, house)
<1>1. QuestionsForTopic(t, house) = {q \in Tagged(t) : VISIBLE(q[1]) /\ Body(q[1]).company = house}
  BY DEF QuestionsForTopic
<1>2. HeldBy({q \in Tagged(t) : VISIBLE(q[1]) /\ Body(q[1]).company = house})
        = OfTopicCompany(t, house)
  BY TaggedAre DEF HeldBy, OfTopic, OfTopicCompany
<1>3. {i \in Ids : VISIBLE(i) /\ (house # Unset => Body(i).company = house) /\ t \in TopicsOf(i)}
        = OfTopicCompany(t, house)
  BY DEF OfTopic, OfTopicCompany
<1>4. CountReportsForTopic(t, house) = Cardinality(OfTopicCompany(t, house))
  BY <1>3 DEF CountReportsForTopic
<1> QED
  BY <1>1, <1>2, <1>4

-----------------------------------------------------------------------------
(* Lists of reports. *)

LEMMA ScoreIs ==
  ASSUME CatalogTypeOK, NEW i \in Ids PROVE HelpfulScore(i) \in Nat
<1> DEFINE f == [h \in thanks |-> IF KarmaOf[h[1]] > 1 THEN KarmaOf[h[1]] ELSE 1]
           S == {h \in thanks : h[2] = i /\ h[1] # Body(i).author /\ h[1] \in Attested}
<1>1. HelpfulScore(i) = SumOver(f, S)
  BY Zenon DEF HelpfulScore, SumOver
<1>2. thanks \subseteq (DOMAIN KarmaOf) \X Ids
  BY DEF CatalogTypeOK
<1>3. IsFiniteSet(S)
  <2>1. IsFiniteSet((DOMAIN KarmaOf) \X Ids)
    BY CatalogFacts, CatalogAssumption, FS_Product
  <2> QED
    BY <1>2, <2>1, FS_Subset
<1>4. \A h \in S : f[h] \in Nat
  BY <1>2, CatalogAssumption
<1> HIDE DEF f, S, SumOver
<1> QED
  BY <1>1, <1>3, <1>4, SumIsNumber

LEMMA InListOrderIs ==
  ASSUME CatalogTypeOK, NEW S \in SUBSET Ids
  PROVE  /\ InListOrder(S) \in Seq(S) /\ Len(InListOrder(S)) = Cardinality(S)
         /\ ToSet(InListOrder(S)) = S
<1> DEFINE R == {p \in Ids \X Ids : ListedBefore(p[1], p[2])}
<1>1. IsFiniteSet(S) /\ S \subseteq Nat
  BY Counts, CatalogFacts
<1>2. \A x \in S : HelpfulScore(x) \in Nat
  BY ScoreIs
<1>3. Orders(R, S)
  <2>1. \A x, y \in S : <<x, y>> \in R <=> ListedBefore(x, y)
    OBVIOUS
  <2> HIDE DEF R
  <2>2. /\ \A x \in S : ~ListedBefore(x, x)
        /\ \A x, y \in S : x # y => ListedBefore(x, y) \/ ListedBefore(y, x)
        /\ \A x, y, z \in S : ListedBefore(x, y) /\ ListedBefore(y, z) => ListedBefore(x, z)
    BY <1>1, <1>2 DEF ListedBefore
  <2> QED
    BY <2>1, <2>2 DEF Orders
<1>4. PICK l : Lists(l, S, R)
  <2> HIDE DEF R
  <2> QED
    BY <1>1, <1>3, ListExists
<1>5. ASSUME NEW s \in [1 .. Cardinality(S) -> S]
      PROVE  Lists(s, S, R) <=> \A i, j \in DOMAIN s : i < j => ListedBefore(s[i], s[j])
  BY <1>5 DEF Lists
<1>6. Lists(InListOrder(S), S, R)
  <2>1. l \in [1 .. Cardinality(S) -> S] /\ \A i, j \in DOMAIN l : i < j => ListedBefore(l[i], l[j])
    BY <1>4, <1>5 DEF Lists
  <2>2. /\ InListOrder(S) \in [1 .. Cardinality(S) -> S]
        /\ \A i, j \in DOMAIN InListOrder(S) : i < j => ListedBefore(InListOrder(S)[i], InListOrder(S)[j])
    BY <2>1, Zenon DEF InListOrder
  <2> QED
    BY <1>5, <2>2
<1> HIDE DEF R
<1> QED
  BY <1>1, <1>3, <1>6, ListIs

LEMMA ItemsAre ==
  ASSUME CatalogTypeOK, NEW S \in SUBSET Ids, NEW o \in Nat
  PROVE  LET list == RunReportList(S, 1, o) IN
         /\ Range(list.items) = IF o < Cardinality(S) THEN {InListOrder(S)[o + 1]} ELSE {}
         /\ list.total = IF o < Cardinality(S) THEN Cardinality(S) ELSE 0
<1>1. PICK n \in Nat : n = Cardinality(S)
  BY Counts
<1>2. PICK s \in Seq(S) : s = InListOrder(S) /\ Len(s) = n
  BY <1>1, InListOrderIs
<1>3. PICK here : here = SubSeq(s, o + 1, IF o + 1 < n THEN o + 1 ELSE n)
  OBVIOUS
<1>4. RunReportList(S, 1, o).items = here
      /\ RunReportList(S, 1, o).total = IF here = << >> THEN 0 ELSE n
  BY <1>1, <1>2, <1>3 DEF RunReportList
<1>5. CASE o < n
  <2>1. here = SubSeq(s, o + 1, o + 1)
    BY <1>1, <1>3, <1>5
  <2>2. here = <<s[o + 1]>>
    <3>1. PICK k \in 1 .. Len(s) : k = o + 1
      BY <1>1, <1>2, <1>5
    <3>2. SubSeq(s, k, k) = <<s[k]>> \o SubSeq(s, k + 1, k)
      BY <3>1, SubSeqRecursiveFirst
    <3>3. SubSeq(s, k + 1, k) = << >>
      BY <3>1, SubSeqEmpty
    <3>4. PICK x : x = s[k]
      OBVIOUS
    <3>5. <<x>> \o << >> = <<x>>
      OBVIOUS
    <3>6. here = SubSeq(s, k, k)
      BY <2>1, <3>1
    <3> QED
      BY <3>1, <3>2, <3>3, <3>4, <3>5, <3>6, Zenon
  <2>3. Range(here) = {s[o + 1]} /\ here # << >>
    BY <2>2 DEF Range
  <2> QED
    BY <1>1, <1>2, <1>4, <1>5, <2>3
<1>6. CASE ~(o < n)
  <2>1. here = << >>
    <3>1. here = SubSeq(s, o + 1, n) /\ n < o + 1
      BY <1>1, <1>3, <1>6
    <3> QED
      BY <1>1, <3>1, SubSeqEmpty
  <2>2. Range(here) = {}
    BY <2>1 DEF Range
  <2> QED
    BY <1>1, <1>4, <1>6, <2>1, <2>2
<1> QED
  BY <1>5, <1>6

\* Page by page, a list shows all its reports.
LEMMA PageByPage ==
  ASSUME CatalogTypeOK, NEW S \in SUBSET Ids
  PROVE  UNION {Range(RunReportList(S, 1, (n - 1) * 1).items) : n \in 1 .. MaxPosted} = S
<1>1. PICK m \in Nat : m = Cardinality(S) /\ m <= MaxPosted
  BY Counts, CatalogFacts, CatalogAssumption
<1>2. PICK s \in Seq(S) : s = InListOrder(S) /\ Len(s) = m /\ ToSet(s) = S
  BY <1>1, InListOrderIs
<1>3. \A n \in 1 .. MaxPosted :
        Range(RunReportList(S, 1, (n - 1) * 1).items) = IF n <= m THEN {s[n]} ELSE {}
  <2> SUFFICES ASSUME NEW n \in 1 .. MaxPosted
               PROVE  Range(RunReportList(S, 1, (n - 1) * 1).items) = IF n <= m THEN {s[n]} ELSE {}
    OBVIOUS
  <2>1. PICK o \in Nat : o = (n - 1) * 1 /\ o + 1 = n
    BY CatalogAssumption
  <2>2. Range(RunReportList(S, 1, o).items) = IF o < m THEN {s[o + 1]} ELSE {}
    BY <1>1, <1>2, ItemsAre
  <2>3. RunReportList(S, 1, (n - 1) * 1) = RunReportList(S, 1, o)
    BY <2>1, Zenon
  <2>4. (o < m) = (n <= m)
    BY <1>1, <2>1
  <2> QED
    BY <2>1, <2>2, <2>3, <2>4, Zenon
<1>4. \A x \in S : \E n \in 1 .. MaxPosted : n <= m /\ x = s[n]
  <2> SUFFICES ASSUME NEW x \in S PROVE \E n \in 1 .. MaxPosted : n <= m /\ x = s[n]
    OBVIOUS
  <2>1. PICK n \in DOMAIN s : x = s[n]
    BY <1>2 DEF ToSet
  <2>2. n \in 1 .. MaxPosted /\ n <= m
    BY <1>1, <1>2, CatalogAssumption
  <2> QED
    BY <2>1, <2>2
<1>5. \A n \in 1 .. MaxPosted : n <= m => s[n] \in S
  BY <1>1, <1>2
<1> DEFINE page(n) == Range(RunReportList(S, 1, (n - 1) * 1).items)
<1>6. \A n \in 1 .. MaxPosted : page(n) = IF n <= m THEN {s[n]} ELSE {}
  BY <1>3
<1> HIDE DEF page
<1>7. UNION {page(n) : n \in 1 .. MaxPosted} = S
  BY <1>4, <1>5, <1>6
<1> QED
  BY <1>7 DEF page

-----------------------------------------------------------------------------
(* What each page is. *)

LEMMA PagesAre ==
  /\ \A c : PageAt(<<"company", c>>) = CompanyPage(c)
  /\ \A c, ro : PageAt(<<"role", c, ro>>) = RolePage(c, ro)
  /\ \A c, ro, l : PageAt(<<"level", c, ro, l>>) = LevelPage(c, ro, l)
  /\ \A t : PageAt(<<"topic", t>>) = TopicPage(t)
  /\ \A t, c : PageAt(<<"topicCompany", t, c>>) = TopicCompanyPage(t, c)
BY DEF PageAt

LEMMA PartsOfIds ==
  ASSUME NEW c, NEW ro, NEW l, NEW t
  PROVE  /\ OfCompany(c) \in SUBSET Ids /\ OfRole(c, ro) \in SUBSET OfCompany(c)
         /\ OfLevel(c, ro, l) \in SUBSET OfRole(c, ro)
         /\ OfRole(c, ro) \in SUBSET Ids /\ OfLevel(c, ro, l) \in SUBSET Ids
         /\ OfTopic(t) \in SUBSET Ids
         /\ OfTopicCompany(t, c) \in SUBSET OfTopic(t) /\ OfTopicCompany(t, c) \in SUBSET Ids
BY DEF OfCompany, OfRole, OfLevel, OfTopic, OfTopicCompany

LEMMA CompanyPageIs ==
  ASSUME NEW c
  PROVE  /\ CompanyPage(c).resolves = InForce(c) /\ CompanyPage(c).canonical = <<"company", c>>
         /\ CompanyPage(c).shows = OfCompany(c)
         /\ CompanyPage(c).count = Cardinality(OfCompany(c))
BY ReportReads DEF CompanyPage

\* The row of a level that has its own slug, if there are reports of it.
Active(c, ro, slug) ==
  slug # Unset /\ \E entry \in LevelsForCompanyRoleWithReports(c, ro) :
                      entry.slugged /\ entry.name = slug

\* A view of the role, and of one of its levels.
LEMMA WholeRole ==
  ASSUME NEW c, NEW ro, NEW slug, ~Active(c, ro, slug)
  PROVE  /\ RoleView(c, ro, slug, 1, 1).shows = OfRole(c, ro)
         /\ RoleView(c, ro, slug, 1, 1).list = RunReportList(OfRole(c, ro), 1, 0)
         /\ RoleView(c, ro, slug, 1, 1).headline = Cardinality(OfRole(c, ro))
         /\ RoleView(c, ro, slug, 1, 1).broadened = FALSE
<1>1. PICK chosen \in BOOLEAN : chosen = Active(c, ro, slug)
  BY DEF Active
<1>2. chosen = FALSE
  BY <1>1
<1>3. PICK f : f = [NoFilters EXCEPT !.level = IF chosen THEN slug ELSE Unset]
  OBVIOUS
<1>4. PICK alone : alone = (chosen /\ DecideLevelView(LevelCell(c, ro, slug)) = "level")
  OBVIOUS
<1>5. RoleView(c, ro, slug, 1, 1)
        = [shows |-> RoleReportWhere(c, ro, f),
           list |-> RunReportList(RoleReportWhere(c, ro, f), 1, (1 - 1) * 1),
           orderedIds |-> RunReportIdList(RoleReportWhere(c, ro, f), TRIAGE_ID_CAP),
           broadened |-> chosen /\ ~alone,
           headline |-> IF alone THEN LevelCell(c, ro, slug)
                        ELSE CountActiveReportsForCompanyRole(c, ro)]
  BY <1>1, <1>3, <1>4, Zenon DEF RoleView, Active
<1>6. f = NoFilters
  BY <1>2, <1>3 DEF NoFilters
<1>7. RoleReportWhere(c, ro, f) = OfRole(c, ro)
  BY <1>6, ReportReads
<1>8. alone = FALSE /\ (1 - 1) * 1 = 0
  BY <1>2, <1>4
<1>9. CountActiveReportsForCompanyRole(c, ro) = Cardinality(OfRole(c, ro))
  BY ReportReads
<1> QED
  BY <1>2, <1>5, <1>7, <1>8, <1>9

LEMMA OneLevel ==
  ASSUME NEW c, NEW ro, NEW slug, Active(c, ro, slug)
  PROVE  /\ RoleView(c, ro, slug, 1, 1).shows = OfLevel(c, ro, slug)
         /\ RoleView(c, ro, slug, 1, 1).list = RunReportList(OfLevel(c, ro, slug), 1, 0)
         /\ IF DecideLevelView(LevelCell(c, ro, slug)) = "level"
            THEN /\ RoleView(c, ro, slug, 1, 1).headline = Cardinality(OfLevel(c, ro, slug))
                 /\ RoleView(c, ro, slug, 1, 1).broadened = FALSE
            ELSE /\ RoleView(c, ro, slug, 1, 1).headline = Cardinality(OfRole(c, ro))
                 /\ RoleView(c, ro, slug, 1, 1).broadened = TRUE
<1>1. PICK chosen \in BOOLEAN : chosen = Active(c, ro, slug)
  BY DEF Active
<1>2. chosen = TRUE /\ slug # Unset
  BY <1>1 DEF Active
<1>3. PICK f : f = [NoFilters EXCEPT !.level = IF chosen THEN slug ELSE Unset]
  OBVIOUS
<1>4. PICK alone \in BOOLEAN : alone = (chosen /\ DecideLevelView(LevelCell(c, ro, slug)) = "level")
  BY <1>1
<1>5. RoleView(c, ro, slug, 1, 1)
        = [shows |-> RoleReportWhere(c, ro, f),
           list |-> RunReportList(RoleReportWhere(c, ro, f), 1, (1 - 1) * 1),
           orderedIds |-> RunReportIdList(RoleReportWhere(c, ro, f), TRIAGE_ID_CAP),
           broadened |-> chosen /\ ~alone,
           headline |-> IF alone THEN LevelCell(c, ro, slug)
                        ELSE CountActiveReportsForCompanyRole(c, ro)]
  BY <1>1, <1>3, <1>4, Zenon DEF RoleView, Active
<1>6. f = [NoFilters EXCEPT !.level = slug]
  BY <1>2, <1>3
<1>7. RoleReportWhere(c, ro, f) = OfLevel(c, ro, slug)
  BY <1>2, <1>6, ReportReads
<1>8. (1 - 1) * 1 = 0 /\ LevelCell(c, ro, slug) = Cardinality(OfLevel(c, ro, slug))
  BY <1>6, <1>7 DEF LevelCell
<1>9. CountActiveReportsForCompanyRole(c, ro) = Cardinality(OfRole(c, ro))
  BY ReportReads
<1>10. CASE alone = TRUE
  <2>1. DecideLevelView(LevelCell(c, ro, slug)) = "level"
    BY <1>4, <1>10
  <2>2. (chosen /\ ~alone) = FALSE
    BY <1>10
  <2>3. RoleView(c, ro, slug, 1, 1).broadened = (chosen /\ ~alone)
        /\ RoleView(c, ro, slug, 1, 1).headline = IF alone THEN LevelCell(c, ro, slug)
                        ELSE CountActiveReportsForCompanyRole(c, ro)
    BY <1>5
  <2>4. /\ RoleView(c, ro, slug, 1, 1).headline = Cardinality(OfLevel(c, ro, slug))
        /\ RoleView(c, ro, slug, 1, 1).broadened = FALSE
    BY <1>8, <1>10, <2>2, <2>3
  <2>5. /\ RoleView(c, ro, slug, 1, 1).shows = OfLevel(c, ro, slug)
        /\ RoleView(c, ro, slug, 1, 1).list = RunReportList(OfLevel(c, ro, slug), 1, 0)
    BY <1>5, <1>7, <1>8
  <2> QED
    BY <2>1, <2>4, <2>5
<1>11. CASE alone = FALSE
  <2>1. DecideLevelView(LevelCell(c, ro, slug)) # "level"
    BY <1>2, <1>4, <1>11, Zenon
  <2>2. (chosen /\ ~alone) = TRUE
    BY <1>2, <1>11
  <2>3. RoleView(c, ro, slug, 1, 1).broadened = (chosen /\ ~alone)
        /\ RoleView(c, ro, slug, 1, 1).headline = IF alone THEN LevelCell(c, ro, slug)
                        ELSE CountActiveReportsForCompanyRole(c, ro)
    BY <1>5
  <2>4. /\ RoleView(c, ro, slug, 1, 1).headline = Cardinality(OfRole(c, ro))
        /\ RoleView(c, ro, slug, 1, 1).broadened = TRUE
    BY <1>9, <1>11, <2>2, <2>3
  <2>5. /\ RoleView(c, ro, slug, 1, 1).shows = OfLevel(c, ro, slug)
        /\ RoleView(c, ro, slug, 1, 1).list = RunReportList(OfLevel(c, ro, slug), 1, 0)
    BY <1>5, <1>7, <1>8
  <2> QED
    BY <2>1, <2>4, <2>5
<1> QED
  BY <1>4, <1>10, <1>11

LEMMA RolePageIs ==
  ASSUME NEW c, NEW ro
  PROVE  /\ RolePage(c, ro).resolves = (InForce(c) /\ InForce(ro))
         /\ RolePage(c, ro).canonical = <<"role", c, ro>>
         /\ RolePage(c, ro).shows = OfRole(c, ro)
         /\ RolePage(c, ro).count = Cardinality(OfRole(c, ro))
         /\ RolePage(c, ro).links = WedgeRail(c, ro)
<1>1. ~Active(c, ro, Unset)
  BY DEF Active
<1> QED
  BY <1>1, WholeRole DEF RolePage

LEMMA LevelRows ==
  ASSUME NEW c, NEW ro
  PROVE  /\ \A entry \in LevelsForCompanyRoleWithReports(c, ro) :
              /\ entry.slugged => entry.name \in Rungs[c]
              /\ entry.reportCount = Cardinality(OfLevel(c, ro, entry.name))
              /\ OfLevel(c, ro, entry.name) # {}
         /\ \A l : OfLevel(c, ro, l) # {} /\ l \in Rungs[c] =>
              \E entry \in LevelsForCompanyRoleWithReports(c, ro) : entry.slugged /\ entry.name = l
<1> DEFINE R == {i \in Ids : Body(i).company = c /\ Body(i).role = ro /\ VISIBLE(i)}
<1>1. R = OfRole(c, ro)
  BY DEF OfRole, OfCompany
<1>2. \A l : {i \in R : Body(i).level = l} = OfLevel(c, ro, l)
  BY <1>1 DEF OfLevel
<1>3. LevelsForCompanyRoleWithReports(c, ro)
        = {[name |-> l, slugged |-> l \in Rungs[c],
            reportCount |-> Cardinality({i \in R : Body(i).level = l})] :
             l \in {Body(i).level : i \in R}}
  BY DEF LevelsForCompanyRoleWithReports
<1>4. \A l : l \in {Body(i).level : i \in R} <=> OfLevel(c, ro, l) # {}
  BY <1>1 DEF OfLevel
<1> HIDE DEF R
<1>5. ASSUME NEW entry \in LevelsForCompanyRoleWithReports(c, ro)
      PROVE  /\ entry.slugged => entry.name \in Rungs[c]
             /\ entry.reportCount = Cardinality(OfLevel(c, ro, entry.name))
             /\ OfLevel(c, ro, entry.name) # {}
  <2>1. PICK l \in {Body(i).level : i \in R} :
           entry = [name |-> l, slugged |-> l \in Rungs[c],
                  reportCount |-> Cardinality({i \in R : Body(i).level = l})]
    BY <1>3, <1>5
  <2> QED
    BY <1>2, <1>4, <2>1
<1>6. ASSUME NEW l, OfLevel(c, ro, l) # {}, l \in Rungs[c]
      PROVE  \E entry \in LevelsForCompanyRoleWithReports(c, ro) : entry.slugged /\ entry.name = l
  <2>1. l \in {Body(i).level : i \in R}
    BY <1>4, <1>6
  <2>2. PICK entry \in LevelsForCompanyRoleWithReports(c, ro) :
           entry = [name |-> l, slugged |-> l \in Rungs[c],
                  reportCount |-> Cardinality({i \in R : Body(i).level = l})]
    BY <1>3, <2>1
  <2> QED
    BY <1>6, <2>2
<1> QED
  BY <1>5, <1>6

\* How a list counts itself.
LEMMA TotalIs ==
  ASSUME CatalogTypeOK, NEW S \in SUBSET Ids
  PROVE  RunReportList(S, 1, 0).total = Cardinality(S)
<1>1. PICK n \in Nat : n = Cardinality(S)
  BY Counts
<1>2. RunReportList(S, 1, 0).total = IF 0 < n THEN n ELSE 0
  BY <1>1, ItemsAre
<1> QED
  BY <1>1, <1>2

LevelPageFacts(c, ro, l) ==
  /\ LevelPage(c, ro, l).resolves = (InForce(c) /\ InForce(ro) /\ l \in Rungs[c])
  /\ LevelPage(c, ro, l).canonical = IF Cardinality(OfLevel(c, ro, l)) >= Sparse
                                     THEN <<"level", c, ro, l>> ELSE <<"role", c, ro>>
  /\ LevelPage(c, ro, l).shows \in {OfLevel(c, ro, l), OfRole(c, ro)}
  /\ LevelPage(c, ro, l).count = Cardinality(LevelPage(c, ro, l).shows)
  /\ l \in Rungs[c] /\ OfLevel(c, ro, l) # {} => LevelPage(c, ro, l).shows = OfLevel(c, ro, l)
  /\ LevelPage(c, ro, l).links = WedgeRail(c, ro)
  /\ LET view == RoleView(c, ro, l, 1, 1)
     IN  IF view.broadened THEN view.headline >= LevelPage(c, ro, l).count
                           ELSE view.headline = LevelPage(c, ro, l).count

LEMMA LevelPageIs ==
  ASSUME CatalogTypeOK, NEW c \in Houses, NEW ro \in Trades, NEW l \in UNION Range(Rungs)
  PROVE  LevelPageFacts(c, ro, l)
<1>0. l # Unset
  BY CatalogAssumption
<1>1. LevelCell(c, ro, l) = Cardinality(OfLevel(c, ro, l))
  BY <1>0, ReportReads DEF LevelCell
<1>2. PICK view : view = RoleView(c, ro, l, 1, 1)
  OBVIOUS
<1>3. /\ LevelPage(c, ro, l).resolves = (InForce(c) /\ InForce(ro) /\ l \in Rungs[c])
      /\ LevelPage(c, ro, l).shows = view.shows /\ LevelPage(c, ro, l).count = view.list.total
      /\ LevelPage(c, ro, l).links = WedgeRail(c, ro)
  BY <1>2 DEF LevelPage
<1>4. LevelPage(c, ro, l).canonical = IF Cardinality(OfLevel(c, ro, l)) >= Sparse
                                      THEN <<"level", c, ro, l>> ELSE <<"role", c, ro>>
  BY <1>1 DEF LevelPage, DecideLevelView
<1>5. PICK ofLevel, ofRole : ofLevel = OfLevel(c, ro, l) /\ ofRole = OfRole(c, ro)
  OBVIOUS
<1>6. ofLevel \in SUBSET ofRole /\ ofRole \in SUBSET Ids /\ ofLevel \in SUBSET Ids
  BY <1>5, PartsOfIds
<1>7. /\ Cardinality(ofLevel) \in Nat /\ Cardinality(ofRole) \in Nat
      /\ Cardinality(ofLevel) <= Cardinality(ofRole)
      /\ RunReportList(ofLevel, 1, 0).total = Cardinality(ofLevel)
      /\ RunReportList(ofRole, 1, 0).total = Cardinality(ofRole)
  BY <1>6, Counts, TotalIs
<1>8. ofLevel # {} /\ l \in Rungs[c] => Active(c, ro, l)
  BY <1>0, <1>5, LevelRows DEF Active
<1>9. CASE Active(c, ro, l)
  <2>1. /\ view.shows = ofLevel /\ view.list = RunReportList(ofLevel, 1, 0)
        /\ \/ view.headline = Cardinality(ofLevel) /\ view.broadened = FALSE
           \/ view.headline = Cardinality(ofRole) /\ view.broadened = TRUE
    BY <1>2, <1>5, <1>9, OneLevel
  <2>2. LevelPage(c, ro, l).count = Cardinality(ofLevel)
    BY <1>3, <1>7, <2>1
  <2> QED
    BY <1>2, <1>3, <1>4, <1>5, <1>7, <2>1, <2>2 DEF LevelPageFacts
<1>10. CASE ~Active(c, ro, l)
  <2>1. /\ view.shows = ofRole /\ view.list = RunReportList(ofRole, 1, 0)
        /\ view.headline = Cardinality(ofRole) /\ view.broadened = FALSE
    BY <1>2, <1>5, <1>10, WholeRole
  <2>2. LevelPage(c, ro, l).count = Cardinality(ofRole)
    BY <1>3, <1>7, <2>1
  <2> QED
    BY <1>2, <1>3, <1>4, <1>5, <1>7, <1>8, <1>10, <2>1, <2>2 DEF LevelPageFacts
<1> QED
  BY <1>9, <1>10

LEMMA TopicPageIs ==
  ASSUME NEW t
  PROVE  /\ TopicPage(t).resolves = InForce(t) /\ TopicPage(t).canonical = <<"topic", t>>
         /\ TopicPage(t).shows = OfTopic(t) /\ TopicPage(t).count = Cardinality(OfTopic(t))
BY TopicReads DEF TopicPage, HeldBy

TopicCompanyFacts(t, c) ==
  /\ TopicCompanyPage(t, c).resolves = (InForce(t) /\ InForce(c))
  /\ TopicCompanyPage(t, c).count = Cardinality(OfTopicCompany(t, c))
  /\ IF Cardinality(OfTopicCompany(t, c)) >= Sparse
     THEN /\ TopicCompanyPage(t, c).canonical = <<"topicCompany", t, c>>
          /\ TopicCompanyPage(t, c).shows = OfTopicCompany(t, c)
          /\ TopicCompanyPage(t, c).links = {}
     ELSE /\ TopicCompanyPage(t, c).canonical = <<"topic", t>>
          /\ TopicCompanyPage(t, c).shows = OfTopic(t)
          /\ TopicCompanyPage(t, c).links = {<<<<"topic", t>>, Cardinality(OfTopic(t))>>}

LEMMA TopicCompanyPageIs ==
  ASSUME NEW t, NEW c \in Houses PROVE TopicCompanyFacts(t, c)
<1>1. c # Unset
  BY CatalogAssumption
<1>2. /\ HeldBy(QuestionsForTopic(t, c)) = OfTopicCompany(t, c)
      /\ CountReportsForTopic(t, c) = Cardinality(OfTopicCompany(t, c))
      /\ HeldBy(QuestionsForTopic(t, Unset)) = OfTopic(t)
      /\ CountReportsForTopic(t, Unset) = Cardinality(OfTopic(t))
  BY <1>1, TopicReads, TopicCompanyReads
<1>3. PICK own \in BOOLEAN : own = (DecideTopicCompanyView(CountReportsForTopic(t, c)) = "company")
  BY Zenon
<1>4. Cardinality(OfTopicCompany(t, c)) >= Sparse <=> own = TRUE
  BY <1>2, <1>3 DEF DecideTopicCompanyView
<1>5. TopicCompanyPage(t, c)
        = [resolves |-> InForce(t) /\ InForce(c),
           canonical |-> IF own THEN <<"topicCompany", t, c>> ELSE <<"topic", t>>,
           shows |-> HeldBy(QuestionsForTopic(t, IF own THEN c ELSE Unset)),
           count |-> CountReportsForTopic(t, c),
           links |-> IF own THEN {} ELSE {<<<<"topic", t>>, CountReportsForTopic(t, Unset)>>}]
  BY <1>3, Zenon DEF TopicCompanyPage, HeldBy
<1>6. CASE own = TRUE
  BY <1>2, <1>4, <1>5, <1>6 DEF TopicCompanyFacts
<1>7. CASE own = FALSE
  BY <1>2, <1>4, <1>5, <1>7 DEF TopicCompanyFacts
<1> QED
  BY <1>6, <1>7

-----------------------------------------------------------------------------
(* Where the links lead. *)

LeadsTo(l) == \E s \in Shelf : s.at = l[1] /\ s.page.resolves /\ s.page.count = l[2]

LEMMA Leads ==
  ASSUME NEW p \in AllPages, PageAt(p).resolves, NEW l, l[1] = p, l[2] = PageAt(p).count
  PROVE  LeadsTo(l)
<1>1. PICK s : s = [at |-> p, page |-> PageAt(p)]
  OBVIOUS
<1>2. s \in Shelf
  BY <1>1 DEF Shelf
<1> QED
  BY <1>1, <1>2 DEF LeadsTo

LEMMA AddressesAre ==
  /\ \A c \in Houses : <<"company", c>> \in AllPages
  /\ \A c \in Houses, ro \in Trades : <<"role", c, ro>> \in AllPages
  /\ \A c \in Houses, ro \in Trades, l \in UNION Range(Rungs) : <<"level", c, ro, l>> \in AllPages
  /\ \A t \in Topics : <<"topic", t>> \in AllPages
  /\ \A t \in Topics, c \in Houses : <<"topicCompany", t, c>> \in AllPages
BY DEF AllPages

LEMMA KindsAre ==
  ASSUME NEW p \in AllPages
  PROVE  \/ \E c \in Houses : p = <<"company", c>>
         \/ \E c \in Houses, ro \in Trades : p = <<"role", c, ro>>
         \/ \E c \in Houses, ro \in Trades, l \in UNION Range(Rungs) : p = <<"level", c, ro, l>>
         \/ \E t \in Topics : p = <<"topic", t>>
         \/ \E t \in Topics, c \in Houses : p = <<"topicCompany", t, c>>
BY DEF AllPages

LEMMA RailLeads ==
  ASSUME CatalogTypeOK, NEW c \in Houses, NEW ro \in Trades, InForce(c), InForce(ro),
         NEW l \in WedgeRail(c, ro)
  PROVE  LeadsTo(l)
<1>1. PICK entry \in LevelsForCompanyRoleWithReports(c, ro) :
         entry.slugged /\ l = <<<<"level", c, ro, entry.name>>, entry.reportCount>>
  BY DEF WedgeRail
<1>2. PICK name : name = entry.name
  OBVIOUS
<1>3. /\ name \in Rungs[c] /\ OfLevel(c, ro, name) # {}
      /\ entry.reportCount = Cardinality(OfLevel(c, ro, name))
  BY <1>1, <1>2, LevelRows
<1>4. name \in UNION Range(Rungs)
  BY <1>3, CatalogAssumption DEF Range
<1>5. PICK p : p = <<"level", c, ro, name>>
  OBVIOUS
<1>6. p \in AllPages /\ PageAt(p) = LevelPage(c, ro, name)
  BY <1>4, <1>5, AddressesAre, PagesAre
<1>7. PageAt(p).resolves /\ PageAt(p).count = Cardinality(OfLevel(c, ro, name))
  <2>1. LevelPageFacts(c, ro, name)
    BY <1>4, LevelPageIs
  <2> QED
    BY <1>3, <1>6, <2>1 DEF LevelPageFacts
<1>8. l[1] = p /\ l[2] = entry.reportCount
  BY <1>1, <1>2, <1>5
<1> QED
  BY <1>3, <1>6, <1>7, <1>8, Leads

LEMMA CompanyLeads ==
  ASSUME CatalogTypeOK, NEW c \in Houses, InForce(c), NEW l \in CompanyPage(c).links
  PROVE  LeadsTo(l)
<1>1. CASE \E rn \in RolesForCompanyWithReports(c) : l = <<<<"role", c, rn[1]>>, rn[2]>>
  <2>1. PICK rn \in RolesForCompanyWithReports(c) : l = <<<<"role", c, rn[1]>>, rn[2]>>
    BY <1>1
  <2>2. PICK ro, n : ro = rn[1] /\ n = rn[2]
    OBVIOUS
  <2>3. /\ ro \in Trades /\ InForce(ro)
        /\ n = Cardinality({i \in Ids : Body(i).role = ro /\ Body(i).company = c /\ VISIBLE(i)})
    BY <2>2 DEF RolesForCompanyWithReports
  <2>4. {i \in Ids : Body(i).role = ro /\ Body(i).company = c /\ VISIBLE(i)} = OfRole(c, ro)
    BY DEF OfRole, OfCompany
  <2>5. PICK p : p = <<"role", c, ro>>
    OBVIOUS
  <2>6. p \in AllPages /\ PageAt(p) = RolePage(c, ro)
    BY <2>3, <2>5, AddressesAre, PagesAre
  <2>7. PageAt(p).resolves /\ PageAt(p).count = n
    BY <2>3, <2>4, <2>6, RolePageIs
  <2>8. l[1] = p /\ l[2] = n
    BY <2>1, <2>2, <2>5
  <2> QED
    BY <2>6, <2>7, <2>8, Leads
<1>2. CASE \E tn \in TopTopicsForCompany(c) : l = <<<<"topicCompany", tn[1], c>>, tn[2]>>
  <2>1. PICK tn \in TopTopicsForCompany(c) : l = <<<<"topicCompany", tn[1], c>>, tn[2]>>
    BY <1>2
  <2>2. PICK t, n : t = tn[1] /\ n = tn[2]
    OBVIOUS
  <2>3. /\ t \in Topics /\ InForce(t)
        /\ n = Cardinality(HeldBy({q \in Tagged(t) : VISIBLE(q[1]) /\ Body(q[1]).company = c}))
    BY <2>2 DEF TopTopicsForCompany, HeldBy
  <2>4. n = Cardinality(OfTopicCompany(t, c))
    BY <2>3, CatalogAssumption, TopicCompanyReads
  <2>5. PICK p : p = <<"topicCompany", t, c>>
    OBVIOUS
  <2>6. p \in AllPages /\ PageAt(p) = TopicCompanyPage(t, c)
    BY <2>3, <2>5, AddressesAre, PagesAre
  <2>7. PageAt(p).resolves /\ PageAt(p).count = n
    BY <2>3, <2>4, <2>6, TopicCompanyPageIs DEF TopicCompanyFacts
  <2>8. l[1] = p /\ l[2] = n
    BY <2>1, <2>2, <2>5
  <2> QED
    BY <2>6, <2>7, <2>8, Leads
<1> QED
  BY <1>1, <1>2 DEF CompanyPage

LEMMA TopicPageLeads ==
  ASSUME CatalogTypeOK, NEW t \in Topics, InForce(t), NEW l \in TopicPage(t).links
  PROVE  LeadsTo(l)
<1>1. PICK cn \in CompaniesForTopic(t) : l = <<<<"topicCompany", t, cn[1]>>, cn[2]>>
  BY DEF TopicPage
<1>2. PICK c, n : c = cn[1] /\ n = cn[2]
  OBVIOUS
<1>3. /\ c \in Houses /\ InForce(c)
      /\ n = Cardinality({i \in Ids : Body(i).company = c /\ VISIBLE(i) /\ t \in TopicsOf(i)})
  BY <1>2 DEF CompaniesForTopic
<1>4. {i \in Ids : Body(i).company = c /\ VISIBLE(i) /\ t \in TopicsOf(i)} = OfTopicCompany(t, c)
  BY DEF OfTopic, OfTopicCompany
<1>5. PICK p : p = <<"topicCompany", t, c>>
  OBVIOUS
<1>6. p \in AllPages /\ PageAt(p) = TopicCompanyPage(t, c)
  BY <1>3, <1>5, AddressesAre, PagesAre
<1>7. PageAt(p).resolves /\ PageAt(p).count = n
  BY <1>3, <1>4, <1>6, TopicCompanyPageIs DEF TopicCompanyFacts
<1>8. l[1] = p /\ l[2] = n
  BY <1>1, <1>2, <1>5
<1> QED
  BY <1>6, <1>7, <1>8, Leads

LEMMA TopicCompanyLeads ==
  ASSUME CatalogTypeOK, NEW t \in Topics, NEW c \in Houses, InForce(t),
         NEW l \in TopicCompanyPage(t, c).links
  PROVE  LeadsTo(l)
<1>1. l = <<<<"topic", t>>, Cardinality(OfTopic(t))>>
  BY TopicCompanyPageIs DEF TopicCompanyFacts
<1>2. PICK p : p = <<"topic", t>>
  OBVIOUS
<1>3. p \in AllPages /\ PageAt(p) = TopicPage(t)
  BY <1>2, AddressesAre, PagesAre
<1>4. PageAt(p).resolves /\ PageAt(p).count = Cardinality(OfTopic(t))
  BY <1>3, TopicPageIs
<1> QED
  BY <1>1, <1>2, <1>3, <1>4, Leads

LEMMA IndexLeads ==
  ASSUME CatalogTypeOK, NEW l \in CompaniesPage \cup TopicsPage PROVE LeadsTo(l)
<1>1. CASE l \in CompaniesPage
  <2>1. PICK cn \in CompaniesWithReports : l = <<<<"company", cn[1]>>, cn[2]>>
    BY <1>1 DEF CompaniesPage
  <2>2. PICK c, n : c = cn[1] /\ n = cn[2]
    OBVIOUS
  <2>3. /\ c \in Houses /\ InForce(c)
        /\ n = Cardinality({i \in Ids : Body(i).company = c /\ VISIBLE(i)})
    BY <2>2 DEF CompaniesWithReports
  <2>4. n = Cardinality(OfCompany(c))
    BY <2>3 DEF OfCompany
  <2>5. PICK p : p = <<"company", c>>
    OBVIOUS
  <2>6. p \in AllPages /\ PageAt(p) = CompanyPage(c)
    BY <2>3, <2>5, AddressesAre, PagesAre
  <2>7. PageAt(p).resolves /\ PageAt(p).count = n
    BY <2>3, <2>4, <2>6, CompanyPageIs
  <2>8. l[1] = p /\ l[2] = n
    BY <2>1, <2>2, <2>5
  <2> QED
    BY <2>6, <2>7, <2>8, Leads
<1>2. CASE l \in TopicsPage
  <2>1. PICK entry \in TopicsForIndex : l = <<<<"topic", entry.topic>>, entry.reportCount>>
    BY <1>2 DEF TopicsPage
  <2>2. PICK t \in Topics :
          /\ InForce(t) /\ entry.topic = t
          /\ entry.reportCount = Cardinality(HeldBy({q \in Tagged(t) : VISIBLE(q[1])}))
    <3>1. PICK t \in {t \in Topics : InForce(t)} :
            entry = [topic |-> t, questionCount |-> Cardinality({q \in Tagged(t) : VISIBLE(q[1])}),
                   reportCount |-> Cardinality(HeldBy({q \in Tagged(t) : VISIBLE(q[1])}))]
      BY Zenon DEF TopicsForIndex, HeldBy
    <3>2. PICK m : m = Cardinality(HeldBy({q \in Tagged(t) : VISIBLE(q[1])}))
      OBVIOUS
    <3>3. entry.topic = t /\ entry.reportCount = m
      BY <3>1, <3>2
    <3>4. t \in Topics /\ InForce(t)
      OBVIOUS
    <3> QED
      BY <3>2, <3>3, <3>4
  <2>3. PICK p : p = <<"topic", t>>
    OBVIOUS
  <2>4. p \in AllPages /\ PageAt(p) = TopicPage(t)
    BY <2>3, AddressesAre, PagesAre
  <2>5. PageAt(p).resolves /\ PageAt(p).count = entry.reportCount
    BY <2>2, <2>4, TopicPageIs, TopicReads
  <2>6. l[1] = p /\ l[2] = entry.reportCount
    BY <2>1, <2>2, <2>3
  <2> QED
    BY <2>4, <2>5, <2>6, Leads
<1> QED
  BY <1>1, <1>2

-----------------------------------------------------------------------------
(* The shelves agree. *)

\* A page is about what it lists, and its links lead somewhere.
PageHolds(p) ==
  /\ PageAt(p).count = Cardinality(PageAt(p).shows) \/ PageAt(p).canonical # p
  /\ \A l \in PageAt(p).links : LeadsTo(l)
  /\ p[1] = "level" =>
       LET view == RoleView(p[2], p[3], p[4], 1, 1)
       IN  IF view.broadened THEN view.headline >= PageAt(p).count
                             ELSE view.headline = PageAt(p).count

LEMMA PagesHold ==
  ASSUME CatalogTypeOK, NEW p \in AllPages, PageAt(p).resolves
  PROVE  PageHolds(p)
<1>1. ASSUME NEW c \in Houses, p = <<"company", c>> PROVE PageHolds(p)
  <2>1. PageAt(p) = CompanyPage(c) /\ p[1] # "level"
    BY <1>1, PagesAre
  <2>2. InForce(c) /\ PageAt(p).count = Cardinality(PageAt(p).shows)
    BY <2>1, CompanyPageIs
  <2>3. \A l \in PageAt(p).links : LeadsTo(l)
    BY <2>1, <2>2, CompanyLeads
  <2> QED
    BY <2>1, <2>2, <2>3 DEF PageHolds
<1>2. ASSUME NEW c \in Houses, NEW ro \in Trades, p = <<"role", c, ro>> PROVE PageHolds(p)
  <2>1. PageAt(p) = RolePage(c, ro) /\ p[1] # "level"
    BY <1>2, PagesAre
  <2>2. InForce(c) /\ InForce(ro) /\ PageAt(p).count = Cardinality(PageAt(p).shows)
        /\ PageAt(p).links = WedgeRail(c, ro)
    BY <2>1, RolePageIs
  <2>3. \A l \in PageAt(p).links : LeadsTo(l)
    BY <2>2, RailLeads
  <2> QED
    BY <2>1, <2>2, <2>3 DEF PageHolds
<1>3. ASSUME NEW c \in Houses, NEW ro \in Trades, NEW l \in UNION Range(Rungs),
             p = <<"level", c, ro, l>>
      PROVE  PageHolds(p)
  <2>1. PageAt(p) = LevelPage(c, ro, l) /\ p[2] = c /\ p[3] = ro /\ p[4] = l
    BY <1>3, PagesAre
  <2>6. LevelPageFacts(c, ro, l)
    BY LevelPageIs
  <2>2. InForce(c) /\ InForce(ro)
    BY <2>1, <2>6 DEF LevelPageFacts
  <2>4. PageAt(p).count = Cardinality(PageAt(p).shows) /\ PageAt(p).links = WedgeRail(c, ro)
    BY <2>1, <2>6 DEF LevelPageFacts
  <2>5. LET view == RoleView(c, ro, l, 1, 1)
        IN  IF view.broadened THEN view.headline >= PageAt(p).count
                              ELSE view.headline = PageAt(p).count
    BY <2>1, <2>6, Zenon DEF LevelPageFacts
  <2>3. \A x \in PageAt(p).links : LeadsTo(x)
    BY <2>2, <2>4, RailLeads
  <2> QED
    BY <2>1, <2>3, <2>4, <2>5 DEF PageHolds
<1>4. ASSUME NEW t \in Topics, p = <<"topic", t>> PROVE PageHolds(p)
  <2>1. PageAt(p) = TopicPage(t) /\ p[1] # "level"
    BY <1>4, PagesAre
  <2>2. InForce(t) /\ PageAt(p).count = Cardinality(PageAt(p).shows)
    BY <2>1, TopicPageIs
  <2>3. \A l \in PageAt(p).links : LeadsTo(l)
    BY <2>1, <2>2, TopicPageLeads
  <2> QED
    BY <2>1, <2>2, <2>3 DEF PageHolds
<1>5. ASSUME NEW t \in Topics, NEW c \in Houses, p = <<"topicCompany", t, c>> PROVE PageHolds(p)
  <2>1. PageAt(p) = TopicCompanyPage(t, c) /\ p[1] # "level" /\ p # <<"topic", t>>
    BY <1>5, PagesAre
  <2>2. InForce(t)
    BY <2>1, TopicCompanyPageIs DEF TopicCompanyFacts
  <2>4. PageAt(p).count = Cardinality(PageAt(p).shows) \/ PageAt(p).canonical # p
    <3>1. CASE Cardinality(OfTopicCompany(t, c)) >= Sparse
      BY <2>1, <3>1, TopicCompanyPageIs DEF TopicCompanyFacts
    <3>2. CASE ~(Cardinality(OfTopicCompany(t, c)) >= Sparse)
      BY <2>1, <3>2, TopicCompanyPageIs DEF TopicCompanyFacts
    <3> QED
      BY <3>1, <3>2
  <2>3. \A l \in PageAt(p).links : LeadsTo(l)
    BY <2>1, <2>2, TopicCompanyLeads
  <2> QED
    BY <2>1, <2>3, <2>4 DEF PageHolds
<1> QED
  BY <1>1, <1>2, <1>3, <1>4, <1>5, KindsAre

\* The values of a function are no more than its arguments.
LEMMA ValuesAreFew ==
  ASSUME NEW S, IsFiniteSet(S), NEW f, DOMAIN f = S, NEW V, V = {f[x] : x \in S}
  PROVE  IsFiniteSet(V) /\ Cardinality(V) \in Nat /\ Cardinality(V) <= Cardinality(S)
<1>1. PICK g : g = [x \in S |-> f[x]]
  OBVIOUS
<1>2. g \in Surjection(S, V)
  BY <1>1 DEF Surjection
<1> QED
  BY <1>2, FS_Surjection, FS_CardinalityType

LEMMA IndexCounts ==
  ASSUME CatalogTypeOK, NEW c \in Houses, InForce(c)
  PROVE  /\ (CompanyStats(c).reportCount > 0) <=> (\E l \in CompaniesPage : l[1] = <<"company", c>>)
         /\ Cardinality(RolesForCompanyWithReports(c)) <= CompanyStats(c).roleCount
<1> DEFINE R == OfCompany(c)
           roles == {Body(i).role : i \in R}
           counted == {<<ro, Cardinality(OfRole(c, ro))>> : ro \in roles}
<1>1. CompanyStats(c).reportCount = Cardinality(R) /\ CompanyStats(c).roleCount = Cardinality(roles)
  <2>1. {i \in Ids : Body(i).company = c /\ posted[i].status = "active"} = R
    BY DEF OfCompany, VISIBLE
  <2> QED
    BY <2>1 DEF CompanyStats
<1>2. /\ IsFiniteSet(R) /\ Cardinality(R) \in Nat
      /\ R # {} <=> Cardinality(R) \in 1 .. Len(posted)
      /\ Len(posted) \in Nat /\ Cardinality(R) <= Len(posted)
  BY PartsOfIds, Counts, CatalogFacts
<1>3. (\E l \in CompaniesPage : l[1] = <<"company", c>>) <=> Cardinality(R) > 0
  <2>1. ASSUME NEW l \in CompaniesPage, l[1] = <<"company", c>> PROVE Cardinality(R) > 0
    <3>1. PICK cn \in CompaniesWithReports : l = <<<<"company", cn[1]>>, cn[2]>>
      BY DEF CompaniesPage
    <3>2. cn[1] = c
      BY <2>1, <3>1
    <3>3. cn[2] \in 1 .. Len(posted) /\ cn[2] = Cardinality({i \in Ids : Body(i).company = cn[1] /\ VISIBLE(i)})
      BY DEF CompaniesWithReports
    <3>4. cn[2] = Cardinality(R)
      BY <3>2, <3>3 DEF OfCompany
    <3> QED
      BY <1>2, <3>3, <3>4
  <2>2. ASSUME Cardinality(R) > 0 PROVE \E l \in CompaniesPage : l[1] = <<"company", c>>
    <3>1. PICK n \in 1 .. Len(posted) : n = Cardinality(R)
      BY <1>2, <2>2
    <3>2. <<c, n>> \in CompaniesWithReports
      BY <3>1 DEF CompaniesWithReports, OfCompany
    <3>3. <<<<"company", c>>, n>> \in CompaniesPage
      BY <3>2 DEF CompaniesPage
    <3> QED
      BY <3>3
  <2> QED
    BY <2>1, <2>2
<1>4. IsFiniteSet(roles) /\ Cardinality(roles) \in Nat
  <2>1. PICK f : f = [i \in R |-> Body(i).role]
    OBVIOUS
  <2>2. DOMAIN f = R /\ roles = {f[i] : i \in R}
    BY <2>1
  <2> HIDE DEF R, roles
  <2> QED
    BY <1>2, <2>2, ValuesAreFew
<1>5. IsFiniteSet(counted) /\ Cardinality(counted) <= Cardinality(roles)
  <2>1. PICK f : f = [ro \in roles |-> <<ro, Cardinality(OfRole(c, ro))>>]
    OBVIOUS
  <2>2. DOMAIN f = roles /\ counted = {f[ro] : ro \in roles}
    BY <2>1
  <2> HIDE DEF roles, counted
  <2> QED
    BY <1>4, <2>2, ValuesAreFew
<1>6. RolesForCompanyWithReports(c) \subseteq counted
  <2> SUFFICES ASSUME NEW rn \in RolesForCompanyWithReports(c) PROVE rn \in counted
    OBVIOUS
  <2>1. /\ rn = <<rn[1], rn[2]>> /\ rn[2] \in 1 .. Len(posted)
        /\ rn[2] = Cardinality({i \in Ids : Body(i).role = rn[1] /\ Body(i).company = c /\ VISIBLE(i)})
    BY DEF RolesForCompanyWithReports
  <2>2. {i \in Ids : Body(i).role = rn[1] /\ Body(i).company = c /\ VISIBLE(i)} = OfRole(c, rn[1])
    BY DEF OfRole, OfCompany
  <2>3. OfRole(c, rn[1]) # {}
    BY <1>2, <2>1, <2>2, PartsOfIds, Counts
  <2>4. rn[1] \in roles
    BY <2>3 DEF OfRole
  <2> QED
    BY <2>1, <2>2, <2>4
<1>7. Cardinality(RolesForCompanyWithReports(c)) <= Cardinality(roles)
  <2>1. Cardinality(RolesForCompanyWithReports(c)) <= Cardinality(counted)
        /\ IsFiniteSet(RolesForCompanyWithReports(c))
    BY <1>5, <1>6, FS_Subset
  <2>2. Cardinality(RolesForCompanyWithReports(c)) \in Nat /\ Cardinality(counted) \in Nat
    BY <1>5, <2>1, FS_CardinalityType
  <2> QED
    BY <1>4, <1>5, <2>1, <2>2
<1> HIDE DEF R, roles, counted
<1>8. (Cardinality(R) > 0) <=> (\E l \in CompaniesPage : l[1] = <<"company", c>>)
  BY <1>2, <1>3
<1> QED
  BY <1>1, <1>7, <1>8

LEMMA ProfileAgrees ==
  ASSUME NEW u PROVE UserProfilePage(u).count = Cardinality(UserProfilePage(u).shows)
<1>1. \A i : ReportFilterConditions(NoFilters, i)
  BY DEF ReportFilterConditions, NoFilters
<1>2. UserReportWhere(u, NoFilters)
        = {i \in Ids : Body(i).author = u /\ Body(i).named /\ posted[i].status = "active"}
  BY <1>1 DEF UserReportWhere, VISIBLE
<1> QED
  BY <1>2 DEF UserProfilePage, PublicReportCount

LEMMA SearchAgrees ==
  ASSUME CatalogTypeOK, NEW f, f.level = Unset, f.verifiedOnly \in BOOLEAN
  PROVE  SearchPage(f) = (IF HasActiveFacets(f)
                          THEN UNION {Range(ReportsPage(f, 1, n).list.items) : n \in 1 .. MaxPosted}
                          ELSE {})
<1>1. PICK S : S = GlobalReportWhere(f)
  OBVIOUS
<1>2. S \in SUBSET Ids
  BY <1>1 DEF GlobalReportWhere
<1>3. SearchReports(f) = S
  BY <1>1 DEF SearchReports, GlobalReportWhere, ReportFilterConditions
<1>4. \A n : ReportsPage(f, 1, n).list = RunReportList(S, 1, (n - 1) * 1)
  BY <1>1 DEF ReportsPage
<1>5. UNION {Range(ReportsPage(f, 1, n).list.items) : n \in 1 .. MaxPosted}
        = UNION {Range(RunReportList(S, 1, (n - 1) * 1).items) : n \in 1 .. MaxPosted}
  BY <1>4
<1>6. UNION {Range(RunReportList(S, 1, (n - 1) * 1).items) : n \in 1 .. MaxPosted} = S
  BY <1>2, PageByPage
<1> QED
  BY <1>3, <1>5, <1>6, Zenon DEF SearchPage

LEMMA ShelvesDoAgree == ASSUME CatalogTypeOK PROVE ShelvesAgree
<1>1. ASSUME NEW s \in {s \in Shelf : s.page.resolves}
      PROVE  /\ s.page.count = Cardinality(s.page.shows) \/ s.page.canonical # s.at
             /\ \A l \in s.page.links : LeadsTo(l)
             /\ s.at[1] = "level" =>
                  LET view == RoleView(s.at[2], s.at[3], s.at[4], 1, 1)
                  IN  IF view.broadened THEN view.headline >= s.page.count
                                        ELSE view.headline = s.page.count
  <2>1. PICK p \in AllPages : s.at = p /\ s.page = PageAt(p)
    BY DEF Shelf
  <2>2. PageHolds(p)
    BY <2>1, PagesHold
  <2> QED
    BY <2>1, <2>2, Zenon DEF PageHolds
<1>2. \A l \in CompaniesPage \cup TopicsPage : LeadsTo(l)
  BY IndexLeads
<1>3. \A entry \in TopicsForIndex :
        entry.questionCount = Cardinality(QuestionsForTopic(entry.topic, Unset))
  <2> SUFFICES ASSUME NEW entry \in TopicsForIndex
               PROVE  entry.questionCount = Cardinality(QuestionsForTopic(entry.topic, Unset))
    OBVIOUS
  <2>1. PICK t \in {t \in Topics : InForce(t)} :
            entry = [topic |-> t, questionCount |-> Cardinality({q \in Tagged(t) : VISIBLE(q[1])}),
                   reportCount |-> Cardinality(HeldBy({q \in Tagged(t) : VISIBLE(q[1])}))]
    BY Zenon DEF TopicsForIndex, HeldBy
  <2>2. entry.topic = t /\ entry.questionCount = Cardinality({q \in Tagged(t) : VISIBLE(q[1])})
    BY <2>1
  <2> QED
    BY <2>2, TopicReads
<1>4. \A o \in {Unset, "offer"}, r \in {Unset, "coding"}, G \in {{}, Topics}, v \in BOOLEAN :
       LET f == [NoFilters EXCEPT !.outcome = o, !.roundType = r, !.topics = G,
                                  !.verifiedOnly = v]
       IN  SearchPage(f) = (IF HasActiveFacets(f)
                            THEN UNION {Range(ReportsPage(f, 1, n).list.items) : n \in 1..MaxPosted}
                            ELSE {})
  <2> SUFFICES ASSUME NEW o, NEW r, NEW G, NEW v \in BOOLEAN
               PROVE  LET f == [NoFilters EXCEPT !.outcome = o, !.roundType = r, !.topics = G,
                                                 !.verifiedOnly = v]
                      IN  SearchPage(f) = (IF HasActiveFacets(f)
                            THEN UNION {Range(ReportsPage(f, 1, n).list.items) : n \in 1..MaxPosted}
                            ELSE {})
    BY Zenon
  <2>1. PICK f : f = [NoFilters EXCEPT !.outcome = o, !.roundType = r, !.topics = G,
                                       !.verifiedOnly = v]
    OBVIOUS
  <2>2. f.level = Unset /\ f.verifiedOnly \in BOOLEAN
    BY <2>1 DEF NoFilters
  <2>3. SearchPage(f) = (IF HasActiveFacets(f)
                         THEN UNION {Range(ReportsPage(f, 1, n).list.items) : n \in 1..MaxPosted}
                         ELSE {})
    BY <2>2, SearchAgrees
  <2> QED
    BY <2>1, <2>3, Zenon
<1>5. /\ \A s \in {s \in Shelf : s.page.resolves} :
           /\ s.page.count = Cardinality(s.page.shows) \/ s.page.canonical # s.at
           /\ \A l \in s.page.links : LeadsTo(l)
           /\ s.at[1] = "level" =>
                LET view == RoleView(s.at[2], s.at[3], s.at[4], 1, 1)
                IN  IF view.broadened THEN view.headline >= s.page.count
                                      ELSE view.headline = s.page.count
      /\ \A l \in CompaniesPage \cup TopicsPage : LeadsTo(l)
  BY <1>1, <1>2, Zenon
<1>6. \A c \in Houses : InForce(c) =>
        /\ (CompanyStats(c).reportCount > 0) <=> (\E l \in CompaniesPage : l[1] = <<"company", c>>)
        /\ Cardinality(RolesForCompanyWithReports(c)) <= CompanyStats(c).roleCount
  BY IndexCounts
<1>7. \A u \in {b.author : b \in ReportBodies} :
        UserProfilePage(u).count = Cardinality(UserProfilePage(u).shows)
  BY ProfileAgrees
<1> QED
  BY <1>3, <1>4, <1>5, <1>6, <1>7, Zenon DEF ShelvesAgree, LeadsTo

-----------------------------------------------------------------------------
(* The sitemap. *)

Shown(p) == PageAt(p).resolves /\ PageAt(p).shows # {}

LEMMA EntriesAre ==
  ASSUME CatalogTypeOK
  PROVE  /\ \A c : <<"company", c>> \in Sitemap <=> InForce(c) /\ OfCompany(c) # {}
         /\ \A c, ro : <<"role", c, ro>> \in Sitemap
                          <=> InForce(c) /\ InForce(ro) /\ OfRole(c, ro) # {}
         /\ \A t \in Topics : <<"topic", t>> \in Sitemap <=> InForce(t) /\ OfTopic(t) # {}
         /\ \A t \in Topics, c \in Houses :
              <<"topicCompany", t, c>> \in Sitemap
                <=> InForce(t) /\ InForce(c) /\ Cardinality(OfTopicCompany(t, c)) >= Sparse
<1> DEFINE entries(k) == {p \in Sitemap : p[1] = k}
<1>0. /\ \A p \in CompanyEntries : p[1] = "company"
      /\ \A p \in RoleEntries : p[1] = "role"
      /\ \A p \in LevelEntries : p[1] = "level"
      /\ \A p \in TopicEntries : p[1] = "topic"
      /\ \A p \in TopicCompanyEntries : p[1] = "topicCompany"
  <2>1. \A p \in CompanyEntries : p[1] = "company"
    BY DEF CompanyEntries
  <2>2. \A p \in RoleEntries : p[1] = "role"
    BY DEF RoleEntries
  <2>3. \A p \in LevelEntries : p[1] = "level"
    BY DEF LevelEntries
  <2>4. \A p \in TopicEntries : p[1] = "topic"
    BY DEF TopicEntries
  <2>5. \A p \in TopicCompanyEntries : p[1] = "topicCompany"
    <3> DEFINE leaves == {leaf \in Topics \X Houses :
                            /\ InForce(leaf[1]) /\ InForce(leaf[2])
                            /\ Cardinality(HeldBy({q \in Tagged(leaf[1]) :
                                   VISIBLE(q[1]) /\ Body(q[1]).company = leaf[2]}))
                                 >= DENSE_CELL_THRESHOLD}
    <3>1. TopicCompanyEntries = {<<"topicCompany", leaf[1], leaf[2]>> : leaf \in leaves}
      BY Zenon DEF TopicCompanyEntries, HeldBy
    <3> HIDE DEF leaves
    <3> QED
      BY <3>1
  <2> QED
    BY <2>1, <2>2, <2>3, <2>4, <2>5
<1>1. /\ \A c : <<"company", c>> \in Sitemap <=> <<"company", c>> \in CompanyEntries
      /\ \A c, ro : <<"role", c, ro>> \in Sitemap <=> <<"role", c, ro>> \in RoleEntries
      /\ \A t : <<"topic", t>> \in Sitemap <=> <<"topic", t>> \in TopicEntries
      /\ \A t, c : <<"topicCompany", t, c>> \in Sitemap <=> <<"topicCompany", t, c>> \in TopicCompanyEntries
  BY <1>0 DEF Sitemap
<1>2. \A c : <<"company", c>> \in CompanyEntries <=> InForce(c) /\ OfCompany(c) # {}
  BY DEF CompanyEntries, OfCompany
<1>3. \A c, ro : <<"role", c, ro>> \in RoleEntries <=> InForce(c) /\ InForce(ro) /\ OfRole(c, ro) # {}
  BY DEF RoleEntries, OfRole, OfCompany
<1>4. \A t \in Topics : <<"topic", t>> \in TopicEntries <=> InForce(t) /\ OfTopic(t) # {}
  <2> SUFFICES ASSUME NEW t \in Topics
               PROVE  <<"topic", t>> \in TopicEntries <=> InForce(t) /\ OfTopic(t) # {}
    BY Zenon
  <2>1. (\E q \in Tagged(t) : VISIBLE(q[1])) <=> OfTopic(t) # {}
    BY TaggedAre DEF OfTopic
  <2>2. <<"topic", t>> \in TopicEntries <=> InForce(t) /\ \E q \in Tagged(t) : VISIBLE(q[1])
    BY DEF TopicEntries
  <2> QED
    BY <2>1, <2>2
<1>5. \A t \in Topics, c \in Houses :
        <<"topicCompany", t, c>> \in TopicCompanyEntries
          <=> InForce(t) /\ InForce(c) /\ Cardinality(OfTopicCompany(t, c)) >= Sparse
  <2> SUFFICES ASSUME NEW t \in Topics, NEW c \in Houses
               PROVE  <<"topicCompany", t, c>> \in TopicCompanyEntries
                        <=> InForce(t) /\ InForce(c) /\ Cardinality(OfTopicCompany(t, c)) >= Sparse
    BY Zenon
  <2>1. HeldBy({q \in Tagged(t) : VISIBLE(q[1]) /\ Body(q[1]).company = c}) = OfTopicCompany(t, c)
    BY CatalogAssumption, TopicCompanyReads
  <2>2. <<"topicCompany", t, c>> \in TopicCompanyEntries
          <=> /\ InForce(t) /\ InForce(c)
              /\ Cardinality(HeldBy({q \in Tagged(t) : VISIBLE(q[1]) /\ Body(q[1]).company = c}))
                    >= DENSE_CELL_THRESHOLD
    <3> DEFINE leaves == {leaf \in Topics \X Houses :
                            /\ InForce(leaf[1]) /\ InForce(leaf[2])
                            /\ Cardinality(HeldBy({q \in Tagged(leaf[1]) :
                                   VISIBLE(q[1]) /\ Body(q[1]).company = leaf[2]}))
                                 >= DENSE_CELL_THRESHOLD}
    <3>1. TopicCompanyEntries = {<<"topicCompany", leaf[1], leaf[2]>> : leaf \in leaves}
      BY Zenon DEF TopicCompanyEntries, HeldBy
    <3>2. <<t, c>> \in leaves
            <=> /\ InForce(t) /\ InForce(c)
                /\ Cardinality(HeldBy({q \in Tagged(t) : VISIBLE(q[1]) /\ Body(q[1]).company = c}))
                      >= DENSE_CELL_THRESHOLD
      OBVIOUS
    <3>3. leaves \subseteq Topics \X Houses
      OBVIOUS
    <3> HIDE DEF leaves
    <3>4. <<"topicCompany", t, c>> \in TopicCompanyEntries <=> <<t, c>> \in leaves
      BY <3>1, <3>3
    <3> QED
      BY <3>2, <3>4
  <2> QED
    BY <2>1, <2>2, ThresholdsAgree
<1> QED
  BY <1>1, <1>2, <1>3, <1>4, <1>5

LEMMA LevelEntriesAre ==
  ASSUME CatalogTypeOK, NEW c \in Houses, NEW ro \in Trades, NEW l \in UNION Range(Rungs)
  PROVE  <<"level", c, ro, l>> \in Sitemap
           <=> /\ InForce(c) /\ InForce(ro) /\ l \in Rungs[c]
               /\ Cardinality(OfLevel(c, ro, l)) >= Sparse
<1>0. PICK p : p = <<"level", c, ro, l>>
  OBVIOUS
<1>1. p = <<"level", c, ro, l>> /\ p[1] = "level" /\ p[2] = c /\ p[3] = ro /\ p[4] = l
  BY <1>0
<1>2. p \in Sitemap <=> p \in LevelEntries
  BY <1>1 DEF Sitemap, CompanyEntries, RoleEntries, TopicEntries, TopicCompanyEntries
<1>3. <<"role", c, ro>> \in RoleEntries <=> InForce(c) /\ InForce(ro) /\ OfRole(c, ro) # {}
  BY DEF RoleEntries, OfRole, OfCompany
<1>5. {i \in Ids : VISIBLE(i) /\ <<Body(i).company, Body(i).role, Body(i).level>> = <<p[2], p[3], p[4]>>}
        = OfLevel(c, ro, l)
  BY <1>1 DEF OfLevel, OfRole, OfCompany
<1>6. p \in AllPages
  BY <1>1, AddressesAre
<1>7. p \in LevelEntries
        <=> /\ <<"role", c, ro>> \in RoleEntries /\ l \in Rungs[c]
            /\ Cardinality(OfLevel(c, ro, l)) >= Sparse
  <2>1. p \in LevelEntries
          <=> /\ p[1] = "level" /\ <<"role", p[2], p[3]>> \in RoleEntries /\ p[4] \in Rungs[p[2]]
              /\ Cardinality({i \in Ids : /\ VISIBLE(i)
                              /\ <<Body(i).company, Body(i).role, Body(i).level>>
                                   = <<p[2], p[3], p[4]>>}) >= DENSE_CELL_THRESHOLD
    BY <1>6, Zenon DEF LevelEntries
  <2> QED
    BY <1>1, <1>5, <2>1, ThresholdsAgree
<1>8. Cardinality(OfLevel(c, ro, l)) >= Sparse => OfRole(c, ro) # {}
  <2>1. OfLevel(c, ro, l) \subseteq OfRole(c, ro)
    BY PartsOfIds
  <2>2. OfLevel(c, ro, l) = {} => Cardinality(OfLevel(c, ro, l)) = 0
    BY FS_EmptySet
  <2> QED
    BY <2>1, <2>2, CatalogAssumption
<1> QED
  BY <1>1, <1>2, <1>3, <1>7, <1>8

\* An address is in the sitemap as it should be.
EntryHolds(p) ==
  /\ p \in Sitemap <=> Shown(p) /\ PageAt(p).canonical = p
  /\ Shown(p) => PageAt(p).canonical \in Sitemap

LEMMA ManyAreSome ==
  ASSUME NEW S, Cardinality(S) >= Sparse PROVE S # {}
<1> SUFFICES ASSUME S = {} PROVE FALSE
  OBVIOUS
<1>1. Cardinality(S) = 0
  BY FS_EmptySet
<1> QED
  BY <1>1, CatalogAssumption

LEMMA EntriesHold == ASSUME CatalogTypeOK, NEW p \in AllPages PROVE EntryHolds(p)
<1>1. ASSUME NEW c \in Houses, p = <<"company", c>> PROVE EntryHolds(p)
  <2>1. PageAt(p) = CompanyPage(c)
    BY <1>1, PagesAre
  <2>2. PageAt(p).canonical = p /\ (Shown(p) <=> InForce(c) /\ OfCompany(c) # {})
    BY <1>1, <2>1, CompanyPageIs DEF Shown
  <2>3. p \in Sitemap <=> InForce(c) /\ OfCompany(c) # {}
    BY <1>1, EntriesAre
  <2> QED
    BY <2>2, <2>3 DEF EntryHolds
<1>2. ASSUME NEW c \in Houses, NEW ro \in Trades, p = <<"role", c, ro>> PROVE EntryHolds(p)
  <2>1. PageAt(p) = RolePage(c, ro)
    BY <1>2, PagesAre
  <2>2. PageAt(p).canonical = p /\ (Shown(p) <=> InForce(c) /\ InForce(ro) /\ OfRole(c, ro) # {})
    BY <1>2, <2>1, RolePageIs DEF Shown
  <2>3. p \in Sitemap <=> InForce(c) /\ InForce(ro) /\ OfRole(c, ro) # {}
    BY <1>2, EntriesAre
  <2> QED
    BY <2>2, <2>3 DEF EntryHolds
<1>3. ASSUME NEW c \in Houses, NEW ro \in Trades, NEW l \in UNION Range(Rungs),
             p = <<"level", c, ro, l>>
      PROVE  EntryHolds(p)
  <2>1. PageAt(p) = LevelPage(c, ro, l) /\ LevelPageFacts(c, ro, l)
    BY <1>3, PagesAre, LevelPageIs
  <2>2. PageAt(p).resolves <=> InForce(c) /\ InForce(ro) /\ l \in Rungs[c]
    BY <2>1 DEF LevelPageFacts
  <2>a. PageAt(p).shows \in {OfLevel(c, ro, l), OfRole(c, ro)}
    BY <2>1 DEF LevelPageFacts
  <2>b. l \in Rungs[c] /\ OfLevel(c, ro, l) # {} => PageAt(p).shows = OfLevel(c, ro, l)
    BY <2>1 DEF LevelPageFacts
  <2>3. PageAt(p).shows \subseteq OfRole(c, ro)
        /\ (l \in Rungs[c] /\ OfLevel(c, ro, l) # {} => PageAt(p).shows = OfLevel(c, ro, l))
    BY <2>a, <2>b DEF OfLevel
  <2>4. p \in Sitemap <=> /\ InForce(c) /\ InForce(ro) /\ l \in Rungs[c]
                          /\ Cardinality(OfLevel(c, ro, l)) >= Sparse
    BY <1>3, LevelEntriesAre
  <2>5. CASE Cardinality(OfLevel(c, ro, l)) >= Sparse
    <3>1. PageAt(p).canonical = p
      BY <1>3, <2>1, <2>5 DEF LevelPageFacts
    <3>2. OfLevel(c, ro, l) # {}
      BY <2>5, ManyAreSome
    <3> QED
      BY <2>2, <2>3, <2>4, <2>5, <3>1, <3>2 DEF EntryHolds, Shown
  <2>6. CASE ~(Cardinality(OfLevel(c, ro, l)) >= Sparse)
    <3>1. PageAt(p).canonical = <<"role", c, ro>> /\ <<"role", c, ro>> # p
      BY <1>3, <2>1, <2>6 DEF LevelPageFacts
    <3>2. Shown(p) => InForce(c) /\ InForce(ro) /\ OfRole(c, ro) # {}
      BY <2>2, <2>3 DEF Shown
    <3>3. Shown(p) => <<"role", c, ro>> \in Sitemap
      BY <3>2, EntriesAre
    <3> QED
      BY <2>4, <2>6, <3>1, <3>3 DEF EntryHolds
  <2> QED
    BY <2>5, <2>6
<1>4. ASSUME NEW t \in Topics, p = <<"topic", t>> PROVE EntryHolds(p)
  <2>1. PageAt(p) = TopicPage(t)
    BY <1>4, PagesAre
  <2>2. PageAt(p).canonical = p /\ (Shown(p) <=> InForce(t) /\ OfTopic(t) # {})
    BY <1>4, <2>1, TopicPageIs DEF Shown
  <2>3. p \in Sitemap <=> InForce(t) /\ OfTopic(t) # {}
    BY <1>4, EntriesAre
  <2> QED
    BY <2>2, <2>3 DEF EntryHolds
<1>5. ASSUME NEW t \in Topics, NEW c \in Houses, p = <<"topicCompany", t, c>> PROVE EntryHolds(p)
  <2>1. PageAt(p) = TopicCompanyPage(t, c)
    BY <1>5, PagesAre
  <2>2. PageAt(p).resolves <=> InForce(t) /\ InForce(c)
    <3>1. TopicCompanyFacts(t, c)
      BY TopicCompanyPageIs
    <3> QED
      BY <2>1, <3>1 DEF TopicCompanyFacts
  <2>3. p \in Sitemap <=> InForce(t) /\ InForce(c) /\ Cardinality(OfTopicCompany(t, c)) >= Sparse
    BY <1>5, EntriesAre
  <2>4. CASE Cardinality(OfTopicCompany(t, c)) >= Sparse
    <3>1. PageAt(p).canonical = p /\ PageAt(p).shows = OfTopicCompany(t, c)
      BY <1>5, <2>1, <2>4, TopicCompanyPageIs DEF TopicCompanyFacts
    <3>2. OfTopicCompany(t, c) # {}
      BY <2>4, ManyAreSome
    <3> QED
      BY <2>2, <2>3, <2>4, <3>1, <3>2 DEF EntryHolds, Shown
  <2>5. CASE ~(Cardinality(OfTopicCompany(t, c)) >= Sparse)
    <3>1. PageAt(p).canonical = <<"topic", t>> /\ <<"topic", t>> # p /\ PageAt(p).shows = OfTopic(t)
      BY <1>5, <2>1, <2>5, TopicCompanyPageIs DEF TopicCompanyFacts
    <3>2. Shown(p) => <<"topic", t>> \in Sitemap
      BY <2>2, <3>1, EntriesAre DEF Shown
    <3> QED
      BY <2>3, <2>5, <3>1, <3>2 DEF EntryHolds
  <2> QED
    BY <2>4, <2>5
<1> QED
  BY <1>1, <1>2, <1>3, <1>4, <1>5, KindsAre

LEMMA SitemapDoesHold == ASSUME CatalogTypeOK PROVE SitemapIsCanonical
BY EntriesHold, Zenon DEF SitemapIsCanonical, EntryHolds, Shown

-----------------------------------------------------------------------------
(* The rows. *)

LEMMA CatalogKeeps == CatalogTypeOK /\ [CatalogNext]_catalogVars => CatalogTypeOK'
<1> SUFFICES ASSUME CatalogTypeOK, [CatalogNext]_catalogVars PROVE CatalogTypeOK'
  OBVIOUS
<1> USE DEF Ids
<1>1. CASE UNCHANGED catalogVars
  BY <1>1 DEF catalogVars, CatalogTypeOK
<1>2. ASSUME NEW b \in ReportBodies, NEW held \in BOOLEAN, PostReport(b, held) PROVE CatalogTypeOK'
  <2>1. PICK entry \in PostedRow : posted' = Append(posted, entry)
    BY <1>2 DEF PostReport, PostedRow
  <2>2. posted \in Seq(PostedRow) /\ Len(posted) < MaxPosted
    BY <1>2 DEF PostReport, CatalogTypeOK
  <2>3. posted' \in Seq(PostedRow) /\ Len(posted') = Len(posted) + 1 /\ DOMAIN posted \subseteq DOMAIN posted'
    BY <2>1, <2>2, AppendIs
  <2>4. Len(posted') <= MaxPosted
    BY <2>2, <2>3, CatalogAssumption
  <2> QED
    BY <1>2, <2>3, <2>4 DEF PostReport, CatalogTypeOK
<1>3. ASSUME NEW i \in Ids, NEW b \in ReportBodies, ReviseReport(i, b) PROVE CatalogTypeOK'
  <2>1. PICK entry \in PostedRow : entry = [posted[i] EXCEPT !.body = b]
    BY CatalogFacts DEF PostedRow
  <2>2. posted' = [posted EXCEPT ![i] = entry]
    BY <1>3, <2>1 DEF ReviseReport
  <2>3. posted' \in Seq(PostedRow) /\ Len(posted') = Len(posted) /\ DOMAIN posted' = DOMAIN posted
    BY <2>2, ExceptIs DEF CatalogTypeOK
  <2> QED
    BY <1>3, <2>3 DEF ReviseReport, CatalogTypeOK
<1>4. ASSUME NEW i \in Ids, NEW s \in {"active", "deleted"}, SetReportStatus(i, s)
      PROVE  CatalogTypeOK'
  <2>1. PICK entry \in PostedRow : entry = [posted[i] EXCEPT !.status = s]
    BY CatalogFacts DEF PostedRow
  <2>2. posted' = [posted EXCEPT ![i] = entry]
    BY <1>4, <2>1 DEF SetReportStatus
  <2>3. posted' \in Seq(PostedRow) /\ Len(posted') = Len(posted) /\ DOMAIN posted' = DOMAIN posted
    BY <2>2, ExceptIs DEF CatalogTypeOK
  <2> QED
    BY <1>4, <2>3 DEF SetReportStatus, CatalogTypeOK
<1>5. ASSUME NEW x \in Curatable, CurateRow(x) PROVE CatalogTypeOK'
  BY <1>5, CatalogAssumption DEF CurateRow, CatalogTypeOK
<1>6. ASSUME NEW u \in DOMAIN KarmaOf, NEW i \in Ids, ThankReport(u, i) PROVE CatalogTypeOK'
  BY <1>6 DEF ThankReport, CatalogTypeOK
<1> QED
  BY <1>1, <1>2, <1>3, <1>4, <1>5, <1>6 DEF CatalogNext

LEMMA CatalogStarts == CatalogInit => CatalogTypeOK
<1> SUFFICES ASSUME CatalogInit PROVE CatalogTypeOK
  OBVIOUS
<1>1. posted = << >> /\ Len(posted) = 0
  BY DEF CatalogInit
<1> QED
  BY <1>1, CatalogAssumption DEF CatalogInit, CatalogTypeOK

(* The rows the public pages read are reports and taxonomy rows, whatever  *)
(* is posted, revised, held, deleted, restored and curated.                *)
THEOREM CatalogTypes == CatalogSpec => []CatalogTypeOK
BY CatalogStarts, CatalogKeeps, PTL DEF CatalogSpec

(* A page says how many reports it is about, and every link says it of the *)
(* page it leads to, for any companies, roles, levels, topics and reports: *)
(* queries written by hand, with joins of their own, find the same rows    *)
(* (browse.ts, the pages under app/), and so does the search page facet by *)
(* facet, every page of the list counted.                                  *)
THEOREM CatalogShelvesAgree == CatalogSpec => []ShelvesAgree
BY CatalogTypes, ShelvesDoAgree, PTL

(* The sitemap lists the pages that resolve, show something and are their  *)
(* own canonical address, and only those: as long as the threshold that is *)
(* written down twice is the same in both places (sitemap.ts, scope.ts).   *)
THEOREM CatalogSitemapIsCanonical == CatalogSpec => []SitemapIsCanonical
BY CatalogTypes, SitemapDoesHold, PTL

-----------------------------------------------------------------------------
(***************************************************************************)
(* The components put together.                                            *)
(***************************************************************************)

LEMMA PartsStart ==
  MCInit => /\ FormInit /\ ComboInit /\ LadderInit /\ FiltersInit /\ TriageInit
            /\ RoundsInit /\ QueueInit /\ ConversationInit /\ CatalogInit
            /\ part \in Parts
BY DEF MCInit

\* A step of one component leaves the others alone.
LEMMA PartsStep ==
  ASSUME [MCNext]_mcVars
  PROVE  /\ [FormNext]_draftFormVars /\ [ComboNext]_comboVars
         /\ [LadderNext]_ladderVars /\ [FiltersNext]_filterVars
         /\ [TriageNext]_triageVars /\ [RoundsNext]_roundsVars
         /\ [QueueNext]_queueVars /\ [ConversationNext]_conversationVars
         /\ [CatalogNext]_catalogVars
         /\ part' = part
<1>1. CASE UNCHANGED mcVars
  BY <1>1 DEF mcVars
<1>2. CASE DraftFormStep
  BY <1>2 DEF DraftFormStep
<1>3. CASE ComboboxStep
  BY <1>3 DEF ComboboxStep
<1>4. CASE LadderStep
  BY <1>4 DEF LadderStep
<1>5. CASE FiltersStep
  BY <1>5 DEF FiltersStep
<1>6. CASE TriageStep
  BY <1>6 DEF TriageStep
<1>7. CASE RoundsStep
  BY <1>7 DEF RoundsStep
<1>8. CASE QueueStep
  BY <1>8 DEF QueueStep
<1>9. CASE ConversationStep
  BY <1>9 DEF ConversationStep
<1>10. CASE CatalogStep
  BY <1>10 DEF CatalogStep
<1> QED
  BY <1>1, <1>2, <1>3, <1>4, <1>5, <1>6, <1>7, <1>8, <1>9, <1>10 DEF MCNext

\* To each component the others are stuttering.
LEMMA PartsRun ==
  MCSpec => /\ FormSpec /\ ComboSpec /\ LadderSpec /\ FiltersSpec /\ TriageSpec
            /\ RoundsSpec /\ QueueSpec /\ ConversationSpec /\ CatalogSpec
            /\ [](part \in Parts)
<1>1. MCSpec => FormSpec
  BY PartsStart, PartsStep, PTL DEF MCSpec, FormSpec
<1>2. MCSpec => ComboSpec
  BY PartsStart, PartsStep, PTL DEF MCSpec, ComboSpec
<1>3. MCSpec => LadderSpec
  BY PartsStart, PartsStep, PTL DEF MCSpec, LadderSpec
<1>4. MCSpec => FiltersSpec
  BY PartsStart, PartsStep, PTL DEF MCSpec, FiltersSpec
<1>5. MCSpec => TriageSpec
  BY PartsStart, PartsStep, PTL DEF MCSpec, TriageSpec
<1>6. MCSpec => RoundsSpec
  BY PartsStart, PartsStep, PTL DEF MCSpec, RoundsSpec
<1>7. MCSpec => QueueSpec
  BY PartsStart, PartsStep, PTL DEF MCSpec, QueueSpec
<1>8. MCSpec => ConversationSpec
  BY PartsStart, PartsStep, PTL DEF MCSpec, ConversationSpec
<1>9. MCSpec => CatalogSpec
  BY PartsStart, PartsStep, PTL DEF MCSpec, CatalogSpec
<1>10. part \in Parts /\ [MCNext]_mcVars => (part \in Parts)'
  BY PartsStep
<1>11. MCSpec => [](part \in Parts)
  BY <1>10, PartsStart, PTL DEF MCSpec
<1> QED
  BY <1>1, <1>2, <1>3, <1>4, <1>5, <1>6, <1>7, <1>8, <1>9, <1>11

(* In every behaviour of the run, whichever component moves, its types     *)
(* hold.                                                                   *)
THEOREM BrowserTypes == MCSpec => []TypeOK
<1>1. FormTypeOK /\ ComboTypeOK /\ LadderTypeOK /\ FiltersTypeOK /\ TriageTypeOK
        /\ RoundsTypeOK /\ QueueTypeOK /\ ConversationTypeOK /\ CatalogTypeOK
        /\ part \in Parts => TypeOK
  BY PartsAssumption DEF TypeOK
<1> QED
  BY <1>1, PartsRun, FormTypes, ComboTypes, LadderTypes, FiltersTypes, TriageTypes,
     RoundsTypes, QueueTypes, ConversationTypes, CatalogTypes, PTL

(* Whatever address a reader comes from, and whichever links they follow   *)
(* and for how long, every link keeps the other filters (filter-bar.tsx,   *)
(* pagination.tsx, url.ts).                                                *)
THEOREM BrowserLinksKeep == MCSpec => []LinksKeepThroughout
<1>1. LinksKeepTheRest => LinksKeepThroughout
  BY DEF LinksKeepThroughout
<1> QED
  BY <1>1, PartsRun, FiltersLinksKeep, PTL

(* The pages and the lists that link to them agree, for any reports and    *)
(* any taxonomy (browse.ts, users.ts, the pages under app/).               *)
THEOREM BrowserShelvesAgree == MCSpec => []ShelvesAgreeThroughout
<1>1. ShelvesAgree => ShelvesAgreeThroughout
  BY DEF ShelvesAgreeThroughout
<1> QED
  BY <1>1, PartsRun, CatalogShelvesAgree, PTL

(* The sitemap lists the canonical pages and only those, for any reports,  *)
(* any taxonomy and any threshold that is the same in both places          *)
(* (sitemap.ts, scope.ts).                                                 *)
THEOREM BrowserSitemapIsCanonical == MCSpec => []SitemapStaysCanonical
<1>1. SitemapIsCanonical => SitemapStaysCanonical
  BY DEF SitemapStaysCanonical
<1> QED
  BY <1>1, PartsRun, CatalogSitemapIsCanonical, PTL

=============================================================================
