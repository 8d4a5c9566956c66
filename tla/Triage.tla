-------------------------------- MODULE Triage --------------------------------
(***************************************************************************)
(* The preview pane of a report list (report-triage.tsx): a detail cache,  *)
(* the requests in flight, hover prefetch, stepping through the ordered    *)
(* ids, and the browser history that the pane keeps in step -- opening     *)
(* pushes an entry, stepping replaces it, closing goes back and lets the   *)
(* popstate event clear the pane.  Back and Forward are asynchronous: the  *)
(* event arrives after later clicks and keys.                              *)
(*                                                                         *)
(* The sheet's drag and body scroll lock are layout; the swipe it ends in  *)
(* is a Step or a Close.                                                   *)
(***************************************************************************)
EXTENDS Integers, Sequences, SequencesExt

CONSTANTS
  OrderedIds,   \* the ids the server sent with the list, without repeats
  ListUrl,      \* the address of the list, none of the ids
  MaxOpens,     \* bound: openings of the pane
  MaxFetches,   \* bound: requests sent
  MaxPending    \* bound: Back and Forward asked for and not performed

NoPane == "none"

\* The ids are those of rows; the address of the list and "none" name no row.
ASSUME TriageAssumption ==
  /\ OrderedIds \in Seq(ToSet(OrderedIds))
  /\ \A j, k \in DOMAIN OrderedIds : OrderedIds[j] = OrderedIds[k] => j = k
  /\ NoPane \notin ToSet(OrderedIds) /\ ListUrl \notin ToSet(OrderedIds)
ASSUME TriageBounds == MaxOpens \in Nat /\ MaxFetches \in Nat /\ MaxPending \in Nat

VARIABLES
  selected,  \* selectedId and its mirror selectedRef
  peek,      \* the report whose detail is displayed, or NoPane
  loading,
  cache,     \* ids with a detail
  inflight,  \* ids with a request in flight
  awaiting,  \* calls of select that wait for a detail
  history,   \* entries of the tab from the list on, oldest first
  at,        \* the current entry
  traversals, \* history.back / forward calls not performed yet
  dwell,     \* the report whose reading time runs, or NoPane
  hover,     \* the report of the pending hover timer, or NoPane
  opens, fetches

triageVars == <<selected, peek, loading, cache, inflight, awaiting, history, at,
                traversals, dwell, hover, opens, fetches>>

TriagedReports == ToSet(OrderedIds)
Place(id) == CHOOSE k \in 1..Len(OrderedIds) : OrderedIds[k] = id

\* What fetchDetail adds to the requests: nothing when cached or in flight.
Unfetched(id) == {id} \ (cache \cup inflight)

Request(ids) ==
  /\ inflight' = inflight \cup ids
  /\ fetches' = IF ids = {} THEN fetches ELSE fetches + 1
  /\ fetches' <= MaxFetches

NextOf(id) == IF Place(id) < Len(OrderedIds) THEN {OrderedIds[Place(id) + 1]} ELSE {}

\* The synchronous part of select, with its history entry; a detail at hand also
\* prefetches the next report.
Select(id, entries, entry) ==
  /\ selected' = id
  /\ dwell' = id
  /\ history' = entries
  /\ at' = entry
  /\ loading' = (id \notin cache)
  /\ IF id \in cache
     THEN /\ peek' = id
          /\ Request(UNION {Unfetched(n) : n \in NextOf(id)})
          /\ UNCHANGED awaiting
     ELSE /\ peek' = NoPane
          /\ Request(Unfetched(id))
          /\ awaiting' = awaiting \cup {id}
  /\ UNCHANGED <<cache, traversals, hover>>

Pushed(id) == Append(SubSeq(history, 1, at), id)
Replaced(id) == [history EXCEPT ![at] = id]

Open(id) ==
  /\ opens < MaxOpens
  /\ IF selected = NoPane THEN Select(id, Pushed(id), at + 1)
                        ELSE Select(id, Replaced(id), at)
  /\ opens' = opens + 1

\* j, k, the arrows and the swipe.
Step(delta) ==
  /\ selected # NoPane
  /\ Place(selected) + delta \in 1..Len(OrderedIds)
  /\ Select(OrderedIds[Place(selected) + delta], Replaced(OrderedIds[Place(selected) + delta]), at)
  /\ UNCHANGED opens

\* Escape, the button, the backdrop: one step back, performed later.
Close ==
  /\ selected # NoPane
  /\ Len(traversals) < MaxPending
  /\ traversals' = Append(traversals, -1)
  /\ UNCHANGED <<selected, peek, loading, cache, inflight, awaiting, history, at,
                 dwell, hover, opens, fetches>>

\* The reader's own Back and Forward.
Navigate(delta) ==
  /\ Len(traversals) < MaxPending
  /\ at + delta \in DOMAIN history
  /\ traversals' = Append(traversals, delta)
  /\ UNCHANGED <<selected, peek, loading, cache, inflight, awaiting, history, at,
                 dwell, hover, opens, fetches>>

\* onPop: the address decides.  A step past either end stays on the page (or
\* leaves it for good, and the pane with it).
PopState ==
  /\ traversals # <<>>
  /\ traversals' = Tail(traversals)
  /\ LET to == at + Head(traversals) IN
     IF to \notin DOMAIN history
     THEN UNCHANGED <<selected, peek, loading, inflight, awaiting, history, at, dwell, fetches>>
     ELSE IF history[to] = ListUrl
     THEN /\ selected' = NoPane /\ peek' = NoPane /\ loading' = FALSE /\ dwell' = NoPane
          /\ at' = to
          /\ UNCHANGED <<history, inflight, awaiting, fetches>>
     ELSE IF history[to] = selected
     THEN /\ at' = to
          /\ UNCHANGED <<selected, peek, loading, inflight, awaiting, history, dwell, fetches>>
     ELSE /\ selected' = history[to]
          /\ dwell' = history[to]
          /\ at' = to
          /\ loading' = (history[to] \notin cache)
          /\ peek' = IF history[to] \in cache THEN history[to] ELSE NoPane
          /\ Request(IF history[to] \in cache
                     THEN UNION {Unfetched(n) : n \in NextOf(history[to])}
                     ELSE Unfetched(history[to]))
          /\ awaiting' = IF history[to] \in cache THEN awaiting ELSE awaiting \cup {history[to]}
          /\ UNCHANGED history
  /\ UNCHANGED <<cache, hover, opens>>

\* A defect: the resolved call does not look whether the reader has moved on.
ResumeAlways(id, found) ==
  IF id \in awaiting
  THEN /\ peek' = IF found THEN id ELSE NoPane
       /\ loading' = FALSE
       /\ inflight' = inflight \ {id}
       /\ UNCHANGED fetches
  ELSE /\ inflight' = inflight \ {id}
       /\ UNCHANGED <<peek, loading, fetches>>

\* The calls of select that waited for id resume: only the one whose report is
\* still selected touches the pane, and prefetches the next report.
Resume(id, found) ==
  IF id \in awaiting /\ selected = id
  THEN /\ peek' = IF found THEN id ELSE NoPane
       /\ loading' = FALSE
       /\ LET ask == UNION {{n} \ (cache' \cup (inflight \ {id})) : n \in NextOf(id)}
          IN  /\ inflight' = (inflight \ {id}) \cup ask
              /\ fetches' = IF ask = {} THEN fetches ELSE fetches + 1
  ELSE /\ inflight' = inflight \ {id}
       /\ UNCHANGED <<peek, loading, fetches>>

Answered(id) ==
  /\ id \in inflight
  /\ cache' = cache \cup {id}
  /\ Resume(id, TRUE)
  /\ awaiting' = awaiting \ {id}
  /\ UNCHANGED <<selected, history, at, traversals, dwell, hover, opens>>

\* A status that is not ok, or no answer at all.
FetchFails(id) ==
  /\ id \in inflight
  /\ UNCHANGED cache
  /\ Resume(id, FALSE)
  /\ awaiting' = awaiting \ {id}
  /\ UNCHANGED <<selected, history, at, traversals, dwell, hover, opens>>

OnListHover(id) ==
  /\ id \notin cache
  /\ hover' = id
  /\ UNCHANGED <<selected, peek, loading, cache, inflight, awaiting, history, at,
                 traversals, dwell, opens, fetches>>

CancelHover ==
  /\ hover # NoPane
  /\ hover' = NoPane
  /\ UNCHANGED <<selected, peek, loading, cache, inflight, awaiting, history, at,
                 traversals, dwell, opens, fetches>>

\* 120 ms later: prefetch.
HoverFires ==
  /\ hover # NoPane
  /\ Request(Unfetched(hover))
  /\ hover' = NoPane
  /\ UNCHANGED <<selected, peek, loading, cache, awaiting, history, at, traversals,
                 dwell, opens>>

------------------------------------------------------------------------------
TriageTypeOK ==
  /\ {selected, peek, dwell, hover} \subseteq TriagedReports \cup {NoPane}
  /\ loading \in BOOLEAN
  /\ cache \subseteq TriagedReports /\ inflight \subseteq TriagedReports /\ awaiting \subseteq TriagedReports
  /\ history \in Seq(TriagedReports \cup {ListUrl}) /\ at \in DOMAIN history
  /\ traversals \in Seq({-1, 1})
  /\ opens \in 0..MaxOpens /\ fetches \in 0..(MaxFetches + 1)

TriageInit ==
  /\ selected = NoPane /\ peek = NoPane /\ loading = FALSE
  /\ cache = {} /\ inflight = {} /\ awaiting = {}
  /\ history = <<ListUrl>> /\ at = 1 /\ traversals = <<>>
  /\ dwell = NoPane /\ hover = NoPane
  /\ opens = 0 /\ fetches = 0

TriageNext ==
  \/ \E id \in TriagedReports : \/ Open(id) \/ OnListHover(id)
                         \/ Answered(id) \/ FetchFails(id)
  \/ \E delta \in {-1, 1} : Step(delta) \/ Navigate(delta)
  \/ Close \/ PopState \/ CancelHover \/ HoverFires

TriageSpec == TriageInit /\ [][TriageNext]_triageVars

------------------------------------------------------------------------------
(* Property *)

\* The pane is about the selected report in everything it shows: the detail is
\* that report's or none, the reading time runs for it, a "Loading..." has a
\* request behind it that will end it, and once the browser has performed what
\* was asked of it the address names the same report -- whatever answers,
\* steps and Back presses overlapped (report-triage.tsx:82-237).
PaneIsTheSelection ==
  /\ peek \in {NoPane, selected}
  /\ dwell = selected
  /\ loading => peek = NoPane /\ selected \in inflight \cap awaiting
  /\ awaiting \subseteq inflight
  /\ history[at] = IF selected = NoPane THEN ListUrl ELSE selected

==============================================================================
