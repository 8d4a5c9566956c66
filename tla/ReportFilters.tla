---------------------------- MODULE ReportFilters ----------------------------
(***************************************************************************)
(* The browse pages keep their whole state in the address: the server      *)
(* parses the query string into filters (packages/shared/src/url.ts), and  *)
(* the filter bar and the pager are plain links built back from them.  A   *)
(* query string is a function from parameter to the sequence of its values *)
(* -- empty when absent, longer than one when repeated.  Numbers are       *)
(* naturals, 0 standing for every text the schema refuses; a value of      *)
(* "topics" is the list of slugs between its commas, empty ones left out.  An empty level means *)
(* no level to every reader of the filters and is Absent here.             *)
(***************************************************************************)
EXTENDS Integers, Sequences, FiniteSets, SequencesExt

CONSTANTS
  Outcomes, RoundTypeSlugs,      \* the enumerations of the schema
  LevelSlugs, TopicSlugs,    \* slugs an address may carry
  Queries,                   \* search texts, trimmed
  Addresses,                     \* addresses a reader may arrive at
  MAX_PER_PAGE, DEFAULT_PER_PAGE,
  MaxTotal,                  \* bound on the reports behind a list
  MaxHops                    \* bound on the pages visited

Absent == "absent"
Junk == "junk"   \* a value outside its enumeration

Trusts == {"all", "verified"}
ReportSorts == {"recent", "helpful", "relevant"}
TopicValues == Seq(TopicSlugs) \ {<<>>}

QueryRow ==
  [q : Seq(Queries \cup {Junk}), outcome : Seq(Outcomes \cup {Junk}),
   roundType : Seq(RoundTypeSlugs \cup {Junk}), level : Seq(LevelSlugs \cup {Junk}),
   topics : Seq(TopicValues), trust : Seq(Trusts \cup {Junk}),
   sort : Seq(ReportSorts \cup {Junk}), page : Seq(Nat), perPage : Seq(Nat)]

ASSUME FiltersAssumption ==
  /\ Addresses \subseteq QueryRow
  /\ DEFAULT_PER_PAGE \in 1..MAX_PER_PAGE
  /\ MaxTotal \in Nat /\ MaxHops \in Nat \ {0}

VARIABLES
  address,  \* the query string of the page the reader is on
  behind,   \* reports the list of that page has now
  hops

filterVars == <<address, behind, hops>>

NoQuery == [q |-> <<>>, outcome |-> <<>>, roundType |-> <<>>, level |-> <<>>,
            topics |-> <<>>, trust |-> <<>>, sort |-> <<>>, page |-> <<>>, perPage |-> <<>>]

------------------------------------------------------------------------------
(* url.ts *)

\* A repeated or refused value degrades to the default, never to an error.
OneOf(values, S, default) ==
  IF Len(values) = 1 /\ values[1] \in S THEN values[1] ELSE default

\* The values of s at some of its places, in their order.
At(s, places) ==
  LET order == CHOOSE o \in [1..Cardinality(places) -> places] :
                 \A i, j \in DOMAIN o : i < j => o[i] < o[j]
  IN  [i \in DOMAIN order |-> s[order[i]]]

RemoveRepeats(s) == At(s, {k \in DOMAIN s : \A j \in 1..(k - 1) : s[j] # s[k]})

\* ?topics=a,b is split; repeated keys are taken as they come.
SlugList(values) ==
  RemoveRepeats(IF Len(values) = 1 THEN [k \in DOMAIN values[1] |-> <<values[1][k]>>]
                ELSE values)

ParseReportFilters(a) ==
  [q |-> OneOf(a.q, Queries, Absent),
   outcome |-> OneOf(a.outcome, Outcomes, Absent),
   roundType |-> OneOf(a.roundType, RoundTypeSlugs, Absent),
   level |-> OneOf(a.level, LevelSlugs, Absent),
   topics |-> SlugList(a.topics),
   trust |-> OneOf(a.trust, Trusts, "all"),
   sort |-> OneOf(a.sort, ReportSorts, "recent"),
   page |-> OneOf(a.page, Nat \ {0}, 1),
   perPage |-> OneOf(a.perPage, 1..MAX_PER_PAGE, DEFAULT_PER_PAGE)]

Unless(value, default) == IF value = default THEN <<>> ELSE <<value>>

\* A defect: a facet is parsed but never written back.
BuildWithoutLevel(f) ==
  [q |-> Unless(f.q, Absent), outcome |-> Unless(f.outcome, Absent),
   roundType |-> Unless(f.roundType, Absent), level |-> <<>>,
   topics |-> f.topics,
   trust |-> Unless(f.trust, "all"), sort |-> Unless(f.sort, "recent"),
   page |-> Unless(f.page, 1), perPage |-> Unless(f.perPage, DEFAULT_PER_PAGE)]

BuildReportFiltersQuery(f) ==
  [q |-> Unless(f.q, Absent), outcome |-> Unless(f.outcome, Absent),
   roundType |-> Unless(f.roundType, Absent), level |-> Unless(f.level, Absent),
   topics |-> f.topics,
   trust |-> Unless(f.trust, "all"), sort |-> Unless(f.sort, "recent"),
   page |-> Unless(f.page, 1), perPage |-> Unless(f.perPage, DEFAULT_PER_PAGE)]

------------------------------------------------------------------------------
(* filter-bar.tsx and pagination.tsx: the filters each link stands for *)

Chips(f) ==
  {[f EXCEPT !.outcome = o, !.page = 1] : o \in Outcomes \cup {Absent}}
    \cup {[f EXCEPT !.level = l, !.page = 1] : l \in LevelSlugs \cup {Absent}}
    \cup {[f EXCEPT !.roundType = r, !.page = 1] : r \in RoundTypeSlugs \cup {Absent}}
    \cup {[f EXCEPT !.trust = t, !.page = 1] : t \in Trusts}
    \cup {[f EXCEPT !.topics = At(@, {k \in DOMAIN @ : @[k] # t}), !.page = 1] :
            t \in ToSet(f.topics)}

\* The page past the end gets no rows, and with them no total.
Total(f) == IF (f.page - 1) * f.perPage < behind THEN behind ELSE 0

PageWindow(current, last) == {1, last, current - 1, current, current + 1} \cap (1..last)

PagerLinks(f) ==
  LET last == (Total(f) + f.perPage - 1) \div f.perPage
      current == IF f.page < last THEN f.page ELSE last
  IN  IF last <= 1 THEN {}
      ELSE {[f EXCEPT !.page = p] : p \in PageWindow(current, last) \ {current}}

Links(f) == Chips(f) \cup PagerLinks(f)

------------------------------------------------------------------------------
FiltersTypeOK ==
  /\ address \in QueryRow
  /\ behind \in 0..MaxTotal
  /\ hops \in 0..MaxHops

FiltersInit == address = NoQuery /\ behind = MaxTotal /\ hops = 0

\* The first page is reached by an address typed, shared or crawled.
Arrive(a) ==
  /\ hops = 0
  /\ address' = a
  /\ hops' = 1
  /\ UNCHANGED behind

FollowLink ==
  /\ hops \in 1..(MaxHops - 1)
  /\ \E f \in Links(ParseReportFilters(address)) :
       address' = BuildReportFiltersQuery(f)
  /\ hops' = hops + 1
  /\ UNCHANGED behind

\* The search box is a form of its own: it keeps no facet.
SubmitSearch(text) ==
  /\ hops \in 1..(MaxHops - 1)
  /\ address' = [NoQuery EXCEPT !.q = <<text>>]
  /\ hops' = hops + 1
  /\ UNCHANGED behind

\* Reports are moderated away while the reader stays.
ListShrinks ==
  /\ behind > 0
  /\ behind' = behind - 1
  /\ UNCHANGED <<address, hops>>

FiltersNext ==
  \/ FollowLink \/ ListShrinks
  \/ \E a \in Addresses : Arrive(a)
  \/ \E text \in Queries : SubmitSearch(text)

FiltersSpec == FiltersInit /\ [][FiltersNext]_filterVars

------------------------------------------------------------------------------
(* Property *)

\* Whatever address a reader arrived at, each link of the page leads to the
\* filters it stands for: the facet it names is changed, a chip goes back to the
\* first page, and every other filter the page shows survives the trip through
\* the query string (filter-bar.tsx:49-50, pagination.tsx:45-46, url.ts:88-126).
\* One topic that holds a comma, as repeated keys let in, is split on the way.
LinksKeepTheRest ==
  \A f \in Links(ParseReportFilters(address)) :
    LET arrived == ParseReportFilters(BuildReportFiltersQuery(f)) IN
    IF Len(f.topics) = 1 /\ Len(f.topics[1]) > 1
      THEN arrived = [f EXCEPT !.topics = arrived.topics]
      ELSE arrived = f

==============================================================================
