------------------------------- MODULE Catalog -------------------------------
(***************************************************************************)
(* The public browse pages: what the reads of packages/db/src/reports      *)
(* (browse.ts, browse-helpers.ts, sitemap.ts) answer over the reports and  *)
(* the taxonomy, which pages resolve, which of them is the canonical       *)
(* address of what it shows, and what the search page finds.  Each read is *)
(* a query of its own, written by hand with its own joins, and pages put   *)
(* their counts side by side; the module states that they agree.           *)
(*                                                                         *)
(* Reports are numbered by created_at, which is assumed to differ between  *)
(* reports; ties are left out.  The rows a restore, a hold or a deletion   *)
(* leaves have deleted_at set exactly when status is 'deleted', so the two *)
(* predicates of VISIBLE are one here.  Names are equal exactly when slugs *)
(* are.  The aggregate cells and the search index lag behind the reports   *)
(* until the consumers have caught up (AggregateWorker and SearchWorker    *)
(* show that they do); here they are the settled ones.                     *)
(***************************************************************************)
EXTENDS Integers, Sequences, FiniteSets, FiniteSetsExt, SequencesExt

CONSTANTS
  Houses, Trades, Topics,  \* companies, roles and topics of the taxonomy
  Rungs,                 \* [Houses -> set of level names on the company's ladder]
  Curatable,             \* the taxonomy rows moderation may (dis)approve
  ReportBodies,                \* contents a report may have
  KarmaOf,               \* [flagger -> karma]
  Attested,              \* flaggers with a verification
  Sparse,                \* SPARSE_REPORT_THRESHOLD of core
  DENSE_CELL_THRESHOLD,  \* the literal db keeps "in sync" with it
  TRIAGE_ID_CAP,         \* ids shipped to the preview pane
  MaxPosted, MaxThanks,  \* bounds: reports, helpful flags
  MaxAway                \* bound: reports that are not visible at once

Unset == "any"   \* an absent filter

ASSUME CatalogAssumption ==
  /\ DOMAIN Rungs = Houses /\ Unset \notin UNION Range(Rungs)
  /\ Unset \notin Houses
  /\ \A b \in ReportBodies :
       /\ b.company \in Houses /\ b.role \in Trades
       /\ b.questions \in Seq(SUBSET Topics)
  /\ IsFiniteSet(DOMAIN KarmaOf) /\ \A u \in DOMAIN KarmaOf : KarmaOf[u] \in Nat
  /\ Curatable \subseteq Houses \cup Trades \cup Topics
  /\ Sparse \in Nat \ {0} /\ MaxPosted \in Nat

\* The literal is kept in sync by hand (sitemap.ts:4-6, scope.ts:5).
ASSUME ThresholdsAgree == Sparse = DENSE_CELL_THRESHOLD

PostedRow == [body : ReportBodies, status : {"active", "pending_moderation", "deleted"}]

VARIABLES
  posted,    \* sequence of reports: body and status
  curation,  \* taxonomy row -> status
  thanks     \* helpful flags, <<flagger, report>>

catalogVars == <<posted, curation, thanks>>

Ids == DOMAIN posted
Body(i) == posted[i].body
VISIBLE(i) == posted[i].status = "active"
InForce(x) == curation[x] = "active"

------------------------------------------------------------------------------
(* Lists of reports *)

NoFilters == [outcome |-> Unset, level |-> Unset, verifiedOnly |-> FALSE,
              roundType |-> Unset, topics |-> {}]

TopicsOf(i) == UNION {Body(i).questions[k] : k \in DOMAIN Body(i).questions}

ReportFilterConditions(f, i) ==
  /\ f.outcome # Unset => Body(i).outcome = f.outcome
  /\ f.level # Unset => Body(i).level = f.level
  /\ f.verifiedOnly => Body(i).verified
  /\ f.roundType # Unset => f.roundType \in Body(i).rounds
  /\ f.topics # {} => TopicsOf(i) \cap f.topics # {}

GlobalReportWhere(f) == {i \in Ids : VISIBLE(i) /\ ReportFilterConditions(f, i)}

CompanyReportWhere(c, f) ==
  {i \in Ids : /\ Body(i).company = c
               /\ VISIBLE(i) /\ ReportFilterConditions(f, i)}

RoleReportWhere(c, ro, f) ==
  {i \in Ids : /\ Body(i).company = c /\ Body(i).role = ro
               /\ VISIBLE(i) /\ ReportFilterConditions(f, i)}

UserReportWhere(u, f) ==
  {i \in Ids : /\ Body(i).author = u /\ Body(i).named
               /\ VISIBLE(i) /\ ReportFilterConditions(f, i)}

HelpfulScore(i) ==
  FoldFunctionOnSet(+, 0, [h \in thanks |-> IF KarmaOf[h[1]] > 1 THEN KarmaOf[h[1]] ELSE 1],
                    {h \in thanks : /\ h[2] = i /\ h[1] # Body(i).author
                                    /\ h[1] \in Attested})

\* REPORT_LIST_ORDER: helpful score, then the newest.
ListedBefore(a, b) ==
  \/ HelpfulScore(a) > HelpfulScore(b)
  \/ HelpfulScore(a) = HelpfulScore(b) /\ a > b

InListOrder(S) ==
  CHOOSE s \in [1..Cardinality(S) -> S] :
    \A i, j \in DOMAIN s : i < j => ListedBefore(s[i], s[j])

\* The total rides on the rows: a page past the end knows of no report at all.
RunReportList(S, limit, offset) ==
  LET items == SubSeq(InListOrder(S), offset + 1,
                      IF offset + limit < Cardinality(S)
                      THEN offset + limit ELSE Cardinality(S))
  IN  [items |-> items,
       total |-> IF items = <<>> THEN 0 ELSE Cardinality(S)]

RunReportIdList(S, cap) ==
  SubSeq(InListOrder(S), 1, IF cap < Cardinality(S) THEN cap ELSE Cardinality(S))

PublicReportCount(u) ==
  Cardinality({i \in Ids : /\ Body(i).author = u /\ Body(i).named
                           /\ posted[i].status = "active"})

------------------------------------------------------------------------------
(* Counts of the index pages *)

CompanyStats(c) ==
  LET R == {i \in Ids : Body(i).company = c /\ posted[i].status = "active"}
  IN  [reportCount |-> Cardinality(R),
       roleCount |-> Cardinality({Body(i).role : i \in R})]

CompaniesWithReports ==
  {cn \in Houses \X (1..Len(posted)) :
     /\ InForce(cn[1])
     /\ cn[2] = Cardinality({i \in Ids : Body(i).company = cn[1] /\ VISIBLE(i)})}

RolesForCompanyWithReports(c) ==
  {rn \in Trades \X (1..Len(posted)) :
     /\ InForce(rn[1])
     /\ rn[2] = Cardinality({i \in Ids : /\ Body(i).role = rn[1] /\ Body(i).company = c
                                         /\ VISIBLE(i)})}

\* One row per level text; a custom text has no slug.
LevelsForCompanyRoleWithReports(c, ro) ==
  LET R == {i \in Ids : Body(i).company = c /\ Body(i).role = ro /\ VISIBLE(i)}
  IN  {[name |-> l, slugged |-> l \in Rungs[c],
        reportCount |-> Cardinality({i \in R : Body(i).level = l})] :
         l \in {Body(i).level : i \in R}}

CountActiveReportsForCompanyRole(c, ro) ==
  Cardinality({i \in Ids : /\ Body(i).company = c /\ Body(i).role = ro
                           /\ posted[i].status = "active"})

\* The questions a topic tags, <<report, place>>, whatever the report's status.
Tagged(t) == UNION {{i} \X {k \in DOMAIN Body(i).questions : t \in Body(i).questions[k]} :
                      i \in Ids}

\* A defect: a report is counted once for each of its tagged questions.
TopicsByRow ==
  {[topic |-> t,
    questionCount |-> Cardinality({q \in Tagged(t) : VISIBLE(q[1])}),
    reportCount |-> Cardinality({q \in Tagged(t) : VISIBLE(q[1])})] :
     t \in {t \in Topics : InForce(t)}}

TopicsForIndex ==
  {[topic |-> t,
    questionCount |-> Cardinality({q \in Tagged(t) : VISIBLE(q[1])}),
    reportCount |-> Cardinality({q[1] : q \in {q \in Tagged(t) : VISIBLE(q[1])}})] :
     t \in {t \in Topics : InForce(t)}}

CompaniesForTopic(t) ==
  {cn \in Houses \X (1..Len(posted)) :
     /\ InForce(cn[1])
     /\ cn[2] = Cardinality({i \in Ids : /\ Body(i).company = cn[1] /\ VISIBLE(i)
                                         /\ t \in TopicsOf(i)})}

\* c = Unset for every company.  Question-grain: one row per tagged question.
QuestionsForTopic(t, c) ==
  {q \in Tagged(t) : VISIBLE(q[1]) /\ (c # Unset => Body(q[1]).company = c)}

CountReportsForTopic(t, c) ==
  Cardinality({i \in Ids : /\ VISIBLE(i) /\ (c # Unset => Body(i).company = c)
                           /\ t \in TopicsOf(i)})

TopTopicsForCompany(c) ==
  {tn \in Topics \X (1..Len(posted)) :
     /\ InForce(tn[1])
     /\ tn[2] = Cardinality({q[1] : q \in {q \in Tagged(tn[1]) : /\ VISIBLE(q[1])
                                                                /\ Body(q[1]).company = c}})}

------------------------------------------------------------------------------
(* Pages, canonical addresses and the sitemap *)

AllPages ==
  {<<"company", c>> : c \in Houses}
    \cup {<<"role", c, ro>> : c \in Houses, ro \in Trades}
    \cup {<<"level", c, ro, l>> : c \in Houses, ro \in Trades, l \in UNION Range(Rungs)}
    \cup {<<"topic", t>> : t \in Topics}
    \cup {<<"topicCompany", t, c>> : t \in Topics, c \in Houses}

\* A settled cell of aggregates_company_role_level.
LevelCell(c, ro, l) == Cardinality(RoleReportWhere(c, ro, [NoFilters EXCEPT !.level = l]))

DecideLevelView(n) == IF n >= Sparse THEN "level" ELSE "role"
DecideTopicCompanyView(n) == IF n >= Sparse THEN "company" ELSE "topic"

\* slug is a level slug or Unset; an unknown one falls through to the whole role.
RoleView(c, ro, slug, limit, page) ==
  LET active == slug # Unset /\ \E row \in LevelsForCompanyRoleWithReports(c, ro) :
                                   row.slugged /\ row.name = slug
      f == [NoFilters EXCEPT !.level = IF active THEN slug ELSE Unset]
      alone == active /\ DecideLevelView(LevelCell(c, ro, slug)) = "level"
  IN  [shows |-> RoleReportWhere(c, ro, f),
       list |-> RunReportList(RoleReportWhere(c, ro, f), limit, (page - 1) * limit),
       orderedIds |-> RunReportIdList(RoleReportWhere(c, ro, f), TRIAGE_ID_CAP),
       broadened |-> active /\ ~alone,
       headline |-> IF alone THEN LevelCell(c, ro, slug)
                    ELSE CountActiveReportsForCompanyRole(c, ro)]

\* The level rail: a rung without a slug has no address to link to.
WedgeRail(c, ro) == {<<<<"level", c, ro, row.name>>, row.reportCount>> :
                       row \in {row \in LevelsForCompanyRoleWithReports(c, ro) : row.slugged}}

\* Of each page: whether it resolves or 404s, its canonical address, the reports
\* its body lists, the number of reports it says it is about, and its links,
\* <<address, number printed on the link>>.
CompanyPage(c) ==
  [resolves |-> InForce(c), canonical |-> <<"company", c>>,
   shows |-> CompanyReportWhere(c, NoFilters),
   count |-> CompanyStats(c).reportCount,
   links |-> {<<<<"role", c, rn[1]>>, rn[2]>> : rn \in RolesForCompanyWithReports(c)}
               \cup {<<<<"topicCompany", tn[1], c>>, tn[2]>> : tn \in TopTopicsForCompany(c)}]

RolePage(c, ro) ==
  LET view == RoleView(c, ro, Unset, 1, 1)
  IN  [resolves |-> InForce(c) /\ InForce(ro), canonical |-> <<"role", c, ro>>,
       shows |-> view.shows, count |-> view.headline, links |-> WedgeRail(c, ro)]

LevelPage(c, ro, l) ==
  LET view == RoleView(c, ro, l, 1, 1)
  IN  [resolves |-> InForce(c) /\ InForce(ro) /\ l \in Rungs[c],
       canonical |-> IF DecideLevelView(LevelCell(c, ro, l)) = "level"
                     THEN <<"level", c, ro, l>> ELSE <<"role", c, ro>>,
       shows |-> view.shows, count |-> view.list.total, links |-> WedgeRail(c, ro)]

TopicPage(t) ==
  [resolves |-> InForce(t), canonical |-> <<"topic", t>>,
   shows |-> {q[1] : q \in QuestionsForTopic(t, Unset)},
   count |-> CountReportsForTopic(t, Unset),
   links |-> {<<<<"topicCompany", t, cn[1]>>, cn[2]>> : cn \in CompaniesForTopic(t)}]

TopicCompanyPage(t, c) ==
  LET own == DecideTopicCompanyView(CountReportsForTopic(t, c)) = "company"
  IN  [resolves |-> InForce(t) /\ InForce(c),
       canonical |-> IF own THEN <<"topicCompany", t, c>> ELSE <<"topic", t>>,
       shows |-> {q[1] : q \in QuestionsForTopic(t, IF own THEN c ELSE Unset)},
       count |-> CountReportsForTopic(t, c),
       links |-> IF own THEN {} ELSE {<<<<"topic", t>>, CountReportsForTopic(t, Unset)>>}]

PageAt(p) ==
  CASE p[1] = "company" -> CompanyPage(p[2])
    [] p[1] = "role" -> RolePage(p[2], p[3])
    [] p[1] = "level" -> LevelPage(p[2], p[3], p[4])
    [] p[1] = "topic" -> TopicPage(p[2])
    [] p[1] = "topicCompany" -> TopicCompanyPage(p[2], p[3])

\* The links of the two index pages.
CompaniesPage == {<<<<"company", cn[1]>>, cn[2]>> : cn \in CompaniesWithReports}
TopicsPage == {<<<<"topic", row.topic>>, row.reportCount>> : row \in TopicsForIndex}

CompanyEntries == {<<"company", Body(i).company>> :
                     i \in {i \in Ids : VISIBLE(i) /\ InForce(Body(i).company)}}

RoleEntries == {<<"role", Body(i).company, Body(i).role>> :
                  i \in {i \in Ids : /\ VISIBLE(i)
                                     /\ InForce(Body(i).company) /\ InForce(Body(i).role)}}

LevelEntries ==
  {p \in AllPages :
     /\ p[1] = "level" /\ <<"role", p[2], p[3]>> \in RoleEntries
     /\ p[4] \in Rungs[p[2]]
     /\ Cardinality({i \in Ids : /\ VISIBLE(i)
                                 /\ <<Body(i).company, Body(i).role, Body(i).level>>
                                      = <<p[2], p[3], p[4]>>}) >= DENSE_CELL_THRESHOLD}

TopicEntries == {<<"topic", t>> : t \in {t \in Topics : /\ InForce(t)
                                                     /\ \E q \in Tagged(t) : VISIBLE(q[1])}}

\* A defect: counts the tagged questions instead of the reports that hold them.
LeavesByQuestion ==
  {<<"topicCompany", tc[1], tc[2]>> : tc \in
     {tc \in Topics \X Houses :
        /\ InForce(tc[1]) /\ InForce(tc[2])
        /\ Cardinality({q \in Tagged(tc[1]) : VISIBLE(q[1]) /\ Body(q[1]).company = tc[2]})
             >= DENSE_CELL_THRESHOLD}}

TopicCompanyEntries ==
  {<<"topicCompany", tc[1], tc[2]>> : tc \in
     {tc \in Topics \X Houses :
        /\ InForce(tc[1]) /\ InForce(tc[2])
        /\ Cardinality({q[1] : q \in {q \in Tagged(tc[1]) :
                                        VISIBLE(q[1]) /\ Body(q[1]).company = tc[2]}})
             >= DENSE_CELL_THRESHOLD}}

Sitemap == CompanyEntries \cup RoleEntries \cup LevelEntries
             \cup TopicEntries \cup TopicCompanyEntries

------------------------------------------------------------------------------
(* The feed of everything, the search page and the profile *)

\* buildFilterBy over the document of a report; the index holds visible reports.
SearchReports(f) ==
  {i \in Ids :
     /\ VISIBLE(i)
     /\ f.outcome = Unset \/ f.outcome = Body(i).outcome
     /\ f.roundType = Unset \/ f.roundType \in Body(i).rounds
     /\ f.topics = {} \/ \E t \in f.topics : t \in TopicsOf(i)
     /\ ~f.verifiedOnly \/ Body(i).verified}

ReportsPage(f, limit, page) ==
  [list |-> RunReportList(GlobalReportWhere(f), limit, (page - 1) * limit),
   orderedIds |-> RunReportIdList(GlobalReportWhere(f), TRIAGE_ID_CAP)]

HasActiveFacets(f) == f.outcome # Unset \/ f.roundType # Unset \/ f.topics # {} \/ f.verifiedOnly

\* Without words to look for; with no facet either it only asks for some.
SearchPage(f) == IF HasActiveFacets(f) THEN SearchReports(f) ELSE {}

UserProfilePage(u) == [shows |-> UserReportWhere(u, NoFilters), count |-> PublicReportCount(u)]

------------------------------------------------------------------------------
(* What changes the rows *)

CatalogTypeOK ==
  /\ posted \in Seq(PostedRow)
  /\ Len(posted) <= MaxPosted
  /\ curation \in [Houses \cup Trades \cup Topics -> {"active", "pending"}]
  /\ thanks \subseteq (DOMAIN KarmaOf) \X Ids

CatalogInit ==
  /\ posted = <<>>
  /\ curation = [x \in Houses \cup Trades \cup Topics |-> "active"]
  /\ thanks = {}

FewAway == Cardinality({i \in Ids : ~VISIBLE(i)}') <= MaxAway

PostReport(b, held) ==
  /\ Len(posted) < MaxPosted
  /\ posted' = Append(posted, [body |-> b, status |-> IF held THEN "pending_moderation"
                                                      ELSE "active"])
  /\ FewAway
  /\ UNCHANGED <<curation, thanks>>

ReviseReport(i, b) ==
  /\ posted[i].status # "deleted"
  /\ b.author = Body(i).author
  /\ posted' = [posted EXCEPT ![i].body = b]
  /\ UNCHANGED <<curation, thanks>>

\* Released from the hold, deleted by its author, restored by a moderator.
SetReportStatus(i, s) ==
  /\ <<posted[i].status, s>> \in {<<"pending_moderation", "active">>,
                                  <<"active", "deleted">>, <<"deleted", "active">>}
  /\ posted' = [posted EXCEPT ![i].status = s]
  /\ FewAway
  /\ UNCHANGED <<curation, thanks>>

\* A name somebody suggested is pending until a moderator approves it.
CurateRow(x) ==
  /\ curation' = [curation EXCEPT ![x] = IF @ = "active" THEN "pending" ELSE "active"]
  /\ UNCHANGED <<posted, thanks>>

ThankReport(u, i) ==
  /\ thanks' = IF <<u, i>> \in thanks THEN thanks \ {<<u, i>>} ELSE thanks \cup {<<u, i>>}
  /\ Cardinality(thanks') <= MaxThanks
  /\ UNCHANGED <<posted, curation>>

CatalogNext ==
  \/ \E b \in ReportBodies, held \in BOOLEAN : PostReport(b, held)
  \/ \E i \in Ids, b \in ReportBodies : ReviseReport(i, b)
  \/ \E i \in Ids, s \in {"active", "deleted"} : SetReportStatus(i, s)
  \/ \E x \in Curatable : CurateRow(x)
  \/ \E u \in DOMAIN KarmaOf, i \in Ids : ThankReport(u, i)

CatalogSpec == CatalogInit /\ [][CatalogNext]_catalogVars

------------------------------------------------------------------------------
(* Properties *)

\* Every page with its address.
Shelf == {[at |-> p, page |-> PageAt(p)] : p \in AllPages}

\* Every link leads to a page that resolves and that is about as many reports as
\* the link says, and a page is about the reports it lists: the company, role,
\* level, topic and leaf pages with their headlines, rails and chips, the two
\* indexes and the profile (browse.ts:84-519, users.ts:77); every facet finds on
\* the search page the reports it finds in the feed, page by page.
ShelvesAgree ==
  /\ LET shelf == Shelf
         Leads(l) == \E s \in shelf : s.at = l[1] /\ s.page.resolves /\ s.page.count = l[2]
     IN  /\ \A s \in {s \in shelf : s.page.resolves} :
              /\ s.page.count = Cardinality(s.page.shows) \/ s.page.canonical # s.at
              /\ \A l \in s.page.links : Leads(l)
              /\ s.at[1] = "level" =>
                   LET view == RoleView(s.at[2], s.at[3], s.at[4], 1, 1)
                   IN  IF view.broadened THEN view.headline >= s.page.count
                                         ELSE view.headline = s.page.count
         /\ \A l \in CompaniesPage \cup TopicsPage : Leads(l)
  /\ \A c \in Houses : InForce(c) =>
       /\ (CompanyStats(c).reportCount > 0) <=> (\E l \in CompaniesPage : l[1] = <<"company", c>>)
       /\ Cardinality(RolesForCompanyWithReports(c)) <= CompanyStats(c).roleCount
  /\ \A row \in TopicsForIndex :
       row.questionCount = Cardinality(QuestionsForTopic(row.topic, Unset))
  /\ \A u \in {b.author : b \in ReportBodies} :
       UserProfilePage(u).count = Cardinality(UserProfilePage(u).shows)
  /\ \A o \in {Unset, "offer"}, r \in {Unset, "coding"}, T \in {{}, Topics}, v \in BOOLEAN :
       LET f == [NoFilters EXCEPT !.outcome = o, !.roundType = r, !.topics = T,
                                  !.verifiedOnly = v]
       IN  SearchPage(f) = (IF HasActiveFacets(f)
                            THEN UNION {Range(ReportsPage(f, 1, n).list.items) : n \in 1..MaxPosted}
                            ELSE {})

\* The sitemap names exactly the pages that resolve, show something and are
\* their own canonical address, and a page that shows something but yields to
\* another address yields to one of these: no 404, no thin near-duplicate, and
\* none missing (sitemap.ts:41-167 against resolve.ts and the pages'
\* generateMetadata, with the threshold written down twice).
SitemapIsCanonical ==
  LET entries == Sitemap
  IN  \A p \in AllPages :
        LET page == PageAt(p)
            shown == page.resolves /\ page.shows # {}
        IN  /\ p \in entries <=> shown /\ page.canonical = p
            /\ shown => page.canonical \in entries

==============================================================================
