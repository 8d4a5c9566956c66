----------------------------- MODULE MCBrowser ------------------------------
(* One instance for the components of the browser and for what the public  *)
(* pages show: each is a page, a field or a set of pages of its own, so a  *)
(* behaviour is of one of them, and the variables of the others keep their *)
(* initial values.                                                         *)
EXTENDS DraftForm, Combobox, LevelLadder, ReportFilters, Triage, RoundsEditor,
        ModQueue, Conversation, Catalog, TLC

CONSTANTS
  Parts,
  c0, cA, cB, ta, tb, tc, ca, cb, sa, r1, r2, all, one, ra, rb, ann, bob

ASSUME PartsAssumption ==
  Parts \subseteq {"draftForm", "combobox", "ladder", "filters", "triage", "rounds",
                   "queue", "conversation", "catalog"}

MCMatches == ta :> <<ta, tb>> @@ tb :> <<tb>> @@ tc :> << >>

\* The suggested name turns out to be one of the companies there are.
MCPromotedTo == sa :> cb

\* Addresses with values absent, valid, repeated, out of range or made up.
MCAddresses ==
  {[NoQuery EXCEPT !.outcome = o, !.level = l, !.topics = t, !.page = p,
                   !.perPage = n, !.trust = v] :
     o \in {<< >>, <<"offer">>, <<Junk>>, <<"offer", "offer">>},
     l \in {<< >>, <<"L1">>},
     t \in {<< >>, << <<"ta", "tb", "ta">> >>, << <<"ta">>, <<"tb">> >>,
           << <<"ta", "tb">>, <<"ta", "tb">> >>},
     p \in {<< >>, <<0>>, <<2>>, <<9>>},
     n \in {<< >>, <<1>>, <<7>>},
     v \in {<< >>, <<"verified">>, <<Junk>>}}

MCOrderedIds == <<"r1", "r2", "r3">>

MCTrim == [t \in {"", "padded", "prose", "phone"} |-> IF t = "padded" THEN "prose" ELSE t]
MCTopicNamed == [n \in {"n3"} |-> "ta"]
MCNameOf == [t \in {"ta"} |-> "n1"]

MCMatching == all :> {r1, r2, c0} @@ one :> {r1, c0}

MCBegun == <<"me", "other">>

\* Two companies with the same two rungs, and reports whose company, role,
\* level, outcome, rounds, byline and questions differ in turn.
MCRungs == [h \in {ca, cb} |-> {"L1", "L2"}]
MCKarmaOf == bob :> 3

ReportOf(house, trade, rung, end, types, trusted, signed, by, asked) ==
  [company |-> house, role |-> trade, level |-> rung, outcome |-> end,
   rounds |-> types, verified |-> trusted, named |-> signed, author |-> by,
   questions |-> asked]

MCReportBodies == {
  ReportOf(ca, ra, "L1", "offer", {"coding"}, TRUE, TRUE, ann, <<{ta}, {ta, tb}>>),
  ReportOf(ca, ra, "L1", "rejected", {"design"}, FALSE, FALSE, bob, <<{ta}>>),
  ReportOf(ca, rb, "custom", "offer", {"coding", "design"}, FALSE, TRUE, ann, <<{tb}>>),
  ReportOf(cb, ra, "L2", "offer", {"coding"}, FALSE, TRUE, bob, <<{ta}, {}>>)}

VARIABLE part   \* the component this behaviour is of

mcVars == <<part, draftFormVars, comboVars, ladderVars, filterVars,
                 triageVars, roundsVars, queueVars, conversationVars, catalogVars>>

\* The types of the module the behaviour is of.
TypeOK ==
  CASE part = "draftForm" -> FormTypeOK
    [] part = "combobox" -> ComboTypeOK
    [] part = "ladder" -> LadderTypeOK
    [] part = "filters" -> FiltersTypeOK
    [] part = "triage" -> TriageTypeOK
    [] part = "rounds" -> RoundsTypeOK
    [] part = "queue" -> QueueTypeOK
    [] part = "conversation" -> ConversationTypeOK
    [] part = "catalog" -> CatalogTypeOK

\* Where a module has several initial states, the behaviours of the
\* others begin in one of them.
MCInit ==
  /\ part \in Parts
  /\ FormInit
  /\ ComboInit
  /\ LadderInit
  /\ FiltersInit
  /\ TriageInit
  /\ RoundsInit
  /\ QueueInit
  /\ ConversationInit
  /\ CatalogInit
  /\ part # "combobox" => suggests /\ clears
  /\ part # "ladder" => company = NoCompany
  /\ part # "conversation" => ~collapsed

DraftFormStep ==
  /\ part = "draftForm" /\ FormNext
  /\ UNCHANGED <<part, comboVars, ladderVars, filterVars, triageVars,
                 roundsVars, queueVars, conversationVars, catalogVars>>

ComboboxStep ==
  /\ part = "combobox" /\ ComboNext
  /\ UNCHANGED <<part, draftFormVars, ladderVars, filterVars, triageVars,
                 roundsVars, queueVars, conversationVars, catalogVars>>

LadderStep ==
  /\ part = "ladder" /\ LadderNext
  /\ UNCHANGED <<part, draftFormVars, comboVars, filterVars, triageVars,
                 roundsVars, queueVars, conversationVars, catalogVars>>

FiltersStep ==
  /\ part = "filters" /\ FiltersNext
  /\ UNCHANGED <<part, draftFormVars, comboVars, ladderVars, triageVars,
                 roundsVars, queueVars, conversationVars, catalogVars>>

TriageStep ==
  /\ part = "triage" /\ TriageNext
  /\ UNCHANGED <<part, draftFormVars, comboVars, ladderVars, filterVars,
                 roundsVars, queueVars, conversationVars, catalogVars>>

RoundsStep ==
  /\ part = "rounds" /\ RoundsNext
  /\ UNCHANGED <<part, draftFormVars, comboVars, ladderVars, filterVars,
                 triageVars, queueVars, conversationVars, catalogVars>>

QueueStep ==
  /\ part = "queue" /\ QueueNext
  /\ UNCHANGED <<part, draftFormVars, comboVars, ladderVars, filterVars,
                 triageVars, roundsVars, conversationVars, catalogVars>>

ConversationStep ==
  /\ part = "conversation" /\ ConversationNext
  /\ UNCHANGED <<part, draftFormVars, comboVars, ladderVars, filterVars,
                 triageVars, roundsVars, queueVars, catalogVars>>

CatalogStep ==
  /\ part = "catalog" /\ CatalogNext
  /\ UNCHANGED <<part, draftFormVars, comboVars, ladderVars, filterVars,
                 triageVars, roundsVars, queueVars, conversationVars>>

MCNext ==
  \/ DraftFormStep \/ ComboboxStep \/ LadderStep \/ FiltersStep
  \/ TriageStep \/ RoundsStep \/ QueueStep \/ ConversationStep
  \/ CatalogStep

MCSpec == MCInit /\ [][MCNext]_mcVars

-----------------------------------------------------------------------------
(* Every link of a filtered list keeps the other filters (filter-bar.tsx,  *)
(* url.ts).  This property and the next two are looked at where their      *)
(* component moves: evaluating them is most of the run's work.             *)
LinksKeepThroughout == part = "filters" => LinksKeepTheRest

(* The pages and the lists that link to them agree (browse.ts, the pages   *)
(* under app/).                                                            *)
ShelvesAgreeThroughout == part = "catalog" => ShelvesAgree

(* The sitemap lists the canonical pages and only those (sitemap.ts).      *)
SitemapStaysCanonical == part = "catalog" => SitemapIsCanonical

=============================================================================
