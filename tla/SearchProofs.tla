------------------------------ MODULE SearchProofs ------------------------------
(***************************************************************************)
(* Theorems about the index-typesense consumer and the backfill, for any   *)
(* reports, cells, bodies, events, batches and bridge.                     *)
(***************************************************************************)
EXTENDS SearchWorker, OutboxConsumerProofs

-----------------------------------------------------------------------------
(* Type correctness.                                                       *)

Handling == {"read", "children", "write", "mark"}

IndexTypeOK ==
  /\ index \in [Reports -> Document \cup {NoDocument}]
  /\ draft \in [Workers -> Document \cup {NoDocument}]
  /\ imported \in SUBSET Reports
  /\ listed \in SUBSET Reports
  /\ reading \in Reports \cup {NoReport}
  /\ partial \in Document \cup {NoDocument}
  /\ DOMAIN batch \subseteq Reports
  /\ \A r \in DOMAIN batch : batch[r] \in Document

\* Whoever reads children has read the row they belong to.
HasHead ==
  /\ \A w \in Workers : pc[w] = "children" => draft[w] \in Document
  /\ reading # NoReport => partial \in Document

TypeInv == QueueInv(Phases, Handling) /\ IndexTypeOK /\ HasHead

\* The phases of a projection.
LEMMA PhasesAreFit == PhasesFit(Phases, Handling)
BY DEF PhasesFit, Phases, Handling

\* The inductive invariant is the type invariant, and more.
LEMMA TypeInvIsTypeOK == TypeInv => TypeOK
BY DEF TypeInv, QueueInv, IndexTypeOK, TypeOK

\* The row of a visible report makes a document.
LEMMA HeadingIsDocument ==
  ASSUME FeedTypeOK, NEW r \in Reports, content[r] # Hidden
  PROVE  /\ Heading(r) \in Document
         /\ Heading(r).children = content[r].body
<1>1. content[r] \in Visible
  BY DEF FeedTypeOK
<1> QED
  BY <1>1 DEF Visible, Heading, Document

\* So does a document with other children.
LEMMA ChildrenKeepDocument ==
  ASSUME FeedTypeOK, NEW r \in Reports, NEW d \in Document, NEW b \in Children(r)
  PROVE  [d EXCEPT !.children = b] \in Document
<1>1. b \in Bodies
  <2>1. CASE content[r] = Hidden
    BY <2>1 DEF Children
  <2>2. CASE content[r] # Hidden
    <3>1. content[r] \in Visible
      BY <2>2 DEF FeedTypeOK
    <3> QED
      BY <2>2, <3>1 DEF Children, Visible
  <2> QED
    BY <2>1, <2>2
<1> QED
  BY <1>1 DEF Document

\* A worker that has an event has a report.
LEMMA ReportOfIsReport ==
  ASSUME TypeInv, NEW w \in Workers, pc[w] \in Handling
  PROVE  ReportOf(w) \in Reports
BY EventIdsArePairs DEF TypeInv, QueueInv, Committed, ReportOf

\* Nothing is indexed and nothing is under way.
LEMMA InitTypeInv == Init => TypeInv
<1> SUFFICES ASSUME Init PROVE TypeInv
  OBVIOUS
<1>1. QueueInv(Phases, Handling)
  BY InitQueueInv, PhasesAreFit DEF Init
<1>2. DOMAIN batch = {}
  BY DEF Init
<1>3. IndexTypeOK /\ HasHead
  BY <1>2 DEF Init, ConsumerInit, IndexTypeOK, HasHead
<1> QED
  BY <1>1, <1>3 DEF TypeInv

\* Every step of a projection keeps the types.
LEMMA ProjectKeepsTypeInv == ASSUME TypeInv, NEW w \in Workers, Project(w) PROVE TypeInv'
<1>0. /\ QueueInv(Phases, Handling) /\ IndexTypeOK /\ HasHead
      /\ PhasesFit(Phases, Handling) /\ FeedTypeOK /\ pc \in [Workers -> Phases]
  BY PhasesAreFit DEF TypeInv, QueueInv, JobTypeOK
<1>1. CASE ReadHead(w)
  <2>1. ReportOf(w) \in Reports
    BY <1>1, ReportOfIsReport DEF ReadHead, Handling
  <2>2. \/ /\ pc' = [pc EXCEPT ![w] = "write"]
           /\ draft' = [draft EXCEPT ![w] = NoDocument]
        \/ /\ pc' = [pc EXCEPT ![w] = "children"]
           /\ draft' = [draft EXCEPT ![w] = Heading(ReportOf(w))]
           /\ Heading(ReportOf(w)) \in Document
    BY <1>0, <1>1, <2>1, HeadingIsDocument DEF ReadHead
  <2>3. QueueInv(Phases, Handling)'
    BY <1>0, <1>1, <2>2, HandlerKeepsQueue DEF ReadHead, Handling
  <2>4. UNCHANGED <<index, imported, listed, reading, partial, batch>>
    BY <1>1 DEF ReadHead, backfillVars
  <2>5. IndexTypeOK' /\ HasHead'
    BY <1>0, <2>2, <2>4 DEF IndexTypeOK, HasHead
  <2> QED
    BY <2>3, <2>5 DEF TypeInv
<1>2. CASE ReadChildren(w)
  <2>1. ReportOf(w) \in Reports /\ draft[w] \in Document
    BY <1>0, <1>2, ReportOfIsReport DEF ReadChildren, Handling, HasHead
  <2>2. PICK b \in Children(ReportOf(w)) :
          draft' = [draft EXCEPT ![w] = [draft[w] EXCEPT !.children = b]]
    BY <1>2 DEF ReadChildren
  <2>3. [draft[w] EXCEPT !.children = b] \in Document
    BY <1>0, <2>1, ChildrenKeepDocument
  <2>4. QueueInv(Phases, Handling)'
    BY <1>0, <1>2, HandlerKeepsQueue DEF ReadChildren, Handling
  <2>5. /\ pc' = [pc EXCEPT ![w] = "write"]
        /\ UNCHANGED <<index, imported, listed, reading, partial, batch>>
    BY <1>2 DEF ReadChildren, backfillVars
  <2>6. IndexTypeOK' /\ HasHead'
    BY <1>0, <2>2, <2>3, <2>5 DEF IndexTypeOK, HasHead
  <2> QED
    BY <2>4, <2>6 DEF TypeInv
<1>3. CASE Write(w)
  <2>1. ReportOf(w) \in Reports
    BY <1>3, ReportOfIsReport DEF Write, Handling
  <2>2. QueueInv(Phases, Handling)'
    BY <1>0, <1>3, HandlerKeepsQueue DEF Write, Handling
  <2>3. IndexTypeOK' /\ HasHead'
    BY <1>0, <1>3, <2>1 DEF Write, backfillVars, IndexTypeOK, HasHead
  <2> QED
    BY <2>2, <2>3 DEF TypeInv
<1>4. CASE Mark(w)
  <2>1. QueueInv(Phases, Handling)'
    BY <1>0, <1>4, StampKeepsQueue DEF Mark
  <2>2. IndexTypeOK' /\ HasHead'
    BY <1>0, <1>4 DEF Mark, Stamp, searchVars, backfillVars, IndexTypeOK, HasHead
  <2> QED
    BY <2>1, <2>2 DEF TypeInv
<1> QED
  BY <1>1, <1>2, <1>3, <1>4 DEF Project

\* A part of a batch is imported.
LEMMA ImportKeepsTypes ==
  ASSUME IndexTypeOK, NEW D \in SUBSET DOMAIN batch, Imported(D)
  PROVE  /\ index' \in [Reports -> Document \cup {NoDocument}]
         /\ imported' \in SUBSET Reports
<1>1. /\ index' = [r \in Reports |-> IF r \in D THEN batch[r] ELSE index[r]]
      /\ imported' = imported \cup D
  BY DEF Imported
<1>2. \A r \in Reports :
        (IF r \in D THEN batch[r] ELSE index[r]) \in Document \cup {NoDocument}
  BY DEF IndexTypeOK
<1> QED
  BY <1>1, <1>2 DEF IndexTypeOK

\* Every step of the backfill keeps the types.
LEMMA BackfillKeepsTypeInv == ASSUME TypeInv, Backfill PROVE TypeInv'
<1>0. QueueInv(Phases, Handling) /\ IndexTypeOK /\ HasHead /\ FeedTypeOK
  BY DEF TypeInv, QueueInv
<1>1. UNCHANGED <<feedVars, consumerVars, draft>>
  BY DEF Backfill, StartBackfill, BackfillHead, BackfillChildren, Import
<1>2. QueueInv(Phases, Handling)' /\ pc' = pc
  BY <1>0, <1>1, QueueUntouched DEF consumerVars
<1>3. CASE StartBackfill
  BY <1>0, <1>1, <1>2, <1>3 DEF StartBackfill, TypeInv, IndexTypeOK, HasHead
<1>4. CASE \E r \in Reports : BackfillHead(r)
  <2>1. PICK r \in Reports : BackfillHead(r)
    BY <1>4
  <2>2. \/ listed' = listed \ {r} /\ UNCHANGED <<reading, partial>>
        \/ /\ reading' = r /\ partial' = Heading(r) /\ UNCHANGED listed
           /\ Heading(r) \in Document
    BY <1>0, <2>1, HeadingIsDocument DEF BackfillHead
  <2>3. UNCHANGED <<index, imported, batch>>
    BY <2>1 DEF BackfillHead
  <2> QED
    BY <1>0, <1>1, <1>2, <2>2, <2>3 DEF TypeInv, IndexTypeOK, HasHead
<1>5. CASE BackfillChildren
  <2>1. reading \in Reports /\ partial \in Document
    BY <1>0, <1>5 DEF BackfillChildren, IndexTypeOK, HasHead
  <2>2. PICK b \in Children(reading) :
          batch' = [r \in DOMAIN batch \cup {reading} |->
                      IF r = reading THEN [partial EXCEPT !.children = b] ELSE batch[r]]
    BY <1>5 DEF BackfillChildren
  <2>3. [partial EXCEPT !.children = b] \in Document
    BY <1>0, <2>1, ChildrenKeepDocument
  <2>4. DOMAIN batch' \subseteq Reports /\ \A r \in DOMAIN batch' : batch'[r] \in Document
    BY <1>0, <2>1, <2>2, <2>3 DEF IndexTypeOK
  <2>5. /\ listed' = listed \ {reading} /\ reading' = NoReport /\ partial' = NoDocument
        /\ UNCHANGED <<index, imported>>
    BY <1>5 DEF BackfillChildren
  <2>6. IndexTypeOK' /\ HasHead'
    BY <1>0, <1>1, <1>2, <2>4, <2>5 DEF IndexTypeOK, HasHead
  <2> QED
    BY <1>2, <2>6 DEF TypeInv
<1>6. CASE Import
  <2>1. /\ Imported(DOMAIN batch) /\ DOMAIN batch' = {}
        /\ UNCHANGED <<listed, reading, partial>>
    BY <1>6 DEF Import
  <2>2. /\ index' \in [Reports -> Document \cup {NoDocument}]
        /\ imported' \in SUBSET Reports
    BY <1>0, <2>1, ImportKeepsTypes
  <2>3. IndexTypeOK' /\ HasHead'
    BY <1>0, <1>1, <1>2, <2>1, <2>2 DEF IndexTypeOK, HasHead
  <2> QED
    BY <1>2, <2>3 DEF TypeInv
<1> QED
  BY <1>3, <1>4, <1>5, <1>6 DEF Backfill

\* A backfill that fails keeps what it has imported and forgets the rest.
LEMMA AbortKeepsTypeInv == ASSUME TypeInv, AbortBackfill PROVE TypeInv'
<1>0. QueueInv(Phases, Handling) /\ IndexTypeOK /\ HasHead
  BY DEF TypeInv
<1>1. /\ failures' \in 0 .. MaxFailures
      /\ UNCHANGED <<content, unannounced, log, pending, pc, ev, todo, onJob, jobs, heard,
                     draft>>
  BY MaxFailuresAssumption
     DEF AbortBackfill, TypeInv, QueueInv, JobTypeOK, feedVars, queueVars
<1>2. QueueInv(Phases, Handling)'
  BY <1>0, <1>1 DEF QueueInv, JobTypeOK, FeedTypeOK, OutboxTypeOK, Committed
<1>3. PICK D \in SUBSET DOMAIN batch : Imported(D)
  BY DEF AbortBackfill
<1>4. /\ index' \in [Reports -> Document \cup {NoDocument}]
      /\ imported' \in SUBSET Reports
  BY <1>0, <1>3, ImportKeepsTypes
<1>5. /\ listed' = {} /\ reading' = NoReport /\ partial' = NoDocument
      /\ DOMAIN batch' = {}
  BY DEF AbortBackfill
<1>6. IndexTypeOK' /\ HasHead'
  BY <1>0, <1>1, <1>4, <1>5 DEF IndexTypeOK, HasHead
<1> QED
  BY <1>2, <1>6 DEF TypeInv

\* Every step of the consumer and of the backfill keeps the types.
LEMMA NextKeepsTypeInv == ASSUME TypeInv, [Next]_vars PROVE TypeInv'
<1>0. /\ QueueInv(Phases, Handling) /\ IndexTypeOK /\ HasHead
      /\ PhasesFit(Phases, Handling) /\ pc \in [Workers -> Phases]
  BY PhasesAreFit DEF TypeInv, QueueInv, JobTypeOK
<1>1. CASE ReportsChange
  <2>1. QueueInv(Phases, Handling)'
    BY <1>0, <1>1, ProduceKeepsQueue DEF ReportsChange, workerVars
  <2>2. IndexTypeOK' /\ HasHead'
    BY <1>0, <1>1 DEF ReportsChange, workerVars, searchVars, backfillVars, consumerVars,
       IndexTypeOK, HasHead
  <2> QED
    BY <2>1, <2>2 DEF TypeInv
<1>2. CASE Hear
  <2>1. QueueInv(Phases, Handling)'
    BY <1>0, <1>2, NotifyKeepsQueue DEF Hear
  <2>2. IndexTypeOK' /\ HasHead'
    BY <1>0, <1>2 DEF Hear, Notify, jobVars, searchVars, backfillVars, IndexTypeOK, HasHead
  <2> QED
    BY <2>1, <2>2 DEF TypeInv
<1>3. CASE \E w \in Workers : Begin(w)
  <2>1. PICK w \in Workers : Begin(w)
    BY <1>3
  <2>2. QueueInv(Phases, Handling)'
    BY <1>0, <2>1, StartKeepsQueue DEF Begin
  <2>3. \E p \in {"next", "read"} : pc' = [pc EXCEPT ![w] = p]
    BY <2>1 DEF Begin, Start, StartSweep, Take, StartEventJob, Handle
  <2>4. IndexTypeOK' /\ HasHead'
    BY <1>0, <2>1, <2>3 DEF Begin, searchVars, backfillVars, IndexTypeOK, HasHead
  <2> QED
    BY <2>2, <2>4 DEF TypeInv
<1>4. CASE \E w \in Workers : Project(w)
  BY <1>4, ProjectKeepsTypeInv
<1>5. CASE \E w \in Workers : Crash(w)
  <2>1. QueueInv(Phases, Handling)'
    BY <1>0, <1>5, FailKeepsQueue DEF Crash
  <2>2. IndexTypeOK' /\ HasHead'
    BY <1>0, <1>5 DEF Crash, Fail, backfillVars, IndexTypeOK, HasHead
  <2> QED
    BY <2>1, <2>2 DEF TypeInv
<1>6. CASE Backfill
  BY <1>6, BackfillKeepsTypeInv
<1>7. CASE AbortBackfill
  BY <1>7, AbortKeepsTypeInv
<1>8. CASE UNCHANGED vars
  <2>1. QueueInv(Phases, Handling)'
    BY <1>0, <1>8, QueueUntouched DEF vars, workerVars
  <2>2. IndexTypeOK' /\ HasHead'
    BY <1>0, <1>8 DEF vars, workerVars, searchVars, backfillVars, consumerVars,
       IndexTypeOK, HasHead
  <2> QED
    BY <2>1, <2>2 DEF TypeInv
<1> QED
  BY <1>1, <1>2, <1>3, <1>4, <1>5, <1>6, <1>7, <1>8 DEF Next

\* What is written to the index is a document of a report, and children are only
\* ever added to the row they belong to.
THEOREM SearchTypeInv == Spec => []TypeInv
BY InitTypeInv, NextKeepsTypeInv, PTL DEF Spec

\* Every variable of the consumer and of the backfill keeps its type.
THEOREM SearchTypeOK == Spec => []TypeOK
BY SearchTypeInv, TypeInvIsTypeOK, PTL

-----------------------------------------------------------------------------
(* What is found is what is there.  SettledIsIndexed is not inductive: the    *)
(* stamp that settles a report only tells that its document is right if the   *)
(* document was right, but for that event, before; and so what the worker is  *)
(* about to write must be, for as long as the report has no other event and   *)
(* was not restored.                                                          *)

\* Report r has no unprocessed event outside of X and was not restored.
Clear(X, r) == (\A e \in pending[Mine] \ X : e[1] # r) /\ r \notin unannounced

\* What worker w has read of its report, or has written, is what is visible of
\* it, or the report has another event to come.
HoldsTheTruth(w) ==
  LET r == ReportOf(w) IN
  Clear({ev[w]}, r) =>
    /\ pc[w] = "children" => content[r] # Hidden /\ draft[w] = Heading(r)
    /\ pc[w] = "write" => draft[w] = DocumentOf(r)
    /\ pc[w] = "mark" /\ r \notin imported => index[r] = DocumentOf(r)

OneWorker == \A v, w \in Workers : v = w

IndexInv ==
  /\ TypeInv
  /\ EndedAreHidden
  /\ SettledIsIndexed
  /\ \A w \in Workers : HoldsTheTruth(w)

\* A report whose events are processed, in the words of Clear.
LEMMA SettledIsClear ==
  SettledIsIndexed <=>
    \A r \in Reports : Clear({}, r) /\ r \notin imported => index[r] = DocumentOf(r)
BY DEF SettledIsIndexed, Pending, Clear

\* Nothing is visible and nothing is indexed.
LEMMA InitIndexInv == Init => IndexInv
<1> SUFFICES ASSUME Init PROVE IndexInv
  OBVIOUS
<1>1. TypeInv
  BY InitTypeInv
<1>2. EndedAreHidden
  BY DEF Init, FeedInit, EndedAreHidden
<1>3. SettledIsIndexed
  BY DEF Init, FeedInit, SettledIsIndexed, DocumentOf
<1>4. \A w \in Workers : HoldsTheTruth(w)
  BY DEF Init, ConsumerInit, HoldsTheTruth
<1> QED
  BY <1>1, <1>2, <1>3, <1>4 DEF IndexInv

\* A report that stays clear has not changed.
LEMMA ChangeIsNotClear ==
  ASSUME FeedTypeOK, Produce, NEW r \in Reports,
         NEW X \in SUBSET (Committed \cup {NoEvent}), Clear(X, r)'
  PROVE  Clear(X, r) /\ content'[r] = content[r]
<1>0. FeedStep
  BY ProduceIsFeedStep
<1>1. (\A e \in pending'[Mine] \ X : e[1] # r) /\ r \notin unannounced'
  BY DEF Clear
<1>2. ASSUME NEW c PROVE ~ Told(r, c)
  BY <1>1, NoEventAssumption DEF Told
<1>3. content'[r] = content[r]
  BY <1>0, <1>1, <1>2 DEF FeedStep, ChangeIsTold
<1>4. Clear(X, r)
  BY <1>0, <1>1 DEF FeedStep, Clear
<1> QED
  BY <1>3, <1>4

\* The truth a worker holds changes only with a new event or a restored report.
LEMMA ReportsKeepTruth ==
  ASSUME IndexInv, ReportsChange
  PROVE  SettledIsIndexed' /\ \A w \in Workers : HoldsTheTruth(w)'
<1>0. /\ TypeInv /\ FeedTypeOK /\ Produce
      /\ UNCHANGED <<pc, ev, index, draft, imported>>
  BY DEF IndexInv, TypeInv, QueueInv, ReportsChange, workerVars, consumerVars, searchVars
<1>1. ASSUME NEW r \in Reports, NEW X \in SUBSET (Committed \cup {NoEvent}), Clear(X, r)'
      PROVE  /\ Clear(X, r) /\ content'[r] = content[r]
             /\ DocumentOf(r)' = DocumentOf(r) /\ Heading(r)' = Heading(r)
  BY <1>0, <1>1, ChangeIsNotClear DEF DocumentOf, Heading
<1>2. SettledIsIndexed'
  <2> SUFFICES ASSUME NEW r \in Reports, Clear({}, r)', r \notin imported
               PROVE  index[r] = DocumentOf(r)'
    BY <1>0 DEF SettledIsIndexed, Pending, Clear
  <2>1. Clear({}, r) /\ DocumentOf(r)' = DocumentOf(r)
    BY <1>1
  <2> QED
    BY <2>1, SettledIsClear DEF IndexInv
<1>3. ASSUME NEW w \in Workers PROVE HoldsTheTruth(w)'
  <2>1. CASE pc[w] \notin Handling
    BY <1>0, <2>1 DEF HoldsTheTruth, Handling
  <2>2. CASE pc[w] \in Handling
    <3>1. ev[w] \in Committed
      BY <1>0, <2>2 DEF TypeInv, QueueInv
    <3>2. PICK r \in Reports, X \in SUBSET (Committed \cup {NoEvent}) :
            /\ ReportOf(w) = r /\ ReportOf(w)' = r
            /\ X = {ev[w]} /\ X = {ev'[w]}
      BY <1>0, <2>2, <3>1, ReportOfIsReport DEF ReportOf
    <3>3. HoldsTheTruth(w)
      BY DEF IndexInv
    <3>4. Clear(X, r)' =>
            /\ Clear(X, r) /\ content'[r] = content[r]
            /\ DocumentOf(r)' = DocumentOf(r) /\ Heading(r)' = Heading(r)
      BY <1>1
    <3>5. Clear({ev[w]}, ReportOf(w))' => Clear(X, r)'
      BY <3>2 DEF Clear
    <3>6. Clear({ev[w]}, ReportOf(w))' =>
            /\ pc'[w] = "children" => content'[r] # Hidden /\ draft'[w] = Heading(r)'
            /\ pc'[w] = "write" => draft'[w] = DocumentOf(r)'
            /\ pc'[w] = "mark" /\ r \notin imported' => index'[r] = DocumentOf(r)'
      BY <1>0, <3>2, <3>3, <3>4, <3>5 DEF HoldsTheTruth
    <3> QED
      BY <3>2, <3>6 DEF HoldsTheTruth, Heading, DocumentOf
  <2> QED
    BY <2>1, <2>2
<1> QED
  BY <1>2, <1>3

\* What is visible, and what is clear, depends on the reports and events alone.
LEMMA SameReportsSameTruth ==
  ASSUME UNCHANGED feedVars
  PROVE  /\ \A X, r : Clear(X, r)' <=> Clear(X, r)
         /\ \A r : Heading(r)' = Heading(r) /\ DocumentOf(r)' = DocumentOf(r)
         /\ EndedAreHidden' <=> EndedAreHidden
BY DEF feedVars, Clear, Heading, DocumentOf, EndedAreHidden, Ended

\* A step that leaves the reports, the index and the worker's hands alone.
LEMMA NothingIndexed ==
  ASSUME IndexInv, UNCHANGED <<feedVars, index, imported>>
  PROVE  SettledIsIndexed' /\ EndedAreHidden'
<1>1. \A r \in Reports : Pending(r)' <=> Pending(r)
  BY DEF Pending, feedVars
<1>2. unannounced' = unannounced
  BY DEF feedVars
<1> QED
  BY <1>1, <1>2, SameReportsSameTruth DEF IndexInv, SettledIsIndexed

\* A worker that has read nothing yet has nothing to be wrong about.
LEMMA IdleHoldsTheTruth ==
  ASSUME NEW w \in Workers, pc'[w] \in {"idle", "next", "read"}
  PROVE  HoldsTheTruth(w)'
BY DEF HoldsTheTruth

\* The row and the children are the truth of the moment they are read.
LEMMA ReadsKeepTruth ==
  ASSUME IndexInv, NEW w \in Workers, ReadHead(w) \/ ReadChildren(w)
  PROVE  HoldsTheTruth(w)'
<1>0. /\ TypeInv /\ EndedAreHidden /\ HoldsTheTruth(w) /\ pc[w] \in Handling
      /\ UNCHANGED <<feedVars, ev, index, imported>>
  BY DEF IndexInv, ReadHead, ReadChildren, Handling
<1>1. PICK r \in Reports, X \in SUBSET (Committed \cup {NoEvent}) :
        /\ ReportOf(w) = r /\ ReportOf(w)' = r
        /\ X = {ev[w]} /\ X = {ev'[w]}
  <2>1. ev[w] \in Committed
    BY <1>0 DEF TypeInv, QueueInv
  <2> QED
    BY <1>0, <2>1, ReportOfIsReport DEF ReportOf
<1>2. /\ FeedTypeOK /\ OutboxTypeOK /\ pc \in [Workers -> Phases]
      /\ draft \in [Workers -> Document \cup {NoDocument}]
      /\ ev[w] \in Committed
  BY <1>0 DEF TypeInv, QueueInv, JobTypeOK, IndexTypeOK, FeedTypeOK
<1>3. Clear({ev[w]}, ReportOf(w))' <=> Clear(X, r)
  BY <1>0, <1>1 DEF Clear, feedVars
<1>4. ASSUME Clear(X, r)
      PROVE  /\ pc'[w] = "children" => content[r] # Hidden /\ draft'[w] = Heading(r)
             /\ pc'[w] = "write" => draft'[w] = DocumentOf(r)
  <2>1. CASE ReadHead(w)
    <3> DEFINE drop == EventOf(ev[w]).op = "deleted" \/ content[r] = Hidden
    <3>1. /\ draft'[w] = IF drop THEN NoDocument ELSE Heading(r)
          /\ pc'[w] = IF drop THEN "write" ELSE "children"
      BY <1>1, <1>2, <2>1 DEF ReadHead
    <3>2. EventOf(ev[w]).op = "deleted" => content[r] = Hidden
      <4> SUFFICES ASSUME EventOf(ev[w]).op = "deleted" PROVE Ended(r)
        BY <1>0, <1>4 DEF Clear, EndedAreHidden
      <4>1. PICK e \in Committed : e = ev[w]
        BY <1>2
      <4>2. e[1] = r /\ e[2] \in 1 .. MaxLog /\ e[2] <= Len(log[r])
        BY <1>1, <4>1, EventIdsArePairs DEF Committed, ReportOf
      <4>3. log[r] \in Seq(Event)
        BY <1>2 DEF OutboxTypeOK
      <4>4. e[2] \in 1 .. Len(log[r])
        BY <4>2, <4>3, MaxLogAssumption
      <4>5. log[r][e[2]].op = "deleted"
        BY <4>1, <4>2 DEF EventOf
      <4> QED
        BY <4>4, <4>5 DEF Ended
    <3> QED
      BY <3>1, <3>2 DEF DocumentOf
  <2>2. CASE ReadChildren(w)
    <3>1. content[r] # Hidden /\ draft[w] = Heading(r)
      BY <1>0, <1>1, <1>4, <2>2 DEF ReadChildren, HoldsTheTruth
    <3>2. PICK b \in Children(r) :
            draft' = [draft EXCEPT ![w] = [draft[w] EXCEPT !.children = b]]
      BY <1>1, <2>2 DEF ReadChildren
    <3>3. draft'[w] = [Heading(r) EXCEPT !.children = b] /\ pc'[w] = "write"
      BY <1>2, <2>2, <3>1, <3>2 DEF ReadChildren
    <3>4. b = content[r].body
      BY <3>1, <3>2 DEF Children
    <3>5. draft'[w] = Heading(r)
      BY <3>3, <3>4 DEF Heading
    <3> QED
      BY <3>1, <3>3, <3>5 DEF DocumentOf
  <2> QED
    BY <2>1, <2>2
<1>5. pc'[w] \in {"children", "write"}
  BY <1>2 DEF ReadHead, ReadChildren
<1>6. Heading(r)' = Heading(r) /\ DocumentOf(r)' = DocumentOf(r) /\ content' = content
  BY <1>0, SameReportsSameTruth DEF feedVars
<1> QED
  BY <1>1, <1>3, <1>4, <1>5, <1>6 DEF HoldsTheTruth, Heading, DocumentOf

\* The document that is written is right unless another event will follow.
LEMMA WriteKeepsTruth ==
  ASSUME IndexInv, NEW w \in Workers, Write(w)
  PROVE  SettledIsIndexed' /\ EndedAreHidden' /\ HoldsTheTruth(w)'
<1>0. /\ TypeInv /\ EndedAreHidden /\ HoldsTheTruth(w) /\ pc[w] = "write"
      /\ UNCHANGED <<feedVars, ev>>
  BY DEF IndexInv, Write
<1>1. PICK r \in Reports, X \in {{ev[w]}} : ReportOf(w) = r /\ ReportOf(w)' = r
                              /\ X = {ev[w]} /\ X = {ev'[w]}
  BY <1>0, ReportOfIsReport DEF ReportOf, Handling
<1>2. /\ index' = [index EXCEPT ![r] = draft[w]] /\ imported' = imported \ {r}
      /\ pc'[w] = "mark" /\ DOMAIN index = Reports
  BY <1>0, <1>1 DEF Write, TypeInv, QueueInv, JobTypeOK, IndexTypeOK
<1>3. Clear(X, r) => index'[r] = DocumentOf(r)
  BY <1>0, <1>1, <1>2 DEF HoldsTheTruth
<1>4. SettledIsIndexed'
  <2> SUFFICES ASSUME NEW x \in Reports, Clear({}, x), x \notin imported'
               PROVE  index'[x] = DocumentOf(x)
    BY <1>0, SameReportsSameTruth DEF SettledIsIndexed, Pending, Clear, feedVars
  <2>1. CASE x = r
    BY <1>3, <2>1 DEF Clear
  <2>2. CASE x # r
    BY <1>2, <2>2, SettledIsClear DEF IndexInv
  <2> QED
    BY <2>1, <2>2
<1>5. HoldsTheTruth(w)'
  <2>1. Clear({ev[w]}, ReportOf(w))' <=> Clear(X, r)
    BY <1>0, <1>1 DEF Clear, feedVars
  <2>2. DocumentOf(ReportOf(w))' = DocumentOf(r)
    BY <1>0, <1>1 DEF DocumentOf, Heading, feedVars
  <2> QED
    BY <1>1, <1>2, <1>3, <2>1, <2>2 DEF HoldsTheTruth
<1> QED
  BY <1>0, <1>4, <1>5, SameReportsSameTruth

\* Stamping an event settles no report whose document is wrong.
LEMMA MarkKeepsTruth ==
  ASSUME IndexInv, NEW w \in Workers, Mark(w)
  PROVE  SettledIsIndexed' /\ EndedAreHidden' /\ HoldsTheTruth(w)'
<1>0. /\ TypeInv /\ EndedAreHidden /\ HoldsTheTruth(w) /\ pc[w] = "mark"
      /\ UNCHANGED <<log, content, unannounced, index, imported>>
      /\ pending' = [pending EXCEPT ![Mine] = @ \ {ev[w]}]
      /\ pc'[w] \in {"idle", "next"}
  BY DEF IndexInv, TypeInv, QueueInv, JobTypeOK, Mark, Stamp, MarkEventProcessed, searchVars
<1>1. pending'[Mine] = pending[Mine] \ {ev[w]}
  BY <1>0, MineAssumption DEF TypeInv, QueueInv, FeedTypeOK, OutboxTypeOK
<1>2. SettledIsIndexed'
  <2> SUFFICES ASSUME NEW r \in Reports, \A e \in pending'[Mine] : e[1] # r,
                      r \notin unannounced, r \notin imported
               PROVE  index[r] = DocumentOf(r)
    BY <1>0 DEF SettledIsIndexed, Pending, DocumentOf, Heading
  <2>1. Clear({ev[w]}, r)
    BY <1>1 DEF Clear
  <2>2. CASE r = ReportOf(w)
    BY <1>0, <2>1, <2>2 DEF HoldsTheTruth
  <2>3. CASE r # ReportOf(w)
    <3>1. Clear({}, r)
      BY <1>1, <2>1, <2>3 DEF Clear, ReportOf
    <3> QED
      BY <3>1, SettledIsClear DEF IndexInv
  <2> QED
    BY <2>2, <2>3
<1>3. EndedAreHidden'
  BY <1>0 DEF EndedAreHidden, Ended
<1> QED
  BY <1>0, <1>2, <1>3, IdleHoldsTheTruth

\* The backfill takes over the reports it writes.
LEMMA BackfillKeepsTruth ==
  ASSUME IndexInv, Backfill \/ AbortBackfill
  PROVE  SettledIsIndexed' /\ EndedAreHidden' /\ \A w \in Workers : HoldsTheTruth(w)'
<1>0. /\ TypeInv /\ DOMAIN index = Reports
      /\ UNCHANGED <<feedVars, pc, ev, draft>>
  BY DEF IndexInv, TypeInv, IndexTypeOK, Backfill, StartBackfill, BackfillHead,
     BackfillChildren, Import, AbortBackfill, consumerVars
<1>1. \A r \in Reports : r \notin imported' => r \notin imported /\ index'[r] = index[r]
  BY <1>0 DEF Backfill, StartBackfill, BackfillHead, BackfillChildren, Import,
     AbortBackfill, Imported
<1>2. SettledIsIndexed'
  <2> SUFFICES ASSUME NEW r \in Reports, Clear({}, r), r \notin imported'
               PROVE  index'[r] = DocumentOf(r)
    BY <1>0, SameReportsSameTruth DEF SettledIsIndexed, Pending, Clear, feedVars
  <2> QED
    BY <1>1, SettledIsClear DEF IndexInv
<1>3. ASSUME NEW w \in Workers PROVE HoldsTheTruth(w)'
  <2>1. CASE pc[w] \in Handling
    <3>1. PICK r \in Reports, X \in {{ev[w]}} : ReportOf(w) = r /\ ReportOf(w)' = r
                                  /\ X = {ev[w]} /\ X = {ev'[w]}
      BY <1>0, <2>1, ReportOfIsReport DEF ReportOf
    <3>2. Clear({ev[w]}, ReportOf(w))' <=> Clear(X, r)
      BY <1>0, <3>1 DEF Clear, feedVars
    <3>3. Heading(ReportOf(w))' = Heading(r) /\ DocumentOf(ReportOf(w))' = DocumentOf(r)
      BY <1>0, <3>1 DEF DocumentOf, Heading, feedVars
    <3> QED
      BY <1>0, <1>1, <3>1, <3>2, <3>3 DEF IndexInv, HoldsTheTruth, feedVars
  <2>2. CASE pc[w] \notin Handling
    BY <1>0, <2>2 DEF HoldsTheTruth, Handling
  <2> QED
    BY <2>1, <2>2
<1> QED
  BY <1>0, <1>2, <1>3, SameReportsSameTruth DEF IndexInv

\* Every step of a lone worker, of the backfill and of the reports keeps the
\* index right.
LEMMA NextKeepsIndexInv ==
  ASSUME IndexInv, [Next]_vars, OneWorker
  PROVE  IndexInv'
<1>0. TypeInv'
  BY NextKeepsTypeInv DEF IndexInv
<1>1. CASE ReportsChange
  <2>1. EndedAreHidden'
    BY <1>1, ProduceIsFeedStep DEF ReportsChange, IndexInv, TypeInv, QueueInv, FeedStep
  <2> QED
    BY <1>0, <1>1, <2>1, ReportsKeepTruth DEF IndexInv
<1>2. CASE \E w \in Workers : Begin(w) \/ Crash(w)
  <2>1. PICK w \in Workers : Begin(w) \/ Crash(w)
    BY <1>2
  <2>2. /\ UNCHANGED <<feedVars, index, imported>>
        /\ pc'[w] \in {"idle", "next", "read"}
    BY <2>1 DEF IndexInv, TypeInv, QueueInv, JobTypeOK, Begin, Start, StartSweep, Take,
       StartEventJob, Handle, Crash, Fail, searchVars
  <2>3. \A v \in Workers : v = w
    BY DEF OneWorker
  <2> QED
    BY <1>0, <2>2, <2>3, NothingIndexed, IdleHoldsTheTruth DEF IndexInv
<1>3. CASE \E w \in Workers : ReadHead(w) \/ ReadChildren(w)
  <2>1. PICK w \in Workers : ReadHead(w) \/ ReadChildren(w)
    BY <1>3
  <2>2. UNCHANGED <<feedVars, index, imported>>
    BY <2>1 DEF ReadHead, ReadChildren
  <2>3. \A v \in Workers : v = w
    BY DEF OneWorker
  <2> QED
    BY <1>0, <2>1, <2>2, <2>3, NothingIndexed, ReadsKeepTruth DEF IndexInv
<1>4. CASE \E w \in Workers : Write(w) \/ Mark(w)
  <2>1. PICK w \in Workers : Write(w) \/ Mark(w)
    BY <1>4
  <2>2. \A v \in Workers : v = w
    BY DEF OneWorker
  <2> QED
    BY <1>0, <2>1, <2>2, WriteKeepsTruth, MarkKeepsTruth DEF IndexInv
<1>5. CASE Backfill \/ AbortBackfill
  BY <1>0, <1>5, BackfillKeepsTruth DEF IndexInv
<1>6. CASE Hear \/ UNCHANGED vars
  <2>1. UNCHANGED <<feedVars, pc, ev, index, draft, imported>>
    BY <1>6 DEF Hear, Notify, jobVars, searchVars, vars, workerVars, consumerVars
  <2>2. ASSUME NEW w \in Workers PROVE HoldsTheTruth(w)'
    BY <2>1 DEF IndexInv, HoldsTheTruth, ReportOf, Clear, Heading, DocumentOf, feedVars
  <2> QED
    BY <1>0, <2>1, <2>2, NothingIndexed DEF IndexInv
<1> QED
  BY <1>1, <1>2, <1>3, <1>4, <1>5, <1>6 DEF Next, Project

\* With one worker, a report whose events are processed is found exactly as it is
\* visible, and not at all if it is hidden or deleted, except where the backfill
\* wrote last or a moderator restored: for any number of reports and events, in
\* any order, and wherever jobs die.
THEOREM SearchSettledIsIndexed ==
  ASSUME OneWorker
  PROVE  Spec => []SettledIsIndexed
<1>1. IndexInv /\ [Next]_vars => IndexInv'
  BY NextKeepsIndexInv
<1>2. IndexInv => SettledIsIndexed
  BY DEF IndexInv
<1> QED
  BY <1>1, <1>2, InitIndexInv, PTL DEF Spec

=============================================================================
