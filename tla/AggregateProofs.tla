----------------------------- MODULE AggregateProofs -----------------------------
(***************************************************************************)
(* Theorems about the refresh-aggregate consumer and the daily rebuild,    *)
(* for any reports, cells, bodies, roles, events and bridge.               *)
(***************************************************************************)
EXTENDS AggregateReconcile, OutboxConsumerProofs

-----------------------------------------------------------------------------
(* Type correctness.                                                       *)

Handling == {"read", "detail", "write", "mark"}

\* The queue, and the rows the refreshes write and the figures they hold.
RefreshTypeOK ==
  /\ agg \in [Keys -> [head : Inputs, detail : Inputs]]
  /\ grain \in [Workers -> {"cell", "role"}]
  /\ head \in [Workers -> Inputs]
  /\ detail \in [Workers -> Inputs]

TypeInv == QueueInv(Phases, Handling) /\ RefreshTypeOK

\* The phases of a refresh.
LEMMA PhasesAreFit == PhasesFit(Phases, Handling)
BY DEF PhasesFit, Phases, Handling

\* The inductive invariant is the type invariant, and more.
LEMMA TypeInvIsTypeOK == TypeInv => TypeOK
BY DEF TypeInv, QueueInv, RefreshTypeOK, TypeOK

\* What a statement reads is a set of pairs of a report and its body.
LEMMA CountedIsInput ==
  ASSUME FeedTypeOK, NEW k
  PROVE  Counted(k) \in Inputs
<1>1. ASSUME NEW r \in Live(k) PROVE <<r, content[r].body>> \in Reports \X Bodies
  <2>1. r \in Reports /\ content[r] # Hidden
    BY DEF Live
  <2>2. content[r] \in Visible
    BY <2>1 DEF FeedTypeOK
  <2> QED
    BY <2>1, <2>2 DEF Visible
<1> QED
  BY <1>1 DEF Counted, Inputs

\* A worker that has an event refreshes the row of its cell or of its role.
LEMMA KeyOfIsKey ==
  ASSUME TypeInv, NEW w \in Workers, pc[w] \in Handling
  PROVE  /\ EventOf(ev[w]).cell \in Cells
         /\ RoleOf[EventOf(ev[w]).cell] \in Roles
         /\ KeyOf(w) \in KeysOf(EventOf(ev[w]).cell)
         /\ KeysOf(EventOf(ev[w]).cell) \subseteq Keys
<1>1. ev[w] \in Committed /\ OutboxTypeOK
  BY DEF TypeInv, QueueInv, FeedTypeOK
<1>2. EventOf(ev[w]).cell \in Cells
  BY <1>1, CommittedHasRow DEF Event
<1> QED
  BY <1>2, RoleOfAssumption DEF KeyOf, KeysOf, Keys

\* No events, no rows.
LEMMA InitTypeInv == Init => TypeInv
<1> SUFFICES ASSUME Init PROVE TypeInv
  OBVIOUS
<1>1. QueueInv(Phases, Handling)
  BY InitQueueInv, PhasesAreFit DEF Init
<1>2. {} \in Inputs /\ NoRow \in [head : Inputs, detail : Inputs]
  BY DEF Inputs, NoRow, Row
<1>3. RefreshTypeOK
  BY <1>2 DEF Init, RefreshTypeOK
<1> QED
  BY <1>1, <1>3 DEF TypeInv

\* Every step of a refresh keeps the types.
LEMMA RefreshKeepsTypeInv == ASSUME TypeInv, NEW w \in Workers, Refresh(w) PROVE TypeInv'
<1>0. QueueInv(Phases, Handling) /\ RefreshTypeOK /\ PhasesFit(Phases, Handling)
      /\ FeedTypeOK /\ pc \in [Workers -> Phases]
  BY PhasesAreFit DEF TypeInv, QueueInv, JobTypeOK
<1>1. CASE ReadCounts(w)
  <2>1. PICK p \in {"write", "detail"} : pc' = [pc EXCEPT ![w] = p]
    BY <1>1 DEF ReadCounts
  <2>2. QueueInv(Phases, Handling)'
    BY <1>0, <1>1, <2>1, HandlerKeepsQueue DEF ReadCounts, Handling
  <2>3. RefreshTypeOK'
    BY <1>0, <1>1, CountedIsInput DEF ReadCounts, RefreshTypeOK
  <2> QED
    BY <2>2, <2>3 DEF TypeInv
<1>2. CASE ReadDetails(w)
  <2>2. QueueInv(Phases, Handling)'
    BY <1>0, <1>2, HandlerKeepsQueue DEF ReadDetails, Handling
  <2>3. RefreshTypeOK'
    BY <1>0, <1>2, CountedIsInput DEF ReadDetails, RefreshTypeOK
  <2> QED
    BY <2>2, <2>3 DEF TypeInv
<1>3. CASE Write(w)
  <2>1. PICK p \in {"read", "mark"} : pc' = [pc EXCEPT ![w] = p]
    BY <1>3 DEF Write
  <2>2. QueueInv(Phases, Handling)'
    BY <1>0, <1>3, <2>1, HandlerKeepsQueue DEF Write, Handling
  <2>3. Row(head[w], detail[w]) \in [head : Inputs, detail : Inputs] /\ {} \in Inputs
    BY <1>0 DEF RefreshTypeOK, Row, Inputs
  <2>4. \/ grain' = [grain EXCEPT ![w] = "role"]
        \/ grain' = [grain EXCEPT ![w] = "cell"]
    BY <1>3 DEF Write
  <2>5. RefreshTypeOK'
    BY <1>0, <1>3, <2>3, <2>4 DEF Write, RefreshTypeOK
  <2> QED
    BY <2>2, <2>5 DEF TypeInv
<1>4. CASE Mark(w)
  <2>1. QueueInv(Phases, Handling)'
    BY <1>0, <1>4, StampKeepsQueue DEF Mark
  <2>2. RefreshTypeOK'
    BY <1>0, <1>4 DEF Mark, RefreshTypeOK, refreshVars
  <2> QED
    BY <2>1, <2>2 DEF TypeInv
<1> QED
  BY <1>1, <1>2, <1>3, <1>4 DEF Refresh

\* Every step of the consumer keeps the types.
LEMMA NextKeepsTypeInv == ASSUME TypeInv, [Next]_vars PROVE TypeInv'
<1>0. QueueInv(Phases, Handling) /\ RefreshTypeOK /\ PhasesFit(Phases, Handling)
  BY PhasesAreFit DEF TypeInv
<1>1. CASE ReportsChange
  <2>1. QueueInv(Phases, Handling)'
    BY <1>0, <1>1, ProduceKeepsQueue DEF ReportsChange, workerVars
  <2>2. RefreshTypeOK'
    BY <1>0, <1>1 DEF ReportsChange, workerVars, RefreshTypeOK
  <2> QED
    BY <2>1, <2>2 DEF TypeInv
<1>2. CASE Hear
  <2>1. QueueInv(Phases, Handling)'
    BY <1>0, <1>2, NotifyKeepsQueue DEF Hear
  <2>2. RefreshTypeOK'
    BY <1>0, <1>2 DEF Hear, refreshVars, RefreshTypeOK
  <2> QED
    BY <2>1, <2>2 DEF TypeInv
<1>3. CASE \E w \in Workers : Begin(w)
  <2>1. QueueInv(Phases, Handling)'
    BY <1>0, <1>3, StartKeepsQueue DEF Begin
  <2>2. RefreshTypeOK'
    BY <1>0, <1>3 DEF Begin, refreshVars, RefreshTypeOK
  <2> QED
    BY <2>1, <2>2 DEF TypeInv
<1>4. CASE \E w \in Workers : Refresh(w)
  BY <1>4, RefreshKeepsTypeInv
<1>5. CASE \E w \in Workers : Crash(w)
  <2>1. QueueInv(Phases, Handling)'
    BY <1>0, <1>5, FailKeepsQueue DEF Crash
  <2>2. RefreshTypeOK'
    BY <1>0, <1>5 DEF Crash, RefreshTypeOK, Inputs
  <2> QED
    BY <2>1, <2>2 DEF TypeInv
<1>6. CASE UNCHANGED vars
  <2>1. QueueInv(Phases, Handling)'
    BY <1>0, <1>6, QueueUntouched DEF vars, workerVars
  <2>2. RefreshTypeOK'
    BY <1>0, <1>6 DEF vars, workerVars, RefreshTypeOK
  <2> QED
    BY <2>1, <2>2 DEF TypeInv
<1> QED
  BY <1>1, <1>2, <1>3, <1>4, <1>5, <1>6 DEF Next

\* Every event in the hands of the queue or of a worker was committed, and every
\* figure is one a statement over the reports can have read.
THEOREM AggregateTypeInv == Spec => []TypeInv
BY InitTypeInv, NextKeepsTypeInv, PTL DEF Spec

\* Every variable of the consumer keeps its type, whatever the size.
THEOREM AggregateTypeOK == Spec => []TypeOK
BY AggregateTypeInv, TypeInvIsTypeOK, PTL

-----------------------------------------------------------------------------
(* Exact rows.  SettledIsExact is not inductive: stamping an event can take   *)
(* the last doubt from a row, so the row has to be exact already, but for     *)
(* that one event; so what the worker is about to write must be, and what it  *)
(* has counted.  Each holds only as long as no other event, and no restored   *)
(* report, casts doubt on the row, for then a later refresh will set it right. *)

\* An unprocessed event not in X, or a restored report, concerns k.
Doubt(X, k) ==
  \/ \E e \in pending[Mine] \ X : Touches(e, k)
  \/ Live(k) \cap unannounced # {}

\* Something besides the event worker w is handling will have k refreshed.
Elsewhere(w, k) == Doubt({ev[w]}, k)

CellOf(w) == EventOf(ev[w]).cell

\* A worker holds the truth about the row it refreshes, and has left it in the
\* rows it is done with, or another refresh of them will follow.
HoldsTheTruth(w) ==
  /\ pc[w] \in {"idle", "next", "mark"} => grain[w] = "cell"
  /\ pc[w] # "write" => detail[w] = {}
  /\ pc[w] \in {"detail", "write"} /\ ~ Elsewhere(w, KeyOf(w))
       => head[w] = Counted(KeyOf(w))
  /\ pc[w] = "write" /\ ~ Elsewhere(w, KeyOf(w)) => detail[w] = Counted(KeyOf(w))
  /\ pc[w] \in {"read", "detail", "write"} /\ grain[w] = "role"
       /\ ~ Elsewhere(w, CellOf(w))
       => agg[CellOf(w)] = Exact(CellOf(w))
  /\ pc[w] = "mark" =>
       \A k \in KeysOf(CellOf(w)) : ~ Elsewhere(w, k) => agg[k] = Exact(k)

OneWorker == \A v, w \in Workers : v = w

ExactInv ==
  /\ TypeInv
  /\ SettledIsExact
  /\ \A w \in Workers : HoldsTheTruth(w)

\* Every row is in doubt while an event, or a restored report, concerns it.
LEMMA InDoubtIsDoubt == \A k : InDoubt(k) <=> Doubt({}, k)
BY DEF InDoubt, Doubt

\* What no new event and no restored report puts in doubt has not changed.
LEMMA ChangeCastsDoubt ==
  ASSUME FeedTypeOK, Produce, NEW k, NEW X \in SUBSET (Committed \cup {NoEvent}),
         ~ Doubt(X, k)'
  PROVE  ~ Doubt(X, k) /\ Counted(k)' = Counted(k)
<1>0. FeedStep
  BY ProduceIsFeedStep
<1>1. OutboxTypeOK /\ pending[Mine] \subseteq Committed
  BY PendingIsCommitted, MineAssumption DEF FeedTypeOK
<1>2. /\ \A e \in pending'[Mine] \ X : k \notin KeysOf(EventOf(e)'.cell)
      /\ \A r \in Reports : content'[r] # Hidden /\ k \in KeysOf(content'[r].cell)
           => r \notin unannounced'
  BY DEF Doubt, Touches, Live
<1>3. ASSUME NEW r \in Reports, NEW c, Told(r, c) PROVE k \notin KeysOf(c)
  <2>1. PICK e \in EventIds \ Committed :
          e \in pending'[Mine] /\ EventOf(e)'.cell = c
    BY <1>3 DEF Told
  <2>2. e \notin X
    BY <2>1, NoEventAssumption
  <2> QED
    BY <1>2, <2>1, <2>2
<1>4. ASSUME NEW r \in Reports, content[r] # Hidden, k \in KeysOf(content[r].cell)
      PROVE  content'[r] = content[r] /\ r \notin unannounced
  BY <1>0, <1>2, <1>3, <1>4 DEF FeedStep, ChangeIsTold
<1>5. ASSUME NEW r \in Reports, content'[r] # Hidden, k \in KeysOf(content'[r].cell)
      PROVE  content'[r] = content[r]
  BY <1>0, <1>2, <1>3, <1>5 DEF FeedStep, ChangeIsTold
<1>6. Live(k)' = Live(k) /\ \A r \in Live(k) : content'[r] = content[r]
  BY <1>4, <1>5 DEF Live
<1>7. Counted(k)' = Counted(k)
  BY <1>6 DEF Counted
<1>8. ~ \E e \in pending[Mine] \ X : Touches(e, k)
  <2> SUFFICES ASSUME NEW e \in pending[Mine] \ X, k \in KeysOf(EventOf(e).cell)
               PROVE  FALSE
    BY DEF Touches
  <2>1. e \in pending'[Mine] \ X /\ EventOf(e)' = EventOf(e)
    BY <1>0, <1>1 DEF FeedStep
  <2> QED
    BY <1>2, <2>1
<1>9. Live(k) \cap unannounced = {}
  BY <1>4 DEF Live
<1> QED
  BY <1>7, <1>8, <1>9 DEF Doubt

\* At first there are neither reports nor rows, and nobody is at work.
LEMMA InitExactInv == Init => ExactInv
<1> SUFFICES ASSUME Init PROVE ExactInv
  OBVIOUS
<1>1. TypeInv
  BY InitTypeInv
<1>2. \A k : Live(k) = {}
  BY DEF Init, FeedInit, Live
<1>3. \A k : Exact(k) = NoRow
  BY <1>2 DEF Exact, Counted, NoRow
<1>4. SettledIsExact
  BY <1>3 DEF Init, SettledIsExact
<1>5. \A w \in Workers : HoldsTheTruth(w)
  BY DEF Init, ConsumerInit, HoldsTheTruth
<1> QED
  BY <1>1, <1>4, <1>5 DEF ExactInv

\* The truth a worker holds changes only with a new event or a restored report.
LEMMA ReportsKeepTruth ==
  ASSUME ExactInv, ReportsChange
  PROVE  SettledIsExact' /\ \A w \in Workers : HoldsTheTruth(w)'
<1>0. /\ TypeInv /\ FeedTypeOK /\ Produce
      /\ UNCHANGED <<pc, ev, agg, grain, head, detail>>
  BY DEF ExactInv, TypeInv, QueueInv, ReportsChange, workerVars, consumerVars
<1>1. FeedStep
  BY <1>0, ProduceIsFeedStep
<1>2. ASSUME NEW k, NEW X \in SUBSET (Committed \cup {NoEvent}), ~ Doubt(X, k)'
      PROVE  ~ Doubt(X, k) /\ Exact(k)' = Exact(k) /\ Counted(k)' = Counted(k)
  BY <1>0, <1>2, ChangeCastsDoubt DEF Exact
<1>3. SettledIsExact'
  <2> SUFFICES ASSUME NEW k \in Keys, ~ InDoubt(k)' PROVE agg'[k] = Exact(k)'
    BY DEF SettledIsExact
  <2>1. ~ Doubt({}, k)'
    BY DEF InDoubt, Doubt
  <2>2. ~ Doubt({}, k) /\ Exact(k)' = Exact(k)
    BY <1>2, <2>1
  <2> QED
    BY <1>0, <2>2, InDoubtIsDoubt DEF ExactInv, SettledIsExact
<1>4. ASSUME NEW w \in Workers PROVE HoldsTheTruth(w)'
  <2>1. CASE pc[w] \notin Handling
    BY <1>0, <2>1 DEF ExactInv, HoldsTheTruth, Handling
  <2>2. CASE pc[w] \in Handling
    <3>1. ev[w] \in Committed
      BY <1>0, <2>2 DEF TypeInv, QueueInv
    <3>2. EventOf(ev[w])' = EventOf(ev[w])
      <4>1. \A e \in Committed : EventOf(e)' = EventOf(e)
        BY <1>1 DEF FeedStep
      <4>2. PICK e \in Committed : e = ev[w]
        BY <3>1
      <4>3. ev'[w] = e
        BY <1>0, <4>2
      <4> QED
        BY <4>1, <4>2, <4>3
    <3>3. PICK c, key : /\ CellOf(w) = c /\ CellOf(w)' = c
                        /\ KeyOf(w) = key /\ KeyOf(w)' = key
      BY <1>0, <3>2 DEF CellOf, KeyOf
    <3>4. ASSUME NEW k, ~ Elsewhere(w, k)'
          PROVE  ~ Elsewhere(w, k) /\ Exact(k)' = Exact(k) /\ Counted(k)' = Counted(k)
      <4>1. PICK X \in SUBSET (Committed \cup {NoEvent}) : X = {ev[w]}
        BY <3>1
      <4>2. ~ Doubt(X, k)'
        BY <1>0, <3>4, <4>1 DEF Elsewhere, Doubt
      <4> QED
        BY <1>2, <4>1, <4>2 DEF Elsewhere
    <3>5. HoldsTheTruth(w)
      BY DEF ExactInv
    <3>6. /\ pc'[w] \in {"idle", "next", "mark"} => grain'[w] = "cell"
          /\ pc'[w] # "write" => detail'[w] = {}
      BY <1>0, <3>5 DEF HoldsTheTruth
    <3>7. /\ pc'[w] \in {"detail", "write"} /\ ~ Elsewhere(w, key)'
               => head'[w] = Counted(key)'
          /\ pc'[w] = "write" /\ ~ Elsewhere(w, key)' => detail'[w] = Counted(key)'
      BY <1>0, <3>3, <3>4, <3>5 DEF HoldsTheTruth
    <3>8. pc'[w] \in {"read", "detail", "write"} /\ grain'[w] = "role"
            /\ ~ Elsewhere(w, c)' => agg'[c] = Exact(c)'
      BY <1>0, <3>3, <3>4, <3>5 DEF HoldsTheTruth
    <3>9. pc'[w] = "mark" =>
            \A k \in KeysOf(c) : ~ Elsewhere(w, k)' => agg'[k] = Exact(k)'
      BY <1>0, <3>3, <3>4, <3>5 DEF HoldsTheTruth
    <3> QED
      BY <3>3, <3>6, <3>7, <3>8, <3>9 DEF HoldsTheTruth, KeysOf
  <2> QED
    BY <2>1, <2>2
<1> QED
  BY <1>3, <1>4

\* Doubts and what a statement reads depend on the reports and the events alone.
LEMMA SameReportsSameTruth ==
  ASSUME UNCHANGED feedVars
  PROVE  /\ \A k : Counted(k)' = Counted(k) /\ Exact(k)' = Exact(k)
         /\ \A X, k : Doubt(X, k)' <=> Doubt(X, k)
         /\ \A k : InDoubt(k)' <=> InDoubt(k)
         /\ \A e : EventOf(e)' = EventOf(e)
<1>1. \A k : Live(k)' = Live(k) /\ Counted(k)' = Counted(k)
  BY DEF feedVars, Live, Counted
<1>2. \A e : EventOf(e)' = EventOf(e)
  BY DEF feedVars, EventOf
<1>3. UNCHANGED <<pending, unannounced>>
  BY DEF feedVars
<1> QED
  BY <1>1, <1>2, <1>3 DEF Exact, Doubt, InDoubt, Touches

\* Taking up a job or an event, with nothing counted yet.
LEMMA BeginKeepsTruth ==
  ASSUME ExactInv, NEW w \in Workers, Begin(w), OneWorker
  PROVE  SettledIsExact' /\ \A v \in Workers : HoldsTheTruth(v)'
<1>0. /\ UNCHANGED <<feedVars, agg, grain, head, detail>>
      /\ pc[w] \in {"idle", "next"} /\ pc'[w] \in {"next", "read"}
      /\ HoldsTheTruth(w)
  BY DEF ExactInv, TypeInv, QueueInv, JobTypeOK, Begin, Start, StartSweep, Take,
     StartEventJob, Handle, refreshVars
<1>1. SettledIsExact'
  BY <1>0, SameReportsSameTruth DEF ExactInv, SettledIsExact
<1>2. HoldsTheTruth(w)'
  BY <1>0 DEF HoldsTheTruth
<1>3. \A v \in Workers : v = w
  BY DEF OneWorker
<1> QED
  BY <1>1, <1>2, <1>3

\* A refresh that dies has written nothing it had not finished.
LEMMA CrashKeepsTruth ==
  ASSUME ExactInv, NEW w \in Workers, Crash(w), OneWorker
  PROVE  SettledIsExact' /\ \A v \in Workers : HoldsTheTruth(v)'
<1>0. /\ UNCHANGED <<feedVars, agg>>
      /\ pc'[w] = "idle" /\ grain'[w] = "cell" /\ detail'[w] = {}
  BY DEF ExactInv, TypeInv, QueueInv, JobTypeOK, RefreshTypeOK, Crash, Fail
<1>1. SettledIsExact'
  BY <1>0, SameReportsSameTruth DEF ExactInv, SettledIsExact
<1>2. HoldsTheTruth(w)'
  BY <1>0 DEF HoldsTheTruth
<1>3. \A v \in Workers : v = w
  BY DEF OneWorker
<1> QED
  BY <1>1, <1>2, <1>3

\* The counts are the truth of the moment they are read.
LEMMA ReadsKeepTruth ==
  ASSUME ExactInv, NEW w \in Workers, ReadCounts(w) \/ ReadDetails(w), OneWorker
  PROVE  SettledIsExact' /\ \A v \in Workers : HoldsTheTruth(v)'
<1>0. /\ TypeInv /\ HoldsTheTruth(w)
      /\ UNCHANGED <<feedVars, ev, agg, grain>>
  BY DEF ExactInv, ReadCounts, ReadDetails
<1>1. SettledIsExact'
  BY <1>0, SameReportsSameTruth DEF ExactInv, SettledIsExact
<1>2. PICK c, key : /\ CellOf(w) = c /\ CellOf(w)' = c
                    /\ KeyOf(w) = key /\ KeyOf(w)' = key
  BY <1>0, SameReportsSameTruth DEF CellOf, KeyOf
<1>3. \A k : Elsewhere(w, k)' <=> Elsewhere(w, k)
  BY <1>0 DEF Elsewhere, Doubt, feedVars, Touches, EventOf, Live
<1>4. /\ pc \in [Workers -> Phases] /\ head \in [Workers -> Inputs]
      /\ detail \in [Workers -> Inputs]
  BY <1>0 DEF TypeInv, QueueInv, JobTypeOK, RefreshTypeOK
<1>5. ASSUME ReadCounts(w) PROVE HoldsTheTruth(w)'
  <2>1. /\ pc[w] = "read" /\ pc'[w] \in {"write", "detail"}
        /\ head'[w] = Counted(key) /\ detail' = detail
        /\ pc'[w] = "write" => Counted(key) = {}
    BY <1>2, <1>4, <1>5 DEF ReadCounts
  <2> QED
    BY <1>0, <1>2, <1>3, <2>1, SameReportsSameTruth DEF HoldsTheTruth
<1>6. ASSUME ReadDetails(w) PROVE HoldsTheTruth(w)'
  <2>1. /\ pc[w] = "detail" /\ pc'[w] = "write"
        /\ detail'[w] = Counted(key) /\ head' = head
    BY <1>2, <1>4, <1>6 DEF ReadDetails
  <2> QED
    BY <1>0, <1>2, <1>3, <2>1, SameReportsSameTruth DEF HoldsTheTruth
<1>7. HoldsTheTruth(w)' /\ \A v \in Workers : v = w
  BY <1>5, <1>6 DEF OneWorker
<1> QED
  BY <1>1, <1>7

\* The row that is written is exact unless another refresh will follow, and the
\* row of the cell stays so while the row of its role is written.
LEMMA WriteKeepsTruth ==
  ASSUME ExactInv, NEW w \in Workers, Write(w), OneWorker
  PROVE  SettledIsExact' /\ \A v \in Workers : HoldsTheTruth(v)'
<1>0. /\ TypeInv /\ HoldsTheTruth(w) /\ pc[w] = "write"
      /\ UNCHANGED <<feedVars, ev>>
  BY DEF ExactInv, Write
<1>1. PICK c, key : /\ CellOf(w) = c /\ CellOf(w)' = c
                    /\ KeyOf(w) = key
  BY <1>0, SameReportsSameTruth DEF CellOf
<1>2. /\ \A k : Elsewhere(w, k)' <=> Elsewhere(w, k)
      /\ \A k : ~ InDoubt(k) => ~ Elsewhere(w, k)
  BY <1>0 DEF Elsewhere, Doubt, InDoubt, feedVars, Touches, EventOf, Live
<1>3. /\ c \in Cells /\ RoleOf[c] \in Roles /\ c # RoleOf[c]
      /\ key = IF grain[w] = "cell" THEN c ELSE RoleOf[c]
      /\ KeysOf(c) = {c, RoleOf[c]} /\ KeysOf(c) \subseteq Keys
  BY <1>0, <1>1, KeyOfIsKey, KeysAssumption DEF CellOf, KeyOf, KeysOf, Handling
<1>4. /\ pc \in [Workers -> Phases] /\ grain \in [Workers -> {"cell", "role"}]
      /\ DOMAIN agg = Keys /\ DOMAIN detail = Workers
  BY <1>0 DEF TypeInv, QueueInv, JobTypeOK, RefreshTypeOK
<1>5. /\ agg' = [agg EXCEPT ![key] = Row(head[w], detail[w])]
      /\ detail' = [detail EXCEPT ![w] = {}]
  BY <1>1 DEF Write
<1>6. ~ Elsewhere(w, key) => agg'[key] = Exact(key)
  BY <1>0, <1>1, <1>3, <1>4, <1>5 DEF HoldsTheTruth, Exact
<1>7. \A k \in Keys \ {key} : agg'[k] = agg[k]
  BY <1>4, <1>5
<1>8. SettledIsExact'
  <2> SUFFICES ASSUME NEW k \in Keys, ~ InDoubt(k) PROVE agg'[k] = Exact(k)
    BY <1>0, SameReportsSameTruth DEF SettledIsExact
  <2> QED
    BY <1>2, <1>6, <1>7 DEF ExactInv, SettledIsExact
<1>9. ASSUME grain[w] = "cell" PROVE HoldsTheTruth(w)'
  <2>1. pc'[w] = "read" /\ grain'[w] = "role" /\ detail'[w] = {} /\ key = c
    BY <1>3, <1>4, <1>5, <1>9 DEF Write
  <2>2. ~ Elsewhere(w, c) => agg'[c] = Exact(c)
    BY <1>6, <2>1
  <2> QED
    BY <1>0, <1>1, <1>2, <2>1, <2>2, SameReportsSameTruth DEF HoldsTheTruth
<1>10. ASSUME grain[w] # "cell" PROVE HoldsTheTruth(w)'
  <2>1. /\ pc'[w] = "mark" /\ grain'[w] = "cell" /\ detail'[w] = {}
        /\ grain[w] = "role" /\ key = RoleOf[c]
    BY <1>3, <1>4, <1>5, <1>10 DEF Write
  <2>2. ~ Elsewhere(w, c) => agg'[c] = Exact(c)
    BY <1>0, <1>1, <1>3, <1>7, <2>1 DEF HoldsTheTruth, Keys
  <2>3. \A k \in KeysOf(c) : ~ Elsewhere(w, k) => agg'[k] = Exact(k)
    BY <1>3, <1>6, <2>1, <2>2
  <2>4. \A k \in KeysOf(CellOf(w))' : k \in KeysOf(c)
    BY <1>1 DEF KeysOf
  <2> QED
    BY <1>0, <1>2, <2>1, <2>3, <2>4, SameReportsSameTruth DEF HoldsTheTruth
<1>11. HoldsTheTruth(w)' /\ \A v \in Workers : v = w
  BY <1>9, <1>10 DEF OneWorker
<1> QED
  BY <1>8, <1>11

\* Stamping an event takes no doubt from a row that is not exact.
LEMMA MarkKeepsTruth ==
  ASSUME ExactInv, NEW w \in Workers, Mark(w), OneWorker
  PROVE  SettledIsExact' /\ \A v \in Workers : HoldsTheTruth(v)'
<1>0. /\ TypeInv /\ HoldsTheTruth(w) /\ pc[w] = "mark"
      /\ UNCHANGED <<log, content, unannounced, agg, grain, head, detail>>
      /\ pending' = [pending EXCEPT ![Mine] = @ \ {ev[w]}]
      /\ pc'[w] \in {"idle", "next"}
  BY DEF ExactInv, TypeInv, QueueInv, JobTypeOK, Mark, Stamp, MarkEventProcessed,
     refreshVars
<1>1. pending'[Mine] = pending[Mine] \ {ev[w]}
  BY <1>0, MineAssumption DEF TypeInv, QueueInv, FeedTypeOK, OutboxTypeOK
<1>2. ASSUME NEW k, ~ InDoubt(k)'
      PROVE  ~ Elsewhere(w, k) /\ (~ InDoubt(k) \/ Touches(ev[w], k))
  BY <1>0, <1>1, <1>2 DEF InDoubt, Elsewhere, Doubt, Touches, EventOf, Live
<1>3. \A k : Exact(k)' = Exact(k)
  BY <1>0 DEF Exact, Counted, Live
<1>4. SettledIsExact'
  <2> SUFFICES ASSUME NEW k \in Keys, ~ InDoubt(k)' PROVE agg[k] = Exact(k)
    BY <1>0, <1>3 DEF SettledIsExact
  <2>1. CASE ~ InDoubt(k)
    BY <2>1 DEF ExactInv, SettledIsExact
  <2>2. CASE Touches(ev[w], k)
    BY <1>0, <1>2, <2>2 DEF HoldsTheTruth, Touches, CellOf
  <2> QED
    BY <1>2, <2>1, <2>2
<1>5. HoldsTheTruth(w)' /\ \A v \in Workers : v = w
  BY <1>0 DEF HoldsTheTruth, OneWorker
<1> QED
  BY <1>4, <1>5

\* Every step of a lone worker, and of the reports it looks at, keeps its rows
\* exact.
LEMMA NextKeepsExactInv ==
  ASSUME ExactInv, [Next]_vars, OneWorker
  PROVE  ExactInv'
<1>0. TypeInv'
  BY NextKeepsTypeInv DEF ExactInv
<1>1. CASE ReportsChange
  BY <1>0, <1>1, ReportsKeepTruth DEF ExactInv
<1>2. CASE \E w \in Workers : Begin(w)
  BY <1>0, <1>2, BeginKeepsTruth DEF ExactInv
<1>3. CASE \E w \in Workers : Refresh(w)
  BY <1>0, <1>3, ReadsKeepTruth, WriteKeepsTruth, MarkKeepsTruth DEF ExactInv, Refresh
<1>4. CASE \E w \in Workers : Crash(w)
  BY <1>0, <1>4, CrashKeepsTruth DEF ExactInv
<1>5. CASE Hear \/ UNCHANGED vars
  <2>1. UNCHANGED <<feedVars, pc, ev, agg, grain, head, detail>>
    BY <1>5 DEF Hear, Notify, jobVars, refreshVars, vars, workerVars, consumerVars
  <2>2. SettledIsExact'
    BY <2>1, SameReportsSameTruth DEF ExactInv, SettledIsExact
  <2>3. ASSUME NEW w \in Workers PROVE HoldsTheTruth(w)'
    <3>1. PICK c, key : /\ CellOf(w) = c /\ CellOf(w)' = c
                        /\ KeyOf(w) = key /\ KeyOf(w)' = key
      BY <2>1, SameReportsSameTruth DEF CellOf, KeyOf
    <3>2. \A k : Elsewhere(w, k)' <=> Elsewhere(w, k)
      BY <2>1 DEF Elsewhere, Doubt, feedVars, Touches, EventOf, Live
    <3>3. \A k \in KeysOf(CellOf(w))' : k \in KeysOf(c)
      BY <3>1 DEF KeysOf
    <3> QED
      BY <2>1, <3>1, <3>2, <3>3, SameReportsSameTruth DEF ExactInv, HoldsTheTruth
  <2> QED
    BY <1>0, <2>2, <2>3 DEF ExactInv
<1> QED
  BY <1>1, <1>2, <1>3, <1>4, <1>5 DEF Next

\* With one worker, the row of every cell and of every role counts exactly what
\* is live in it as soon as its events are processed: for any number of reports
\* and events, claimed in any order, told by the bridge or not, and wherever jobs
\* die.  With two workers it does not hold; AggregateRace shows how.
THEOREM AggregateSettledIsExact ==
  ASSUME OneWorker
  PROVE  Spec => []SettledIsExact
<1>1. ExactInv /\ [Next]_vars => ExactInv'
  BY NextKeepsExactInv
<1>2. ExactInv => SettledIsExact
  BY DEF ExactInv
<1> QED
  BY <1>1, <1>2, InitExactInv, PTL DEF Spec

-----------------------------------------------------------------------------
(* The daily rebuild beside the workers.                                   *)

Rows == [head : Inputs, detail : Inputs]

ReconcileInv == TypeInv /\ ReconcileTypeOK

\* No rebuild is under way at first.
LEMMA InitReconcileInv == ReconcileInit => ReconcileInv
<1> SUFFICES ASSUME ReconcileInit PROVE ReconcileInv
  OBVIOUS
<1>1. TypeInv
  BY InitTypeInv DEF ReconcileInit
<1>2. {} \in Inputs /\ DOMAIN staged = {}
  BY DEF ReconcileInit, Inputs
<1>3. ReconcileTypeOK
  BY <1>2 DEF ReconcileInit, ReconcileTypeOK
<1> QED
  BY <1>1, <1>3 DEF ReconcileInv

\* What the rebuild sees of a key is a row.
LEMMA SeenIsRow ==
  ASSUME ReconcileInv, NEW k \in Keys
  PROVE  Seen(k) \in Rows
BY DEF ReconcileInv, TypeInv, RefreshTypeOK, ReconcileTypeOK, Seen, Rows

\* Staging rows leaves rows staged.
LEMMA StageKeepsRows ==
  ASSUME ReconcileTypeOK, NEW rows, DOMAIN rows \subseteq Keys,
         \A k \in DOMAIN rows : rows[k] \in Rows, Stage(rows)
  PROVE  /\ DOMAIN staged' \subseteq Keys
         /\ \A k \in DOMAIN staged' : staged'[k] \in Rows
<1>1. staged' = [k \in DOMAIN rows \cup DOMAIN staged |->
                   IF k \in DOMAIN rows THEN rows[k] ELSE staged[k]]
  BY DEF Stage
<1>2. /\ DOMAIN staged \subseteq Keys
      /\ \A k \in DOMAIN staged : staged[k] \in Rows
  BY DEF ReconcileTypeOK, Rows
<1> QED
  BY <1>1, <1>2

\* The start of either half of the rebuild.
LEMMA RebuildKeepsTypes ==
  ASSUME ReconcileTypeOK, NEW keys \in SUBSET Keys, Rebuild(keys),
         stage' \in {"off", "cells", "roles"}
  PROVE  ReconcileTypeOK'
<1> DEFINE rows == [k \in {j \in keys : Live(j) = {} /\ Seen(j) # NoRow} |-> NoRow]
<1>1. Stage(rows) /\ plan' \subseteq Keys /\ UNCHANGED <<current, counted>>
  BY DEF Rebuild
<1>2. NoRow \in Rows
  BY DEF NoRow, Row, Rows, Inputs
<1>3. DOMAIN rows \subseteq Keys /\ \A k \in DOMAIN rows : rows[k] \in Rows
  BY <1>2
<1> HIDE DEF rows
<1>4. /\ DOMAIN staged' \subseteq Keys
      /\ \A k \in DOMAIN staged' : staged'[k] \in Rows
  BY <1>1, <1>3, StageKeepsRows
<1> QED
  BY <1>1, <1>4 DEF ReconcileTypeOK, Rows

\* Every step of the rebuild keeps the types.
LEMMA ReconcileKeepsTypes == ASSUME ReconcileInv, Reconcile PROVE ReconcileInv'
<1>0. TypeInv /\ ReconcileTypeOK /\ FeedTypeOK
  BY DEF ReconcileInv, TypeInv, QueueInv
<1>1. ASSUME UNCHANGED vars PROVE TypeInv'
  BY <1>0, <1>1, NextKeepsTypeInv
<1>2. CASE StartReconcile
  BY <1>0, <1>1, <1>2, RebuildKeepsTypes DEF StartReconcile, Keys, ReconcileInv
<1>3. CASE StartRoles
  BY <1>0, <1>1, <1>3, RebuildKeepsTypes DEF StartRoles, Keys, ReconcileInv
<1>4. CASE \E k \in Keys : CountAgain(k)
  <2>1. PICK k \in Keys : CountAgain(k)
    BY <1>4
  <2>2. UNCHANGED vars /\ ReconcileTypeOK'
    BY <1>0, <2>1, CountedIsInput DEF CountAgain, ReconcileTypeOK
  <2> QED
    BY <1>1, <2>2 DEF ReconcileInv
<1>5. CASE StageRow
  <2>1. /\ UNCHANGED <<vars, stage>> /\ current \in Keys
        /\ plan' = plan \ {current} /\ current' = NoKey /\ counted' = {}
    BY <1>0, <1>5 DEF StageRow, ReconcileTypeOK
  <2>2. ASSUME NEW row \in Rows, Stage([k \in {current} |-> row])
        PROVE  /\ DOMAIN staged' \subseteq Keys
               /\ \A k \in DOMAIN staged' : staged'[k] \in Rows
    BY <1>0, <2>1, <2>2, StageKeepsRows
  <2>3. /\ Row(counted, Counted(current)) \in Rows
        /\ NoRow \in Rows
    BY <1>0, CountedIsInput DEF ReconcileTypeOK, Row, NoRow, Rows, Inputs
  <2>4. /\ DOMAIN staged' \subseteq Keys
        /\ \A k \in DOMAIN staged' : staged'[k] \in Rows
    BY <1>0, <1>5, <2>2, <2>3 DEF StageRow, ReconcileTypeOK, Rows
  <2>5. ReconcileTypeOK'
    BY <1>0, <2>1, <2>4 DEF ReconcileTypeOK, Rows, Inputs
  <2> QED
    BY <1>1, <2>1, <2>5 DEF ReconcileInv
<1>6. CASE CommitReconcile
  <2>1. /\ agg' = [k \in Keys |-> Seen(k)]
        /\ UNCHANGED <<feedVars, consumerVars, grain, head, detail>>
    BY <1>6 DEF CommitReconcile, refreshVars
  <2>2. QueueInv(Phases, Handling)'
    BY <1>0, <2>1, QueueUntouched DEF TypeInv
  <2>3. RefreshTypeOK'
    BY <1>0, <2>1, SeenIsRow DEF TypeInv, RefreshTypeOK, ReconcileInv, Rows
  <2>4. ReconcileTypeOK'
    BY <1>6 DEF CommitReconcile, Forget, ReconcileTypeOK, Inputs
  <2> QED
    BY <2>2, <2>3, <2>4 DEF TypeInv, ReconcileInv
<1> QED
  BY <1>2, <1>3, <1>4, <1>5, <1>6 DEF Reconcile

\* A rebuild that fails leaves everything as it found it.
LEMMA AbortKeepsTypes == ASSUME ReconcileInv, AbortReconcile PROVE ReconcileInv'
<1>1. /\ failures' \in 0 .. MaxFailures
      /\ UNCHANGED <<feedVars, pc, ev, todo, onJob, queueVars, agg, refreshVars>>
  BY MaxFailuresAssumption DEF AbortReconcile, ReconcileInv, TypeInv, QueueInv, JobTypeOK
<1>2. UNCHANGED <<content, unannounced, log, pending, pc, ev, todo, onJob, jobs, heard,
                  agg, grain, head, detail>>
  BY <1>1 DEF feedVars, queueVars, refreshVars
<1>3. QueueInv(Phases, Handling)'
  BY <1>1, <1>2 DEF ReconcileInv, TypeInv, QueueInv, JobTypeOK, FeedTypeOK, OutboxTypeOK,
     Committed
<1>4. RefreshTypeOK'
  BY <1>2 DEF ReconcileInv, TypeInv, RefreshTypeOK
<1>5. ReconcileTypeOK'
  BY DEF AbortReconcile, Forget, ReconcileTypeOK, Inputs
<1> QED
  BY <1>3, <1>4, <1>5 DEF TypeInv, ReconcileInv

\* Every step of the workers and of the rebuild keeps the types.
LEMMA NextKeepsReconcileInv ==
  ASSUME ReconcileInv, [ReconcileNext]_allVars
  PROVE  ReconcileInv'
<1>1. CASE Next /\ UNCHANGED reconcileVars
  BY <1>1, NextKeepsTypeInv DEF ReconcileInv, ReconcileTypeOK, reconcileVars
<1>2. CASE UNCHANGED allVars
  BY <1>2, NextKeepsTypeInv DEF ReconcileInv, ReconcileTypeOK, reconcileVars, allVars
<1>3. CASE Reconcile \/ AbortReconcile
  BY <1>3, ReconcileKeepsTypes, AbortKeepsTypes
<1> QED
  BY <1>1, <1>2, <1>3 DEF ReconcileNext, Next, Work

\* Beside the daily rebuild, too, every row is one a worker or the rebuild can
\* have read from the reports: a rebuild stages rows of keys alone, and commits
\* nothing else.
THEOREM AggregateReconcileTypeOK == ReconcileSpec => [](TypeOK /\ ReconcileTypeOK)
<1>1. ReconcileInv => TypeOK /\ ReconcileTypeOK
  BY TypeInvIsTypeOK DEF ReconcileInv
<1> QED
  BY <1>1, InitReconcileInv, NextKeepsReconcileInv, PTL DEF ReconcileSpec

=============================================================================
